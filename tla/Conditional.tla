---------------------------- MODULE Conditional -----------------------------
(* The functions of xl-fn that test several criteria: COUNTIFS, SUMIFS,      *)
(* AVERAGEIFS, MINIFS and MAXIFS over ranges walked in lockstep, and DSUM    *)
(* and DAVERAGE over the records of a database. A pair is a tested line, its *)
(* extent and its criterion; the aggregated line is `results`.               *)
EXTENDS Lookup

CONSTANTS
  OtherCriteria,  \* criteria asked for on the second line
  KeyLabel, ResultLabel  \* the texts that head the two lines in a database

ASSUME ConditionalAssumption == KeyLabel # ResultLabel /\ 0 \notin {KeyLabel, ResultLabel}

On(line, c, ext) == [line |-> line, crit |-> c, ext |-> ext]

-----------------------------------------------------------------------------
(* The criteria at one position.                                             *)

Passes == <<"passes">>

\* Fault: a cell that does not match is excluded before anything refuses it.
Judge_Launders(m, cell) ==
  IF ~Matches(m, cell) THEN Skip ELSE IF Refuses(m, cell) THEN Refusal(cell) ELSE Passes

(* What a call adds, position by position, without those that add nothing. *)
Compact(parts) == SelectSeq(parts, LAMBDA p : p # Skip)

(* A cell that was never evaluated is refused, not merely excluded. *)
Judge(m, cell) ==
  IF Refuses(m, cell) THEN Refusal(cell) ELSE IF Matches(m, cell) THEN Passes ELSE Skip

(* The criteria are tested in order: the first that its cell fails excludes  *)
(* the position, the first that cannot judge its cell refuses the call.      *)
TestAt(tests) ==
  LET stops == SelectSeq([i \in DOMAIN tests |-> Judge(tests[i].matcher, tests[i].cell)],
                         LAMBDA verdict : verdict # Passes)
  IN IF stops = <<>> THEN Passes ELSE stops[1]

-----------------------------------------------------------------------------
(* COUNTIFS, SUMIFS, AVERAGEIFS, MINIFS, MAXIFS.                             *)

Compiled(pairs) == [i \in DOMAIN pairs |-> Parse(pairs[i].crit)]
Bounded(ext) == IF ext = Whole THEN Unsupported ELSE Skip
Shaped(ext, asked) == IF ext = asked THEN Skip ELSE Err("VALUE")

AtPosition(pairs, p) ==
  TestAt([i \in DOMAIN pairs |->
            [matcher |-> Parse(pairs[i].crit), cell |-> Read(pairs[i].line, p)]])

(* What each position adds, or the refusal of the call as the only part. The *)
(* checks of the call come in the order the code makes them.                 *)
Lockstep(checks, ext, pairs, Added(_)) ==
  LET refusals == SelectSeq(Compiled(pairs) \o checks, IsErr)
      part(p) == LET verdict == AtPosition(pairs, p) IN IF verdict = Passes THEN Added(p) ELSE verdict
  IN IF refusals # <<>> THEN <<refusals[1]>> ELSE Compact([i \in 1..ext |-> part(i - 1)])

(* COUNTIFS reads every range before it compares their shapes... *)
CountIfs(pairs) ==
  LET ext == pairs[1].ext
      checks == [i \in DOMAIN pairs |-> Bounded(pairs[i].ext)]
                \o [i \in DOMAIN pairs |-> Shaped(pairs[i].ext, ext)]
  IN Total(Lockstep(checks, ext, pairs, LAMBDA p : Num(1)))

(* ... the others compare each range with `results` as they read it. *)
IfsParts(ext, pairs) ==
  LET checks == <<Bounded(ext)>>
                \o FlattenSeq([i \in DOMAIN pairs |-> <<Bounded(pairs[i].ext), Shaped(pairs[i].ext, ext)>>])
  IN Lockstep(checks, ext, pairs, LAMBDA p : Streamed(Read(results, p)))

SumIfs(ext, pairs) == Total(IfsParts(ext, pairs))
AverageIfs(ext, pairs) == Mean(IfsParts(ext, pairs))

(* The least (way = -1) or greatest (way = 1) number, 0 without one. *)
Extreme(parts, way) ==
  LET replaces(n, best) == best = Nothing \/ Sign(n[2] - best[2]) = way
  IN IF IsErr(Total(parts)) THEN Total(parts)
     ELSE IF parts = <<>> THEN Num(0)
     ELSE FoldLeft(LAMBDA best, n : IF replaces(n, best) THEN n ELSE best, Nothing, parts)

MinIfs(ext, pairs) == Extreme(IfsParts(ext, pairs), -1)
MaxIfs(ext, pairs) == Extreme(IfsParts(ext, pairs), 1)

-----------------------------------------------------------------------------
(* DSUM and DAVERAGE. A database and a criteria range are sequences of rows, *)
(* the first of which holds labels.                                          *)

FindHeader(headers, label) ==
  LET found == {i \in DOMAIN headers : headers[i] = label}
  IN IF found = {} THEN Nothing ELSE Row(Min(found))

(* A column number or label. *)
ResolveField(field, headers) ==
  CASE field[1] = "err" -> field
    [] field[1] = "num" -> IF field[2] \in DOMAIN headers THEN Row(field[2]) ELSE Err("VALUE")
    [] field[1] = "text" -> IF FindHeader(headers, field) = Nothing THEN Err("VALUE")
                            ELSE FindHeader(headers, field)
    [] OTHER -> Err("VALUE")

Unsatisfiable == <<"unsatisfiable">>

(* The condition a cell of the criteria range states: none when it is blank, *)
(* and one that no record meets under a label that heads no column.          *)
Condition(cell, label, headers) ==
  IF IsBlank(cell) THEN Skip
  ELSE IF label[1] # "text" \/ label = Text(0) THEN Unsupported
  ELSE IF FindHeader(headers, label) = Nothing THEN Unsatisfiable
  ELSE IF IsErr(Parse(cell)) THEN Parse(cell)
  ELSE <<"on", FindHeader(headers, label)[2], Parse(cell)>>

CompileConditions(criteria, headers) ==
  LET row(i) == Compact([c \in DOMAIN criteria[i] |-> Condition(criteria[i][c], criteria[1][c], headers)])
  IN [i \in 1..(Len(criteria) - 1) |-> row(i + 1)]

(* The conditions of a row must all hold, and one row is enough. *)
RecordMatches(record, rows) ==
  LET test(row) == TestAt([i \in DOMAIN row |-> [matcher |-> row[i][3], cell |-> record[row[i][2]]]])
      decided == Compact([i \in DOMAIN rows |-> test(rows[i])])
  IN IF decided = <<>> THEN Skip ELSE decided[1]

DatabaseParts(database, field, criteria) ==
  LET headers == database[1]
      column == ResolveField(field, headers)
      compiled == CompileConditions(criteria, headers)
      rows == SelectSeq(compiled, LAMBDA row : Unsatisfiable \notin Range(row))
      refusals == SelectSeq(<<column>> \o FlattenSeq(compiled), IsErr)
      part(record) == LET verdict == RecordMatches(record, rows)
                      IN IF verdict = Passes THEN Streamed(record[column[2]]) ELSE verdict
  IN IF refusals # <<>> THEN <<refusals[1]>>
     ELSE Compact([i \in 1..(Len(database) - 1) |-> part(database[i + 1])])

DSum(database, field, criteria) == Total(DatabaseParts(database, field, criteria))
DAverage(database, field, criteria) == Mean(DatabaseParts(database, field, criteria))

-----------------------------------------------------------------------------
(* What the functions promise one another.                                   *)

(* The two lines below their labels. *)
Labels == <<Text(KeyLabel), Text(ResultLabel)>>
Database(ext) == <<Labels>> \o [i \in 1..ext |-> <<Read(keys, i - 1), Read(results, i - 1)>>]

(* The functions with one criterion, the functions with several and the      *)
(* database functions are eight loops of their own over the same criteria:   *)
(* with one pair, COUNTIFS is COUNTIF, SUMIFS is SUMIF and AVERAGEIFS is     *)
(* AVERAGEIF, error for error; a database whose criteria stand in one row is *)
(* the same conjunction; over two rows, read as a disjunction, the sum and   *)
(* the conjunction's sum are those of the two criteria taken alone; and the  *)
(* mean of the numbers lies between MINIFS and MAXIFS.                       *)
(* (func_countifs.rs, func_sumifs.rs, func_averageifs.rs, func_dsum.rs,      *)
(* func_daverage.rs against func_countif.rs, func_sumif.rs, func_averageif.rs)*)
CriteriaTwinsAgree ==
  \A c \in Criteria :
    LET ext == LastCell
        one == <<On(keys, c, ext)>>
        records(rows) == DSum(Database(ext), Text(ResultLabel), <<Labels>> \o rows)
    IN /\ CountIfs(one) = CountIf(c, ext)
       /\ SumIfs(ext, one) = SumIf(c, ext, ext)
       /\ AverageIfs(ext, one) = AverageIf(c, ext, ext)
       /\ LET mean == AverageIfs(ext, one)
          IN mean[1] = "mean" => /\ MinIfs(ext, one)[2] * mean[3] <= mean[2]
                                 /\ mean[2] <= MaxIfs(ext, one)[2] * mean[3]
                                 /\ mean[3] <= CountIfs(one)[2]
       /\ ~IsBlank(c) =>
            /\ records(<<<<c, Blank>>>>) = SumIf(c, ext, ext)
            /\ DAverage(Database(ext), Num(2), <<Labels, <<c, Blank>>>>) = AverageIf(c, ext, ext)
            /\ \A d \in OtherCriteria :
                 LET both == SumIfs(ext, <<On(keys, c, ext), On(results, d, ext)>>)
                     either == records(<<<<c, Blank>>, <<Blank, d>>>>)
                     first == SumIfs(ext, one)
                     second == SumIfs(ext, <<On(results, d, ext)>>)
                 IN /\ records(<<<<c, d>>>>) = both
                    /\ ~(IsErr(first) \/ IsErr(second) \/ IsErr(both) \/ IsErr(either))
                       => both[2] + either[2] = first[2] + second[2]

=============================================================================
