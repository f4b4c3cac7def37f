------------------------------- MODULE Lookup -------------------------------
(* The functions of xl-fn that search or scan a line of cells: MATCH,        *)
(* VLOOKUP, HLOOKUP, LOOKUP, COUNTIF, SUMIF and AVERAGEIF, over the two      *)
(* walks the engine gives them. A bounded range is walked densely, blanks    *)
(* included; a whole column or row only where a cell is stored (RFC 0001,    *)
(* RFC 0008).                                                                *)
(*                                                                           *)
(* The sheet is two parallel lines of cells 0..LastCell, `keys` and          *)
(* `results`: columns A and B, or rows 1 and 2 for a function that scans     *)
(* rows. An extent is Whole, or the number n <= LastCell of the cells of a   *)
(* bounded range.                                                            *)
(* A text stands for all its spellings up to case; its number is its place   *)
(* in the collation, 0 that of the empty text.                               *)
EXTENDS Integers, Sequences, FiniteSets, SequencesExt, FiniteSetsExt, Functions

CONSTANTS
  LastCell,      \* the last position of a line
  KeyInputs,     \* position -> what an edit may type there in `keys`
  ResultInputs,  \* the same for `results`
  NumericText,   \* text -> the number it coerces to
  Globs,         \* text with a wildcard -> the texts it matches
  Structural,    \* the wildcard texts without a literal character
  NonAscii,      \* the texts that collate by locale
  Keys,          \* lookup values asked for
  Criteria       \* criteria asked for

(* What a cell holds: an evaluated value. *)
Value == {<<"blank">>} \union ({"num"} \X Int) \union ({"text"} \X Nat)
         \union ({"bool"} \X BOOLEAN) \union ({"err"} \X STRING)

ASSUME LookupAssumption ==
  /\ LastCell \in Nat
  /\ DOMAIN KeyInputs \union DOMAIN ResultInputs \subseteq 0..(LastCell - 1)
  /\ Structural \subseteq DOMAIN Globs
  /\ 0 \notin NonAscii \union DOMAIN Globs \union DOMAIN NumericText
  /\ \A p \in DOMAIN KeyInputs : KeyInputs[p] \subseteq Value
  /\ Keys \subseteq Value

VARIABLES
  keys,     \* position -> value, for the cells the store holds
  results
vars == <<keys, results>>

-----------------------------------------------------------------------------
(* Values, their order and their coercion (xl-value).                        *)

Num(n) == <<"num", n>>
Truth(b) == <<"bool", b>>
Text(t) == <<"text", t>>
Err(k) == <<"err", k>>
Blank == <<"blank">>
Unsupported == Err("UNSUPPORTED")
NotFound == Err("NA")

IsErr(v) == v[1] = "err"
IsBlank(v) == v[1] = "blank"
IsNonAscii(v) == v[1] = "text" /\ v[2] \in NonAscii
Sentinels == {"UNSUPPORTED", "BLOCKED", "RESOURCE"}

(* What a blank is worth beside v. *)
MorphFor(v) ==
  CASE v[1] = "text" -> Text(0) [] v[1] = "bool" -> Truth(FALSE) [] OTHER -> Num(0)
Morphed(v, other) == IF IsBlank(v) THEN MorphFor(other) ELSE v

Rank(v) == CASE v[1] = "num" -> 0 [] v[1] = "text" -> 1 [] v[1] = "bool" -> 2
Weight(v) == IF v[1] = "bool" THEN (IF v[2] THEN 1 ELSE 0) ELSE v[2]
Sign(n) == IF n < 0 THEN -1 ELSE IF n > 0 THEN 1 ELSE 0

(* compare: <<"ord", -1 | 0 | 1>>, or the error that forbids it. *)
Compare(a, b) ==
  LET x == Morphed(a, b)  y == Morphed(b, a)
  IN IF IsErr(a) THEN a ELSE IF IsErr(b) THEN b
     ELSE IF IsNonAscii(a) \/ IsNonAscii(b) THEN Unsupported
     ELSE IF Rank(x) # Rank(y) THEN <<"ord", Sign(Rank(x) - Rank(y))>>
     ELSE <<"ord", Sign(Weight(x) - Weight(y))>>

Skip == <<"skip">>
Streamed(v) == IF v[1] \in {"num", "err"} THEN v ELSE Skip

(* The members of a set of positions, in order. *)
Listed(S) ==
  [i \in 1..Cardinality(S) |-> CHOOSE p \in S : Cardinality({q \in S : q < p}) = i - 1]

(* What a walk adds: the parts that are not skipped, in order. *)
Kept(parts) ==
  LET places == Listed({i \in DOMAIN parts : parts[i] # Skip})
  IN [i \in DOMAIN places |-> parts[places[i]]]

(* The sum of what is kept of a walk, or its first error. *)
Total(parts) ==
  LET errors == {i \in DOMAIN parts : IsErr(parts[i])}
      sum[i \in 0..Len(parts)] == IF i = 0 THEN 0 ELSE sum[i - 1] + parts[i][2]
  IN IF errors # {} THEN parts[Min(errors)] ELSE Num(sum[Len(parts)])

-----------------------------------------------------------------------------
(* The two walks (eval.rs rows_of_range, used_rows_of_range and              *)
(* used_cols_of_range; args.rs for_each_row_or_used).                        *)

Whole == 0
Read(line, p) == IF p \in DOMAIN line THEN line[p] ELSE Blank

(* The slices visited, each with its position relative to the range's start. *)
Walk(lines, ext) ==
  LET stored == UNION {DOMAIN l : l \in Range(lines)}
      rels == IF ext = Whole THEN Listed(stored) ELSE [i \in 1..ext |-> i - 1]
  IN [i \in DOMAIN rels |-> [rel |-> rels[i], cells |-> [j \in DOMAIN lines |-> Read(lines[j], rels[i])]]]
Firsts(walk) == [i \in DOMAIN walk |-> walk[i].cells[1]]

-----------------------------------------------------------------------------
(* Searches. Each returns <<"row", i>>, Nothing, or an error.                *)

Nothing == <<"nothing">>
Row(i) == <<"row", i>>

(* lookup.rs exact_eq: "match", "differs", or the error to return. *)
ExactEq(cell, key) ==
  LET zero == CASE key[1] = "num" -> IsBlank(cell) /\ key[2] = 0
                [] key[1] = "text" -> IsBlank(cell) /\ key[2] = 0
                [] key[1] = "bool" -> IsBlank(cell) /\ ~key[2]
                [] key[1] = "blank" -> cell \in {Text(0), Truth(FALSE)}
                [] OTHER -> FALSE
      order == Compare(cell, key)
  IN IF IsBlank(cell) /\ IsBlank(key) THEN <<"differs">>
     ELSE IF zero THEN Unsupported
     ELSE IF IsErr(order) THEN order
     ELSE IF order[2] = 0 THEN <<"match">> ELSE <<"differs">>

HasWildcard(key) == key[1] = "text" /\ key[2] \in DOMAIN Globs
Glob(t) == IF t \in DOMAIN Globs THEN Globs[t] ELSE {t}

(* The first cell that equals the key, unless one before it stops the scan. *)
StopsAt(i, verdict) == IF IsErr(verdict) THEN verdict ELSE Row(i)
ExactScan(seq, key) ==
  LET stops == {i \in DOMAIN seq : ExactEq(seq[i], key) # <<"differs">>}
  IN IF stops = {} THEN Nothing ELSE StopsAt(Min(stops), ExactEq(seq[Min(stops)], key))

(* func_match.rs and func_hlookup.rs: a wildcard is refused. *)
ExactSearch(seq, key) == IF HasWildcard(key) THEN Unsupported ELSE ExactScan(seq, key)

(* func_vlookup.rs: a wildcard matches the texts of the column. *)
ExactOrGlob(seq, key) ==
  LET hits == {i \in DOMAIN seq : seq[i][1] = "text" /\ seq[i][2] \in Glob(key[2])}
  IN IF ~HasWildcard(key) THEN ExactScan(seq, key)
     ELSE IF hits = {} THEN Nothing ELSE Row(Min(hits))

\* Fault: only a blank key is refused, a blank cell compares as an operand.
TouchesBlank_KeyOnly(cell, key) == IsBlank(key)
TouchesBlank(cell, key) == IsBlank(cell) \/ IsBlank(key)

Middle(lo, hi) == lo + ((hi - lo) \div 2)

\* What is left to search, from `lo` to `hi`; nothing if lo > hi.
Intervals(n) == (1..(n + 1)) \X (0..n)

(* func_match.rs ascending_search (way = 1, the last cell found <= key) and  *)
(* descending_search (way = -1, >=); func_hlookup.rs approx_search (way = 1).*)
Bisect(seq, key, way) ==
  LET probe[r \in Intervals(Len(seq))] ==
        LET mid == Middle(r[1], r[2])
            order == Compare(seq[mid], key)
            later == probe[<<mid + 1, r[2]>>]
        IN IF r[1] > r[2] THEN Nothing
           ELSE IF TouchesBlank(seq[mid], key) THEN Unsupported
           ELSE IF IsErr(order) THEN order
           ELSE IF order[2] = way THEN probe[<<r[1], mid - 1>>]
           ELSE IF later = Nothing THEN Row(mid) ELSE later
  IN probe[<<1, Len(seq)>>]

(* func_vlookup.rs and func_lookup.rs approx_search: an equal cell ends the  *)
(* search, an error cell moves it on, and it settles on `hi`.                *)
Settle(seq, key) ==
  LET probe[r \in Intervals(Len(seq))] ==
        LET mid == Middle(r[1], r[2])
            order == Compare(seq[mid], key)
        IN IF r[1] > r[2] THEN (IF r[2] = 0 THEN Nothing ELSE Row(r[2]))
           ELSE IF IsErr(seq[mid]) THEN probe[<<mid + 1, r[2]>>]
           ELSE IF TouchesBlank(seq[mid], key) THEN Unsupported
           ELSE IF IsErr(order) THEN order
           ELSE IF order[2] = 0 THEN Row(mid)
           ELSE IF order[2] = -1 THEN probe[<<mid + 1, r[2]>>] ELSE probe[<<r[1], mid - 1>>]
  IN probe[<<1, Len(seq)>>]

-----------------------------------------------------------------------------
(* MATCH, VLOOKUP, HLOOKUP, LOOKUP.                                          *)

Answer(found, F(_)) ==
  CASE found[1] = "row" -> F(found[2]) [] found = Nothing -> NotFound [] OTHER -> found

MatchSearch(seq, key, type) ==
  IF type = 0 THEN ExactSearch(seq, key) ELSE Bisect(seq, key, type)

\* Fault: the position is that among the stored cells.
Match_Compacted(key, type, ext, onRow) ==
  LET walk == Walk(<<keys>>, ext)
  IN IF IsErr(key) THEN key ELSE Answer(MatchSearch(Firsts(walk), key, type), Num)

(* Over a whole line a blank key is trusted only with no gap before its      *)
(* match, and never on a row or an empty column.                             *)
Match(key, type, ext, onRow) ==
  LET walk == Walk(<<keys>>, ext)
      gap(i) == walk[i].rel # i - 1
      position(i) == IF IsBlank(key) /\ gap(i) THEN Unsupported ELSE Num(walk[i].rel + 1)
  IN IF IsErr(key) THEN key
     ELSE IF type \notin {-1, 0, 1} THEN Unsupported
     ELSE IF ext = Whole /\ IsBlank(key) /\ (onRow \/ walk = <<>>) THEN Unsupported
     ELSE IF walk = <<>> THEN NotFound
     ELSE Answer(MatchSearch(Firsts(walk), key, type), position)

(* The table is both lines; a walk that visits nothing has no width. *)
VLookup(key, exact, col, ext) ==
  LET walk == Walk(<<keys, results>>, ext)
      width == IF walk = <<>> THEN 0 ELSE 2
      gap(i) == ext = Whole /\ walk[i].rel # i - 1
      value(i) == IF exact /\ IsBlank(key) /\ gap(i) THEN Unsupported ELSE walk[i].cells[col]
  IN IF IsErr(key) THEN key
     ELSE IF col < 1 THEN Err("VALUE")
     ELSE IF col > width THEN Err("REF")
     ELSE Answer(IF exact THEN ExactOrGlob(Firsts(walk), key) ELSE Settle(Firsts(walk), key), value)

(* A whole table is read cell by cell at its positions, blanks included. *)
HLookup(key, exact, row, ext) ==
  LET walk == Walk(<<keys, results>>, IF ext = Whole THEN LastCell + 1 ELSE ext)
      value(i) == walk[i].cells[row]
  IN IF IsErr(key) THEN key
     ELSE IF row < 1 THEN Err("VALUE")
     ELSE IF row > 2 THEN Err("REF")
     ELSE Answer(IF exact THEN ExactSearch(Firsts(walk), key) ELSE Bisect(Firsts(walk), key, 1), value)

(* LOOKUP refuses a whole line; the result vector may be shorter. *)
LookupVector(key, ext, resultExt) ==
  LET value(i) == IF i <= resultExt THEN Read(results, i - 1) ELSE NotFound
  IN IF IsErr(key) THEN key
     ELSE IF Whole \in {ext, resultExt} THEN Unsupported
     ELSE Answer(Settle(Firsts(Walk(<<keys>>, ext)), key), value)

(* The array form over both columns: one row alone is searched as a vector. *)
LookupArray(key, ext) ==
  LET walk == Walk(<<keys, results>>, ext)
      search == IF ext = 1 THEN walk[1].cells ELSE Firsts(walk)
      value(i) == IF ext = 1 THEN search[i] ELSE walk[i].cells[2]
  IN IF IsErr(key) THEN key
     ELSE IF ext = Whole THEN Unsupported
     ELSE Answer(Settle(search, key), value)

-----------------------------------------------------------------------------
(* Criteria (criteria.rs). A text criterion is <<"crit", op, text>>. A       *)
(* matcher is <<"eq", target, negated>>, <<"order", op, value>>, or an error.*)

Empty == <<"empty">>
EqualTo(target, negated) == <<"eq", target, negated>>

ParseEquality(t, negated) ==
  IF t = 0 THEN EqualTo(Empty, negated)
  ELSE IF t \in DOMAIN NumericText THEN EqualTo(Num(NumericText[t]), negated)
  ELSE IF t \in NonAscii THEN Unsupported
  ELSE EqualTo(Text(t), negated)

ParseOrder(op, t) ==
  IF t = 0 THEN Unsupported
  ELSE IF t \in DOMAIN NumericText THEN <<"order", op, Num(NumericText[t])>>
  ELSE IF t \in NonAscii THEN Unsupported
  ELSE <<"order", op, Text(t)>>

Parse(c) ==
  CASE c[1] = "crit" -> IF c[2] \in {"=", "<>"} THEN ParseEquality(c[3], c[2] = "<>")
                        ELSE ParseOrder(c[2], c[3])
    [] c[1] = "text" -> ParseEquality(c[2], FALSE)
    [] c[1] \in {"num", "bool"} -> EqualTo(c, FALSE)
    [] c[1] = "blank" -> EqualTo(Num(0), FALSE)
    [] c[1] = "err" -> c

(* A cell that was never evaluated, or whose text only the locale can rank. *)
Refuses(m, cell) ==
  LET collates == CASE m[1] = "order" -> m[3][1] = "text"
                    [] m[1] = "eq" -> m[2][1] = "text" /\ m[2][2] \notin Structural
                    [] OTHER -> FALSE
  IN (IsErr(cell) /\ cell[2] \in Sentinels) \/ (IsNonAscii(cell) /\ collates)
Refusal(cell) == IF IsErr(cell) THEN cell ELSE Unsupported

OrderHolds(op, n) ==
  CASE op = ">" -> n > 0 [] op = ">=" -> n >= 0 [] op = "<" -> n < 0 [] op = "<=" -> n <= 0

Equals(target, cell) ==
  CASE target[1] = "num" -> \/ cell[1] = "num" /\ cell[2] = target[2]
                            \/ /\ cell[1] = "text" /\ cell[2] \in DOMAIN NumericText
                               /\ NumericText[cell[2]] = target[2]
    [] target[1] = "bool" -> cell[1] = "bool" /\ cell[2] = target[2]
    [] target[1] = "text" -> cell[1] = "text" /\ cell[2] \in Glob(target[2])
    [] target[1] = "empty" -> cell[1] = "text" /\ cell[2] = 0

Matches(m, cell) ==
  IF IsErr(cell) THEN FALSE
  ELSE IF IsBlank(cell) THEN m[1] = "eq" /\ m[2] = Empty /\ ~m[3]
  ELSE IF m[1] = "order" THEN cell[1] = m[3][1] /\ OrderHolds(m[2], cell[2] - m[3][2])
  ELSE m[3] # Equals(m[2], cell)

-----------------------------------------------------------------------------
(* COUNTIF, SUMIF and AVERAGEIF, over a column or a row alike.               *)

(* What the visited cells add: the refusal of one, the summed value, or      *)
(* nothing.                                                                  *)
Gather(m, walk, Summed(_)) ==
  Kept([i \in DOMAIN walk |->
          LET cell == walk[i].cells[1]
          IN IF Refuses(m, cell) THEN Refusal(cell)
             ELSE IF Matches(m, cell) THEN Summed(walk[i]) ELSE Skip])

CountIf(c, ext) ==
  LET m == Parse(c)
      counts == Gather(m, Walk(<<keys>>, ext), LAMBDA slice : Num(1))
  IN IF IsErr(m) THEN m
     ELSE IF ext = Whole /\ Matches(m, Blank) /\ ~IsErr(Total(counts)) THEN Unsupported
     ELSE Total(counts)

(* The parts of the sum, in the order of the walk; a call that is refused    *)
(* has its error as the only part.                                           *)
SelfParts(c, ext) ==
  LET m == Parse(c)
  IN IF IsErr(m) THEN <<m>>
     ELSE Gather(m, Walk(<<keys>>, ext), LAMBDA slice : Streamed(slice.cells[1]))

(* The summed cell has the position of the tested one. *)
LockstepParts(c, ext, sumExt) ==
  LET m == Parse(c)
      walk == Walk(<<keys>>, ext)
      width == IF walk = <<>> THEN 0 ELSE 1
      sumWidth == IF Walk(<<results>>, sumExt) = <<>> THEN 0 ELSE 1
      refused == IF ext # Whole /\ sumExt # Whole THEN sumExt < ext
                 ELSE \/ ext = Whole /\ (sumExt # Whole \/ Matches(m, Blank))
                      \/ sumWidth < width
  IN IF IsErr(m) THEN <<m>>
     ELSE IF refused THEN <<Unsupported>>
     ELSE Gather(m, walk, LAMBDA slice : Streamed(Read(results, slice.rel)))

(* The mean of the parts, as their sum over their count. *)
Mean(parts) ==
  LET total == Total(parts)
  IN IF IsErr(total) THEN total
     ELSE IF parts = <<>> THEN Err("DIV0") ELSE <<"mean", total[2], Len(parts)>>

SumIfSelf(c, ext) == Total(SelfParts(c, ext))
SumIf(c, ext, sumExt) == Total(LockstepParts(c, ext, sumExt))
AverageIfSelf(c, ext) == Mean(SelfParts(c, ext))
AverageIf(c, ext, averageExt) == Mean(LockstepParts(c, ext, averageExt))

-----------------------------------------------------------------------------
(* The store. A file stores no blank; a cell that is cleared stays stored.   *)

Init == keys = <<>> /\ results = <<>>

Store(line, p, v) == [q \in DOMAIN line \union {p} |-> IF q = p THEN v ELSE line[q]]

EditKey(p, v) == keys' = Store(keys, p, v) /\ UNCHANGED results
EditResult(p, v) == results' = Store(results, p, v) /\ UNCHANGED keys

Next ==
  \/ \E p \in DOMAIN KeyInputs : \E v \in KeyInputs[p] : EditKey(p, v)
  \/ \E p \in DOMAIN ResultInputs : \E v \in ResultInputs[p] : EditResult(p, v)

Spec == Init /\ [][Next]_vars

-----------------------------------------------------------------------------
(* What the functions promise.                                               *)

Filled(line) == {p \in DOMAIN line : ~IsBlank(line[p])}
(* The bounded ranges that hold every cell with a value. *)
Covering == {n \in 1..LastCell : Filled(keys) \union Filled(results) \subseteq 0..(n - 1)}
Agree(a, b) == a = b \/ Unsupported \in {a, b}

(* Walking only the stored cells of a whole column or row changes no answer: *)
(* each exact search, count and sum is refused or agrees with the range that *)
(* just covers the data, whatever gaps the column has, whichever cells were  *)
(* cleared (and stay stored), and wherever the two lines differ in length.   *)
(* VLOOKUP over two columns that store nothing is left out: its #REF! is the *)
(* width of a walk that visits no row (func_vlookup.rs:173 and 189).         *)
(* (func_match.rs match_used_extent, func_vlookup.rs, func_countif.rs,       *)
(* func_sumif.rs sum_lockstep_used_extent)                                   *)
WholeLineAgrees ==
  \A n \in Covering :
    /\ \A k \in Keys :
         /\ \A onRow \in BOOLEAN : Agree(Match(k, 0, Whole, onRow), Match(k, 0, n, onRow))
         /\ keys # <<>> => Agree(VLookup(k, TRUE, 2, Whole), VLookup(k, TRUE, 2, n))
         /\ Agree(HLookup(k, TRUE, 2, Whole), HLookup(k, TRUE, 2, n))
    /\ \A c \in Criteria :
         /\ Agree(CountIf(c, Whole), CountIf(c, n))
         /\ Agree(SumIfSelf(c, Whole), SumIfSelf(c, n))
         /\ Agree(SumIf(c, Whole, Whole), SumIf(c, n, n))
         /\ Agree(SumIf(c, n, Whole), SumIf(c, n, n))
         /\ Agree(AverageIfSelf(c, Whole), AverageIfSelf(c, n))
         /\ Agree(AverageIf(c, Whole, Whole), AverageIf(c, n, n))
         /\ Agree(AverageIf(c, n, Whole), AverageIf(c, n, n))

(* The cells with a value are comparable and in order, up (1) or down (-1). *)
InOrder(way) ==
  /\ \A p \in Filled(keys) : ~IsErr(keys[p]) /\ ~IsNonAscii(keys[p])
  /\ \A p, q \in Filled(keys) : p < q => Compare(keys[p], keys[q])[2] # way

(* The positions in the extent that come no later than k in that order. *)
Below(k, way, ext) ==
  {p \in Filled(keys) : (ext = Whole \/ p < ext) /\ Compare(keys[p], k)[2] # way}

(* Bisection among gaps and blank tails: on sorted data an approximate       *)
(* search is refused or finds the last cell that is not beyond the key -     *)
(* VLOOKUP and LOOKUP one of the cells equal to it - and #N/A means that     *)
(* there is none. A probe that meets a blank never turns into an answer, in  *)
(* bounded and whole ranges alike.                                           *)
(* (lookup.rs approx_touches_blank; ascending_search, descending_search,     *)
(* approx_search)                                                            *)
ApproximateFindsFloor ==
  \A way \in {1, -1} : InOrder(way) =>
    \A ext \in 0..LastCell, k \in {k \in Keys : ~IsErr(k) /\ ~IsBlank(k) /\ ~IsNonAscii(k)} :
      LET below == Below(k, way, ext)
          best == Max(below)
          ties == {p \in below : Compare(keys[p], keys[best])[2] = 0}
          found(here) == IF below = {} THEN {NotFound} ELSE here
          tied == found({Read(results, p) : p \in ties})
      IN /\ Match(k, way, ext, FALSE) \in {Unsupported} \union found({Num(best + 1)})
         /\ way = 1 =>
              /\ HLookup(k, FALSE, 2, ext) \in {Unsupported} \union found({Read(results, best)})
              /\ Walk(<<keys, results>>, ext) # <<>> => VLookup(k, FALSE, 2, ext) \in {Unsupported} \union tied
              /\ LookupVector(k, ext, ext) \in {Unsupported} \union tied
              /\ ext > 1 => LookupArray(k, ext) \in {Unsupported} \union tied

(* Claims of the documentation that do not hold. "VLOOKUP returns a value,   *)
(* not a position, so compacting away unpopulated rows is invisible to its   *)
(* search" (func_vlookup.rs:46): with equal keys another one is found.       *)
CompactionIsInvisible ==
  InOrder(1) => \A n \in Covering, k \in Keys :
    keys # <<>> => Agree(VLookup(k, FALSE, 2, Whole), VLookup(k, FALSE, 2, n))

(* "Empty table (no rows): nothing to match -> #N/A" (func_vlookup.rs:181):  *)
(* the test of the column index comes first, and finds no column.            *)
EmptyTableIsNotFound ==
  Walk(<<keys, results>>, Whole) = <<>> =>
    \A k \in Keys : ~IsErr(k) => VLookup(k, TRUE, 2, Whole) \in {NotFound, Unsupported}

=============================================================================
