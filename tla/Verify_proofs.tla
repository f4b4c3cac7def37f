----------------------------- MODULE Verify_proofs -----------------------------
(***************************************************************************)
(* Proofs about Verify, for every workbook, comparison, policy and set of  *)
(* assertions: the decision is what the contract says of the files         *)
(* (DecisionIsSound) and the report explains it (ReportExplains).          *)
(*                                                                         *)
(* The run opens the candidate several times; Inv says what each open has  *)
(* left in seen.  On a candidate that nobody changes all of them are the   *)
(* same book (Steady), and what remains is what the judgement makes of one *)
(* book: which conditions it triggers, and how its cells are counted.      *)
(* The second part is about the file the report is written to.             *)
(***************************************************************************)
EXTENDS Verify, ReportFile, FiniteSetTheorems, TLAPS

\* An invocation that some sweep holds.
IsInvocation(r) ==
  /\ Len(r.books) \in Nat \ {0}
  /\ \A v \in 1 .. Len(r.books) : IsWorkbook(r.books[v])
  /\ IsWorkbook(r.other)
  /\ r.mode \in {"stored", "baseline", "excel"}
  /\ IsPolicy(r.policy)
  /\ r.json \in BOOLEAN

\* A version of the candidate, and one that could be opened.
IsVersion(book) == \E v \in 1 .. Len(run.books) : book = run.books[v]
IsOpened(book) == IsVersion(book) /\ book.loads

\* The run is at one of these steps, or has its report.
Reached(steps) == pc \in steps \/ report # NoReport

\* The inductive invariant.
Inv ==
  /\ IsInvocation(run)
  /\ version \in 1 .. Len(run.books)
  /\ pc \in {"start", "hash", "first", "other", "values", "assert", "write", "done"}
  /\ seen = [mode |-> run.mode, policy |-> run.policy, hash |-> seen.hash,
             first |-> seen.first, other |-> seen.other, values |-> seen.values,
             asserted |-> seen.asserted]
  /\ Reached({"other", "values", "assert"}) => IsOpened(seen.first)
  /\ Reached({"values", "assert"}) /\ Compares(seen) => seen.other = run.other
  /\ Reached({"assert"}) => IsOpened(seen.values)
  /\ report # NoReport =>
       pc \in {"write", "done"} /\ IsVersion(seen.asserted) /\ report = Report(seen)
  /\ pc = "write" => report # NoReport
  /\ file # NoReport => file = report /\ pc = "done" /\ run.json
  /\ pc = "done" =>
       /\ file # NoReport => exit = ExitCode(file.decision)
       /\ exit = 64 => file = NoReport
       /\ exit \in {0, 1} => run.json = (file # NoReport)

\* Every report decides, so none is NoReport.
LEMMA DecisionFacts ==
  ASSUME NEW s
  PROVE  /\ Report(s).decision = Decision(s)
         /\ Decision(s) \in {"pass", "fail", "fallback"}
         /\ Report(s) # NoReport
<1>1. Report(s).decision = Decision(s)
  BY DEF Report
<1>2. Decision(s) \in {"pass", "fail", "fallback"}
  BY DEF Decision
<1> QED BY <1>1, <1>2 DEF NoReport

LEMMA InitInv == Init => Inv
<1> SUFFICES ASSUME Init PROVE Inv
  OBVIOUS
<1>1. PICK sweep \in Sweeps : run \in Invocation(sweep)
  BY DEF Init
<1>2. IsInvocation(run)
  BY <1>1, SweepsAssumption DEF Invocation, IsInvocation
<1>3. version \in 1 .. Len(run.books)
  BY <1>2 DEF Init, IsInvocation
<1>4. report = NoReport /\ file = NoReport /\ pc = "start"
  BY DEF Init
<1>5. seen = [mode |-> run.mode, policy |-> run.policy, hash |-> seen.hash,
             first |-> seen.first, other |-> seen.other, values |-> seen.values,
             asserted |-> seen.asserted]
  BY DEF Init
<1> QED BY <1>2, <1>3, <1>4, <1>5 DEF Inv, Reached

LEMMA NextInv == Inv /\ [Next]_vars => Inv'
<1> SUFFICES ASSUME Inv, [Next]_vars PROVE Inv'
  OBVIOUS
<1>0. CASE UNCHANGED vars
  BY <1>0 DEF vars, Inv, Reached, IsOpened, IsVersion
<1>1. CASE Start
  BY <1>1 DEF Start, Ends, Inv, Reached, IsOpened, IsVersion
<1>2. CASE ReadBytes
  BY <1>2 DEF ReadBytes, Ends, Inv, Reached, IsOpened, IsVersion, Compares
<1>3. CASE RunWorkbook
  BY <1>3 DEF RunWorkbook, Open, OnDisk, Ends, Inv, Reached, IsOpened, IsVersion, Compares
<1>4. CASE ReadOther
  BY <1>4 DEF ReadOther, Open, Ends, Inv, Reached, IsOpened, IsVersion, Compares
<1>5. CASE ComputeValues
  BY <1>5 DEF ComputeValues, Open, OnDisk, Ends, Inv, Reached, IsOpened, IsVersion, Compares
<1>6. CASE Judge
  BY <1>6, DecisionFacts DEF Judge, OnDisk, Inv, Reached, IsOpened, IsVersion, Compares
<1>7. CASE WriteReport
  <2>1. /\ report # NoReport /\ file = NoReport /\ pc' = "done"
        /\ UNCHANGED <<run, version, seen, report>>
    BY <1>7 DEF WriteReport, Ends, Inv
  <2>2. report.decision \in {"pass", "fail", "fallback"}
    BY <2>1, DecisionFacts DEF Inv
  <2>3. ExitCode(report.decision) \in {0, 1, 2}
    BY <2>2 DEF ExitCode
  <2>4. \/ file' = (IF run.json THEN report ELSE file) /\ exit' = ExitCode(report.decision)
        \/ file' = file /\ exit' = 64
    BY <1>7 DEF WriteReport, Ends
  <2>5. run.json \in BOOLEAN
    BY DEF Inv, IsInvocation
  <2>6. pc' = "done" =>
          /\ file' # NoReport => exit' = ExitCode(file'.decision)
          /\ exit' = 64 => file' = NoReport
          /\ exit' \in {0, 1} => run.json = (file' # NoReport)
    BY <2>1, <2>3, <2>4, <2>5
  <2>7. file' # NoReport => file' = report /\ run.json
    BY <2>1, <2>4
  <2> QED BY <2>1, <2>6, <2>7 DEF Inv, Reached, IsOpened, IsVersion
<1>8. CASE Save
  BY <1>8 DEF Save, Inv, Reached, IsOpened, IsVersion, IsInvocation
<1> QED BY <1>0, <1>1, <1>2, <1>3, <1>4, <1>5, <1>6, <1>7, <1>8 DEF Next

(* The inductive invariant: a run keeps, of each open, a version of the
   candidate that could be read, and the report is the judgement of those. *)
THEOREM RunInvariant == Spec => []Inv
BY InitInv, NextInv, PTL DEF Spec

\* --------------------------------------------- a candidate that nobody changes
\* The run has judged one book, whatever it opened.
Steady ==
  /\ IsWorkbook(Book) /\ Book.loads
  /\ seen.first = Book /\ seen.values = Book /\ seen.asserted = Book
  /\ seen.mode = run.mode /\ seen.policy = run.policy
  /\ run.mode # "stored" => seen.other = run.other
  /\ run.mode \in {"stored", "baseline", "excel"}
  /\ IsPolicy(run.policy)
  /\ report = Report(seen)

LEMMA JudgedIsSteady == ASSUME Inv, Judged PROVE Steady
<1>1. \A book : IsVersion(book) => book = Book
  BY DEF Judged, IsVersion, Book
<1>2. IsOpened(seen.first) /\ IsOpened(seen.values) /\ IsVersion(seen.asserted)
  BY DEF Inv, Judged, Reached
<1>3. seen.first = Book /\ seen.values = Book /\ seen.asserted = Book /\ Book.loads
  BY <1>1, <1>2 DEF IsOpened
<1>4. seen.mode = run.mode /\ seen.policy = run.policy
  BY DEF Inv
<1>5. run.mode # "stored" => seen.other = run.other
  BY <1>4 DEF Inv, Judged, Reached, Compares
<1>6. IsWorkbook(Book)
  BY DEF Inv, Judged, IsInvocation, Book
<1>7. run.mode \in {"stored", "baseline", "excel"} /\ IsPolicy(run.policy)
  BY DEF Inv, IsInvocation
<1>8. report = Report(seen)
  BY DEF Inv, Judged
<1> QED BY <1>3, <1>4, <1>5, <1>6, <1>7, <1>8 DEF Steady

\* The cells of the book, under the names the judgement has for them.
LEMMA CellFacts ==
  ASSUME Steady
  PROVE  /\ Cells(seen) = DOMAIN Book.cells /\ Computed(seen) = DOMAIN Book.cells
         /\ IsFiniteSet(DOMAIN Book.cells)
         /\ \A i \in DOMAIN Book.cells :
              LET c == Book.cells[i] IN
              /\ c.computed \in Values /\ c.parsed \in BOOLEAN /\ c.cached \in Values \ Refusal
              /\ ~c.parsed => c.computed = "unsupported"
              /\ Candidate(seen, i) = c.computed
              /\ i \in ParseFailed(seen) <=> ~c.parsed
         /\ ParseFailed(seen) \subseteq DOMAIN Book.cells
<1>1. Cells(seen) = DOMAIN Book.cells /\ Computed(seen) = DOMAIN Book.cells
  BY DEF Steady, Cells, Computed
<1>2. IsFiniteSet(DOMAIN Book.cells)
  BY DEF Steady, IsWorkbook
<1>3. \A i \in DOMAIN Book.cells : Book.cells[i] \in FormulaCell
  BY DEF Steady, IsWorkbook
<1>4. ASSUME NEW i \in DOMAIN Book.cells
      PROVE  LET c == Book.cells[i] IN
             /\ c.computed \in Values /\ c.parsed \in BOOLEAN /\ c.cached \in Values \ Refusal
             /\ ~c.parsed => c.computed = "unsupported"
             /\ Candidate(seen, i) = c.computed
             /\ i \in ParseFailed(seen) <=> ~c.parsed
  <2>1. Book.cells[i] \in FormulaCell
    BY <1>3
  <2>2. Candidate(seen, i) = Book.cells[i].computed
    BY DEF Steady, Candidate
  <2>3. i \in ParseFailed(seen) <=> ~Book.cells[i].parsed
    BY <1>1 DEF Steady, ParseFailed
  <2> QED BY <2>1, <2>2, <2>3 DEF FormulaCell
<1>5. ParseFailed(seen) \subseteq DOMAIN Book.cells
  BY <1>1 DEF ParseFailed
<1> QED BY <1>1, <1>2, <1>4, <1>5

\* The measured differences are those of the files.
LEMMA MeasuredIsReal ==
  ASSUME Steady
  PROVE  /\ (\E i \in DOMAIN Book.cells : Differs(i)) <=>
              IF Compares(seen) THEN BaselineMismatches(seen) # {}
              ELSE Having(seen, "mismatch") # {}
<1>1. CASE run.mode = "stored"
  <2>1. ~Compares(seen)
    BY <1>1 DEF Steady, Compares
  <2>2. \A i \in DOMAIN Book.cells : i \in Having(seen, "mismatch") <=> Differs(i)
    BY <1>1, CellFacts DEF Having, Status, Differs, Steady
  <2>3. Having(seen, "mismatch") \subseteq DOMAIN Book.cells
    BY CellFacts DEF Having
  <2> QED BY <2>1, <2>2, <2>3
<1>2. CASE run.mode # "stored"
  <2>1. Compares(seen) /\ seen.other = run.other /\ seen.mode = run.mode
    BY <1>2 DEF Steady, Compares
  <2>2. \A i \in DOMAIN Book.cells : i \in BaselineMismatches(seen) <=> Differs(i)
    BY <1>2, <2>1, CellFacts DEF BaselineMismatches, OtherValue, Differs, Steady
  <2>3. BaselineMismatches(seen) \subseteq DOMAIN Book.cells
    BY <2>1, CellFacts DEF BaselineMismatches
  <2> QED BY <2>1, <2>2, <2>3
<1> QED BY <1>1, <1>2

\* The assertions that fail are those that do not hold of the file.
LEMMA FailuresAreReal ==
  ASSUME Steady
  PROVE  /\ AssertionFailures(seen) # {} <=>
              /\ \A a \in run.policy.assertions : a.op # "nowhere"
              /\ \E a \in run.policy.assertions : ~AssertionHolds(a)
         /\ AssertionsInvalid(seen) <=> \E a \in run.policy.assertions : a.op = "nowhere"
<1>1. Assertions(seen) = run.policy.assertions
  BY DEF Steady, Assertions
<1>2. AssertionsInvalid(seen) <=> \E a \in run.policy.assertions : a.op = "nowhere"
  BY <1>1 DEF Steady, AssertionsInvalid
<1>3. \A i : AssertedValue(seen, i) = IF i \in DOMAIN Book.cells THEN Book.cells[i].computed ELSE "blank"
  BY DEF Steady, AssertedValue
<1>4. \A a : a.op # "nowhere" => (AssertionHolds(a) <=> Passes(a, AssertedValue(seen, a.cell)))
  BY <1>3 DEF AssertionHolds
<1> QED BY <1>1, <1>2, <1>4 DEF AssertionFailures

\* Counting the unparsed apart leaves the refusals of formulas that parse.
LEMMA UnsupportedMeans ==
  ASSUME Steady
  PROVE  UnsupportedCount(seen) > 0 <=>
           \E i \in DOMAIN Book.cells :
             Book.cells[i].parsed /\ Book.cells[i].computed = "unsupported"
<1> DEFINE all == ComputedAs(seen, "unsupported")
           unparsed == ParseFailed(seen)
<1>1. all = {i \in DOMAIN Book.cells : Book.cells[i].computed = "unsupported"}
  BY CellFacts DEF ComputedAs
<1>2. unparsed \subseteq all
  BY <1>1, CellFacts
<1>3. IsFiniteSet(all)
  BY <1>1, CellFacts, FS_Subset
<1>4. /\ Cardinality(all) \in Nat /\ Cardinality(unparsed) \in Nat
      /\ Cardinality(unparsed) <= Cardinality(all)
      /\ Cardinality(all) = Cardinality(unparsed) => all = unparsed
  BY <1>2, <1>3, FS_Subset, FS_CardinalityType
<1>5. UnsupportedCount(seen) > 0 <=> all # unparsed
  <2> DEFINE m == Cardinality(all)
             n == Cardinality(unparsed)
  <2>1. UnsupportedCount(seen) = IF m < n THEN 0 ELSE m - n
    BY DEF UnsupportedCount
  <2>2. m \in Nat /\ n \in Nat /\ n <= m /\ (m = n <=> all = unparsed)
    BY <1>4
  <2> HIDE DEF m, n, all, unparsed
  <2> QED BY <2>1, <2>2
<1>6. all # unparsed <=> \E i \in all : i \notin unparsed
  BY <1>2
<1>7. \A i \in all : i \notin unparsed <=> Book.cells[i].parsed
  BY <1>1, CellFacts
<1> QED BY <1>1, <1>5, <1>6, <1>7

\* The required comparison is short of a cell.
Short == Having(seen, "engine_unsupported") \cup Having(seen, "no_oracle") # {}

\* The field a cell answers to.
CellField(c) ==
  FieldOf(IF ~c.parsed THEN "parse_failed"
          ELSE CASE c.computed = "error" -> "formula_error"
                 [] c.computed = "blocked" -> "blocked"
                 [] c.computed = "resource" -> "resource_limited"
                 [] c.computed = "unsupported" -> "unsupported")

LEMMA CellFieldIs ==
  ASSUME NEW c, c.computed \in Errors, c.parsed \in BOOLEAN,
         ~c.parsed => c.computed = "unsupported"
  PROVE  /\ CellField(c) = "on_parse_error" <=> ~c.parsed
         /\ CellField(c) = "on_formula_error" <=> c.computed = "error"
         /\ CellField(c) = "on_blocked" <=> c.computed = "blocked"
         /\ CellField(c) = "on_resource_limit" <=> c.computed = "resource"
         /\ CellField(c) = "on_unsupported" <=> c.parsed /\ c.computed = "unsupported"
         /\ CellField(c) \in ActionField \ {"on_external_reference", "on_vba_project"}
BY DEF CellField, FieldOf, Errors, Refusal, ActionField

LEMMA ConditionsAre ==
  /\ \A f : f \in Conditions <=>
       \/ \E i \in DOMAIN Book.cells :
            Book.cells[i].computed \in Errors /\ f = CellField(Book.cells[i])
       \/ f = "on_external_reference" /\ Book.external
       \/ f = "on_vba_project" /\ Book.vba
BY DEF Conditions, CellField

\* The policy is asked about exactly the conditions of the workbook; a required
\* comparison that falls short answers to on_unsupported.
LEMMA TriggeredMeans ==
  ASSUME Steady, NEW f \in ActionField
  PROVE  Triggered(seen, f) <=>
           \/ f \in Conditions
           \/ f = "on_unsupported" /\ run.policy.require_comparison /\ Short
<1> DEFINE Has(v) == \E i \in DOMAIN Book.cells : Book.cells[i].computed = v
           Cell(i) == Book.cells[i]
<1>1. \A v : ComputedAs(seen, v) # {} <=> Has(v)
  BY CellFacts DEF ComputedAs
<1>2. ParseFailed(seen) # {} <=> \E i \in DOMAIN Book.cells : ~Cell(i).parsed
  BY CellFacts
<1>3. ASSUME NEW i \in DOMAIN Book.cells, Cell(i).computed \in Errors
      PROVE  /\ CellField(Cell(i)) = "on_parse_error" <=> ~Cell(i).parsed
             /\ CellField(Cell(i)) = "on_formula_error" <=> Cell(i).computed = "error"
             /\ CellField(Cell(i)) = "on_blocked" <=> Cell(i).computed = "blocked"
             /\ CellField(Cell(i)) = "on_resource_limit" <=> Cell(i).computed = "resource"
             /\ CellField(Cell(i)) = "on_unsupported" <=>
                  Cell(i).parsed /\ Cell(i).computed = "unsupported"
             /\ CellField(Cell(i)) \in ActionField \ {"on_external_reference", "on_vba_project"}
  <2>1. Cell(i).parsed \in BOOLEAN /\ (~Cell(i).parsed => Cell(i).computed = "unsupported")
    BY CellFacts
  <2> HIDE DEF Cell
  <2> QED BY <1>3, <2>1, CellFieldIs
<1>4. {"error", "blocked", "resource", "unsupported"} = Errors
  BY DEF Errors, Refusal
<1>5. \A i \in DOMAIN Book.cells : ~Cell(i).parsed => Cell(i).computed = "unsupported"
  BY CellFacts
<1>6. seen.first = Book /\ seen.policy = run.policy
  BY DEF Steady
<1>7. CASE f = "on_unsupported"
  <2>1. Triggered(seen, f) <=> UnsupportedCount(seen) > 0 \/ (run.policy.require_comparison /\ Short)
    BY <1>6, <1>7 DEF Triggered, Short
  <2>2. f \in Conditions <=> \E i \in DOMAIN Book.cells : Cell(i).parsed /\ Cell(i).computed = "unsupported"
    BY <1>3, <1>4, <1>7, ConditionsAre
  <2> QED BY <1>7, <2>1, <2>2, UnsupportedMeans
<1>8. CASE f = "on_parse_error"
  <2>1. f \in Conditions <=> \E i \in DOMAIN Book.cells : ~Cell(i).parsed
    BY <1>3, <1>4, <1>5, <1>8, ConditionsAre
  <2> QED BY <1>2, <1>8, <2>1 DEF Triggered
<1>9. CASE f \in {"on_blocked", "on_resource_limit", "on_formula_error"}
  <2>1. f = "on_blocked" => (f \in Conditions <=> Has("blocked"))
    BY <1>3, <1>4, ConditionsAre
  <2>2. f = "on_resource_limit" => (f \in Conditions <=> Has("resource"))
    BY <1>3, <1>4, ConditionsAre
  <2>3. f = "on_formula_error" => (f \in Conditions <=> Has("error"))
    BY <1>3, <1>4, ConditionsAre
  <2> HIDE DEF Has
  <2> QED BY <1>1, <1>9, <2>1, <2>2, <2>3 DEF Triggered
<1>10. CASE f \in {"on_external_reference", "on_vba_project"}
  <2>1. f \in Conditions <=> IF f = "on_vba_project" THEN Book.vba ELSE Book.external
    BY <1>3, <1>10, ConditionsAre
  <2> QED BY <1>6, <1>10, <2>1 DEF Triggered
<1> QED BY <1>7, <1>8, <1>9, <1>10 DEF ActionField

LEMMA PassIsSound ==
  ASSUME Steady, Decision(seen) = "pass"
  PROVE  /\ ~ \E i \in DOMAIN Book.cells : Differs(i)
         /\ \A a \in run.policy.assertions : AssertionHolds(a)
         /\ \A f \in Conditions : run.policy[f] = "allow"
         /\ run.policy.require_determinism => ~Book.volatile
         /\ run.policy.require_excel_result => run.mode = "excel"
         /\ run.policy.require_comparison /\ DOMAIN Book.cells # {} =>
              \E i \in DOMAIN Book.cells : report.cells[i].evidence # "evidence_unavailable"
<1>1. ~Fail(seen) /\ ~Fallback(seen)
  BY DEF Decision
<1>2. Preflight(seen) = {} /\ ~Takes(seen, "fallback") /\ ~Takes(seen, "fail")
  BY <1>1 DEF Fail, Fallback
<1>3. seen.policy = run.policy /\ seen.mode = run.mode /\ seen.first = Book
  BY DEF Steady
<1>4. ~ \E i \in DOMAIN Book.cells : Differs(i)
  BY <1>1, MeasuredIsReal DEF Fail
<1>5. \A a \in run.policy.assertions : AssertionHolds(a)
  <2>1. ~AssertionsInvalid(seen)
    BY <1>2 DEF Preflight
  <2> QED BY <1>1, <2>1, FailuresAreReal DEF Fail
<1>6. \A f \in Conditions : run.policy[f] = "allow"
  <2>1. \A f \in Conditions : f \in ActionField
    <3>1. \A i \in DOMAIN Book.cells : Book.cells[i].computed \in Errors =>
            CellField(Book.cells[i]) \in ActionField
      BY CellFacts, CellFieldIs
    <3> QED BY <3>1, ConditionsAre DEF ActionField
  <2>2. \A f \in Conditions : Triggered(seen, f)
    BY <2>1, TriggeredMeans
  <2>3. \A f \in Conditions : run.policy[f] # "fail" /\ run.policy[f] # "fallback"
    BY <1>2, <1>3, <2>1, <2>2 DEF Takes
  <2>4. \A f \in Conditions : run.policy[f] \in Actions
    BY <2>1 DEF Steady, IsPolicy
  <2> QED BY <2>3, <2>4 DEF Actions
<1>7. run.policy.require_determinism => ~Book.volatile
  BY <1>2, <1>3 DEF Preflight
<1>8. run.policy.require_excel_result => run.mode = "excel"
  BY <1>2, <1>3 DEF Preflight
<1>9. ASSUME run.policy.require_comparison, DOMAIN Book.cells # {}
      PROVE  \E i \in DOMAIN Book.cells : report.cells[i].evidence # "evidence_unavailable"
  <2>1. HasComparison(seen) /\ BaselineMissing(seen) = {}
    BY <1>2, <1>3, <1>9 DEF Preflight
  <2>2. PICK i \in DOMAIN Book.cells : Evidence(seen, i) # "evidence_unavailable"
    <3>1. CASE Compares(seen)
      BY <1>9, <2>1, <3>1 DEF Evidence
    <3>2. CASE ~Compares(seen)
      <4>1. Having(seen, "no_oracle") # Cells(seen)
        BY <2>1, <3>2 DEF HasComparison
      <4>2. PICK i \in DOMAIN Book.cells : Status(seen.first.cells[i]) # "no_oracle"
        BY <4>1, CellFacts DEF Having
      <4>3. Evidence(seen, i) # "evidence_unavailable"
        BY <3>2, <4>2 DEF Evidence
      <4> QED BY <4>3
    <3> QED BY <3>1, <3>2
  <2>3. report.cells[i].evidence = Relabel(seen, Evidence(seen, i))
    BY CellFacts DEF Report, Steady
  <2>4. Relabel(seen, Evidence(seen, i)) # "evidence_unavailable"
    BY <2>2 DEF Relabel
  <2> QED BY <2>3, <2>4
<1> QED BY <1>4, <1>5, <1>6, <1>7, <1>8, <1>9

LEMMA FailIsMeasured ==
  ASSUME Steady, Decision(seen) = "fail"
  PROVE  \/ \E i \in DOMAIN Book.cells : Differs(i)
         \/ /\ \A a \in run.policy.assertions : a.op # "nowhere"
            /\ \E a \in run.policy.assertions : ~AssertionHolds(a)
         \/ \E f \in Conditions : run.policy[f] = "fail"
         \/ run.policy.require_comparison /\ run.policy["on_unsupported"] = "fail"
<1>1. Fail(seen)
  BY DEF Decision
<1>2. CASE Takes(seen, "fail")
  <2>1. PICK f \in ActionField : Triggered(seen, f) /\ run.policy[f] = "fail"
    BY <1>2 DEF Takes, Steady
  <2> QED BY <2>1, TriggeredMeans
<1> QED BY <1>1, <1>2, MeasuredIsReal, FailuresAreReal DEF Fail

LEMMA FallbackIsUnmeasured ==
  ASSUME Steady, Decision(seen) = "fallback"
  PROVE  /\ ~ \E i \in DOMAIN Book.cells : Differs(i)
         /\ ~ (/\ \A a \in run.policy.assertions : a.op # "nowhere"
               /\ \E a \in run.policy.assertions : ~AssertionHolds(a))
<1>1. ~Fail(seen)
  BY DEF Decision
<1> QED BY <1>1, MeasuredIsReal, FailuresAreReal DEF Fail

LEMMA InvSound == Inv => DecisionIsSound
<1> SUFFICES ASSUME Inv PROVE DecisionIsSound
  OBVIOUS
<1>1. ASSUME Judged PROVE Steady /\ report.decision = Decision(seen)
  BY <1>1, JudgedIsSteady, DecisionFacts DEF Steady
<1>2. run.policy["on_unsupported"] = run.policy.on_unsupported
  OBVIOUS
<1>3. pc = "done" =>
        /\ file # NoReport => exit = ExitCode(file.decision)
        /\ exit = 64 => file = NoReport
        /\ exit \in {0, 1} => run.json = (file # NoReport)
  BY DEF Inv
<1> QED BY <1>1, <1>2, <1>3, PassIsSound, FailIsMeasured, FallbackIsUnmeasured DEF DecisionIsSound

(* The decision is sound: for every candidate, comparison, policy and set of
   assertions, PASS, FAIL and FALLBACK are given to the files the contract
   gives them to, and the exit code is that of the report written. *)
THEOREM DecisionsAreSound == Spec => []DecisionIsSound
BY RunInvariant, InvSound, PTL

\* -------------------------------------------------------------- the report
LEMMA OutcomeMeans ==
  ASSUME Steady, NEW i \in DOMAIN Book.cells
  PROVE  LET c == Book.cells[i]
             o == Outcome(seen, i)
         IN /\ o \in {"parse_failed", "formula_error", "blocked", "resource_limited",
                      "unsupported", "recalc_computed"}
            /\ o = "parse_failed" <=> ~c.parsed
            /\ o = "formula_error" <=> c.computed = "error"
            /\ o = "blocked" <=> c.computed = "blocked"
            /\ o = "resource_limited" <=> c.computed = "resource"
            /\ o = "unsupported" <=> c.parsed /\ c.computed = "unsupported"
            /\ o # "recalc_computed" => c.computed \in Errors /\ FieldOf(o) = CellField(c)
            /\ c.computed \in Errors => o # "recalc_computed"
<1> DEFINE c == Book.cells[i]
           o == Outcome(seen, i)
<1>1. /\ c.computed \in Values /\ c.parsed \in BOOLEAN
      /\ ~c.parsed => c.computed = "unsupported"
      /\ Candidate(seen, i) = c.computed
      /\ i \in ParseFailed(seen) <=> ~c.parsed
      /\ i \in Computed(seen)
  BY CellFacts
<1>2. Status(seen.first.cells[i]) = "engine_unsupported" => c.computed \in Errors
  BY DEF Status, Steady, Errors
<1>3. o = IF ~c.parsed THEN "parse_failed"
          ELSE IF c.computed \in Errors
               THEN CASE c.computed = "blocked"     -> "blocked"
                      [] c.computed = "resource"    -> "resource_limited"
                      [] c.computed = "unsupported" -> "unsupported"
                      [] c.computed = "error"       -> "formula_error"
          ELSE "recalc_computed"
  <2> DEFINE Named(v) == CASE v = "blocked"     -> "blocked"
                          [] v = "resource"    -> "resource_limited"
                          [] v = "unsupported" -> "unsupported"
                          [] v = "error"       -> "formula_error"
             st == Status(seen.first.cells[i])
  <2>1. o = IF i \in ParseFailed(seen) THEN "parse_failed"
            ELSE IF i \in Computed(seen) /\ Candidate(seen, i) \in Errors
                 THEN Named(Candidate(seen, i))
            ELSE IF st = "engine_unsupported" THEN "unsupported"
            ELSE "recalc_computed"
    BY DEF Outcome
  <2>2. o = IF ~c.parsed THEN "parse_failed"
            ELSE IF c.computed \in Errors THEN Named(c.computed)
            ELSE "recalc_computed"
    <3> HIDE DEF Named, st, o, c
    <3> QED BY <1>1, <1>2, <2>1 DEF st
  <2> QED BY <2>2
<1>4. CellField(c) = FieldOf(IF ~c.parsed THEN "parse_failed"
          ELSE CASE c.computed = "error" -> "formula_error"
                 [] c.computed = "blocked" -> "blocked"
                 [] c.computed = "resource" -> "resource_limited"
                 [] c.computed = "unsupported" -> "unsupported")
  BY DEF CellField
<1> HIDE DEF c, o
<1>5. /\ o \in {"parse_failed", "formula_error", "blocked", "resource_limited",
                "unsupported", "recalc_computed"}
      /\ o = "parse_failed" <=> ~c.parsed
      /\ o = "formula_error" <=> c.computed = "error"
      /\ o = "blocked" <=> c.computed = "blocked"
      /\ o = "resource_limited" <=> c.computed = "resource"
      /\ o = "unsupported" <=> c.parsed /\ c.computed = "unsupported"
      /\ c.computed \in Errors => o # "recalc_computed"
  BY <1>1, <1>3 DEF Errors, Refusal
<1>6. ASSUME o # "recalc_computed" PROVE c.computed \in Errors /\ FieldOf(o) = CellField(c)
  BY <1>1, <1>3, <1>4, <1>6 DEF Errors, Refusal
<1> QED BY <1>5, <1>6 DEF c, o

\* The records of the report.
LEMMA RecordFacts ==
  ASSUME Steady
  PROVE  /\ DOMAIN report.cells = DOMAIN Book.cells
         /\ \A i \in DOMAIN Book.cells :
              /\ report.cells[i].outcome = Outcome(seen, i)
              /\ report.cells[i].evidence = Relabel(seen, Evidence(seen, i))
         /\ report.summary = Summary(seen)
         /\ report.issues = {[x EXCEPT !.code = Relabel(seen, @)] : x \in Issues(seen)}
BY CellFacts DEF Steady, Report

\* The cells with an outcome, of those of the book.
Of(outcome) == {i \in DOMAIN Book.cells : Outcome(seen, i) = outcome}

LEMMA CountsAre ==
  ASSUME Steady
  PROVE  /\ CountOf(seen, "error") = Cardinality(Of("formula_error"))
         /\ CountOf(seen, "blocked") = Cardinality(Of("blocked"))
         /\ CountOf(seen, "resource") = Cardinality(Of("resource_limited"))
         /\ CountOf(seen, "unsupported") = Cardinality(Of("unsupported"))
         /\ Cells(seen) \cap ParseFailed(seen) = Of("parse_failed")
<1> DEFINE Counted(v) == {i \in Cells(seen) \cap ComputedAs(seen, v) : i \notin ParseFailed(seen)}
<1>1. ASSUME NEW i \in DOMAIN Book.cells, NEW v
      PROVE  i \in Counted(v) <=> Book.cells[i].computed = v /\ Book.cells[i].parsed
  BY CellFacts DEF ComputedAs
<1>2. \A v : Counted(v) \subseteq DOMAIN Book.cells
  BY CellFacts
<1> HIDE DEF Counted
<1>3. \A i \in DOMAIN Book.cells : Book.cells[i].computed # "unsupported" => Book.cells[i].parsed
  BY CellFacts
<1>4. Counted("error") = Of("formula_error")
  BY <1>1, <1>2, <1>3, OutcomeMeans DEF Of
<1>5. Counted("blocked") = Of("blocked")
  BY <1>1, <1>2, <1>3, OutcomeMeans DEF Of
<1>6. Counted("resource") = Of("resource_limited")
  BY <1>1, <1>2, <1>3, OutcomeMeans DEF Of
<1>7. Counted("unsupported") = Of("unsupported")
  BY <1>1, <1>2, OutcomeMeans DEF Of
<1>8. Cells(seen) \cap ParseFailed(seen) = Of("parse_failed")
  BY CellFacts, OutcomeMeans DEF Of
<1> QED BY <1>4, <1>5, <1>6, <1>7, <1>8 DEF CountOf, Counted

LEMMA DisjointSum ==
  ASSUME NEW S, IsFiniteSet(S), NEW T, IsFiniteSet(T), S \cap T = {}
  PROVE  /\ IsFiniteSet(S \cup T)
         /\ Cardinality(S \cup T) = Cardinality(S) + Cardinality(T)
         /\ Cardinality(S) \in Nat /\ Cardinality(T) \in Nat
<1>1. Cardinality(S) \in Nat /\ Cardinality(T) \in Nat
  BY FS_CardinalityType
<1>2. IsFiniteSet(S \cup T) /\ Cardinality(S \cup T) = Cardinality(S) + Cardinality(T) - Cardinality(S \cap T)
  BY FS_Union
<1>3. Cardinality(S \cap T) = 0
  BY FS_EmptySet
<1> QED BY <1>1, <1>2, <1>3

\* The counts of the summary are those of the records.
LEMMA SummaryCounts ==
  ASSUME Steady
  PROVE  LET sum == Summary(seen) IN
         /\ sum.formula_errors = Cardinality(Of("formula_error"))
         /\ sum.unsupported = Cardinality(Of("unsupported"))
         /\ sum.blocked = Cardinality(Of("blocked"))
         /\ sum.resource_limited = Cardinality(Of("resource_limited"))
         /\ sum.parse_failed = Cardinality(Of("parse_failed"))
         /\ sum.recalc_computed = Cardinality(Of("recalc_computed"))
<1> DEFINE P == Of("parse_failed")
           F == Of("formula_error")
           B == Of("blocked")
           R == Of("resource_limited")
           X == Of("unsupported")
           K == Of("recalc_computed")
           D == DOMAIN Book.cells
           H == Having(seen, "engine_unsupported")
           p == Cardinality(P)
           f == Cardinality(F)
           b == Cardinality(B)
           r == Cardinality(R)
           x == Cardinality(X)
           k == Cardinality(K)
           d == Cardinality(D)
           h == Cardinality(H)
           sum == Summary(seen)
<1>1. IsFiniteSet(D)
  BY CellFacts
<1>2. P \subseteq D /\ F \subseteq D /\ B \subseteq D /\ R \subseteq D /\ X \subseteq D /\ K \subseteq D
  BY DEF Of
<1>3. D = ((B \cup R) \cup (P \cup X)) \cup (F \cup K)
  BY OutcomeMeans DEF Of
<1>4. /\ B \cap R = {} /\ P \cap X = {} /\ F \cap K = {}
      /\ (B \cup R) \cap (P \cup X) = {}
      /\ ((B \cup R) \cup (P \cup X)) \cap (F \cup K) = {}
  BY DEF Of
<1>5. H \subseteq (B \cup R) \cup (P \cup X)
  <2> SUFFICES ASSUME NEW i \in H PROVE i \in (B \cup R) \cup (P \cup X)
    OBVIOUS
  <2>1. i \in D /\ Status(Book.cells[i]) = "engine_unsupported"
    BY CellFacts DEF Having, Steady
  <2>2. Book.cells[i].computed \in Refusal
    BY <2>1 DEF Status
  <2>3. Book.cells[i].parsed \in BOOLEAN
    BY <2>1, CellFacts
  <2>4. Outcome(seen, i) \in {"blocked", "resource_limited", "parse_failed", "unsupported"}
    BY <2>1, <2>2, <2>3, OutcomeMeans DEF Refusal
  <2> QED BY <2>1, <2>4 DEF Of
<1>6. /\ CountOf(seen, "error") = f /\ CountOf(seen, "blocked") = b
      /\ CountOf(seen, "resource") = r /\ CountOf(seen, "unsupported") = x
      /\ Cardinality(Cells(seen) \cap ParseFailed(seen)) = p
      /\ Cardinality(Cells(seen)) = d
  BY CountsAre, CellFacts
<1> HIDE DEF P, F, B, R, X, K, D, H
<1>7. /\ IsFiniteSet(P) /\ IsFiniteSet(F) /\ IsFiniteSet(B)
      /\ IsFiniteSet(R) /\ IsFiniteSet(X) /\ IsFiniteSet(K)
  BY <1>1, <1>2, FS_Subset
<1>8. /\ IsFiniteSet(B \cup R) /\ Cardinality(B \cup R) = b + r
      /\ IsFiniteSet(P \cup X) /\ Cardinality(P \cup X) = p + x
      /\ IsFiniteSet(F \cup K) /\ Cardinality(F \cup K) = f + k
      /\ b \in Nat /\ r \in Nat /\ p \in Nat /\ x \in Nat /\ f \in Nat /\ k \in Nat
  BY <1>4, <1>7, DisjointSum
<1> DEFINE W == (B \cup R) \cup (P \cup X)
<1>9. IsFiniteSet(W) /\ Cardinality(W) = (b + r) + (p + x)
  <2>1. ASSUME NEW S, NEW T, IsFiniteSet(S), IsFiniteSet(T), S \cap T = {}
        PROVE  IsFiniteSet(S \cup T) /\ Cardinality(S \cup T) = Cardinality(S) + Cardinality(T)
    BY <2>1, DisjointSum
  <2>2. IsFiniteSet(W) /\ Cardinality(W) = Cardinality(B \cup R) + Cardinality(P \cup X)
    BY <1>4, <1>8, <2>1
  <2> QED BY <1>8, <2>2
<1>10. d = ((b + r) + (p + x)) + (f + k)
  <2>1. Cardinality(W \cup (F \cup K)) = Cardinality(W) + Cardinality(F \cup K)
    BY <1>4, <1>8, <1>9, DisjointSum
  <2> QED BY <1>3, <1>8, <1>9, <2>1
<1>11. h \in Nat /\ h <= (b + r) + (p + x)
  <2>1. H \in SUBSET W
    BY <1>5
  <2> QED BY <1>9, <2>1, FS_Subset, FS_CardinalityType
<1> DEFINE others == b + r + p
           counted == IF h > others /\ h - others > x THEN h - others ELSE x
           refused == counted + others + f
<1>12. /\ sum.formula_errors = f /\ sum.unsupported = counted /\ sum.blocked = b
       /\ sum.resource_limited = r /\ sum.parse_failed = p
       /\ sum.recalc_computed = IF d < refused THEN 0 ELSE d - refused
  BY <1>6 DEF Summary, H
<1> HIDE DEF p, f, b, r, x, k, d, h, sum
<1>13. counted = x
  BY <1>8, <1>11
<1>14. d - refused = k /\ ~(d < refused)
  BY <1>8, <1>10, <1>13
<1> HIDE DEF counted, refused
<1>15. /\ sum.formula_errors = f /\ sum.unsupported = x /\ sum.blocked = b
       /\ sum.resource_limited = r /\ sum.parse_failed = p /\ sum.recalc_computed = k
  BY <1>12, <1>13, <1>14
<1> QED BY <1>15 DEF p, f, b, r, x, k, sum, P, F, B, R, X, K

\* A cell the report says nothing of was computed, and agrees with the evidence.
LEMMA SilentCells ==
  ASSUME Steady, NEW i \in DOMAIN Book.cells, CellIssue(seen, i) = {}
  PROVE  /\ Outcome(seen, i) = "recalc_computed"
         /\ i \notin BaselineMismatches(seen)
         /\ i \notin Having(seen, "no_oracle")
         /\ ~Compares(seen) => i \notin Having(seen, "mismatch")
BY DEF CellIssue

\* An issue of the judgement is an issue of the report, under its label.
LEMMA IssuesReported ==
  ASSUME Steady, NEW x \in Issues(seen)
  PROVE  \E y \in report.issues : y.cell = x.cell
<1>1. DOMAIN x = {"code", "severity", "cell"}
  BY DEF Issues, CellIssue, Issue
<1> DEFINE y == [x EXCEPT !.code = Relabel(seen, @)]
<1>2. y.cell = x.cell
  BY <1>1
<1>3. y \in report.issues
  BY RecordFacts
<1> QED BY <1>2, <1>3

LEMMA CellIssueFacts ==
  ASSUME NEW i, NEW x \in CellIssue(seen, i)
  PROVE  x.cell = i
BY DEF CellIssue, Issue

LEMMA RecordsExplained ==
  ASSUME Steady, NEW i \in DOMAIN Book.cells, ~ \E x \in report.issues : x.cell = i
  PROVE  /\ report.cells[i].outcome = "recalc_computed"
         /\ report.cells[i].evidence \notin
              {"differs_stored", "differs_baseline", "differs_supplied_excel"}
<1>1. CellIssue(seen, i) = {}
  <2> SUFFICES ASSUME NEW x \in CellIssue(seen, i) PROVE FALSE
    OBVIOUS
  <2>1. x \in Issues(seen)
    BY CellFacts DEF Issues
  <2> QED BY <2>1, IssuesReported, CellIssueFacts
<1>2. Outcome(seen, i) = "recalc_computed"
  BY <1>1, SilentCells
<1>3. Evidence(seen, i) \in {"evidence_unavailable", "matches_baseline", "matches_stored"}
  <2>1. CASE Compares(seen)
    BY <1>1, <2>1, SilentCells DEF Evidence
  <2>2. CASE ~Compares(seen)
    <3>1. Status(seen.first.cells[i]) # "mismatch"
      BY <1>1, <2>2, SilentCells, CellFacts DEF Having
    <3> QED BY <2>2, <3>1 DEF Evidence
  <2> QED BY <2>1, <2>2
<1>4. Relabel(seen, Evidence(seen, i)) \notin
        {"differs_stored", "differs_baseline", "differs_supplied_excel"}
  BY <1>3 DEF Relabel
<1> QED BY <1>2, <1>4, RecordFacts

\* A run that does not pass has an issue.
LEMMA SilentRunsPass ==
  ASSUME Steady, report.issues = {}
  PROVE  Decision(seen) = "pass"
<1>1. Issues(seen) = {}
  BY IssuesReported
<1>2. /\ Preflight(seen) = {} /\ AssertionFailures(seen) = {}
      /\ ~Triggered(seen, "on_external_reference") /\ ~Triggered(seen, "on_vba_project")
      /\ \A i \in DOMAIN Book.cells : CellIssue(seen, i) = {}
  <2>1. \A code \in Preflight(seen) : Issue(code, "warning", Workbook) \in Issues(seen)
    BY DEF Issues
  <2>2. \A a \in AssertionFailures(seen) : Issue("assertion_failed", "error", a.cell) \in Issues(seen)
    BY DEF Issues
  <2>3. \A f \in {"on_external_reference", "on_vba_project"} :
          Triggered(seen, f) => Issue(f, "warning", Workbook) \in Issues(seen)
    BY DEF Issues
  <2>4. \A i \in DOMAIN Book.cells : CellIssue(seen, i) \subseteq Issues(seen)
    BY CellFacts DEF Issues
  <2> QED BY <1>1, <2>1, <2>2, <2>3, <2>4
<1>3. ASSUME NEW i \in DOMAIN Book.cells
      PROVE  /\ Book.cells[i].computed \notin Errors
             /\ i \notin BaselineMismatches(seen)
             /\ i \notin Having(seen, "no_oracle")
             /\ ~Compares(seen) => i \notin Having(seen, "mismatch")
  BY <1>2, SilentCells, OutcomeMeans
<1>4. IF Compares(seen) THEN BaselineMismatches(seen) = {} ELSE Having(seen, "mismatch") = {}
  BY <1>3, CellFacts DEF Having, BaselineMismatches
<1>5. ~Short
  <2>1. Having(seen, "no_oracle") = {}
    BY <1>3, CellFacts DEF Having
  <2>2. ASSUME NEW i \in Having(seen, "engine_unsupported") PROVE FALSE
    <3>1. i \in DOMAIN Book.cells /\ Status(Book.cells[i]) = "engine_unsupported"
      BY CellFacts DEF Having, Steady
    <3>2. Book.cells[i].computed \in Refusal
      BY <3>1 DEF Status
    <3> QED BY <1>3, <3>1, <3>2 DEF Errors
  <2> QED BY <2>1, <2>2 DEF Short
<1>6. \A f \in ActionField : ~Triggered(seen, f)
  <2> SUFFICES ASSUME NEW f \in ActionField, Triggered(seen, f) PROVE FALSE
    OBVIOUS
  <2>1. f \in Conditions
    BY <1>5, TriggeredMeans
  <2>2. f = "on_external_reference" \/ f = "on_vba_project"
    BY <1>3, <2>1, ConditionsAre
  <2> QED BY <1>2, <2>2
<1>7. ~Takes(seen, "fail") /\ ~Takes(seen, "fallback")
  BY <1>6 DEF Takes
<1> QED BY <1>2, <1>4, <1>7 DEF Decision, Fail, Fallback

\* A run that passes has warnings at most.
LEMMA PassesHaveWarnings ==
  ASSUME Steady, Decision(seen) = "pass", NEW x \in Issues(seen)
  PROVE  x.severity = "warning"
<1>1. AssertionFailures(seen) = {}
  BY DEF Decision, Fail
<1>2. IF Compares(seen) THEN BaselineMismatches(seen) = {} ELSE Having(seen, "mismatch") = {}
  BY DEF Decision, Fail
<1>3. ASSUME NEW i \in DOMAIN Book.cells, x \in CellIssue(seen, i)
      PROVE  x.severity = "warning"
  <2>1. i \notin BaselineMismatches(seen)
    BY <1>2 DEF BaselineMismatches
  <2>2. ASSUME Outcome(seen, i) # "recalc_computed"
        PROVE  Severity(seen.policy[FieldOf(Outcome(seen, i))]) = "warning"
    <3>1. /\ Book.cells[i].computed \in Errors
          /\ FieldOf(Outcome(seen, i)) = CellField(Book.cells[i])
      BY <2>2, OutcomeMeans
    <3>2. FieldOf(Outcome(seen, i)) \in Conditions
      BY <3>1, ConditionsAre
    <3>3. seen.policy[FieldOf(Outcome(seen, i))] = "allow"
      BY <3>2, PassIsSound DEF Steady
    <3> QED BY <3>3 DEF Severity
  <2>3. ~(~Compares(seen) /\ i \in Having(seen, "mismatch"))
    BY <1>2
  <2> QED BY <1>3, <2>1, <2>2, <2>3 DEF CellIssue, Issue
<1>4. \/ x.severity = "warning"
      \/ \E i \in DOMAIN Book.cells : x \in CellIssue(seen, i)
  BY <1>1, CellFacts DEF Issues, Issue
<1> QED BY <1>3, <1>4

LEMMA InvExplains == Inv => ReportExplains
<1> SUFFICES ASSUME Inv, Judged PROVE ReportExplains
  BY DEF ReportExplains
<1>1. Steady /\ report.decision = Decision(seen) /\ Decision(seen) \in {"pass", "fail", "fallback"}
  BY JudgedIsSteady, DecisionFacts DEF Steady
<1>2. DOMAIN report.cells = DOMAIN Book.cells
  BY <1>1, RecordFacts
<1>3. \A o : {i \in DOMAIN report.cells : report.cells[i].outcome = o} = Of(o)
  BY <1>1, <1>2, RecordFacts DEF Of
<1>4. LET sum == report.summary IN
      /\ sum.formula_errors = Cardinality(Of("formula_error"))
      /\ sum.unsupported = Cardinality(Of("unsupported"))
      /\ sum.blocked = Cardinality(Of("blocked"))
      /\ sum.resource_limited = Cardinality(Of("resource_limited"))
      /\ sum.parse_failed = Cardinality(Of("parse_failed"))
      /\ sum.recalc_computed = Cardinality(Of("recalc_computed"))
  BY <1>1, RecordFacts, SummaryCounts
<1>5. \A i \in DOMAIN report.cells :
        \/ \E x \in report.issues : x.cell = i
        \/ /\ report.cells[i].outcome = "recalc_computed"
           /\ report.cells[i].evidence \notin
                {"differs_stored", "differs_baseline", "differs_supplied_excel"}
  BY <1>1, <1>2, RecordsExplained
<1>6. report.decision # "pass" => report.issues # {}
  BY <1>1, SilentRunsPass
<1>7. ASSUME report.decision = "pass", NEW y \in report.issues PROVE y.severity = "warning"
  <2>1. PICK x \in Issues(seen) : y = [x EXCEPT !.code = Relabel(seen, @)]
    BY <1>1, RecordFacts
  <2>2. x.severity = "warning"
    BY <1>1, <1>7, PassesHaveWarnings
  <2>3. DOMAIN x = {"code", "severity", "cell"}
    BY DEF Issues, CellIssue, Issue
  <2> QED BY <2>1, <2>2, <2>3
<1> QED BY <1>3, <1>4, <1>5, <1>6, <1>7 DEF ReportExplains

(* The report explains the decision: for every candidate, comparison, policy
   and set of assertions, its counts are those of its records, every record
   that is not a plain agreeing value has an issue, a run that does not pass
   has one, and a run that passes has no error. *)
THEOREM ReportsExplain == Spec => []ReportExplains
BY RunInvariant, InvExplains, PTL

-----------------------------------------------------------------------------
(***************************************************************************)
(* The report that the decision is written to: it is never truncated, and  *)
(* the exit codes tell the truth, for any number of runs and process ids.  *)
(* ReportInv says what the calls of each live run rely on: a process id of *)
(* its own, a temporary file as the run left it, and, for every report     *)
(* that is in place or that a power loss may bring back, a whole file.     *)
(***************************************************************************)

\* The runs that are alive have process ids, each its own.
PidsDistinct ==
  /\ \A r \in Run : Active(r) => pid[r] \in Pid
  /\ \A q, r \in Run : Active(q) /\ Active(r) /\ pid[q] = pid[r] => q = r

\* A run past create finds its own temporary file as it left it.
TmpOwned ==
  \A r \in Run :
    /\ call[r] \in {"write", "flush", "rename"} =>
         tmp[pid[r]] \in File /\ tmp[pid[r]].of = r
    /\ call[r] \in {"flush", "rename"} => tmp[pid[r]].whole
    /\ call[r] = "rename" => tmp[pid[r]].flushed

\* What a reader finds, now or after a power loss.
KeptWhole ==
  /\ target \in kept
  /\ \A f \in kept : f # NoFile => f.whole /\ f.flushed /\ f.of \in published

\* A report is in place from the rename on, and for no run that failed.
PublishedExactly ==
  \A r \in Run :
    /\ call[r] = "exit" => r \in published
    /\ result[r] = "decided" => r \in published
    /\ r \in published => call[r] \in {"exit", "done"} /\ result[r] # "usage"
    /\ Active(r) => result[r] = "none"
    /\ call[r] = "idle" => result[r] = "none"

ReportInv == TypeOK /\ PidsDistinct /\ TmpOwned /\ KeptWhole /\ PublishedExactly

LEMMA ReportInvInit == ReportInit => ReportInv
BY NoFileAssumption
   DEF ReportInit, ReportInv, TypeOK, PidsDistinct, TmpOwned, KeptWhole, PublishedExactly, Active

LEMMA FileFields ==
  ASSUME NEW f \in File
  PROVE  /\ [f EXCEPT !.whole = TRUE] \in File
         /\ [f EXCEPT !.whole = TRUE].of = f.of
         /\ [f EXCEPT !.whole = TRUE].whole
         /\ [f EXCEPT !.whole = FALSE] \in File
         /\ [f EXCEPT !.flushed = TRUE] \in File
         /\ [f EXCEPT !.flushed = TRUE].of = f.of
         /\ [f EXCEPT !.flushed = TRUE].whole = f.whole
         /\ [f EXCEPT !.flushed = TRUE].flushed
         /\ f # NoFile
BY NoFileAssumption DEF File

LEMMA FreshFile ==
  ASSUME NEW r \in Run, NEW f, f = [of |-> r, whole |-> FALSE, flushed |-> FALSE]
  PROVE  f \in File /\ f.of = r
BY DEF File

LEMMA LossOfFile ==
  ASSUME NEW f \in File \cup {NoFile}
  PROVE  AfterLoss(f) \subseteq File \cup {NoFile}
BY FileFields DEF AfterLoss

(* Every step keeps the inductive invariant. *)
LEMMA ReportInvNext == ReportInv /\ [ReportNext]_reportVars => ReportInv'
<1> SUFFICES ASSUME ReportInv, [ReportNext]_reportVars PROVE ReportInv'
  OBVIOUS
<1> USE NoPidAssumption, NoFileAssumption
    DEF ReportInv, TypeOK, PidsDistinct, TmpOwned, KeptWhole, PublishedExactly, Active
<1>1. ASSUME NEW r \in Run, NEW p \in Pid, Begin(r, p) PROVE ReportInv'
  BY <1>1 DEF Begin
<1>2. ASSUME NEW r \in Run, Create(r) PROVE ReportInv'
  <2> DEFINE p == pid[r]
             g == [of |-> r, whole |-> FALSE, flushed |-> FALSE]
  <2>1. p \in Pid
    BY <1>2 DEF Create
  <2>2. g \in File /\ g.of = r
    BY FreshFile
  <2>3. CASE call' = [call EXCEPT ![r] = "write"]
    <3>1. tmp' = [tmp EXCEPT ![p] = g]
      BY <1>2, <2>1, <2>3 DEF Create, Fails, TmpName
    <3> HIDE DEF g
    <3>2. UNCHANGED <<pid, result, target, kept, published>>
      BY <1>2, <2>3 DEF Create, Fails
    <3> QED
      BY <1>2, <2>1, <2>2, <2>3, <3>1, <3>2 DEF Create
  <2>4. CASE Fails(r) /\ UNCHANGED tmp
    BY <1>2, <2>4 DEF Create, Fails
  <2> QED
    BY <1>2, <2>3, <2>4 DEF Create
<1>3. ASSUME NEW r \in Run, Write(r) PROVE ReportInv'
  <2> DEFINE p == pid[r]
             g == [tmp[p] EXCEPT !.whole = TRUE]
  <2>1. p \in Pid
    BY <1>3 DEF Write
  <2>2. g \in File /\ g.of = r /\ g.whole
    BY <1>3, FileFields DEF Write
  <2>3. CASE call' = [call EXCEPT ![r] = "flush"]
    <3>1. tmp' = [tmp EXCEPT ![p] = g]
      BY <1>3, <2>1, <2>3 DEF Write, Fails, TmpName
    <3> HIDE DEF g
    <3>2. UNCHANGED <<pid, result, target, kept, published>>
      BY <1>3, <2>3 DEF Write, Fails
    <3> QED
      BY <1>3, <2>1, <2>2, <2>3, <3>1, <3>2 DEF Write
  <2>4. CASE Fails(r) /\ UNCHANGED tmp
    BY <1>3, <2>4 DEF Write, Fails
  <2> QED
    BY <1>3, <2>3, <2>4 DEF Write
<1>4. ASSUME NEW r \in Run, Flush(r) PROVE ReportInv'
  <2> DEFINE p == pid[r]
             g == [tmp[p] EXCEPT !.flushed = TRUE]
  <2>1. p \in Pid
    BY <1>4 DEF Flush
  <2>2. g \in File /\ g.of = r /\ g.whole /\ g.flushed
    BY <1>4, FileFields DEF Flush
  <2>3. CASE call' = [call EXCEPT ![r] = "rename"]
    <3>1. tmp' = [tmp EXCEPT ![p] = g]
      BY <1>4, <2>1, <2>3 DEF Flush, Fails, TmpName
    <3> HIDE DEF g
    <3>2. UNCHANGED <<pid, result, target, kept, published>>
      BY <1>4, <2>3 DEF Flush, Fails
    <3> QED
      BY <1>4, <2>1, <2>2, <2>3, <3>1, <3>2 DEF Flush
  <2>4. CASE Fails(r) /\ UNCHANGED tmp
    BY <1>4, <2>4 DEF Flush, Fails
  <2> QED
    BY <1>4, <2>3, <2>4 DEF Flush
<1>5. ASSUME NEW r \in Run, Rename(r) PROVE ReportInv'
  <2>1. pid[r] \in Pid /\ tmp[pid[r]] \in File /\ tmp[pid[r]].of = r
        /\ tmp[pid[r]].whole /\ tmp[pid[r]].flushed
    BY <1>5 DEF Rename
  <2> QED
    BY <1>5, <2>1 DEF Rename, Fails, TmpName
<1>6. ASSUME NEW r \in Run, Exit(r) PROVE ReportInv'
  BY <1>6 DEF Exit
<1>7. ASSUME NEW r \in Run, Kill(r) PROVE ReportInv'
  BY <1>7 DEF Kill
<1>8. ASSUME PowerLoss PROVE ReportInv'
  <2>1. PICK f \in kept : target' \in AfterLoss(f)
    BY <1>8 DEF PowerLoss
  <2>2. target' = f /\ kept' = {f}
    BY <1>8, <2>1 DEF PowerLoss, AfterLoss
  <2>3. tmp' \in [Pid -> File \cup {NoFile}]
    <3> DEFINE S == (UNION {AfterLoss(tmp[p]) : p \in Pid}) \cup {NoFile}
    <3>1. S \subseteq File \cup {NoFile}
      BY LossOfFile
    <3>2. tmp' \in [Pid -> S]
      BY <1>8 DEF PowerLoss
    <3> HIDE DEF S
    <3> QED
      BY <3>1, <3>2
  <2>4. \A r \in Run : ~Active(r)' /\ call'[r] \in {"idle", "done"}
    BY <1>8 DEF PowerLoss
  <2>5. TypeOK'
    BY <1>8, <2>2, <2>3 DEF PowerLoss
  <2>6. KeptWhole'
    BY <1>8, <2>2 DEF PowerLoss
  <2>7. PublishedExactly'
    BY <1>8, <2>4 DEF PowerLoss
  <2> QED
    BY <2>4, <2>5, <2>6, <2>7
<1>9. ASSUME DirectoryFlush PROVE ReportInv'
  BY <1>9 DEF DirectoryFlush
<1>10. CASE UNCHANGED reportVars
  BY <1>10 DEF reportVars
<1> QED
  BY <1>1, <1>2, <1>3, <1>4, <1>5, <1>6, <1>7, <1>8, <1>9, <1>10 DEF ReportNext

(* The report path never holds part of a report, for any number of runs and of
   process ids, whatever fails, is killed or loses power. *)
THEOREM ReportNeverPartial == ReportSpec => []NeverPartial
<1>1. ReportInv => NeverPartial
  BY DEF ReportInv, KeptWhole, NeverPartial
<1> QED
  BY ReportInvInit, ReportInvNext, <1>1, PTL DEF ReportSpec

(* A run that claims a decision has published its report, and one that ends
   with exit code 64 has not. *)
THEOREM ExitCodesTellReports == ReportSpec => []ExitCodeTellsReport
<1>1. ReportInv => ExitCodeTellsReport
  BY DEF ReportInv, KeptWhole, PublishedExactly, ExitCodeTellsReport
<1> QED
  BY ReportInvInit, ReportInvNext, <1>1, PTL DEF ReportSpec
=============================================================================
