-------------------------------- MODULE Verify ---------------------------------
(***************************************************************************)
(* `recalc verify` (xl-bench: verify_cli.rs run_v1, verify.rs, diff.rs     *)
(* classify, sidecar.rs): one run judges a candidate workbook against its  *)
(* own cached values, a recalculated baseline, or a supplied Excel result, *)
(* under a policy, and leaves a report and an exit code.                   *)
(*                                                                         *)
(* The run opens the candidate several times: for its hash, for the        *)
(* comparison with its cache, for the computed values, and for the         *)
(* assertions.  Each open is an action, so the file may change between     *)
(* two.  Values are a few names; what the engine makes of a cell (a value, *)
(* an error, a refusal) is part of the workbook here.  Writing the report  *)
(* is one step: ReportFile has its parts.                                  *)
(***************************************************************************)
EXTENDS Naturals, FiniteSets, Sequences

CONSTANTS
  Sweeps,  \* the invocations to check, as records of sets, see below
  None     \* nothing yet

Refusal == {"unsupported", "blocked", "resource"}  \* is_recalc_sentinel
Errors == {"error"} \cup Refusal
Values == {"v", "w", "blank"} \cup Errors

\* A formula cell: the value the engine gives it, whether its text parses, and
\* the value in its <v>.  An unparsed formula computes #UNSUPPORTED!.
FormulaCell ==
  {c \in [computed : Values, parsed : BOOLEAN, cached : Values \ Refusal] :
     ~c.parsed => c.computed = "unsupported"}

\* A workbook file: formula cells by position, and what its preflight finds.
IsWorkbook(book) ==
  /\ IsFiniteSet(DOMAIN book.cells)
  /\ book.cells \in [DOMAIN book.cells -> FormulaCell]
  /\ {book.loads, book.external, book.volatile, book.vba} \subseteq BOOLEAN

\* An invocation: the versions the candidate goes through, the comparison
\* workbook, where evidence comes from, the policy, whether --json is given, and
\* whether the arguments or the policy are malformed.
Invocation(sweep) ==
  [books : sweep.books, other : sweep.other, mode : sweep.mode, policy : sweep.policy,
   json : sweep.json, usage : sweep.usage]
Actions == {"fallback", "fail", "allow"}
ActionField == {"on_unsupported", "on_blocked", "on_resource_limit", "on_parse_error",
                "on_formula_error", "on_external_reference", "on_vba_project"}

IsPolicy(policy) ==
  /\ \A field \in ActionField : policy[field] \in Actions
  /\ {policy.require_comparison, policy.require_excel_result, policy.require_determinism,
      policy.allow_stored_value_match, policy.allow_baseline_match} \subseteq BOOLEAN
  /\ \A a \in policy.assertions : a.op \in {"not_error", "blank", "equals_number", "nowhere"}

\* Arguments and policies that the parsers accept, and files that may be there.
ASSUME SweepsAssumption ==
  \A sweep \in Sweeps :
    /\ \A books \in sweep.books :
         Len(books) \in Nat \ {0} /\ \A v \in 1 .. Len(books) : IsWorkbook(books[v])
    /\ \A other \in sweep.other : IsWorkbook(other)
    /\ sweep.mode \subseteq {"stored", "baseline", "excel"}
    /\ \A policy \in sweep.policy : IsPolicy(policy)
    /\ sweep.json \subseteq BOOLEAN /\ sweep.usage \subseteq BOOLEAN

\* Policy::default
DefaultPolicy ==
  [on_unsupported |-> "fallback", on_blocked |-> "fallback",
   on_resource_limit |-> "fallback", on_parse_error |-> "fallback",
   on_formula_error |-> "fail", on_external_reference |-> "fallback",
   on_vba_project |-> "fallback",
   require_comparison |-> FALSE, require_excel_result |-> FALSE,
   require_determinism |-> TRUE, allow_stored_value_match |-> TRUE,
   allow_baseline_match |-> TRUE, assertions |-> {}]

VARIABLES
  run,      \* the invocation
  version,  \* the version of the candidate now on the disk
  pc,       \* the next step of the run
  seen,     \* what the run has read so far
  report,   \* the report it has built, or NoReport
  file,     \* the report this run has put on the disk, NoReport if it is as before
  exit      \* the exit code, or None

vars == <<run, version, pc, seen, report, file, exit>>

NoReport == [decision |-> "none"]

\* ------------------------------------------------------------ the judgement
\* What run_verify_internal computes from what it has seen: s.first is the
\* workbook of run_workbook, s.values that of computed_values, s.asserted that
\* of evaluate_assertions, s.other the comparison workbook.

\* CachedValueSource::lookup and classify with the default DiffConfig.
Status(c) ==
  IF c.cached = "blank" THEN "no_oracle"
  ELSE IF c.computed \in Refusal THEN "engine_unsupported"
  ELSE IF c.computed = c.cached THEN "exact"
  ELSE "mismatch"

Cells(s) == DOMAIN s.first.cells
Having(s, st) == {i \in Cells(s) : Status(s.first.cells[i]) = st}

Compares(s) == s.mode # "stored"
Computed(s) == DOMAIN s.values.cells
Candidate(s, i) == s.values.cells[i].computed
ParseFailed(s) == {i \in Computed(s) : ~s.values.cells[i].parsed}

\* cached_values of a supplied result, computed_values of a baseline.
OtherValue(s, i) ==
  IF s.mode = "excel" THEN s.other.cells[i].cached ELSE s.other.cells[i].computed

BaselineMismatches(s) ==
  IF ~Compares(s) THEN {}
  ELSE {i \in Cells(s) \cap Computed(s) \cap DOMAIN s.other.cells :
          Candidate(s, i) # OtherValue(s, i)}

BaselineMissing(s) ==
  IF ~Compares(s) THEN {} ELSE (Cells(s) \cap Computed(s)) \ DOMAIN s.other.cells

\* evaluate_assertions: each names a cell and an operator; "nowhere" is a range
\* or a sheet that cannot be resolved.
Assertions(s) == s.policy.assertions
AssertionsInvalid(s) ==
  Assertions(s) # {} /\ (~s.asserted.loads \/ \E a \in Assertions(s) : a.op = "nowhere")

AssertedValue(s, i) ==
  IF i \in DOMAIN s.asserted.cells THEN s.asserted.cells[i].computed ELSE "blank"

Passes(a, value) ==
  CASE a.op = "not_error"     -> value \notin Errors
    [] a.op = "blank"         -> value = "blank"
    [] a.op = "equals_number" -> value = "v"

AssertionFailures(s) ==
  IF Assertions(s) = {} \/ AssertionsInvalid(s) THEN {}
  ELSE {a \in Assertions(s) : ~Passes(a, AssertedValue(s, a.cell))}

\* A comparison the policy may require.
HasComparison(s) ==
  \/ Compares(s) /\ DOMAIN s.other.cells # {}
  \/ /\ ~Compares(s)
     /\ s.policy.allow_stored_value_match
     /\ Having(s, "no_oracle") # Cells(s)

ComputedAs(s, value) == {i \in Computed(s) : Candidate(s, i) = value}

\* Fault: parse failures count as unsupported ones.
UnsupportedCount_WithUnparsed(s) == Cardinality(ComputedAs(s, "unsupported"))

\* Parse failures carry #UNSUPPORTED! too and answer to on_parse_error.
UnsupportedCount(s) ==
  LET all == Cardinality(ComputedAs(s, "unsupported"))
      unparsed == Cardinality(ParseFailed(s))
  IN IF all < unparsed THEN 0 ELSE all - unparsed

\* The conditions that the policy gives an action.
Triggered(s, field) ==
  CASE field = "on_unsupported" ->
         \/ UnsupportedCount(s) > 0
         \/ /\ s.policy.require_comparison
            /\ Having(s, "engine_unsupported") \cup Having(s, "no_oracle") # {}
    [] field = "on_blocked"            -> ComputedAs(s, "blocked") # {}
    [] field = "on_resource_limit"     -> ComputedAs(s, "resource") # {}
    [] field = "on_parse_error"        -> ParseFailed(s) # {}
    [] field = "on_formula_error"      -> ComputedAs(s, "error") # {}
    [] field = "on_external_reference" -> s.first.external
    [] field = "on_vba_project"        -> s.first.vba

Takes(s, action) ==
  \E field \in ActionField : Triggered(s, field) /\ s.policy[field] = action

\* Conditions that make the evidence unusable, each with its issue's code.
Preflight(s) ==
  {code \in {"comparison_required", "determinism_unavailable",
             "baseline_cell_unavailable", "stored_evidence_disabled",
             "excel_evidence_required", "baseline_evidence_disabled",
             "assertion_evaluation_failed"} :
     CASE code = "comparison_required" ->
            s.policy.require_comparison /\ ~HasComparison(s)
       [] code = "determinism_unavailable" ->
            s.policy.require_determinism /\ s.first.volatile
       [] code = "baseline_cell_unavailable" -> BaselineMissing(s) # {}
       [] code = "stored_evidence_disabled" ->
            ~Compares(s) /\ ~s.policy.allow_stored_value_match
       [] code = "excel_evidence_required" ->
            s.policy.require_excel_result /\ s.mode # "excel"
       [] code = "baseline_evidence_disabled" ->
            s.mode = "baseline" /\ ~s.policy.allow_baseline_match
       [] code = "assertion_evaluation_failed" -> AssertionsInvalid(s)}

Fail(s) ==
  \/ IF Compares(s) THEN BaselineMismatches(s) # {} ELSE Having(s, "mismatch") # {}
  \/ AssertionFailures(s) # {}
  \/ Takes(s, "fail")

Fallback(s) == Preflight(s) # {} \/ Takes(s, "fallback")

\* decide: FAIL > FALLBACK > PASS
Decision(s) ==
  IF Fail(s) THEN "fail" ELSE IF Fallback(s) THEN "fallback" ELSE "pass"

\* Exit codes of decisions, and 64 for usage.
ExitCode(decision) == CASE decision = "pass" -> 0 [] decision = "fail" -> 1
                        [] decision = "fallback" -> 2

\* -------------------------------------------------------------- the report
Outcome(s, i) ==
  IF i \in ParseFailed(s) THEN "parse_failed"
  ELSE IF i \in Computed(s) /\ Candidate(s, i) \in Errors
       THEN CASE Candidate(s, i) = "blocked"     -> "blocked"
              [] Candidate(s, i) = "resource"    -> "resource_limited"
              [] Candidate(s, i) = "unsupported" -> "unsupported"
              [] Candidate(s, i) = "error"       -> "formula_error"
  ELSE IF Status(s.first.cells[i]) = "engine_unsupported" THEN "unsupported"
  ELSE "recalc_computed"

Evidence(s, i) ==
  IF Compares(s)
  THEN IF i \in BaselineMissing(s) THEN "evidence_unavailable"
       ELSE IF i \in BaselineMismatches(s) THEN "differs_baseline"
       ELSE "matches_baseline"
  ELSE CASE Status(s.first.cells[i]) = "no_oracle" -> "evidence_unavailable"
         [] Status(s.first.cells[i]) = "mismatch"  -> "differs_stored"
         [] OTHER                                  -> "matches_stored"

\* The policy field that an outcome answers to.
FieldOf(outcome) ==
  CASE outcome = "parse_failed"     -> "on_parse_error"
    [] outcome = "blocked"          -> "on_blocked"
    [] outcome = "resource_limited" -> "on_resource_limit"
    [] outcome = "formula_error"    -> "on_formula_error"
    [] outcome = "unsupported"      -> "on_unsupported"

Issue(code, severity, cell) == [code |-> code, severity |-> severity, cell |-> cell]

Severity(action) == IF action = "fail" THEN "error" ELSE "warning"

\* Fault: a cell whose cached value is missing is reported as nothing else.
CellIssue_GapFirst(s, i) ==
  LET outcome == Outcome(s, i) IN
  IF i \in Having(s, "no_oracle") THEN {}
  ELSE IF i \in BaselineMismatches(s) THEN {Issue("baseline_mismatch", "error", i)}
  ELSE IF outcome # "recalc_computed"
       THEN {Issue(outcome, Severity(s.policy[FieldOf(outcome)]), i)}
  ELSE IF ~Compares(s) /\ i \in Having(s, "mismatch") THEN {Issue("mismatch", "error", i)}
  ELSE {}

\* At most one issue per cell, the first that applies.
CellIssue(s, i) ==
  LET outcome == Outcome(s, i) IN
  IF i \in BaselineMismatches(s) THEN {Issue("baseline_mismatch", "error", i)}
  ELSE IF outcome # "recalc_computed"
       THEN {Issue(outcome, Severity(s.policy[FieldOf(outcome)]), i)}
  ELSE IF i \in Having(s, "no_oracle")
       THEN {Issue("evidence_unavailable", "warning", i)}
  ELSE IF ~Compares(s) /\ i \in Having(s, "mismatch") THEN {Issue("mismatch", "error", i)}
  ELSE {}

Workbook == 0  \* the place of an issue that no cell owns

Issues(s) ==
  {Issue(code, "warning", Workbook) : code \in Preflight(s)}
  \cup {Issue(f, "warning", Workbook) :
          f \in {g \in {"on_external_reference", "on_vba_project"} : Triggered(s, g)}}
  \cup {Issue("assertion_failed", "error", a.cell) : a \in AssertionFailures(s)}
  \cup UNION {CellIssue(s, i) : i \in Cells(s)}

\* The summary's counts; outcomes are counted from the computed values.
CountOf(s, value) ==
  Cardinality({i \in Cells(s) \cap ComputedAs(s, value) : i \notin ParseFailed(s)})

Summary(s) ==
  LET unparsed == Cardinality(Cells(s) \cap ParseFailed(s))
      errors   == CountOf(s, "error")
      blocked  == CountOf(s, "blocked")
      resource == CountOf(s, "resource")
      others   == blocked + resource + unparsed
      declined == Cardinality(Having(s, "engine_unsupported"))
      counted  == CountOf(s, "unsupported")
      \* never fewer than the comparison saw refused
      unsupported == IF declined > others /\ declined - others > counted
                     THEN declined - others ELSE counted
      refused  == unsupported + others + errors
  IN [formula_cells |-> Cardinality(Cells(s)),
      formula_errors |-> errors, unsupported |-> unsupported, blocked |-> blocked,
      resource_limited |-> resource, parse_failed |-> unparsed,
      recalc_computed |-> IF Cardinality(Cells(s)) < refused THEN 0
                          ELSE Cardinality(Cells(s)) - refused,
      mismatches |-> Cardinality(IF Compares(s) THEN BaselineMismatches(s)
                                 ELSE Having(s, "mismatch"))]

\* verify_workbook_supplied rewrites the finished JSON: every string token
\* "baseline", wherever it stands, and the labels that contain the word.
Relabel(s, text) ==
  IF s.mode # "excel" THEN text
  ELSE CASE text = "baseline"          -> "supplied_excel_result"
         [] text = "matches_baseline"  -> "matches_supplied_excel"
         [] text = "differs_baseline"  -> "differs_supplied_excel"
         [] text = "baseline_mismatch" -> "excel_result_mismatch"
         [] OTHER                      -> text

Report(s) ==
  [decision |-> Decision(s), of |-> s.hash, summary |-> Summary(s),
   source |-> IF Compares(s) THEN Relabel(s, "baseline") ELSE "cached_value",
   cells  |-> [i \in Cells(s) |-> [sheet |-> Relabel(s, s.first.sheet),
                                   outcome |-> Outcome(s, i),
                                   evidence |-> Relabel(s, Evidence(s, i))]],
   issues |-> {[x EXCEPT !.code = Relabel(s, @)] : x \in Issues(s)}]

\* ----------------------------------------------------------------- the run
Init ==
  /\ \E sweep \in Sweeps : run \in Invocation(sweep)
  /\ version = 1
  /\ pc = "start"
  /\ seen = [mode |-> run.mode, policy |-> run.policy, hash |-> 0, first |-> None,
             other |-> None, values |-> None, asserted |-> None]
  /\ report = NoReport
  /\ file = NoReport
  /\ exit = None

OnDisk == run.books[version]

Ends(code) ==
  /\ pc' = "done"
  /\ exit' = code

\* run_v1 refuses what it cannot run: flags that do not fit together, a policy
\* that does not parse.
Start ==
  /\ pc = "start"
  /\ IF run.usage THEN Ends(64) ELSE pc' = "hash" /\ UNCHANGED exit
  /\ UNCHANGED <<run, version, seen, report, file>>

\* run_verify_internal reads the candidate and the comparison workbook, to hash
\* them into the receipt, and the policy anew: run.policy is what it reads here,
\* run.usage whether run_v1 could read it.  A file may be gone by now, or the
\* policy no longer be one.
ReadBytes ==
  /\ pc = "hash"
  /\ \/ /\ seen' = [seen EXCEPT !.hash = version]
        /\ pc' = "first"
        /\ UNCHANGED exit
     \/ Ends(2) /\ UNCHANGED seen
  /\ UNCHANGED <<run, version, report, file>>

\* An open that fails ends the run with the exit code of FALLBACK.
Open(part, book, next) ==
  /\ IF book.loads
     THEN /\ seen' = [seen EXCEPT ![part] = book]
          /\ pc' = next
          /\ UNCHANGED exit
     ELSE Ends(2) /\ UNCHANGED seen
  /\ UNCHANGED <<run, version, report, file>>

RunWorkbook ==
  pc = "first" /\ Open("first", OnDisk, IF Compares(seen) THEN "other" ELSE "values")

ReadOther == pc = "other" /\ Open("other", run.other, "values")

ComputeValues == pc = "values" /\ Open("values", OnDisk, "assert")

\* evaluate_assertions, the judgement and the JSON.
Judge ==
  /\ pc = "assert"
  /\ seen' = [seen EXCEPT !.asserted = OnDisk]
  /\ report' = Report(seen')
  /\ pc' = "write"
  /\ UNCHANGED <<run, version, file, exit>>

\* The report goes to the --json path, if there is one and it can be written.
WriteReport ==
  /\ pc = "write"
  /\ \/ /\ file' = IF run.json THEN report ELSE file
        /\ Ends(ExitCode(report.decision))
     \/ run.json /\ Ends(64) /\ UNCHANGED file
  /\ UNCHANGED <<run, version, seen, report>>

\* Someone saves the candidate while the run is on.
Save ==
  /\ pc \in {"hash", "first", "other", "values", "assert"}
  /\ version < Len(run.books)
  /\ version' = version + 1
  /\ UNCHANGED <<run, pc, seen, report, file, exit>>

Next ==
  \/ Start \/ ReadBytes \/ RunWorkbook \/ ReadOther \/ ComputeValues \/ Judge
  \/ WriteReport \/ Save
  \/ pc = "done" /\ UNCHANGED vars

Spec == Init /\ [][Next]_vars

\* ------------------------------------------------------------- properties
\* A report on a candidate that nobody changes.
Judged == report # NoReport /\ Len(run.books) = 1

Book == run.books[1]

\* What the comparison finds in cell i, said of the files.
Differs(i) ==
  LET c == Book.cells[i] IN
  CASE run.mode = "stored"   -> c.cached # "blank" /\ c.computed \notin Refusal
                                /\ c.computed # c.cached
    [] run.mode = "baseline" -> i \in DOMAIN run.other.cells
                                /\ run.other.cells[i].computed # c.computed
    [] run.mode = "excel"    -> i \in DOMAIN run.other.cells
                                /\ run.other.cells[i].cached # c.computed

AssertionHolds(a) ==
  /\ a.op # "nowhere"
  /\ Passes(a, IF a.cell \in DOMAIN Book.cells THEN Book.cells[a.cell].computed ELSE "blank")

\* The policy fields under which some cell or flag of the workbook falls.
Conditions ==
  {FieldOf(IF ~c.parsed THEN "parse_failed"
           ELSE CASE c.computed = "error" -> "formula_error"
                  [] c.computed = "blocked" -> "blocked"
                  [] c.computed = "resource" -> "resource_limited"
                  [] c.computed = "unsupported" -> "unsupported") :
     c \in {Book.cells[i] : i \in {j \in DOMAIN Book.cells : Book.cells[j].computed \in Errors}}}
  \cup (IF Book.external THEN {"on_external_reference"} ELSE {})
  \cup (IF Book.vba THEN {"on_vba_project"} ELSE {})

(* The decision is what the contract says of the files: PASS is never given to
   a workbook with a cell that differs from the chosen evidence, an assertion
   that does not hold, or a refusal, error or flag the policy does not allow by
   name, nor without the evidence the policy asks for; FAIL is never given
   without a measured difference, a failed assertion or a condition the policy
   makes one, and none of the first two ends as FALLBACK. The exit code is that
   of the report the run wrote, and a run that ends with 64 wrote none. *)
DecisionIsSound ==
  /\ Judged =>
       LET cells == DOMAIN Book.cells
           differs == \E i \in cells : Differs(i)
           broken == /\ \A a \in run.policy.assertions : a.op # "nowhere"
                     /\ \E a \in run.policy.assertions : ~AssertionHolds(a)
       IN /\ report.decision = "pass" =>
               /\ ~differs
               /\ \A a \in run.policy.assertions : AssertionHolds(a)
               /\ \A f \in Conditions : run.policy[f] = "allow"
               /\ run.policy.require_determinism => ~Book.volatile
               /\ run.policy.require_excel_result => run.mode = "excel"
               /\ run.policy.require_comparison /\ cells # {} =>
                    \E i \in cells : report.cells[i].evidence # "evidence_unavailable"
          /\ report.decision = "fail" =>
               \/ differs \/ broken
               \/ \E f \in Conditions : run.policy[f] = "fail"
               \/ run.policy.require_comparison /\ run.policy.on_unsupported = "fail"
          /\ report.decision = "fallback" => ~differs /\ ~broken
  /\ pc = "done" =>
       /\ file # NoReport => exit = ExitCode(file.decision)
       /\ exit = 64 => file = NoReport
       /\ exit \in {0, 1} => run.json = (file # NoReport)

(* The report explains the decision: its counts are those of its own records,
   every record that is not a plain agreeing value has an issue of its own, a
   run that does not pass has an issue and one that passes has no error. *)
ReportExplains ==
  Judged =>
    LET cells == DOMAIN report.cells
        Of(outcome) == Cardinality({i \in cells : report.cells[i].outcome = outcome})
        sum == report.summary
    IN /\ sum.formula_errors = Of("formula_error") /\ sum.unsupported = Of("unsupported")
       /\ sum.blocked = Of("blocked") /\ sum.resource_limited = Of("resource_limited")
       /\ sum.parse_failed = Of("parse_failed")
       /\ sum.recalc_computed = Of("recalc_computed")
       /\ \A i \in cells :
            \/ \E x \in report.issues : x.cell = i
            \/ /\ report.cells[i].outcome = "recalc_computed"
               /\ report.cells[i].evidence \notin
                    {"differs_stored", "differs_baseline", "differs_supplied_excel"}
       /\ report.decision # "pass" => report.issues # {}
       /\ report.decision = "pass" => \A x \in report.issues : x.severity = "warning"

\* --------------------------------- what the documents say and the code does not
(* Contract section 6: the run writes the report and returns the exit code.  A
   candidate that does not load ends with 2 and leaves the older report. *)
DecisionIsReported == pc = "done" /\ exit # 64 /\ run.json => file # NoReport

(* Contract section 5: matches_stored is a comparison with the cached value.  A
   refused cell has the label whatever its cache holds. *)
MatchLabelsAreTrue ==
  Judged => \A i \in DOMAIN report.cells :
    report.cells[i].evidence = "matches_stored" => Book.cells[i].computed = Book.cells[i].cached

(* Issue::severity: "error" drives FAIL.  A policy that fails on VBA or on
   external references fails a run with no error in its issues. *)
ErrorsDriveFail ==
  Judged => (report.decision = "fail" => \E x \in report.issues : x.severity = "error")

(* "A baseline run never reads the candidate cache": its decision would be the
   same whatever the cache holds. *)
BaselineIgnoresCache ==
  Judged /\ run.mode = "baseline" =>
    LET cached == [i \in DOMAIN Book.cells |-> [Book.cells[i] EXCEPT !.cached = "v"]]
    IN Decision([seen EXCEPT !.first.cells = cached]) = report.decision

(* Contract section 5: evidence_unavailable is a comparison source that lacks a
   value.  A supplied result with no value for a cell counts as a difference. *)
GapIsUnavailable ==
  Judged /\ run.mode = "excel" =>
    \A i \in DOMAIN report.cells \cap DOMAIN run.other.cells :
      run.other.cells[i].cached = "blank" /\ Book.cells[i].computed # "blank" =>
        report.cells[i].evidence = "evidence_unavailable"

(* CellRecord::sheet is the sheet's name.  A supplied result run renames a sheet
   called baseline in the report. *)
RecordsKeepSheets == Judged => \A i \in DOMAIN report.cells : report.cells[i].sheet = Book.sheet

(* Contract section 7: hashes are the identity.  A candidate saved during the
   run is reported under the hash of the file before. *)
HashIdentifiesValues == report # NoReport => seen.values = run.books[report.of]
=============================================================================
