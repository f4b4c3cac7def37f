------------------------------- MODULE MCVerify --------------------------------
EXTENDS Verify

MCCell == {c \in FormulaCell : c.computed \in {"v", "error"} \cup Refusal}
Good == [computed |-> "v", parsed |-> TRUE, cached |-> "v"]
Refused == [computed |-> "unsupported", parsed |-> TRUE, cached |-> "v"]
Uncached == [computed |-> "v", parsed |-> TRUE, cached |-> "blank"]

File(cells) == [loads |-> TRUE, cells |-> cells, sheet |-> "Sheet1", external |-> FALSE,
                volatile |-> FALSE, vba |-> FALSE]
Broken == [File(<<>>) EXCEPT !.loads = FALSE]

\* The default policy with one setting changed, everything allowed, and those
\* that ask for a comparison under each action.
MCPolicy ==
  {DefaultPolicy}
  \cup UNION {{[DefaultPolicy EXCEPT ![f] = a] : a \in Actions} : f \in ActionField}
  \cup {[DefaultPolicy EXCEPT ![f] = ~@] :
          f \in {"require_comparison", "require_excel_result", "require_determinism",
                 "allow_stored_value_match", "allow_baseline_match"}}
  \cup {[f \in DOMAIN DefaultPolicy |-> IF f \in ActionField THEN "allow" ELSE DefaultPolicy[f]]}
  \cup {[DefaultPolicy EXCEPT !.require_comparison = TRUE, !.on_unsupported = a] : a \in Actions}

Sweep(books, mode, others, policies) ==
  [books |-> {<<b>> : b \in books}, other |-> others, mode |-> {mode}, policy |-> policies,
   json |-> {TRUE}, usage |-> {FALSE}]

\* What the comparison workbook may hold in place of a cell: one of these, or
\* no formula there.
Others(mode) ==
  LET held == IF mode = "baseline"
              THEN {[Good EXCEPT !.computed = x] : x \in {"v", "w", "error", "unsupported"}}
              ELSE {[Good EXCEPT !.cached = x] : x \in {"v", "w", "error", "blank"}}
  IN {File(<<>>)} \cup {File(<<o>>) : o \in held} \cup {File(<<o, Good>>) : o \in held}

Judging ==
  {Sweep({File(<<c, d>>) : c \in MCCell, d \in {Good, Refused, Uncached}},
         "stored", {File(<<>>)}, MCPolicy)}
  \cup {Sweep({File(<<c, d>>) : c \in MCCell, d \in {Good, Uncached}}, mode, Others(mode), MCPolicy) :
           mode \in {"baseline", "excel"}}

Assertion == [cell : {1, 2}, op : {"not_error", "equals_number", "blank", "nowhere"}]
Asserting ==
  {Sweep({File(<<c, Good>>) : c \in MCCell}, "stored", {File(<<>>)},
         {[p EXCEPT !.assertions = A] :
            p \in {DefaultPolicy, [DefaultPolicy EXCEPT !.on_formula_error = "allow"]},
            A \in {B \in SUBSET Assertion : Cardinality(B) \in 1 .. 2}})}

Flagged ==
  {Sweep({[File(<<c, Good>>) EXCEPT ![flag] = TRUE] :
            c \in {Good, Refused}, flag \in {"external", "volatile", "vba"}},
         mode, {File(<<Good, Good>>)}, MCPolicy) : mode \in {"stored", "baseline", "excel"}}

\* Files that do not load, that have no formula, that change, and a sheet with
\* an unlucky name.
Calls ==
  {[books |-> {<<Broken>>, <<File(<<>>)>>, <<[File(<<Good>>) EXCEPT !.sheet = "baseline"]>>,
               <<File(<<Good>>), Broken>>, <<File(<<Good>>), File(<<Refused>>)>>,
               <<File(<<Refused, Good>>), File(<<Good>>)>>},
    other |-> {File(<<Good>>), Broken}, mode |-> {"stored", "baseline", "excel"},
    policy |-> {DefaultPolicy}, json |-> BOOLEAN, usage |-> BOOLEAN]}

MCSweeps == Judging \cup Asserting \cup Flagged \cup Calls
=============================================================================
