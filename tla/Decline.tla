------------------------------- MODULE Decline -------------------------------
(* Why a recalculation refused a cell (xl-bench: decline.rs, l2site.rs and   *)
(* shared_residual.rs), next to what the engine did. The tools read the file *)
(* and the engine's values; from them they rebuild the formulas of shared    *)
(* groups and the references between the refused cells, with code of their   *)
(* own, and name one cause and one place for each refusal.                   *)
(*                                                                           *)
(* A cell of the file is None or what its <f> holds: a kind, a shared index, *)
(* a body, and whether a cached value is there to compare with. A body is    *)
(* None, <<"text", why, marks>> when it does not parse, or <<"sum", parts>>: *)
(* the parts are added from left to right. A part is <<"call", f>>,          *)
(* <<"ref", r>>, <<"range", e, f>> (a SUM of it), <<"error">> for #REF!,     *)
(* <<"odd">> for a construct the parser leaves alone, or <<"lambda">>, which *)
(* stands alone. A reference has a sheet, None without a qualifier, a row    *)
(* and a column; None for one of them is a whole line. Positions count from  *)
(* 0, and the engine's parser is common ground.                              *)
EXTENDS Integers, Sequences, FiniteSets, SequencesExt, FiniteSetsExt, Functions

CONSTANTS MaxRow, MaxCol,  \* the last row and column of a sheet
          SheetMap,        \* [names of the sheets -> their ids]
          External,        \* the qualifiers of other workbooks
          Spans,           \* those of several sheets
          LooksLikeR1C1,   \* the columns whose letters start with an R or a C and have both
          Menu,            \* [Cell -> what the file may hold there]
          OffGrid, None

ASSUME GridAssumption == MaxRow \in Nat /\ MaxCol \in Nat

Cell == Range(SheetMap) \X (0..MaxRow) \X (0..MaxCol)
Before(c, d) == c[2] < d[2] \/ (c[2] = d[2] /\ c[3] < d[3])

VARIABLE book  \* [Cell -> what the file holds]

BookInit == book = [c \in Cell |-> None]

\* The author of the workbook changes a cell; the file is then read anew.
Enter(c) == \E e \in Menu[c] : book' = [book EXCEPT ![c] = e]

FormulaCells == {c \in Cell : book[c] # None}
HasText(body) == body # None
Parses(body) == body # None /\ body[1] = "sum"

-----------------------------------------------------------------------------
(* Shared formulas. The engine and the tools each have a map of masters and  *)
(* a translation: the engine drops a master that does not parse and wraps a  *)
(* reference round the far edge, the tools keep it and write #REF!.          *)

\* The last master of a group wins.
LastMaster(s, si, Keep(_)) ==
  LET masters == {m \in FormulaCells : m[1] = s /\ book[m].kind = "shared" /\ book[m].si = si
                                        /\ HasText(book[m].body) /\ Keep(book[m].body)}
  IN IF masters = {} THEN None
     ELSE CHOOSE m \in masters : \A n \in masters : n = m \/ Before(n, m)

ShiftAxis(axis, delta, max) ==
  CASE axis = None -> None
    [] axis # None /\ axis.fixed -> axis
    [] OTHER -> IF axis.at + delta \in 0..max THEN [axis EXCEPT !.at = @ + delta] ELSE OffGrid

WrapAxis(axis, delta, max) ==
  CASE axis = None -> None
    [] axis # None /\ axis.fixed -> axis
    [] OTHER -> IF axis.at + delta < 0 THEN OffGrid ELSE [axis EXCEPT !.at = (@ + delta) % (max + 1)]

TranslateRef(e, dr, dc, Shift(_, _, _)) ==
  IF e[1] # "ref" THEN e
  ELSE LET row == Shift(e[2].row, dr, MaxRow)
           col == Shift(e[2].col, dc, MaxCol)
       IN IF row = OffGrid \/ col = OffGrid THEN <<"error">>
          ELSE <<"ref", [e[2] EXCEPT !.row = row, !.col = col]>>

Translate(parts, dr, dc, Shift(_, _, _)) ==
  [i \in DOMAIN parts |->
     IF parts[i][1] = "range"
     THEN <<"range", TranslateRef(parts[i][2], dr, dc, Shift), TranslateRef(parts[i][3], dr, dc, Shift)>>
     ELSE TranslateRef(parts[i], dr, dc, Shift)]

\* The formula a cell stands for: its own, or its master's moved there.
Ast(c, Keep(_), Shift(_, _, _)) ==
  LET e == book[c]
      m == IF e.kind = "shared" /\ e.si # None THEN LastMaster(c[1], e.si, Keep) ELSE None
  IN CASE HasText(e.body) -> IF Parses(e.body) THEN e.body[2] ELSE None
       [] ~HasText(e.body) /\ m # None ->
            IF Parses(book[m].body)
            THEN Translate(book[m].body[2], c[2] - m[2], c[3] - m[3], Shift) ELSE None
       [] OTHER -> None

ToolAsts == [c \in FormulaCells |-> Ast(c, HasText, ShiftAxis)]
EngineAsts == [c \in FormulaCells |-> Ast(c, Parses, WrapAxis)]

-----------------------------------------------------------------------------
(* References, resolved by the tools.                                        *)

ResolveSheet(q, cur) ==
  CASE q = None -> cur
    [] q # None /\ q \in DOMAIN SheetMap -> SheetMap[q]
    [] OTHER -> None

AxisBounds(a, b, max) ==
  IF a = None \/ b = None THEN 0..max
  ELSE Min({a.at, b.at})..Max({a.at, b.at})

Box(s, rows, cols) == {<<s, r, c>> : r \in rows, c \in cols}

ResolveRef(r, cur) ==
  IF ResolveSheet(r.sheet, cur) = None THEN {}
  ELSE Box(ResolveSheet(r.sheet, cur), AxisBounds(r.row, r.row, MaxRow), AxisBounds(r.col, r.col, MaxCol))

IsRef(e) == e[1] = "ref"

ResolveRange(e, f, cur) ==
  IF ~IsRef(e) \/ ~IsRef(f) \/ ResolveSheet(e[2].sheet, cur) = None THEN None
  ELSE Box(ResolveSheet(e[2].sheet, cur), AxisBounds(e[2].row, f[2].row, MaxRow),
           AxisBounds(e[2].col, f[2].col, MaxCol))

RefsOf(part) ==
  CASE part[1] = "ref" -> {part[2]}
    [] part[1] = "range" -> {part[i][2] : i \in {j \in {2, 3} : IsRef(part[j])}}
    [] OTHER -> {}

\* A range that does not resolve is walked by its ends.
WalkPrecedents(part, cur) ==
  LET whole == IF part[1] = "range" THEN ResolveRange(part[2], part[3], cur) ELSE None
  IN IF whole # None THEN whole ELSE UNION {ResolveRef(r, cur) : r \in RefsOf(part)}

PrecedentsIn(index, ast, c) ==
  IF ast = None THEN {} ELSE index \intersect UNION {WalkPrecedents(ast[i], c[1]) : i \in DOMAIN ast}

\* What a search along `next` meets, starting with what c leads to.
Reached(next, c) ==
  LET after[n \in 0..Cardinality(DOMAIN next)] ==
        IF n = 0 THEN next[c]
        ELSE LET seen == after[n - 1] IN seen \union UNION {next[d] : d \in seen}
  IN after[Cardinality(DOMAIN next)]

-----------------------------------------------------------------------------
(* The engine, as far as a sum of parts goes.                                *)

SpecialForms == {"LAMBDA", "MAP"}
Registry == {"SUM", "ABS"}
Supported == Registry \union SpecialForms
BlockedIoFns == {"RTD"}
VolatileAntitargets == {"TODAY"}
DefinedNames == {"Rate"}

\* A call of ABS here is one that its function refuses without a diagnostic.
CallOutcome(f) == IF f \in BlockedIoFns THEN "Blocked" ELSE "Unsupported"

Resolves(part, cur) ==
  CASE part[1] = "ref" ->
         part[2].row # None /\ part[2].col # None /\ ResolveSheet(part[2].sheet, cur) # None
    [] part[1] = "range" ->
         /\ ResolveRange(part[2], part[3], cur) # None
         /\ (part[2][2].row = None) = (part[3][2].row = None)
         /\ (part[2][2].col = None) = (part[3][2].col = None)
    [] OTHER -> FALSE

EngineReads(ast, c) ==
  IF ast = None THEN {}
  ELSE FormulaCells \intersect UNION {WalkPrecedents(ast[i], c[1]) :
                                        i \in {j \in DOMAIN ast : Resolves(ast[j], c[1])}}

OnCycle(reads) == {c \in DOMAIN reads : c \in Reached(reads, c)}
Circular(asts) == OnCycle([c \in DOMAIN asts |-> EngineReads(asts[c], c)])

Fine == [value |-> "ok", path |-> <<>>]
Bad(v) == [value |-> v, path |-> <<>>]
IsFine(o) == o.value = "ok"
FirstBad(outcomes) == IF \A i \in DOMAIN outcomes : IsFine(outcomes[i]) THEN Fine
                      ELSE SelectSeq(outcomes, LAMBDA o : ~IsFine(o))[1]

\* What every cell shows after a recalculation, and the cells the refusal came
\* along: the cell itself, the one it read it from, and so on.
Outcomes(asts, circular) ==
  LET of[c \in FormulaCells] ==
        LET Read(d) == CASE d \notin FormulaCells -> Fine
                         [] d \in FormulaCells /\ asts[d] = <<<<"lambda">>>> -> Bad("error")
                         [] OTHER -> of[d]
            Part(part) ==
              CASE part[1] = "call" -> Bad(CallOutcome(part[2]))
                [] part[1] \in {"error", "lambda"} -> Bad(part[1])
                [] part[1] = "odd" -> Bad("Unsupported")
                [] OTHER ->
                     IF ~Resolves(part, c[1]) THEN Bad("Unsupported")
                     ELSE LET cells == SetToSortSeq(WalkPrecedents(part, c[1]), Before)
                          IN FirstBad([i \in DOMAIN cells |-> Read(cells[i])])
        IN IF asts[c] = None \/ c \in circular THEN [value |-> "Unsupported", path |-> <<c>>]
           ELSE LET ast == asts[c]
                    o == FirstBad([i \in DOMAIN ast |-> Part(ast[i])])
                IN [o EXCEPT !.path = <<c>> \o @]
  IN [c \in FormulaCells |-> of[c]]

\* The diagnostics of a recalculation. Every part is evaluated, whatever the
\* ones before it came to.
PartDiagnostics(part, cur) ==
  CASE part[1] = "call" ->
         IF part[2] \in BlockedIoFns THEN {<<"UnsupportedConstruct", "blocked">>}
         ELSE IF part[2] \in Supported THEN {} ELSE {<<"UnknownFunction", part[2]>>}
    [] part[1] = "odd" -> {<<"UnsupportedConstruct", "construct">>}
    [] part[1] \in {"ref", "range"} ->
         IF Resolves(part, cur) THEN {}
         ELSE IF part[1] = "ref" THEN {<<"UnsupportedConstruct", "reference", part[2]>>}
         ELSE {<<"UnsupportedConstruct", "range">>}
    [] OTHER -> {}

Diagnostics(asts, circular) ==
  [c \in FormulaCells |->
       LET ast == asts[c]
       IN CASE ast = None ->
                 IF HasText(book[c].body) THEN {<<"ParseError">>}
                 ELSE {<<"UnsupportedConstruct", "follow-on", book[c].kind>>}
            [] ast # None /\ c \in circular -> {<<"CircularReference">>}
            [] OTHER -> UNION {PartDiagnostics(ast[i], c[1]) : i \in DOMAIN ast}]

Executed(asts, circular) ==
  [asts |-> asts, outcomes |-> Outcomes(asts, circular), diagnostics |-> Diagnostics(asts, circular)]
Recalc(asts) == Executed(asts, Circular(asts))

Refusals == {"Unsupported", "Blocked"}
Sentinels(outcomes) == {c \in FormulaCells : outcomes[c].value \in Refusals}
Declined(outcomes) ==
  {c \in FormulaCells : book[c].oracle /\ outcomes[c].value \in Refusals \union {"lambda"}}

-----------------------------------------------------------------------------
(* decline.rs: one class for each declined cell.                             *)

FnCategory(f) ==
  CASE f = "_XLL" -> "vba_udf"
    [] f \in BlockedIoFns -> "blocked_io"
    [] f \in VolatileAntitargets -> "volatile"
    [] f \in Supported -> "supported"
    [] f \in DefinedNames \ Supported -> "vba_udf"
    [] OTHER -> "unimplemented_fn"

\* From the first to the last in the tie-break.
Cause == <<"external", "unimplemented_fn", "volatile", "blocked_io", "vba_udf">>
RankOf(cause) == CHOOSE i \in DOMAIN Cause : Cause[i] = cause

Pick(causes) == IF causes = {} THEN None ELSE Cause[Min({RankOf(c) : c \in causes})]

\* The causes a formula names itself; a cell that shows #BLOCKED! has that
\* one, too. The text of a formula that does not parse is searched for [1].
ScanDirect(ast) ==
  UNION {IF ast[i][1] = "call" THEN {FnCategory(ast[i][2])} \ {"supported"}
         ELSE IF \E r \in RefsOf(ast[i]) : r.sheet \in External THEN {"external"} ELSE {} :
           i \in DOMAIN ast}

UnimplementedNames(ast) ==
  IF ast = None THEN {}
  ELSE {ast[i][2] : i \in {j \in DOMAIN ast : ast[j][1] = "call" /\ FnCategory(ast[j][2]) = "unimplemented_fn"}}

\* A body that is not there has no bracket either.
OwnCauses(c, ast, value) ==
  (IF value = "Blocked" THEN {"blocked_io"} ELSE {})
  \union (IF ast # None THEN ScanDirect(ast)
          ELSE IF HasText(book[c].body) /\ "external" \in book[c].body[3] THEN {"external"} ELSE {})

Followons == {c \in FormulaCells : book[c].kind = "shared" /\ ~HasText(book[c].body)}

DirectClass(cause) == CASE cause \in {"external", "unimplemented_fn"} -> <<cause, "direct">>
                        [] OTHER -> <<cause>>
CascadeClass(cause) == CASE cause \in {"external", "unimplemented_fn"} -> <<cause, "cascade">>
                         [] OTHER -> <<cause>>

\* Fault: the kind of the cell decides, whether or not its copy was made.
ClassWithoutCause_ByKind(c, ast) ==
  IF c \in Followons THEN <<"shared_followon_unexpanded">>
  ELSE IF ~HasText(book[c].body) /\ book[c].kind \in {"array", "table"}
  THEN <<"array_followon_unmaterialized">>
  ELSE <<"other_unattributed">>

ClassWithoutCause(c, ast) ==
  IF c \in Followons /\ ast = None THEN <<"shared_followon_unexpanded">>
  ELSE IF ~HasText(book[c].body) /\ book[c].kind \in {"array", "table"}
  THEN <<"array_followon_unmaterialized">>
  ELSE <<"other_unattributed">>

\* What the cells that c leads to add: the causes, and the functions of those
\* that are counted as calls of a missing one.
Traced(reached, own) == UNION {own[d] : d \in reached}
Named(S, asts, own) ==
  UNION {UnimplementedNames(asts[d]) : d \in {e \in S : Pick(own[e]) = "unimplemented_fn"}}

\* A cause of its own beats what it reads.
Judge(c, ast, own, traced, namedHere, namedThere) ==
  CASE own # {} -> [class |-> DirectClass(Pick(own)), cause |-> Pick(own), names |-> namedHere,
                    multi |-> Cardinality(own) >= 2]
    [] own = {} /\ traced # {} ->
         [class |-> CascadeClass(Pick(traced)), cause |-> Pick(traced),
          names |-> IF Pick(traced) = "unimplemented_fn" THEN namedThere ELSE {}, multi |-> FALSE]
    [] OTHER -> [class |-> ClassWithoutCause(c, ast), cause |-> None, names |-> {}, multi |-> FALSE]

\* Phase B: everything the tool reports of the declined cells.
Classified(asts, own, reached) ==
  [c \in DOMAIN own |->
     Judge(c, asts[c], own[c], Traced(reached[c], own),
           Named({c}, asts, own), Named(reached[c], asts, own))]

\* Fault: the precedents of a precedent are not followed.
ReachedFrom_Once(next) == next

ReachedFrom(next) == [c \in DOMAIN next |-> Reached(next, c)]

\* Phase A: the causes and the declined precedents of each.
AttributeCells(asts, declined, outcomes) ==
  Classified(asts, [c \in declined |-> OwnCauses(c, asts[c], outcomes[c].value)],
             ReachedFrom([c \in declined |-> PrecedentsIn(declined, asts[c], c)]))

OtherReason(c, ast) ==
  CASE ast # None /\ \E i \in DOMAIN ast : ast[i][1] = "odd" -> "structured_ref"
    [] c \in Followons /\ ast # None -> "shared_expanded"
    [] ~HasText(book[c].body) -> "bodyless"
    [] ast = None -> "parse_error"
    [] OTHER -> "construct_or_unclear"

CellsOfClass(report, class) == {c \in DOMAIN report : report[c].class = class}

-----------------------------------------------------------------------------
(* l2site.rs: the place that refused a shared follow-on whose formula names  *)
(* no cause.                                                                 *)

RefFormKey(r) ==
  CASE r.sheet \in Spans -> <<"ref_3d_span">>
    [] /\ r.sheet \notin Spans /\ r.row # None /\ r.col # None
       /\ r.col.at \in LooksLikeR1C1 /\ ~r.col.fixed -> <<"ref_r1c1">>
    [] r.sheet \notin Spans /\ r.row = None -> <<"ref_whole_col">>
    [] r.sheet \notin Spans /\ r.col = None -> <<"ref_whole_row">>
    [] OTHER -> IF r.sheet # None THEN <<"ref_unresolved_sheet">> ELSE <<"ref_other">>

SiteKey(d) ==
  CASE d[1] = "ParseError" -> <<"parse_error">>
    [] d[1] = "CircularReference" -> <<"circular_reference">>
    [] d[1] = "UnknownFunction" -> <<"unknown_fn", d[2]>>
    [] OTHER -> CASE d[2] = "reference" -> RefFormKey(d[3])
                  [] d[2] = "range" -> <<"scalar_ctx_unresolvable_range">>
                  [] d[2] = "construct" -> <<"ast_construct">>
                  [] d[2] = "blocked" -> <<"construct_other">>
                  [] OTHER -> Tail(d)

\* A cell that refused without a diagnostic: one of the functions it calls, or
\* an operator.
SilentRootSite(ast) ==
  LET calls == IF ast = None THEN {} ELSE {i \in DOMAIN ast : ast[i][1] = "call" /\ ast[i][2] \in Supported}
      sums == IF ast = None THEN {} ELSE {i \in DOMAIN ast : ast[i][1] = "range"}
      names == {ast[i][2] : i \in calls} \union (IF sums = {} THEN {} ELSE {"SUM"})
  IN CASE names # {} -> <<"fn_runtime", names>>
       [] names = {} /\ ast # None /\ Len(ast) > 1 -> <<"op_or_coercion_runtime">>
       [] OTHER -> <<"root_unclassified">>

\* The population: [cell -> the sites found, and whether on a precedent]. The
\* search stops at a cell with a diagnostic; of several sites the report shows
\* one and counts the cell as of several.
L2Cells(asts, report) ==
  {c \in CellsOfClass(report, <<"other_unattributed">>) : OtherReason(c, asts[c]) = "shared_expanded"}

\* What a search finds at a cell: its sites, or none if it leads elsewhere.
Own(diagnostics) == {SiteKey(d) : d \in diagnostics}
SitesAt(ast, own, precs) ==
  IF own # {} THEN own ELSE IF precs = {} THEN {SilentRootSite(ast)} ELSE {}

Sited(sites, reached, lambda) ==
  IF lambda THEN [sites |-> {<<"lambda_valued_cell">>}, cascade |-> FALSE]
  ELSE IF sites[1] # {} THEN [sites |-> sites[1], cascade |-> FALSE]
  ELSE [sites |-> IF reached = {} THEN {<<"propagation_unresolved">>} ELSE reached, cascade |-> TRUE]

AttributeL2(l2, found, reached, outcomes) ==
  [c \in l2 |-> Sited(<<found[c]>>, UNION {found[d] : d \in reached[c]}, outcomes[c].value = "lambda")]

SearchL2(asts, l2, own, precs, outcomes) ==
  AttributeL2(l2, [c \in DOMAIN own |-> SitesAt(asts[c], own[c], precs[c])],
              ReachedFrom([c \in DOMAIN own |-> IF own[c] # {} THEN {} ELSE precs[c]]), outcomes)

\* Fault: the trace follows the declined cells only, as the cascade of causes
\* does.
AttributeL2Sites_Declined(asts, run, report) ==
  SearchL2(asts, L2Cells(asts, report), [c \in FormulaCells |-> Own(run.diagnostics[c])],
           [c \in FormulaCells |-> PrecedentsIn(Declined(run.outcomes), asts[c], c)], run.outcomes)

AttributeL2Sites(asts, run, report) ==
  SearchL2(asts, L2Cells(asts, report), [c \in FormulaCells |-> Own(run.diagnostics[c])],
           [c \in FormulaCells |-> PrecedentsIn(Sentinels(run.outcomes), asts[c], c)], run.outcomes)

-----------------------------------------------------------------------------
(* shared_residual.rs: the follow-ons of a file, without the engine.         *)

FeatureBucket(body) ==
  CASE body[2] = "char" -> "non_ascii_char"
    [] body[2] = "array" -> "array_literal"
    [] OTHER -> IF "r1c1" \in body[3] THEN "r1c1_artifact"
                ELSE IF "external" \in body[3] THEN "external_ref"
                ELSE IF body[2] = "bracket" \/ "structured" \in body[3] THEN "structured_ref"
                ELSE "other_parse"

FollowonFate(c) ==
  LET m == IF book[c].si = None THEN None ELSE LastMaster(c[1], book[c].si, HasText)
  IN CASE book[c].si = None -> "malformed_no_si"
       [] book[c].si # None /\ m = None -> "orphan_missing"
       [] OTHER -> IF Parses(book[m].body) THEN "would_expand" ELSE FeatureBucket(book[m].body)

-----------------------------------------------------------------------------
\* The tools and the engine agree on what every cell's formula is: no group has
\* an unreadable master after a readable one, and no copy leaves the grid by
\* the far edge.
Faithful(tool, run) == tool = run.asts

\* The cascade trace of decline.rs is a static over-approximation of how the
\* engine passes a refusal on. When every formula has a cached value, a cell
\* whose refusal really started at a cell with a cause is put down to a cause,
\* one no later in the tie-break unless it has one of its own, and the
\* functions missing there are among those it is counted under.
RefusalsAreExplained ==
  \A tool \in {ToolAsts}, run \in {Recalc(EngineAsts)} :
    (Faithful(tool, run) /\ \A c \in FormulaCells : book[c].oracle) =>
      \A report \in {AttributeCells(tool, Declined(run.outcomes), run.outcomes)} :
        \A c \in DOMAIN report : \A root \in {Last(run.outcomes[c].path)} :
          \A cause \in {Pick(OwnCauses(root, tool[root], run.outcomes[root].value))} :
            cause # None /\ OwnCauses(c, tool[c], run.outcomes[c].value) = {} =>
              /\ report[c].cause # None
              /\ RankOf(report[c].cause) <= RankOf(cause)
              /\ report[c].cause = "unimplemented_fn" /\ cause = "unimplemented_fn"
                   => UnimplementedNames(tool[root]) \subseteq report[c].names

\* A cell without a diagnostic that reads a refused one.
RefusedOver(d, run, tool) ==
  run.diagnostics[d] = {} /\ PrecedentsIn(Sentinels(run.outcomes), tool[d], d) # {}

\* The three tools count the same file. The follow-ons that decline.rs could
\* not expand are those that shared_residual.rs finds without a readable
\* master, and the engine refused all of them; each cell that decline.rs leaves
\* to l2site.rs gets a site; and when it is the only one found, it is that of a
\* cell the refusal came along, unless that came from a function which refused
\* in silence while it read a refused cell, too.
ToolsReconcile ==
  \A tool \in {ToolAsts}, run \in {Recalc(EngineAsts)} :
  \A report \in {AttributeCells(tool, Declined(run.outcomes), run.outcomes)} :
  \A stuck \in {{c \in Followons : FollowonFate(c) # "would_expand"}}, l2 \in {AttributeL2Sites(tool, run, report)} :
    /\ CellsOfClass(report, <<"shared_followon_unexpanded">>) = stuck \intersect DOMAIN report
    /\ Faithful(tool, run) => \A c \in stuck : book[c].oracle => c \in DOMAIN report
    /\ \A c \in DOMAIN l2 :
         /\ l2[c].sites # {<<"propagation_unresolved">>}
         /\ (Faithful(tool, run) /\ Cardinality(l2[c].sites) = 1 /\ run.outcomes[c].value # "lambda"
              /\ ~RefusedOver(Last(run.outcomes[c].path), run, tool))
              => \E d \in Range(run.outcomes[c].path) :
                   l2[c].sites \subseteq SitesAt(tool[d], Own(run.diagnostics[d]),
                                                  {Last(run.outcomes[c].path)} \ {d})
=============================================================================
