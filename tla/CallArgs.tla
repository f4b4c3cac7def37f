------------------------------ MODULE CallArgs ------------------------------
(* How the functions see one argument of a call: eval.rs EngineArgs, the     *)
(* implementation of the trait CallArgs of xl-fn (args.rs), with the helpers *)
(* of args.rs that choose between its walks. Every function of the library   *)
(* reads its arguments through these views and may take several of them: one *)
(* to classify, one to size, one to walk.                                    *)
(*                                                                           *)
(* A walk is either an error (it refuses the argument and visits nothing) or *)
(* <<"served", lines>>, each line with its 0-based index in the argument.    *)
EXTENDS Evaluate

CONSTANT ColumnCap   \* USED_COL_BUFFER_CAP: cells the column walk may buffer
ASSUME ColumnCapAssumption == ColumnCap \in Nat

Served(lines) == <<"served", lines>>
Line(at, cells) == [at |-> at, cells |-> cells]
Numbered(rows) == [i \in DOMAIN rows |-> Line(i - 1, rows[i])]

-----------------------------------------------------------------------------
(* What an argument is.                                                      *)

\* An argument can be evaluated in either context: value[ctx].
EvalArg(e, env) == [ctx \in BOOLEAN |-> Eval(e, [env EXCEPT !.ctx = ctx])]

\* Fault: an expression over ranges keeps the context it stands in.
LazyArray_Inherits(e, value, ctx) == value[ctx]

(* eval_lazy_array_position: at top level an operator, IF or CHOOSE is       *)
(* evaluated in array context, and an array it makes of ranges is refused.   *)
OperatorRoot(e) == e[1] \in {"unary", "binary"} \/ IsCallOf(e, {"IF", "CHOOSE"})
LazyArray(e, value, ctx) ==
  CASE ctx \/ ~OperatorRoot(e) -> value[ctx]
    [] OTHER -> IF IsMulti(value[TRUE]) THEN Unsupported ELSE value[TRUE]

(* A name stands for the reference it resolves to, or for nothing. *)
Named(e) == IF e[2] \in DOMAIN NameTable THEN NameTable[e[2]] ELSE <<"missing">>

\* The argument resolved as a reference (arg_ref_extent) is its `extent`, an error
\* when it is no reference.

Shape(e, extent) ==
  LET isRange(rc) == IF IsSingle(rc) THEN "scalar" ELSE "range"
  IN CASE IsRefExpr(e) -> IF IsErr(extent) THEN "scalar" ELSE isRange(extent[2])
       [] e[1] = "missing" -> "omitted"
       [] e[1] = "array" -> IF Len(FlattenSeq(e[2])) > 1 THEN "array" ELSE "scalar"
       [] e[1] = "range" -> isRange(e[2])
       [] e[1] = "name" /\ Named(e)[1] = "range" -> isRange(Named(e)[2])
       [] OTHER -> "scalar"

(* A reference is aggregated, even to one cell; a literal is coerced. *)
EffShape(e, extent) ==
  CASE Shape(e, extent) = "omitted" -> "omitted"
    [] Shape(e, extent) \in {"range", "array"} -> "aggregate"
    [] OTHER -> IF IsErr(extent) THEN "literal" ELSE "aggregate"

\* Fault: the array an expression makes of ranges is not refused.
ScalarLiteralError_NoArrays(e, extent, gated) ==
  IF EffShape(e, extent) = "literal" /\ IsErr(gated) THEN gated ELSE Blank

(* The error a criteria function finds in a range argument that is no range. *)
ScalarLiteralError(e, extent, gated) ==
  CASE EffShape(e, extent) # "literal" -> Blank
    [] EffShape(e, extent) = "literal" /\ IsErr(gated) -> gated
    [] OTHER -> IF IsMulti(gated) THEN Unsupported ELSE Blank

-----------------------------------------------------------------------------
(* What a walk finds behind an argument: an array constant, a rectangle, the *)
(* cell a name stands for, an error, or the value of an expression; a plain  *)
(* cell is such an expression.                                               *)

Literals(e, env) == [i \in DOMAIN e[2] |-> [j \in DOMAIN e[2][i] |-> Eval(e[2][i][j], env)]]
Argument(e, env, extent, value) ==
  CASE e[1] = "array" -> <<"literals", Literals(e, env)>>
    [] e[1] = "range" -> AsRect(e[2])
    [] e[1] = "name" /\ Named(e)[1] = "range" -> AsRect(Named(e)[2])
    [] e[1] = "name" /\ Named(e)[1] = "ref" -> <<"one", Named(e)[2]>>
    [] e[1] = "name" /\ Named(e)[1] \notin {"range", "ref"} -> Unsupported
    [] IsRefExpr(e) -> extent
    [] OTHER -> <<"lazy", LazyArray(e, value, env.ctx)>>

Stored(store, rc) == {c \in CellsOf(rc) : c \in DOMAIN store}
(* The cells that hold something, in row-major order. *)
Band(store, rc) ==
  SetToSortSeq(Stored(store, rc), LAMBDA c, d : c[1] < d[1] \/ (c[1] = d[1] /\ c[2] < d[2]))

ForEachCell(x, store) ==
  CASE x[1] = "literals" -> FlattenSeq(x[2])
    [] x[1] = "rect" -> LET cells == Band(store, x[2]) IN [k \in DOMAIN cells |-> store[cells[k]]]
    [] x[1] = "one" -> <<Read(store, x[2])>>
    [] x[1] = "err" -> <<x>>
    [] x[1] = "lazy" -> IF IsArr(x[2]) THEN x[2][4] ELSE <<x[2]>>

(* dims: a plain cell, a scalar and an unbounded range have none. *)
None == <<"none">>
Dims(x) ==
  CASE x[1] = "literals" -> <<Len(x[2]), Len(x[2][1])>>
    [] x[1] = "rect" -> IF IsUnbounded(x[2]) THEN None ELSE <<Height(x[2]), Width(x[2])>>
    [] x[1] = "one" -> <<1, 1>>
    [] OTHER -> None

RowCells(store, rc, r) == [j \in 1..Width(rc) |-> Read(store, <<r, rc[3] + j - 1>>)]
ColCells(store, rc, c) == [i \in 1..Height(rc) |-> Read(store, <<rc[1] + i - 1, c>>)]

RowsOfRange(store, rc) ==
  IF IsUnbounded(rc) THEN Unsupported
  ELSE Served([i \in 1..Height(rc) |-> Line(i - 1, RowCells(store, rc, rc[1] + i - 1))])

\* Fault: the row that is being gathered is not reset when the row changes.
UsedRowsOfRange_Carries(store, rc) ==
  LET rows == SetToSortSeq({c[1] : c \in Stored(store, rc)}, <)
      last(c, r) == LET above == {d \in Stored(store, rc) : d[2] = c /\ d[1] <= r} IN
        IF above = {} THEN Blank ELSE store[CHOOSE d \in above : \A y \in above : y[1] <= d[1]]
  IN IF rc[3] = 0 /\ rc[4] = MaxCol THEN Unsupported
     ELSE Served([i \in DOMAIN rows |->
            Line(rows[i] - rc[1], [j \in 1..Width(rc) |-> last(rc[3] + j - 1, rows[i])])])

(* The rows that hold something; whole rows are the column walk's. *)
UsedRowsOfRange(store, rc) ==
  LET rows == SetToSortSeq({c[1] : c \in Stored(store, rc)}, <)
  IN IF rc[3] = 0 /\ rc[4] = MaxCol THEN Unsupported
     ELSE Served([i \in DOMAIN rows |-> Line(rows[i] - rc[1], RowCells(store, rc, rows[i]))])

(* Its transpose, which must gather every column before it shows the first. *)
UsedColsOfRange(store, rc) ==
  LET cols == SetToSortSeq({c[2] : c \in Stored(store, rc)}, <)
  IN IF rc[1] = 0 /\ rc[2] = MaxRow THEN Unsupported
     ELSE IF cols # <<>> /\ Len(cols) * Height(rc) > ColumnCap THEN Err("RESOURCE")
     ELSE Served([j \in DOMAIN cols |-> Line(cols[j] - rc[3], ColCells(store, rc, cols[j]))])

(* A value that is no rectangle: a refusal refuses the walk, other errors    *)
(* and, in the sparse walks, a computed array are its one cell.              *)
Single(v) == IF v = Unsupported THEN v ELSE Served(<<Line(0, <<v>>)>>)
ArrayRows(v) == Served([i \in 1..v[2] |-> Line(i - 1, SubSeq(v[4], (i - 1) * v[3] + 1, i * v[3]))])
OneCell(x, store) == Served(<<Line(0, <<Read(store, x[2])>>)>>)

ForEachRow(x, store) ==
  CASE x[1] = "literals" -> Served(Numbered(x[2]))
    [] x[1] = "rect" -> RowsOfRange(store, x[2])
    [] x[1] = "one" -> OneCell(x, store)
    [] x[1] = "err" -> x
    [] x[1] = "lazy" -> IF IsArr(x[2]) THEN ArrayRows(x[2]) ELSE Single(x[2])

ForEachUsedRow(x, store) ==
  CASE x[1] = "literals" -> Served(Numbered(x[2]))
    [] x[1] = "rect" -> UsedRowsOfRange(store, x[2])
    [] x[1] = "one" -> OneCell(x, store)
    [] x[1] = "err" -> x
    [] x[1] = "lazy" -> Single(x[2])

ForEachUsedCol(x, store) ==
  CASE x[1] = "literals" ->
         Served([j \in DOMAIN x[2][1] |-> Line(j - 1, [i \in DOMAIN x[2] |-> x[2][i][j]])])
    [] x[1] = "rect" -> UsedColsOfRange(store, x[2])
    [] x[1] = "one" -> OneCell(x, store)
    [] x[1] = "err" -> x
    [] x[1] = "lazy" -> Single(x[2])

(* for_each_row_or_used[_any_axis]: a walk that refuses hands over to the next. *)
RowsOrUsed(rows, used) == IF IsErr(rows) THEN used ELSE rows
RowsOrUsedAnyAxis(rows, used, cols) == LET r == RowsOrUsed(rows, used) IN IF IsErr(r) THEN cols ELSE r

(* for_each_cell_tagged: each value with the cell it comes from, which says  *)
(* whether it is a SUBTOTAL's and whether its row is hidden. None: no cell.  *)
ForEachCellTagged(e, x, store) ==
  LET tagged(cells) == Served([k \in DOMAIN cells |-> [value |-> Read(store, cells[k]), cell |-> cells[k]]])
      bare(v) == Served(<<[value |-> v, cell |-> None]>>)
  IN CASE x[1] = "literals" -> Unsupported
       [] e[1] = "ref" -> tagged(<<e[2]>>)
       [] x[1] = "rect" -> tagged(Band(store, x[2]))
       [] x[1] = "one" -> tagged(<<x[2]>>)
       [] x[1] = "err" -> bare(x)
       [] OTHER -> bare(x[2])

(* cell_at: one cell of the argument's rectangle, by its place on the sheet. *)
CellAt(extent, store, c) ==
  IF IsErr(extent) THEN None ELSE IF c \in CellsOf(extent[2]) THEN Read(store, c) ELSE None

-----------------------------------------------------------------------------
(* The views of one argument are views of the same cells.                    *)

(* The arguments of the formula, or the formula itself as an argument. *)
Arguments == IF formula[1] = "call" THEN Range(formula[3]) ELSE {formula}
IsArgument(e) == e[1] # "param" /\ ~IsCallOf(e, {"LAMBDA"})

Filled(seq) == SelectSeq(seq, LAMBDA v : v # Blank)
Cells(walk) == FlattenSeq([i \in DOMAIN walk[2] |-> walk[2][i].cells])

(* Each line of a walk shows, at its index, what cell_at reads there. *)
InPlace(walk, extent, byRow) ==
  \A line \in Range(walk[2]) : \A k \in DOMAIN line.cells :
    LET at == IF byRow THEN <<line.at, k - 1>> ELSE <<k - 1, line.at>>
    IN line.cells[k] = CellAt(extent, values, <<extent[2][1] + at[1], extent[2][3] + at[2]>>)

(* Every walk over a reference shows the cells of its rectangle: the sparse  *)
(* walks leave out only empty lines, the plain walk only empty cells.        *)
WalksShow(x, extent, cells, rows, used, cols, tagged) ==
  LET whole == Filled(Stream(values, extent[2]))
  IN /\ Filled(cells) = whole
     /\ [k \in DOMAIN tagged[2] |-> tagged[2][k].value] = cells
     /\ \A t \in Range(tagged[2]) : t.value = CellAt(extent, values, t.cell)
     /\ IsErr(rows) <=> IsUnbounded(extent[2])
     /\ \A walk \in {rows, used} : IsErr(walk) \/ (Filled(Cells(walk)) = whole /\ InPlace(walk, extent, TRUE))
     /\ IsErr(cols) \/ (Len(Filled(Cells(cols))) = Len(whole) /\ InPlace(cols, extent, FALSE))
     /\ IsErr(used) /\ IsErr(cols) => IsErr(rows)
     /\ Dims(x) = IF IsErr(rows) THEN None ELSE <<Height(extent[2]), Width(extent[2])>>

(* A value has no rectangle: the walks show the one value or array there is, *)
(* or all refuse it.                                                         *)
WalksShowValue(x, cells, rows, used, cols) ==
  IF IsErr(rows)
    THEN cells = <<rows>> /\ RowsOrUsedAnyAxis(rows, used, cols) = rows
  ELSE /\ Cells(rows) = cells
       /\ Dims(x) # None => Dims(x) = <<Len(rows[2]), Len(rows[2][1].cells)>>

(* What one view of an argument shows no other contradicts: the shape that   *)
(* selects a coercion, the size, the dense and the sparse walks and the read *)
(* of one cell are of the same cells, and a refusal is everyone's. A value a *)
(* criteria function has found free of errors is the value its walk visits,  *)
(* a second evaluation in another context.                                   *)
(* (eval.rs EngineArgs, args.rs for_each_row_or_used, scalar_literal_error)  *)
ViewsAgree ==
  \A e \in {a \in Arguments : IsArgument(a)}, ctx \in BOOLEAN :
    \A env \in {[Env(Home, values, spills) EXCEPT !.ctx = ctx]} :
    \A extent \in {RefExtent(e, env)}, value \in {EvalArg(e, env)} :
    \A x \in {Argument(e, env, extent, value)} :
    \A cells \in {ForEachCell(x, values)}, rows \in {ForEachRow(x, values)},
       used \in {ForEachUsedRow(x, values)}, cols \in {ForEachUsedCol(x, values)} :
      /\ IF x[1] \in {"rect", "one"}
           THEN WalksShow(x, extent, cells, rows, used, cols, ForEachCellTagged(e, x, values))
         ELSE WalksShowValue(x, cells, rows, used, cols)
      /\ Shape(e, extent) = "range" => x = extent /\ ~IsSingle(extent[2])
      /\ EffShape(e, extent) = "literal" /\ ScalarLiteralError(e, extent, value[TRUE]) = Blank =>
           cells = <<Collapse(value[TRUE])>>

(* An argument built of operators and IF over ranges is worth the same       *)
(* wherever the formula stands: no range inside it silently becomes the one  *)
(* cell on the formula's row or column, neither in what SUM folds nor in     *)
(* what the walks show to any other function.                                *)
(* (eval.rs array_arg_ctx, eval_lazy_array_position)                         *)
WalksArePositionFree ==
  /\ SumIsPositionFree
  /\ \A e \in Arguments : OperatorRoot(e) /\ IsElementwise(e) =>
       Cardinality({LazyArray(e, EvalArg(e, Env(p, values, spills)), FALSE) : p \in Positions \union {Home}}) = 1
=============================================================================
