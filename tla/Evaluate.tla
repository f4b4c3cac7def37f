------------------------------ MODULE Evaluate ------------------------------
(* The formula evaluator of xl-engine (eval.rs, lambda.rs, refx.rs) with the *)
(* operators and the functions of xl-fn it is pinned against (ops.rs,        *)
(* func_if.rs, func_sum.rs, func_isblank.rs, func_not.rs), and the static    *)
(* analysis (analyze.rs) that decides when a formula is evaluated again.     *)
(*                                                                           *)
(* One formula lives at the cell Home of a sheet of MaxRow x MaxCol cells.   *)
(* The cells change around it; the cached value `shown` is recomputed only   *)
(* when a changed cell is a recorded precedent or the formula is volatile.   *)
(*                                                                           *)
(* An expression is a tuple whose first element is its kind:                 *)
(*   <<"lit", v>>  <<"missing">>  <<"ref", cell>>  <<"range", rect>>         *)
(*   <<"name", n>>  <<"param", p>>  <<"unary", op, e>>                       *)
(*   <<"binary", op, l, r>>  <<"at", e>>  <<"spill", e>>  <<"array", rows>>  *)
(*   <<"call", f, args>>  <<"apply", p, args>>                               *)
(* "param" and "apply" are the `_xlpm.` names of the stored form; groupings  *)
(* are erased and ranges are resolved (resolve_range normalises corners).    *)
EXTENDS Integers, Sequences, FiniteSets, SequencesExt, FiniteSetsExt, Functions

CONSTANTS
  MaxRow, MaxCol,   \* last 0-based row and column of a sheet
  MaxElems,         \* MAX_MATERIALIZED_ELEMS
  MaxDepth,         \* MAX_REF_DEPTH
  NameTable,        \* defined names: name -> a "ref" or "range" expression
  Formulas,         \* the formulas Init chooses from
  Home,             \* the cell that holds the formula
  Positions,        \* other cells a formula could stand in
  Inputs,           \* literal cell -> the values an edit may type there
  SpillAnchor,      \* the anchor of the one dynamic array of the sheet
  SpillSizes        \* the heights that array may have

ASSUME EvaluateAssumption ==
  /\ MaxRow \in Nat /\ MaxCol \in Nat /\ MaxElems \in Nat /\ MaxDepth \in Nat
  /\ SpillSizes \subseteq 1..(MaxRow - SpillAnchor[1] + 1)
  /\ Home \notin DOMAIN Inputs

VARIABLES
  formula,  \* the expression Home holds
  entered,  \* TRUE when it is a CSE array formula (WbIndex::is_array_formula)
  values,   \* cell -> value; a cell without an entry is blank (ValueStore)
  spills,   \* anchor -> the rectangle it spilled into (WbIndex::spills)
  shown     \* the cached value of Home
vars == <<formula, entered, values, spills, shown>>

-----------------------------------------------------------------------------
(* Values and coercions (xl-value).                                          *)

Num(n) == <<"num", n>>
Truth(b) == <<"bool", b>>
Text(parsed) == <<"text", parsed>>    \* a text INDIRECT would parse to `parsed`
Err(k) == <<"err", k>>
Blank == <<"blank">>
Junk == Text(<<"missing">>)         \* a text that is no reference, number or logical
Unsupported == Err("UNSUPPORTED")
BadValue == Err("VALUE")
BadRef == Err("REF")

(* An array: rows, columns, elements in row-major order. *)
Arr(r, c, data) == <<"arr", r, c, data>>
(* A closure: parameters, body, and the bindings captured with it. *)
Closure(params, body, captured) == <<"lam", params, body, captured>>

IsErr(v) == v[1] = "err"
IsArr(v) == v[1] = "arr"
IsMulti(v) == IsArr(v) /\ v[2] * v[3] > 1
(* A 1x1 array counts as its element (Array::as_scalar). *)
Collapse(v) == IF IsArr(v) /\ ~IsMulti(v) THEN v[4][1] ELSE v
At(a, i, j) == a[4][(i - 1) * a[3] + j]
MapArr(a, F(_)) == Arr(a[2], a[3], [k \in 1..Len(a[4]) |-> F(a[4][k])])

ToNumber(value) == LET v == Collapse(value) IN
  CASE v[1] = "num"   -> v
    [] v[1] = "bool"  -> Num(IF v[2] THEN 1 ELSE 0)
    [] v[1] = "blank" -> Num(0)
    [] v[1] = "text"  -> BadValue
    [] v[1] = "err"   -> v
    [] OTHER          -> Unsupported

ToBool(value) == LET v == Collapse(value) IN
  CASE v[1] = "bool" -> v
    [] v[1] \in {"num", "blank"} -> Truth(ToNumber(v)[2] # 0)
    [] OTHER -> ToNumber(v)

(* CoercionMode::RangeAggregate: what one streamed cell adds to an aggregate. *)
Skip == <<"skip">>
Streamed(v) ==
  CASE v[1] \in {"num", "err"} -> v
    [] v[1] \in {"blank", "text", "bool"} -> Skip
    [] OTHER -> Unsupported

(* The first error of a sequence of contributions, else their total. *)
Total(parts) ==
  LET errors == SelectSeq(parts, IsErr)
  IN IF errors # <<>> THEN errors[1]
     ELSE Num(FoldSeq(LAMBDA p, acc : IF p = Skip THEN acc ELSE acc + p[2], 0, parts))

-----------------------------------------------------------------------------
(* Operators and their broadcast over arrays (ops.rs).                       *)

ApplyUnary(v) == LET n == ToNumber(v) IN IF IsErr(n) THEN n ELSE Num(-n[2])

ApplyBinary(op, l, r) ==
  LET a == ToNumber(l)  b == ToNumber(r)
  IN IF IsErr(a) THEN a ELSE IF IsErr(b) THEN b
     ELSE Num(IF op = "+" THEN a[2] + b[2] ELSE a[2] * b[2])

BroadcastUnary(v) == IF IsMulti(v) THEN MapArr(v, ApplyUnary) ELSE ApplyUnary(Collapse(v))

BroadcastArrays(op, l, r) ==
  LET pick(a, i, j) == At(a, IF a[2] = 1 THEN 1 ELSE i, IF a[3] = 1 THEN 1 ELSE j)
      rows == Max({l[2], r[2]})  cols == Max({l[3], r[3]})
      outer == (l[2] = 1 /\ r[3] = 1) \/ (l[3] = 1 /\ r[2] = 1)
  IN IF (l[2] = r[2] /\ l[3] = r[3]) \/ outer
       THEN Arr(rows, cols, [k \in 1..(rows * cols) |->
              LET i == ((k - 1) \div cols) + 1  j == ((k - 1) % cols) + 1
              IN ApplyBinary(op, pick(l, i, j), pick(r, i, j))])
     ELSE IF l[3] = 1 /\ r[3] = 1 /\ ~\E v \in Range(l[4] \o r[4]) : IsErr(v)
       THEN Arr(rows, 1, [i \in 1..rows |->
              IF i <= Min({l[2], r[2]}) THEN ApplyBinary(op, l[4][i], r[4][i]) ELSE Err("NA")])
     ELSE Unsupported

BroadcastBinary(op, left, right) ==
  LET l == Collapse(left)  r == Collapse(right)
  IN CASE IsArr(l) /\ IsArr(r) -> BroadcastArrays(op, l, r)
       [] IsArr(l) /\ ~IsArr(r) ->
            IF IsErr(r) THEN Unsupported ELSE MapArr(l, LAMBDA v : ApplyBinary(op, v, r))
       [] ~IsArr(l) /\ IsArr(r) ->
            IF IsErr(l) THEN Unsupported ELSE MapArr(r, LAMBDA v : ApplyBinary(op, l, v))
       [] OTHER -> ApplyBinary(op, l, r)

-----------------------------------------------------------------------------
(* Cells and rectangles.                                                     *)

Rect(r0, r1, c0, c1) == <<r0, r1, c0, c1>>
CellRect(c) == Rect(c[1], c[1], c[2], c[2])
IsSingle(rc) == rc[1] = rc[2] /\ rc[3] = rc[4]
IsUnbounded(rc) == (rc[1] = 0 /\ rc[2] = MaxRow) \/ (rc[3] = 0 /\ rc[4] = MaxCol)
Height(rc) == rc[2] - rc[1] + 1
Width(rc) == rc[4] - rc[3] + 1
CellsOf(rc) == (rc[1]..rc[2]) \X (rc[3]..rc[4])

Read(store, c) == IF c \in DOMAIN store THEN store[c] ELSE Blank
(* The cells of a rectangle in row-major order. *)
Stream(store, rc) ==
  [k \in 1..(Height(rc) * Width(rc)) |->
     Read(store, <<rc[1] + ((k - 1) \div Width(rc)), rc[3] + ((k - 1) % Width(rc))>>)]

(* materialize_range_as_array: a bounded range within the element cap. *)
Materialize(store, rc) ==
  IF IsUnbounded(rc) \/ Height(rc) * Width(rc) > MaxElems THEN Unsupported
  ELSE Arr(Height(rc), Width(rc), Stream(store, rc))

(* A range reaching scalar context: the cell on the formula's row or column. *)
ImplicitIntersect(store, rc, anchor) ==
  CASE IsSingle(rc) -> Read(store, <<rc[1], rc[3]>>)
    [] Width(rc) = 1 /\ Height(rc) > 1 ->
         IF anchor[1] \in rc[1]..rc[2] THEN Read(store, <<anchor[1], rc[3]>>) ELSE BadValue
    [] Height(rc) = 1 /\ Width(rc) > 1 ->
         IF anchor[2] \in rc[3]..rc[4] THEN Read(store, <<rc[1], anchor[2]>>) ELSE BadValue
    [] OTHER -> Unsupported

-----------------------------------------------------------------------------
(* Reference-returning expressions (refx.rs). The result is <<"rect", r>> or *)
(* an error. Arguments see no binding of LET or LAMBDA and no array context. *)

RECURSIVE Eval(_, _), Resolve(_, _, _)

Bare(env) == [env EXCEPT !.ctx = FALSE, !.lex = <<>>]
AsRect(rc) == <<"rect", rc>>

(* The first error of a sequence of results, else `result`. *)
FirstErr(results, result) ==
  LET errors == SelectSeq(results, IsErr) IN IF errors # <<>> THEN errors[1] ELSE result

(* opt_size_arg: an absent or elided size keeps the base's, others are >= 1. *)
SizeArg(args, i, default, numbers) ==
  IF i > Len(args) \/ (i <= Len(args) /\ args[i][1] = "missing") THEN Num(default)
  ELSE IF IsErr(numbers[i]) \/ numbers[i][2] > 0 THEN numbers[i] ELSE BadRef

Shifted(rc, rows, cols, height, width) ==
  LET r0 == rc[1] + rows  c0 == rc[3] + cols
      r1 == r0 + height - 1  c1 == c0 + width - 1
  IN IF r0 < 0 \/ c0 < 0 \/ r1 > MaxRow \/ c1 > MaxCol THEN BadRef
     ELSE AsRect(Rect(r0, r1, c0, c1))

OffsetBy(base, args, numbers) ==
  LET steps == <<numbers[2], numbers[3], SizeArg(args, 4, Height(base[2]), numbers),
                 SizeArg(args, 5, Width(base[2]), numbers)>>
  IN IF IsErr(base) THEN base
     ELSE IF \E i \in 1..4 : IsErr(steps[i]) THEN FirstErr(steps, base)
     ELSE Shifted(base[2], steps[1][2], steps[2][2], steps[3][2], steps[4][2])

ResolveOffset(args, env, depth) ==
  IF Len(args) \notin 3..5 THEN Unsupported
  ELSE OffsetBy(Resolve(args[1], env, depth + 1), args,
                [i \in 2..Len(args) |-> ToNumber(Eval(args[i], Bare(env)))])

(* A relative R1C1 text counts from the formula's own cell. *)
R1C1(d, anchor) ==
  LET r == anchor[1] + d[2]  c == anchor[2] + d[3]
  IN IF r \in 0..MaxRow /\ c \in 0..MaxCol THEN AsRect(CellRect(<<r, c>>)) ELSE BadRef

(* The reference a text spells, in A1 style or, where a1 is false, in R1C1. *)
Spelled(text, a1, env, depth) ==
  LET parsed == IF text[1] = "text" THEN text[2] ELSE <<"missing">>
  IN CASE IsErr(text) -> text
       [] IsArr(text) \/ text[1] = "lam" -> Unsupported
       [] IsErr(a1) -> a1
       [] parsed[1] = "name" /\ parsed[2] \in DOMAIN NameTable -> Resolve(parsed, env, depth)
       [] parsed[1] \in {"ref", "range"} /\ a1[2] -> Resolve(parsed, env, depth)
       [] parsed[1] = "r1c1" /\ ~a1[2] -> R1C1(parsed, env.anchor)
       [] OTHER -> BadRef

ResolveIndirect(args, env, depth) ==
  IF Len(args) \notin 1..2 THEN Unsupported
  ELSE \* an elided style is TRUE, an absent one too
       LET style(v) == IF Len(args) = 1 \/ Last(args)[1] = "missing" THEN Truth(TRUE) ELSE ToBool(v)
           spelled(vs) == Spelled(Collapse(vs[1]), style(Last(vs)), env, depth)
       IN spelled([i \in DOMAIN args |-> Eval(args[i], Bare(env))])

(* The region of the anchor at the operand's top left, else that one cell. *)
ResolveSpill(operand, env, depth) ==
  LET base == Resolve(operand, env, depth + 1)
      cell == <<base[2][1], base[2][3]>>
  IN IF IsErr(base) THEN base
     ELSE AsRect(IF cell \in DOMAIN env.spills THEN env.spills[cell] ELSE CellRect(cell))

IsCallOf(e, names) == e[1] = "call" /\ e[2] \in names
RefReturning == {"OFFSET", "INDIRECT", "ANCHORARRAY"}
IsRefExpr(e) == IsCallOf(e, RefReturning) \/ e[1] = "spill"

Resolve(e, env, depth) ==
  CASE depth > MaxDepth -> Unsupported
    [] depth <= MaxDepth /\ e[1] = "ref" -> AsRect(CellRect(e[2]))
    [] depth <= MaxDepth /\ e[1] = "range" -> AsRect(e[2])
    [] depth <= MaxDepth /\ e[1] = "name" ->
         IF e[2] \in DOMAIN NameTable THEN Resolve(NameTable[e[2]], env, depth) ELSE Unsupported
    [] depth <= MaxDepth /\ e[1] = "spill" -> ResolveSpill(e[2], env, depth)
    [] depth <= MaxDepth /\ IsCallOf(e, {"OFFSET"}) -> ResolveOffset(e[3], env, depth)
    [] depth <= MaxDepth /\ IsCallOf(e, {"INDIRECT"}) -> ResolveIndirect(e[3], env, depth)
    [] depth <= MaxDepth /\ IsCallOf(e, {"ANCHORARRAY"}) ->
         IF Len(e[3]) = 1 THEN ResolveSpill(e[3][1], env, depth) ELSE Unsupported
    [] OTHER -> Unsupported

(* deref_ref_expr_scalar: one cell lifts to its value, more are refused. *)
Deref(target, env) ==
  IF IsErr(target) THEN target
  ELSE IF IsSingle(target[2]) THEN Read(env.store, <<target[2][1], target[2][3]>>)
  ELSE Unsupported

-----------------------------------------------------------------------------
(* LET, LAMBDA and the functions that apply a lambda (eval.rs, lambda.rs).   *)
(* The environment binds names to values; a new binding hides an outer one.  *)

Scalar(env) == [env EXCEPT !.ctx = FALSE]
Bind(names, args, lex) ==
  [p \in Range(names) \union DOMAIN lex |->
     IF p \in Range(names) THEN args[CHOOSE i \in DOMAIN names : names[i] = p] ELSE lex[p]]
IsInjectiveSeq(s) == Cardinality(Range(s)) = Len(s)

\* Fault: the body also sees the bindings in force where it is applied.
ApplyLambda_Dynamic(lam, args, env) ==
  IF Len(args) # Len(lam[2]) THEN BadValue
  ELSE Eval(lam[3], [env EXCEPT !.ctx = FALSE, !.lex = Bind(lam[2], args, lam[4] @@ env.lex)])

(* The body sees the captured bindings and its parameters, nothing else. *)
ApplyLambda(lam, args, env) ==
  IF Len(args) # Len(lam[2]) THEN BadValue
  ELSE Eval(lam[3], [env EXCEPT !.ctx = FALSE, !.lex = Bind(lam[2], args, lam[4])])

LetNames(args) ==
  [i \in 1..((Len(args) - 1) \div 2) |-> IF args[2 * i - 1][1] = "param" THEN args[2 * i - 1][2] ELSE 0 - i]

(* Bindings are evaluated in order, each in the scope of those before it. *)
RECURSIVE EvalLet(_, _)
EvalLet(args, env) ==
  CASE Len(args) = 1 -> Eval(args[1], Scalar(env))
    [] Len(args) >= 2 ->
         IF args[1][1] # "param" THEN BadValue
         ELSE LET v == Eval(args[2], Scalar(env))
              IN EvalLet(SubSeq(args, 3, Len(args)),
                         [env EXCEPT !.lex = Bind(<<args[1][2]>>, <<v>>, env.lex)])
    [] OTHER -> BadValue

EvalLambda(args, env) ==
  LET params == Front(args)
      names == [i \in DOMAIN params |-> params[i][2]]
  IN CASE args = <<>> -> BadValue
       [] args # <<>> /\ (\E i \in DOMAIN params : params[i][1] # "param") ->
            LET bad == Min({i \in DOMAIN params : params[i][1] # "param"})
            IN IF IsInjectiveSeq(SubSeq(names, 1, bad - 1)) THEN BadValue ELSE Unsupported
       [] args # <<>> /\ (\A i \in DOMAIN params : params[i][1] = "param") ->
            IF IsInjectiveSeq(names) THEN Closure(names, Last(args), env.lex) ELSE Unsupported

Invoke(p, args, env) ==
  IF p \notin DOMAIN env.lex THEN Unsupported
  ELSE LET f == env.lex[p] IN
       CASE f[1] = "lam" -> ApplyLambda(f, [i \in DOMAIN args |-> Eval(args[i], Scalar(env))], env)
         [] f[1] = "err" -> f
         [] OTHER -> BadValue

(* eval_arg_to_array: a literal element by element, anything else in array  *)
(* context with a scalar lifted to 1x1. The result is an array or an error. *)
ToArray(e, env) ==
  IF e[1] = "array"
    THEN Arr(Len(e[2]), Len(e[2][1]),
             [k \in 1..(Len(e[2]) * Len(e[2][1])) |-> Eval(FlattenSeq(e[2])[k], Scalar(env))])
  ELSE LET v == Eval(e, [env EXCEPT !.ctx = TRUE])
       IN IF IsArr(v) \/ IsErr(v) THEN v ELSE Arr(1, 1, <<v>>)

ToLambda(e, env) ==
  LET v == Eval(e, Scalar(env)) IN IF v[1] = "lam" \/ IsErr(v) THEN v ELSE BadValue

EvalMap(args, env) ==
  IF Len(args) < 2 THEN BadValue
  ELSE LET f == ToLambda(Last(args), env)
           arrays == [i \in 1..(Len(args) - 1) |-> ToArray(args[i], env)]
           a == arrays[1]
       IN CASE IsErr(f) -> f
            [] ~IsErr(f) /\ (\E i \in DOMAIN arrays : IsErr(arrays[i])) -> FirstErr(arrays, f)
            [] OTHER ->
                 IF \E i \in DOMAIN arrays : arrays[i][2] # a[2] \/ arrays[i][3] # a[3]
                   THEN Unsupported
                 ELSE Arr(a[2], a[3], [k \in DOMAIN a[4] |->
                        ApplyLambda(f, [i \in DOMAIN arrays |-> arrays[i][4][k]], env)])

(* The accumulators after each element: SCAN shows them, REDUCE the last. *)
RECURSIVE Accumulate(_, _, _, _)
Accumulate(f, acc, elems, env) ==
  IF elems = <<>> THEN <<>>
  ELSE LET next == ApplyLambda(f, <<acc, Head(elems)>>, env)
       IN <<next>> \o Accumulate(f, next, Tail(elems), env)

EvalFold(name, args, env) ==
  IF Len(args) # 3 THEN BadValue
  ELSE LET a == ToArray(args[2], env)
           f == ToLambda(args[3], env)
       IN IF IsErr(a) THEN a ELSE IF IsErr(f) THEN f
          ELSE LET accs == Accumulate(f, Eval(args[1], Scalar(env)), a[4], env)
               IN IF name = "SCAN" THEN Arr(a[2], a[3], accs) ELSE Last(accs)

EvalBy(name, args, env) ==
  IF Len(args) # 2 THEN BadValue
  ELSE LET a == ToArray(args[1], env)
           f == ToLambda(args[2], env)
           row(i) == Arr(1, a[3], [j \in 1..a[3] |-> At(a, i, j)])
           col(j) == Arr(a[2], 1, [i \in 1..a[2] |-> At(a, i, j)])
       IN IF IsErr(a) THEN a ELSE IF IsErr(f) THEN f
          ELSE IF name = "BYROW"
                 THEN Arr(a[2], 1, [i \in 1..a[2] |-> ApplyLambda(f, <<row(i)>>, env)])
               ELSE Arr(1, a[3], [j \in 1..a[3] |-> ApplyLambda(f, <<col(j)>>, env)])

DimArg(e, env) ==
  LET n == ToNumber(Eval(e, Scalar(env))) IN IF IsErr(n) \/ n[2] >= 1 THEN n ELSE BadValue

EvalMakeArray(args, env) ==
  IF Len(args) # 3 THEN BadValue
  ELSE LET r == DimArg(args[1], env)
           c == DimArg(args[2], env)
           f == ToLambda(args[3], env)
       IN CASE IsErr(r) -> r
            [] ~IsErr(r) /\ IsErr(c) -> c
            [] ~IsErr(r) /\ ~IsErr(c) ->
                 IF r[2] * c[2] > MaxElems THEN Unsupported
                 ELSE IF IsErr(f) THEN f
                 ELSE Arr(r[2], c[2], [k \in 1..(r[2] * c[2]) |->
                        ApplyLambda(f, <<Num(((k - 1) \div c[2]) + 1), Num(((k - 1) % c[2]) + 1)>>, env)])

-----------------------------------------------------------------------------
(* The registry's functions of this model.                                   *)

\* Fault: a test that is an error selects the else branch at its position.
ArraySelect_ErrorIsFalse(args, test, env) ==
  LET side(k) == LET b == ToBool(test[4][k]) IN IF ~IsErr(b) /\ b[2] THEN 2 ELSE 3
      pick(v, k) == IF IsMulti(v) THEN v[4][k] ELSE Collapse(v)
  IN IF Len(args) < 3 THEN Unsupported
     ELSE Arr(test[2], test[3], [k \in DOMAIN test[4] |-> pick(Eval(args[side(k)], env), k)])

(* IF: the test is eager, only the selected branch is evaluated. *)
ArraySelect(args, test, env) ==
  LET branch == [b \in {2, 3} |-> Eval(args[b], env)]
      fits(v) == IsMulti(v) => v[2] = test[2] /\ v[3] = test[3]
      pick(v, k) == IF IsMulti(v) THEN v[4][k] ELSE Collapse(v)
      side(k) == LET b == ToBool(test[4][k]) IN IF IsErr(b) THEN 0 ELSE IF b[2] THEN 2 ELSE 3
  IN IF Len(args) < 3 THEN Unsupported
     ELSE IF args[2][1] = "missing" \/ args[3][1] = "missing" THEN Unsupported
     ELSE IF \E k \in DOMAIN test[4] : side(k) # 0 /\ ~fits(branch[side(k)]) THEN Unsupported
     ELSE Arr(test[2], test[3], [k \in DOMAIN test[4] |->
            IF side(k) = 0 THEN ToBool(test[4][k]) ELSE pick(branch[side(k)], k)])

\* Fault: the branches of a scalar test leave array context.
EvalIf_LosesContext(args, env) ==
  LET test == Eval(args[1], env)
      cond == ToBool(test)
      b == IF cond[2] THEN 2 ELSE 3
  IN IF env.ctx /\ IsMulti(test) THEN ArraySelect(args, test, env)
     ELSE IF IsErr(cond) THEN cond
     ELSE IF b > Len(args) THEN Truth(FALSE)
     ELSE Eval(args[b], Scalar(env))

EvalIf(args, env) ==
  LET test == Eval(args[1], env)
      cond == ToBool(test)
      b == IF cond[2] THEN 2 ELSE 3
  IN IF env.ctx /\ IsMulti(test) THEN ArraySelect(args, test, env)
     ELSE IF IsErr(cond) THEN cond
     ELSE IF b > Len(args) THEN Truth(FALSE)
     ELSE IF args[b][1] = "missing" THEN Num(0)
     ELSE Eval(args[b], env)

EvalNot(args, env) ==
  LET negate(v) == LET b == ToBool(v) IN IF IsErr(b) THEN b ELSE Truth(~b[2])
      v == Eval(args[1], env)
  IN IF env.ctx /\ IsMulti(v) THEN MapArr(v, negate) ELSE negate(v)

Sentinels == {"UNSUPPORTED", "BLOCKED", "RESOURCE"}   \* is_recalc_sentinel
EvalIsBlank(args, env) ==
  LET test(v) == IF IsErr(v) /\ v[2] \in Sentinels THEN v ELSE Truth(v = Blank)
      v == Eval(args[1], env)
  IN IF env.ctx /\ IsMulti(v) THEN MapArr(v, test)
     ELSE IF IsArr(v) THEN Unsupported ELSE test(v)

(* eff_shape: the rectangle of an argument that is a reference. *)
RefExtent(e, env) == Resolve(e, env, 0)

(* SUM streams a reference or an array literal, and folds a computed array; *)
(* a scalar argument coerces.                                               *)
SumParts(e, env) ==
  LET v == Eval(e, [env EXCEPT !.ctx = TRUE])
      target == RefExtent(e, env)
      streamed(vs) == [k \in DOMAIN vs |-> Streamed(vs[k])]
  IN CASE e[1] = "missing" -> <<>>
       [] e[1] = "array" /\ Len(FlattenSeq(e[2])) > 1 ->
            LET els == FlattenSeq(e[2]) IN [k \in DOMAIN els |-> Streamed(Eval(els[k], env))]
       [] e[1] \notin {"missing", "array"} /\ ~IsErr(target) -> streamed(Stream(env.store, target[2]))
       [] OTHER -> IF IsMulti(v) THEN streamed(v[4]) ELSE <<ToNumber(v)>>

EvalSum(args, env) == Total(FlattenSeq([i \in DOMAIN args |-> SumParts(args[i], env)]))

Arity == [f \in {"IF", "SUM", "NOT", "ISBLANK"} |->
            CASE f = "IF" -> 2..3 [] f = "SUM" -> 1..255 [] OTHER -> {1}]
External == {"WEBSERVICE", "RTD", "STOCKHISTORY"}

EvalRegistered(f, args, env) ==
  IF Len(args) \notin Arity[f] THEN Unsupported
  ELSE CASE f = "IF" -> EvalIf(args, env)
         [] f = "SUM" -> EvalSum(args, env)
         [] f = "NOT" -> EvalNot(args, env)
         [] f = "ISBLANK" -> EvalIsBlank(args, env)

EvalCall(f, args, env) ==
  CASE f \in RefReturning -> Deref(Resolve(<<"call", f, args>>, env, 0), env)
    [] f = "LET" -> IF IsInjectiveSeq(LetNames(args)) THEN EvalLet(args, env) ELSE Unsupported
    [] f = "LAMBDA" -> EvalLambda(args, env)
    [] f = "MAP" -> EvalMap(args, env)
    [] f \in {"REDUCE", "SCAN"} -> EvalFold(f, args, env)
    [] f \in {"BYROW", "BYCOL"} -> EvalBy(f, args, env)
    [] f = "MAKEARRAY" -> EvalMakeArray(args, env)
    [] f \in External -> Err("BLOCKED")
    [] f \in DOMAIN Arity -> EvalRegistered(f, args, env)
    [] OTHER -> Unsupported

-----------------------------------------------------------------------------
(* eval_expr.                                                                *)

RangeValue(rc, env) ==
  IF env.entered
    THEN IF IsSingle(rc) THEN Read(env.store, <<rc[1], rc[3]>>) ELSE Unsupported
  ELSE IF env.ctx /\ ~IsSingle(rc) THEN Materialize(env.store, rc)
  ELSE ImplicitIntersect(env.store, rc, env.anchor)

EvalUnary(e, env) ==
  LET v == Eval(e[3], env) IN IF env.ctx /\ IsArr(v) THEN BroadcastUnary(v) ELSE ApplyUnary(v)

EvalBinary(e, env) ==
  LET l == Eval(e[3], env)  r == Eval(e[4], env)
  IN IF env.ctx /\ (IsArr(l) \/ IsArr(r)) THEN BroadcastBinary(e[2], l, r)
     ELSE ApplyBinary(e[2], l, r)

EvalAt(e, env) == LET v == Eval(e[2], Scalar(env)) IN IF IsArr(v) THEN v[4][1] ELSE v

EvalArrayLiteral(rows, env) ==
  IF Len(FlattenSeq(rows)) = 1 THEN Eval(rows[1][1], env) ELSE Unsupported

Eval(e, env) ==
  CASE e[1] = "lit" -> e[2]
    [] e[1] = "missing" -> Blank
    [] e[1] = "ref" -> Read(env.store, e[2])
    [] e[1] = "range" -> RangeValue(e[2], env)
    [] e[1] = "name" -> IF e[2] \in DOMAIN NameTable THEN Eval(NameTable[e[2]], env) ELSE Unsupported
    [] e[1] = "param" -> IF e[2] \in DOMAIN env.lex THEN env.lex[e[2]] ELSE Unsupported
    [] e[1] = "unary" -> EvalUnary(e, env)
    [] e[1] = "binary" -> EvalBinary(e, env)
    [] e[1] = "at" -> EvalAt(e, env)
    [] e[1] = "spill" -> Deref(Resolve(e, env, 0), env)
    [] e[1] = "array" -> EvalArrayLiteral(e[2], env)
    [] e[1] = "apply" -> Invoke(e[2], e[3], env)
    [] e[1] = "call" -> EvalCall(e[2], e[3], env)

-----------------------------------------------------------------------------
(* Static analysis (analyze.rs, registry.rs is_volatile).                    *)

(* The expressions directly below e, those never evaluated included. *)
Parts(e) ==
  CASE e[1] = "unary" -> {e[3]}
    [] e[1] = "binary" -> {e[3], e[4]}
    [] e[1] \in {"at", "spill"} -> {e[2]}
    [] e[1] = "array" -> Range(FlattenSeq(e[2]))
    [] e[1] \in {"call", "apply"} -> Range(e[3])
    [] OTHER -> {}

RECURSIVE Precedents(_), ContainsVolatile(_)
\* Fault: the body of a LAMBDA is not walked, it is not evaluated here.
Precedents_SkipsLambda(e) ==
  CASE e[1] = "ref" -> {CellRect(e[2])}
    [] e[1] = "range" -> {e[2]}
    [] e[1] = "name" -> IF e[2] \in DOMAIN NameTable THEN Precedents(NameTable[e[2]]) ELSE {}
    [] IsCallOf(e, {"LAMBDA"}) -> {}
    [] OTHER -> UNION {Precedents(p) : p \in Parts(e)}
Precedents(e) ==
  CASE e[1] = "ref" -> {CellRect(e[2])}
    [] e[1] = "range" -> {e[2]}
    [] e[1] = "name" -> IF e[2] \in DOMAIN NameTable THEN Precedents(NameTable[e[2]]) ELSE {}
    [] OTHER -> UNION {Precedents(p) : p \in Parts(e)}

ContainsVolatile(e) ==
  IsCallOf(e, {"OFFSET", "INDIRECT"}) \/ \E p \in Parts(e) : ContainsVolatile(p)

-----------------------------------------------------------------------------
(* The sheet changes around the formula.                                     *)

Env(anchor, store, regions) ==
  [store |-> store, spills |-> regions, anchor |-> anchor, entered |-> entered,
   ctx |-> FALSE, lex |-> <<>>]

SpillRect(h) == Rect(SpillAnchor[1], SpillAnchor[1] + h - 1, SpillAnchor[2], SpillAnchor[2])
SpillCells(h) == [c \in CellsOf(SpillRect(h)) |-> Num(c[1])]

(* run_cell and write_cell_result: a lambda is #CALC! in a cell, a blank 0,  *)
(* an array with a lambda among its elements #VALUE! as a whole.             *)
InCell(v) ==
  CASE v[1] = "lam" -> Err("CALC")
    [] v[1] = "blank" -> Num(0)
    [] IsArr(v) -> IF \E x \in Range(v[4]) : x[1] = "lam" THEN BadValue ELSE v
    [] OTHER -> v

(* The recalculation an edit of `cells` causes re-evaluates the formula. *)
MustReevaluate(cells) ==
  ContainsVolatile(formula) \/ \E rc \in Precedents(formula) : CellsOf(rc) \cap cells # {}

Recalc(cells) ==
  shown' = IF MustReevaluate(cells) THEN InCell(Eval(formula, Env(Home, values', spills'))) ELSE shown

Init ==
  \E f \in Formulas, cse \in BOOLEAN, h \in SpillSizes, typed \in [DOMAIN Inputs -> {Blank}] :
    /\ formula = f
    /\ entered = cse
    /\ values = typed @@ SpillCells(h)
    /\ spills = (SpillAnchor :> SpillRect(h))
    /\ shown = InCell(Eval(f, Env(Home, values, spills)))

(* Engine::edit of a literal cell, and the recalculation that follows. *)
Edit(c, v) ==
  /\ v # values[c]
  /\ values' = [values EXCEPT ![c] = v]
  /\ UNCHANGED <<formula, entered, spills>>
  /\ Recalc({c})

(* The dynamic array is evaluated again and covers another region; its       *)
(* anchor is among the cells that changed, whatever the region.              *)
Respill(h) ==
  LET old == CellsOf(spills[SpillAnchor])
  IN /\ SpillRect(h) # spills[SpillAnchor]
     /\ values' = Restrict(values, DOMAIN values \ old) @@ SpillCells(h)
     /\ spills' = (SpillAnchor :> SpillRect(h))
     /\ UNCHANGED <<formula, entered>>
     /\ Recalc(old \union CellsOf(SpillRect(h)))

Next ==
  \/ \E c \in DOMAIN Inputs : \E v \in Inputs[c] : Edit(c, v)
  \/ \E h \in SpillSizes : Respill(h)

Spec == Init /\ [][Next]_vars

-----------------------------------------------------------------------------
(* What the evaluator promises.                                              *)

Value(e, anchor) == Eval(e, Env(anchor, values, spills))

(* The cached value is the value of the formula now: the precedents recorded *)
(* from the text cover every cell an evaluation reads, in branches not taken *)
(* before, in lambda bodies, through names and spilled regions, and what the *)
(* text does not show (OFFSET, INDIRECT) makes the formula volatile.         *)
(* (analyze.rs collect_precedents and contains_volatile against eval.rs)     *)
ReadsArePrecedents == shown = InCell(Value(formula, Home))

(* find_duplicate_let_param: a formula Excel rejects when it loads. *)
RECURSIVE HasDuplicateLet(_)
HasDuplicateLet(e) ==
  \/ IsCallOf(e, {"LET"}) /\ ~IsInjectiveSeq(LetNames(e[3]))
  \/ \E p \in Parts(e) : HasDuplicateLet(p)

(* A copy of an expression in which every binder has a name of its own.      *)
Renamed(p, ren) == IF p \in DOMAIN ren THEN ren[p] ELSE p
RECURSIVE Freshen(_, _, _), FreshenLet(_, _, _, _)
FreshenLet(args, i, path, ren) ==
  LET fresh == 10 * path + i
      isParam == args[i][1] = "param"
  IN CASE i > Len(args) -> <<>>
       [] i = Len(args) -> <<Freshen(args[i], fresh, ren)>>
       [] i < Len(args) ->
            <<IF isParam THEN <<"param", fresh>> ELSE args[i], Freshen(args[i + 1], fresh + 1, ren)>>
            \o FreshenLet(args, i + 2, path, IF isParam THEN (args[i][2] :> fresh) @@ ren ELSE ren)
Freshen(e, path, ren) ==
  LET all(es, r) == [i \in DOMAIN es |-> Freshen(es[i], 10 * path + i, r)]
      slots == {i \in 1..(Len(e[3]) - 1) : e[3][i][1] = "param"}
      inner == [p \in {e[3][i][2] : i \in slots} |->
                  10 * path + Min({i \in slots : e[3][i][2] = p})] @@ ren
      params == [i \in 1..(Len(e[3]) - 1) |-> IF i \in slots THEN <<"param", inner[e[3][i][2]]>> ELSE e[3][i]]
  IN CASE e[1] = "param" -> <<"param", Renamed(e[2], ren)>>
       [] e[1] = "apply" -> <<"apply", Renamed(e[2], ren), all(e[3], ren)>>
       [] IsCallOf(e, {"LET"}) -> <<"call", "LET", FreshenLet(e[3], 1, path, ren)>>
       [] IsCallOf(e, {"LAMBDA"}) ->
            <<"call", "LAMBDA", params \o <<Freshen(Last(e[3]), 10 * path + 9, inner)>> >>
       [] e[1] = "call" /\ e[2] \notin {"LET", "LAMBDA"} -> <<"call", e[2], all(e[3], ren)>>
       [] e[1] = "unary" -> <<"unary", e[2], Freshen(e[3], 10 * path + 1, ren)>>
       [] e[1] = "binary" ->
            <<"binary", e[2], Freshen(e[3], 10 * path + 1, ren), Freshen(e[4], 10 * path + 2, ren)>>
       [] e[1] \in {"at", "spill"} -> <<e[1], Freshen(e[2], 10 * path + 1, ren)>>
       [] e[1] = "array" -> <<"array", [i \in DOMAIN e[2] |-> all(e[2][i], ren)]>>
       [] OTHER -> e

(* LET and LAMBDA scope lexically: giving every binding a name used nowhere *)
(* else changes no value, so a closure sees the bindings of its own text,   *)
(* never its caller's nor a later binding of the same name, and shadowing   *)
(* ends with the scope. (eval.rs apply_lambda, eval_let; lambda.rs snapshot) *)
ScopeIsLexical ==
  HasDuplicateLet(formula) \/ InCell(Value(Freshen(formula, 1, <<>>), Home)) = InCell(Value(formula, Home))

(* Expressions made of ranges, cells, literals, operators, IF, NOT, ISBLANK. *)
RECURSIVE IsElementwise(_)
IsElementwise(e) ==
  /\ e[1] \in {"lit", "ref", "range", "unary", "binary"} \/ IsCallOf(e, {"IF", "NOT", "ISBLANK"})
  /\ \A p \in Parts(e) : IsElementwise(p)

(* The expression with each range replaced by its cell at row i, column j:  *)
(* one row or one column repeats, a short column pads with #N/A.            *)
RECURSIVE Cellwise(_, _, _)
Cellwise(e, i, j) ==
  CASE e[1] = "range" ->
         LET rc == e[2]
             cell == <<rc[1] + (IF Height(rc) = 1 THEN 0 ELSE i - 1),
                       rc[3] + (IF Width(rc) = 1 THEN 0 ELSE j - 1)>>
         IN IF cell \in CellsOf(rc) THEN <<"ref", cell>> ELSE <<"lit", Err("NA")>>
    [] e[1] = "unary" -> <<"unary", e[2], Cellwise(e[3], i, j)>>
    [] e[1] = "binary" -> <<"binary", e[2], Cellwise(e[3], i, j), Cellwise(e[4], i, j)>>
    [] e[1] = "call" -> <<"call", e[2], [k \in DOMAIN e[3] |-> Cellwise(e[3][k], i, j)]>>
    [] OTHER -> e

(* What SUM folds is what the scalar rules give cell by cell: an argument    *)
(* evaluated in array context is either refused or, at each position, the    *)
(* value of the same expression over single cells - through nested IF, NOT   *)
(* and operators, with IF's laziness, errors and #N/A padding included.      *)
(* (ops.rs broadcast_*, func_if.rs array_select, eval.rs materialize)        *)
ArraysAreCellwise ==
  IsCallOf(formula, {"SUM"}) =>
    \A k \in DOMAIN formula[3] : LET e == formula[3][k] IN IsElementwise(e) =>
      LET v == Eval(e, [Env(Home, values, spills) EXCEPT !.ctx = TRUE])
      IN IsMulti(v) => \A i \in 1..v[2], j \in 1..v[3] :
           At(v, i, j) = Value(Cellwise(e, i, j), Home)

(* An aggregate over such arguments does not depend on where its formula     *)
(* stands: no range inside it silently becomes the one cell on the           *)
(* formula's row or column. (eval.rs:56-60, array_arg_ctx)                   *)
SumIsPositionFree ==
  (IsCallOf(formula, {"SUM"}) /\ \A k \in DOMAIN formula[3] : IsElementwise(formula[3][k])) =>
    Cardinality({Value(formula, p) : p \in Positions \union {Home}}) = 1

=============================================================================
