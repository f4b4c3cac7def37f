----------------------------- MODULE Aggregates ------------------------------
(* The aggregates of xl-fn: SUM, SUMSQ, PRODUCT, AVERAGE, AVERAGEA, COUNT,   *)
(* COUNTA, MIN, MAX, MINA, MAXA, MEDIAN, SMALL, LARGE, RANK, AND, OR, XOR,   *)
(* SUMPRODUCT, and SUBTOTAL, which calls seven of them. Each is a loop of    *)
(* its own over its arguments, and returns at the first error it meets.      *)
(*                                                                           *)
(* An argument has a shape, the cells a walk visits (those the store holds), *)
(* the rectangle they stand in, and its value as a scalar. A cell is its     *)
(* value, whether its formula is itself a SUBTOTAL, and whether its row is   *)
(* hidden. The array that another call computed is left out: these functions *)
(* refuse it, but for SUM and SUMPRODUCT (RFC 0011). A number is an integer, *)
(* so an index is never fractional; <<"mean", a, b>> is a / b and            *)
(* <<"root", a, b>> its square root.                                         *)
EXTENDS Conditional, Arrays

Cell(v) == [v |-> v, nested |-> FALSE, hidden |-> FALSE]
Values(cells) == [i \in DOMAIN cells |-> cells[i].v]

Argument(shape, cells, grid, value) ==
  [shape |-> shape, cells |-> cells, grid |-> grid, value |-> value]
Omission == Argument("omitted", <<>>, <<>>, Blank)
Literal(v) == Argument("literal", <<>>, <<v>>, v)
CellRef(cell) == Argument("cell", <<cell>>, <<cell.v>>, cell.v)
RangeRef(cells) == Argument("range", cells, Values(cells), Blank)
Constant(values) == Argument("constant", [i \in DOMAIN values |-> Cell(values[i])], values, Blank)

(* The cells first..last of a line: those that are not stored are not walked.*)
LineRef(line, first, last) ==
  LET stored == SelectSeq([i \in 1..(last - first + 1) |-> first + i - 1], LAMBDA p : p \in DOMAIN line)
  IN Argument("range", [i \in DOMAIN stored |-> Cell(line[stored[i]])],
              [i \in 1..(last - first + 1) |-> Read(line, first + i - 1)], Blank)

(* args.rs shape and eff_shape: a reference to one cell is a scalar to the   *)
(* first and a range to the second.                                          *)
Spread(arg) == arg.shape \in {"range", "constant"}
Aggregated(arg) == Spread(arg) \/ arg.shape = "cell"

(* What the arguments add, in the order they are met: numbers and errors.    *)
Parts(args, Walked(_), OfCell(_, _), OfScalar(_)) ==
  Compact(FlattenSeq([i \in DOMAIN args |->
    IF Walked(args[i]) THEN [j \in DOMAIN args[i].cells |-> OfCell(args[i], args[i].cells[j].v)]
    ELSE <<OfScalar(args[i])>>]))

-----------------------------------------------------------------------------
(* What a scalar adds: four readings of a blank.                             *)

StreamedIn(arg, v) == Streamed(v)
UnlessOmitted(arg) == IF arg.shape = "omitted" THEN Skip ELSE ToNumber(arg.value)
UnlessBlank(arg) == IF IsBlank(arg.value) THEN Skip ELSE ToNumber(arg.value)
RefusingBlank(arg) == IF IsBlank(arg.value) THEN Unsupported ELSE ToNumber(arg.value)
RefusingOmitted(arg) ==
  IF ~IsBlank(arg.value) THEN ToNumber(arg.value)
  ELSE IF arg.shape = "omitted" THEN Unsupported ELSE Skip

SumParts(args) == Parts(args, Aggregated, StreamedIn, UnlessOmitted)
AverageParts(args) == Parts(args, Aggregated, StreamedIn, UnlessBlank)
MinParts(args) == Parts(args, Aggregated, StreamedIn, RefusingBlank)

-----------------------------------------------------------------------------
(* SUM, SUMSQ, PRODUCT, AVERAGE, MIN, MAX.                                   *)

SUM(args) == Total(SumParts(args))
AVERAGE(args) == Mean(AverageParts(args))
MIN(args) == Extreme(MinParts(args), -1)
MAX(args) == Extreme(MinParts(args), 1)

SUMSQ(args) ==
  LET parts == SumParts(args)
  IN Total([i \in DOMAIN parts |-> IF IsErr(parts[i]) THEN parts[i] ELSE Num(parts[i][2] * parts[i][2])])

(* The product of no number at all is 0. *)
PRODUCT(args) ==
  LET parts == SumParts(args)
  IN IF Refused(parts) # <<>> THEN Refused(parts)[1]
     ELSE IF parts = <<>> THEN Num(0) ELSE Num(FoldLeft(LAMBDA acc, n : acc * n[2], 1, parts))

-----------------------------------------------------------------------------
(* COUNT and COUNTA. An error is skipped by the one and counted by the other,*)
(* unless it stands for a cell that was never evaluated.                     *)

CountedIf(holds) == IF holds THEN Num(1) ELSE Skip
NeverEvaluated(v) == IsErr(v) /\ v[2] \in Sentinels

\* Fault: a refused cell is passed over as any error is.
NumbersCounted_Laundered(v) == CountedIf(v[1] = "num")
NumbersCounted(v) == IF NeverEvaluated(v) THEN v ELSE CountedIf(v[1] = "num")
ValuesCounted(v) == IF NeverEvaluated(v) THEN v ELSE CountedIf(~IsBlank(v))

\* Fault: a text whose reading is refused is no number.
ScalarCounted_Laundered(v) ==
  IF NeverEvaluated(v) THEN v ELSE CountedIf(~IsBlank(v) /\ ~IsErr(ToNumber(v)))

(* A refusal is that of the value or of reading the text as a number. *)
CountedAs(v, n) == IF NeverEvaluated(n) THEN n ELSE CountedIf(~IsBlank(v) /\ ~IsErr(n))
ScalarCounted(v) == CountedAs(v, ToNumber(v))

COUNT(args) ==
  Total(Parts(args, Aggregated, LAMBDA arg, v : NumbersCounted(v), LAMBDA arg : ScalarCounted(arg.value)))
COUNTA(args) ==
  Total(Parts(args, Aggregated, LAMBDA arg, v : ValuesCounted(v), LAMBDA arg : ValuesCounted(arg.value)))

-----------------------------------------------------------------------------
(* AVERAGEA, MINA and MAXA count the logicals of a reference, but not those  *)
(* of an array constant; text is 0 to the first and nothing to the others.   *)

LogicalIn(arg, v) == IF arg.shape = "constant" THEN Skip ELSE Num(Weight(v))

MinACell(arg, v) == IF v[1] = "bool" THEN LogicalIn(arg, v) ELSE Streamed(v)
AverageACell(arg, v) ==
  IF v[1] = "text" THEN (IF v[2] \in DOMAIN NumericText THEN Unsupported ELSE Num(0))
  ELSE MinACell(arg, v)

AVERAGEA(args) == Mean(Parts(args, Aggregated, AverageACell, RefusingBlank))
MINA(args) == Extreme(Parts(args, Aggregated, MinACell, RefusingOmitted), -1)
MAXA(args) == Extreme(Parts(args, Aggregated, MinACell, RefusingOmitted), 1)

-----------------------------------------------------------------------------
(* MEDIAN, SMALL, LARGE, RANK.                                               *)

Ascending(parts) == SortSeq([i \in DOMAIN parts |-> parts[i][2]], LAMBDA a, b : a < b)

MEDIAN(args) ==
  LET parts == MinParts(args)
      xs == Ascending(parts)
      mid == Len(parts) \div 2
  IN IF Refused(parts) # <<>> THEN Refused(parts)[1]
     ELSE IF parts = <<>> THEN Err("NUM")
     ELSE IF Len(parts) % 2 = 1 THEN Num(xs[mid + 1]) ELSE <<"mean", xs[mid] + xs[mid + 1], 2>>

ArrayNumbers(arg) == Parts(<<arg>>, Spread, StreamedIn, RefusingBlank)

ResolveK(k, count) ==
  LET n == ToNumber(k)
  IN IF IsErr(n) THEN n ELSE IF n[2] < 1 \/ n[2] > count THEN Err("NUM") ELSE n

SMALL(arg, k) ==
  LET parts == ArrayNumbers(arg)
      refused == Refused(Append(parts, ResolveK(k, Len(parts))))
  IN IF refused # <<>> THEN refused[1] ELSE Num(Ascending(parts)[ToNumber(k)[2]])

LARGE(arg, k) ==
  LET parts == ArrayNumbers(arg)
      refused == Refused(Append(parts, ResolveK(k, Len(parts))))
  IN IF refused # <<>> THEN refused[1] ELSE Num(Ascending(parts)[Len(parts) + 1 - ToNumber(k)[2]])

(* One more than the numbers that come before it; ties share their place. *)
RANK(number, arg, order) ==
  LET x == ToNumber(number)
      parts == Parts(<<arg>>, Spread, StreamedIn, LAMBDA scalar : ToNumber(scalar.value))
      by == ToNumber(order)
      refused == Refused(<<x>> \o parts \o <<by>>)
      better(n) == IF by[2] # 0 THEN n[2] < x[2] ELSE n[2] > x[2]
  IN IF refused # <<>> THEN refused[1]
     ELSE IF x \notin Range(parts) THEN NotFound ELSE Num(1 + Len(SelectSeq(parts, better)))

-----------------------------------------------------------------------------
(* AND, OR, XOR. The numbers of a range take part, its texts do not.         *)

TruthIn(arg, v) ==
  CASE v[1] \in {"bool", "err"} -> v [] v[1] = "num" -> Truth(v[2] # 0) [] OTHER -> Skip

TruthParts(args, blank) ==
  Parts(args, Spread, TruthIn, LAMBDA arg : IF IsBlank(arg.value) THEN blank ELSE ToBool(arg.value))

Decided(parts, Combined(_, _), start) ==
  IF Refused(parts) # <<>> THEN Refused(parts)[1]
  ELSE IF parts = <<>> THEN BadValue
  ELSE Truth(FoldLeft(LAMBDA acc, v : Combined(acc, v[2]), start, parts))

AND(args) == Decided(TruthParts(args, Skip), LAMBDA a, b : a /\ b, TRUE)
OR(args) == Decided(TruthParts(args, Skip), LAMBDA a, b : a \/ b, FALSE)
XOR(args) == Decided(TruthParts(args, Unsupported), LAMBDA a, b : a # b, FALSE)

-----------------------------------------------------------------------------
(* SUMPRODUCT reads whole rectangles, blanks included, and multiplies their  *)
(* cells place by place; what is not a number counts as 0.                   *)

Factor(v) == IF Streamed(v) = Skip THEN Num(0) ELSE v

SUMPRODUCT(args) ==
  LET grids == SelectSeq([i \in DOMAIN args |-> args[i].grid], LAMBDA g : g # <<>>)
      lengths == {Len(grids[i]) : i \in DOMAIN grids}
      factors(k) == [i \in DOMAIN grids |-> Factor(grids[i][k])]
      product(k) == IF Refused(factors(k)) # <<>> THEN Refused(factors(k))[1]
                    ELSE Num(FoldLeft(LAMBDA acc, n : acc * n[2], 1, factors(k)))
  IN IF grids = <<>> THEN Num(0)
     ELSE IF Cardinality(lengths) > 1 THEN (IF 1 \in lengths THEN Unsupported ELSE BadValue)
     ELSE Total([k \in DOMAIN grids[1] |-> product(k)])

-----------------------------------------------------------------------------
(* SUBTOTAL.                                                                 *)

(* Variance and deviation, of a sample and of a population. *)
StatReduce(parts, sample, root) ==
  LET n == Len(parts)
      squares == SumOf([i \in DOMAIN parts |-> parts[i][2] * parts[i][2]])
      sum == SumOf([i \in DOMAIN parts |-> parts[i][2]])
  IN IF Refused(parts) # <<>> THEN Refused(parts)[1]
     ELSE IF n < (IF sample THEN 2 ELSE 1) THEN Unsupported
     ELSE <<IF root THEN "root" ELSE "mean", n * squares - sum * sum, n * (IF sample THEN n - 1 ELSE n)>>

Delegate(f, args) ==
  CASE f = 1 -> AVERAGE(args) [] f = 2 -> COUNT(args) [] f = 3 -> COUNTA(args)
    [] f = 4 -> MAX(args) [] f = 5 -> MIN(args) [] f = 6 -> PRODUCT(args) [] f = 9 -> SUM(args)
    [] f = 7 -> StatReduce(SumParts(args), TRUE, TRUE) [] f = 8 -> StatReduce(SumParts(args), FALSE, TRUE)
    [] f = 10 -> StatReduce(SumParts(args), TRUE, FALSE) [] f = 11 -> StatReduce(SumParts(args), FALSE, FALSE)

\* Fault: a nested subtotal is left out only with the hidden rows.
NestedSubtotalFilter_HiddenOnly(arg, excludeHidden) ==
  [arg EXCEPT !.cells = SelectSeq(@, LAMBDA c : ~(excludeHidden /\ (c.nested \/ c.hidden)))]

(* The cells a walk passes over. A lone cell that is itself a subtotal is    *)
(* reported as an omitted argument; its value as a scalar is still there.    *)
NestedSubtotalFilter(arg, excludeHidden) ==
  IF arg.shape = "cell" /\ arg.cells[1].nested THEN [arg EXCEPT !.shape = "omitted"]
  ELSE [arg EXCEPT !.cells = SelectSeq(@, LAMBDA c : ~c.nested /\ ~(excludeHidden /\ c.hidden))]

SUBTOTAL(selector, args) ==
  LET n == ToNumber(selector)
      code == n[2]
      hides == code \in 101..111
      filtered == [i \in DOMAIN args |-> NestedSubtotalFilter(args[i], hides)]
  IN IF IsErr(n) THEN n
     ELSE IF code \notin 1..11 \union 101..111 THEN BadValue
     ELSE Delegate(IF hides THEN code - 100 ELSE code, filtered)

-----------------------------------------------------------------------------
(* What the functions promise one another.                                   *)

Negated(v) ==
  CASE v[1] = "bool" -> Truth(~v[2]) [] v[1] = "num" -> Truth(v[2] = 0) [] OTHER -> v
NegatedRef(ref) == RangeRef([i \in DOMAIN ref.cells |-> Cell(Negated(ref.cells[i].v))])

BothWays(ref) == {ref, RangeRef(Reverse(ref.cells))}

(* Of n numbers, each is the k-th from one end and the (n + 1 - k)-th from   *)
(* the other, and its rank is its first place among them.                    *)
OrderStatistics(ref, n) ==
  LET small(k) == SMALL(ref, Num(k))[2]
  IN /\ \A k \in 1..n :
          /\ small(k) = LARGE(ref, Num(n + 1 - k))[2]
          /\ RANK(Num(small(k)), ref, Truth(TRUE)) = Num(Min({j \in 1..n : small(j) = small(k)}))
          /\ RANK(Num(small(k)), ref, Blank) = Num(Min({j \in 1..n : small(n + 1 - j) = small(k)}))
          /\ k < n => small(k) <= small(k + 1)
     /\ n > 0 => /\ MIN(<<ref>>) = Num(small(1))
                 /\ MAX(<<ref>>) = Num(small(n))
                 /\ LET middle == small((n + 1) \div 2) + small(n \div 2 + 1)
                    IN MEDIAN(<<ref>>) \in {Num(middle \div 2), <<"mean", middle, 2>>}
                 /\ MINA(<<ref>>)[2] <= small(1) /\ MAXA(<<ref>>)[2] >= small(n)
     /\ {SMALL(ref, Num(0)), LARGE(ref, Num(n + 1))} = {Err("NUM")}

(* Twenty loops of their own over the same cells agree: whatever is stored,  *)
(* cleared or missing, read down or up, each stops at the same first error,  *)
(* and only COUNT and COUNTA pass one over, never a refusal; the mean is the sum over the   *)
(* count; the walk of the stored cells and the walk of the whole rectangle   *)
(* give one sum and one sum of squares; the order statistics are those of    *)
(* one order; AND is OR of the negations; a reference to one cell is a range *)
(* of one cell; and COUNT counts a value typed as an argument exactly when   *)
(* SUM adds it, and refuses the texts that SUM refuses to read.              *)
(* (func_sum.rs ... func_xor.rs, func_sumproduct.rs, args.rs eff_shape)      *)
LoopsAgree ==
  results = <<>> =>
    \A ref \in BothWays(LineRef(keys, 0, LastCell - 1)) : \A sum \in {SUM(<<ref>>)}, count \in {COUNT(<<ref>>)} :
      LET line == <<ref>>
          refusals == {v \in Range(Values(ref.cells)) : NeverEvaluated(v)}
      IN /\ IsErr(sum) =>
              {AVERAGE(line), PRODUCT(line), SUMSQ(line), MIN(line), MAX(line), MINA(line), MAXA(line),
               MEDIAN(line), SMALL(ref, Num(1)), LARGE(ref, Num(0)), RANK(Num(1), ref, Blank),
               SUMPRODUCT(line), AND(line), OR(line), XOR(line)} = {sum}
         /\ IF IsErr(count) THEN {count, COUNTA(line)} \subseteq refusals
            ELSE refusals = {} /\ count[2] <= COUNTA(line)[2]
         /\ ~IsErr(sum) =>
              /\ AVERAGE(line) = (IF count = Num(0) THEN Err("DIV0") ELSE <<"mean", sum[2], count[2]>>)
              /\ SUMPRODUCT(line) = sum /\ SUMPRODUCT(<<ref, ref>>) = SUMSQ(line)
              /\ OrderStatistics(ref, count[2])
              /\ AND(line) = Negated(OR(<<NegatedRef(ref)>>))
              /\ XOR(line)[1] = "bool" /\ XOR(line)[2] => OR(line)[2]
         /\ \A v \in Range(Values(ref.cells)) : \A added \in {SUM(<<Literal(v)>>)} :
              COUNT(<<Literal(v)>>) = IF NeverEvaluated(added) THEN added
                                      ELSE Num(IF IsBlank(v) \/ IsErr(added) THEN 0 ELSE 1)
         /\ \A i \in DOMAIN ref.cells :
              LET cell == <<CellRef(ref.cells[i])>>
                  range == <<RangeRef(<<ref.cells[i]>>)>>
              IN /\ COUNT(cell) = COUNT(range) /\ COUNTA(cell) = COUNTA(range)
                 /\ \A f \in {1, 4, 5, 6, 8, 9} : Delegate(f, cell) = Delegate(f, range)
                 /\ MEDIAN(cell) = MEDIAN(range) /\ AVERAGEA(cell) = AVERAGEA(range)
                 /\ MINA(cell) = MINA(range) /\ MAXA(cell) = MAXA(range)

(* A column of two blocks, each with its subtotal below it.                  *)
Tagged(p, rows) == [Cell(keys[p]) EXCEPT !.hidden = p \in rows]
Block(first, last, rows) ==
  LET stored == SelectSeq([i \in 1..(last - first + 1) |-> first + i - 1], LAMBDA p : p \in DOMAIN keys)
  IN [i \in DOMAIN stored |-> Tagged(stored[i], rows)]
SubtotalOf(code, block) == [Cell(SUBTOTAL(Num(code), <<RangeRef(block)>>)) EXCEPT !.nested = TRUE]
Shown(block, code) == SelectSeq(block, LAMBDA c : code < 100 \/ ~c.hidden)

(* The delegates that drop an omitted argument without looking at it. *)
DropsOmitted == {6, 7, 8, 9, 10, 11}

(* No cell is counted twice and none is lost: the subtotal of a column that  *)
(* holds the subtotals of its parts is the function over the leaves, the     *)
(* hidden rows aside for the codes above 100, and it is what the parts add   *)
(* up to, whatever errors, texts and gaps are among them; and for the        *)
(* delegates that skip omitted arguments it makes no difference whether a    *)
(* nested subtotal is met in a range or alone.                               *)
(* (func_subtotal.rs NestedSubtotalFilter, eval; eval.rs stream_range_tagged)*)
SubtotalsNest ==
  results = <<>> =>
    \A p \in {1, 2}, rows \in {{}, {1, 2}} : \A f \in 1..11 : \A code \in {f, 100 + f} :
      \A first \in {Block(0, p - 1, rows)}, second \in {Block(p, LastCell - 1, rows)} :
       \A subs \in {<<SubtotalOf(code, first), SubtotalOf(code, second)>>} :
        LET column == first \o <<subs[1]>> \o second \o <<subs[2]>>
            apart == <<RangeRef(first), CellRef(subs[1]), RangeRef(second), CellRef(subs[2])>>
            leaves == Shown(first \o second, code)
        IN \A grand \in {SUBTOTAL(Num(code), <<RangeRef(column)>>)} :
             /\ grand = Delegate(f, <<RangeRef(leaves)>>)
             /\ f \in DropsOmitted => SUBTOTAL(Num(code), apart) = grand
             /\ f \in {2, 3, 9} =>
                  IF IsErr(grand) THEN grand \in {subs[1].v, subs[2].v}
                  ELSE grand[2] = subs[1].v[2] + subs[2].v[2]

(* Functions that answer one question in loops of their own give one answer: *)
(* the criteria functions of one pair, of several and of a database, and the *)
(* searches of MATCH, VLOOKUP, HLOOKUP, XMATCH and XLOOKUP.                  *)
(* (func_countif.rs ... func_dsum.rs; func_match.rs ... func_xlookup.rs)     *)
TwinsAgree == CriteriaTwinsAgree /\ LookupsAgree

(* The aggregates agree with each other: the loops among themselves, and     *)
(* each subtotal with the function it stands for.                            *)
(* (func_sum.rs ... func_xor.rs, func_subtotal.rs)                           *)
AggregatesAgree == LoopsAgree /\ SubtotalsNest

(* Claims of the documentation that do not hold. A nested subtotal passed as *)
(* a lone cell is reported as omitted "so the delegate drops it entirely"    *)
(* (func_subtotal.rs:111): AVERAGE, COUNT, COUNTA, MIN and MAX evaluate an   *)
(* omitted argument as the scalar it is.                                     *)
LoneSubtotalIsDropped ==
  LET block == Block(0, LastCell - 1, {})
  IN keys # <<>> => \A code \in {2, 3, 4, 5} :
       SUBTOTAL(Num(code), <<RangeRef(block), CellRef(SubtotalOf(9, block))>>)
         = SUBTOTAL(Num(code), <<RangeRef(block)>>)

(* SMALL gathers its numbers "with MIN's inclusion rules", "k = 1 is the     *)
(* minimum" (func_small.rs:13 and 15): a lone reference to a logical or to a *)
(* text counts for the one and not for the other.                            *)
SmallestIsMinimum ==
  \A p \in DOMAIN keys :
    LET ref == CellRef(Cell(keys[p]))
    IN Agree(SMALL(ref, Num(1)), MIN(<<ref>>)) \/ SMALL(ref, Num(1)) = Err("NUM")

=============================================================================
