------------------------------- MODULE Arrays -------------------------------
(* The array functions of xl-fn: those that reshape (TAKE, DROP, CHOOSEROWS, *)
(* CHOOSECOLS, VSTACK, HSTACK, TOCOL, TOROW, WRAPROWS, WRAPCOLS, EXPAND,     *)
(* SEQUENCE), those that select (FILTER, SORT, SORTBY, UNIQUE) and those     *)
(* that look up (INDEX, XMATCH, XLOOKUP), on arrays and on ranges of the two *)
(* columns.                                                                  *)
(*                                                                           *)
(* A grid is a non-empty sequence of rows of one length. An array argument   *)
(* is <<"array", grid>> for a range, a single value, or a whole line, which  *)
(* holds the lines it names. The array that another call returned is the     *)
(* range it spilled into (arrayshape.rs refuses the call itself). The other  *)
(* arguments are single values, Elided between two commas, or Absent.        *)
EXTENDS Lookup

CONSTANTS
  MaxElems,  \* MAX_MATERIALIZED_ELEMS
  Readings   \* text that looks like a number -> what it is read as

(* Some texts are refused because nobody has seen how Excel reads them. *)
ASSUME ArraysAssumption ==
  /\ MaxElems \in Nat \ {0}
  /\ DOMAIN NumericText \subseteq DOMAIN Readings /\ 0 \notin DOMAIN Readings
  /\ \A t \in DOMAIN Readings :
       Readings[t] = IF t \in DOMAIN NumericText THEN Num(NumericText[t]) ELSE Unsupported

Arr(grid) == <<"array", grid>>
WholeLines(lines, onRow) == <<"whole", lines, onRow>>
Absent == <<"absent">>
Elided == <<"elided">>
IsOmitted(arg) == arg \in {Absent, Elided}

Calc == Err("CALC")
BadValue == Err("VALUE")
Omittable(arg, default) == IF IsOmitted(arg) THEN default ELSE arg

ToNumber(v) ==
  CASE v[1] \in {"num", "err"} -> v
    [] v[1] = "bool" -> Num(Weight(v))
    [] v[1] = "text" -> IF v[2] \in DOMAIN Readings THEN Readings[v[2]] ELSE BadValue
    [] OTHER -> Num(0)

ToBool(v) ==
  CASE v[1] \in {"bool", "err"} -> v
    [] v[1] = "text" -> BadValue
    [] OTHER -> Truth(ToNumber(v)[2] # 0)

-----------------------------------------------------------------------------
(* Grids and positions.                                                      *)

Height(g) == Len(g)
Width(g) == Len(g[1])
Column(g, c) == [r \in DOMAIN g |-> g[r][c]]
Columns(g) == [c \in DOMAIN g[1] |-> Column(g, c)]
From(first, last) == [i \in 1..(last - first + 1) |-> first + i - 1]
All(n) == From(1, n)

(* The grid of the cells at the given rows and columns, in that order. *)
Subgrid(g, rows, cols) == [i \in DOMAIN rows |-> [j \in DOMAIN cols |-> g[rows[i]][cols[j]]]]
Filled2(height, width, Cell(_, _)) == [r \in 1..height |-> [c \in 1..width |-> Cell(r, c)]]

(* The positions kept of an axis, or the error that forbids it. *)
Axis(positions) == <<"axis", positions>>

(* The first error of a call's checks, in the order the code makes them. *)
Refused(checks) == SelectSeq(checks, IsErr)

IsWhole(arg) == arg[1] = "whole"
Grid(arg) == IF arg[1] = "array" THEN arg[2] ELSE <<<<arg>>>>
OverCap(height, width) == height * width > MaxElems

(* dynarray.rs materialize refuses whole lines; arrayshape.rs materialize    *)
(* refuses large arrays as well.                                             *)
Bounds(arg) == IF IsWhole(arg) THEN Unsupported ELSE Skip
Materialize(arg) ==
  IF IsWhole(arg) \/ IsOmitted(arg) \/ OverCap(Height(Grid(arg)), Width(Grid(arg))) THEN Unsupported ELSE Skip

-----------------------------------------------------------------------------
(* TAKE, DROP, CHOOSEROWS, CHOOSECOLS.                                       *)

IsArray(arg) == arg[1] \in {"array", "whole"}
IntArg(arg) == IF IsOmitted(arg) \/ IsArray(arg) THEN Unsupported ELSE ToNumber(arg)
SmallerOf(a, b) == IF a <= b THEN a ELSE b
AbsOf(n) == IF n < 0 THEN -n ELSE n

TakeAxis(n, dim) ==
  LET k == SmallerOf(AbsOf(n), dim)
  IN IF n = 0 THEN Calc ELSE Axis(IF n > 0 THEN From(1, k) ELSE From(dim - k + 1, dim))

\* Fault: dropping from the end keeps one line too many.
DropAxis_KeepsOne(n, dim) ==
  LET k == SmallerOf(AbsOf(n), dim)
  IN IF n = 0 THEN Unsupported ELSE IF k = dim THEN Calc
     ELSE Axis(IF n > 0 THEN From(k, dim) ELSE From(1, dim - k))

DropAxis(n, dim) ==
  LET k == SmallerOf(AbsOf(n), dim)
  IN IF n = 0 THEN Unsupported ELSE IF k = dim THEN Calc
     ELSE Axis(IF n > 0 THEN From(k + 1, dim) ELSE From(1, dim - k))

(* Both counts are read before either is applied. *)
Window(arg, rows, cols, AxisOf(_, _)) ==
  LET g == Grid(arg)
      refused == Refused(<<Materialize(arg), IntArg(rows), IF IsOmitted(cols) THEN Skip ELSE IntArg(cols)>>)
      down == AxisOf(IntArg(rows)[2], Height(g))
      across == IF IsOmitted(cols) THEN Axis(All(Width(g))) ELSE AxisOf(IntArg(cols)[2], Width(g))
      empty == Refused(<<down, across>>)
  IN IF refused # <<>> THEN refused[1]
     ELSE IF empty # <<>> THEN empty[1] ELSE Arr(Subgrid(g, down[2], across[2]))

Take(arg, rows, cols) == Window(arg, rows, cols, TakeAxis)
Drop(arg, rows, cols) == Window(arg, rows, cols, DropAxis)

(* Position n of an axis, from its end when negative. *)
Chosen(n, dim) ==
  IF IsErr(n) THEN n
  ELSE IF n[2] = 0 \/ AbsOf(n[2]) > dim THEN BadValue
  ELSE Num(IF n[2] > 0 THEN n[2] ELSE dim + n[2] + 1)

CollectIndices(args, dim) ==
  LET chosen == [i \in DOMAIN args |-> Chosen(IntArg(args[i]), dim)]
  IN IF Refused(chosen) # <<>> THEN Refused(chosen)[1] ELSE Axis([i \in DOMAIN args |-> chosen[i][2]])

ChooseRows(arg, args) ==
  LET g == Grid(arg)  rows == CollectIndices(args, Height(g))
      refused == Refused(<<Materialize(arg), rows>>)
  IN IF refused # <<>> THEN refused[1]
     ELSE IF OverCap(Len(args), Width(g)) THEN Unsupported ELSE Arr(Subgrid(g, rows[2], All(Width(g))))

ChooseCols(arg, args) ==
  LET g == Grid(arg)  cols == CollectIndices(args, Width(g))
      refused == Refused(<<Materialize(arg), cols>>)
  IN IF refused # <<>> THEN refused[1]
     ELSE IF OverCap(Height(g), Len(args)) THEN Unsupported ELSE Arr(Subgrid(g, All(Height(g)), cols[2]))

-----------------------------------------------------------------------------
(* VSTACK, HSTACK, EXPAND, SEQUENCE.                                         *)

SumOf(numbers) == FoldLeft(LAMBDA acc, n : acc + n, 0, numbers)
CellOr(g, r, c, pad) == IF r <= Height(g) /\ c <= Width(g) THEN g[r][c] ELSE pad

VStack(args) ==
  LET grids == [i \in DOMAIN args |-> Grid(args[i])]
      refused == Refused([i \in DOMAIN args |-> Materialize(args[i])])
      height == SumOf([i \in DOMAIN grids |-> Height(grids[i])])
      width == Max({Width(grids[i]) : i \in DOMAIN grids})
      padded(g) == Filled2(Height(g), width, LAMBDA r, c : CellOr(g, r, c, NotFound))
  IN IF refused # <<>> THEN refused[1]
     ELSE IF OverCap(height, width) THEN Unsupported
     ELSE Arr(FlattenSeq([i \in DOMAIN grids |-> padded(grids[i])]))

HStack(args) ==
  LET grids == [i \in DOMAIN args |-> Grid(args[i])]
      refused == Refused([i \in DOMAIN args |-> Materialize(args[i])])
      height == Max({Height(grids[i]) : i \in DOMAIN grids})
      width == SumOf([i \in DOMAIN grids |-> Width(grids[i])])
      row(g, r) == [c \in 1..Width(g) |-> CellOr(g, r, c, NotFound)]
  IN IF refused # <<>> THEN refused[1]
     ELSE IF OverCap(height, width) THEN Unsupported
     ELSE Arr([r \in 1..height |-> FlattenSeq([i \in DOMAIN grids |-> row(grids[i], r)])])

ReadPad(pad) == Omittable(pad, NotFound)

TargetDim(arg, current) ==
  LET n == ToNumber(arg)
  IN IF IsOmitted(arg) THEN Num(current)
     ELSE IF IsErr(n) THEN n
     ELSE IF n[2] < current THEN BadValue
     ELSE IF n[2] > MaxElems THEN Unsupported ELSE n

Expand(arg, rows, cols, pad) ==
  LET g == Grid(arg)
      height == TargetDim(rows, Height(g))
      width == TargetDim(cols, Width(g))
      refused == Refused(<<Materialize(arg), height, width>>)
  IN IF refused # <<>> THEN refused[1]
     ELSE IF OverCap(height[2], width[2]) THEN Unsupported
     ELSE Arr(Filled2(height[2], width[2], LAMBDA r, c : CellOr(g, r, c, ReadPad(pad))))

CountArg(arg) == LET n == IntArg(arg) IN IF IsErr(n) THEN n ELSE IF n[2] < 1 THEN Unsupported ELSE n

(* The order in which two dimensions would be filled is not documented. *)
Sequence(rows, cols, start, step) ==
  LET height == CountArg(rows)
      width == CountArg(Omittable(cols, Num(1)))
      first == ToNumber(Omittable(start, Num(1)))
      by == ToNumber(Omittable(step, Num(1)))
      counts == Refused(<<height, width>>)
      refused == Refused(<<first, by>>)
  IN IF counts # <<>> THEN counts[1]
     ELSE IF height[2] > 1 /\ width[2] > 1 THEN Unsupported
     ELSE IF refused # <<>> THEN refused[1]
     ELSE IF OverCap(height[2], width[2]) THEN Unsupported
     ELSE Arr(Filled2(height[2], width[2], LAMBDA r, c : Num(first[2] + (r + c - 2) * by[2])))

-----------------------------------------------------------------------------
(* TOCOL, TOROW, WRAPROWS, WRAPCOLS.                                         *)

KeepCell(v, ignore) ==
  ~((ignore \in {1, 3} /\ IsBlank(v)) \/ (ignore \in {2, 3} /\ IsErr(v)))

ReadIgnore(arg) ==
  LET n == ToNumber(arg)
  IN IF IsOmitted(arg) THEN Num(0) ELSE IF IsErr(n) \/ n[2] \in 0..3 THEN n ELSE Unsupported
ReadScan(arg) == IF IsOmitted(arg) THEN Truth(FALSE) ELSE ToBool(arg)

Flatten(g, ignore, byColumn) ==
  SelectSeq(FlattenSeq(IF byColumn THEN Columns(g) ELSE g), LAMBDA v : KeepCell(v, ignore))

(* The cells in one line, or why there is none. *)
InLine(arg, ignore, byColumn) ==
  LET refused == Refused(<<Materialize(arg), ReadIgnore(ignore), ReadScan(byColumn)>>)
      line == Flatten(Grid(arg), ReadIgnore(ignore)[2], ReadScan(byColumn)[2])
  IN IF refused # <<>> THEN refused[1]
     ELSE IF line = <<>> \/ OverCap(1, Len(line)) THEN Unsupported ELSE Axis(line)

ToRow(arg, ignore, byColumn) ==
  LET line == InLine(arg, ignore, byColumn) IN IF IsErr(line) THEN line ELSE Arr(<<line[2]>>)
ToCol(arg, ignore, byColumn) ==
  LET line == InLine(arg, ignore, byColumn)
  IN IF IsErr(line) THEN line ELSE Arr([i \in DOMAIN line[2] |-> <<line[2][i]>>])

(* A vector, cut every `wrap` cells; a longer line is not documented. *)
WrapInputs(arg, wrap) ==
  LET g == Grid(arg)  n == IntArg(wrap)
  IN IF IsErr(Materialize(arg)) THEN Unsupported
     ELSE IF Height(g) > 1 /\ Width(g) > 1 THEN BadValue
     ELSE IF IsErr(n) THEN n
     ELSE IF n[2] < 1 THEN Err("NUM")
     ELSE IF n[2] > Height(g) * Width(g) THEN Unsupported ELSE n

LinesOf(count, wrap) == (count + wrap - 1) \div wrap
At(seq, i, pad) == IF i \in DOMAIN seq THEN seq[i] ELSE pad

WrapRows(arg, wrap, pad) ==
  LET elems == FlattenSeq(Grid(arg))  n == WrapInputs(arg, wrap)
      lines == LinesOf(Len(elems), n[2])
  IN IF IsErr(n) THEN n
     ELSE IF OverCap(lines, n[2]) THEN Unsupported
     ELSE Arr(Filled2(lines, n[2], LAMBDA r, c : At(elems, (r - 1) * n[2] + c, ReadPad(pad))))

WrapCols(arg, wrap, pad) ==
  LET elems == FlattenSeq(Grid(arg))  n == WrapInputs(arg, wrap)
      lines == LinesOf(Len(elems), n[2])
  IN IF IsErr(n) THEN n
     ELSE IF OverCap(n[2], lines) THEN Unsupported
     ELSE Arr(Filled2(n[2], lines, LAMBDA r, c : At(elems, (c - 1) * n[2] + r, ReadPad(pad))))

-----------------------------------------------------------------------------
(* FILTER, UNIQUE.                                                           *)

(* A column of flags keeps rows, a row of flags columns. *)
Filter(arg, include, ifEmpty) ==
  LET g == Grid(arg)  flags == Grid(include)
      byRow == Width(flags) = 1 /\ Height(flags) = Height(g)
      byCol == Height(flags) = 1 /\ Width(flags) = Width(g)
      verdicts == [i \in DOMAIN (IF byRow THEN flags ELSE flags[1]) |->
                     ToBool(IF byRow THEN flags[i][1] ELSE flags[1][i])]
      kept == SelectSeq(All(Len(verdicts)), LAMBDA i : verdicts[i] = Truth(TRUE))
      bounds == Refused(<<Bounds(arg), Bounds(include)>>)
  IN IF bounds # <<>> THEN bounds[1]
     ELSE IF ~byRow /\ ~byCol THEN BadValue
     ELSE IF Refused(verdicts) # <<>> THEN Refused(verdicts)[1]
     ELSE IF kept = <<>>
          THEN CASE ifEmpty = Absent -> Calc [] ifEmpty = Elided -> Unsupported [] OTHER -> ifEmpty
     ELSE Arr(IF byRow THEN Subgrid(g, kept, All(Width(g))) ELSE Subgrid(g, All(Height(g)), kept))

Zeros == {Num(0), Text(0), Truth(FALSE)}

(* Lines are equal cell by cell; a blank beside what it may be worth, a text *)
(* that only the locale can compare and (not modelled: a text is one         *)
(* spelling here) one that differs in case only are not decided.             *)
Undecided(lines) ==
  \/ \E p \in DOMAIN lines[1] : LET cells == {lines[i][p] : i \in DOMAIN lines}
                                IN Blank \in cells /\ cells \intersect Zeros # {}
  \/ \E i \in DOMAIN lines : \E p \in DOMAIN lines[i] : IsNonAscii(lines[i][p])

FirstOf(lines, exactlyOnce) ==
  LET same(i) == {j \in DOMAIN lines : lines[j] = lines[i]}
  IN SelectSeq(All(Len(lines)), LAMBDA i : i = Min(same(i)) /\ (exactlyOnce => same(i) = {i}))

Unique(arg, byCol, exactlyOnce) ==
  LET g == Grid(arg)
      across == ToBool(Omittable(byCol, Blank))
      once == ToBool(Omittable(exactlyOnce, Blank))
      lines == IF across[2] THEN Columns(g) ELSE g
      kept == FirstOf(lines, once[2])
      refused == Refused(<<Bounds(arg)>> \o FlattenSeq(g) \o <<across, once>>)
  IN IF refused # <<>> THEN refused[1]
     ELSE IF Undecided(lines) THEN Unsupported
     ELSE IF kept = <<>> THEN Calc
     ELSE Arr(IF across[2] THEN Subgrid(g, All(Height(g)), kept) ELSE Subgrid(g, kept, All(Width(g))))

-----------------------------------------------------------------------------
(* SORT, SORTBY.                                                             *)

(* The cells that compare cannot rank. *)
Precheck(line) ==
  Refused([i \in DOMAIN line |-> IF IsNonAscii(line[i]) THEN Unsupported ELSE line[i]])

SortOrder(arg) ==
  LET n == ToNumber(arg)
  IN IF IsOmitted(arg) THEN Num(1) ELSE IF IsErr(n) \/ n[2] \in {-1, 1} THEN n ELSE BadValue

\* Fault: the last key decides first.
Before_LastKey(keysOf, a, b) ==
  LET order(k) == Compare(keysOf[k].line[a], keysOf[k].line[b])[2] * keysOf[k].way
      differ == {k \in DOMAIN keysOf : order(k) # 0}
  IN differ # {} /\ order(Max(differ)) = -1

(* The first key in which two positions differ decides. *)
Before(keysOf, a, b) ==
  LET order(k) == Compare(keysOf[k].line[a], keysOf[k].line[b])[2] * keysOf[k].way
      differ == {k \in DOMAIN keysOf : order(k) # 0}
  IN differ # {} /\ order(Min(differ)) = -1

(* sort_by, on up to twenty elements: each is moved before those it precedes *)
(* at the end of what is sorted.                                             *)
SortedPositions(keysOf, n) ==
  LET insert(sorted, i) ==
        LET passes == {j \in 1..Len(sorted) : \A k \in j..Len(sorted) : Before(keysOf, i, sorted[k])}
        IN InsertAt(sorted, Len(sorted) - Cardinality(passes) + 1, i)
      sortedTo[i \in 0..n] == IF i = 0 THEN <<>> ELSE insert(sortedTo[i - 1], i)
  IN sortedTo[n]

Sort(arg, index, order, byCol) ==
  LET g == Grid(arg)
      across == ToBool(Omittable(byCol, Blank))
      lines == IF across[2] THEN g ELSE Columns(g)
      asked == ToNumber(Omittable(index, Num(1)))
      which == IF IsErr(asked) \/ asked[2] \in DOMAIN lines THEN asked ELSE Unsupported
      early == Refused(<<Bounds(arg), across>>)
      refused == Refused(<<which, SortOrder(order)>>)
      line == lines[which[2]]
      positions == SortedPositions(<<[line |-> line, way |-> SortOrder(order)[2]]>>, Len(line))
  IN IF early # <<>> THEN early[1]
     ELSE IF refused # <<>> THEN refused[1]
     ELSE IF Precheck(line) # <<>> THEN Precheck(line)[1]
     ELSE Arr(IF across[2] THEN Subgrid(g, All(Height(g)), positions) ELSE Subgrid(g, positions, All(Width(g))))

(* `by` is a sequence of pairs of a line and its order. *)
SortBy(arg, by) ==
  LET g == Grid(arg)
      first == Grid(by[1].by)
      down == Width(first) = 1
      size == IF down THEN Height(first) ELSE Width(first)
      fits(a) == IF down THEN Width(a) = 1 /\ Height(a) = size ELSE Height(a) = 1 /\ Width(a) = size
      lineOf(a) == IF down THEN Column(a, 1) ELSE a[1]
      read == Refused(<<Bounds(arg)>>
                      \o FlattenSeq([i \in DOMAIN by |->
                           <<IF IsOmitted(by[i].by) THEN BadValue ELSE Bounds(by[i].by), SortOrder(by[i].order)>>]))
      keysOf == [i \in DOMAIN by |-> [line |-> lineOf(Grid(by[i].by)), way |-> SortOrder(by[i].order)[2]]]
      unranked == FlattenSeq([i \in DOMAIN by |-> Precheck(keysOf[i].line)])
      positions == SortedPositions(keysOf, size)
  IN IF read # <<>> THEN read[1]
     ELSE IF \/ Width(first) > 1 /\ Height(first) > 1
             \/ size # (IF down THEN Height(g) ELSE Width(g))
             \/ \E i \in DOMAIN by : ~fits(Grid(by[i].by)) THEN BadValue
     ELSE IF unranked # <<>> THEN unranked[1]
     ELSE Arr(IF down THEN Subgrid(g, positions, All(Width(g))) ELSE Subgrid(g, All(Height(g)), positions))

-----------------------------------------------------------------------------
(* INDEX, XMATCH, XLOOKUP.                                                   *)

(* A whole line stands for its grid up to LastCell; a cell is read there at  *)
(* its absolute position.                                                    *)
WholeGrid(arg) ==
  LET lines == [i \in DOMAIN arg[2] |-> [p \in 1..(LastCell + 1) |-> Read(arg[2][i], p - 1)]]
  IN IF arg[3] THEN lines ELSE Columns(lines)

(* Without a column number, the row number is a position along the only row  *)
(* or column there is.                                                       *)
IndexPosition(g, row, col) ==
  LET r == ToNumber(row)  c == ToNumber(col)
  IN IF IsErr(r) THEN r
     ELSE IF col # Absent THEN (IF IsErr(c) THEN c ELSE <<"at", r[2], c[2]>>)
     ELSE IF Width(g) = 1 THEN <<"at", r[2], 1>>
     ELSE IF Height(g) = 1 THEN <<"at", 1, r[2]>>
     ELSE Unsupported

(* A zero asks for the whole row or column, which is not served of a whole   *)
(* line.                                                                     *)
Index(arg, row, col) ==
  LET g == IF IsWhole(arg) THEN WholeGrid(arg) ELSE Grid(arg)
      at == IndexPosition(g, row, col)
      r == at[2]  c == at[3]
      rows == IF r = 0 THEN All(Height(g)) ELSE <<r>>
      cols == IF c = 0 THEN All(Width(g)) ELSE <<c>>
  IN IF IsErr(at) THEN at
     ELSE IF r < 0 \/ c < 0 \/ (r = 0 /\ c = 0) THEN Unsupported
     ELSE IF IsWhole(arg) /\ 0 \in {r, c} THEN Unsupported
     ELSE IF r > Height(g) \/ c > Width(g) THEN Err("REF")
     ELSE IF 0 \in {r, c} THEN Arr(Subgrid(g, rows, cols)) ELSE g[r][c]

(* <<"modes", match mode, search mode>>: wildcards and bisection are refused.*)
ResolveModes(matchMode, searchMode) ==
  LET match == ToNumber(Omittable(matchMode, Num(0)))
      search == ToNumber(Omittable(searchMode, Num(1)))
      refused == Refused(<<match, search>>)
  IN IF refused # <<>> THEN refused[1]
     ELSE IF match[2] \notin {-1, 0, 1} \/ search[2] \notin {-1, 1} THEN Unsupported
     ELSE <<"modes", match[2], search[2]>>

(* A line of cells from an array of one row or one column. *)
Flatten1d(arg) ==
  LET g == Grid(arg)
  IN IF IsErr(Bounds(arg)) \/ (Height(g) > 1 /\ Width(g) > 1) THEN Unsupported
     ELSE Axis(IF Width(g) = 1 THEN Column(g, 1) ELSE g[1])

\* Fault: what a backward scan finds is counted from the end.
ScanLine_FromEnd(line, key, way) ==
  IF way = 1 THEN ExactScan(line, key) ELSE ExactScan(Reverse(line), key)

(* A pattern is a literal here. *)
ScanLine(line, key, way) ==
  LET found == ExactScan(IF way = 1 THEN line ELSE Reverse(line), key)
  IN IF found[1] = "row" /\ way = -1 THEN Row(Len(line) - found[2] + 1) ELSE found

(* A neighbour of the key is not served. *)
NoExactMatch(modes, instead) == IF modes[2] = 0 THEN instead ELSE Unsupported

XMatch(key, arg, matchMode, searchMode) ==
  LET modes == ResolveModes(matchMode, searchMode)
      line == Flatten1d(arg)
      refused == Refused(<<key, modes, line>>)
      found == ScanLine(line[2], key, modes[3])
  IN IF refused # <<>> THEN refused[1]
     ELSE IF found = Nothing THEN NoExactMatch(modes, NotFound)
     ELSE Answer(found, Num)

(* The row of `results` beside the cell found in a column, or the column     *)
(* below the cell found in a row.                                            *)
XLookup(key, arg, returned, ifNotFound, matchMode, searchMode) ==
  LET modes == ResolveModes(matchMode, searchMode)
      line == Flatten1d(arg)
      g == Grid(returned)
      down == Width(Grid(arg)) = 1
      aligned == (IF down THEN Height(g) ELSE Width(g)) = Len(line[2])
      refused == Refused(<<key, modes, line, Bounds(returned)>>)
      found == ScanLine(line[2], key, modes[3])
      instead == CASE ifNotFound = Absent -> NotFound [] ifNotFound = Elided -> Unsupported
                   [] OTHER -> ifNotFound
      extract(i) ==
        LET cells == IF down THEN <<g[i]>> ELSE Subgrid(g, All(Height(g)), <<i>>)
        IN IF (IF down THEN Width(g) ELSE Height(g)) = 1 THEN cells[1][1] ELSE Arr(cells)
  IN IF refused # <<>> THEN refused[1]
     ELSE IF ~aligned THEN Unsupported
     ELSE IF found = Nothing THEN NoExactMatch(modes, instead)
     ELSE Answer(found, extract)

-----------------------------------------------------------------------------
(* What the functions promise one another.                                   *)

Cells(line, n) == [i \in 1..n |-> Read(line, i - 1)]
Down(line, n) == Arr([i \in 1..n |-> <<Read(line, i - 1)>>])
Across(line, n) == Arr(<<Cells(line, n)>>)
Table(n) == [i \in 1..n |-> <<Read(keys, i - 1), Read(results, i - 1)>>]

IndexOfMatch(arg, at) == IF IsErr(at) THEN at ELSE Index(arg, at, Absent)
OneAnswer(answers) == Cardinality(answers) <= 1

(* `last` is a cell that the key equals, none after `at`, and `row` stands   *)
(* beside it.                                                                *)
LastFound(k, n, at, last, row) ==
  last[1] = "num" => /\ ExactEq(Read(keys, last[2] - 1), k) = <<"match">>
                     /\ at[1] = "num" => at[2] <= last[2]
                     /\ row = Index(Arr(Table(n)), last, Num(0))

(* A lookup written as INDEX of MATCH, as VLOOKUP, as HLOOKUP or as XLOOKUP  *)
(* is four searches of their own: over the same cells they find the same     *)
(* one, or refuse, in columns and in rows, bounded and whole, and an error   *)
(* or a refusal of one exact scan is that of the others. XMATCH from the end *)
(* finds the last cell that MATCH could have found, and XLOOKUP its row.     *)
(* (func_index.rs, func_match.rs, func_vlookup.rs, func_hlookup.rs,          *)
(* func_xmatch.rs, func_xlookup.rs, dynarray.rs exact_scan)                  *)
LookupsAgree ==
  \A k \in {k \in Keys : ~HasWildcard(k)} :
    /\ \A n \in {1, LastCell} :
         \A at \in {Match(k, 0, n, FALSE)} :
           LET lines == {<<Down(keys, n), Down(results, n)>>, <<Across(keys, n), Across(results, n)>>}
               indexed == {IndexOfMatch(l[2], at) : l \in lines}
               looked == {XLookup(k, l[1], l[2], Absent, Absent, Absent) : l \in lines}
           IN /\ OneAnswer(indexed \union looked)
              /\ OneAnswer((indexed \union {VLookup(k, TRUE, 2, n), HLookup(k, TRUE, 2, n)}) \ {Unsupported})
              /\ \A l \in lines : XMatch(k, l[1], Elided, Absent) = at
              /\ LastFound(k, n, at, XMatch(k, Down(keys, n), Elided, Num(-1)),
                           XLookup(k, Down(keys, n), Arr(Table(n)), Elided, Elided, Num(-1)))
    /\ \A onRow \in BOOLEAN :
         \A indexed \in {IndexOfMatch(WholeLines(<<results>>, onRow), Match(k, 0, Whole, onRow))} :
           /\ keys # <<>> => Agree(indexed, VLookup(k, TRUE, 2, Whole))
           /\ Agree(indexed, HLookup(k, TRUE, 2, Whole))

Transposed(v) == IF v[1] = "array" THEN Arr(Columns(v[2])) ELSE v
SameOrErrors(a, b) == a = b \/ (IsErr(a) /\ IsErr(b))
Rows(v) == Range(v[2])

(* compare ranks the cells of a line, and transitively. *)
Ranked(line) ==
  LET below(x, y) == Compare(x, y) \in {<<"ord", -1>>, <<"ord", 0>>}
      cells == Range(line)
  IN /\ \A x \in cells : ~IsErr(x) /\ ~IsNonAscii(x)
     /\ \A x, y, z \in cells : below(x, y) /\ below(y, z) => below(x, z)

(* No array that a function builds is larger than the cap. *)
Capped(v) == IsErr(v) \/ ~OverCap(Height(v[2]), Width(v[2]))

(* A table is cut and put together again: TAKE and DROP from either end,     *)
(* CHOOSECOLS, FILTER by a SEQUENCE that is zero at one row, TOROW and TOCOL *)
(* with WRAPROWS and WRAPCOLS, and EXPAND with TAKE all give back the table  *)
(* they took apart, whatever stands in its cells, errors and blanks          *)
(* included; and what two tables together would build past the cap is        *)
(* refused.                                                                  *)
(* (func_take.rs, func_drop.rs, arrayshape.rs and the files of the others)   *)
PiecesRejoin ==
  \A n \in {LastCell - 1, LastCell} :
    LET g == Table(n)
        a == Arr(g)
        backwards == [i \in 1..n |-> Num(-i)]
        line == ToRow(a, Absent, Absent)
        tall == ToCol(a, Elided, Truth(TRUE))
        grown == Expand(a, Num(n + 1), Absent, Blank)
    IN /\ \A i \in 1..(n - 1) :
            LET top == Take(a, Num(i), Absent)
                rest == Drop(a, Num(i), Absent)
                flags == Sequence(Num(n), Absent, Num(1 - i), Num(1))
            IN /\ VStack(<<top, rest>>) = a
               /\ VStack(<<Drop(a, Num(i - n), Elided), Take(a, Num(i - n), Num(2))>>) = a
               /\ Filter(a, flags, Absent)
                    = (IF i = 1 THEN rest ELSE VStack(<<Take(a, Num(i - 1), Absent), rest>>))
               /\ Drop(ChooseRows(a, backwards), Num(-i), Absent) = ChooseRows(rest, SubSeq(backwards, 1, n - i))
       /\ HStack(<<ChooseCols(a, <<Num(-2)>>), Take(a, Num(n), Num(-1))>>) = a
       /\ ChooseRows(ChooseRows(a, backwards), backwards) = a
       /\ WrapRows(line, Num(2), Absent) = a
       /\ WrapCols(tall, Num(n), Elided) = a
       /\ ~IsErr(grown) => Take(grown, Num(n), Num(2)) = a /\ Take(grown, Num(-1), Absent) = Arr(<<<<Blank, Blank>>>>)
       /\ \A v \in {grown, VStack(<<a, a>>), HStack(<<a, a>>), VStack(<<a, Num(1)>>),
                     ChooseRows(a, backwards \o <<Num(1)>>)} : Capped(v)

(* Where the stable sort by the first column puts row i: after the rows that *)
(* come before it, and after those above it that tie.                        *)
Place(g, i, way) ==
  LET order(j) == Compare(g[j][1], g[i][1])[2] * way
  IN Cardinality({j \in DOMAIN g : order(j) = -1 \/ (order(j) = 0 /\ j <= i)})

(* SORT, SORTBY, UNIQUE and FILTER over the same table: where compare is     *)
(* transitive SORT is the stable sort, up and down, and sorting by the       *)
(* second key and then by the first is SORTBY with both; UNIQUE keeps one of *)
(* each row, sorted or not, and, asked for the rows that occur once, none    *)
(* that has a copy; and each function does by column what it does by row.    *)
(* And pieces rejoin.                                                        *)
(* (func_sort.rs, func_sortby.rs, func_unique.rs, func_filter.rs)            *)
ArraysCompose ==
  PiecesRejoin /\ \A n \in {LastCell - 1, LastCell} :
    LET g == Table(n)
        a == Arr(g)
        first == Down(keys, n)
        second == Down(results, n)
        sort(way) == Sort(a, Num(1), Num(way), Absent)
        copies(row) == Cardinality({i \in 1..n : g[i] = row})
        inSteps == Sort(Sort(a, Num(2), Num(-1), Absent), Num(1), Elided, Absent)
        byBoth == SortBy(a, <<[by |-> first, order |-> Num(1)], [by |-> second, order |-> Num(-1)]>>)
        unique == Unique(a, Absent, Absent)
        once == Unique(a, Elided, Truth(TRUE))
        flat == Transposed(a)
    IN /\ \A way \in {1, -1} :
            IsErr(sort(way)) \/ ~Ranked(Column(g, 1)) \/ \A i \in 1..n : sort(way)[2][Place(g, i, way)] = g[i]
       /\ Ranked(Column(g, 1)) /\ Ranked(Column(g, 2)) => IsErr(byBoth) \/ byBoth = inSteps
       /\ ~IsErr(unique) => /\ Rows(unique) = Range(g) /\ Height(unique[2]) = Cardinality(Range(g))
                            /\ ~IsErr(sort(1)) => Rows(Unique(sort(1), Absent, Absent)) = Rows(unique)
       /\ ~IsErr(once) => Rows(once) = {row \in Range(g) : copies(row) = 1}
       /\ SameOrErrors(Transposed(sort(1)), Sort(flat, Absent, Absent, Truth(TRUE)))
       /\ SameOrErrors(Transposed(unique), Unique(flat, Truth(TRUE), Absent))
       /\ SameOrErrors(Transposed(Filter(a, first, Num(0))), Filter(flat, Transposed(first), Num(0)))

(* A claim of the documentation that does not hold: SORT follows "compare's  *)
(* frozen total order" (dynarray.rs:133, func_sort.rs:22, func_sortby.rs:35).*)
(* A blank is equal to 0 and to the empty text, which are not equal to one   *)
(* another: the sorted cells need not be in order.                           *)
SortIsOrdered ==
  LET sorted == Sort(Down(keys, LastCell), Absent, Absent, Absent)
  IN ~IsErr(sorted) =>
       \A i, j \in 1..LastCell : i < j => Compare(sorted[2][i][1], sorted[2][j][1])[2] # 1

=============================================================================
