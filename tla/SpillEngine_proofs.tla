-------------------------- MODULE SpillEngine_proofs --------------------------
(***************************************************************************)
(* Proofs about SpillEngine: its variables keep their types, the two spill *)
(* maps describe one partition of the cells (OwnershipExact), no array     *)
(* writes over a literal (LiteralsSafe), and between calls every formula   *)
(* is right or refused (FreshOrRefused), for every sheet, workbook, plan   *)
(* and cap.                                                                *)
(*                                                                         *)
(* A step of a plan writes one formula, or several of a circular group,    *)
(* and each write keeps Sound, which relates the spill maps, the programs, *)
(* the values and the literals.  An edit takes a cell out of a region; the *)
(* anchor it loses has to run before the call returns, so Pending says     *)
(* that while a plan runs every anchor that lacks a cell of its region is  *)
(* among the steps to come.                                                *)
(*                                                                         *)
(* A formula is right when it shows its result or its refusal (Right).  A  *)
(* write leaves every other formula's slot and region alone and collects   *)
(* each cell it changes there (Wrote); so a formula that has run stays     *)
(* right unless it reads a cell collected, and then it is downstream of    *)
(* the next pass (Fresh).                                                  *)
(***************************************************************************)
EXTENDS SpillEngine, FiniteSetTheorems, SequenceTheorems,
        WellFoundedInduction, TLAPS

\* The anchors of an engine, and those whose region is not wholly theirs.
AnchorsOf(e) == {a \in Cell : e.spills[a] # {}}
Lost(e) == {a \in Cell : \E x \in e.spills[a] : e.owner[x] # a}

\* The spill maps of an engine agree, with its programs and its flags.
Mapped(e) ==
  /\ \A x \in Cell : e.owner[x] # NoOwner => x \in e.spills[e.owner[x]]
  /\ \A a \in AnchorsOf(e) : a \in Formulas(e) /\ e.owner[a] = a
  /\ \A x \in Formulas(e) : e.owner[x] \in {x, NoOwner}
  /\ e.dynamic = AnchorsOf(e)
  /\ AnchorsOf(e) \cap e.refused = {}

\* What a cell that is no formula and in no region holds.
Accounted(e, t) ==
  \A c \in Cell \ Formulas(e) :
    e.owner[c] = NoOwner /\ t[c] \in {Absent, Blank} => e.values[c] \in {Absent, Blank}

\* The literals are in cells that are no formula, in no region, and in place.
LiteralsKept(e, t) ==
  \A c \in Cell : t[c] \notin {Absent, Blank} =>
    c \notin Formulas(e) /\ e.owner[c] = NoOwner /\ e.values[c] = t[c]

Sound(e, t) == e \in Engine /\ Mapped(e) /\ Accounted(e, t) /\ LiteralsKept(e, t)

\* The steps to come hold formulas, and every anchor that lost a cell.
Pending ==
  /\ plan \in Seq((SUBSET Formulas(engine)) \ {{}})
  /\ pc = "run" => Lost(engine) \subseteq UNION ToSet(plan)
  /\ pc # "run" => Lost(engine) = {}

\* After a first pass only formulas are among the anchors still changing.
Changing == iters > 0 => engine.unstable \subseteq Formulas(engine)

\* The inductive invariant.
Inv ==
  /\ typed \in [Cell -> Value]
  /\ pc \in {"loaded", "idle", "run"}
  /\ iters \in 0 .. Cap
  /\ call \in {"load", "recalc", "again", "edit", "reload", "rebuild"}
  /\ before \in [Cell -> Value] \cup {NoSnapshot}
  /\ Sound(engine, typed)
  /\ Pending
  /\ Changing

-----------------------------------------------------------------------------
(* Facts about finite sets and recursions over them. *)

\* A nonempty set of natural numbers has a least element.
LEMMA LeastNatural ==
  ASSUME NEW T, T \subseteq Nat, T # {}
  PROVE  \E m \in T : \A n \in T : m <= n
<1> DEFINE R == OpToRel(<, Nat)
<1>1. IsWellFoundedOn(R, Nat)
  BY NatLessThanWellFounded
<1>2. PICK m \in T : \A n \in T : ~ (<<n, m>> \in R)
  <2> HIDE DEF R
  <2> QED BY <1>1, WFMin
<1>3. \A n \in T : <<n, m>> \in Nat \X Nat /\ <<n, m>> \notin {ss \in Nat \X Nat : ss[1] < ss[2]}
  BY <1>2 DEF OpToRel
<1>4. \A n \in T : n \in Nat /\ m \in Nat /\ ~(n < m)
  BY <1>3
<1>5. \A n \in T : m <= n
  BY <1>4
<1> QED BY <1>5

\* The element a fold takes out of a set.
Pick(s) == CHOOSE x \in s : TRUE

\* What holds of the empty set, and of a set whenever it holds without the
\* element picked, holds of every subset of a finite set.
LEMMA SetInduction ==
  ASSUME NEW S, IsFiniteSet(S), NEW T, {} \in T,
         \A s \in SUBSET S : s # {} /\ s \ {Pick(s)} \in T => s \in T
  PROVE  \A s \in SUBSET S : s \in T
<1> DEFINE Bad == {s \in SUBSET S : s \notin T}
           Sizes == {Cardinality(s) : s \in Bad}
<1>0. SUFFICES ASSUME Bad # {} PROVE FALSE
  OBVIOUS
<1>1. \A s \in SUBSET S : IsFiniteSet(s) /\ Cardinality(s) \in Nat
  BY FS_Subset, FS_CardinalityType
<1>2. Sizes \subseteq Nat /\ Sizes # {}
  BY <1>0, <1>1
<1>3. PICK m \in Sizes : \A n \in Sizes : m <= n
  <2> HIDE DEF Sizes
  <2> QED BY <1>2, LeastNatural
<1>4. PICK s \in Bad : m = Cardinality(s)
  BY <1>3
<1>5. s # {} /\ Pick(s) \in s
  BY <1>4 DEF Pick
<1> DEFINE u == s \ {Pick(s)}
<1>6. Cardinality(u) = Cardinality(s) - 1
  BY <1>1, <1>4, <1>5, FS_RemoveElement
<1>7. u \in Bad
  BY <1>4, <1>5
<1>8. Cardinality(u) \in Sizes /\ Cardinality(s) \in Nat
  BY <1>1, <1>4, <1>7
<1> HIDE DEF u, Sizes
<1> QED BY <1>3, <1>4, <1>6, <1>8

\* A recursion that takes the picked element out of a set defines a function.
IsFold(g, S, base, f) ==
  g = [s \in SUBSET S |-> IF s = {} THEN base ELSE f[<<Pick(s), g[s \ {Pick(s)}]>>]]

LEMMA FoldExists ==
  ASSUME NEW S, IsFiniteSet(S), NEW base, NEW f
  PROVE  \E g : IsFold(g, S, base, f)
<1> DEFINE Small(n) == {s \in SUBSET S : Cardinality(s) <= n}
           Body(g, s) == IF s = {} THEN base ELSE f[<<Pick(s), g[s \ {Pick(s)}]>>]
           Folds(g, n) == g = [s \in Small(n) |-> Body(g, s)]
           Bad == {n \in Nat : ~ \E g : Folds(g, n)}
<1>1. \A s \in SUBSET S : IsFiniteSet(s) /\ Cardinality(s) \in Nat /\ Cardinality(s) <= Cardinality(S)
  BY FS_Subset, FS_CardinalityType
<1>2. \A s \in SUBSET S : s # {} =>
        s \ {Pick(s)} \in SUBSET S /\ Cardinality(s \ {Pick(s)}) = Cardinality(s) - 1
  BY <1>1, FS_RemoveElement DEF Pick
<1>3. \A s \in SUBSET S : Cardinality(s) <= 0 => s = {}
  BY <1>1, FS_EmptySet
<1>4. Bad = {}
  <2> SUFFICES ASSUME Bad # {} PROVE FALSE
    OBVIOUS
  <2>1. PICK n \in Bad : \A k \in Bad : n <= k
    <3>1. Bad \subseteq Nat
      OBVIOUS
    <3> HIDE DEF Bad
    <3> QED BY <3>1, LeastNatural
  <2>2. n \in Nat /\ ~ \E g : Folds(g, n)
    BY <2>1
  <2>3. CASE n = 0
    <3> DEFINE g == [s \in Small(0) |-> base]
    <3>1. \A s \in Small(0) : Body(g, s) = base
      <4> HIDE DEF g
      <4> QED BY <1>3
    <3>2. Folds(g, 0)
      <4>1. g = [s \in Small(0) |-> base]
        OBVIOUS
      <4> HIDE DEF g, Body, Small
      <4> QED BY <3>1, <4>1
    <3> HIDE DEF Folds, g
    <3> QED BY <2>2, <2>3, <3>2
  <2>4. CASE n # 0
    <3>1. n - 1 \in Nat /\ ~ (n <= n - 1)
      BY <2>2, <2>4
    <3>2. PICK g : Folds(g, n - 1)
      <4>1. n - 1 \notin Bad
        <5> HIDE DEF Bad
        <5> QED BY <2>1, <3>1
      <4> HIDE DEF Folds
      <4> QED BY <3>1, <4>1
    <3> DEFINE h == [s \in Small(n) |-> Body(g, s)]
    <3>3. \A s \in Small(n - 1) : s \in Small(n)
      BY <1>1, <3>1
    <3>4. \A s \in Small(n - 1) : h[s] = g[s]
      <4>1. g = [s \in Small(n - 1) |-> Body(g, s)]
        BY <3>2
      <4> HIDE DEF Body, Small
      <4> QED BY <3>3, <4>1
    <3>5. \A s \in Small(n) : Body(h, s) = Body(g, s)
      <4> SUFFICES ASSUME NEW s \in Small(n), s # {} PROVE Body(h, s) = Body(g, s)
        OBVIOUS
      <4>1. s \ {Pick(s)} \in Small(n - 1)
        BY <1>1, <1>2, <2>2
      <4>2. h[s \ {Pick(s)}] = g[s \ {Pick(s)}]
        <5> HIDE DEF h, Small
        <5> QED BY <3>4, <4>1
      <4> HIDE DEF h
      <4> QED BY <4>2
    <3>6. Folds(h, n)
      <4>1. h = [s \in Small(n) |-> Body(g, s)]
        OBVIOUS
      <4> HIDE DEF h, Body, Small
      <4> QED BY <3>5, <4>1
    <3> HIDE DEF Folds, h
    <3> QED BY <2>2, <3>6
  <2> QED BY <2>3, <2>4
<1>5. PICK g : Folds(g, Cardinality(S))
  <2>1. Cardinality(S) \in Nat
    BY FS_CardinalityType
  <2>2. Cardinality(S) \notin Bad
    <3> HIDE DEF Bad
    <3> QED BY <1>4
  <2> HIDE DEF Folds
  <2> QED BY <2>1, <2>2
<1>6. Small(Cardinality(S)) = SUBSET S
  BY <1>1
<1> QED BY <1>5, <1>6 DEF IsFold

-----------------------------------------------------------------------------
(* The sheet. *)

LEMMA DivisionFacts ==
  ASSUME NEW a \in Nat, NEW w \in Nat \ {0}
  PROVE  a \div w \in Nat /\ a % w \in 0 .. w - 1 /\ a = w * (a \div w) + (a % w)
OBVIOUS

LEMMA ProductFacts ==
  ASSUME NEW w \in Nat \ {0}, NEW p \in Nat, NEW q \in Nat
  PROVE  w * p \in Nat /\ (p < q => w * p + w <= w * q) /\ w * (p + q) = w * p + w * q
OBVIOUS

LEMMA DivisionUnique ==
  ASSUME NEW w \in Nat \ {0}, NEW q \in Nat, NEW s \in 0 .. w - 1
  PROVE  (w * q + s) \div w = q /\ (w * q + s) % w = s
<1> DEFINE a == w * q + s
           p == a \div w
           t == a % w
<1>1. a \in Nat /\ w * q \in Nat
  BY ProductFacts
<1>2. p \in Nat /\ t \in 0 .. w - 1 /\ w * q + s = w * p + t
  BY <1>1, DivisionFacts
<1>3. w * p \in Nat /\ w * q \in Nat /\ (p < q => w * p + w <= w * q) /\ (q < p => w * q + w <= w * p)
  BY <1>2, ProductFacts
<1> HIDE DEF p, t
<1>4. p = q
  BY <1>2, <1>3
<1>5. t = s
  BY <1>2, <1>3, <1>4
<1> QED BY <1>4, <1>5 DEF p, t

\* Row and column give the cell, and a cell of the sheet to every row and column.
LEMMA GridFacts ==
  /\ \A a \in Cell : /\ RowOf(a) \in 0 .. Height - 1 /\ ColOf(a) \in 0 .. Width - 1
                     /\ a = RowOf(a) * Width + ColOf(a)
  /\ \A r \in 0 .. Height - 1, k \in 0 .. Width - 1 :
       /\ r * Width + k \in Cell
       /\ RowOf(r * Width + k) = r /\ ColOf(r * Width + k) = k
<1>1. ASSUME NEW a \in Cell
      PROVE  /\ RowOf(a) \in 0 .. Height - 1 /\ ColOf(a) \in 0 .. Width - 1
             /\ a = RowOf(a) * Width + ColOf(a)
  <2> DEFINE p == a \div Width
             t == a % Width
  <2>1. Width * Height \in Nat /\ a \in Nat /\ a < Width * Height
    <3>1. Width * Height \in Nat
      BY SizeAssumption, ProductFacts
    <3> QED BY <3>1 DEF Cell
  <2>2. p \in Nat /\ t \in 0 .. Width - 1 /\ a = Width * p + t
    BY <2>1, SizeAssumption, DivisionFacts
  <2>3. Width * p \in Nat /\ (Height < p => Width * Height + Width <= Width * p)
    BY <2>2, SizeAssumption, ProductFacts
  <2>4. RowOf(a) = p /\ ColOf(a) = t
    BY DEF RowOf, ColOf
  <2> HIDE DEF p, t
  <2>5. p < Height
    BY <2>1, <2>2, <2>3, SizeAssumption
  <2>6. Width * p = p * Width
    BY <2>2, SizeAssumption
  <2>7. a = p * Width + t
    BY <2>2, <2>6
  <2>8. p \in 0 .. Height - 1
    BY <2>2, <2>5, SizeAssumption
  <2> QED BY <2>2, <2>4, <2>7, <2>8
<1>2. ASSUME NEW r \in 0 .. Height - 1, NEW k \in 0 .. Width - 1
      PROVE  /\ r * Width + k \in Cell
             /\ RowOf(r * Width + k) = r /\ ColOf(r * Width + k) = k
  <2>1. r \in Nat /\ Width * r \in Nat /\ Width * r + Width <= Width * Height
    BY SizeAssumption, ProductFacts
  <2>2. r * Width = Width * r
    BY <2>1, SizeAssumption
  <2>3. Width * Height \in Nat
    BY SizeAssumption, ProductFacts
  <2>4. Width * r + k \in Cell
    BY <2>1, <2>3, SizeAssumption DEF Cell
  <2>5. (Width * r + k) \div Width = r /\ (Width * r + k) % Width = k
    BY <2>1, SizeAssumption, DivisionUnique
  <2> QED BY <2>2, <2>4, <2>5 DEF RowOf, ColOf
<1> QED BY <1>1, <1>2

LEMMA CellFacts == IsFiniteSet(Cell) /\ Cardinality(Cell) = Width * Height /\ Width * Height \in Nat
<1>1. Width * Height \in Nat /\ Width * Height > 0
  <2>1. Width \in Nat /\ Height \in Nat /\ Width > 0 /\ Height > 0
    BY SizeAssumption
  <2> QED BY <2>1
<1> DEFINE n == Width * Height
<1>2. n \in Nat /\ n > 0 /\ Cell = 0 .. n - 1
  BY <1>1 DEF Cell
<1> HIDE DEF n
<1>3. IsFiniteSet(0 .. n - 1) /\ Cardinality(0 .. n - 1) = n
  <2>1. 0 \in Int /\ n - 1 \in Int /\ ~ (0 > n - 1) /\ (n - 1) - 0 + 1 = n
    BY <1>2
  <2> QED BY <2>1, FS_Interval
<1> QED BY <1>1, <1>2, <1>3 DEF n
-----------------------------------------------------------------------------
(* What a formula evaluates to. *)

IsScalar(r) == r.kind = "scalar" /\ r.value \in Value
IsArray(r) ==
  /\ r.kind = "array"
  /\ r.h \in Nat \ {0} /\ r.w \in Nat \ {0}
  /\ r.at \in [(0 .. r.h - 1) \X (0 .. r.w - 1) -> Value]

LEMMA EngineFacts ==
  ASSUME NEW e \in Engine
  PROVE  /\ e.programs \in Programs /\ e.programs \in [Cell -> Program]
         /\ e.values \in [Cell -> Value] /\ e.spills \in [Cell -> SUBSET Cell]
         /\ e.owner \in [Cell -> Cell \cup {NoOwner}]
         /\ e.dynamic \subseteq Cell /\ e.redirty \subseteq Cell
         /\ e.unstable \subseteq Cell /\ e.refused \subseteq Cell
         /\ e.diags \in [Cell -> SUBSET (Refusal \cup {"Unparsed"})]
         /\ Formulas(e) \subseteq Cell
BY EditsAssumption DEF Engine, Formulas

LEMMA ProgramFacts ==
  ASSUME NEW e \in Engine, NEW c \in Formulas(e)
  PROVE  /\ c \in Cell
         /\ e.programs[c].src \subseteq Cell
         /\ e.programs[c].op \in {"ref", "count", "hash", "grow", "shrink", "row", "fill", "lambdas", "unparsed"}
         /\ e.programs[c].op \in {"ref", "hash", "fill"} => e.programs[c].src # {}
<1>1. c \in Cell /\ e.programs[c] \in Program /\ e.programs[c] # NoProgram
  BY EngineFacts DEF Formulas
<1> QED BY <1>1 DEF Program, Op

LEMMA NumbersFacts ==
  ASSUME NEW e \in Engine, NEW S \in SUBSET Cell
  PROVE  Numbers(e, S) \in 0 .. Width * Height
<1> DEFINE T == {x \in S : e.values[x] \in Nat}
<1>1. T \in SUBSET Cell
  OBVIOUS
<1>2. IsFiniteSet(T) /\ Cardinality(T) <= Cardinality(Cell)
  BY <1>1, CellFacts, FS_Subset
<1>3. Cardinality(T) \in Nat
  BY <1>2, FS_CardinalityType
<1> HIDE DEF T
<1>4. Cardinality(T) \in 0 .. Width * Height
  BY <1>2, <1>3, CellFacts
<1> QED BY <1>4 DEF Numbers, T

LEMMA ReadCellFacts ==
  ASSUME NEW e \in Engine, NEW x \in Cell
  PROVE  ReadCell(e, x) \in Value
<1>1. e.values[x] \in Value
  BY EngineFacts
<1> QED BY <1>1 DEF ReadCell, Value

LEMMA ResultFacts ==
  ASSUME NEW e \in Engine, NEW c \in Formulas(e)
  PROVE  IsScalar(Result(e, c)) \/ Result(e, c).kind = "lambdas" \/ IsArray(Result(e, c))
<1> DEFINE p == e.programs[c]
           n == Numbers(e, p.src)
           x == CHOOSE y \in p.src : TRUE
<1>1. p.src \subseteq Cell
  BY ProgramFacts
<1>2. n \in 0 .. Width * Height /\ n \in Nat /\ n \in Value
  <2>1. n \in 0 .. Width * Height
    BY <1>1, NumbersFacts
  <2> HIDE DEF n
  <2> QED BY <2>1, CellFacts DEF Value
<1>3. 0 \in Value /\ Blank \in Value /\ UnsupportedError \in Value
  <2>1. 0 \in 0 .. Width * Height
    BY CellFacts
  <2> QED BY <2>1 DEF Value, Error
<1>4. p.op \in {"ref", "hash", "fill"} => x \in Cell
  BY <1>1, ProgramFacts
<1>5. 1 \in Value
  <2>1. Width * Height >= 1
    <3>1. Width \in Nat /\ Height \in Nat /\ Width > 0 /\ Height > 0
      BY SizeAssumption
    <3> QED BY <3>1
  <2>2. 1 \in 0 .. Width * Height
    BY <2>1, CellFacts
  <2> QED BY <2>2 DEF Value
<1> HIDE DEF n, x
<1>6. CASE p.op = "ref"
  <2>1. Result(e, c) = Scalar(ReadCell(e, x))
    BY <1>6 DEF Result, x
  <2> QED BY <1>4, <1>6, <2>1, ReadCellFacts DEF Scalar, IsScalar
<1>7. CASE p.op = "count"
  <2>1. Result(e, c) = Scalar(n)
    BY <1>7 DEF Result, n
  <2> QED BY <1>2, <2>1 DEF Scalar, IsScalar
<1>8. CASE p.op = "hash"
  <2>1. Result(e, c) = Scalar(Numbers(e, SpillRange(e, x)))
    BY <1>8 DEF Result, x
  <2>2. SpillRange(e, x) \in SUBSET Cell
    BY <1>4, <1>8, EngineFacts DEF SpillRange
  <2>3. Numbers(e, SpillRange(e, x)) \in Value
    BY <2>2, NumbersFacts DEF Value
  <2> QED BY <2>1, <2>3 DEF Scalar, IsScalar
<1>9. CASE p.op = "grow"
  <2>1. Result(e, c) = [kind |-> "array", h |-> n + 1, w |-> 1,
                        at |-> [d \in (0 .. (n + 1) - 1) \X (0 .. 1 - 1) |-> n]]
    BY <1>9 DEF Result, n, ArrayOf
  <2>2. n + 1 \in Nat \ {0} /\ 1 \in Nat \ {0}
    BY <1>2
  <2> QED BY <1>2, <2>1, <2>2 DEF IsArray
<1>10. CASE p.op = "shrink"
  <2> DEFINE h == IF n = 0 THEN 2 ELSE 1
  <2>1. Result(e, c) = [kind |-> "array", h |-> h, w |-> 1,
                        at |-> [d \in (0 .. h - 1) \X (0 .. 1 - 1) |-> 1]]
    BY <1>10 DEF Result, n, ArrayOf
  <2>2. h \in Nat \ {0} /\ 1 \in Nat \ {0}
    OBVIOUS
  <2> HIDE DEF h
  <2> QED BY <1>5, <2>1, <2>2 DEF IsArray
<1>11. CASE p.op = "row"
  <2>1. Result(e, c) = [kind |-> "array", h |-> 1, w |-> n + 1,
                        at |-> [d \in (0 .. 1 - 1) \X (0 .. (n + 1) - 1) |-> d[2]]]
    BY <1>11 DEF Result, n, ArrayOf
  <2>2. n + 1 \in Nat \ {0} /\ 1 \in Nat \ {0}
    BY <1>2
  <2>3. \A k \in 0 .. (n + 1) - 1 : k \in 0 .. Width * Height
    BY <1>2, CellFacts
  <2>4. \A d \in (0 .. 1 - 1) \X (0 .. (n + 1) - 1) : d[2] \in Value
    BY <2>3 DEF Value
  <2> QED BY <2>1, <2>2, <2>4 DEF IsArray
<1>12. CASE p.op = "fill"
  <2> DEFINE v(d) == IF d[1] = 0 THEN ReadCell(e, x) ELSE Blank
  <2>1. Result(e, c) = [kind |-> "array", h |-> 2, w |-> 1,
                        at |-> [d \in (0 .. 2 - 1) \X (0 .. 1 - 1) |-> v(d)]]
    BY <1>12 DEF Result, x, ArrayOf
  <2>2. \A d : v(d) \in Value
    BY <1>3, <1>4, <1>12, ReadCellFacts
  <2> HIDE DEF v
  <2> QED BY <2>1, <2>2 DEF IsArray
<1>13. CASE p.op = "lambdas"
  BY <1>13 DEF Result
<1>14. CASE p.op = "unparsed"
  <2>1. Result(e, c) = Scalar(UnsupportedError)
    BY <1>14 DEF Result
  <2> QED BY <1>3, <2>1 DEF Scalar, IsScalar
<1> QED BY <1>6, <1>7, <1>8, <1>9, <1>10, <1>11, <1>12, <1>13, <1>14, ProgramFacts
-----------------------------------------------------------------------------
(* Writing a result that keeps to its own slot. *)

LEMMA ValueFacts ==
  /\ Blank \in Value /\ Absent \in Value /\ 0 \in Value
  /\ SpillError \in Value /\ UnsupportedError \in Value /\ ValueError \in Value
<1>1. 0 \in 0 .. Width * Height
  BY CellFacts
<1> QED BY <1>1 DEF Value, Error

\* What a write to a's own slot leaves in every field.
AloneLeaves(e, a, v, f) ==
  LET mine == Reclaimed(e, a, e.spills[a])
  IN /\ f \in Engine
     /\ f.programs = e.programs /\ f.refused = e.refused /\ f.diags = e.diags
     /\ f.dynamic = e.dynamic \ {a} /\ f.unstable \subseteq e.unstable \cup {a}
     /\ f.redirty = e.redirty \cup Vacated(e, mine)
     /\ f.unstable = IF e.spills[a] = {} THEN e.unstable ELSE e.unstable \cup {a}
     /\ f.spills = [e.spills EXCEPT ![a] = {}]
     /\ e.spills[a] = {} => f.owner = e.owner
     /\ e.spills[a] # {} =>
          f.owner = [x \in Cell |-> IF x \in mine \cup {a} THEN NoOwner ELSE e.owner[x]]
     /\ f.values = [x \in Cell |-> IF x = a THEN v ELSE IF x \in mine THEN Blank ELSE e.values[x]]

LEMMA AloneFields ==
  ASSUME NEW e \in Engine, NEW a \in Cell, NEW v \in Value
  PROVE  AloneLeaves(e, a, v, WriteAlone(e, a, v))
<1> DEFINE f == WriteAlone(e, a, v)
           mine == Reclaimed(e, a, e.spills[a])
<1>1. /\ e.values \in [Cell -> Value] /\ e.spills \in [Cell -> SUBSET Cell]
      /\ e.owner \in [Cell -> Cell \cup {NoOwner}] /\ Blank \in Value
      /\ e.dynamic \subseteq Cell /\ e.redirty \subseteq Cell
      /\ e.unstable \subseteq Cell /\ e.refused \subseteq Cell
  BY EngineFacts, ValueFacts
<1>2. mine \subseteq Cell \ {a}
  BY <1>1 DEF Reclaimed
<1>3. CASE e.spills[a] = {}
  <2>1. f = [e EXCEPT !.dynamic = e.dynamic \ {a}, !.values = [e.values EXCEPT ![a] = v]]
    BY <1>3 DEF WriteAlone, Retract, Engine
  <2>2. mine = {} /\ Vacated(e, mine) = {}
    BY <1>3 DEF Reclaimed, Vacated
  <2>3. [e.values EXCEPT ![a] = v]
          = [x \in Cell |-> IF x = a THEN v ELSE IF x \in mine THEN Blank ELSE e.values[x]]
    BY <1>1, <2>2
  <2>4. e.spills = [e.spills EXCEPT ![a] = {}]
    BY <1>1, <1>3
  <2>5. [e.values EXCEPT ![a] = v] \in [Cell -> Value]
    BY <1>1
  <2> HIDE DEF f
  <2>6. f \in Engine
    BY <1>1, <2>1, <2>5 DEF Engine
  <2>7. AloneLeaves(e, a, v, f)
    BY <1>3, <2>1, <2>2, <2>3, <2>4, <2>6 DEF Engine, AloneLeaves
  <2> QED BY <2>7 DEF f
<1>4. CASE e.spills[a] # {}
  <2> DEFINE owner == [x \in Cell |-> IF x \in mine \cup {a} THEN NoOwner ELSE e.owner[x]]
             values == [Blanked(e, mine) EXCEPT ![a] = v]
             redirty == e.redirty \cup Vacated(e, mine)
             unstable == e.unstable \cup {a}
             spills == [e.spills EXCEPT ![a] = {}]
  <2>1. f = [e EXCEPT !.spills = spills, !.owner = owner, !.values = values,
                      !.redirty = redirty, !.unstable = unstable, !.dynamic = e.dynamic \ {a}]
    BY <1>4 DEF WriteAlone, Retract, Engine
  <2>2. values = [x \in Cell |-> IF x = a THEN v ELSE IF x \in mine THEN Blank ELSE e.values[x]]
    BY <1>1 DEF Blanked
  <2>3. /\ owner \in [Cell -> Cell \cup {NoOwner}] /\ values \in [Cell -> Value]
        /\ spills \in [Cell -> SUBSET Cell]
    BY <1>1, <2>2
  <2>4. redirty \subseteq Cell /\ unstable \subseteq Cell
    BY <1>1, <1>2 DEF Vacated
  <2> HIDE DEF f, owner, values, redirty, spills, unstable
  <2>5. f \in Engine
    BY <1>1, <2>1, <2>3, <2>4 DEF Engine
  <2>6. /\ f.programs = e.programs /\ f.refused = e.refused /\ f.diags = e.diags
        /\ f.dynamic = e.dynamic \ {a} /\ f.unstable = unstable /\ f.redirty = redirty
        /\ f.spills = spills /\ f.owner = owner /\ f.values = values
    BY <2>1 DEF Engine
  <2>7. AloneLeaves(e, a, v, f)
    BY <1>4, <2>2, <2>5, <2>6 DEF AloneLeaves, owner, spills, unstable, redirty
  <2> QED BY <2>7 DEF f
<1> QED BY <1>3, <1>4
\* The owners and values that remain, told by owner: a region is reclaimed.
LEMMA AloneByOwner ==
  ASSUME NEW e \in Engine, Mapped(e), NEW a \in Cell, NEW v, NEW f, AloneLeaves(e, a, v, f),
         a \in Formulas(e) \/ e.owner[a] \in {a, NoOwner}
  PROVE  /\ \A x \in Cell : f.owner[x] = IF e.owner[x] = a THEN NoOwner ELSE e.owner[x]
         /\ \A x \in Cell : f.values[x] =
              IF x = a THEN v ELSE IF e.owner[x] = a THEN Blank ELSE e.values[x]
<1>1. \A x \in Cell : e.owner[x] = a => x \in e.spills[a]
  BY NoOwnerAssumption DEF Mapped
<1>2. \A x \in Cell : x # a => (x \in Reclaimed(e, a, e.spills[a]) <=> e.owner[x] = a)
  BY <1>1 DEF Reclaimed
<1>3. a \notin Reclaimed(e, a, e.spills[a])
  BY DEF Reclaimed
<1>4. e.spills[a] # {} => e.owner[a] = a
  BY DEF Mapped, AnchorsOf
<1>5. \A x \in Cell : f.owner[x] = IF e.owner[x] = a THEN NoOwner ELSE e.owner[x]
  <2>1. CASE e.spills[a] = {}
    BY <1>1, <2>1 DEF AloneLeaves
  <2>2. CASE e.spills[a] # {}
    BY <1>2, <1>3, <1>4, <2>2 DEF AloneLeaves
  <2> QED BY <2>1, <2>2
<1>6. \A x \in Cell : f.values[x] =
        IF x = a THEN v ELSE IF e.owner[x] = a THEN Blank ELSE e.values[x]
  BY <1>2 DEF AloneLeaves
<1> QED BY <1>5, <1>6

\* What a write of the cells S leaves alone in every other cell; the cells
\* whose value it changes are collected, and lie in no other region.
Wrote(e, f, S) ==
  /\ f.programs = e.programs
  /\ e.redirty \subseteq f.redirty
  /\ \A x \in Cell \ S : f.spills[x] = e.spills[x] /\ f.diags[x] = e.diags[x]
  /\ \A x \in Formulas(e) \ S : f.values[x] = e.values[x]
  /\ \A x \in Cell \ S : f.values[x] # e.values[x] => x \in f.redirty
  /\ \A x \in Cell : e.owner[x] \in Cell \ S => f.owner[x] = e.owner[x] /\ f.values[x] = e.values[x]

\* Cells are collected only with an anchor that is still changing.
Announced(e, f) ==
  /\ f.refused = e.refused
  /\ e.unstable \subseteq f.unstable
  /\ f.redirty = e.redirty \/ f.unstable \ f.refused # {}

LEMMA AloneWrote ==
  ASSUME NEW e \in Engine, Mapped(e), NEW a \in Cell, NEW v \in Value,
         a \in Formulas(e) \/ e.owner[a] \in {a, NoOwner}
  PROVE  LET f == WriteAlone(e, a, v)
         IN /\ Wrote(e, f, {a}) /\ (a \notin AnchorsOf(e) \/ a \notin e.refused => Announced(e, f))
            /\ f.values[a] = v /\ f.spills[a] = {} /\ f.diags = e.diags
<1> DEFINE f == WriteAlone(e, a, v)
           mine == Reclaimed(e, a, e.spills[a])
<1>1. AloneLeaves(e, a, v, f)
  BY AloneFields
<1> HIDE DEF f
<1>2. /\ \A x \in Cell : f.owner[x] = IF e.owner[x] = a THEN NoOwner ELSE e.owner[x]
      /\ \A x \in Cell : f.values[x] =
           IF x = a THEN v ELSE IF e.owner[x] = a THEN Blank ELSE e.values[x]
  BY <1>1, AloneByOwner
<1>3. /\ f \in Engine /\ f.programs = e.programs /\ f.refused = e.refused /\ f.diags = e.diags
      /\ f.redirty = e.redirty \cup Vacated(e, mine)
      /\ f.unstable = IF e.spills[a] = {} THEN e.unstable ELSE e.unstable \cup {a}
      /\ f.spills = [e.spills EXCEPT ![a] = {}]
      /\ e.spills \in [Cell -> SUBSET Cell]
  BY <1>1, EngineFacts DEF AloneLeaves
<1>4. \A x \in Cell : e.owner[x] = a /\ x # a => x \in mine
  BY NoOwnerAssumption DEF Mapped, Reclaimed
<1>5. e.owner[a] \in {a, NoOwner} /\ \A x \in Formulas(e) : x \in Cell /\ e.owner[x] \in {x, NoOwner}
  BY EngineFacts DEF Mapped
<1>6. \A x \in Cell : x # a /\ f.values[x] # e.values[x] => x \in f.redirty
  BY <1>2, <1>3, <1>4 DEF Vacated
<1>7. Wrote(e, f, {a})
  <2>1. \A x \in Cell \ {a} : f.spills[x] = e.spills[x] /\ f.diags[x] = e.diags[x]
    BY <1>3
  <2>2. \A x \in Formulas(e) \ {a} : f.values[x] = e.values[x]
    BY <1>2, <1>5, NoOwnerAssumption
  <2>3. \A x \in Cell : e.owner[x] \in Cell \ {a} =>
          f.owner[x] = e.owner[x] /\ f.values[x] = e.values[x]
    BY <1>2, <1>5, NoOwnerAssumption
  <2> QED BY <1>3, <1>6, <2>1, <2>2, <2>3 DEF Wrote
<1>8. a \notin AnchorsOf(e) \/ a \notin e.refused => Announced(e, f)
  <2>1. e.spills[a] = {} => Vacated(e, mine) = {}
    BY DEF Reclaimed, Vacated
  <2> QED BY <1>3, <2>1 DEF Announced, AnchorsOf
<1> QED BY <1>2, <1>3, <1>7, <1>8 DEF f

\* A formula that writes its own slot keeps the maps in agreement and the
\* literals in place, and is no longer an anchor.
LEMMA AloneSound ==
  ASSUME NEW e, NEW t, Sound(e, t), NEW a \in Formulas(e), NEW v \in Value
  PROVE  LET f == WriteAlone(e, a, v)
         IN /\ Sound(f, t)
            /\ f.programs = e.programs /\ f.refused = e.refused
            /\ f.spills[a] = {} /\ Lost(f) \subseteq Lost(e) \ {a}
            /\ f.unstable \subseteq e.unstable \cup {a}
<1> DEFINE f == WriteAlone(e, a, v)
<1>1. /\ e \in Engine /\ a \in Cell /\ a \in Formulas(e)
      /\ Mapped(e) /\ Accounted(e, t) /\ LiteralsKept(e, t)
  BY ProgramFacts DEF Sound
<1>2. AloneLeaves(e, a, v, f)
  BY <1>1, AloneFields
<1> HIDE DEF f
<1>3. /\ \A x \in Cell : f.owner[x] = IF e.owner[x] = a THEN NoOwner ELSE e.owner[x]
      /\ \A x \in Cell : f.values[x] =
           IF x = a THEN v ELSE IF e.owner[x] = a THEN Blank ELSE e.values[x]
  BY <1>1, <1>2, AloneByOwner
<1>4. /\ f \in Engine /\ f.programs = e.programs /\ f.refused = e.refused
      /\ f.dynamic = e.dynamic \ {a} /\ f.unstable \subseteq e.unstable \cup {a}
      /\ f.spills = [e.spills EXCEPT ![a] = {}]
  BY <1>2 DEF AloneLeaves
<1>5. /\ f.spills[a] = {} /\ \A x \in Cell : x # a => f.spills[x] = e.spills[x]
      /\ Formulas(f) = Formulas(e)
      /\ \A x \in Cell : e.owner[x] \in Cell \cup {NoOwner}
  BY <1>1, <1>4, EngineFacts DEF Formulas
<1>6. AnchorsOf(f) = AnchorsOf(e) \ {a}
  BY <1>1, <1>5 DEF AnchorsOf
<1>7. Mapped(f)
  <2>1. \A x \in Cell : f.owner[x] # NoOwner => x \in f.spills[f.owner[x]]
    BY <1>1, <1>3, <1>5 DEF Mapped
  <2>2. \A b \in AnchorsOf(f) : b \in Formulas(f) /\ f.owner[b] = b
    BY <1>1, <1>3, <1>5, <1>6 DEF Mapped, AnchorsOf
  <2>3. \A x \in Formulas(f) : f.owner[x] \in {x, NoOwner}
    BY <1>1, <1>3, <1>5, EngineFacts DEF Mapped
  <2>4. f.dynamic = AnchorsOf(f) /\ AnchorsOf(f) \cap f.refused = {}
    BY <1>1, <1>4, <1>6 DEF Mapped
  <2> QED BY <2>1, <2>2, <2>3, <2>4 DEF Mapped
<1>8. Accounted(f, t)
  BY <1>1, <1>3, <1>5 DEF Accounted
<1>9. LiteralsKept(f, t)
  BY <1>1, <1>3, <1>5, NoOwnerAssumption DEF LiteralsKept
<1>10. Lost(f) \subseteq Lost(e) \ {a}
  <2> SUFFICES ASSUME NEW b \in Lost(f) PROVE b \in Lost(e) \ {a}
    OBVIOUS
  <2>1. PICK x \in f.spills[b] : f.owner[x] # b
    BY DEF Lost
  <2>2. b \in Cell /\ b # a /\ x \in e.spills[b] /\ x \in Cell
    BY <1>1, <1>5, <2>1, EngineFacts DEF Lost
  <2>3. e.owner[x] # b
    BY <1>3, <2>1, <2>2
  <2> QED BY <2>2, <2>3 DEF Lost
<1> QED BY <1>4, <1>5, <1>7, <1>8, <1>9, <1>10 DEF Sound, f

\* The diagnostics, and the sets that collect what changed, carry no region.
LEMMA TaggedSound ==
  ASSUME NEW e, NEW t, Sound(e, t), NEW f \in Engine,
         f.programs = e.programs, f.values = e.values, f.spills = e.spills,
         f.owner = e.owner, f.dynamic = e.dynamic, AnchorsOf(e) \cap f.refused = {}
  PROVE  Sound(f, t) /\ Lost(f) = Lost(e) /\ AnchorsOf(f) = AnchorsOf(e)
<1>1. Formulas(f) = Formulas(e) /\ AnchorsOf(f) = AnchorsOf(e) /\ Lost(f) = Lost(e)
  BY DEF Formulas, AnchorsOf, Lost
<1>2. Mapped(f) /\ Accounted(f, t) /\ LiteralsKept(f, t)
  BY <1>1 DEF Sound, Mapped, Accounted, LiteralsKept
<1> QED BY <1>1, <1>2 DEF Sound

\* What every way to write a formula a keeps; `done` are the cells it settles.
Settled(e, t, f, done) ==
  /\ Sound(f, t)
  /\ f.programs = e.programs
  /\ Lost(f) \subseteq Lost(e) \ done
  /\ f.unstable \subseteq e.unstable \cup done

LEMMA RefuseSound ==
  ASSUME NEW e, NEW t, NEW a, NEW v, NEW why,
         Sound(e, t), a \in Formulas(e), v \in Value, why \in Refusal
  PROVE  /\ Settled(e, t, RefuseWith(e, a, v, why), {a})
         /\ RefuseWith(e, a, v, why).refused = e.refused
         /\ RefuseWith(e, a, v, why).spills[a] = {}
<1> DEFINE g == WriteAlone(e, a, v)
           f == RefuseWith(e, a, v, why)
<1>1. /\ Sound(g, t) /\ g.programs = e.programs /\ g.refused = e.refused
      /\ g.spills[a] = {} /\ Lost(g) \subseteq Lost(e) \ {a}
      /\ g.unstable \subseteq e.unstable \cup {a}
  BY AloneSound
<1>2. f = [g EXCEPT !.diags[a] = @ \cup {why}]
  BY DEF RefuseWith
<1>3. g \in Engine /\ a \in Cell /\ AnchorsOf(g) \cap g.refused = {}
  BY <1>1, ProgramFacts DEF Sound, Mapped
<1> HIDE DEF f, g
<1>4. /\ f \in Engine /\ f.programs = g.programs /\ f.values = g.values /\ f.spills = g.spills
      /\ f.owner = g.owner /\ f.dynamic = g.dynamic /\ f.refused = g.refused
      /\ f.unstable = g.unstable
  BY <1>2, <1>3 DEF Engine
<1>5. Sound(f, t) /\ Lost(f) = Lost(g)
  BY <1>1, <1>3, <1>4, TaggedSound
<1> QED BY <1>1, <1>4, <1>5 DEF Settled, f
-----------------------------------------------------------------------------
(* Spilling. *)

\* The slots of an array that fits are cells, and each is written the element
\* at its offset.
LEMMA FootprintFacts ==
  ASSUME NEW a \in Cell, NEW r, IsArray(r), ~ OffSheet(a, r)
  PROVE  /\ Footprint(a, r) \subseteq Cell /\ a \in Footprint(a, r)
         /\ \A x \in Footprint(a, r) : r.at[<<RowOf(x) - RowOf(a), ColOf(x) - ColOf(a)>>] \in Value
         /\ \A d \in DOMAIN r.at :
              <<RowOf(Target(a, d)) - RowOf(a), ColOf(Target(a, d)) - ColOf(a)>> = d
<1>1. /\ r.h \in Nat \ {0} /\ r.w \in Nat \ {0}
      /\ r.at \in [(0 .. r.h - 1) \X (0 .. r.w - 1) -> Value]
  BY DEF IsArray
<1>2. /\ RowOf(a) \in 0 .. Height - 1 /\ ColOf(a) \in 0 .. Width - 1
      /\ a = RowOf(a) * Width + ColOf(a)
  BY GridFacts
<1>3. ~ (RowOf(a) + r.h > Height) /\ ~ (ColOf(a) + r.w > Width)
  BY DEF OffSheet
<1>4. ASSUME NEW d \in (0 .. r.h - 1) \X (0 .. r.w - 1)
      PROVE  /\ Target(a, d) \in Cell
             /\ <<RowOf(Target(a, d)) - RowOf(a), ColOf(Target(a, d)) - ColOf(a)>> = d
  <2> DEFINE i == d[1]
             j == d[2]
             p == RowOf(a)
             q == ColOf(a)
  <2>1. i \in 0 .. r.h - 1 /\ j \in 0 .. r.w - 1 /\ d = <<i, j>>
    OBVIOUS
  <2> HIDE DEF i, j, p, q
  <2>2. p + i \in 0 .. Height - 1 /\ q + j \in 0 .. Width - 1 /\ p \in Nat /\ q \in Nat /\ i \in Nat /\ j \in Nat
    BY <1>1, <1>2, <1>3, <2>1, SizeAssumption DEF p, q
  <2>3. Target(a, d) = (p + i) * Width + (q + j)
    <3>1. Width \in Nat
      BY SizeAssumption
    <3>2. (p + i) * Width = p * Width + i * Width /\ p * Width \in Nat /\ i * Width \in Nat
      BY <2>2, <3>1
    <3>3. Target(a, d) = p * Width + q + i * Width + j
      BY <1>2 DEF Target, i, j, p, q
    <3> HIDE DEF Target
    <3> QED BY <2>2, <3>2, <3>3
  <2>4. /\ (p + i) * Width + (q + j) \in Cell
        /\ RowOf((p + i) * Width + (q + j)) = p + i /\ ColOf((p + i) * Width + (q + j)) = q + j
    BY <2>2, GridFacts
  <2>5. RowOf(Target(a, d)) - RowOf(a) = i /\ ColOf(Target(a, d)) - ColOf(a) = j
    BY <2>2, <2>3, <2>4 DEF p, q
  <2> QED BY <2>1, <2>3, <2>4, <2>5
<1>5. DOMAIN r.at = (0 .. r.h - 1) \X (0 .. r.w - 1)
  BY <1>1
<1>6. Footprint(a, r) \subseteq Cell
  BY <1>4, <1>5 DEF Footprint
<1>7. a \in Footprint(a, r)
  <2>1. <<0, 0>> \in (0 .. r.h - 1) \X (0 .. r.w - 1)
    BY <1>1
  <2>2. Target(a, <<0, 0>>) = a
    <3>1. a \in Nat /\ 0 * Width = 0
      BY SizeAssumption, CellFacts DEF Cell
    <3> QED BY <3>1 DEF Target
  <2> QED BY <1>5, <2>1, <2>2 DEF Footprint
<1>8. ASSUME NEW x \in Footprint(a, r)
      PROVE  r.at[<<RowOf(x) - RowOf(a), ColOf(x) - ColOf(a)>>] \in Value
  <2>1. PICK d \in (0 .. r.h - 1) \X (0 .. r.w - 1) : x = Target(a, d)
    BY <1>5 DEF Footprint
  <2>2. <<RowOf(x) - RowOf(a), ColOf(x) - ColOf(a)>> = d
    BY <1>4, <2>1
  <2> QED BY <1>1, <2>2
<1> QED BY <1>4, <1>5, <1>6, <1>7, <1>8

\* What a spill leaves in every field.
SpillLeaves(e, a, S, f) ==
  LET left == Reclaimed(e, a, e.spills[a] \ S)
  IN /\ f \in Engine
     /\ f.programs = e.programs /\ f.refused = e.refused
     /\ f.dynamic = e.dynamic \cup {a} /\ f.unstable \subseteq e.unstable \cup {a}
     /\ f.spills = [e.spills EXCEPT ![a] = S]
     /\ f.owner = [x \in Cell |-> IF x \in S THEN a ELSE IF x \in left THEN NoOwner ELSE e.owner[x]]
     /\ \A x \in Cell \ S : f.values[x] = IF x \in left THEN Blank ELSE e.values[x]
     /\ f.diags = e.diags /\ e.redirty \subseteq f.redirty /\ e.unstable \subseteq f.unstable
     /\ \A x \in Cell \ {a} : f.values[x] # e.values[x] => x \in f.redirty
     /\ f.redirty = e.redirty \/ a \in f.unstable

LEMMA SpillFields ==
  ASSUME NEW e \in Engine, NEW a \in Cell, NEW r, IsArray(r), ~ OffSheet(a, r)
  PROVE  /\ SpillLeaves(e, a, Footprint(a, r), SpillInto(e, a, r))
         /\ \A x \in Footprint(a, r) :
              SpillInto(e, a, r).values[x] = r.at[<<RowOf(x) - RowOf(a), ColOf(x) - ColOf(a)>>]
<1> DEFINE f == SpillInto(e, a, r)
           S == Footprint(a, r)
           new == [x \in S |-> r.at[<<RowOf(x) - RowOf(a), ColOf(x) - ColOf(a)>>]]
           left == Reclaimed(e, a, e.spills[a] \ S)
           changed == Vacated(e, left) \cup Rewritten(e, a, new)
           values == [x \in Cell |-> IF x \in S THEN new[x] ELSE Blanked(e, left)[x]]
           owner == [x \in Cell |-> IF x \in S THEN a ELSE IF x \in left THEN NoOwner ELSE e.owner[x]]
           spills == [e.spills EXCEPT ![a] = S]
           redirty == e.redirty \cup changed
           unstable == IF changed # {} \/ e.spills[a] # S THEN e.unstable \cup {a} ELSE e.unstable
<1>1. /\ e.values \in [Cell -> Value] /\ e.spills \in [Cell -> SUBSET Cell]
      /\ e.owner \in [Cell -> Cell \cup {NoOwner}] /\ Blank \in Value
      /\ e.dynamic \subseteq Cell /\ e.redirty \subseteq Cell
      /\ e.unstable \subseteq Cell /\ e.refused \subseteq Cell
  BY EngineFacts, ValueFacts
<1>2. S \subseteq Cell /\ \A x \in S : r.at[<<RowOf(x) - RowOf(a), ColOf(x) - ColOf(a)>>] \in Value
  BY FootprintFacts
<1> HIDE DEF S
<1>3. /\ DOMAIN new = S /\ \A x \in S : new[x] \in Value
      /\ \A x \in S : new[x] = r.at[<<RowOf(x) - RowOf(a), ColOf(x) - ColOf(a)>>]
  BY <1>2
<1>4. f = [e EXCEPT !.values = values, !.owner = owner, !.spills = spills,
                    !.redirty = redirty, !.unstable = unstable, !.dynamic = e.dynamic \cup {a}]
  BY <1>3 DEF SpillInto, S, Engine
<1> HIDE DEF new
<1>5. left \subseteq Cell /\ changed \subseteq Cell
  BY <1>1, <1>2, <1>3 DEF Reclaimed, Vacated, Rewritten
<1>6. /\ values \in [Cell -> Value] /\ owner \in [Cell -> Cell \cup {NoOwner}]
      /\ spills \in [Cell -> SUBSET Cell]
  BY <1>1, <1>2, <1>3 DEF Blanked
<1>7. redirty \subseteq Cell /\ unstable \subseteq Cell /\ unstable \subseteq e.unstable \cup {a}
  BY <1>1, <1>5
<1>8. /\ \A x \in Cell \ S : values[x] = IF x \in left THEN Blank ELSE e.values[x]
      /\ \A x \in S : values[x] = new[x]
  BY <1>2 DEF Blanked
<1>c. /\ e.redirty \subseteq redirty /\ e.unstable \subseteq unstable
      /\ redirty = e.redirty \/ a \in unstable
      /\ \A x \in Cell \ {a} : values[x] # e.values[x] => x \in redirty
  <2>1. \A x \in Cell \ {a} : x \in S /\ values[x] # e.values[x] => x \in Rewritten(e, a, new)
    BY <1>3, <1>8 DEF Rewritten
  <2>2. \A x \in Cell \ {a} : x \notin S /\ values[x] # e.values[x] => x \in Vacated(e, left)
    BY <1>8 DEF Vacated
  <2> HIDE DEF values
  <2> QED BY <2>1, <2>2
<1> HIDE DEF f, values, owner, spills, redirty, unstable
<1>9. f \in Engine
  BY <1>1, <1>4, <1>6, <1>7 DEF Engine
<1>10. /\ f.programs = e.programs /\ f.refused = e.refused
       /\ f.dynamic = e.dynamic \cup {a} /\ f.unstable = unstable
       /\ f.spills = spills /\ f.owner = owner /\ f.values = values
       /\ f.diags = e.diags /\ f.redirty = redirty
  BY <1>4 DEF Engine
<1>11. SpillLeaves(e, a, S, f)
  BY <1>7, <1>8, <1>9, <1>10, <1>c DEF SpillLeaves, owner, spills
<1>12. \A x \in S : f.values[x] = r.at[<<RowOf(x) - RowOf(a), ColOf(x) - ColOf(a)>>]
  BY <1>3, <1>8, <1>10
<1> QED BY <1>11, <1>12 DEF S, f

\* An array that fits and finds its slots free takes them from no other array
\* and from no literal.
LEMMA SpillSound ==
  ASSUME NEW e, NEW t, Sound(e, t), NEW a \in Formulas(e), a \notin e.refused,
         NEW r, IsArray(r), ~ OffSheet(a, r), ~ Obstructed(e, a, r)
  PROVE  Settled(e, t, SpillInto(e, a, r), {a}) /\ SpillInto(e, a, r).refused = e.refused
<1> DEFINE f == SpillInto(e, a, r)
           S == Footprint(a, r)
           left == Reclaimed(e, a, e.spills[a] \ S)
<1>1. /\ e \in Engine /\ a \in Cell /\ Mapped(e) /\ Accounted(e, t) /\ LiteralsKept(e, t)
  BY ProgramFacts DEF Sound
<1>2. S \subseteq Cell /\ a \in S
  BY <1>1, FootprintFacts
<1>3. SpillLeaves(e, a, S, f)
  BY <1>1, SpillFields
<1>4. \A x \in S \ {a} : e.owner[x] = a \/
        (x \notin Formulas(e) /\ e.owner[x] = NoOwner /\ e.values[x] \in {Absent, Blank})
  BY DEF Obstructed, Occupied
<1> HIDE DEF f, S
<1>5. /\ f \in Engine /\ f.programs = e.programs /\ f.refused = e.refused
      /\ f.dynamic = e.dynamic \cup {a} /\ f.unstable \subseteq e.unstable \cup {a}
      /\ f.spills[a] = S /\ (\A x \in Cell : x # a => f.spills[x] = e.spills[x])
      /\ Formulas(f) = Formulas(e)
  BY <1>1, <1>3, EngineFacts DEF SpillLeaves, Formulas
<1>6. /\ \A x \in Cell : x \in left => e.owner[x] = a /\ x # a /\ x \notin S
      /\ \A x \in Cell : e.owner[x] = a /\ x \notin S => x \in left
      /\ \A x \in Cell : f.owner[x] = IF x \in S THEN a ELSE IF x \in left THEN NoOwner ELSE e.owner[x]
      /\ \A x \in Cell \ S : f.values[x] = IF x \in left THEN Blank ELSE e.values[x]
      /\ \A x \in Cell : e.owner[x] \in Cell \cup {NoOwner}
      /\ a # NoOwner
  <2>1. \A x \in Cell : e.owner[x] = a => x \in e.spills[a]
    BY <1>1, NoOwnerAssumption DEF Mapped
  <2> QED BY <1>1, <1>2, <1>3, <2>1, EngineFacts, NoOwnerAssumption DEF SpillLeaves, Reclaimed
<1>7. e.owner[a] \in {a, NoOwner}
  BY <1>1 DEF Mapped
<1>8. AnchorsOf(f) = AnchorsOf(e) \cup {a}
  BY <1>1, <1>2, <1>5 DEF AnchorsOf
<1> HIDE DEF left
<1>9. Mapped(f)
  <2>1. \A x \in Cell : f.owner[x] # NoOwner => x \in f.spills[f.owner[x]]
    BY <1>1, <1>5, <1>6 DEF Mapped
  <2>2. \A b \in AnchorsOf(f) : b \in Formulas(f) /\ f.owner[b] = b
    <3> SUFFICES ASSUME NEW b \in AnchorsOf(e), b # a PROVE b \in Formulas(e) /\ f.owner[b] = b
      BY <1>1, <1>2, <1>5, <1>6, <1>8
    <3>1. b \in Cell /\ b \in Formulas(e) /\ e.owner[b] = b
      BY <1>1 DEF Mapped, AnchorsOf
    <3>2. b # NoOwner /\ b \notin S
      BY <1>4, <3>1, NoOwnerAssumption
    <3> QED BY <1>6, <3>1, <3>2
  <2>3. \A x \in Formulas(f) : f.owner[x] \in {x, NoOwner}
    <3> SUFFICES ASSUME NEW x \in Formulas(e) PROVE f.owner[x] \in {x, NoOwner}
      BY <1>5
    <3>1. x \in Cell /\ e.owner[x] \in {x, NoOwner}
      BY <1>1, ProgramFacts DEF Mapped
    <3>2. x \in S => x = a
      BY <1>4, <1>6, <3>1
    <3> QED BY <1>6, <3>1, <3>2
  <2>4. f.dynamic = AnchorsOf(f) /\ AnchorsOf(f) \cap f.refused = {}
    BY <1>1, <1>5, <1>8 DEF Mapped
  <2> QED BY <2>1, <2>2, <2>3, <2>4 DEF Mapped
<1>10. Accounted(f, t)
  BY <1>1, <1>5, <1>6 DEF Accounted
<1>11. LiteralsKept(f, t)
  <2> SUFFICES ASSUME NEW c \in Cell, t[c] \notin {Absent, Blank}
               PROVE  c \notin Formulas(f) /\ f.owner[c] = NoOwner /\ f.values[c] = t[c]
    BY DEF LiteralsKept
  <2>1. c \notin Formulas(e) /\ e.owner[c] = NoOwner /\ e.values[c] = t[c]
    BY <1>1 DEF LiteralsKept
  <2>2. c \notin S
    BY <1>4, <1>6, <2>1
  <2>3. c \notin left
    BY <1>6, <2>1
  <2> QED BY <1>5, <1>6, <2>1, <2>2, <2>3
<1>12. Lost(f) \subseteq Lost(e) \ {a}
  <2> SUFFICES ASSUME NEW b \in Lost(f) PROVE b \in Lost(e) \ {a}
    OBVIOUS
  <2>1. PICK x \in f.spills[b] : f.owner[x] # b
    BY DEF Lost
  <2>2. b \in Cell /\ x \in Cell
    BY <1>5, <2>1, EngineFacts DEF Lost
  <2>3. b # a
    BY <1>2, <1>5, <1>6, <2>1, <2>2
  <2>4. x \in e.spills[b]
    BY <1>5, <2>1, <2>2, <2>3
  <2>5. e.owner[x] # b
    <3> SUFFICES ASSUME e.owner[x] = b PROVE FALSE
      OBVIOUS
    <3>1. b # NoOwner
      BY <2>2, NoOwnerAssumption
    <3>2. x \notin S
      BY <1>4, <1>7, <2>2, <2>3, <3>1
    <3>3. x \notin left
      BY <1>6, <2>2, <2>3
    <3> QED BY <1>6, <2>1, <2>2, <3>2, <3>3
  <2> QED BY <2>2, <2>3, <2>4, <2>5 DEF Lost
<1> QED BY <1>5, <1>9, <1>10, <1>11, <1>12 DEF Settled, Sound, f
-----------------------------------------------------------------------------
(* What the writes leave alone, and what the written formula shows. *)

\* A formula shows a result, an array on all the cells of its region.
Holds(f, a, r) ==
  CASE r.kind = "scalar" -> f.values[a] = IF r.value = Blank THEN 0 ELSE r.value
    [] r.kind = "lambdas" -> FALSE
    [] r.kind = "array" ->
         /\ f.spills[a] = Footprint(a, r)
         /\ \A d \in DOMAIN r.at : f.values[Target(a, d)] = r.at[d]

\* A formula is refused, and for another reason than its size.
RefusedAt(f, a) ==
  f.diags[a] \cap (Refusal \ {"OffSheet"}) # {} /\ f.values[a] \in Error /\ f.spills[a] = {}

\* A formula with the result r is refused for its size alone.
TooLargeAt(f, a, r) ==
  /\ f.diags[a] \cap Refusal = {"OffSheet"} /\ f.values[a] \in Error /\ f.spills[a] = {}
  /\ IsArray(r) /\ OffSheet(a, r)

\* A formula shows what it evaluates to, or is refused.
Right(e, a) ==
  LET r == Result(e, a)
  IN \/ RefusedAt(e, a) \/ TooLargeAt(e, a, r)
     \/ e.diags[a] \cap Refusal = {} /\ Holds(e, a, r)

LEMMA WroteTwice ==
  ASSUME NEW e, NEW g, NEW f, NEW A, NEW B, Wrote(e, g, A), Wrote(g, f, B)
  PROVE  Wrote(e, f, A \cup B)
<1>1. Formulas(g) = Formulas(e)
  BY DEF Wrote, Formulas
<1>2. \A x \in Cell \ (A \cup B) : f.spills[x] = e.spills[x] /\ f.diags[x] = e.diags[x]
  BY DEF Wrote
<1>3. \A x \in Formulas(e) \ (A \cup B) : f.values[x] = e.values[x]
  BY <1>1 DEF Wrote
<1>4. \A x \in Cell \ (A \cup B) : f.values[x] # e.values[x] => x \in f.redirty
  BY DEF Wrote
<1>5. \A x \in Cell : e.owner[x] \in Cell \ (A \cup B) =>
        f.owner[x] = e.owner[x] /\ f.values[x] = e.values[x]
  BY DEF Wrote
<1> QED BY <1>2, <1>3, <1>4, <1>5 DEF Wrote

LEMMA AnnouncedTwice ==
  ASSUME NEW e, NEW g, NEW f, Announced(e, g), Announced(g, f)
  PROVE  Announced(e, f)
BY DEF Announced

\* Diagnostics of the cell written, and cells collected besides, change nothing of it.
LEMMA TaggedWrote ==
  ASSUME NEW e, NEW g, NEW f, NEW a \in Cell, Wrote(e, g, {a}),
         f.programs = g.programs, f.values = g.values, f.spills = g.spills, f.owner = g.owner,
         g.redirty \subseteq f.redirty, \A x \in Cell \ {a} : f.diags[x] = g.diags[x]
  PROVE  Wrote(e, f, {a})
BY DEF Wrote

LEMMA RefuseWrote ==
  ASSUME NEW e \in Engine, Mapped(e), NEW a \in Formulas(e), NEW v \in Error, NEW why \in Refusal
  PROVE  LET f == RefuseWith(e, a, v, why)
         IN /\ Wrote(e, f, {a}) /\ (a \notin e.refused => Announced(e, f))
            /\ f.diags[a] = e.diags[a] \cup {why} /\ f.values[a] = v /\ f.spills[a] = {}
            /\ why # "OffSheet" => RefusedAt(f, a)
<1> DEFINE g == WriteAlone(e, a, v)
           f == RefuseWith(e, a, v, why)
<1>1. a \in Cell /\ v \in Value
  BY ProgramFacts DEF Value
<1>2. /\ Wrote(e, g, {a}) /\ (a \notin e.refused => Announced(e, g))
      /\ g.values[a] = v /\ g.spills[a] = {} /\ g.diags = e.diags
  BY <1>1, AloneWrote
<1>3. f = [g EXCEPT !.diags[a] = @ \cup {why}]
  BY DEF RefuseWith
<1>4. g \in Engine
  BY <1>1, AloneFields DEF AloneLeaves
<1> HIDE DEF f, g
<1>5. /\ f.programs = g.programs /\ f.values = g.values /\ f.spills = g.spills
      /\ f.owner = g.owner /\ f.refused = g.refused /\ f.unstable = g.unstable
      /\ f.redirty = g.redirty /\ f.diags = [g.diags EXCEPT ![a] = @ \cup {why}]
  BY <1>3, <1>4 DEF Engine
<1>6. f.diags[a] = e.diags[a] \cup {why} /\ \A x \in Cell \ {a} : f.diags[x] = g.diags[x]
  BY <1>1, <1>2, <1>4, <1>5, EngineFacts
<1>7. Wrote(e, f, {a})
  BY <1>1, <1>2, <1>5, <1>6, TaggedWrote
<1>8. f.values[a] = v /\ f.spills[a] = {}
  BY <1>2, <1>5
<1>9. why # "OffSheet" => RefusedAt(f, a)
  BY <1>6, <1>8 DEF RefusedAt
<1>10. a \notin e.refused => Announced(e, f)
  BY <1>2, <1>5 DEF Announced
<1> QED BY <1>6, <1>7, <1>8, <1>9, <1>10 DEF f

LEMMA CycleMemberWrote ==
  ASSUME NEW e \in Engine, Mapped(e), NEW a \in Formulas(e)
  PROVE  LET f == RunCycleMember(e, a)
         IN Wrote(e, f, {a}) /\ RefusedAt(f, a) /\ Announced(e, f)
<1> DEFINE g == WriteAlone(e, a, UnsupportedError)
           f == RunCycleMember(e, a)
<1>1. a \in Cell /\ UnsupportedError \in Value /\ UnsupportedError \in Error
  BY ProgramFacts, ValueFacts DEF Error
<1>2. /\ Wrote(e, g, {a}) /\ Announced(e, g) /\ g.values[a] = UnsupportedError /\ g.spills[a] = {}
  <2>1. a \notin AnchorsOf(e) \/ a \notin e.refused
    BY DEF Mapped
  <2> QED BY <1>1, <2>1, AloneWrote
<1>3. f = [g EXCEPT !.diags[a] = {"Circular"}]
  BY DEF RunCycleMember
<1>4. g \in Engine
  BY <1>1, AloneFields DEF AloneLeaves
<1> HIDE DEF f, g
<1>5. /\ f.programs = g.programs /\ f.values = g.values /\ f.spills = g.spills
      /\ f.owner = g.owner /\ f.refused = g.refused /\ f.unstable = g.unstable
      /\ f.redirty = g.redirty /\ f.diags = [g.diags EXCEPT ![a] = {"Circular"}]
  BY <1>3, <1>4 DEF Engine
<1>6. f.diags[a] = {"Circular"} /\ \A x \in Cell \ {a} : f.diags[x] = g.diags[x]
  BY <1>1, <1>4, <1>5, EngineFacts
<1>7. Wrote(e, f, {a})
  BY <1>1, <1>2, <1>5, <1>6, TaggedWrote
<1>8. RefusedAt(f, a)
  BY <1>1, <1>2, <1>5, <1>6 DEF RefusedAt, Refusal
<1>9. Announced(e, f)
  BY <1>2, <1>5 DEF Announced
<1> QED BY <1>7, <1>8, <1>9 DEF f

\* The readers of a refused anchor are told of it.
LEMMA RefuseAnchorWrote ==
  ASSUME NEW e \in Engine, Mapped(e), NEW a \in Formulas(e)
  PROVE  LET f == RefuseAnchor(e, a)
         IN /\ Wrote(e, f, {a}) /\ RefusedAt(f, a)
            /\ a \in f.redirty /\ f.refused = e.refused \cup {a}
<1> DEFINE g == RefuseWith(e, a, UnsupportedError, "Diverged")
           f == RefuseAnchor(e, a)
<1>1. a \in Cell /\ UnsupportedError \in Error /\ "Diverged" \in Refusal
  BY ProgramFacts DEF Error, Refusal
<1>2. Wrote(e, g, {a}) /\ RefusedAt(g, a)
  BY <1>1, RefuseWrote
<1>3. f = [g EXCEPT !.refused = @ \cup {a}, !.redirty = @ \cup {a}]
  BY DEF RefuseAnchor
<1>4. g.refused = e.refused /\ DOMAIN g = {"programs", "values", "spills", "owner", "dynamic",
                                          "redirty", "unstable", "refused", "diags"}
  <2> DEFINE h == WriteAlone(e, a, UnsupportedError)
  <2>1. AloneLeaves(e, a, UnsupportedError, h)
    BY <1>1, ValueFacts, AloneFields
  <2>2. g = [h EXCEPT !.diags[a] = @ \cup {"Diverged"}]
    BY DEF RefuseWith
  <2> HIDE DEF h, g
  <2>3. h \in Engine /\ h.refused = e.refused
    BY <2>1 DEF AloneLeaves
  <2> QED BY <2>2, <2>3 DEF Engine
<1> HIDE DEF f, g
<1>6. /\ f.programs = g.programs /\ f.values = g.values /\ f.spills = g.spills
      /\ f.owner = g.owner /\ f.diags = g.diags
      /\ f.redirty = g.redirty \cup {a} /\ f.refused = g.refused \cup {a}
  BY <1>3, <1>4
<1>7. Wrote(e, f, {a})
  BY <1>1, <1>2, <1>6, TaggedWrote
<1> QED BY <1>2, <1>4, <1>6, <1>7 DEF RefusedAt, f
LEMMA SpillWrote ==
  ASSUME NEW e \in Engine, Mapped(e), NEW a \in Formulas(e), a \notin e.refused,
         NEW r, IsArray(r), ~ OffSheet(a, r), ~ Obstructed(e, a, r)
  PROVE  LET f == SpillInto(e, a, r)
         IN Wrote(e, f, {a}) /\ f.diags = e.diags /\ Holds(f, a, r) /\ Announced(e, f)
<1> DEFINE f == SpillInto(e, a, r)
           S == Footprint(a, r)
           left == Reclaimed(e, a, e.spills[a] \ S)
<1>1. a \in Cell
  BY ProgramFacts
<1>2. /\ S \subseteq Cell /\ a \in S
      /\ \A d \in DOMAIN r.at :
           Target(a, d) \in S /\ <<RowOf(Target(a, d)) - RowOf(a), ColOf(Target(a, d)) - ColOf(a)>> = d
  BY <1>1, FootprintFacts DEF Footprint
<1>3. /\ SpillLeaves(e, a, S, f)
      /\ \A x \in S : f.values[x] = r.at[<<RowOf(x) - RowOf(a), ColOf(x) - ColOf(a)>>]
  BY <1>1, SpillFields
<1>4. \A x \in S \ {a} : e.owner[x] = a \/ (x \notin Formulas(e) /\ e.owner[x] = NoOwner)
  BY DEF Obstructed, Occupied
<1> HIDE DEF f, S
<1>5. /\ f.programs = e.programs /\ f.diags = e.diags /\ f.spills = [e.spills EXCEPT ![a] = S]
      /\ f.owner = [x \in Cell |-> IF x \in S THEN a ELSE IF x \in left THEN NoOwner ELSE e.owner[x]]
      /\ \A x \in Cell \ S : f.values[x] = IF x \in left THEN Blank ELSE e.values[x]
      /\ e.redirty \subseteq f.redirty
      /\ \A x \in Cell \ {a} : f.values[x] # e.values[x] => x \in f.redirty
      /\ e.spills \in [Cell -> SUBSET Cell]
  BY <1>3, EngineFacts DEF SpillLeaves
<1>6. \A x \in left : e.owner[x] = a /\ x # a
  BY DEF Reclaimed
<1> HIDE DEF left
<1>7. /\ e.owner[a] \in {a, NoOwner} /\ NoOwner \notin Cell
      /\ \A x \in Formulas(e) : x \in Cell /\ e.owner[x] \in {x, NoOwner}
  BY EngineFacts, NoOwnerAssumption DEF Mapped
<1>8. \A x \in Formulas(e) \ {a} : x \notin S /\ x \notin left
  BY <1>1, <1>4, <1>6, <1>7
<1>9. \A x \in Cell : e.owner[x] \in Cell \ {a} => x \notin S /\ x \notin left
  BY <1>1, <1>4, <1>6, <1>7
<1>10. Wrote(e, f, {a})
  <2>1. \A x \in Cell \ {a} : f.spills[x] = e.spills[x] /\ f.diags[x] = e.diags[x]
    BY <1>5
  <2>2. \A x \in Formulas(e) \ {a} : f.values[x] = e.values[x]
    BY <1>5, <1>7, <1>8
  <2>3. \A x \in Cell : e.owner[x] \in Cell \ {a} =>
          f.owner[x] = e.owner[x] /\ f.values[x] = e.values[x]
    BY <1>5, <1>9
  <2> QED BY <1>5, <2>1, <2>2, <2>3 DEF Wrote
<1>11. Holds(f, a, r)
  <2>1. f.spills[a] = S
    BY <1>1, <1>5
  <2>2. \A d \in DOMAIN r.at : f.values[Target(a, d)] = r.at[d]
    BY <1>2, <1>3
  <2> QED BY <2>1, <2>2 DEF Holds, IsArray, S
<1>12. Announced(e, f)
  BY <1>3 DEF SpillLeaves, Announced
<1> QED BY <1>5, <1>10, <1>11, <1>12 DEF f

\* What a formula shows once its result is written.
LEMMA CommitWrote ==
  ASSUME NEW e \in Engine, Mapped(e), NEW a \in Formulas(e), a \notin e.refused, NEW r,
         IsScalar(r) \/ r.kind = "lambdas" \/ IsArray(r), e.diags[a] \cap Refusal = {}
  PROVE  LET f == Commit(e, a, r)
         IN /\ Wrote(e, f, {a}) /\ Announced(e, f)
            /\ \/ RefusedAt(f, a) \/ TooLargeAt(f, a, r)
               \/ f.diags = e.diags /\ Holds(f, a, r)
<1> DEFINE f == Commit(e, a, r)
           Ends(h) == /\ Wrote(e, h, {a}) /\ Announced(e, h)
                      /\ \/ RefusedAt(h, a) \/ TooLargeAt(h, a, r)
                         \/ h.diags = e.diags /\ Holds(h, a, r)
<1>1. SpillError \in Error /\ ValueError \in Error /\ 0 \in Value /\ a \in Cell
  BY ValueFacts, ProgramFacts DEF Error
<1>2. "OffSheet" \in Refusal /\ "Blocked" \in Refusal /\ "Lambdas" \in Refusal
  BY DEF Refusal
<1>r. ASSUME NEW v \in Error, NEW why \in Refusal
      PROVE  LET g == RefuseWith(e, a, v, why)
             IN /\ Wrote(e, g, {a}) /\ Announced(e, g)
                /\ g.diags[a] = e.diags[a] \cup {why} /\ g.values[a] = v /\ g.spills[a] = {}
                /\ why # "OffSheet" => RefusedAt(g, a)
  <2> DEFINE g == RefuseWith(e, a, v, why)
  <2>1. /\ Wrote(e, g, {a}) /\ (a \notin e.refused => Announced(e, g))
        /\ g.diags[a] = e.diags[a] \cup {why} /\ g.values[a] = v /\ g.spills[a] = {}
        /\ why # "OffSheet" => RefusedAt(g, a)
    BY RefuseWrote
  <2> HIDE DEF f, g
  <2> QED BY <2>1 DEF g
<1>3. ASSUME NEW v \in Error, NEW why \in Refusal \ {"OffSheet"}, f = RefuseWith(e, a, v, why)
      PROVE  Ends(f)
  <2> HIDE DEF f
  <2> QED BY <1>r, <1>3
<1>4. CASE IsScalar(r)
  <2> DEFINE v == IF r.value = Blank THEN 0 ELSE r.value
             g == WriteAlone(e, a, v)
  <2>1. f = g /\ r.kind = "scalar"
    BY <1>4 DEF Commit, IsScalar
  <2>2. v \in Value
    BY <1>1, <1>4 DEF IsScalar
  <2>3. Wrote(e, g, {a}) /\ Announced(e, g) /\ g.values[a] = v /\ g.diags = e.diags
    <3> HIDE DEF v
    <3> QED BY <1>1, <2>2, AloneWrote
  <2> HIDE DEF f, g
  <2>4. Holds(g, a, r)
    BY <2>1, <2>3 DEF Holds
  <2>5. Ends(f)
    BY <2>1, <2>3, <2>4
  <2> QED BY <2>5 DEF f
<1>5. CASE r.kind = "lambdas"
  <2>1. f = RefuseWith(e, a, ValueError, "Lambdas")
    BY <1>5 DEF Commit
  <2> QED BY <1>1, <1>2, <1>3, <2>1
<1>6. CASE IsArray(r)
  <2>1. r.kind = "array"
    BY <1>6 DEF IsArray
  <2>2. CASE OffSheet(a, r)
    <3> DEFINE g == RefuseWith(e, a, SpillError, "OffSheet")
    <3>1. f = g
      BY <2>1, <2>2 DEF Commit
    <3>2. /\ Wrote(e, g, {a}) /\ Announced(e, g)
          /\ g.diags[a] = e.diags[a] \cup {"OffSheet"} /\ g.values[a] = SpillError /\ g.spills[a] = {}
      BY <1>1, <1>2, <1>r
    <3> HIDE DEF f, g
    <3>3. g.diags[a] \cap Refusal = {"OffSheet"}
      BY <1>2, <3>2
    <3>4. TooLargeAt(g, a, r)
      BY <1>1, <1>6, <2>2, <3>2, <3>3 DEF TooLargeAt
    <3>5. Ends(f)
      BY <3>1, <3>2, <3>4
    <3> QED BY <3>5 DEF f
  <2>3. CASE ~ OffSheet(a, r) /\ Obstructed(e, a, r)
    <3>1. f = RefuseWith(e, a, SpillError, "Blocked")
      BY <2>1, <2>3 DEF Commit
    <3> QED BY <1>1, <1>2, <1>3, <3>1
  <2>4. CASE ~ OffSheet(a, r) /\ ~ Obstructed(e, a, r)
    <3>1. f = SpillInto(e, a, r)
      BY <2>1, <2>4 DEF Commit
    <3> HIDE DEF f
    <3>2. Ends(f)
      BY <1>6, <2>4, <3>1, SpillWrote
    <3> QED BY <3>2 DEF f
  <2> QED BY <2>2, <2>3, <2>4
<1>7. Ends(f)
  BY <1>4, <1>5, <1>6
<1> QED BY <1>7
\* A result is determined by the cells the formula names, their regions, and
\* the values in those.
LEMMA SameReads ==
  ASSUME NEW e \in Engine, NEW f, NEW c \in Formulas(e), f.programs[c] = e.programs[c],
         \A x \in e.programs[c].src :
           /\ f.values[x] = e.values[x] /\ f.spills[x] = e.spills[x]
           /\ \A y \in e.spills[x] : f.values[y] = e.values[y]
  PROVE  Result(f, c) = Result(e, c)
<1> DEFINE p == e.programs[c]
           n == Numbers(e, p.src)
           x == CHOOSE y \in p.src : TRUE
           v == ReadCell(e, x)
           m == Numbers(e, SpillRange(e, x))
<1>1. Numbers(f, p.src) = n
  <2>1. {y \in p.src : f.values[y] \in Nat} = {y \in p.src : e.values[y] \in Nat}
    OBVIOUS
  <2> QED BY <2>1 DEF Numbers
<1>2. p.op \in {"ref", "hash", "fill"} => x \in p.src
  BY ProgramFacts
<1>3. p.op \in {"ref", "fill"} => ReadCell(f, x) = v
  BY <1>2 DEF ReadCell
<1>4. p.op = "hash" => Numbers(f, SpillRange(f, x)) = m
  <2> SUFFICES ASSUME p.op = "hash" PROVE Numbers(f, SpillRange(f, x)) = m
    OBVIOUS
  <2>1. x \in p.src
    BY <1>2
  <2> HIDE DEF x
  <2> DEFINE S == SpillRange(e, x)
  <2>2. SpillRange(f, x) = S /\ \A y \in S : f.values[y] = e.values[y]
    BY <2>1 DEF SpillRange
  <2> HIDE DEF S
  <2>3. {y \in S : f.values[y] \in Nat} = {y \in S : e.values[y] \in Nat}
    BY <2>2
  <2> QED BY <2>2, <2>3 DEF Numbers, S
<1>5. f.programs[c] = p
  OBVIOUS
<1>6. p.op \in {"ref", "count", "hash", "grow", "shrink", "row", "fill", "lambdas", "unparsed"}
  BY ProgramFacts
<1> HIDE DEF p, n, v, m
<1>7. CASE p.op = "ref"
  <2>1. Result(e, c) = Scalar(v)
    BY <1>7 DEF Result, p, x, v
  <2>2. Result(f, c) = Scalar(ReadCell(f, x))
    BY <1>5, <1>7 DEF Result, x
  <2> QED BY <1>3, <1>7, <2>1, <2>2
<1>8. CASE p.op = "count"
  <2>1. Result(e, c) = Scalar(n)
    BY <1>8 DEF Result, p, n
  <2>2. Result(f, c) = Scalar(Numbers(f, p.src))
    BY <1>5, <1>8 DEF Result
  <2> QED BY <1>1, <2>1, <2>2
<1>9. CASE p.op = "hash"
  <2>1. Result(e, c) = Scalar(m)
    BY <1>9 DEF Result, p, x, m
  <2>2. Result(f, c) = Scalar(Numbers(f, SpillRange(f, x)))
    BY <1>5, <1>9 DEF Result, x
  <2> QED BY <1>4, <1>9, <2>1, <2>2
<1>10. CASE p.op = "grow"
  <2>1. Result(e, c) = [kind |-> "array", h |-> n + 1, w |-> 1,
                        at |-> [d \in (0 .. (n + 1) - 1) \X (0 .. 1 - 1) |-> n]]
    BY <1>10 DEF Result, ArrayOf, p, n
  <2>2. Result(f, c) = [kind |-> "array", h |-> Numbers(f, p.src) + 1, w |-> 1,
                        at |-> [d \in (0 .. (Numbers(f, p.src) + 1) - 1) \X (0 .. 1 - 1) |->
                                  Numbers(f, p.src)]]
    BY <1>5, <1>10 DEF Result, ArrayOf
  <2> QED BY <1>1, <2>1, <2>2
<1>11. CASE p.op = "shrink"
  <2> DEFINE h(k) == IF k = 0 THEN 2 ELSE 1
  <2>1. Result(e, c) = [kind |-> "array", h |-> h(n), w |-> 1,
                        at |-> [d \in (0 .. h(n) - 1) \X (0 .. 1 - 1) |-> 1]]
    BY <1>11 DEF Result, ArrayOf, p, n
  <2>2. Result(f, c) = [kind |-> "array", h |-> h(Numbers(f, p.src)), w |-> 1,
                        at |-> [d \in (0 .. h(Numbers(f, p.src)) - 1) \X (0 .. 1 - 1) |-> 1]]
    BY <1>5, <1>11 DEF Result, ArrayOf
  <2> HIDE DEF h
  <2> QED BY <1>1, <2>1, <2>2
<1>12. CASE p.op = "row"
  <2>1. Result(e, c) = [kind |-> "array", h |-> 1, w |-> n + 1,
                        at |-> [d \in (0 .. 1 - 1) \X (0 .. (n + 1) - 1) |-> d[2]]]
    BY <1>12 DEF Result, ArrayOf, p, n
  <2>2. Result(f, c) = [kind |-> "array", h |-> 1, w |-> Numbers(f, p.src) + 1,
                        at |-> [d \in (0 .. 1 - 1) \X (0 .. (Numbers(f, p.src) + 1) - 1) |-> d[2]]]
    BY <1>5, <1>12 DEF Result, ArrayOf
  <2> QED BY <1>1, <2>1, <2>2
<1>13. CASE p.op = "fill"
  <2> DEFINE at(k) == [d \in (0 .. 2 - 1) \X (0 .. 1 - 1) |-> IF d[1] = 0 THEN k ELSE Blank]
  <2>1. Result(e, c) = [kind |-> "array", h |-> 2, w |-> 1, at |-> at(v)]
    BY <1>13 DEF Result, ArrayOf, p, x, v
  <2>2. Result(f, c) = [kind |-> "array", h |-> 2, w |-> 1, at |-> at(ReadCell(f, x))]
    BY <1>5, <1>13 DEF Result, ArrayOf, x
  <2> HIDE DEF at, x
  <2> QED BY <1>3, <1>13, <2>1, <2>2
<1>14. CASE p.op = "lambdas"
  BY <1>5, <1>14 DEF Result, p
<1>15. CASE p.op = "unparsed"
  BY <1>5, <1>15 DEF Result, p
<1> QED BY <1>6, <1>7, <1>8, <1>9, <1>10, <1>11, <1>12, <1>13, <1>14, <1>15

\* The cells a formula names.
Named(e, a) == e.programs[a].src

\* Whether a formula is right shows in the values, the regions, its program
\* and its diagnostics.
LEMMA RightSame ==
  ASSUME NEW e \in Engine, NEW f, NEW a \in Formulas(e), Right(e, a),
         f.programs[a] = e.programs[a], f.values = e.values, f.spills = e.spills,
         f.diags[a] = e.diags[a]
  PROVE  Right(f, a)
<1>1. Result(f, a) = Result(e, a)
  BY SameReads
<1> QED BY <1>1 DEF Right, RefusedAt, TooLargeAt, Holds

\* A formula reads no cell that is yet to be written, and none collected.
LEMMA ResultKept ==
  ASSUME NEW e \in Engine, NEW f, NEW S, Wrote(e, f, S), NEW a \in Formulas(e),
         Named(e, a) \cap S = {}, Named(e, a) \cap Lost(e) = {}, Named(e, a) \cap f.redirty = {}
  PROVE  Result(f, a) = Result(e, a)
<1>1. f.programs = e.programs /\ Named(e, a) \subseteq Cell /\ e.spills \in [Cell -> SUBSET Cell]
  BY ProgramFacts, EngineFacts DEF Wrote, Named
<1>2. ASSUME NEW x \in e.programs[a].src
      PROVE  /\ f.values[x] = e.values[x] /\ f.spills[x] = e.spills[x]
             /\ \A y \in e.spills[x] : f.values[y] = e.values[y]
  <2>1. x \in Cell \ S /\ x \notin f.redirty /\ x \notin Lost(e)
    BY <1>1 DEF Named
  <2>2. \A y \in e.spills[x] : y \in Cell /\ e.owner[y] = x
    BY <1>1, <2>1 DEF Lost
  <2> QED BY <2>1, <2>2 DEF Wrote
<1> QED BY <1>1, <1>2, SameReads

\* A formula that is right stays so while others are written, unless a cell
\* it names is collected.
LEMMA RightKept ==
  ASSUME NEW e \in Engine, NEW f, NEW S, Wrote(e, f, S), NEW a \in Formulas(e) \ S,
         Right(e, a), a \notin Lost(e),
         Named(e, a) \cap S = {}, Named(e, a) \cap Lost(e) = {}
  PROVE  Right(f, a) \/ Named(e, a) \cap f.redirty # {}
<1> SUFFICES ASSUME Named(e, a) \cap f.redirty = {} PROVE Right(f, a)
  OBVIOUS
<1>1. a \in Cell \ S /\ f.spills[a] = e.spills[a] /\ f.diags[a] = e.diags[a] /\ f.values[a] = e.values[a]
  BY ProgramFacts DEF Wrote
<1>2. CASE RefusedAt(e, a)
  BY <1>1, <1>2 DEF Right, RefusedAt
<1>3. CASE TooLargeAt(e, a, Result(e, a))
  <2> DEFINE r == Result(e, a)
  <2>1. Result(f, a) = r
    BY ResultKept
  <2> HIDE DEF r
  <2>2. TooLargeAt(f, a, r)
    BY <1>1, <1>3 DEF TooLargeAt, r
  <2> QED BY <2>1, <2>2 DEF Right
<1>4. CASE ~ RefusedAt(e, a) /\ ~ TooLargeAt(e, a, Result(e, a))
  <2> DEFINE r == Result(e, a)
  <2>1. Result(f, a) = r
    BY ResultKept
  <2>2. e.diags[a] \cap Refusal = {} /\ Holds(e, a, r)
    BY <1>4 DEF Right
  <2>3. \A x \in e.spills[a] : f.values[x] = e.values[x]
    <3>1. \A x \in e.spills[a] : x \in Cell /\ e.owner[x] = a
      BY <1>1, EngineFacts DEF Lost
    <3> QED BY <1>1, <3>1 DEF Wrote
  <2> HIDE DEF r
  <2>4. Holds(f, a, r)
    <3>1. CASE r.kind = "scalar"
      BY <1>1, <2>2, <3>1 DEF Holds
    <3>2. CASE r.kind = "array"
      <4>1. /\ e.spills[a] = Footprint(a, r)
            /\ \A d \in DOMAIN r.at : e.values[Target(a, d)] = r.at[d]
        BY <2>2, <3>2 DEF Holds
      <4>2. \A d \in DOMAIN r.at : Target(a, d) \in e.spills[a]
        BY <4>1 DEF Footprint
      <4>3. \A d \in DOMAIN r.at : f.values[Target(a, d)] = r.at[d]
        BY <2>3, <4>1, <4>2
      <4> QED BY <1>1, <3>2, <4>1, <4>3 DEF Holds
    <3>3. r.kind \in {"scalar", "array", "lambdas"}
      BY ResultFacts DEF r, IsScalar, IsArray
    <3>4. r.kind # "lambdas"
      BY <2>2 DEF Holds
    <3> QED BY <3>1, <3>2, <3>3, <3>4
  <2> QED BY <1>1, <2>1, <2>2, <2>4 DEF Right
<1> QED BY <1>2, <1>3, <1>4

\* A formula that has run is right, unless its own array fell on a cell it names.
LEMMA RunCellWrote ==
  ASSUME NEW e, NEW t, Sound(e, t), NEW c \in Formulas(e), c \notin e.refused,
         c \notin Named(e, c), Named(e, c) \cap Lost(e) = {}
  PROVE  LET f == RunCell(e, c)
         IN /\ Wrote(e, f, {c}) /\ Announced(e, f)
            /\ Right(f, c) \/ Named(e, c) \cap f.redirty # {}
<1> DEFINE d == IF e.programs[c].op = "unparsed" THEN {"Unparsed"} ELSE {}
           g == [e EXCEPT !.diags[c] = d]
           r == Result(e, c)
           f == RunCell(e, c)
<1>1. e \in Engine /\ c \in Cell /\ Mapped(e) /\ AnchorsOf(e) \cap e.refused = {}
  BY ProgramFacts DEF Sound, Mapped
<1>2. f = Commit(g, c, r)
  BY DEF RunCell, Skipped, ApplyResult
<1>3. IsScalar(r) \/ r.kind = "lambdas" \/ IsArray(r)
  BY <1>1, ResultFacts
<1>4. /\ g \in Engine /\ g.programs = e.programs /\ g.values = e.values /\ g.spills = e.spills
      /\ g.owner = e.owner /\ g.dynamic = e.dynamic /\ g.refused = e.refused
      /\ g.unstable = e.unstable /\ g.redirty = e.redirty
      /\ g.diags[c] = d /\ \A x \in Cell \ {c} : g.diags[x] = e.diags[x]
  BY <1>1, EngineFacts DEF Engine
<1>5. d \cap Refusal = {}
  BY DEF Refusal
<1> HIDE DEF d, g, r, f
<1>6. Sound(g, t) /\ Formulas(g) = Formulas(e)
  BY <1>1, <1>4, TaggedSound DEF Formulas
<1>7. /\ Wrote(g, f, {c}) /\ Announced(g, f)
      /\ \/ RefusedAt(f, c) \/ TooLargeAt(f, c, r)
         \/ f.diags = g.diags /\ Holds(f, c, r)
  <2>1. /\ g \in Engine /\ Mapped(g) /\ c \in Formulas(g) /\ c \notin g.refused
        /\ g.diags[c] \cap Refusal = {}
    BY <1>4, <1>5, <1>6 DEF Sound
  <2> QED BY <1>2, <1>3, <2>1, CommitWrote
<1>8. Wrote(e, f, {c})
  BY <1>4, <1>6, <1>7 DEF Wrote
<1>9. Announced(e, f)
  BY <1>4, <1>7 DEF Announced
<1>10. Right(f, c) \/ Named(e, c) \cap f.redirty # {}
  <2> SUFFICES ASSUME Named(e, c) \cap f.redirty = {}, ~ RefusedAt(f, c) PROVE Right(f, c)
    BY DEF Right
  <2>1. Result(f, c) = r
    BY <1>1, <1>8, ResultKept DEF r
  <2> QED BY <1>4, <1>5, <1>7, <2>1 DEF Right
<1> QED BY <1>8, <1>9, <1>10 DEF f

-----------------------------------------------------------------------------
(* Running a step of a plan. *)

LEMMA CommitSound ==
  ASSUME NEW e, NEW t, Sound(e, t), NEW a \in Formulas(e), a \notin e.refused, NEW r,
         IsScalar(r) \/ r.kind = "lambdas" \/ IsArray(r)
  PROVE  Settled(e, t, Commit(e, a, r), {a}) /\ Commit(e, a, r).refused = e.refused
<1>1. SpillError \in Value /\ ValueError \in Value /\ 0 \in Value
  BY ValueFacts
<1>2. "OffSheet" \in Refusal /\ "Blocked" \in Refusal /\ "Lambdas" \in Refusal
  BY DEF Refusal
<1>r. \A v, why : v \in Value /\ why \in Refusal =>
        Settled(e, t, RefuseWith(e, a, v, why), {a}) /\ RefuseWith(e, a, v, why).refused = e.refused
  <2> SUFFICES ASSUME NEW v, NEW why, v \in Value, why \in Refusal
               PROVE  /\ Settled(e, t, RefuseWith(e, a, v, why), {a})
                      /\ RefuseWith(e, a, v, why).refused = e.refused
                      /\ RefuseWith(e, a, v, why).spills[a] = {}
    OBVIOUS
  <2> QED BY RefuseSound
<1>3. CASE IsScalar(r)
  <2> DEFINE v == IF r.value = Blank THEN 0 ELSE r.value
  <2>1. Commit(e, a, r) = WriteAlone(e, a, v)
    BY <1>3 DEF Commit, IsScalar
  <2>2. v \in Value
    BY <1>1, <1>3 DEF IsScalar
  <2> HIDE DEF v
  <2> QED BY <2>1, <2>2, AloneSound DEF Settled
<1>4. CASE r.kind = "lambdas"
  <2>1. Commit(e, a, r) = RefuseWith(e, a, ValueError, "Lambdas")
    BY <1>4 DEF Commit
  <2> QED BY <1>1, <1>2, <1>r, <2>1
<1>5. CASE IsArray(r)
  <2>1. r.kind = "array"
    BY <1>5 DEF IsArray
  <2>2. CASE OffSheet(a, r)
    <3>1. Commit(e, a, r) = RefuseWith(e, a, SpillError, "OffSheet")
      BY <2>1, <2>2 DEF Commit
    <3> QED BY <1>1, <1>2, <1>r, <3>1
  <2>3. CASE ~ OffSheet(a, r) /\ Obstructed(e, a, r)
    <3>1. Commit(e, a, r) = RefuseWith(e, a, SpillError, "Blocked")
      BY <2>1, <2>3 DEF Commit
    <3> QED BY <1>1, <1>2, <1>r, <3>1
  <2>4. CASE ~ OffSheet(a, r) /\ ~ Obstructed(e, a, r)
    <3>1. Commit(e, a, r) = SpillInto(e, a, r)
      BY <2>1, <2>4 DEF Commit
    <3> QED BY <1>5, <2>4, <3>1, SpillSound
  <2> QED BY <2>2, <2>3, <2>4
<1> QED BY <1>3, <1>4, <1>5

LEMMA RunCellSound ==
  ASSUME NEW e, NEW t, Sound(e, t), NEW c \in Formulas(e)
  PROVE  Settled(e, t, RunCell(e, c), {c})
<1>1. e \in Engine /\ c \in Cell /\ Mapped(e)
  BY ProgramFacts DEF Sound
<1>2. CASE c \in e.refused
  <2>1. RunCell(e, c) = e
    BY <1>2 DEF RunCell, Skipped
  <2>2. c \notin Lost(e)
    BY <1>1, <1>2 DEF Mapped, AnchorsOf, Lost
  <2> QED BY <2>1, <2>2 DEF Settled
<1>3. CASE c \notin e.refused
  <2> DEFINE d == IF e.programs[c].op = "unparsed" THEN {"Unparsed"} ELSE {}
             g == [e EXCEPT !.diags[c] = d]
             r == Result(e, c)
  <2>1. RunCell(e, c) = Commit(g, c, r)
    BY <1>3 DEF RunCell, Skipped, ApplyResult
  <2>2. IsScalar(r) \/ r.kind = "lambdas" \/ IsArray(r)
    BY <1>1, ResultFacts
  <2>3. /\ g \in Engine /\ g.programs = e.programs /\ g.values = e.values /\ g.spills = e.spills
        /\ g.owner = e.owner /\ g.dynamic = e.dynamic /\ g.refused = e.refused
        /\ g.unstable = e.unstable
    BY <1>1 DEF Engine
  <2> HIDE DEF d, g, r
  <2>4. Sound(g, t) /\ Lost(g) = Lost(e) /\ c \in Formulas(g) /\ c \notin g.refused
    <3>1. AnchorsOf(e) \cap g.refused = {}
      BY <1>1, <2>3 DEF Mapped
    <3>2. Sound(g, t) /\ Lost(g) = Lost(e)
      BY <2>3, <3>1, TaggedSound
    <3> QED BY <1>3, <2>3, <3>2 DEF Formulas
  <2>5. Settled(g, t, Commit(g, c, r), {c})
    BY <2>2, <2>4, CommitSound
  <2> QED BY <2>1, <2>3, <2>4, <2>5 DEF Settled
<1> QED BY <1>2, <1>3

LEMMA CycleMemberSound ==
  ASSUME NEW e, NEW t, Sound(e, t), NEW c \in Formulas(e)
  PROVE  Settled(e, t, RunCycleMember(e, c), {c})
<1> DEFINE g == WriteAlone(e, c, UnsupportedError)
           f == RunCycleMember(e, c)
<1>1. /\ Sound(g, t) /\ g.programs = e.programs /\ g.refused = e.refused
      /\ Lost(g) \subseteq Lost(e) \ {c} /\ g.unstable \subseteq e.unstable \cup {c}
  BY ValueFacts, AloneSound
<1>2. f = [g EXCEPT !.diags[c] = {"Circular"}]
  BY DEF RunCycleMember
<1>3. g \in Engine /\ c \in Cell /\ AnchorsOf(g) \cap g.refused = {} /\ "Circular" \in Refusal
  BY <1>1, ProgramFacts DEF Sound, Mapped, Refusal
<1> HIDE DEF f, g
<1>4. /\ f \in Engine /\ f.programs = g.programs /\ f.values = g.values /\ f.spills = g.spills
      /\ f.owner = g.owner /\ f.dynamic = g.dynamic /\ f.refused = g.refused
      /\ f.unstable = g.unstable
  <2> DEFINE d == [g.diags EXCEPT ![c] = {"Circular"}]
  <2>1. d \in [Cell -> SUBSET (Refusal \cup {"Unparsed"})]
    BY <1>3 DEF Engine
  <2>2. f = [g EXCEPT !.diags = d]
    BY <1>2
  <2> HIDE DEF d
  <2>3. f \in Engine
    BY <1>3, <2>1, <2>2 DEF Engine
  <2> QED BY <1>3, <2>2, <2>3 DEF Engine
<1>5. Sound(f, t) /\ Lost(f) = Lost(g)
  BY <1>1, <1>3, <1>4, TaggedSound
<1> QED BY <1>1, <1>4, <1>5 DEF Settled, f

LEMMA SettledMore ==
  ASSUME NEW e, NEW t, NEW g, NEW f, NEW A, NEW B, Settled(e, t, g, A), Settled(g, t, f, B)
  PROVE  Settled(e, t, f, A \cup B)
BY DEF Settled

\* What a circular group leaves, and the refusal of the anchors still changing.
GroupRefused(e, f, C) ==
  Wrote(e, f, C) /\ Announced(e, f) /\ \A c \in C : RefusedAt(f, c)
AnchorsRefused(e, f, C) ==
  /\ Wrote(e, f, C) /\ \A c \in C : RefusedAt(f, c)
  /\ C \subseteq f.redirty /\ f.refused = e.refused \cup C

LEMMA RefusedMore ==
  ASSUME NEW g, NEW f, NEW C \in SUBSET Formulas(g), NEW a, a \notin C,
         Wrote(g, f, {a}), RefusedAt(f, a), \A c \in C : RefusedAt(g, c)
  PROVE  \A c \in C \cup {a} : RefusedAt(f, c)
<1>1. \A c \in C : c \in Cell \ {a} /\ c \in Formulas(g) \ {a}
  BY DEF Formulas
<1> QED BY <1>1 DEF Wrote, RefusedAt

\* The engines that the members of a circular group lead through, by the
\* members that have run.
Members(g, e, C) ==
  /\ g[{}] = e
  /\ \A s \in SUBSET C : s # {} => g[s] = RunCycleMember(g[s \ {Pick(s)}], Pick(s))

\* The members of a circular group, one after the other.
LEMMA CircularGroupSteps ==
  ASSUME NEW e, NEW t, Sound(e, t), NEW C \in SUBSET Formulas(e)
  PROVE  \E g : /\ Members(g, e, C)
                /\ FoldSet(LAMBDA c, acc : RunCycleMember(acc, c), e, C) = g[C]
                /\ \A s \in SUBSET C : Settled(e, t, g[s], s) /\ GroupRefused(e, g[s], s)
<1> DEFINE Run(g, s) == IF s = {} THEN e ELSE RunCycleMember(g[s \ {Pick(s)}], Pick(s))
           iter == CHOOSE g : g = [s \in SUBSET C |-> Run(g, s)]
           f == [p \in Cell \X Engine |-> RunCycleMember(p[2], p[1])]
           Apply(g, s) == IF s = {} THEN e ELSE f[<<Pick(s), g[s \ {Pick(s)}]>>]
<1>1. IsFiniteSet(C) /\ C \subseteq Cell
  <2>1. C \in SUBSET Cell
    BY DEF Formulas
  <2> QED BY <2>1, CellFacts, FS_Subset
<1>2. \A s \in SUBSET C : s # {} => Pick(s) \in s /\ s \ {Pick(s)} \in SUBSET C
  BY DEF Pick
<1>3. PICK g : g = [s \in SUBSET C |-> Apply(g, s)]
  <2> HIDE DEF f
  <2>1. PICK g : IsFold(g, C, e, f)
    BY <1>1, FoldExists
  <2> QED BY <2>1 DEF IsFold
<1>4. \A s \in SUBSET C : g[s] = Apply(g, s)
  <2> HIDE DEF Apply
  <2> QED BY <1>3
\* Every intermediate engine is sound, so both recursions agree.
<1>5. \A s \in SUBSET C : s \in {u \in SUBSET C : Settled(e, t, g[u], u) /\ GroupRefused(e, g[u], u)}
  <2> DEFINE T == {u \in SUBSET C : Settled(e, t, g[u], u) /\ GroupRefused(e, g[u], u)}
  <2>1. {} \in T
    BY <1>4 DEF Settled, GroupRefused, Wrote, Announced
  <2>2. ASSUME NEW s \in SUBSET C, s # {}, s \ {Pick(s)} \in T PROVE s \in T
    <3> DEFINE x == Pick(s)
               u == s \ {x}
    <3>1. x \in Formulas(e) /\ x \in Cell /\ Settled(e, t, g[u], u) /\ u \cup {x} = s
            /\ GroupRefused(e, g[u], u) /\ x \notin u /\ u \subseteq Formulas(e)
      BY <1>1, <1>2, <2>2
    <3>2. /\ Sound(g[u], t) /\ g[u] \in Engine /\ Mapped(g[u])
          /\ x \in Formulas(g[u]) /\ u \in SUBSET Formulas(g[u])
      BY <3>1 DEF Settled, Sound, Formulas
    <3>3. g[s] = RunCycleMember(g[u], x)
      BY <1>4, <2>2, <3>1, <3>2
    <3> HIDE DEF x, u
    <3>4. Settled(g[u], t, g[s], {x})
      BY <3>2, <3>3, CycleMemberSound
    <3>5. Settled(e, t, g[s], s)
      BY <3>1, <3>4, SettledMore
    <3>6. Wrote(g[u], g[s], {x}) /\ RefusedAt(g[s], x) /\ Announced(g[u], g[s])
      BY <3>2, <3>3, CycleMemberWrote
    <3>7. Wrote(e, g[s], s) /\ Announced(e, g[s])
      BY <3>1, <3>6, WroteTwice, AnnouncedTwice DEF GroupRefused
    <3>8. \A c \in u \cup {x} : RefusedAt(g[s], c)
      BY <3>1, <3>2, <3>6, RefusedMore DEF GroupRefused
    <3> QED BY <3>1, <3>5, <3>7, <3>8 DEF GroupRefused
  <2> HIDE DEF T
  <2>3. \A s \in SUBSET C : s # {} /\ s \ {Pick(s)} \in T => s \in T
    BY <2>2
  <2>4. \A s \in SUBSET C : s \in T
    BY <1>1, <2>1, <2>3, SetInduction
  <2> QED BY <2>4 DEF T
<1>6. \A s \in SUBSET C : Apply(g, s) = Run(g, s)
  <2> SUFFICES ASSUME NEW s \in SUBSET C, s # {} PROVE Apply(g, s) = Run(g, s)
    OBVIOUS
  <2>1. Settled(e, t, g[s \ {Pick(s)}], s \ {Pick(s)}) /\ Pick(s) \in Cell
    BY <1>1, <1>2, <1>5
  <2>2. g[s \ {Pick(s)}] \in Engine
    BY <2>1 DEF Settled, Sound
  <2> QED BY <2>1, <2>2
<1>7. g = [s \in SUBSET C |-> Run(g, s)]
  <2> HIDE DEF Apply, Run
  <2> QED BY <1>3, <1>6
<1>8. iter = [s \in SUBSET C |-> Run(iter, s)]
  <2> DEFINE Is(h) == h = [s \in SUBSET C |-> Run(h, s)]
  <2>1. Is(g) /\ iter = CHOOSE h : Is(h)
    BY <1>7
  <2> HIDE DEF Is, iter
  <2>2. Is(iter)
    BY <2>1
  <2> QED BY <2>2 DEF Is
<1>9. \A s \in SUBSET C : iter[s] = Run(iter, s)
  <2> HIDE DEF iter, Run
  <2> QED BY <1>8
<1> HIDE DEF iter
<1>10. \A s \in SUBSET C : s \in {u \in SUBSET C : iter[u] = g[u]}
  <2> DEFINE T == {u \in SUBSET C : iter[u] = g[u]}
  <2>1. \A s \in SUBSET C : g[s] = Run(g, s)
    BY <1>4, <1>6
  <2>2. {} \in T /\ \A s \in SUBSET C : s # {} /\ s \ {Pick(s)} \in T => s \in T
    BY <1>2, <1>9, <2>1
  <2> HIDE DEF T
  <2>3. \A s \in SUBSET C : s \in T
    BY <1>1, <2>2, SetInduction
  <2> QED BY <2>3 DEF T
<1>11. FoldSet(LAMBDA c, acc : RunCycleMember(acc, c), e, C) = iter[C]
  BY DEF FoldSet, MapThenFoldSet, Pick, iter
<1>12. Members(g, e, C)
  BY <1>4, <1>6 DEF Members
<1> QED BY <1>5, <1>10, <1>11, <1>12

LEMMA CircularGroupSound ==
  ASSUME NEW e, NEW t, Sound(e, t), NEW C \in SUBSET Formulas(e)
  PROVE  LET f == FoldSet(LAMBDA c, acc : RunCycleMember(acc, c), e, C)
         IN Settled(e, t, f, C) /\ GroupRefused(e, f, C)
<1>1. PICK g : /\ FoldSet(LAMBDA c, acc : RunCycleMember(acc, c), e, C) = g[C]
               /\ \A s \in SUBSET C : Settled(e, t, g[s], s) /\ GroupRefused(e, g[s], s)
  BY CircularGroupSteps
<1> QED BY <1>1

LEMMA RefuseAnchorSound ==
  ASSUME NEW e, NEW t, Sound(e, t), NEW c \in Formulas(e)
  PROVE  Settled(e, t, RefuseAnchor(e, c), {c})
<1> DEFINE g == RefuseWith(e, c, UnsupportedError, "Diverged")
           f == RefuseAnchor(e, c)
<1>1. Settled(e, t, g, {c}) /\ g.refused = e.refused /\ g.spills[c] = {}
  <2>1. UnsupportedError \in Value /\ "Diverged" \in Refusal
    BY ValueFacts DEF Refusal
  <2>2. ASSUME NEW v, NEW why, v \in Value, why \in Refusal
        PROVE  /\ Settled(e, t, RefuseWith(e, c, v, why), {c})
               /\ RefuseWith(e, c, v, why).refused = e.refused
               /\ RefuseWith(e, c, v, why).spills[c] = {}
    BY <2>2, RefuseSound
  <2> QED BY <2>1, <2>2
<1>2. f = [g EXCEPT !.refused = @ \cup {c}, !.redirty = @ \cup {c}]
  BY DEF RefuseAnchor
<1>3. Sound(g, t) /\ g \in Engine /\ c \in Cell /\ AnchorsOf(g) \cap g.refused = {} /\ c \notin AnchorsOf(g)
  BY <1>1, ProgramFacts DEF Settled, Sound, Mapped, AnchorsOf
<1> HIDE DEF f, g
<1>4. /\ f \in Engine /\ f.programs = g.programs /\ f.values = g.values /\ f.spills = g.spills
      /\ f.owner = g.owner /\ f.dynamic = g.dynamic /\ f.refused = g.refused \cup {c}
      /\ f.unstable = g.unstable
  BY <1>2, <1>3 DEF Engine
<1>5. AnchorsOf(g) \cap f.refused = {}
  BY <1>3, <1>4
<1>6. Sound(f, t) /\ Lost(f) = Lost(g)
  BY <1>3, <1>4, <1>5, TaggedSound
<1> QED BY <1>1, <1>4, <1>6 DEF Settled, f

\* The anchors still changing, refused one after the other.
LEMMA RefusalsSound ==
  ASSUME NEW e, NEW t, Sound(e, t), NEW C \in SUBSET Formulas(e)
  PROVE  LET f == FoldSet(LAMBDA c, acc : RefuseAnchor(acc, c), e, C)
         IN Settled(e, t, f, C) /\ AnchorsRefused(e, f, C)
<1> DEFINE Run(g, s) == IF s = {} THEN e ELSE RefuseAnchor(g[s \ {Pick(s)}], Pick(s))
           iter == CHOOSE g : g = [s \in SUBSET C |-> Run(g, s)]
           f == [p \in Cell \X Engine |-> RefuseAnchor(p[2], p[1])]
           Apply(g, s) == IF s = {} THEN e ELSE f[<<Pick(s), g[s \ {Pick(s)}]>>]
<1>1. IsFiniteSet(C) /\ C \subseteq Cell
  <2>1. C \in SUBSET Cell
    BY DEF Formulas
  <2> QED BY <2>1, CellFacts, FS_Subset
<1>2. \A s \in SUBSET C : s # {} => Pick(s) \in s /\ s \ {Pick(s)} \in SUBSET C
  BY DEF Pick
<1>3. PICK g : g = [s \in SUBSET C |-> Apply(g, s)]
  <2> HIDE DEF f
  <2>1. PICK g : IsFold(g, C, e, f)
    BY <1>1, FoldExists
  <2> QED BY <2>1 DEF IsFold
<1>4. \A s \in SUBSET C : g[s] = Apply(g, s)
  <2> HIDE DEF Apply
  <2> QED BY <1>3
\* Every intermediate engine is sound, so both recursions agree.
<1>5. \A s \in SUBSET C : s \in {u \in SUBSET C : Settled(e, t, g[u], u) /\ AnchorsRefused(e, g[u], u)}
  <2> DEFINE T == {u \in SUBSET C : Settled(e, t, g[u], u) /\ AnchorsRefused(e, g[u], u)}
  <2>1. {} \in T
    BY <1>4 DEF Settled, AnchorsRefused, Wrote
  <2>2. ASSUME NEW s \in SUBSET C, s # {}, s \ {Pick(s)} \in T PROVE s \in T
    <3> DEFINE x == Pick(s)
               u == s \ {x}
    <3>1. x \in Formulas(e) /\ x \in Cell /\ Settled(e, t, g[u], u) /\ u \cup {x} = s
            /\ AnchorsRefused(e, g[u], u) /\ x \notin u /\ u \subseteq Formulas(e)
      BY <1>1, <1>2, <2>2
    <3>2. /\ Sound(g[u], t) /\ g[u] \in Engine /\ Mapped(g[u])
          /\ x \in Formulas(g[u]) /\ u \in SUBSET Formulas(g[u])
      BY <3>1 DEF Settled, Sound, Formulas
    <3>3. g[s] = RefuseAnchor(g[u], x)
      BY <1>4, <2>2, <3>1, <3>2
    <3> HIDE DEF x, u
    <3>4. Settled(g[u], t, g[s], {x})
      BY <3>2, <3>3, RefuseAnchorSound
    <3>5. Settled(e, t, g[s], s)
      BY <3>1, <3>4, SettledMore
    <3>6. /\ Wrote(g[u], g[s], {x}) /\ RefusedAt(g[s], x)
          /\ x \in g[s].redirty /\ g[s].refused = g[u].refused \cup {x}
      BY <3>2, <3>3, RefuseAnchorWrote
    <3>7. Wrote(e, g[s], s)
      BY <3>1, <3>6, WroteTwice DEF AnchorsRefused
    <3>8. \A c \in u \cup {x} : RefusedAt(g[s], c)
      BY <3>1, <3>2, <3>6, RefusedMore DEF AnchorsRefused
    <3>9. s \subseteq g[s].redirty /\ g[s].refused = e.refused \cup s
      BY <3>1, <3>6 DEF AnchorsRefused, Wrote
    <3> QED BY <3>1, <3>5, <3>7, <3>8, <3>9 DEF AnchorsRefused
  <2> HIDE DEF T
  <2>3. \A s \in SUBSET C : s # {} /\ s \ {Pick(s)} \in T => s \in T
    BY <2>2
  <2>4. \A s \in SUBSET C : s \in T
    BY <1>1, <2>1, <2>3, SetInduction
  <2> QED BY <2>4 DEF T
<1>6. \A s \in SUBSET C : Apply(g, s) = Run(g, s)
  <2> SUFFICES ASSUME NEW s \in SUBSET C, s # {} PROVE Apply(g, s) = Run(g, s)
    OBVIOUS
  <2>1. Settled(e, t, g[s \ {Pick(s)}], s \ {Pick(s)}) /\ Pick(s) \in Cell
    BY <1>1, <1>2, <1>5
  <2>2. g[s \ {Pick(s)}] \in Engine
    BY <2>1 DEF Settled, Sound
  <2> QED BY <2>1, <2>2
<1>7. g = [s \in SUBSET C |-> Run(g, s)]
  <2> HIDE DEF Apply, Run
  <2> QED BY <1>3, <1>6
<1>8. iter = [s \in SUBSET C |-> Run(iter, s)]
  <2> DEFINE Is(h) == h = [s \in SUBSET C |-> Run(h, s)]
  <2>1. Is(g) /\ iter = CHOOSE h : Is(h)
    BY <1>7
  <2> HIDE DEF Is, iter
  <2>2. Is(iter)
    BY <2>1
  <2> QED BY <2>2 DEF Is
<1>9. \A s \in SUBSET C : iter[s] = Run(iter, s)
  <2> HIDE DEF iter, Run
  <2> QED BY <1>8
<1> HIDE DEF iter
<1>10. \A s \in SUBSET C : s \in {u \in SUBSET C : iter[u] = g[u]}
  <2> DEFINE T == {u \in SUBSET C : iter[u] = g[u]}
  <2>1. \A s \in SUBSET C : g[s] = Run(g, s)
    BY <1>4, <1>6
  <2>2. {} \in T /\ \A s \in SUBSET C : s # {} /\ s \ {Pick(s)} \in T => s \in T
    BY <1>2, <1>9, <2>1
  <2> HIDE DEF T
  <2>3. \A s \in SUBSET C : s \in T
    BY <1>1, <2>2, SetInduction
  <2> QED BY <2>3 DEF T
<1>11. FoldSet(LAMBDA c, acc : RefuseAnchor(acc, c), e, C) = iter[C]
  BY DEF FoldSet, MapThenFoldSet, Pick, iter
<1> QED BY <1>5, <1>10, <1>11

LEMMA RunStepSound ==
  ASSUME NEW e, NEW t, Sound(e, t), NEW C \in (SUBSET Formulas(e)) \ {{}}
  PROVE  Settled(e, t, RunStep(e, C), C)
<1>1. CASE IsCircular(e, C)
  <2>1. RunStep(e, C) = FoldSet(LAMBDA c, acc : RunCycleMember(acc, c), e, C)
    BY <1>1 DEF RunStep
  <2>2. C \in SUBSET Formulas(e)
    OBVIOUS
  <2>3. LET f == FoldSet(LAMBDA c, acc : RunCycleMember(acc, c), e, C)
        IN Settled(e, t, f, C) /\ GroupRefused(e, f, C)
    BY <2>2, CircularGroupSound
  <2> QED BY <2>1, <2>3
<1>2. CASE ~ IsCircular(e, C)
  <2>1. IsFiniteSet(C) /\ Cardinality(C) \in Nat
    <3>1. C \in SUBSET Cell
      BY DEF Formulas
    <3> QED BY <3>1, CellFacts, FS_Subset, FS_CardinalityType
  <2>2. ~ (Cardinality(C) > 1) /\ Cardinality(C) # 0
    BY <1>2, <2>1, FS_EmptySet DEF IsCircular
  <2>3. Cardinality(C) = 1
    BY <2>1, <2>2
  <2>4. PICK c : C = {c}
    BY <2>1, <2>3, FS_Singleton
  <2>5. RunStep(e, C) = RunCell(e, c) /\ c \in Formulas(e)
    <3>1. (CHOOSE x \in C : TRUE) = c
      BY <2>4
    <3> QED BY <1>2, <2>4, <3>1 DEF RunStep
  <2> QED BY <2>4, <2>5, RunCellSound
<1> QED BY <1>1, <1>2

\* A refused formula stays refused while others are written.
LEMMA RefusedKept ==
  ASSUME NEW e, NEW f, NEW S, Wrote(e, f, S), NEW a \in Formulas(e) \ S, RefusedAt(e, a)
  PROVE  RefusedAt(f, a)
<1>1. a \in Cell \ S
  BY DEF Formulas
<1> QED BY <1>1 DEF Wrote, RefusedAt

\* The cells refused in this call are formulas, and show that they are.
RefusalsStand(e) == \A a \in e.refused : a \in Formulas(e) /\ RefusedAt(e, a)

\* A step leaves its formulas right, but for those that read a cell it collects.
LEMMA RunStepRight ==
  ASSUME NEW e, NEW t, Sound(e, t), NEW C \in (SUBSET Formulas(e)) \ {{}},
         \A c \in C : Named(e, c) \cap Lost(e) \subseteq C, RefusalsStand(e)
  PROVE  LET f == RunStep(e, C)
         IN /\ Wrote(e, f, C) /\ Announced(e, f) /\ RefusalsStand(f)
            /\ \A c \in C : Right(f, c) \/ Named(e, c) \cap f.redirty # {}
<1> DEFINE f == RunStep(e, C)
           Ends(h) == /\ Wrote(e, h, C) /\ Announced(e, h) /\ RefusalsStand(h)
                      /\ \A c \in C : Right(h, c) \/ Named(e, c) \cap h.redirty # {}
<1>0. e \in Engine /\ Mapped(e)
  BY DEF Sound
<1>1. CASE IsCircular(e, C)
  <2>1. f = FoldSet(LAMBDA c, acc : RunCycleMember(acc, c), e, C)
    BY <1>1 DEF RunStep
  <2>2. C \in SUBSET Formulas(e)
    OBVIOUS
  <2>3. LET h == FoldSet(LAMBDA c, acc : RunCycleMember(acc, c), e, C)
        IN Settled(e, t, h, C) /\ GroupRefused(e, h, C)
    BY <2>2, CircularGroupSound
  <2>4. GroupRefused(e, f, C)
    BY <2>1, <2>3
  <2> HIDE DEF f
  <2>5. Formulas(f) = Formulas(e) /\ f.refused = e.refused
    BY <2>4 DEF GroupRefused, Wrote, Announced, Formulas
  <2>6. ASSUME NEW a \in f.refused PROVE a \in Formulas(f) /\ RefusedAt(f, a)
    <3>1. a \in Formulas(e) /\ RefusedAt(e, a)
      BY <2>5 DEF RefusalsStand
    <3>2. CASE a \in C
      BY <2>4, <2>5, <3>1, <3>2 DEF GroupRefused
    <3>3. CASE a \notin C
      BY <2>4, <2>5, <3>1, <3>3, RefusedKept DEF GroupRefused
    <3> QED BY <3>2, <3>3
  <2>7. Ends(f)
    BY <2>4, <2>6 DEF GroupRefused, RefusalsStand, Right
  <2> QED BY <2>7 DEF f
<1>2. CASE ~ IsCircular(e, C)
  <2>1. IsFiniteSet(C) /\ Cardinality(C) \in Nat
    <3>1. C \in SUBSET Cell
      BY DEF Formulas
    <3> QED BY <3>1, CellFacts, FS_Subset, FS_CardinalityType
  <2>2. ~ (Cardinality(C) > 1) /\ Cardinality(C) # 0
    BY <1>2, <2>1, FS_EmptySet DEF IsCircular
  <2>3. Cardinality(C) = 1
    BY <2>1, <2>2
  <2>4. PICK c : C = {c}
    BY <2>1, <2>3, FS_Singleton
  <2>5. f = RunCell(e, c) /\ c \in Formulas(e)
    <3>1. (CHOOSE x \in C : TRUE) = c
      BY <2>4
    <3> QED BY <1>2, <2>4, <3>1 DEF RunStep
  <2>6. c \notin Named(e, c)
    BY <1>2, <2>4 DEF IsCircular, Named
  <2>7. Named(e, c) \cap Lost(e) = {}
    BY <2>4, <2>6
  <2> HIDE DEF f
  <2>8. CASE c \in e.refused
    <3>1. f = e
      BY <2>5, <2>8 DEF RunCell, Skipped
    <3>2. Right(e, c)
      BY <2>8 DEF RefusalsStand, Right
    <3>3. Ends(e)
      BY <2>4, <3>2 DEF Wrote, Announced
    <3> QED BY <3>1, <3>3 DEF f
  <2>9. CASE c \notin e.refused
    <3>1. /\ Wrote(e, f, {c}) /\ Announced(e, f)
          /\ Right(f, c) \/ Named(e, c) \cap f.redirty # {}
      BY <2>5, <2>6, <2>7, <2>9, RunCellWrote
    <3>2. Formulas(f) = Formulas(e) /\ f.refused = e.refused
      BY <3>1 DEF Wrote, Announced, Formulas
    <3>3. ASSUME NEW a \in f.refused PROVE a \in Formulas(f) /\ RefusedAt(f, a)
      <4>1. a \in Formulas(e) /\ RefusedAt(e, a) /\ a # c
        BY <2>9, <3>2 DEF RefusalsStand
      <4>2. RefusedAt(f, a)
        BY <3>1, <4>1, RefusedKept
      <4> QED BY <3>2, <4>1, <4>2
    <3>4. Ends(f)
      BY <2>4, <3>1, <3>3 DEF RefusalsStand
    <3> QED BY <3>4 DEF f
  <2> QED BY <2>8, <2>9
<1> QED BY <1>1, <1>2

-----------------------------------------------------------------------------
(* Plans. *)

LEMMA SeqFacts ==
  ASSUME NEW E, NEW s \in Seq(E)
  PROVE  \E n \in Nat : Len(s) = n /\ DOMAIN s = 1 .. n /\ \A i \in 1 .. n : s[i] \in E
<1>1. Len(s) \in Nat /\ DOMAIN s = 1 .. Len(s) /\ \A i \in 1 .. Len(s) : s[i] \in E
  BY LenProperties, ElementOfSeq
<1> QED BY <1>1

\* The steps of a plan with a dirty member, in the order of the plan.
Subplan(kept, steps, D) ==
  \E h \in [DOMAIN kept -> DOMAIN steps] :
    /\ \A i, j \in DOMAIN kept : i < j => h[i] < h[j]
    /\ \A i \in DOMAIN kept : kept[i] = steps[h[i]] /\ steps[h[i]] \cap D # {}
    /\ \A k \in DOMAIN steps : steps[k] \cap D # {} => \E i \in DOMAIN kept : h[i] = k

LEMMA FilteredFacts ==
  ASSUME NEW E, NEW steps \in Seq(E), NEW D
  PROVE  /\ Filtered(steps, D) \in Seq(E)
         /\ Subplan(Filtered(steps, D), steps, D)
<1>1. PICK n \in Nat : Len(steps) = n /\ DOMAIN steps = 1 .. n /\ \A i \in 1 .. n : steps[i] \in E
  BY SeqFacts
<1> DEFINE Kept(C) == C \cap D # {}
           Body(g, i) == IF i = 0 THEN <<>>
                         ELSE IF Kept(steps[i]) THEN Append(g[i - 1], steps[i]) ELSE g[i - 1]
           Keeps(g, m) == g = [i \in 0 .. m |-> Body(g, i)]
\* The recursion defines a function.
<1>2. \A m \in Nat : \E g : Keeps(g, m)
  <2> DEFINE Bad == {m \in Nat : ~ \E g : Keeps(g, m)}
  <2> SUFFICES ASSUME Bad # {} PROVE FALSE
    OBVIOUS
  <2>1. PICK m \in Bad : \A k \in Bad : m <= k
    <3>1. Bad \subseteq Nat
      OBVIOUS
    <3> HIDE DEF Bad
    <3> QED BY <3>1, LeastNatural
  <2>2. m \in Nat /\ ~ \E g : Keeps(g, m)
    BY <2>1
  <2>3. CASE m = 0
    <3> DEFINE g == [i \in 0 .. 0 |-> <<>>]
    <3>1. Keeps(g, 0)
      OBVIOUS
    <3> HIDE DEF Keeps, g
    <3> QED BY <2>2, <2>3, <3>1
  <2>4. CASE m # 0
    <3>1. m - 1 \in Nat /\ ~ (m <= m - 1)
      BY <2>2, <2>4
    <3>2. PICK g : Keeps(g, m - 1)
      <4>1. m - 1 \notin Bad
        <5> HIDE DEF Bad
        <5> QED BY <2>1, <3>1
      <4> HIDE DEF Keeps
      <4> QED BY <3>1, <4>1
    <3> DEFINE f == [i \in 0 .. m |-> Body(g, i)]
    <3>3. \A i \in 0 .. m - 1 : f[i] = g[i]
      <4>1. \A i \in 0 .. m - 1 : i \in 0 .. m
        BY <3>1
      <4>2. g = [i \in 0 .. m - 1 |-> Body(g, i)]
        BY <3>2
      <4> HIDE DEF Body
      <4> QED BY <4>1, <4>2
    <3>4. \A i \in 0 .. m : Body(f, i) = Body(g, i)
      <4> SUFFICES ASSUME NEW i \in 0 .. m PROVE Body(f, i) = Body(g, i)
        OBVIOUS
      <4>1. CASE i = 0
        BY <4>1
      <4>2. CASE i # 0
        <5>1. i - 1 \in 0 .. m - 1
          BY <4>2, <2>2
        <5>2. f[i - 1] = g[i - 1]
          BY <3>3, <5>1
        <5> HIDE DEF f
        <5> QED BY <4>2, <5>2
      <4> QED BY <4>1, <4>2
    <3>5. Keeps(f, m)
      <4>1. f = [i \in 0 .. m |-> Body(g, i)]
        OBVIOUS
      <4> HIDE DEF f, Body
      <4> QED BY <3>4, <4>1
    <3> HIDE DEF Keeps, f
    <3> QED BY <2>2, <3>5
  <2> QED BY <2>3, <2>4
<1> DEFINE kept == CHOOSE g : Keeps(g, n)
<1>3. Keeps(kept, n)
  <2> HIDE DEF Keeps
  <2> QED BY <1>2
<1>4. Filtered(steps, D) = kept[n]
  BY <1>1 DEF Filtered
<1> HIDE DEF kept
<1>5. kept[0] = <<>>
  BY <1>3
<1>6. ASSUME NEW i \in 1 .. n
      PROVE  kept[i] = IF Kept(steps[i]) THEN Append(kept[i - 1], steps[i]) ELSE kept[i - 1]
  <2>1. i \in 0 .. n /\ i # 0
    BY <1>1
  <2> QED BY <1>3, <2>1
<1> HIDE DEF Keeps, Body
\* Each part of it is an embedding of the steps kept so far.
<1> DEFINE Embeds(q, m, h) ==
             /\ h \in [DOMAIN q -> 1 .. m]
             /\ \A i, j \in DOMAIN q : i < j => h[i] < h[j]
             /\ \A i \in DOMAIN q : q[i] = steps[h[i]] /\ Kept(steps[h[i]])
             /\ \A k \in 1 .. m : Kept(steps[k]) => \E i \in DOMAIN q : h[i] = k
           Good(m) == kept[m] \in Seq(E) /\ \E h : Embeds(kept[m], m, h)
<1>7. \A m \in 0 .. n : Good(m)
  <2> DEFINE Bad == {m \in 0 .. n : ~ Good(m)}
  <2> SUFFICES ASSUME Bad # {} PROVE FALSE
    OBVIOUS
  <2>1. PICK m \in Bad : \A k \in Bad : m <= k
    <3>1. Bad \subseteq Nat
      BY <1>1
    <3> HIDE DEF Bad
    <3> QED BY <3>1, LeastNatural
  <2>2. m \in 0 .. n /\ ~ Good(m)
    BY <2>1
  <2>3. CASE m = 0
    <3>1. kept[0] \in Seq(E) /\ DOMAIN kept[0] = {}
      BY <1>5, EmptySeq
    <3>2. Embeds(kept[0], 0, [i \in {} |-> 0])
      BY <3>1
    <3> HIDE DEF Embeds
    <3> QED BY <2>2, <2>3, <3>1, <3>2
  <2>4. CASE m # 0
    <3>1. m \in 1 .. n /\ m - 1 \in 0 .. n /\ ~ (m <= m - 1)
      BY <1>1, <2>2, <2>4
    <3>2. Good(m - 1)
      <4>1. m - 1 \notin Bad
        <5> HIDE DEF Bad
        <5> QED BY <2>1, <3>1
      <4> HIDE DEF Good
      <4> QED BY <3>1, <4>1
    <3> DEFINE q == kept[m - 1]
    <3>3. PICK h : Embeds(q, m - 1, h)
      BY <3>2
    <3>4. q \in Seq(E)
      BY <3>2
    <3> HIDE DEF q
    <3>5. \A k \in 1 .. m : k = m \/ k \in 1 .. m - 1
      BY <3>1
    <3>6. \A k \in 1 .. m - 1 : k \in 1 .. m /\ k < m
      BY <3>1
    <3>7. CASE ~ Kept(steps[m])
      <4>1. kept[m] = q
        BY <1>6, <3>1, <3>7 DEF q
      <4>2. h \in [DOMAIN q -> 1 .. m]
        BY <3>3, <3>6
      <4>3. Embeds(q, m, h)
        BY <3>3, <3>5, <3>7, <4>2
      <4> HIDE DEF Embeds
      <4> QED BY <2>2, <3>4, <4>1, <4>3
    <3>8. CASE Kept(steps[m])
      <4>1. kept[m] = Append(q, steps[m]) /\ steps[m] \in E
        BY <1>1, <1>6, <3>1, <3>8 DEF q
      <4>2. PICK l \in Nat : l = Len(q) /\ DOMAIN q = 1 .. l
        BY <3>4, SeqFacts
      <4> DEFINE r == kept[m]
                 g == [i \in 1 .. l + 1 |-> IF i = l + 1 THEN m ELSE h[i]]
      <4>3. /\ r \in Seq(E) /\ DOMAIN r = 1 .. l + 1
            /\ \A i \in 1 .. l : r[i] = q[i]
            /\ r[l + 1] = steps[m]
        BY <4>1, <4>2, <3>4, AppendProperties, LenProperties
      <4>4. \A i \in 1 .. l + 1 : i = l + 1 \/ i \in 1 .. l
        BY <4>2
      <4>5. \A i \in 1 .. l : i \in 1 .. l + 1 /\ i # l + 1 /\ i < l + 1
        BY <4>2
      <4>6. /\ g \in [1 .. l + 1 -> 1 .. m] /\ g[l + 1] = m
            /\ \A i \in 1 .. l : g[i] = h[i] /\ h[i] \in 1 .. m - 1
        <5>1. \A i \in 1 .. l : h[i] \in 1 .. m - 1
          BY <3>3, <4>2
        <5>2. \A i \in 1 .. l : g[i] = h[i]
          BY <4>5
        <5>3. l + 1 \in 1 .. l + 1 /\ m \in 1 .. m
          BY <3>1, <4>2
        <5>4. g[l + 1] = m
          BY <5>3
        <5>5. \A i \in 1 .. l + 1 : g[i] \in 1 .. m
          BY <5>1, <5>2, <5>3, <5>4, <3>6, <4>4
        <5>6. g \in [1 .. l + 1 -> 1 .. m]
          <6>1. g = [i \in 1 .. l + 1 |-> g[i]]
            OBVIOUS
          <6> HIDE DEF g
          <6> QED BY <5>5, <6>1
        <5> QED BY <5>1, <5>2, <5>4, <5>6
      <4> HIDE DEF g, r
      <4>7. \A i, j \in 1 .. l + 1 : i < j => g[i] < g[j]
        <5> SUFFICES ASSUME NEW i \in 1 .. l + 1, NEW j \in 1 .. l + 1, i < j
                     PROVE  g[i] < g[j]
          OBVIOUS
        <5>1. i \in 1 .. l
          BY <4>2
        <5>2. CASE j = l + 1
          BY <5>1, <5>2, <4>6, <3>6
        <5>3. CASE j \in 1 .. l
          BY <5>1, <5>3, <4>2, <4>6, <3>3
        <5> QED BY <5>2, <5>3, <4>4
      <4>8. \A i \in 1 .. l + 1 : r[i] = steps[g[i]] /\ Kept(steps[g[i]])
        <5>1. \A i \in 1 .. l : q[i] = steps[h[i]] /\ Kept(steps[h[i]])
          BY <3>3, <4>2
        <5> QED BY <5>1, <3>8, <4>3, <4>4, <4>6
      <4>9. \A k \in 1 .. m : Kept(steps[k]) => \E i \in 1 .. l + 1 : g[i] = k
        <5>1. \A k \in 1 .. m - 1 : Kept(steps[k]) => \E i \in 1 .. l : h[i] = k
          BY <3>3, <4>2
        <5>2. l + 1 \in 1 .. l + 1
          BY <4>2
        <5> QED BY <5>1, <5>2, <3>5, <4>5, <4>6
      <4>10. Embeds(r, m, g)
        BY <4>3, <4>6, <4>7, <4>8, <4>9
      <4> HIDE DEF Embeds
      <4> QED BY <2>2, <4>3, <4>10 DEF r
    <3> QED BY <3>7, <3>8
  <2> QED BY <2>3, <2>4
<1>8. n \in 0 .. n
  BY <1>1
<1>9. kept[n] \in Seq(E) /\ \E h : Embeds(kept[n], n, h)
  <2> HIDE DEF Embeds
  <2> QED BY <1>7, <1>8
<1> QED BY <1>1, <1>4, <1>9 DEF Subplan

LEMMA DirtiedFacts ==
  ASSUME NEW e, NEW S
  PROVE  S \cap Formulas(e) \subseteq Dirtied(e, S)
BY DEF Dirtied

\* Everything downstream of the seeds, and no more than that.
LEMMA DirtiedClosed ==
  ASSUME NEW e \in Engine, NEW S, NEW a \in Formulas(e),
         Named(e, a) \cap (S \cup Dirtied(e, S)) # {}
  PROVE  a \in Dirtied(e, S)
<1>1. PICK x \in Named(e, a) : x \in S \/ x \in Dirtied(e, S)
  OBVIOUS
<1>2. <<a, x>> \in Reads(e)
  BY <1>1 DEF Reads, Named
<1>3. ASSUME NEW T \in SUBSET Cell, S \subseteq T, \A r \in Reads(e) : r[2] \in T => r[1] \in T
      PROVE  a \in T
  <2>1. x \in T
    BY <1>1, <1>3 DEF Dirtied
  <2>2. <<a, x>>[2] \in T => <<a, x>>[1] \in T
    BY <1>2, <1>3
  <2> QED BY <2>1, <2>2
<1> QED BY <1>3 DEF Dirtied

LEMMA DirtiedMore ==
  ASSUME NEW e, NEW f, f.programs = e.programs, NEW S, NEW T, S \subseteq T
  PROVE  Dirtied(e, S) \subseteq Dirtied(f, T)
<1>1. Formulas(f) = Formulas(e)
  BY DEF Formulas
<1>2. Reads(f) = Reads(e)
  BY <1>1 DEF Reads
<1> QED BY <1>1, <1>2 DEF Dirtied

LEMMA DirtiedNone ==
  ASSUME NEW e PROVE Dirtied(e, {}) = {}
<1>1. {} \in SUBSET Cell /\ \A r \in Reads(e) : r[2] \in {} => r[1] \in {}
  OBVIOUS
<1> QED BY <1>1 DEF Dirtied

\* The full plan of an engine, and what is left of it by a filter.
LEMMA PlanFacts ==
  ASSUME NEW e \in Engine, NEW D
  PROVE  /\ FullPlan(e) \in Seq((SUBSET Formulas(e)) \ {{}})
         /\ Formulas(e) \subseteq UNION ToSet(FullPlan(e))
         /\ PlanOf(e, D) \in Seq((SUBSET Formulas(e)) \ {{}})
         /\ D \cap Formulas(e) \subseteq UNION ToSet(PlanOf(e, D))
<1>1. /\ FullPlan(e) \in Seq((SUBSET Formulas(e)) \ {{}})
      /\ Formulas(e) \subseteq UNION ToSet(FullPlan(e))
  BY EngineFacts, PlansAssumption DEF FullPlan, Formulas
<1> DEFINE steps == FullPlan(e)
           kept == PlanOf(e, D)
<1>2. kept \in Seq((SUBSET Formulas(e)) \ {{}}) /\ Subplan(kept, steps, D)
  BY <1>1, FilteredFacts DEF PlanOf
<1> HIDE DEF steps, kept
<1>3. D \cap Formulas(e) \subseteq UNION ToSet(kept)
  <2> SUFFICES ASSUME NEW c \in D \cap Formulas(e) PROVE c \in UNION ToSet(kept)
    OBVIOUS
  <2>1. PICK k \in DOMAIN steps : c \in steps[k]
    BY <1>1 DEF ToSet, steps
  <2>2. \E i \in DOMAIN kept : kept[i] = steps[k]
    BY <1>2, <2>1 DEF Subplan
  <2> QED BY <2>1, <2>2 DEF ToSet
<1> QED BY <1>1, <1>2, <1>3 DEF kept

\* Each formula of a plan runs once, and those it feeds are in the plan, in its
\* own step or a later one.
Chained(e, s) ==
  /\ \A i, j \in DOMAIN s : i # j => s[i] \cap s[j] = {}
  /\ \A i \in DOMAIN s, a \in Formulas(e) :
       Named(e, a) \cap s[i] # {} => \E j \in DOMAIN s : i <= j /\ a \in s[j]

\* A set of cells that holds the formulas its members feed.
Followed(e, D) == \A a \in Formulas(e) : Named(e, a) \cap D # {} => a \in D

LEMMA PlanChained ==
  ASSUME NEW e \in Engine
  PROVE  /\ Chained(e, FullPlan(e))
         /\ \A D \in SUBSET Cell : Followed(e, D) => Chained(e, PlanOf(e, D))
<1> DEFINE steps == FullPlan(e)
           readers(S) == {c \in Cell : e.programs[c].src \cap S # {}}
<1>1. e.programs \in Programs /\ e.programs \in [Cell -> Program] /\ Formulas(e) \subseteq Cell
  BY EngineFacts
<1>2. /\ steps \in Seq((SUBSET Formulas(e)) \ {{}})
      /\ Formulas(e) \subseteq UNION ToSet(steps)
      /\ \A i, j \in DOMAIN steps :
           /\ i # j => steps[i] \cap steps[j] = {}
           /\ readers(steps[i]) \cap steps[j] # {} => i <= j
      /\ \A S \in SUBSET Cell : readers(S) \subseteq S =>
           \A i \in DOMAIN steps : steps[i] \cap S = {} \/ steps[i] \subseteq S
  BY <1>1, PlansAssumption DEF FullPlan, Formulas
<1>3. PICK n \in Nat : DOMAIN steps = 1 .. n /\ \A i \in 1 .. n : steps[i] \in (SUBSET Formulas(e)) \ {{}}
  BY <1>2, SeqFacts
<1> HIDE DEF steps
<1>4. \A a \in Formulas(e) : \E j \in DOMAIN steps : a \in steps[j]
  BY <1>2 DEF ToSet
<1>5. ASSUME NEW i \in DOMAIN steps, NEW j \in DOMAIN steps, NEW a \in Formulas(e),
             Named(e, a) \cap steps[i] # {}, a \in steps[j]
      PROVE  i <= j
  <2>1. a \in readers(steps[i])
    BY <1>1, <1>5 DEF Named
  <2> HIDE DEF readers
  <2> QED BY <1>2, <1>5, <2>1
<1>6. Chained(e, steps)
  <2>1. \A i, j \in DOMAIN steps : i # j => steps[i] \cap steps[j] = {}
    BY <1>2
  <2>2. \A i \in DOMAIN steps, a \in Formulas(e) :
          Named(e, a) \cap steps[i] # {} => \E j \in DOMAIN steps : i <= j /\ a \in steps[j]
    BY <1>4, <1>5
  <2> QED BY <2>1, <2>2 DEF Chained
<1>7. ASSUME NEW D \in SUBSET Cell, Followed(e, D) PROVE Chained(e, PlanOf(e, D))
  <2> DEFINE kept == PlanOf(e, D)
  <2>1. PICK h \in [DOMAIN kept -> DOMAIN steps] :
          /\ \A i, j \in DOMAIN kept : i < j => h[i] < h[j]
          /\ \A i \in DOMAIN kept : kept[i] = steps[h[i]] /\ steps[h[i]] \cap D # {}
          /\ \A k \in DOMAIN steps : steps[k] \cap D # {} => \E i \in DOMAIN kept : h[i] = k
    <3>1. Subplan(kept, steps, D)
      <4>1. kept = Filtered(steps, D)
        BY DEF PlanOf, steps
      <4> HIDE DEF kept
      <4> QED BY <1>2, <4>1, FilteredFacts
    <3> HIDE DEF kept
    <3> QED BY <3>1 DEF Subplan
  <2>2. PICK m \in Nat : DOMAIN kept = 1 .. m
    <3>1. kept \in Seq((SUBSET Formulas(e)) \ {{}})
      BY PlanFacts
    <3> HIDE DEF kept
    <3> QED BY <3>1, SeqFacts
  <2> HIDE DEF kept
  <2>3. \A i \in DOMAIN kept : i \in Nat /\ h[i] \in DOMAIN steps /\ h[i] \in Nat
    BY <1>3, <2>1, <2>2
  <2>4. \A i, j \in DOMAIN kept : i # j => h[i] # h[j]
    <3>1. \A i, j \in DOMAIN kept : i # j => i < j \/ j < i
      BY <2>3
    <3> QED BY <2>1, <2>3, <3>1
  <2>5. \A i, j \in DOMAIN kept : h[i] <= h[j] => i <= j
    <3>1. \A i, j \in DOMAIN kept : i <= j \/ j < i
      BY <2>3
    <3> QED BY <2>1, <2>3, <3>1
  <2>6. readers(D) \subseteq D
    <3>1. \A c \in Cell : e.programs[c].src \cap D # {} => c \in Formulas(e)
      BY DEF Formulas, NoProgram
    <3> QED BY <1>7, <3>1 DEF Followed, Named
  <2>7. \A k \in DOMAIN steps : steps[k] \cap D # {} => steps[k] \subseteq D
    <3> HIDE DEF readers
    <3> QED BY <1>2, <2>6
  <2>8. \A i, j \in DOMAIN kept : i # j => kept[i] \cap kept[j] = {}
    BY <1>2, <2>1, <2>3, <2>4
  <2>9. ASSUME NEW i \in DOMAIN kept, NEW a \in Formulas(e), Named(e, a) \cap kept[i] # {}
        PROVE  \E j \in DOMAIN kept : i <= j /\ a \in kept[j]
    <3>1. h[i] \in DOMAIN steps /\ Named(e, a) \cap steps[h[i]] # {} /\ steps[h[i]] \subseteq D
      BY <2>1, <2>3, <2>7, <2>9
    <3>2. a \in D
      BY <1>7, <3>1 DEF Followed
    <3>3. PICK k \in DOMAIN steps : a \in steps[k] /\ h[i] <= k
      BY <1>4, <1>5, <3>1
    <3>4. PICK j \in DOMAIN kept : h[j] = k
      BY <2>1, <3>2, <3>3
    <3> QED BY <2>1, <2>5, <3>3, <3>4
  <2> QED BY <2>8, <2>9 DEF Chained, kept
<1> QED BY <1>6, <1>7 DEF steps

LEMMA TailFacts ==
  ASSUME NEW E, NEW s \in Seq(E), s # <<>>
  PROVE  \E n \in Nat \ {0} :
           /\ DOMAIN s = 1 .. n /\ DOMAIN Tail(s) = 1 .. n - 1 /\ Head(s) = s[1]
           /\ \A i \in 1 .. n - 1 : Tail(s)[i] = s[i + 1]
<1>1. PICK n \in Nat : Len(s) = n /\ DOMAIN s = 1 .. n
  BY SeqFacts
<1>2. /\ Head(s) = s[1] /\ Tail(s) \in Seq(E) /\ Len(Tail(s)) = n - 1
      /\ \A i \in 1 .. n - 1 : Tail(s)[i] = s[i + 1]
  BY <1>1, HeadTailProperties
<1>3. n # 0
  BY <1>1, EmptySeq
<1>4. DOMAIN Tail(s) = 1 .. n - 1
  BY <1>2, LenProperties
<1> QED BY <1>1, <1>2, <1>3, <1>4

-----------------------------------------------------------------------------
(* Every action keeps the invariant. *)

LEMMA ShownFacts ==
  ASSUME NEW e \in Engine PROVE Shown(e) \in [Cell -> Value]
BY ReadCellFacts DEF Shown

LEMMA LoadedSound ==
  ASSUME NEW p \in Programs, NEW t \in [Cell -> Value],
         \A c \in Cell : p[c] # NoProgram => t[c] \in {Absent, Blank}
  PROVE  /\ Sound(Loaded(p, t), t) /\ Lost(Loaded(p, t)) = {}
         /\ Loaded(p, t).programs = p /\ Loaded(p, t).unstable = {}
<1> DEFINE e == Loaded(p, t)
           values == [c \in Cell |-> IF p[c] = NoProgram THEN t[c] ELSE Blank]
           diags == [c \in Cell |-> IF p[c].op = "unparsed" THEN {"Unparsed"} ELSE {}]
<1>1. values \in [Cell -> Value] /\ diags \in [Cell -> SUBSET (Refusal \cup {"Unparsed"})]
  BY ValueFacts
<1>2. /\ e = [programs |-> p, values |-> values, spills |-> [c \in Cell |-> {}],
              owner |-> [c \in Cell |-> NoOwner], dynamic |-> {}, redirty |-> {},
              unstable |-> {}, refused |-> {}, diags |-> diags]
  BY DEF Loaded
<1> HIDE DEF e, diags
<1>3. e \in Engine
  <2> HIDE DEF values
  <2> QED BY <1>1, <1>2 DEF Engine
<1>4. /\ e.programs = p /\ e.values = values /\ e.dynamic = {} /\ e.refused = {} /\ e.unstable = {}
      /\ \A c \in Cell : e.spills[c] = {} /\ e.owner[c] = NoOwner
  BY <1>2
<1>5. AnchorsOf(e) = {} /\ Lost(e) = {}
  BY <1>4 DEF AnchorsOf, Lost
<1>6. Mapped(e)
  BY <1>4, <1>5 DEF Mapped, Formulas
<1>7. Accounted(e, t) /\ LiteralsKept(e, t)
  BY <1>4 DEF Accounted, LiteralsKept, Formulas
<1> QED BY <1>3, <1>4, <1>5, <1>6, <1>7 DEF Sound, e

LEMMA InitInv == Init => Inv
<1> SUFFICES ASSUME Init PROVE Inv
  OBVIOUS
<1>1. PICK w \in Workbooks :
        /\ engine = Loaded(w.programs, w.typed) /\ typed = w.typed
        /\ pc = "loaded" /\ plan = <<>> /\ iters = 0 /\ call = "load" /\ before = NoSnapshot
  BY DEF Init
<1>2. w.programs \in Programs /\ w.typed \in [Cell -> Value]
      /\ \A c \in Cell : w.programs[c] # NoProgram => w.typed[c] = Absent
  BY WorkbooksAssumption
<1>3. Sound(engine, typed) /\ Lost(engine) = {}
  BY <1>1, <1>2, LoadedSound
<1>4. Pending
  BY <1>1, <1>3, EmptySeq DEF Pending
<1>5. iters \in 0 .. Cap /\ ~ (iters > 0)
  BY <1>1, CapAssumption
<1> QED BY <1>1, <1>2, <1>3, <1>4, <1>5 DEF Inv, Changing

LEMMA RecalcKeepsInv == Inv /\ Recalc => Inv'
<1>a. SUFFICES ASSUME Inv, Recalc PROVE Inv'
  OBVIOUS
<1>1. /\ pc # "run" /\ engine' = [engine EXCEPT !.refused = {}] /\ plan' = FullPlan(engine)
      /\ iters' = 0 /\ pc' = "run" /\ UNCHANGED typed
      /\ before' \in {Shown(engine), before, NoSnapshot}
      /\ call' \in {"recalc", "rebuild", "again"}
  BY <1>a DEF Recalc, Drive, Recorded
<1>2. /\ Sound(engine, typed) /\ Pending /\ typed \in [Cell -> Value]
      /\ before \in [Cell -> Value] \cup {NoSnapshot}
  BY <1>a DEF Inv
<1>3. engine \in Engine
  BY <1>2 DEF Sound
<1>4. /\ engine' \in Engine /\ engine'.programs = engine.programs /\ engine'.values = engine.values
      /\ engine'.spills = engine.spills /\ engine'.owner = engine.owner
      /\ engine'.dynamic = engine.dynamic /\ engine'.refused = {}
  BY <1>1, <1>3 DEF Engine
<1>5. Sound(engine', typed) /\ Lost(engine') = {}
  BY <1>1, <1>2, <1>4, TaggedSound DEF Pending
<1>6. Formulas(engine') = Formulas(engine) /\ plan' \in Seq((SUBSET Formulas(engine)) \ {{}})
  BY <1>1, <1>3, <1>4, PlanFacts DEF Formulas
<1>7. Pending'
  BY <1>1, <1>5, <1>6 DEF Pending
<1>8. before' \in [Cell -> Value] \cup {NoSnapshot}
  BY <1>1, <1>2, <1>3, ShownFacts
<1>9. iters' \in 0 .. Cap /\ ~ (iters' > 0)
  BY <1>1, CapAssumption
<1> QED BY <1>1, <1>2, <1>5, <1>7, <1>8, <1>9 DEF Inv, Changing
\* Once the edited cell has left the region of another anchor, the maps agree,
\* and that anchor alone lacks a cell.
LEMMA ReleasedFacts ==
  ASSUME NEW e, NEW t, Sound(e, t), Lost(e) = {}, NEW c \in Cell
  PROVE  LET g == Released(e, c)
         IN /\ g \in Engine /\ Mapped(g) /\ LiteralsKept(g, t)
            /\ g.programs = e.programs /\ g.values = e.values /\ g.spills = e.spills
            /\ g.dynamic = e.dynamic /\ g.refused = e.refused
            /\ g.owner[c] \in {c, NoOwner} /\ \A x \in Cell \ {c} : g.owner[x] = e.owner[x]
            /\ Lost(g) \subseteq MarkedFirst(e, c)
            /\ MarkedFirst(e, c) \subseteq Formulas(e) \ {c}
<1> DEFINE g == Released(e, c)
<1>1. /\ e \in Engine /\ Mapped(e) /\ Accounted(e, t) /\ LiteralsKept(e, t)
      /\ e.owner \in [Cell -> Cell \cup {NoOwner}] /\ e.spills \in [Cell -> SUBSET Cell]
      /\ Formulas(e) \subseteq Cell
  BY EngineFacts DEF Sound
<1>2. /\ g \in Engine /\ g.programs = e.programs /\ g.values = e.values /\ g.spills = e.spills
      /\ g.dynamic = e.dynamic /\ g.refused = e.refused
      /\ \A x \in Cell : g.owner[x] = IF x = c /\ e.owner[c] # c THEN NoOwner ELSE e.owner[x]
  <2>1. CASE e.owner[c] # c
    <3> DEFINE owner == [e.owner EXCEPT ![c] = NoOwner]
    <3>1. g = [e EXCEPT !.owner = owner]
      BY <2>1 DEF Released, Engine
    <3>2. owner \in [Cell -> Cell \cup {NoOwner}]
          /\ \A x \in Cell : owner[x] = IF x = c THEN NoOwner ELSE e.owner[x]
      BY <1>1
    <3> HIDE DEF owner, g
    <3>3. g \in Engine /\ g.owner = owner
      BY <1>1, <3>1, <3>2 DEF Engine
    <3> QED BY <2>1, <1>1, <3>1, <3>2, <3>3 DEF Engine
  <2>2. CASE e.owner[c] = c
    BY <1>1, <2>2 DEF Released
  <2> QED BY <2>1, <2>2
<1> HIDE DEF g
<1>3. Formulas(g) = Formulas(e) /\ AnchorsOf(g) = AnchorsOf(e)
  BY <1>2 DEF Formulas, AnchorsOf
<1>4. Mapped(g)
  <2>1. \A x \in Cell : g.owner[x] # NoOwner => x \in g.spills[g.owner[x]]
    BY <1>1, <1>2 DEF Mapped
  <2>2. \A a \in AnchorsOf(g) : a \in Formulas(g) /\ g.owner[a] = a
    BY <1>1, <1>2, <1>3 DEF Mapped, AnchorsOf
  <2>3. \A x \in Formulas(g) : g.owner[x] \in {x, NoOwner}
    BY <1>1, <1>2, <1>3 DEF Mapped
  <2> QED BY <1>1, <1>2, <1>3, <2>1, <2>2, <2>3 DEF Mapped
<1>5. LiteralsKept(g, t)
  BY <1>1, <1>2, <1>3 DEF LiteralsKept
<1>6. Lost(g) \subseteq MarkedFirst(e, c)
  <2> SUFFICES ASSUME NEW b \in Lost(g) PROVE b \in MarkedFirst(e, c)
    OBVIOUS
  <2>1. PICK x \in g.spills[b] : g.owner[x] # b
    BY DEF Lost
  <2>2. b \in Cell /\ x \in e.spills[b] /\ x \in Cell /\ b \notin Lost(e)
    BY <1>1, <1>2, <2>1 DEF Lost
  <2>3. e.owner[x] = b
    BY <2>2 DEF Lost
  <2>4. x = c /\ e.owner[c] = b /\ b # c /\ b # NoOwner
    BY <1>2, <2>1, <2>2, <2>3, NoOwnerAssumption
  <2> QED BY <2>4 DEF MarkedFirst
<1>7. MarkedFirst(e, c) \subseteq Formulas(e) \ {c}
  <2> SUFFICES ASSUME e.owner[c] \notin {c, NoOwner} PROVE e.owner[c] \in Formulas(e) \ {c}
    BY DEF MarkedFirst
  <2>1. e.owner[c] \in Cell /\ c \in e.spills[e.owner[c]]
    BY <1>1 DEF Mapped
  <2> QED BY <1>1, <2>1 DEF Mapped, AnchorsOf
<1>8. g.owner[c] \in {c, NoOwner}
  BY <1>2
<1> QED BY <1>2, <1>4, <1>5, <1>6, <1>7, <1>8 DEF g

\* An edit, once the input is in the engine: the anchor that lost the cell is
\* marked, and a formula still, so the plan holds it.
LEMMA EditKeepsInv ==
  ASSUME Inv, NEW c \in Cell, NEW e, NEW literal \in Value, EditTo(e, c, literal),
         Sound(e, [typed EXCEPT ![c] = literal]),
         Lost(e) \subseteq MarkedFirst(engine, c),
         MarkedFirst(engine, c) \subseteq Formulas(engine) \cap Formulas(e)
  PROVE  Inv'
<1> DEFINE D == Dirtied(engine, MarkedFirst(engine, c)) \cup Dirtied(e, {c})
<1>1. /\ engine' = [[e EXCEPT !.diags[c] = {}] EXCEPT !.refused = {}]
      /\ plan' = PlanOf(e, D) /\ iters' = 0 /\ pc' = "run"
      /\ typed' = [typed EXCEPT ![c] = literal] /\ call' = "edit" /\ before' = NoSnapshot
  BY DEF EditTo, Drive
<1>2. e \in Engine /\ typed \in [Cell -> Value]
  BY DEF Sound, Inv
<1>3. /\ engine' \in Engine /\ engine'.programs = e.programs /\ engine'.values = e.values
      /\ engine'.spills = e.spills /\ engine'.owner = e.owner
      /\ engine'.dynamic = e.dynamic /\ engine'.refused = {}
  BY <1>1, <1>2 DEF Engine
<1>4. Sound(engine', typed') /\ Lost(engine') = Lost(e) /\ Formulas(engine') = Formulas(e)
  BY <1>1, <1>3, TaggedSound DEF Formulas
<1>5. MarkedFirst(engine, c) \subseteq D
  BY DirtiedFacts
<1>6. /\ plan' \in Seq((SUBSET Formulas(e)) \ {{}})
      /\ D \cap Formulas(e) \subseteq UNION ToSet(plan')
  <2> HIDE DEF D
  <2> QED BY <1>1, <1>2, PlanFacts
<1>7. Pending'
  <2>1. Lost(engine') \subseteq UNION ToSet(plan')
    BY <1>4, <1>5, <1>6
  <2> QED BY <1>1, <1>4, <1>6, <2>1 DEF Pending
<1>8. iters' \in 0 .. Cap /\ ~ (iters' > 0)
  BY <1>1, CapAssumption
<1>9. typed' \in [Cell -> Value]
  BY <1>1, <1>2
<1> QED BY <1>1, <1>4, <1>7, <1>8, <1>9 DEF Inv, Changing

LEMMA EditFormulaKeepsInv ==
  ASSUME Inv, NEW c \in Cell, NEW p \in Menu[c], EditFormula(c, p)
  PROVE  Inv'
<1> DEFINE g == Released(engine, c)
           e == [g EXCEPT !.programs[c] = p]
           t == [typed EXCEPT ![c] = Absent]
<1>1. /\ Sound(engine, typed) /\ Lost(engine) = {} /\ EditTo(e, c, Absent)
      /\ typed \in [Cell -> Value] /\ Absent \in Value
  BY ValueFacts DEF Inv, Pending, EditFormula, EditTo
<1>2. /\ g \in Engine /\ Mapped(g) /\ LiteralsKept(g, typed)
      /\ g.programs = engine.programs /\ g.values = engine.values /\ g.spills = engine.spills
      /\ g.owner[c] \in {c, NoOwner} /\ \A x \in Cell \ {c} : g.owner[x] = engine.owner[x]
      /\ Lost(g) \subseteq MarkedFirst(engine, c)
      /\ MarkedFirst(engine, c) \subseteq Formulas(engine) \ {c}
  BY <1>1, ReleasedFacts
<1> HIDE DEF g
<1>3. [g.programs EXCEPT ![c] = p] \in Programs /\ p # NoProgram /\ g.programs \in [Cell -> Program]
  BY <1>2, EngineFacts, EditsAssumption
<1>4. /\ e \in Engine /\ e.programs = [g.programs EXCEPT ![c] = p] /\ e.values = g.values
      /\ e.spills = g.spills /\ e.owner = g.owner /\ e.dynamic = g.dynamic /\ e.refused = g.refused
  BY <1>2, <1>3 DEF Engine
<1> HIDE DEF e
<1>5. Formulas(e) = Formulas(g) \cup {c} /\ Formulas(g) = Formulas(engine)
  BY <1>2, <1>3, <1>4 DEF Formulas
<1>6. AnchorsOf(e) = AnchorsOf(g) /\ Lost(e) = Lost(g)
  BY <1>4 DEF AnchorsOf, Lost
<1>7. Mapped(e)
  <2>1. \A x \in Formulas(e) : e.owner[x] \in {x, NoOwner}
    BY <1>2, <1>4, <1>5 DEF Mapped
  <2> QED BY <1>2, <1>4, <1>5, <1>6, <2>1 DEF Mapped
<1>8. Accounted(e, t)
  BY <1>1, <1>2, <1>4, <1>5 DEF Sound, Accounted
<1>9. LiteralsKept(e, t)
  BY <1>1, <1>2, <1>4, <1>5 DEF LiteralsKept
<1>10. Sound(e, t)
  BY <1>4, <1>7, <1>8, <1>9 DEF Sound
<1> QED BY <1>1, <1>2, <1>5, <1>6, <1>10, EditKeepsInv

LEMMA EditLiteralKeepsInv ==
  ASSUME Inv, NEW c \in Cell, NEW v \in Typable[c], EditLiteral(c, v)
  PROVE  Inv'
<1> DEFINE g == Released(engine, c)
           f == WriteAlone(g, c, v)
           e == [f EXCEPT !.programs[c] = NoProgram]
           t == [typed EXCEPT ![c] = v]
<1>1. /\ Sound(engine, typed) /\ Lost(engine) = {} /\ EditTo(e, c, v)
      /\ typed \in [Cell -> Value] /\ v \in Value
  BY EditsAssumption DEF Inv, Pending, EditLiteral, EditTo
<1>2. /\ g \in Engine /\ Mapped(g) /\ LiteralsKept(g, typed)
      /\ g.programs = engine.programs /\ g.values = engine.values /\ g.spills = engine.spills
      /\ g.owner[c] \in {c, NoOwner} /\ \A x \in Cell \ {c} : g.owner[x] = engine.owner[x]
      /\ Lost(g) \subseteq MarkedFirst(engine, c)
      /\ MarkedFirst(engine, c) \subseteq Formulas(engine) \ {c}
  BY <1>1, ReleasedFacts
<1> HIDE DEF g
<1>3. AloneLeaves(g, c, v, f)
  BY <1>1, <1>2, AloneFields
<1> HIDE DEF f
<1>4. /\ \A x \in Cell : f.owner[x] = IF g.owner[x] = c THEN NoOwner ELSE g.owner[x]
      /\ \A x \in Cell : f.values[x] =
           IF x = c THEN v ELSE IF g.owner[x] = c THEN Blank ELSE g.values[x]
  BY <1>2, <1>3, AloneByOwner
<1>5. /\ f \in Engine /\ f.programs = g.programs /\ f.refused = g.refused
      /\ f.dynamic = g.dynamic \ {c} /\ f.spills = [g.spills EXCEPT ![c] = {}]
  BY <1>3 DEF AloneLeaves
<1>6. [f.programs EXCEPT ![c] = NoProgram] \in Programs /\ f.programs \in [Cell -> Program]
  BY <1>5, EngineFacts, EditsAssumption
<1>7. /\ e \in Engine /\ e.programs = [f.programs EXCEPT ![c] = NoProgram] /\ e.values = f.values
      /\ e.spills = f.spills /\ e.owner = f.owner /\ e.dynamic = f.dynamic /\ e.refused = f.refused
  BY <1>5, <1>6 DEF Engine
<1> HIDE DEF e
<1>8. Formulas(e) = Formulas(g) \ {c} /\ Formulas(g) = Formulas(engine)
  BY <1>2, <1>5, <1>6, <1>7 DEF Formulas
<1>9. /\ e.spills[c] = {} /\ \A x \in Cell : x # c => e.spills[x] = g.spills[x]
      /\ \A x \in Cell : e.owner[x] = IF g.owner[x] = c THEN NoOwner ELSE g.owner[x]
      /\ g.owner \in [Cell -> Cell \cup {NoOwner}]
  BY <1>2, <1>4, <1>5, <1>7, EngineFacts
<1>10. AnchorsOf(e) = AnchorsOf(g) \ {c}
  BY <1>9 DEF AnchorsOf
<1>11. Mapped(e)
  <2>1. \A x \in Cell : e.owner[x] # NoOwner => x \in e.spills[e.owner[x]]
    BY <1>2, <1>9 DEF Mapped
  <2>2. \A a \in AnchorsOf(e) : a \in Formulas(e) /\ e.owner[a] = a
    BY <1>2, <1>8, <1>9, <1>10 DEF Mapped, AnchorsOf
  <2>3. \A x \in Formulas(e) : e.owner[x] \in {x, NoOwner}
    BY <1>2, <1>8, <1>9, EngineFacts DEF Mapped
  <2>4. e.dynamic = AnchorsOf(e) /\ AnchorsOf(e) \cap e.refused = {}
    BY <1>2, <1>5, <1>7, <1>10 DEF Mapped
  <2> QED BY <2>1, <2>2, <2>3, <2>4 DEF Mapped
<1>12. Accounted(e, t)
  <2> SUFFICES ASSUME NEW x \in Cell \ Formulas(e), e.owner[x] = NoOwner, t[x] \in {Absent, Blank}
               PROVE  e.values[x] \in {Absent, Blank}
    BY DEF Accounted
  <2>1. CASE x = c
    BY <1>1, <1>4, <1>7, <2>1
  <2>2. CASE x # c /\ g.owner[x] = c
    BY <1>4, <1>7, <2>2
  <2>3. CASE x # c /\ g.owner[x] # c
    <3>1. engine.owner[x] = NoOwner /\ x \notin Formulas(engine) /\ typed[x] \in {Absent, Blank}
      BY <1>1, <1>2, <1>8, <1>9, <2>3
    <3>2. engine.values[x] \in {Absent, Blank}
      BY <1>1, <3>1 DEF Sound, Accounted
    <3> QED BY <1>2, <1>4, <1>7, <2>3, <3>2
  <2> QED BY <2>1, <2>2, <2>3
<1>13. LiteralsKept(e, t)
  <2> SUFFICES ASSUME NEW x \in Cell, t[x] \notin {Absent, Blank}
               PROVE  x \notin Formulas(e) /\ e.owner[x] = NoOwner /\ e.values[x] = t[x]
    BY DEF LiteralsKept
  <2>1. CASE x = c
    BY <1>1, <1>2, <1>4, <1>7, <1>8, <1>9, <2>1
  <2>2. CASE x # c
    <3>1. x \notin Formulas(g) /\ g.owner[x] = NoOwner /\ g.values[x] = t[x]
      BY <1>1, <1>2, <2>2 DEF LiteralsKept
    <3>2. c # NoOwner
      BY NoOwnerAssumption
    <3> QED BY <1>4, <1>7, <1>8, <1>9, <2>2, <3>1, <3>2
  <2> QED BY <2>1, <2>2
<1>14. Lost(e) \subseteq MarkedFirst(engine, c)
  <2> SUFFICES ASSUME NEW a \in Lost(e) PROVE a \in Lost(g)
    BY <1>2
  <2>1. PICK x \in e.spills[a] : e.owner[x] # a
    BY DEF Lost
  <2>2. a \in Cell /\ a # c /\ x \in g.spills[a] /\ x \in Cell
    BY <1>2, <1>9, <2>1, EngineFacts DEF Lost
  <2>3. g.owner[x] # a
    BY <1>9, <2>1, <2>2
  <2> QED BY <2>2, <2>3 DEF Lost
<1>15. Sound(e, t)
  BY <1>7, <1>11, <1>12, <1>13 DEF Sound
<1>16. MarkedFirst(engine, c) \subseteq Formulas(engine) \cap Formulas(e)
  BY <1>2, <1>8
<1> QED BY <1>1, <1>14, <1>15, <1>16, EditKeepsInv
LEMMA ReloadKeepsInv == Inv /\ Reload => Inv'
<1>a. SUFFICES ASSUME Inv, Reload PROVE Inv'
  OBVIOUS
<1>1. /\ engine' = Loaded(engine.programs, typed) /\ pc' = "loaded" /\ call' = "reload"
      /\ before' = Shown(engine) /\ plan' = plan /\ iters' = iters /\ typed' = typed /\ pc = "idle"
  BY <1>a DEF Reload
<1>2. /\ Sound(engine, typed) /\ Pending /\ typed \in [Cell -> Value] /\ iters \in 0 .. Cap
      /\ engine \in Engine /\ engine.programs \in Programs
  BY <1>a, EngineFacts DEF Inv, Sound
<1>3. \A c \in Cell : engine.programs[c] # NoProgram => typed[c] \in {Absent, Blank}
  BY <1>2 DEF Sound, LiteralsKept, Formulas
<1>4. /\ Sound(engine', typed) /\ Lost(engine') = {}
      /\ engine'.programs = engine.programs /\ engine'.unstable = {}
  BY <1>1, <1>2, <1>3, LoadedSound
<1>5. Formulas(engine') = Formulas(engine)
  BY <1>4 DEF Formulas
<1>6. Pending'
  BY <1>1, <1>2, <1>4, <1>5 DEF Pending
<1>7. Changing'
  BY <1>4 DEF Changing
<1> QED BY <1>1, <1>2, <1>4, <1>6, <1>7, ShownFacts DEF Inv

LEMMA ExecuteStepKeepsInv == Inv /\ ExecuteStep => Inv'
<1>a. SUFFICES ASSUME Inv, ExecuteStep PROVE Inv'
  OBVIOUS
<1> DEFINE C == Head(plan)
<1>1. /\ pc = "run" /\ plan # <<>> /\ engine' = RunStep(engine, C) /\ plan' = Tail(plan)
      /\ UNCHANGED <<pc, iters, typed, call, before>>
  BY <1>a DEF ExecuteStep
<1>2. /\ Sound(engine, typed) /\ plan \in Seq((SUBSET Formulas(engine)) \ {{}})
      /\ Lost(engine) \subseteq UNION ToSet(plan) /\ Changing
  BY <1>a, <1>1 DEF Inv, Pending
<1>3. /\ C \in (SUBSET Formulas(engine)) \ {{}} /\ plan' \in Seq((SUBSET Formulas(engine)) \ {{}})
      /\ ToSet(plan) \subseteq {C} \cup ToSet(plan')
  <2>1. PICK n \in Nat : /\ Len(plan) = n /\ DOMAIN plan = 1 .. n
                         /\ \A i \in 1 .. n : plan[i] \in (SUBSET Formulas(engine)) \ {{}}
    BY <1>2, SeqFacts
  <2>2. C \in (SUBSET Formulas(engine)) \ {{}} /\ C = plan[1]
        /\ plan' \in Seq((SUBSET Formulas(engine)) \ {{}})
        /\ Len(plan') = n - 1 /\ \A i \in 1 .. n - 1 : plan'[i] = plan[i + 1]
    BY <1>1, <1>2, <2>1, HeadTailProperties
  <2>3. n # 0
    BY <1>1, <1>2, <2>1, EmptySeq
  <2>4. DOMAIN plan' = 1 .. n - 1
    BY <2>2, LenProperties
  <2>5. \A i \in 1 .. n : i # 1 => i - 1 \in 1 .. n - 1 /\ plan'[i - 1] = plan[i]
    <3> SUFFICES ASSUME NEW i \in 1 .. n, i # 1
                 PROVE  i - 1 \in 1 .. n - 1 /\ plan'[i - 1] = plan[i]
      OBVIOUS
    <3>1. i - 1 \in 1 .. n - 1 /\ (i - 1) + 1 = i
      BY <2>1
    <3> QED BY <2>2, <3>1
  <2>6. \A i \in 1 .. n : plan[i] \in {C} \cup ToSet(plan')
    <3> SUFFICES ASSUME NEW i \in 1 .. n, i # 1 PROVE plan[i] \in ToSet(plan')
      BY <2>2
    <3>1. i - 1 \in DOMAIN plan' /\ plan'[i - 1] = plan[i]
      BY <2>4, <2>5
    <3> QED BY <3>1 DEF ToSet
  <2>7. \A x \in ToSet(plan) : \E i \in 1 .. n : x = plan[i]
    BY <2>1 DEF ToSet
  <2> HIDE DEF C
  <2> QED BY <2>2, <2>6, <2>7
<1>4. Settled(engine, typed, engine', C)
  <2> HIDE DEF C
  <2> QED BY <1>1, <1>2, <1>3, RunStepSound
<1>5. Formulas(engine') = Formulas(engine)
  BY <1>4 DEF Settled, Formulas
<1>6. Pending'
  <2>1. Lost(engine') \subseteq UNION ToSet(plan')
    BY <1>2, <1>3, <1>4 DEF Settled
  <2> QED BY <1>1, <1>3, <1>5, <2>1 DEF Pending
<1>7. Changing'
  BY <1>1, <1>2, <1>3, <1>4, <1>5 DEF Changing, Settled
<1> QED BY <1>a, <1>1, <1>4, <1>6, <1>7 DEF Inv, Settled

\* The sets taken out at the end of a pass carry no region.
LEMMA DrainedFacts ==
  ASSUME NEW e, NEW t, Sound(e, t)
  PROVE  /\ Sound(Drained(e), t) /\ Lost(Drained(e)) = Lost(e)
         /\ Drained(e).programs = e.programs /\ Drained(e).unstable = {}
         /\ Formulas(Drained(e)) = Formulas(e)
<1> DEFINE f == Drained(e)
<1>1. e \in Engine /\ AnchorsOf(e) \cap e.refused = {}
  BY DEF Sound, Mapped
<1>2. /\ f \in Engine /\ f.programs = e.programs /\ f.values = e.values /\ f.spills = e.spills
      /\ f.owner = e.owner /\ f.dynamic = e.dynamic /\ f.refused = e.refused /\ f.unstable = {}
  BY <1>1 DEF Drained, Engine
<1> HIDE DEF f
<1>3. Sound(f, t) /\ Lost(f) = Lost(e)
  BY <1>1, <1>2, TaggedSound
<1> QED BY <1>2, <1>3 DEF f, Formulas

\* When a pass ends, every anchor has run that had lost a cell.
LEMMA PassEndFacts ==
  ASSUME Inv, PassEnds
  PROVE  /\ Sound(engine, typed) /\ Lost(engine) = {} /\ Changing /\ plan = <<>>
         /\ Sound(Drained(engine), typed) /\ Lost(Drained(engine)) = {}
         /\ Drained(engine).programs = engine.programs /\ Drained(engine).unstable = {}
         /\ Formulas(Drained(engine)) = Formulas(engine)
<1>1. /\ plan = <<>> /\ pc = "run" /\ Sound(engine, typed) /\ Pending /\ Changing
  BY DEF PassEnds, Inv
<1>2. ToSet(plan) = {}
  BY <1>1 DEF ToSet
<1>3. Lost(engine) = {}
  BY <1>1, <1>2 DEF Pending
<1> QED BY <1>1, <1>3, DrainedFacts

LEMMA ConvergedKeepsInv == Inv /\ Converged => Inv'
<1>a. SUFFICES ASSUME Inv, Converged PROVE Inv'
  OBVIOUS
<1>1. /\ PassEnds /\ engine' = Drained(engine) /\ pc' = "idle"
      /\ UNCHANGED <<plan, iters, typed, call, before>>
  BY <1>a DEF Converged
<1>2. /\ plan' = <<>> /\ Sound(engine', typed) /\ Lost(engine') = {} /\ engine'.unstable = {}
  BY <1>a, <1>1, PassEndFacts
<1>3. Pending'
  BY <1>1, <1>2, EmptySeq DEF Pending
<1>4. Changing'
  BY <1>2 DEF Changing
<1> QED BY <1>a, <1>1, <1>2, <1>3, <1>4 DEF Inv

LEMMA NextPassKeepsInv == Inv /\ NextPass => Inv'
<1>a. SUFFICES ASSUME Inv, NextPass PROVE Inv'
  OBVIOUS
<1> DEFINE D == Dirtied(engine, engine.redirty)
<1>1. /\ PassEnds /\ iters < Cap /\ engine' = Drained(engine) /\ iters' = iters + 1
      /\ plan' = PlanOf(engine, D) /\ pc' = IF plan' = <<>> THEN "idle" ELSE "run"
      /\ UNCHANGED <<typed, call, before>>
  BY <1>a DEF NextPass, UnderCap
<1>2. /\ Sound(engine', typed) /\ Lost(engine') = {} /\ engine'.unstable = {}
      /\ Formulas(engine') = Formulas(engine) /\ engine \in Engine
  BY <1>a, <1>1, PassEndFacts DEF Sound
<1>3. plan' \in Seq((SUBSET Formulas(engine)) \ {{}})
  <2> HIDE DEF D
  <2> QED BY <1>1, <1>2, PlanFacts
<1>4. Pending'
  BY <1>2, <1>3 DEF Pending
<1>5. Changing'
  BY <1>2 DEF Changing
<1>6. iters' \in 0 .. Cap
  BY <1>a, <1>1, CapAssumption DEF Inv
<1>7. pc' \in {"loaded", "idle", "run"}
  BY <1>1
<1> QED BY <1>a, <1>1, <1>2, <1>4, <1>5, <1>6, <1>7 DEF Inv

LEMMA OverCapKeepsInv == Inv /\ OverCap => Inv'
<1>a. SUFFICES ASSUME Inv, OverCap PROVE Inv'
  OBVIOUS
<1> DEFINE new == engine.unstable \ engine.refused
           done == FoldSet(LAMBDA a, acc : RefuseAnchor(acc, a), Drained(engine), new)
           redirty == IF new = {} THEN {} ELSE done.redirty \cup engine.redirty
<1>1. /\ PassEnds /\ ~ (iters < Cap)
      /\ engine' = [done EXCEPT !.redirty = IF new = {} THEN {} ELSE @ \cup engine.redirty]
      /\ iters' = (IF new = {} THEN iters ELSE 0) /\ pc' = (IF new = {} THEN "idle" ELSE "run")
      /\ UNCHANGED <<plan, typed, call, before>>
  BY <1>a DEF OverCap, UnderCap
<1>2. /\ Changing /\ plan = <<>> /\ Sound(Drained(engine), typed) /\ Lost(Drained(engine)) = {}
      /\ Drained(engine).programs = engine.programs /\ Drained(engine).unstable = {}
      /\ Formulas(Drained(engine)) = Formulas(engine)
      /\ engine \in Engine
  BY <1>a, <1>1, PassEndFacts DEF Sound
<1>3. iters \in 0 .. Cap /\ iters > 0
  <2>1. ~ (iters < Cap)
    BY <1>1
  <2>2. iters \in 0 .. Cap
    BY <1>a DEF Inv
  <2> QED BY <2>1, <2>2, CapAssumption
<1>4. new \in SUBSET Formulas(Drained(engine))
  BY <1>2, <1>3 DEF Changing
<1>5. Settled(Drained(engine), typed, done, new)
  <2>1. LET f == FoldSet(LAMBDA a, acc : RefuseAnchor(acc, a), Drained(engine), new)
        IN Settled(Drained(engine), typed, f, new) /\ AnchorsRefused(Drained(engine), f, new)
    BY <1>2, <1>4, RefusalsSound
  <2> QED BY <2>1
<1> HIDE DEF new, done
<1>6. /\ Sound(done, typed) /\ done \in Engine /\ done.programs = engine.programs
      /\ Lost(done) = {} /\ done.unstable \subseteq new /\ AnchorsOf(done) \cap done.refused = {}
  BY <1>2, <1>5 DEF Settled, Sound, Mapped
<1>7. /\ redirty \subseteq Cell /\ engine' = [done EXCEPT !.redirty = redirty]
  <2>1. engine' = [done EXCEPT !.redirty = redirty]
    BY <1>1, <1>6 DEF Engine
  <2> QED BY <1>2, <1>6, <2>1, EngineFacts
<1> HIDE DEF redirty
<1>8. /\ engine' \in Engine /\ engine'.programs = done.programs /\ engine'.values = done.values
      /\ engine'.spills = done.spills /\ engine'.owner = done.owner
      /\ engine'.dynamic = done.dynamic /\ engine'.refused = done.refused
      /\ engine'.unstable = done.unstable
  BY <1>6, <1>7 DEF Engine
<1>9. Sound(engine', typed) /\ Lost(engine') = {}
  BY <1>6, <1>8, TaggedSound
<1>10. Formulas(engine') = Formulas(engine)
  BY <1>6, <1>8 DEF Formulas
<1>11. Pending'
  BY <1>1, <1>2, <1>9, EmptySeq DEF Pending
<1>12. Changing'
  BY <1>2, <1>4, <1>6, <1>8, <1>10 DEF Changing
<1>13. iters' \in 0 .. Cap /\ pc' \in {"loaded", "idle", "run"}
  BY <1>1, <1>3, CapAssumption
<1> QED BY <1>a, <1>1, <1>9, <1>11, <1>12, <1>13 DEF Inv

LEMMA StutterKeepsInv == Inv /\ UNCHANGED vars => Inv'
BY DEF Inv, Pending, Changing, vars

LEMMA NextKeepsInv == Inv /\ [Next]_vars => Inv'
<1> SUFFICES ASSUME Inv, [Next]_vars PROVE Inv'
  OBVIOUS
<1>1. CASE Recalc
  BY <1>1, RecalcKeepsInv
<1>2. CASE \E c \in Cell : \E p \in Menu[c] : EditFormula(c, p)
  BY <1>2, EditFormulaKeepsInv
<1>3. CASE \E c \in Cell : \E v \in Typable[c] : EditLiteral(c, v)
  BY <1>3, EditLiteralKeepsInv
<1>4. CASE Reload
  BY <1>4, ReloadKeepsInv
<1>5. CASE ExecuteStep
  BY <1>5, ExecuteStepKeepsInv
<1>6. CASE Converged
  BY <1>6, ConvergedKeepsInv
<1>7. CASE NextPass
  BY <1>7, NextPassKeepsInv
<1>8. CASE OverCap
  BY <1>8, OverCapKeepsInv
<1>9. CASE UNCHANGED vars
  BY <1>9, StutterKeepsInv
<1> QED BY <1>1, <1>2, <1>3, <1>4, <1>5, <1>6, <1>7, <1>8, <1>9 DEF Next, Step

-----------------------------------------------------------------------------
(* Every formula is right, or runs before the call returns. *)

\* A formula is right, is to run in this pass, or lies downstream of a cell
\* collected for the next.
Awaited(e, s) ==
  \A a \in Formulas(e) :
    Right(e, a) \/ a \in UNION ToSet(s) \/ a \in Dirtied(e, e.redirty)

\* What the freshness of the formulas rests on, besides Inv: a pass runs each
\* formula after the arrays it reads, and what is collected late in a call
\* always has an anchor to refuse.
Fresh ==
  /\ Chained(engine, plan)
  /\ RefusalsStand(engine)
  /\ pc = "run" /\ iters > 0 /\ engine.redirty # {} => engine.unstable \ engine.refused # {}
  /\ pc = "run" => Awaited(engine, plan)
  /\ pc = "idle" => \A a \in Formulas(engine) : Right(engine, a)

LEMMA ChainedSame ==
  ASSUME NEW e, NEW f, f.programs = e.programs, NEW s, Chained(e, s)
  PROVE  Chained(f, s)
<1>1. Formulas(f) = Formulas(e) /\ \A a \in Formulas(e) : Named(f, a) = Named(e, a)
  BY DEF Formulas, Named
<1> QED BY <1>1 DEF Chained

LEMMA NothingPlanned ==
  ASSUME NEW e PROVE Chained(e, <<>>) /\ UNION ToSet(<<>>) = {}
<1>1. DOMAIN <<>> = {}
  OBVIOUS
<1> QED BY <1>1 DEF Chained, ToSet

LEMMA InitFresh == Init => Fresh
<1> SUFFICES ASSUME Init PROVE Fresh
  OBVIOUS
<1>1. PICK w \in Workbooks :
        engine = Loaded(w.programs, w.typed) /\ pc = "loaded" /\ plan = <<>>
  BY DEF Init
<1>2. engine.refused = {}
  BY <1>1 DEF Loaded
<1> QED BY <1>1, <1>2, NothingPlanned DEF Fresh, RefusalsStand

LEMMA RecalcFresh == Inv /\ Recalc => Fresh'
<1>a. SUFFICES ASSUME Inv, Recalc PROVE Fresh'
  OBVIOUS
<1>1. /\ engine' = [engine EXCEPT !.refused = {}] /\ plan' = FullPlan(engine)
      /\ iters' = 0 /\ pc' = "run"
  BY <1>a DEF Recalc, Drive
<1>2. engine \in Engine
  BY <1>a DEF Inv, Sound
<1>3. engine'.programs = engine.programs /\ engine'.refused = {}
  BY <1>1, <1>2 DEF Engine
<1>4. Chained(engine', plan')
  BY <1>1, <1>2, <1>3, PlanChained, ChainedSame
<1>5. Formulas(engine') \subseteq UNION ToSet(plan')
  BY <1>1, <1>2, <1>3, PlanFacts DEF Formulas
<1>6. Awaited(engine', plan') /\ RefusalsStand(engine')
  BY <1>3, <1>5 DEF Awaited, RefusalsStand
<1>7. ~ (iters' > 0)
  BY <1>1
<1> QED BY <1>1, <1>4, <1>6, <1>7 DEF Fresh

\* An edit plans the formulas downstream of the cell and of the anchor that
\* lost it; the others are right still, or read a cell the edit collected.
LEMMA EditFresh ==
  ASSUME NEW c \in Cell, NEW e \in Engine, NEW literal, engine \in Engine,
         EditTo(e, c, literal), \A a \in Cell \ {c} : e.programs[a] = engine.programs[a],
         \A a \in Formulas(e) \ {c} :
           \/ Right(e, a) \/ Named(e, a) \cap e.redirty # {}
           \/ a \in Dirtied(engine, MarkedFirst(engine, c)) \cup Dirtied(e, {c})
  PROVE  Fresh'
<1> DEFINE M == MarkedFirst(engine, c)
           D == Dirtied(engine, M) \cup Dirtied(e, {c})
<1>1. /\ engine' = [[e EXCEPT !.diags[c] = {}] EXCEPT !.refused = {}]
      /\ plan' = PlanOf(e, D) /\ iters' = 0 /\ pc' = "run"
  BY DEF EditTo, Drive
<1>2. /\ engine'.programs = e.programs /\ engine'.values = e.values
      /\ engine'.spills = e.spills /\ engine'.refused = {} /\ engine'.redirty = e.redirty
      /\ \A x \in Cell \ {c} : engine'.diags[x] = e.diags[x]
  BY <1>1 DEF Engine
<1>3. /\ Formulas(engine') = Formulas(e) /\ Formulas(e) \subseteq Cell
      /\ \A a \in Formulas(e) \ {c} : a \in Formulas(engine) /\ Named(engine, a) = Named(e, a)
  BY <1>2 DEF Formulas, Named
<1> HIDE DEF M
<1>4. D \in SUBSET Cell
  BY DEF Dirtied, Formulas
<1>5. c \in Formulas(e) => c \in Dirtied(e, {c})
  BY DirtiedFacts
<1>6. Followed(e, D)
  <2> SUFFICES ASSUME NEW a \in Formulas(e), Named(e, a) \cap D # {} PROVE a \in D
    BY DEF Followed
  <2>0. Named(e, a) \cap Dirtied(e, {c}) # {} \/ Named(e, a) \cap Dirtied(engine, M) # {}
    OBVIOUS
  <2>1. CASE Named(e, a) \cap Dirtied(e, {c}) # {}
    <3>1. Named(e, a) \cap ({c} \cup Dirtied(e, {c})) # {}
      BY <2>1
    <3> QED BY <3>1, DirtiedClosed
  <2>2. CASE Named(e, a) \cap Dirtied(engine, M) # {} /\ a # c
    <3>1. Named(engine, a) \cap (M \cup Dirtied(engine, M)) # {} /\ a \in Formulas(engine)
      BY <1>3, <2>2
    <3> QED BY <3>1, DirtiedClosed
  <2>3. CASE a = c
    BY <1>5, <2>3
  <2> QED BY <2>0, <2>1, <2>2, <2>3
<1>7. Chained(engine', plan')
  <2> HIDE DEF D
  <2>1. Chained(e, PlanOf(e, D))
    BY <1>4, <1>6, PlanChained
  <2> QED BY <1>1, <1>2, <2>1, ChainedSame
<1>8. D \cap Formulas(e) \subseteq UNION ToSet(plan')
  <2> HIDE DEF D
  <2> QED BY <1>1, PlanFacts
<1>9. ASSUME NEW a \in Formulas(engine')
      PROVE  \/ Right(engine', a) \/ a \in UNION ToSet(plan')
             \/ a \in Dirtied(engine', engine'.redirty)
  <2>1. CASE a \in D
    BY <1>3, <1>8, <2>1
  <2>2. CASE a # c /\ Right(e, a)
    <3>1. Right(engine', a)
      BY <1>2, <1>3, <2>2, RightSame
    <3> QED BY <3>1
  <2>3. CASE a # c /\ Named(e, a) \cap e.redirty # {}
    <3>1. a \in Dirtied(e, e.redirty)
      BY <1>3, <2>3, DirtiedClosed
    <3> QED BY <1>2, <3>1, DirtiedMore
  <2> QED BY <1>3, <1>5, <2>1, <2>2, <2>3 DEF M
<1>10. Awaited(engine', plan')
  BY <1>9 DEF Awaited
<1>11. RefusalsStand(engine') /\ ~ (iters' > 0)
  BY <1>1, <1>2 DEF RefusalsStand
<1> QED BY <1>1, <1>7, <1>10, <1>11 DEF Fresh

LEMMA ReleasedDiags ==
  ASSUME NEW e \in Engine, NEW c \in Cell
  PROVE  Released(e, c).diags = e.diags
<1>1. CASE e.owner[c] # c
  BY <1>1 DEF Released, Engine
<1>2. CASE e.owner[c] = c
  BY <1>2 DEF Released
<1> QED BY <1>1, <1>2

LEMMA EditFormulaFresh ==
  ASSUME Inv, Fresh, NEW c \in Cell, NEW p \in Menu[c], EditFormula(c, p)
  PROVE  Fresh'
<1> DEFINE g == Released(engine, c)
           e == [g EXCEPT !.programs[c] = p]
<1>1. /\ Sound(engine, typed) /\ Lost(engine) = {} /\ engine \in Engine
      /\ EditTo(e, c, Absent) /\ \A a \in Formulas(engine) : Right(engine, a)
  BY DEF Inv, Sound, Pending, EditFormula, EditTo, Fresh
<1>2. /\ g \in Engine /\ g.programs = engine.programs /\ g.values = engine.values
      /\ g.spills = engine.spills /\ g.diags = engine.diags
  BY <1>1, ReleasedFacts, ReleasedDiags
<1> HIDE DEF g
<1>3. [g.programs EXCEPT ![c] = p] \in Programs /\ g.programs \in [Cell -> Program]
  BY <1>2, EngineFacts, EditsAssumption
<1>4. /\ e \in Engine /\ e.programs = [g.programs EXCEPT ![c] = p] /\ e.values = g.values
      /\ e.spills = g.spills /\ e.diags = g.diags
  BY <1>2, <1>3 DEF Engine
<1> HIDE DEF e
<1>5. \A a \in Cell \ {c} : e.programs[a] = engine.programs[a]
  BY <1>2, <1>3, <1>4
<1>6. ASSUME NEW a \in Formulas(e) \ {c} PROVE Right(e, a)
  <2>1. a \in Cell \ {c} /\ a \in Formulas(engine)
    BY <1>5 DEF Formulas
  <2> QED BY <1>1, <1>2, <1>4, <1>5, <2>1, RightSame
<1> QED BY <1>1, <1>4, <1>5, <1>6, EditFresh

LEMMA EditLiteralFresh ==
  ASSUME Inv, Fresh, NEW c \in Cell, NEW v \in Typable[c], EditLiteral(c, v)
  PROVE  Fresh'
<1> DEFINE g == Released(engine, c)
           f == WriteAlone(g, c, v)
           e == [f EXCEPT !.programs[c] = NoProgram]
           M == MarkedFirst(engine, c)
<1>1. /\ Sound(engine, typed) /\ Lost(engine) = {} /\ engine \in Engine /\ v \in Value
      /\ EditTo(e, c, v) /\ \A a \in Formulas(engine) : Right(engine, a)
  BY EditsAssumption DEF Inv, Sound, Pending, EditLiteral, EditTo, Fresh
<1>2. /\ g \in Engine /\ Mapped(g) /\ g.programs = engine.programs /\ g.values = engine.values
      /\ g.spills = engine.spills /\ g.diags = engine.diags
      /\ g.owner[c] \in {c, NoOwner} /\ Lost(g) \subseteq M /\ M \subseteq Formulas(engine)
  BY <1>1, ReleasedFacts, ReleasedDiags
<1> HIDE DEF g
<1>3. f \in Engine /\ f.programs = g.programs /\ Wrote(g, f, {c})
  <2>1. AloneLeaves(g, c, v, f)
    BY <1>1, <1>2, AloneFields
  <2>2. Wrote(g, f, {c})
    BY <1>1, <1>2, AloneWrote
  <2> HIDE DEF f
  <2> QED BY <2>1, <2>2 DEF AloneLeaves
<1> HIDE DEF f
<1>4. [f.programs EXCEPT ![c] = NoProgram] \in Programs /\ f.programs \in [Cell -> Program]
  BY <1>3, EngineFacts, EditsAssumption
<1>5. /\ e \in Engine /\ e.programs = [f.programs EXCEPT ![c] = NoProgram] /\ e.values = f.values
      /\ e.spills = f.spills /\ e.diags = f.diags /\ e.redirty = f.redirty
  BY <1>3, <1>4 DEF Engine
<1> HIDE DEF e, M
<1>6. \A a \in Cell \ {c} : e.programs[a] = f.programs[a] /\ f.programs[a] = engine.programs[a]
  BY <1>2, <1>3, <1>4, <1>5
<1>7. ASSUME NEW a \in Formulas(e) \ {c}
      PROVE  \/ Right(e, a) \/ Named(e, a) \cap e.redirty # {}
             \/ a \in Dirtied(engine, M) \cup Dirtied(e, {c})
  <2>1. /\ a \in Cell \ {c} /\ a \in Formulas(engine) /\ a \in Formulas(g) \ {c} /\ a \in Formulas(f)
        /\ Named(e, a) = Named(g, a) /\ Named(e, a) = Named(engine, a)
    BY <1>2, <1>3, <1>6 DEF Formulas, Named
  <2>2. CASE Named(e, a) \cap {c} # {}
    <3>1. Named(e, a) \cap ({c} \cup Dirtied(e, {c})) # {}
      BY <2>2
    <3> QED BY <1>5, <3>1, DirtiedClosed
  <2>3. CASE Named(g, a) \cap Lost(g) # {}
    <3>1. Named(engine, a) \cap (M \cup Dirtied(engine, M)) # {}
      BY <1>2, <2>1, <2>3
    <3> QED BY <1>1, <2>1, <3>1, DirtiedClosed
  <2>4. CASE a \in Lost(g)
    BY <1>2, <2>1, <2>4, DirtiedFacts
  <2>5. CASE Named(g, a) \cap {c} = {} /\ Named(g, a) \cap Lost(g) = {} /\ a \notin Lost(g)
    <3>1. Right(g, a)
      BY <1>1, <1>2, <2>1, RightSame
    <3>2. Right(f, a) \/ Named(g, a) \cap f.redirty # {}
      BY <1>2, <1>3, <2>1, <2>5, <3>1, RightKept
    <3>3. Right(f, a) => Right(e, a)
      BY <1>3, <1>5, <1>6, <2>1, RightSame
    <3> QED BY <1>5, <2>1, <3>2, <3>3
  <2> QED BY <2>1, <2>2, <2>3, <2>4, <2>5
<1> QED BY <1>1, <1>5, <1>6, <1>7, EditFresh DEF M

LEMMA ReloadFresh == Inv /\ Fresh /\ Reload => Fresh'
<1>a. SUFFICES ASSUME Inv, Fresh, Reload PROVE Fresh'
  OBVIOUS
<1>1. engine' = Loaded(engine.programs, typed) /\ pc' = "loaded" /\ plan' = plan
  BY <1>a DEF Reload
<1>2. engine'.programs = engine.programs /\ engine'.refused = {}
  BY <1>1 DEF Loaded
<1>3. Chained(engine', plan')
  BY <1>a, <1>1, <1>2, ChainedSame DEF Fresh
<1> QED BY <1>1, <1>2, <1>3 DEF Fresh, RefusalsStand

\* What the first step of a plan reads is in no later step, and what the later
\* steps hold nothing outside the plan reads.
LEMMA FirstStepFacts ==
  ASSUME NEW e, NEW s \in Seq((SUBSET Formulas(e)) \ {{}}), s # <<>>, Chained(e, s),
         NEW L \in SUBSET (UNION ToSet(s))
  PROVE  /\ Head(s) \in (SUBSET Formulas(e)) \ {{}} /\ Chained(e, Tail(s))
         /\ \A c \in Head(s) : Named(e, c) \cap L \subseteq Head(s)
         /\ \A a \in UNION ToSet(s) : a \in Head(s) \/ a \in UNION ToSet(Tail(s))
         /\ \A a \in Formulas(e) \ UNION ToSet(s) :
              Named(e, a) \cap Head(s) = {} /\ Named(e, a) \cap L = {}
<1> DEFINE u == Tail(s)
           C == Head(s)
<1>1. PICK n \in Nat \ {0} : /\ DOMAIN s = 1 .. n /\ DOMAIN u = 1 .. n - 1 /\ C = s[1]
                             /\ \A i \in 1 .. n - 1 : u[i] = s[i + 1]
  BY TailFacts
<1> HIDE DEF u, C
<1>2. 1 \in 1 .. n /\ C \in (SUBSET Formulas(e)) \ {{}}
  <2>1. 1 \in 1 .. n /\ \A i \in DOMAIN s : s[i] \in (SUBSET Formulas(e)) \ {{}}
    BY <1>1, ElementOfSeq
  <2> QED BY <1>1, <2>1
<1>3. /\ \A i, j \in 1 .. n : i # j => s[i] \cap s[j] = {}
      /\ \A i \in 1 .. n, a \in Formulas(e) :
           Named(e, a) \cap s[i] # {} => \E j \in 1 .. n : i <= j /\ a \in s[j]
  BY <1>1 DEF Chained
<1>4. \A i \in 1 .. n - 1 : i + 1 \in 1 .. n /\ u[i] = s[i + 1]
  BY <1>1
<1>5. \A i \in 1 .. n : i # 1 => i - 1 \in 1 .. n - 1 /\ u[i - 1] = s[i]
  <2> SUFFICES ASSUME NEW i \in 1 .. n, i # 1 PROVE i - 1 \in 1 .. n - 1 /\ u[i - 1] = s[i]
    OBVIOUS
  <2>1. i - 1 \in 1 .. n - 1 /\ (i - 1) + 1 = i
    OBVIOUS
  <2> QED BY <1>4, <2>1
<1>6. \A a : a \in UNION ToSet(s) <=> \E i \in 1 .. n : a \in s[i]
  BY <1>1 DEF ToSet
<1>7. Chained(e, u)
  <2>1. ASSUME NEW i \in 1 .. n - 1, NEW j \in 1 .. n - 1, i # j PROVE u[i] \cap u[j] = {}
    <3>1. i + 1 # j + 1
      BY <2>1
    <3> QED BY <1>3, <1>4, <3>1
  <2>2. ASSUME NEW i \in 1 .. n - 1, NEW a \in Formulas(e), Named(e, a) \cap u[i] # {}
        PROVE  \E j \in 1 .. n - 1 : i <= j /\ a \in u[j]
    <3>1. PICK k \in 1 .. n : i + 1 <= k /\ a \in s[k]
      BY <1>3, <1>4, <2>2
    <3>2. k # 1 /\ i <= k - 1
      BY <3>1
    <3> QED BY <1>5, <3>1, <3>2
  <2> QED BY <1>1, <2>1, <2>2 DEF Chained
<1>8. ASSUME NEW c \in C, NEW x \in Named(e, c) \cap L PROVE x \in C
  <2>1. PICK i \in 1 .. n : x \in s[i]
    BY <1>6
  <2>2. PICK j \in 1 .. n : i <= j /\ c \in s[j]
    BY <1>2, <1>3, <2>1
  <2>3. j = 1
    BY <1>1, <1>2, <1>3, <2>2
  <2>4. i = 1
    BY <2>2, <2>3
  <2> QED BY <1>1, <2>1, <2>4
<1>9. ASSUME NEW a \in UNION ToSet(s), a \notin C PROVE a \in UNION ToSet(u)
  <2>1. PICK i \in 1 .. n : a \in s[i]
    BY <1>6
  <2>2. i - 1 \in DOMAIN u /\ a \in u[i - 1]
    BY <1>1, <1>5, <1>9, <2>1
  <2> QED BY <2>2 DEF ToSet
<1>10. ASSUME NEW a \in Formulas(e) \ UNION ToSet(s), NEW x \in Named(e, a)
       PROVE  x \notin UNION ToSet(s)
  BY <1>3, <1>6
<1>11. C \subseteq UNION ToSet(s)
  BY <1>1, <1>2, <1>6
<1> QED BY <1>2, <1>7, <1>8, <1>9, <1>10, <1>11 DEF u, C

LEMMA ExecuteStepFresh == Inv /\ Fresh /\ ExecuteStep => Fresh'
<1>a. SUFFICES ASSUME Inv, Fresh, ExecuteStep PROVE Fresh'
  OBVIOUS
<1> DEFINE C == Head(plan)
           P == UNION ToSet(plan)
<1>1. /\ pc = "run" /\ plan # <<>> /\ engine' = RunStep(engine, C) /\ plan' = Tail(plan)
      /\ pc' = pc /\ iters' = iters
  BY <1>a DEF ExecuteStep
<1>2. /\ Sound(engine, typed) /\ engine \in Engine /\ Lost(engine) \subseteq P
      /\ plan \in Seq((SUBSET Formulas(engine)) \ {{}})
  BY <1>a, <1>1 DEF Inv, Sound, Pending
<1>3. /\ Chained(engine, plan) /\ RefusalsStand(engine) /\ Awaited(engine, plan)
      /\ iters > 0 /\ engine.redirty # {} => engine.unstable \ engine.refused # {}
  BY <1>a, <1>1 DEF Fresh
<1>4. /\ C \in (SUBSET Formulas(engine)) \ {{}} /\ Chained(engine, plan')
      /\ \A c \in C : Named(engine, c) \cap Lost(engine) \subseteq C
      /\ \A a \in P : a \in C \/ a \in UNION ToSet(plan')
      /\ \A a \in Formulas(engine) \ P :
           Named(engine, a) \cap C = {} /\ Named(engine, a) \cap Lost(engine) = {}
  <2> DEFINE L == Lost(engine)
  <2>1. L \in SUBSET (UNION ToSet(plan)) /\ Chained(engine, plan) /\ plan # <<>>
    BY <1>1, <1>2, <1>3
  <2> HIDE DEF L
  <2>2. /\ C \in (SUBSET Formulas(engine)) \ {{}} /\ Chained(engine, Tail(plan))
        /\ \A c \in C : Named(engine, c) \cap L \subseteq C
        /\ \A a \in P : a \in C \/ a \in UNION ToSet(Tail(plan))
        /\ \A a \in Formulas(engine) \ P : Named(engine, a) \cap C = {} /\ Named(engine, a) \cap L = {}
    BY <1>2, <2>1, FirstStepFacts
  <2> QED BY <1>1, <2>2 DEF L
<1> HIDE DEF C
<1>5. /\ Wrote(engine, engine', C) /\ Announced(engine, engine') /\ RefusalsStand(engine')
      /\ \A c \in C : Right(engine', c) \/ Named(engine, c) \cap engine'.redirty # {}
  BY <1>1, <1>2, <1>3, <1>4, RunStepRight
<1>6. /\ engine'.programs = engine.programs /\ engine.redirty \subseteq engine'.redirty
      /\ Formulas(engine') = Formulas(engine)
  BY <1>5 DEF Wrote, Formulas
<1>7. Chained(engine', plan')
  BY <1>4, <1>6, ChainedSame
<1>8. ASSUME NEW a \in Formulas(engine), Named(engine, a) \cap engine'.redirty # {}
      PROVE  a \in Dirtied(engine', engine'.redirty)
  <2> DEFINE R == engine'.redirty
  <2>1. Named(engine, a) \cap (R \cup Dirtied(engine, R)) # {}
    BY <1>8
  <2> HIDE DEF R
  <2>2. a \in Dirtied(engine, R)
    BY <1>2, <2>1, DirtiedClosed
  <2>3. Dirtied(engine, R) \subseteq Dirtied(engine', R)
    BY <1>6, DirtiedMore
  <2> QED BY <2>2, <2>3 DEF R
<1>9. ASSUME NEW a \in Formulas(engine)
      PROVE  \/ Right(engine', a) \/ a \in UNION ToSet(plan')
             \/ a \in Dirtied(engine', engine'.redirty)
  <2>1. CASE a \in C
    BY <1>5, <1>8, <2>1
  <2>2. CASE a \notin C /\ a \in P
    BY <1>4, <2>2
  <2>3. CASE a \in Dirtied(engine, engine.redirty)
    BY <1>6, <2>3, DirtiedMore
  <2>4. CASE a \notin C /\ a \notin P /\ Right(engine, a)
    <3>1. Right(engine', a) \/ Named(engine, a) \cap engine'.redirty # {}
      BY <1>2, <1>4, <1>5, <2>4, RightKept
    <3> QED BY <1>8, <3>1
  <2> QED BY <1>3, <2>1, <2>2, <2>3, <2>4 DEF Awaited
<1>10. Awaited(engine', plan')
  BY <1>6, <1>9 DEF Awaited
<1>11. iters' > 0 /\ engine'.redirty # {} => engine'.unstable \ engine'.refused # {}
  BY <1>1, <1>3, <1>5 DEF Announced
<1> QED BY <1>1, <1>5, <1>7, <1>10, <1>11 DEF Fresh

\* When a pass ends, what is not right lies downstream of the cells collected.
LEMMA PassEndRight ==
  ASSUME Inv, Fresh, PassEnds
  PROVE  LET f == Drained(engine)
         IN /\ engine \in Engine /\ RefusalsStand(f)
            /\ f.programs = engine.programs /\ f.redirty = {} /\ f.refused = engine.refused
            /\ \A a \in Formulas(engine) : Right(f, a) \/ a \in Dirtied(engine, engine.redirty)
<1> DEFINE f == Drained(engine)
<1>1. engine \in Engine /\ pc = "run" /\ plan = <<>>
  BY DEF Inv, Sound, PassEnds
<1>2. /\ f.programs = engine.programs /\ f.values = engine.values /\ f.spills = engine.spills
      /\ f.diags = engine.diags /\ f.refused = engine.refused /\ f.redirty = {}
  BY <1>1 DEF Drained, Engine
<1> HIDE DEF f
<1>3. RefusalsStand(f)
  BY <1>2 DEF Fresh, RefusalsStand, RefusedAt, Formulas
<1>4. ASSUME NEW a \in Formulas(engine)
      PROVE  Right(f, a) \/ a \in Dirtied(engine, engine.redirty)
  <2>1. Right(engine, a) \/ a \in Dirtied(engine, engine.redirty)
    <3>1. UNION ToSet(plan) = {}
      BY <1>1, NothingPlanned
    <3> QED BY <1>1, <3>1 DEF Fresh, Awaited
  <2>2. Right(engine, a) => Right(f, a)
    BY <1>1, <1>2, RightSame
  <2> QED BY <2>1, <2>2
<1> QED BY <1>1, <1>2, <1>3, <1>4 DEF f

LEMMA ConvergedFresh == Inv /\ Fresh /\ Converged => Fresh'
<1>a. SUFFICES ASSUME Inv, Fresh, Converged PROVE Fresh'
  OBVIOUS
<1>1. /\ PassEnds /\ engine.redirty = {} /\ engine' = Drained(engine) /\ pc' = "idle"
      /\ plan' = plan /\ plan = <<>>
  BY <1>a DEF Converged, PassEnds
<1>2. /\ RefusalsStand(engine') /\ engine'.programs = engine.programs
      /\ \A a \in Formulas(engine) : Right(engine', a) \/ a \in Dirtied(engine, {})
  BY <1>a, <1>1, PassEndRight
<1>3. \A a \in Formulas(engine') : Right(engine', a)
  BY <1>2, DirtiedNone DEF Formulas
<1> QED BY <1>1, <1>2, <1>3, NothingPlanned DEF Fresh

LEMMA NextPassFresh == Inv /\ Fresh /\ NextPass => Fresh'
<1>a. SUFFICES ASSUME Inv, Fresh, NextPass PROVE Fresh'
  OBVIOUS
<1> DEFINE D == Dirtied(engine, engine.redirty)
<1>1. /\ PassEnds /\ engine' = Drained(engine) /\ plan' = PlanOf(engine, D)
      /\ pc' = IF plan' = <<>> THEN "idle" ELSE "run"
  BY <1>a DEF NextPass
<1>2. /\ RefusalsStand(engine') /\ engine'.programs = engine.programs /\ engine'.redirty = {}
      /\ \A a \in Formulas(engine) : Right(engine', a) \/ a \in D
      /\ engine \in Engine
  BY <1>a, <1>1, PassEndRight
<1>3. D \in SUBSET Cell /\ D \subseteq Formulas(engine)
  BY DEF Dirtied, Formulas
<1>4. Followed(engine, D)
  <2> SUFFICES ASSUME NEW a \in Formulas(engine), Named(engine, a) \cap D # {} PROVE a \in D
    BY DEF Followed
  <2> DEFINE R == engine.redirty
  <2>1. Named(engine, a) \cap (R \cup Dirtied(engine, R)) # {}
    OBVIOUS
  <2> HIDE DEF R
  <2>2. a \in Dirtied(engine, R)
    BY <1>2, <2>1, DirtiedClosed
  <2> QED BY <2>2 DEF R
<1> HIDE DEF D
<1>5. Chained(engine', plan')
  <2>1. Chained(engine, PlanOf(engine, D))
    BY <1>2, <1>3, <1>4, PlanChained
  <2> QED BY <1>1, <1>2, <2>1, ChainedSame
<1>6. D \subseteq UNION ToSet(plan')
  <2>1. D \cap Formulas(engine) \subseteq UNION ToSet(PlanOf(engine, D))
    BY <1>2, PlanFacts
  <2> QED BY <1>1, <1>3, <2>1
<1>7. \A a \in Formulas(engine') : Right(engine', a) \/ a \in UNION ToSet(plan')
  BY <1>2, <1>6 DEF Formulas
<1>8. plan' = <<>> => \A a \in Formulas(engine') : Right(engine', a)
  BY <1>7, NothingPlanned
<1> QED BY <1>1, <1>2, <1>5, <1>7, <1>8 DEF Fresh, Awaited

LEMMA OverCapFresh == Inv /\ Fresh /\ OverCap => Fresh'
<1>a. SUFFICES ASSUME Inv, Fresh, OverCap PROVE Fresh'
  OBVIOUS
<1> DEFINE new == engine.unstable \ engine.refused
           e == Drained(engine)
           done == FoldSet(LAMBDA a, acc : RefuseAnchor(acc, a), e, new)
<1>1. /\ PassEnds /\ ~ (iters < Cap) /\ engine.redirty # {} /\ pc = "run" /\ plan = <<>>
      /\ engine' = [done EXCEPT !.redirty = IF new = {} THEN {} ELSE @ \cup engine.redirty]
      /\ iters' = (IF new = {} THEN iters ELSE 0) /\ pc' = (IF new = {} THEN "idle" ELSE "run")
      /\ plan' = plan
  BY <1>a DEF OverCap, UnderCap, PassEnds
<1>2. iters \in 0 .. Cap /\ iters > 0
  <2>1. iters \in 0 .. Cap
    BY <1>a DEF Inv
  <2>2. ~ (iters < Cap)
    BY <1>1
  <2> QED BY <2>1, <2>2, CapAssumption
<1>3. new # {}
  BY <1>a, <1>1, <1>2 DEF Fresh
<1>4. /\ Changing /\ Sound(e, typed) /\ Lost(e) = {} /\ Formulas(e) = Formulas(engine)
      /\ e \in Engine
  BY <1>a, <1>1, PassEndFacts DEF Sound
<1>5. /\ RefusalsStand(e) /\ e.programs = engine.programs /\ e.refused = engine.refused
      /\ \A a \in Formulas(e) : Right(e, a) \/ a \in Dirtied(engine, engine.redirty)
  BY <1>a, <1>1, <1>4, PassEndRight
<1> HIDE DEF e
<1>6. new \in SUBSET Formulas(e)
  BY <1>2, <1>4 DEF Changing
<1>7. Settled(e, typed, done, new) /\ AnchorsRefused(e, done, new)
  <2>1. LET f == FoldSet(LAMBDA a, acc : RefuseAnchor(acc, a), e, new)
        IN Settled(e, typed, f, new) /\ AnchorsRefused(e, f, new)
    BY <1>4, <1>6, RefusalsSound
  <2> QED BY <2>1
<1> HIDE DEF new, done
<1>8. /\ Wrote(e, done, new) /\ \A a \in new : RefusedAt(done, a)
      /\ new \subseteq done.redirty /\ done.refused = e.refused \cup new
      /\ done \in Engine /\ done.programs = e.programs /\ Formulas(done) = Formulas(e)
  BY <1>7 DEF AnchorsRefused, Settled, Sound, Formulas
<1>9. /\ engine'.programs = done.programs /\ engine'.values = done.values
      /\ engine'.spills = done.spills /\ engine'.diags = done.diags
      /\ engine'.refused = done.refused /\ engine'.redirty = done.redirty \cup engine.redirty
      /\ Formulas(engine') = Formulas(e)
  BY <1>1, <1>3, <1>8 DEF Engine, Formulas
<1>10. ASSUME NEW a \in done.refused PROVE a \in Formulas(done) /\ RefusedAt(done, a)
  <2>1. CASE a \in new
    BY <1>6, <1>8, <2>1
  <2>2. CASE a \notin new
    <3>1. a \in Formulas(e) \ new /\ RefusedAt(e, a)
      BY <1>5, <1>8, <2>2 DEF RefusalsStand
    <3> QED BY <1>8, <3>1, RefusedKept
  <2> QED BY <2>1, <2>2
<1>11. RefusalsStand(engine')
  BY <1>8, <1>9, <1>10 DEF RefusalsStand, RefusedAt
<1>12. ASSUME NEW a \in Formulas(e), Named(e, a) \cap done.redirty # {}
       PROVE  a \in Dirtied(engine', engine'.redirty)
  <2>1. Named(e, a) \cap (done.redirty \cup Dirtied(e, done.redirty)) # {}
    BY <1>12
  <2>2. a \in Dirtied(e, done.redirty)
    BY <1>4, <2>1, DirtiedClosed
  <2>3. e.programs = engine'.programs /\ done.redirty \subseteq engine'.redirty
    BY <1>8, <1>9
  <2> QED BY <2>2, <2>3, DirtiedMore
<1>13. ASSUME NEW a \in Formulas(e)
       PROVE  Right(engine', a) \/ a \in Dirtied(engine', engine'.redirty)
  <2>0. a \in Formulas(done) /\ (Right(done, a) => Right(engine', a))
    BY <1>8, <1>9, RightSame
  <2>1. CASE a \in new
    BY <1>8, <2>0, <2>1 DEF Right
  <2>2. CASE a \in Dirtied(engine, engine.redirty)
    <3>1. engine'.programs = engine.programs /\ engine.redirty \subseteq engine'.redirty
      BY <1>5, <1>8, <1>9
    <3> QED BY <2>2, <3>1, DirtiedMore
  <2>3. CASE Named(e, a) \cap new # {}
    BY <1>8, <1>12, <2>3
  <2>4. CASE a \notin new /\ Right(e, a) /\ Named(e, a) \cap new = {}
    <3>1. Right(done, a) \/ Named(e, a) \cap done.redirty # {}
      BY <1>4, <1>8, <2>4, RightKept
    <3> QED BY <1>12, <2>0, <3>1
  <2> QED BY <1>5, <2>1, <2>2, <2>3, <2>4
<1>14. Awaited(engine', plan')
  BY <1>9, <1>13 DEF Awaited
<1>15. Chained(engine', plan') /\ ~ (iters' > 0) /\ pc' = "run"
  BY <1>1, <1>3, NothingPlanned
<1> QED BY <1>11, <1>14, <1>15 DEF Fresh

LEMMA StutterFresh == Fresh /\ UNCHANGED vars => Fresh'
BY DEF Fresh, vars

LEMMA NextFresh == Inv /\ Fresh /\ [Next]_vars => Fresh'
<1> SUFFICES ASSUME Inv, Fresh, [Next]_vars PROVE Fresh'
  OBVIOUS
<1>1. CASE Recalc
  BY <1>1, RecalcFresh
<1>2. CASE \E c \in Cell : \E p \in Menu[c] : EditFormula(c, p)
  BY <1>2, EditFormulaFresh
<1>3. CASE \E c \in Cell : \E v \in Typable[c] : EditLiteral(c, v)
  BY <1>3, EditLiteralFresh
<1>4. CASE Reload
  BY <1>4, ReloadFresh
<1>5. CASE ExecuteStep
  BY <1>5, ExecuteStepFresh
<1>6. CASE Converged
  BY <1>6, ConvergedFresh
<1>7. CASE NextPass
  BY <1>7, NextPassFresh
<1>8. CASE OverCap
  BY <1>8, OverCapFresh
<1>9. CASE UNCHANGED vars
  BY <1>9, StutterFresh
<1> QED BY <1>1, <1>2, <1>3, <1>4, <1>5, <1>6, <1>7, <1>8, <1>9 DEF Next, Step

-----------------------------------------------------------------------------
(* What the invariants say of the state. *)

LEMMA SoundIsExact ==
  ASSUME Sound(engine, typed), Pending
  PROVE  OwnershipExact
<1>1. /\ Mapped(engine) /\ Accounted(engine, typed) /\ Anchors = AnchorsOf(engine)
  BY DEF Sound, Anchors, AnchorsOf
<1>2. pc = "idle" => \A a \in Anchors : \A x \in engine.spills[a] : engine.owner[x] = a
  BY DEF Pending, Lost, Anchors
<1>3. NoOrphans
  BY <1>1 DEF NoOrphans, Accounted
<1> QED BY <1>1, <1>2, <1>3 DEF OwnershipExact, Mapped

LEMMA FreshIsRight == Fresh => FreshOrRefused
<1> SUFFICES ASSUME Fresh, pc = "idle", NEW a \in Formulas(engine)
             PROVE  IF engine.diags[a] \cap Refusal = {} THEN Agrees(a)
                    ELSE /\ engine.values[a] \in Error /\ engine.spills[a] = {}
                         /\ engine.diags[a] \cap Refusal = {"OffSheet"} => LeavesSheet(a)
  BY DEF FreshOrRefused
<1> DEFINE r == Result(engine, a)
<1>1. Right(engine, a)
  BY DEF Fresh
<1>2. Agrees(a) <=> Holds(engine, a, r)
  BY DEF Agrees, Holds
\* The last element of an array that does not fit is the one that lies outside.
<1>3. TooLargeAt(engine, a, r) => LeavesSheet(a)
  <2> SUFFICES ASSUME TooLargeAt(engine, a, r)
               PROVE  /\ r.kind = "array"
                      /\ \E d \in DOMAIN r.at : RowOf(a) + d[1] >= Height \/ ColOf(a) + d[2] >= Width
    BY DEF LeavesSheet
  <2> HIDE DEF r
  <2> DEFINE d == <<r.h - 1, r.w - 1>>
  <2>1. d \in DOMAIN r.at /\ r.kind = "array" /\ r.h \in Nat /\ r.w \in Nat
    BY DEF TooLargeAt, IsArray
  <2>2. RowOf(a) + d[1] >= Height \/ ColOf(a) + d[2] >= Width
    <3>1. a \in Cell /\ RowOf(a) \in Int /\ ColOf(a) \in Int
      BY ProgramFacts, SizeAssumption DEF Cell, RowOf, ColOf, Formulas
    <3>2. OffSheet(a, r)
      BY DEF TooLargeAt
    <3> QED BY <2>1, <3>1, <3>2, SizeAssumption DEF OffSheet
  <2> QED BY <2>1, <2>2
<1> HIDE DEF r
<1>4. RefusedAt(engine, a) \/ TooLargeAt(engine, a, r) \/ (engine.diags[a] \cap Refusal = {} /\ Holds(engine, a, r))
  BY <1>1 DEF Right, r
<1> QED BY <1>2, <1>3, <1>4 DEF RefusedAt, TooLargeAt

-----------------------------------------------------------------------------
(* The theorems. *)

(* The engine keeps its types, the spill maps agree with each other, with    *)
(* the formulas and with the literals, and no anchor that an edit robbed of  *)
(* a cell is forgotten while a plan runs.                                    *)
THEOREM EngineInvariant == Spec => []Inv
<1>1. Init => Inv
  BY InitInv
<1>2. Inv /\ [Next]_vars => Inv'
  BY NextKeepsInv
<1> QED BY <1>1, <1>2, PTL DEF Spec

(* Every variable keeps its type: the values an array writes are values, and *)
(* the slots it writes are cells of the sheet, whatever its size.            *)
THEOREM TypesKept == Spec => []TypeOK
<1>1. Inv => TypeOK
  <2> SUFFICES ASSUME Inv PROVE TypeOK
    OBVIOUS
  <2>1. engine \in Engine
    BY DEF Inv, Sound
  <2>2. plan \in Seq(SUBSET Cell)
    <3>1. plan \in Seq((SUBSET Formulas(engine)) \ {{}})
      BY DEF Inv, Pending
    <3>2. (SUBSET Formulas(engine)) \ {{}} \subseteq SUBSET Cell
      BY DEF Formulas
    <3> QED BY <3>1, <3>2
  <2> QED BY <2>1, <2>2 DEF Inv, TypeOK
<1> QED BY <1>1, EngineInvariant, PTL

(* The two spill maps describe one partition of the cells that arrays own,   *)
(* the graph flags exactly its anchors, every cell of a region is its        *)
(* anchor's again when a call returns, and no array leaves a value behind    *)
(* (OwnershipExact: spills, spill_owner, retract_spill, edit's marking of    *)
(* the anchor it takes a cell from).                                         *)
THEOREM OwnershipIsExact == Spec => []OwnershipExact
<1>1. Inv => OwnershipExact
  BY SoundIsExact DEF Inv
<1> QED BY <1>1, EngineInvariant, PTL

(* No array writes over a literal or blanks it, in whatever order formulas   *)
(* run, grow, shrink, collide, are refused or are typed over (LiteralsSafe:  *)
(* spill_anchor's check, retract_spill).                                     *)
THEOREM LiteralsAreSafe == Spec => []LiteralsSafe
<1>1. Inv => LiteralsSafe
  BY DEF Inv, Sound, LiteralsKept, LiteralsSafe
<1> QED BY <1>1, EngineInvariant, PTL

(* While a call runs, every formula is right, is still to run in this pass,  *)
(* or lies downstream of a cell collected for the next; a pass runs each     *)
(* formula after those it reads; and when the pass cap is reached there is   *)
(* always an anchor left to refuse (drive_recalc, mark_dirty, recalc_plan).  *)
THEOREM FreshInvariant == Spec => [](Inv /\ Fresh)
<1>1. Init => Inv /\ Fresh
  BY InitInv, InitFresh
<1>2. Inv /\ Fresh /\ [Next]_vars => Inv' /\ Fresh'
  BY NextKeepsInv, NextFresh
<1> QED BY <1>1, <1>2, PTL DEF Spec

(* Never silently wrong, whatever the order of edits, collisions, passes and *)
(* refusals: between calls every formula shows what it evaluates to now, or  *)
(* carries a diagnostic, shows an error and has no region; and one that is   *)
(* refused for its size alone leaves the sheet as things stand now           *)
(* (FreshOrRefused: drive_recalc, spill_redirty,                             *)
(* refuse_spill_nonconvergence, spill_anchor).                               *)
THEOREM FormulasAreRightOrRefused == Spec => []FreshOrRefused
<1> QED BY FreshIsRight, FreshInvariant, PTL
=============================================================================
