------------------------- MODULE ParallelRecalc_proofs -------------------------
(***************************************************************************)
(* Proofs about ParallelRecalc: the waves leave the engine as the serial   *)
(* executor would (ParallelIsSerial), keep the spill maps in agreement     *)
(* (OwnershipExact), and leave every formula right or refused              *)
(* (FreshOrRefused) whenever every array that the gate misses is in a wave *)
(* whose results are scanned, for every sheet, workbook, plan and list.    *)
(*                                                                         *)
(* The waves hold every step of the plan once, none before one it reads    *)
(* (Waves, BucketsFacts: by induction over the recursion that numbers the  *)
(* steps).  Two engines that differ only in the values and diagnostics of  *)
(* formulas still to run differ after a step only in those of the formulas *)
(* then still to run (Alike, AlikeStep), so a whole plan leaves the same   *)
(* engine from both (AlikeFold).                                           *)
(*                                                                         *)
(* A step that spills nothing changes only its own slots (StepQuiet) and   *)
(* is then Done: to run it again changes nothing (DoneStays), however many *)
(* steps run that it does not read (DoneKept).  So while the waves run     *)
(* (UnderWay) the engine is Alike the one they began with, and every step  *)
(* that has run is Done.  When none is left, a serial pass would change    *)
(* nothing; but it would also leave the same engine from where the waves   *)
(* began; hence the two are one (WavesLeaveSerial).                        *)
(***************************************************************************)
EXTENDS ParallelRecalc, SpillEngine_proofs

\* The formulas still to run, and the engine as the serial pass would begin.
Ahead(B) == UNION {CellsOf(B[k]) : k \in DOMAIN B}
Reset(s) == [s EXCEPT !.refused = {}]

\* The waves hold steps of the plan, each once, and none before one it reads.
Waves(e, B) ==
  /\ B \in Seq(Seq((SUBSET Formulas(e)) \ {{}}))
  /\ \A k \in DOMAIN B : B[k] # <<>> /\ \A i \in DOMAIN B[k] : B[k][i] \in ToSet(FullPlan(e))
  /\ \A k, l \in DOMAIN B : \A i \in DOMAIN B[k], j \in DOMAIN B[l] :
       /\ B[k][i] \cap B[l][j] # {} => k = l /\ i = j
       /\ \A a \in B[k][i] : Named(e, a) \cap B[l][j] # {} => l < k \/ (l = k /\ i = j)

\* Two engines that differ only in the values of A and the diagnostics of D.
Alike(e, f, A, D) ==
  /\ e.programs = f.programs /\ e.spills = f.spills /\ e.owner = f.owner
  /\ e.dynamic = f.dynamic /\ e.redirty = f.redirty
  /\ e.unstable = f.unstable /\ e.refused = f.refused
  /\ \A x \in Cell \ A : e.values[x] = f.values[x]
  /\ \A x \in Cell \ D : e.diags[x] = f.diags[x]

\* What a formula is diagnosed with before it is refused.
Parsed(e, c) == IF e.programs[c].op = "unparsed" THEN {"Unparsed"} ELSE {}

\* A step that has run and spilled nothing: to run it again changes nothing.
Done(e, C) ==
  IF IsCircular(e, C)
  THEN \A c \in C : e.values[c] = UnsupportedError /\ e.diags[c] = {"Circular"}
  ELSE \A c \in C :
         /\ Result(e, c).kind = "scalar"
         /\ e.values[c] = IF Result(e, c).value = Blank THEN 0 ELSE Result(e, c).value
         /\ e.diags[c] = Parsed(e, c)

\* Without a region there is nothing to reconcile.
Quiet(e) == AnchorsOf(e) = {} => e.redirty = {} /\ e.unstable = {}

\* No anchor lacks a cell, and nothing is refused.
Steady(e, t) == Sound(e, t) /\ Lost(e) = {} /\ e.refused = {}

\* The engine under waves that began at s, with the formulas of A still to run.
Plain(e, A, s) ==
  /\ AnchorsOf(e) = {}
  /\ Alike(Reset(s), e, Formulas(e), Formulas(e))
  /\ \A C \in ToSet(FullPlan(e)) : C \cap A = {} => Done(e, C)

UnderWay(e, A, t, s) ==
  /\ Steady(e, t)
  /\ e.programs = s.programs /\ A \subseteq Formulas(e)
  /\ \A a \in A : e.spills[a] = {}
  /\ \A a \in Formulas(e) \ A : Named(e, a) \cap A = {}
  /\ Quiet(e)
  /\ ~ Unscanned(s) => Plain(e, A, s)

\* No array is to come but those that are scanned for.
Scanned(e, B) ==
  \A k \in DOMAIN B : AllEval(e, B[k]) \/ \A c \in CellsOf(B[k]) : e.programs[c].op \notin ArrayOp

\* Inv, but for where the waves are.
Base ==
  /\ typed \in [Cell -> Value]
  /\ iters \in 0 .. Cap
  /\ call \in {"load", "recalc", "again", "edit", "reload", "rebuild"}
  /\ before \in [Cell -> Value] \cup {NoSnapshot}
  /\ Sound(engine, typed)
  /\ Pending
  /\ Changing

WaveInv ==
  /\ start \in Engine
  /\ UnderWay(engine, Ahead(buckets), typed, start)
  /\ Waves(engine, buckets)
  /\ ~ Unscanned(start) => Scanned(engine, buckets)
  /\ DOMAIN staged \subseteq IF InEvalWave THEN CellsOf(Head(buckets)) ELSE {}
  /\ \A c \in DOMAIN staged : staged[c] = Result(engine, c)

SerialInv ==
  /\ buckets = <<>> /\ DOMAIN staged = {}
  /\ pc # "run" => start = NoStart /\ Quiet(engine)
  /\ start # NoStart /\ ~ Unscanned(start) => FoldLeft(RunStep, engine, plan) = Serial(start)

ParInv ==
  /\ pc \in {"loaded", "idle", "run", "waves"}
  /\ Base
  /\ IF pc = "waves" THEN WaveInv ELSE SerialInv

-----------------------------------------------------------------------------
(* One step after the other. *)

LEMMA MaxFacts ==
  ASSUME NEW S, S \subseteq Nat, S # {}, NEW b \in Nat, \A x \in S : x <= b
  PROVE  Max(S) \in S /\ \A x \in S : x <= Max(S)
<1> DEFINE T == {b - x : x \in S}
<1>1. T \subseteq Nat /\ T # {}
  <2>1. \A x \in S : x \in Nat /\ x <= b
    OBVIOUS
  <2>2. \A x \in S : b - x \in Nat
    BY <2>1
  <2>3. PICK x : x \in S
    OBVIOUS
  <2> QED BY <2>2, <2>3
<1>2. PICK m \in T : \A n \in T : m <= n
  <2> HIDE DEF T
  <2> QED BY <1>1, LeastNatural
<1>3. PICK x \in S : m = b - x
  BY <1>2
<1>4. \A y \in S : b - x <= b - y
  BY <1>2, <1>3
<1>5. \A y \in S : x >= y
  BY <1>4
<1>6. Max(S) \in S /\ \A y \in S : Max(S) >= y
  BY <1>5 DEF Max
<1>7. \A y \in S : y \in Nat /\ Max(S) \in Nat
  BY <1>6
<1> QED BY <1>6, <1>7

\* The engines that the steps of a sequence lead through.
Chain(h, e, s) ==
  h[0] = e /\ \A i \in 1 .. Len(s) : h[i] = RunStep(h[i - 1], s[i])

LEMMA FoldChain ==
  ASSUME NEW e, NEW E, NEW s \in Seq(E)
  PROVE  \E h : Chain(h, e, s) /\ FoldLeft(RunStep, e, s) = h[Len(s)]
<1>1. PICK n \in Nat : Len(s) = n /\ DOMAIN s = 1 .. n /\ \A i \in 1 .. n : s[i] \in E
  BY SeqFacts
<1> DEFINE Body(g, u) == IF u = {} THEN e ELSE RunStep(g[u \ {Max(u)}], s[Max(u)])
           Keeps(g, m) == g = [u \in SUBSET (1 .. m) |-> Body(g, u)]
<1>2. \A m \in Nat : \A u \in SUBSET (1 .. m) : u # {} => Max(u) \in u /\ \A x \in u : x <= Max(u)
  <2> SUFFICES ASSUME NEW m \in Nat, NEW u \in SUBSET (1 .. m), u # {}
               PROVE  Max(u) \in u /\ \A x \in u : x <= Max(u)
    OBVIOUS
  <2>1. u \subseteq Nat /\ \A x \in u : x <= m
    OBVIOUS
  <2> QED BY <2>1, MaxFacts
\* The recursion on the largest index defines a function.
<1>3. \A m \in Nat : \E g : Keeps(g, m)
  <2> DEFINE Bad == {m \in Nat : ~ \E g : Keeps(g, m)}
  <2> SUFFICES ASSUME Bad # {} PROVE FALSE
    OBVIOUS
  <2>1. PICK m \in Bad : \A k \in Bad : m <= k
    <3>1. Bad \subseteq Nat
      OBVIOUS
    <3> HIDE DEF Bad
    <3> QED BY <3>1, LeastNatural
  <2>2. m \in Nat /\ ~ \E g : Keeps(g, m)
    BY <2>1
  <2>3. CASE m = 0
    <3> DEFINE g == [u \in SUBSET (1 .. 0) |-> e]
    <3>1. \A u \in SUBSET (1 .. 0) : u = {}
      OBVIOUS
    <3>2. \A h, u : u = {} => Body(h, u) = e
      OBVIOUS
    <3>3. Keeps(g, 0)
      <4>1. \A u \in SUBSET (1 .. 0) : Body(g, u) = e
        <5> HIDE DEF Body, g
        <5> QED BY <3>1, <3>2
      <4>2. g = [u \in SUBSET (1 .. 0) |-> e]
        OBVIOUS
      <4> HIDE DEF Body, g
      <4> QED BY <4>1, <4>2
    <3> HIDE DEF Keeps, g
    <3> QED BY <2>2, <2>3, <3>3
  <2>4. CASE m # 0
    <3>1. m - 1 \in Nat /\ ~ (m <= m - 1)
      BY <2>2, <2>4
    <3>2. PICK g : Keeps(g, m - 1)
      <4>1. m - 1 \notin Bad
        <5> HIDE DEF Bad
        <5> QED BY <2>1, <3>1
      <4> HIDE DEF Keeps
      <4> QED BY <3>1, <4>1
    <3> DEFINE f == [u \in SUBSET (1 .. m) |-> IF m \in u THEN RunStep(g[u \ {m}], s[m]) ELSE g[u]]
    <3>3. \A u \in SUBSET (1 .. m) : m \notin u => u \in SUBSET (1 .. m - 1)
      BY <2>2
    <3>4. \A u \in SUBSET (1 .. m - 1) : u \in SUBSET (1 .. m) /\ m \notin u
      BY <2>2
    <3>5. \A u \in SUBSET (1 .. m - 1) : f[u] = g[u]
      BY <3>4
    <3>6. ASSUME NEW u \in SUBSET (1 .. m) PROVE f[u] = Body(f, u)
      <4>1. CASE m \in u
        <5>1. Max(u) = m
          <6>1. Max(u) \in u /\ m <= Max(u) /\ Max(u) \in 1 .. m
            BY <1>2, <2>2, <4>1
          <6> QED BY <2>2, <6>1
        <5>2. u \ {m} \in SUBSET (1 .. m - 1)
          BY <2>2
        <5>3. f[u \ {m}] = g[u \ {m}] /\ f[u] = RunStep(g[u \ {m}], s[m])
          BY <3>5, <4>1, <5>2
        <5> HIDE DEF f
        <5> QED BY <4>1, <5>1, <5>3
      <4>2. CASE m \notin u
        <5>1. u \in SUBSET (1 .. m - 1) /\ f[u] = g[u]
          BY <3>3, <3>5, <4>2
        <5>2. g[u] = Body(g, u)
          <6> HIDE DEF Body
          <6> QED BY <3>2, <5>1
        <5>3. CASE u = {}
          BY <5>1, <5>2, <5>3
        <5>4. CASE u # {}
          <6>1. u \ {Max(u)} \in SUBSET (1 .. m - 1)
            BY <5>1
          <6>2. f[u \ {Max(u)}] = g[u \ {Max(u)}]
            BY <3>5, <6>1
          <6> HIDE DEF f
          <6> QED BY <5>1, <5>2, <5>4, <6>2
        <5> QED BY <5>3, <5>4
      <4> QED BY <4>1, <4>2
    <3>7. Keeps(f, m)
      <4>1. f = [u \in SUBSET (1 .. m) |-> f[u]]
        OBVIOUS
      <4> HIDE DEF f, Body
      <4> QED BY <3>6, <4>1
    <3> HIDE DEF Keeps, f
    <3> QED BY <2>2, <3>7
  <2> QED BY <2>3, <2>4
<1> DEFINE iter == CHOOSE g : Keeps(g, n)
           h == [i \in 0 .. n |-> iter[1 .. i]]
<1>4. Keeps(iter, n)
  <2> HIDE DEF Keeps
  <2> QED BY <1>3
<1>5. FoldLeft(RunStep, e, s) = iter[1 .. n]
  BY <1>1 DEF FoldLeft, MapThenFoldSet
<1> HIDE DEF iter
<1>6. \A u \in SUBSET (1 .. n) : iter[u] = Body(iter, u)
  <2> HIDE DEF Body
  <2> QED BY <1>4
<1>7. h[0] = e
  <2>1. 1 .. 0 = {} /\ {} \in SUBSET (1 .. n)
    OBVIOUS
  <2>2. iter[{}] = e
    BY <1>6, <2>1
  <2> QED BY <2>1, <2>2
<1>8. ASSUME NEW i \in 1 .. n PROVE h[i] = RunStep(h[i - 1], s[i])
  <2>1. 1 .. i \in SUBSET (1 .. n) /\ i \in 1 .. i /\ (1 .. i) \ {i} = 1 .. i - 1 /\ i - 1 \in 0 .. n /\ i \in 0 .. n
    BY <1>1
  <2>2. Max(1 .. i) = i
    <3>1. Max(1 .. i) \in 1 .. i /\ i <= Max(1 .. i)
      BY <1>2, <2>1
    <3> QED BY <3>1
  <2>3. iter[1 .. i] = RunStep(iter[1 .. i - 1], s[i])
    BY <1>6, <2>1, <2>2
  <2> QED BY <2>1, <2>3
<1>9. h[n] = iter[1 .. n]
  OBVIOUS
<1> HIDE DEF h
<1> QED BY <1>1, <1>5, <1>7, <1>8, <1>9 DEF Chain

LEMMA ChainSame ==
  ASSUME NEW e, NEW s, Len(s) \in Nat, NEW h, NEW g, Chain(h, e, s), Chain(g, e, s)
  PROVE  h[Len(s)] = g[Len(s)]
<1> DEFINE Bad == {i \in 0 .. Len(s) : h[i] # g[i]}
<1>0. Len(s) \in Bad \/ h[Len(s)] = g[Len(s)]
  OBVIOUS
<1> SUFFICES ASSUME Bad # {} PROVE FALSE
  BY <1>0
<1>1. PICK m \in Bad : \A k \in Bad : m <= k
  <2>1. Bad \subseteq Nat
    OBVIOUS
  <2> HIDE DEF Bad
  <2> QED BY <2>1, LeastNatural
<1>2. m \in 0 .. Len(s) /\ h[m] # g[m]
  BY <1>1
<1>3. m # 0
  BY <1>2 DEF Chain
<1>4. m - 1 \in 0 .. Len(s) /\ ~ (m <= m - 1) /\ m \in 1 .. Len(s)
  BY <1>2, <1>3
<1>5. h[m - 1] = g[m - 1]
  BY <1>1, <1>4
<1> QED BY <1>2, <1>4, <1>5 DEF Chain

\* The first step, then the others.
LEMMA FoldFirst ==
  ASSUME NEW e, NEW E, NEW s \in Seq(E), s # <<>>
  PROVE  FoldLeft(RunStep, e, s) = FoldLeft(RunStep, RunStep(e, Head(s)), Tail(s))
<1>1. PICK n \in Nat \ {0} :
        /\ DOMAIN s = 1 .. n /\ DOMAIN Tail(s) = 1 .. n - 1 /\ Head(s) = s[1]
        /\ \A i \in 1 .. n - 1 : Tail(s)[i] = s[i + 1]
  BY TailFacts
<1>2. Tail(s) \in Seq(E) /\ Len(s) = n /\ Len(Tail(s)) = n - 1
  <2>1. Tail(s) \in Seq(E)
    OBVIOUS
  <2>2. Len(s) \in Nat /\ DOMAIN s = 1 .. Len(s) /\ Len(Tail(s)) = Len(s) - 1
    BY LenProperties
  <2> QED BY <1>1, <2>1, <2>2
<1>3. PICK h : Chain(h, e, s) /\ FoldLeft(RunStep, e, s) = h[Len(s)]
  BY FoldChain
<1>4. PICK g : Chain(g, RunStep(e, Head(s)), Tail(s))
               /\ FoldLeft(RunStep, RunStep(e, Head(s)), Tail(s)) = g[Len(Tail(s))]
  BY <1>2, FoldChain
<1> DEFINE u == [i \in 0 .. n - 1 |-> h[i + 1]]
<1>5. Chain(u, RunStep(e, Head(s)), Tail(s))
  <2>1. u[0] = RunStep(e, Head(s))
    <3>1. 1 \in 1 .. Len(s) /\ 0 \in 0 .. n - 1
      BY <1>1, <1>2
    <3> QED BY <1>1, <1>3, <3>1 DEF Chain
  <2>2. ASSUME NEW i \in 1 .. n - 1 PROVE u[i] = RunStep(u[i - 1], Tail(s)[i])
    <3>1. i \in 0 .. n - 1 /\ i - 1 \in 0 .. n - 1 /\ i + 1 \in 1 .. Len(s) /\ (i + 1) - 1 = i /\ (i - 1) + 1 = i
      BY <1>1, <1>2
    <3>2. h[i + 1] = RunStep(h[i], s[i + 1])
      BY <1>3, <3>1 DEF Chain
    <3> QED BY <1>1, <3>1, <3>2
  <2> HIDE DEF u
  <2> QED BY <1>2, <2>1, <2>2 DEF Chain
<1>6. u[n - 1] = h[n] /\ n - 1 \in 0 .. n - 1 /\ n - 1 \in Nat
  BY <1>1
<1>7. u[n - 1] = g[n - 1]
  <2> DEFINE d == RunStep(e, Head(s))
             t == Tail(s)
  <2>1. Chain(g, d, t) /\ Chain(u, d, t) /\ Len(t) = n - 1 /\ Len(t) \in Nat
    BY <1>2, <1>4, <1>5, <1>6
  <2> HIDE DEF u, d, t
  <2>2. u[Len(t)] = g[Len(t)]
    BY <2>1, ChainSame
  <2> QED BY <1>6, <2>1, <2>2
<1> QED BY <1>2, <1>3, <1>4, <1>6, <1>7

LEMMA FoldNone ==
  ASSUME NEW e PROVE FoldLeft(RunStep, e, <<>>) = e
<1>1. <<>> \in Seq({}) /\ Len(<<>>) = 0
  OBVIOUS
<1>2. PICK h : Chain(h, e, <<>>) /\ FoldLeft(RunStep, e, <<>>) = h[Len(<<>>)]
  BY <1>1, FoldChain
<1> QED BY <1>1, <1>2 DEF Chain

-----------------------------------------------------------------------------
(* The same step from two engines that agree on what it reads. *)

LEMMA AlikeSame ==
  ASSUME NEW e \in Engine, NEW f \in Engine, Alike(e, f, {}, {})
  PROVE  e = f
<1>1. /\ e.values \in [Cell -> Value] /\ f.values \in [Cell -> Value]
      /\ DOMAIN e.diags = Cell /\ DOMAIN f.diags = Cell
      /\ e.diags = [x \in Cell |-> e.diags[x]] /\ f.diags = [x \in Cell |-> f.diags[x]]
  BY EngineFacts
<1>2. e.values = f.values /\ e.diags = f.diags
  BY <1>1 DEF Alike
<1> QED BY <1>2 DEF Alike, Engine

LEMMA AlikeTagged ==
  ASSUME NEW e \in Engine, NEW f \in Engine, NEW A, NEW D, Alike(e, f, A, D),
         NEW c \in Cell, NEW d
  PROVE  Alike([e EXCEPT !.diags[c] = d], [f EXCEPT !.diags[c] = d], A, D \ {c})
<1> DEFINE g == [e EXCEPT !.diags[c] = d]
           h == [f EXCEPT !.diags[c] = d]
<1>1. /\ g.programs = e.programs /\ g.values = e.values /\ g.spills = e.spills
      /\ g.owner = e.owner /\ g.dynamic = e.dynamic /\ g.refused = e.refused
      /\ g.unstable = e.unstable /\ g.redirty = e.redirty
      /\ g.diags[c] = d /\ \A x \in Cell \ {c} : g.diags[x] = e.diags[x]
  BY EngineFacts DEF Engine
<1>2. /\ h.programs = f.programs /\ h.values = f.values /\ h.spills = f.spills
      /\ h.owner = f.owner /\ h.dynamic = f.dynamic /\ h.refused = f.refused
      /\ h.unstable = f.unstable /\ h.redirty = f.redirty
      /\ h.diags[c] = d /\ \A x \in Cell \ {c} : h.diags[x] = f.diags[x]
  BY EngineFacts DEF Engine
<1>3. \A x \in Cell \ (D \ {c}) : x = c \/ x \in Cell \ D
  OBVIOUS
<1> HIDE DEF g, h
<1>4. Alike(g, h, A, D \ {c})
  BY <1>1, <1>2, <1>3 DEF Alike
<1> QED BY <1>4 DEF g, h

\* A region holds no formula but its anchor.
LEMMA RegionFacts ==
  ASSUME NEW e \in Engine, Mapped(e), NEW a \in Cell
  PROVE  \A x \in Formulas(e) : e.owner[x] = a => x = a
<1>1. a # NoOwner
  BY NoOwnerAssumption
<1> QED BY <1>1 DEF Mapped

\* What the anchor a may blank in S is the same in both, and shows the same.
Vacates(e, f, A, a, S) ==
  LET mine == Reclaimed(e, a, S)
  IN /\ Reclaimed(f, a, S) = mine /\ mine \subseteq Cell \ A
     /\ Vacated(f, mine) = Vacated(e, mine)

LEMMA AlikeVacated ==
  ASSUME NEW e \in Engine, Mapped(e), NEW f, NEW A \in SUBSET Formulas(e), NEW D,
         Alike(e, f, A, D), NEW a \in Cell, NEW S \in SUBSET Cell
  PROVE  Vacates(e, f, A, a, S)
<1> DEFINE mine == Reclaimed(e, a, S)
<1>1. Reclaimed(f, a, S) = mine
  BY DEF Reclaimed, Alike
<1>2. \A x \in mine : x \in Cell /\ x # a /\ e.owner[x] = a
  BY DEF Reclaimed
<1>3. \A x \in mine : x \notin Formulas(e)
  BY <1>2, RegionFacts
<1>4. \A x \in mine : x \in Cell \ A
  BY <1>2, <1>3
<1> HIDE DEF mine
<1>5. Vacated(f, mine) = Vacated(e, mine)
  BY <1>4 DEF Vacated, Alike
<1> QED BY <1>1, <1>4, <1>5 DEF Vacates, mine

LEMMA AlikeAlone ==
  ASSUME NEW e, NEW f, NEW t, Sound(e, t), Sound(f, t), NEW A \in SUBSET Formulas(e),
         NEW D, Alike(e, f, A, D), NEW a \in Formulas(e), NEW v \in Value
  PROVE  Alike(WriteAlone(e, a, v), WriteAlone(f, a, v), A \ {a}, D)
<1> DEFINE g == WriteAlone(e, a, v)
           h == WriteAlone(f, a, v)
           mine == Reclaimed(e, a, e.spills[a])
<1>1. e \in Engine /\ f \in Engine /\ Mapped(e) /\ a \in Cell
  BY ProgramFacts DEF Sound
<1>2. AloneLeaves(e, a, v, g) /\ AloneLeaves(f, a, v, h)
  BY <1>1, AloneFields
<1>3. e.spills[a] \in SUBSET Cell /\ f.spills[a] = e.spills[a]
  BY <1>1, EngineFacts DEF Alike
<1>4. /\ Reclaimed(f, a, f.spills[a]) = mine /\ mine \subseteq Cell \ A
      /\ Vacated(f, mine) = Vacated(e, mine)
  <2>1. Vacates(e, f, A, a, e.spills[a])
    BY <1>1, <1>3, AlikeVacated
  <2> QED BY <1>3, <2>1 DEF Vacates
<1> HIDE DEF g, h, mine
<1>5. /\ g.programs = h.programs /\ g.spills = h.spills /\ g.dynamic = h.dynamic
      /\ g.redirty = h.redirty /\ g.unstable = h.unstable /\ g.refused = h.refused
      /\ g.diags = e.diags /\ h.diags = f.diags
  BY <1>2, <1>3, <1>4 DEF AloneLeaves, Alike, mine
<1>6. g.owner = h.owner
  BY <1>2, <1>3, <1>4 DEF AloneLeaves, Alike, mine
<1>7. ASSUME NEW x \in Cell \ (A \ {a}) PROVE g.values[x] = h.values[x]
  <2>1. g.values[x] = IF x = a THEN v ELSE IF x \in mine THEN Blank ELSE e.values[x]
    BY <1>2 DEF AloneLeaves, mine
  <2>2. h.values[x] = IF x = a THEN v ELSE IF x \in mine THEN Blank ELSE f.values[x]
    BY <1>2, <1>4 DEF AloneLeaves
  <2> QED BY <2>1, <2>2 DEF Alike
<1>8. Alike(g, h, A \ {a}, D)
  BY <1>5, <1>6, <1>7 DEF Alike
<1> QED BY <1>8 DEF g, h

LEMMA AlikeRefused ==
  ASSUME NEW e, NEW f, NEW t, Sound(e, t), Sound(f, t), NEW A \in SUBSET Formulas(e),
         NEW D, Alike(e, f, A, D), NEW a \in Formulas(e), a \notin D, NEW v \in Value, NEW why
  PROVE  Alike(RefuseWith(e, a, v, why), RefuseWith(f, a, v, why), A \ {a}, D)
<1> DEFINE g == WriteAlone(e, a, v)
           h == WriteAlone(f, a, v)
<1>1. Alike(g, h, A \ {a}, D)
  BY AlikeAlone
<1>2. e \in Engine /\ f \in Engine /\ a \in Cell
  BY ProgramFacts DEF Sound
<1>3. g \in Engine /\ h \in Engine
  BY <1>2, AloneFields DEF AloneLeaves
<1> HIDE DEF g, h
<1>4. g.diags[a] = h.diags[a]
  BY <1>1, <1>2 DEF Alike
<1> DEFINE d == g.diags[a] \cup {why}
<1>5. Alike([g EXCEPT !.diags[a] = d], [h EXCEPT !.diags[a] = d], A \ {a}, D \ {a})
  <2> HIDE DEF d
  <2> QED BY <1>1, <1>2, <1>3, AlikeTagged
<1>6. /\ RefuseWith(e, a, v, why) = [g EXCEPT !.diags[a] = d]
      /\ RefuseWith(f, a, v, why) = [h EXCEPT !.diags[a] = d]
  BY <1>4 DEF RefuseWith, g, h
<1>7. D \ {a} = D
  OBVIOUS
<1> QED BY <1>5, <1>6, <1>7

\* What an array leaves when it spills, field by field.
Slots(a, r) == [x \in Footprint(a, r) |-> r.at[<<RowOf(x) - RowOf(a), ColOf(x) - ColOf(a)>>]]

SpillGives(e, a, S, new, f) ==
  LET left == Reclaimed(e, a, e.spills[a] \ S)
      changed == Vacated(e, left) \cup Rewritten(e, a, new)
  IN /\ f.programs = e.programs /\ f.refused = e.refused /\ f.diags = e.diags
     /\ f.values = [x \in Cell |-> IF x \in S THEN new[x]
                                   ELSE IF x \in left THEN Blank ELSE e.values[x]]
     /\ f.owner = [x \in Cell |-> IF x \in S THEN a
                                  ELSE IF x \in left THEN NoOwner ELSE e.owner[x]]
     /\ f.spills = [e.spills EXCEPT ![a] = S]
     /\ f.redirty = e.redirty \cup changed
     /\ f.unstable = IF changed # {} \/ e.spills[a] # S THEN e.unstable \cup {a} ELSE e.unstable
     /\ f.dynamic = e.dynamic \cup {a}

LEMMA SpillExact ==
  ASSUME NEW e \in Engine, NEW a \in Cell, NEW r, IsArray(r), ~ OffSheet(a, r)
  PROVE  SpillGives(e, a, Footprint(a, r), Slots(a, r), SpillInto(e, a, r))
<1> DEFINE S == Footprint(a, r)
           new == [x \in S |-> r.at[<<RowOf(x) - RowOf(a), ColOf(x) - ColOf(a)>>]]
           left == Reclaimed(e, a, e.spills[a] \ S)
           changed == Vacated(e, left) \cup Rewritten(e, a, new)
           values == [x \in Cell |-> IF x \in S THEN new[x] ELSE Blanked(e, left)[x]]
           shown == [x \in Cell |-> IF x \in S THEN new[x] ELSE IF x \in left THEN Blank ELSE e.values[x]]
           owner == [x \in Cell |-> IF x \in S THEN a ELSE IF x \in left THEN NoOwner ELSE e.owner[x]]
           spills == [e.spills EXCEPT ![a] = S]
           redirty == e.redirty \cup changed
           unstable == IF changed # {} \/ e.spills[a] # S THEN e.unstable \cup {a} ELSE e.unstable
           f == SpillInto(e, a, r)
<1>1. values = shown
  <2>1. \A x \in Cell : Blanked(e, left)[x] = IF x \in left THEN Blank ELSE e.values[x]
    BY DEF Blanked
  <2> HIDE DEF left, new
  <2> QED BY <2>1
<1>2. f = [e EXCEPT !.values = values, !.owner = owner, !.spills = spills,
                    !.redirty = redirty, !.unstable = unstable, !.dynamic = e.dynamic \cup {a}]
  <2>1. DOMAIN new = S
    OBVIOUS
  <2> QED BY <2>1 DEF SpillInto, Engine
<1> HIDE DEF f, values, shown, owner, spills, redirty, unstable
<1>3. /\ f.programs = e.programs /\ f.refused = e.refused /\ f.diags = e.diags
      /\ f.values = shown /\ f.owner = owner /\ f.spills = spills /\ f.redirty = redirty
      /\ f.unstable = unstable /\ f.dynamic = e.dynamic \cup {a}
  BY <1>1, <1>2 DEF Engine
<1> QED BY <1>3 DEF f, SpillGives, Slots, shown, owner, spills, redirty, unstable

LEMMA AlikeObstructed ==
  ASSUME NEW e \in Engine, NEW f, NEW A \in SUBSET Formulas(e), NEW D, Alike(e, f, A, D),
         NEW a \in Cell, NEW r, IsArray(r), ~ OffSheet(a, r)
  PROVE  Obstructed(e, a, r) <=> Obstructed(f, a, r)
<1>1. Footprint(a, r) \subseteq Cell
  BY FootprintFacts
<1>2. Formulas(f) = Formulas(e)
  BY DEF Alike, Formulas
<1>3. ASSUME NEW x \in Cell PROVE Occupied(e, x) <=> Occupied(f, x)
  <2>1. x \in A => x \in Formulas(e)
    OBVIOUS
  <2> QED BY <1>2, <2>1 DEF Occupied, Alike
<1> QED BY <1>1, <1>3 DEF Obstructed, Alike

LEMMA AlikeSpill ==
  ASSUME NEW e, NEW f, NEW t, Sound(e, t), Sound(f, t), NEW A \in SUBSET Formulas(e),
         NEW D, Alike(e, f, A, D), NEW a \in Formulas(e), NEW r, IsArray(r),
         ~ OffSheet(a, r), ~ Obstructed(e, a, r)
  PROVE  Alike(SpillInto(e, a, r), SpillInto(f, a, r), A \ {a}, D)
<1> DEFINE g == SpillInto(e, a, r)
           h == SpillInto(f, a, r)
           S == Footprint(a, r)
           new == Slots(a, r)
           left == Reclaimed(e, a, e.spills[a] \ S)
           changed == Vacated(e, left) \cup Rewritten(e, a, new)
<1>1. e \in Engine /\ f \in Engine /\ Mapped(e) /\ a \in Cell
  BY ProgramFacts DEF Sound
<1>2. S \subseteq Cell /\ a \in S
  BY <1>1, FootprintFacts
<1>3. e.spills[a] \in SUBSET Cell /\ f.spills[a] = e.spills[a]
  BY <1>1, EngineFacts DEF Alike
<1>4. Reclaimed(f, a, f.spills[a] \ S) = left /\ left \subseteq Cell \ A
      /\ Vacated(f, left) = Vacated(e, left)
  <2> DEFINE lost == e.spills[a] \ S
  <2>1. lost \in SUBSET Cell /\ f.spills[a] \ S = lost
    BY <1>3
  <2> HIDE DEF lost
  <2>2. Vacates(e, f, A, a, lost)
    BY <1>1, <2>1, AlikeVacated
  <2> QED BY <2>1, <2>2 DEF Vacates, lost
<1>5. Rewritten(f, a, new) = Rewritten(e, a, new)
  <2>1. DOMAIN new = S
    BY DEF Slots
  <2>2. ASSUME NEW x \in S \ {a} PROVE x \in Cell \ A
    <3>1. e.owner[x] = a \/ x \notin Formulas(e)
      BY <2>2 DEF Obstructed, Occupied
    <3>2. x \notin Formulas(e)
      BY <1>1, <1>2, <2>2, <3>1, RegionFacts
    <3> QED BY <1>2, <2>2, <3>2
  <2> HIDE DEF new, S
  <2>3. \A x \in S \ {a} : e.values[x] = f.values[x]
    BY <2>2 DEF Alike
  <2> QED BY <2>1, <2>3 DEF Rewritten
<1>6. Vacated(f, left) \cup Rewritten(f, a, new) = changed
  BY <1>4, <1>5
<1>7. SpillGives(e, a, S, new, g)
  BY <1>1, SpillExact
<1>8. SpillGives(f, a, S, new, h)
  BY <1>1, SpillExact
<1> HIDE DEF g, h, S, new
<1>9. /\ g.programs = h.programs /\ g.refused = h.refused /\ g.spills = h.spills
      /\ g.dynamic = h.dynamic /\ g.redirty = h.redirty /\ g.unstable = h.unstable
  BY <1>3, <1>4, <1>6, <1>7, <1>8 DEF Alike, SpillGives
<1>10. g.owner = h.owner
  BY <1>3, <1>4, <1>7, <1>8 DEF Alike, SpillGives
<1>11. ASSUME NEW x \in Cell \ (A \ {a}) PROVE g.values[x] = h.values[x]
  <2>1. g.values[x] = IF x \in S THEN new[x] ELSE IF x \in left THEN Blank ELSE e.values[x]
    BY <1>7 DEF SpillGives
  <2>2. h.values[x] = IF x \in S THEN new[x] ELSE IF x \in left THEN Blank ELSE f.values[x]
    BY <1>4, <1>8 DEF SpillGives
  <2>3. x \notin S => e.values[x] = f.values[x]
    BY <1>2 DEF Alike
  <2> QED BY <2>1, <2>2, <2>3
<1>12. \A x \in Cell \ D : g.diags[x] = h.diags[x]
  BY <1>7, <1>8 DEF Alike, SpillGives
<1>13. Alike(g, h, A \ {a}, D)
  BY <1>9, <1>10, <1>11, <1>12 DEF Alike
<1> QED BY <1>13 DEF g, h

LEMMA AlikeCommit ==
  ASSUME NEW e, NEW f, NEW t, Sound(e, t), Sound(f, t), NEW A \in SUBSET Formulas(e),
         NEW D, Alike(e, f, A, D), NEW a \in Formulas(e), a \notin D, NEW r,
         IsScalar(r) \/ r.kind = "lambdas" \/ IsArray(r)
  PROVE  Alike(Commit(e, a, r), Commit(f, a, r), A \ {a}, D)
<1>1. CASE IsScalar(r)
  <2> DEFINE v == IF r.value = Blank THEN 0 ELSE r.value
  <2>1. v \in Value
    BY <1>1, ValueFacts DEF IsScalar
  <2>2. Commit(e, a, r) = WriteAlone(e, a, v) /\ Commit(f, a, r) = WriteAlone(f, a, v)
    BY <1>1 DEF IsScalar, Commit
  <2> HIDE DEF v
  <2> QED BY <2>1, <2>2, AlikeAlone
<1>2. CASE r.kind = "lambdas"
  <2>1. /\ Commit(e, a, r) = RefuseWith(e, a, ValueError, "Lambdas")
        /\ Commit(f, a, r) = RefuseWith(f, a, ValueError, "Lambdas")
    BY <1>2 DEF Commit
  <2> QED BY <2>1, ValueFacts, AlikeRefused
<1>3. CASE IsArray(r)
  <2>0. e \in Engine /\ a \in Cell /\ r.kind = "array"
    BY <1>3, ProgramFacts DEF Sound, IsArray
  <2>1. CASE OffSheet(a, r)
    <3>1. /\ Commit(e, a, r) = RefuseWith(e, a, SpillError, "OffSheet")
          /\ Commit(f, a, r) = RefuseWith(f, a, SpillError, "OffSheet")
      BY <2>0, <2>1 DEF Commit
    <3> QED BY <3>1, ValueFacts, AlikeRefused
  <2>2. CASE ~ OffSheet(a, r) /\ Obstructed(e, a, r)
    <3>1. Obstructed(f, a, r)
      BY <1>3, <2>0, <2>2, AlikeObstructed
    <3>2. /\ Commit(e, a, r) = RefuseWith(e, a, SpillError, "Blocked")
          /\ Commit(f, a, r) = RefuseWith(f, a, SpillError, "Blocked")
      BY <2>0, <2>2, <3>1 DEF Commit
    <3> QED BY <3>2, ValueFacts, AlikeRefused
  <2>3. CASE ~ OffSheet(a, r) /\ ~ Obstructed(e, a, r)
    <3>1. ~ Obstructed(f, a, r)
      BY <1>3, <2>0, <2>3, AlikeObstructed
    <3>2. Commit(e, a, r) = SpillInto(e, a, r) /\ Commit(f, a, r) = SpillInto(f, a, r)
      BY <2>0, <2>3, <3>1 DEF Commit
    <3> QED BY <1>3, <2>3, <3>2, AlikeSpill
  <2> QED BY <2>1, <2>2, <2>3
<1> QED BY <1>1, <1>2, <1>3

\* A formula reads the same in both when it names nothing of A.
LEMMA AlikeReads ==
  ASSUME NEW e, NEW f, NEW t, Sound(e, t), Lost(e) = {}, NEW A \in SUBSET Formulas(e),
         NEW D, Alike(e, f, A, D), NEW c \in Formulas(e), Named(e, c) \cap A = {}
  PROVE  Result(f, c) = Result(e, c)
<1>1. e \in Engine /\ Mapped(e) /\ Named(e, c) \subseteq Cell /\ f.programs[c] = e.programs[c]
  BY ProgramFacts DEF Sound, Named, Alike
<1>2. ASSUME NEW x \in Named(e, c)
      PROVE  /\ f.values[x] = e.values[x] /\ f.spills[x] = e.spills[x]
             /\ \A y \in e.spills[x] : f.values[y] = e.values[y]
  <2>1. x \in Cell \ A /\ e.spills[x] \subseteq Cell
    BY <1>1, <1>2, EngineFacts
  <2>2. ASSUME NEW y \in e.spills[x] PROVE y \in Cell \ A
    <3>1. y \in Cell /\ e.owner[y] = x
      BY <2>1, <2>2 DEF Lost
    <3>2. y \in Formulas(e) => y = x
      BY <1>1, <2>1, <3>1, RegionFacts
    <3> QED BY <2>1, <3>1, <3>2
  <2> QED BY <2>1, <2>2 DEF Alike
<1>3. \A x \in e.programs[c].src :
        /\ f.values[x] = e.values[x] /\ f.spills[x] = e.spills[x]
        /\ \A y \in e.spills[x] : f.values[y] = e.values[y]
  BY <1>2 DEF Named
<1> QED BY <1>1, <1>3, SameReads

LEMMA AlikeCell ==
  ASSUME NEW e, NEW f, NEW t, Sound(e, t), Sound(f, t), Lost(e) = {}, e.refused = {},
         NEW A \in SUBSET Formulas(e), NEW D, Alike(e, f, A, D),
         NEW c \in Formulas(e), Named(e, c) \cap A = {}
  PROVE  Alike(RunCell(e, c), RunCell(f, c), A \ {c}, D \ {c})
<1> DEFINE d == IF e.programs[c].op = "unparsed" THEN {"Unparsed"} ELSE {}
           g == [e EXCEPT !.diags[c] = d]
           h == [f EXCEPT !.diags[c] = d]
           r == Result(e, c)
<1>1. /\ e \in Engine /\ f \in Engine /\ c \in Cell /\ Mapped(e) /\ Mapped(f)
      /\ f.refused = {} /\ f.programs = e.programs /\ Formulas(f) = Formulas(e)
  BY ProgramFacts DEF Sound, Alike, Formulas
<1>2. Result(f, c) = r
  BY AlikeReads
<1>3. RunCell(e, c) = Commit(g, c, r) /\ RunCell(f, c) = Commit(h, c, r)
  BY <1>1, <1>2 DEF RunCell, Skipped, ApplyResult
<1>4. IsScalar(r) \/ r.kind = "lambdas" \/ IsArray(r)
  BY <1>1, ResultFacts
<1>5. /\ g \in Engine /\ g.programs = e.programs /\ g.values = e.values /\ g.spills = e.spills
      /\ g.owner = e.owner /\ g.dynamic = e.dynamic /\ g.refused = e.refused
  BY <1>1 DEF Engine
<1>6. /\ h \in Engine /\ h.programs = f.programs /\ h.values = f.values /\ h.spills = f.spills
      /\ h.owner = f.owner /\ h.dynamic = f.dynamic /\ h.refused = f.refused
  BY <1>1 DEF Engine
<1>7. Alike(g, h, A, D \ {c})
  <2> HIDE DEF d
  <2> QED BY <1>1, AlikeTagged
<1> HIDE DEF g, h, r, d
<1>8. Sound(g, t) /\ Sound(h, t)
  <2>1. AnchorsOf(e) \cap g.refused = {} /\ AnchorsOf(f) \cap h.refused = {}
    BY <1>1, <1>5, <1>6 DEF Mapped
  <2>2. Sound(g, t)
    BY <1>5, <2>1, TaggedSound
  <2>3. Sound(h, t)
    BY <1>6, <2>1, TaggedSound
  <2> QED BY <2>2, <2>3
<1>9. A \in SUBSET Formulas(g) /\ c \in Formulas(g) /\ c \notin D \ {c}
  BY <1>5 DEF Formulas
<1>10. Alike(Commit(g, c, r), Commit(h, c, r), A \ {c}, D \ {c})
  BY <1>4, <1>7, <1>8, <1>9, AlikeCommit
<1> QED BY <1>3, <1>10

LEMMA AlikeMember ==
  ASSUME NEW e, NEW f, NEW t, Sound(e, t), Sound(f, t), NEW A \in SUBSET Formulas(e),
         NEW D, Alike(e, f, A, D), NEW c \in Formulas(e)
  PROVE  Alike(RunCycleMember(e, c), RunCycleMember(f, c), A \ {c}, D \ {c})
<1> DEFINE g == WriteAlone(e, c, UnsupportedError)
           h == WriteAlone(f, c, UnsupportedError)
<1>1. Alike(g, h, A \ {c}, D)
  BY ValueFacts, AlikeAlone
<1>2. e \in Engine /\ f \in Engine /\ c \in Cell
  BY ProgramFacts DEF Sound
<1>3. g \in Engine /\ h \in Engine
  BY <1>2, ValueFacts, AloneFields DEF AloneLeaves
<1>4. /\ RunCycleMember(e, c) = [g EXCEPT !.diags[c] = {"Circular"}]
      /\ RunCycleMember(f, c) = [h EXCEPT !.diags[c] = {"Circular"}]
  BY DEF RunCycleMember
<1> DEFINE d == {"Circular"}
<1> HIDE DEF g, h, d
<1>5. Alike([g EXCEPT !.diags[c] = d], [h EXCEPT !.diags[c] = d], A \ {c}, D \ {c})
  BY <1>1, <1>2, <1>3, AlikeTagged
<1> QED BY <1>4, <1>5 DEF d

\* The engine after a circular group.
Grouped(e, C) == FoldSet(LAMBDA c, acc : RunCycleMember(acc, c), e, C)

LEMMA AlikeGroup ==
  ASSUME NEW e, NEW f, NEW t, Sound(e, t), Sound(f, t), NEW A \in SUBSET Formulas(e),
         NEW D, Alike(e, f, A, D), NEW C \in SUBSET Formulas(e)
  PROVE  Alike(Grouped(e, C), Grouped(f, C), A \ C, D \ C)
<1>0. Formulas(f) = Formulas(e) /\ C \in SUBSET Formulas(f)
  BY DEF Alike, Formulas
<1>1. PICK g : /\ Members(g, e, C)
               /\ Grouped(e, C) = g[C]
               /\ \A s \in SUBSET C : Settled(e, t, g[s], s) /\ GroupRefused(e, g[s], s)
  BY CircularGroupSteps DEF Grouped
<1>2. PICK h : /\ Members(h, f, C)
               /\ Grouped(f, C) = h[C]
               /\ \A s \in SUBSET C : Settled(f, t, h[s], s) /\ GroupRefused(f, h[s], s)
  BY <1>0, CircularGroupSteps DEF Grouped
<1> DEFINE T == {s \in SUBSET C : Alike(g[s], h[s], A \ s, D \ s)}
<1>3. {} \in T
  BY <1>1, <1>2 DEF Members
<1>4. ASSUME NEW s \in SUBSET C, s # {}, s \ {Pick(s)} \in T PROVE s \in T
  <2> DEFINE x == Pick(s)
             u == s \ {x}
  <2>1. x \in s /\ x \in C /\ u \in SUBSET C /\ Alike(g[u], h[u], A \ u, D \ u)
    BY <1>4 DEF Pick
  <2>2. g[s] = RunCycleMember(g[u], x) /\ h[s] = RunCycleMember(h[u], x)
    BY <1>1, <1>2, <1>4 DEF Members
  <2>3. (A \ u) \ {x} = A \ s /\ (D \ u) \ {x} = D \ s
    BY <2>1
  <2> HIDE DEF x, u
  <2>4. Sound(g[u], t) /\ Sound(h[u], t) /\ g[u].programs = e.programs
    BY <1>1, <1>2, <2>1 DEF Settled
  <2>5. Formulas(g[u]) = Formulas(e)
    BY <2>4 DEF Formulas
  <2>6. A \ u \in SUBSET Formulas(g[u]) /\ x \in Formulas(g[u])
    BY <2>1, <2>5
  <2>7. Alike(RunCycleMember(g[u], x), RunCycleMember(h[u], x), (A \ u) \ {x}, (D \ u) \ {x})
    BY <2>1, <2>4, <2>6, AlikeMember
  <2> QED BY <2>2, <2>3, <2>7
<1>5. IsFiniteSet(C)
  <2>1. C \in SUBSET Cell
    BY DEF Formulas
  <2> QED BY <2>1, CellFacts, FS_Subset
<1>6. \A s \in SUBSET C : s # {} /\ s \ {Pick(s)} \in T => s \in T
  BY <1>4
<1> HIDE DEF T
<1>7. \A s \in SUBSET C : s \in T
  BY <1>3, <1>5, <1>6, SetInduction
<1>8. C \in T
  BY <1>7
<1> QED BY <1>1, <1>2, <1>8 DEF T

\* A step of several formulas, or of one that names itself, is circular.
LEMMA LoneStep ==
  ASSUME NEW e \in Engine, NEW C \in (SUBSET Formulas(e)) \ {{}}, ~ IsCircular(e, C)
  PROVE  \E c \in Formulas(e) : C = {c} /\ c \notin Named(e, c)
<1>1. IsFiniteSet(C) /\ Cardinality(C) \in Nat
  <2>1. C \in SUBSET Cell
    BY DEF Formulas
  <2> QED BY <2>1, CellFacts, FS_Subset, FS_CardinalityType
<1>2. ~ (Cardinality(C) > 1) /\ Cardinality(C) # 0
  BY <1>1, FS_EmptySet DEF IsCircular
<1>3. Cardinality(C) = 1
  BY <1>1, <1>2
<1>4. PICK c : C = {c}
  BY <1>1, <1>3, FS_Singleton
<1> QED BY <1>4 DEF IsCircular, Named

LEMMA RunLone ==
  ASSUME NEW e, NEW c, ~ IsCircular(e, {c})
  PROVE  RunStep(e, {c}) = RunCell(e, c)
<1>1. (CHOOSE x \in {c} : TRUE) = c
  OBVIOUS
<1> QED BY <1>1 DEF RunStep

\* A step that reads only itself of what is still to run.
LEMMA AlikeStep ==
  ASSUME NEW e, NEW f, NEW t, Sound(e, t), Sound(f, t), Lost(e) = {}, e.refused = {},
         NEW A \in SUBSET Formulas(e), Alike(e, f, A, A),
         NEW C \in (SUBSET Formulas(e)) \ {{}}, \A c \in C : Named(e, c) \cap A \subseteq C
  PROVE  Alike(RunStep(e, C), RunStep(f, C), A \ C, A \ C)
<1>1. IsCircular(f, C) <=> IsCircular(e, C)
  BY DEF Alike, IsCircular
<1>2. CASE IsCircular(e, C)
  <2>1. RunStep(e, C) = Grouped(e, C) /\ RunStep(f, C) = Grouped(f, C)
    BY <1>1, <1>2 DEF RunStep, Grouped
  <2>2. C \in SUBSET Formulas(e)
    OBVIOUS
  <2> QED BY <2>1, <2>2, AlikeGroup
<1>3. CASE ~ IsCircular(e, C)
  <2>1. PICK c \in Formulas(e) : C = {c} /\ c \notin Named(e, c)
    BY <1>3, LoneStep DEF Sound
  <2>2. RunStep(e, C) = RunCell(e, c) /\ RunStep(f, C) = RunCell(f, c)
    BY <1>1, <1>3, <2>1, RunLone
  <2>3. Named(e, c) \cap A = {}
    BY <2>1
  <2>4. Alike(RunCell(e, c), RunCell(f, c), A \ {c}, A \ {c})
    BY <2>1, <2>3, AlikeCell
  <2> QED BY <2>1, <2>2, <2>4
<1> QED BY <1>2, <1>3

LEMMA AlikeSound ==
  ASSUME NEW e, NEW t, Sound(e, t), NEW f \in Engine,
         NEW A \in SUBSET Formulas(e), NEW D, Alike(e, f, A, D)
  PROVE  Sound(f, t) /\ Lost(f) = Lost(e)
<1>1. Formulas(f) = Formulas(e) /\ AnchorsOf(f) = AnchorsOf(e) /\ Lost(f) = Lost(e)
  BY DEF Alike, Formulas, AnchorsOf, Lost
<1>2. Mapped(f)
  BY <1>1 DEF Sound, Mapped, Alike
<1>3. \A x \in Cell \ Formulas(e) : f.values[x] = e.values[x] /\ f.owner[x] = e.owner[x]
  BY DEF Alike
<1>4. Accounted(f, t) /\ LiteralsKept(f, t)
  BY <1>1, <1>3 DEF Sound, Accounted, LiteralsKept
<1> QED BY <1>1, <1>2, <1>4 DEF Sound

LEMMA SteadyStep ==
  ASSUME NEW e, NEW t, Steady(e, t), NEW C \in (SUBSET Formulas(e)) \ {{}}, NEW f,
         f = RunStep(e, C)
  PROVE  /\ Steady(f, t) /\ f.programs = e.programs /\ Formulas(f) = Formulas(e)
         /\ Wrote(e, f, C) /\ Announced(e, f) /\ f.unstable \subseteq e.unstable \cup C
<1>1. Sound(e, t) /\ Lost(e) = {} /\ e.refused = {}
  BY DEF Steady
<1>2. RefusalsStand(e) /\ \A c \in C : Named(e, c) \cap Lost(e) \subseteq C
  BY <1>1 DEF RefusalsStand
<1>3. Settled(e, t, f, C)
  BY <1>1, RunStepSound
<1>4. Wrote(e, f, C) /\ Announced(e, f)
  BY <1>1, <1>2, RunStepRight
<1> QED BY <1>1, <1>3, <1>4 DEF Steady, Settled, Announced, Formulas

\* A whole plan leaves the same engine from both.
LEMMA AlikeFold ==
  ASSUME NEW e, NEW f, NEW t, Steady(e, t), Sound(f, t), Alike(e, f, Formulas(e), Formulas(e)),
         NEW s \in Seq((SUBSET Formulas(e)) \ {{}}), Chained(e, s),
         Formulas(e) \subseteq UNION ToSet(s)
  PROVE  FoldLeft(RunStep, e, s) = FoldLeft(RunStep, f, s)
<1>1. PICK n \in Nat : Len(s) = n /\ DOMAIN s = 1 .. n /\ \A i \in 1 .. n : s[i] \in (SUBSET Formulas(e)) \ {{}}
  BY SeqFacts
<1>2. PICK h : Chain(h, e, s) /\ FoldLeft(RunStep, e, s) = h[Len(s)]
  BY FoldChain
<1>3. PICK g : Chain(g, f, s) /\ FoldLeft(RunStep, f, s) = g[Len(s)]
  BY FoldChain
<1> DEFINE Rest(i) == UNION {s[j] : j \in i + 1 .. n}
           Same(i) == /\ Steady(h[i], t) /\ Sound(g[i], t) /\ h[i].programs = e.programs
                      /\ Alike(h[i], g[i], Rest(i), Rest(i))
           Bad == {i \in 0 .. n : ~ Same(i)}
<1>4. Same(0)
  <2>1. Rest(0) = Formulas(e)
    <3>1. 0 + 1 .. n = DOMAIN s
      BY <1>1
    <3>2. Rest(0) = UNION ToSet(s)
      BY <3>1 DEF ToSet
    <3>3. Rest(0) \subseteq Formulas(e)
      BY <1>1
    <3> QED BY <3>2, <3>3
  <2>2. h[0] = e /\ g[0] = f
    BY <1>2, <1>3 DEF Chain
  <2> HIDE DEF Rest
  <2> QED BY <2>1, <2>2
<1>5. ASSUME NEW i \in 0 .. n - 1, Same(i) PROVE Same(i + 1)
  <2> DEFINE C == s[i + 1]
  <2>1. i + 1 \in 1 .. n /\ (i + 1) - 1 = i
    BY <1>1
  <2>2. h[i + 1] = RunStep(h[i], C) /\ g[i + 1] = RunStep(g[i], C)
    BY <1>1, <1>2, <1>3, <2>1 DEF Chain
  <2>3. C \in (SUBSET Formulas(e)) \ {{}}
    BY <1>1, <2>1
  <2>4. Rest(i) \subseteq Formulas(e)
    BY <1>1, <1>5
  <2>5. ASSUME NEW a \in C PROVE Named(e, a) \cap Rest(i) \subseteq C
    <3> SUFFICES ASSUME NEW x \in Named(e, a) \cap Rest(i) PROVE x \in C
      OBVIOUS
    <3>1. PICK j \in i + 1 .. n : x \in s[j]
      OBVIOUS
    <3>2. j \in DOMAIN s /\ i + 1 \in DOMAIN s /\ i + 1 <= j
      BY <1>1, <1>5, <2>1, <3>1
    <3>3. a \in Formulas(e) /\ Named(e, a) \cap s[j] # {}
      BY <2>3, <2>5, <3>1
    <3>4. PICK k \in DOMAIN s : j <= k /\ a \in s[k]
      BY <3>2, <3>3 DEF Chained
    <3>5. k = i + 1
      BY <2>5, <3>2, <3>4 DEF Chained
    <3>6. j = i + 1
      BY <1>1, <3>2, <3>4, <3>5
    <3> QED BY <3>1, <3>6
  <2>6. Rest(i) \ C = Rest(i + 1)
    <3>1. ASSUME NEW x \in Rest(i + 1) PROVE x \in Rest(i) \ C
      <4>1. PICK j \in (i + 1) + 1 .. n : x \in s[j]
        BY <3>1
      <4>2. j \in i + 1 .. n /\ j # i + 1 /\ j \in DOMAIN s /\ i + 1 \in DOMAIN s
        BY <1>1, <1>5, <2>1, <4>1
      <4>3. x \notin C
        BY <4>1, <4>2 DEF Chained
      <4> QED BY <4>1, <4>2, <4>3
    <3>2. ASSUME NEW x \in Rest(i) \ C PROVE x \in Rest(i + 1)
      <4>1. PICK j \in i + 1 .. n : x \in s[j]
        BY <3>2
      <4>2. j # i + 1
        BY <3>2, <4>1
      <4>3. j \in (i + 1) + 1 .. n
        BY <1>1, <1>5, <4>1, <4>2
      <4> QED BY <4>1, <4>3
    <3> QED BY <3>1, <3>2
  <2> DEFINE R == Rest(i)
  <2>7. /\ Steady(h[i], t) /\ Sound(g[i], t) /\ h[i].programs = e.programs /\ Alike(h[i], g[i], R, R)
        /\ R \subseteq Formulas(e) /\ \A a \in C : Named(e, a) \cap R \subseteq C
    BY <1>5, <2>4, <2>5
  <2>8. Same(i + 1) = (/\ Steady(h[i + 1], t) /\ Sound(g[i + 1], t) /\ h[i + 1].programs = e.programs
                       /\ Alike(h[i + 1], g[i + 1], R \ C, R \ C))
    BY <2>6
  <2> HIDE DEF C, Rest, R, Same
  <2>9. Formulas(h[i]) = Formulas(e) /\ Formulas(g[i]) = Formulas(e)
        /\ \A a \in C : Named(h[i], a) = Named(e, a)
    BY <2>7 DEF Formulas, Alike, Named
  <2>10. C \in (SUBSET Formulas(h[i])) \ {{}} /\ C \in (SUBSET Formulas(g[i])) \ {{}}
    BY <2>3, <2>9
  <2>11. Steady(h[i + 1], t) /\ h[i + 1].programs = h[i].programs
    BY <2>2, <2>7, <2>10, SteadyStep
  <2>12. Sound(g[i + 1], t)
    BY <2>2, <2>7, <2>10, RunStepSound DEF Settled
  <2>13. Alike(h[i + 1], g[i + 1], R \ C, R \ C)
    <3>1. Sound(h[i], t) /\ Lost(h[i]) = {} /\ h[i].refused = {} /\ R \in SUBSET Formulas(h[i])
          /\ \A a \in C : Named(h[i], a) \cap R \subseteq C
      BY <2>7, <2>9 DEF Steady
    <3> QED BY <2>2, <2>7, <2>10, <3>1, AlikeStep
  <2> QED BY <2>7, <2>8, <2>11, <2>12, <2>13
<1> HIDE DEF Same
<1>6. Same(n)
  <2>1. n \in Bad \/ Same(n)
    BY <1>1
  <2> SUFFICES ASSUME Bad # {} PROVE FALSE
    BY <2>1
  <2>2. PICK m \in Bad : \A k \in Bad : m <= k
    <3>1. Bad \subseteq Nat
      OBVIOUS
    <3> HIDE DEF Bad
    <3> QED BY <3>1, LeastNatural
  <2>3. m \in 0 .. n /\ ~ Same(m) /\ m # 0
    BY <1>4, <2>2
  <2>4. m - 1 \in 0 .. n - 1 /\ ~ (m <= m - 1) /\ (m - 1) + 1 = m /\ m - 1 \in 0 .. n
    BY <1>1, <2>3
  <2>5. Same(m - 1)
    BY <2>2, <2>4
  <2> QED BY <1>5, <2>3, <2>4, <2>5
<1>7. Rest(n) = {}
  BY <1>1
<1>8. h[n] \in Engine /\ g[n] \in Engine /\ Alike(h[n], g[n], {}, {})
  <2> HIDE DEF Rest
  <2> QED BY <1>6, <1>7 DEF Same, Steady, Sound
<1> QED BY <1>1, <1>2, <1>3, <1>8, AlikeSame

-----------------------------------------------------------------------------
(* The waves of a plan. *)

\* The other steps that step i reads.
ReadBy(e, steps, i) ==
  {j \in DOMAIN steps \ {i} : \E r \in Reads(e) : r[1] \in steps[i] /\ r[2] \in steps[j]}

LEMMA ReadByFacts ==
  ASSUME NEW e \in Engine, NEW i \in DOMAIN FullPlan(e)
  PROVE  /\ \A j \in ReadBy(e, FullPlan(e), i) : j \in DOMAIN FullPlan(e) /\ j < i
         /\ \A j \in DOMAIN FullPlan(e) \ {i}, a \in FullPlan(e)[i] :
              Named(e, a) \cap FullPlan(e)[j] # {} => j \in ReadBy(e, FullPlan(e), i)
<1> DEFINE s == FullPlan(e)
<1>1. /\ s \in Seq((SUBSET Formulas(e)) \ {{}}) /\ Chained(e, s)
  BY PlanFacts, PlanChained
<1>2. PICK n \in Nat : DOMAIN s = 1 .. n /\ \A k \in 1 .. n : s[k] \in (SUBSET Formulas(e)) \ {{}}
  <2> HIDE DEF s
  <2> QED BY <1>1, SeqFacts
<1> HIDE DEF s
<1>3. ASSUME NEW j \in ReadBy(e, s, i) PROVE j \in DOMAIN s /\ j < i
  <2>1. PICK r \in Reads(e) : r[1] \in s[i] /\ r[2] \in s[j]
    BY <1>3 DEF ReadBy
  <2>2. r[1] \in Formulas(e) /\ r[2] \in Named(e, r[1])
    BY DEF Reads, Named
  <2>3. j \in DOMAIN s /\ j # i /\ i \in DOMAIN s
    BY <1>3 DEF ReadBy, s
  <2>4. PICK k \in DOMAIN s : j <= k /\ r[1] \in s[k]
    BY <1>1, <2>1, <2>2, <2>3 DEF Chained
  <2>5. k = i
    BY <1>1, <2>1, <2>3, <2>4 DEF Chained
  <2> QED BY <1>2, <2>3, <2>4, <2>5
<1>4. ASSUME NEW j \in DOMAIN s \ {i}, NEW a \in s[i], Named(e, a) \cap s[j] # {}
      PROVE  j \in ReadBy(e, s, i)
  <2>1. a \in Formulas(e)
    BY <1>2, <1>4 DEF s
  <2>2. PICK x : x \in Named(e, a) /\ x \in s[j]
    BY <1>4
  <2>3. <<a, x>> \in Reads(e)
    BY <2>1, <2>2 DEF Reads, Named
  <2> QED BY <1>4, <2>2, <2>3 DEF ReadBy
<1> QED BY <1>3, <1>4 DEF s

\* A step comes one wave after the last of those it reads.
LEMMA WaveOfFacts ==
  ASSUME NEW e \in Engine
  PROVE  \E w : /\ w = WaveOf(e, FullPlan(e)) /\ DOMAIN w = DOMAIN FullPlan(e)
                /\ \A i \in DOMAIN FullPlan(e) :
                     /\ w[i] \in 1 .. i
                     /\ \A j \in ReadBy(e, FullPlan(e), i) : w[j] < w[i]
                     /\ w[i] # 1 => \E j \in DOMAIN FullPlan(e) : w[i] = w[j] + 1
<1> DEFINE s == FullPlan(e)
           Body(g, i) == Max({1} \cup {g[j] + 1 : j \in ReadBy(e, s, i)})
           Keeps(g, m) == g = [i \in 1 .. m |-> Body(g, i)]
<1>1. PICK n \in Nat : DOMAIN s = 1 .. n
  <2>1. s \in Seq((SUBSET Formulas(e)) \ {{}})
    BY PlanFacts
  <2> HIDE DEF s
  <2> QED BY <2>1, SeqFacts
<1>2. \A i \in 1 .. n : \A j \in ReadBy(e, s, i) : j \in 1 .. n /\ j < i
  BY <1>1, ReadByFacts
<1> HIDE DEF s
\* The recursion defines a function.
<1>3. \A m \in 0 .. n : \E g : Keeps(g, m)
  <2> DEFINE Bad == {m \in 0 .. n : ~ \E g : Keeps(g, m)}
  <2> SUFFICES ASSUME Bad # {} PROVE FALSE
    OBVIOUS
  <2>1. PICK m \in Bad : \A k \in Bad : m <= k
    <3>1. Bad \subseteq Nat
      OBVIOUS
    <3> HIDE DEF Bad
    <3> QED BY <3>1, LeastNatural
  <2>2. m \in 0 .. n /\ ~ \E g : Keeps(g, m)
    BY <2>1
  <2>3. CASE m = 0
    <3> DEFINE g == [i \in 1 .. 0 |-> 1]
    <3>1. \A i : ~ (i \in 1 .. 0)
      OBVIOUS
    <3>2. Keeps(g, 0)
      <4> HIDE DEF Body
      <4> QED BY <3>1
    <3> HIDE DEF Keeps, g
    <3> QED BY <2>2, <2>3, <3>2
  <2>4. CASE m # 0
    <3>1. m - 1 \in 0 .. n /\ ~ (m <= m - 1) /\ m \in 1 .. n
      BY <2>2, <2>4
    <3>2. PICK g : Keeps(g, m - 1)
      <4>1. m - 1 \notin Bad
        <5> HIDE DEF Bad
        <5> QED BY <2>1, <3>1
      <4> HIDE DEF Keeps
      <4> QED BY <3>1, <4>1
    <3> DEFINE f == [i \in 1 .. m |-> IF i = m THEN Body(g, m) ELSE g[i]]
    <3>3. \A i \in 1 .. m - 1 : f[i] = g[i] /\ i \in 1 .. m /\ i # m
      BY <3>1
    <3>4. \A i \in 1 .. m : \A j \in ReadBy(e, s, i) : j \in 1 .. m - 1
      BY <1>2, <3>1
    <3>5. \A i \in 1 .. m : Body(f, i) = Body(g, i)
      <4> SUFFICES ASSUME NEW i \in 1 .. m PROVE Body(f, i) = Body(g, i)
        OBVIOUS
      <4>1. {f[j] + 1 : j \in ReadBy(e, s, i)} = {g[j] + 1 : j \in ReadBy(e, s, i)}
        <5> HIDE DEF f
        <5> QED BY <3>3, <3>4
      <4> HIDE DEF f
      <4> QED BY <4>1
    <3>6. ASSUME NEW i \in 1 .. m PROVE f[i] = Body(f, i)
      <4>1. CASE i = m
        <5>1. f[m] = Body(g, m)
          BY <3>1
        <5> HIDE DEF f, Body
        <5> QED BY <3>5, <4>1, <5>1
      <4>2. CASE i # m
        <5>1. i \in 1 .. m - 1
          BY <3>1, <4>2
        <5>2. g[i] = Body(g, i)
          <6> HIDE DEF Body
          <6> QED BY <3>2, <5>1
        <5>3. f[i] = g[i]
          BY <3>3, <5>1
        <5> HIDE DEF f, Body
        <5> QED BY <3>5, <5>2, <5>3
      <4> QED BY <4>1, <4>2
    <3>7. Keeps(f, m)
      <4>1. f = [i \in 1 .. m |-> f[i]]
        OBVIOUS
      <4> HIDE DEF f, Body
      <4> QED BY <3>6, <4>1
    <3> HIDE DEF Keeps, f
    <3> QED BY <2>2, <3>7
  <2> QED BY <2>3, <2>4
<1> DEFINE w == CHOOSE g : Keeps(g, n)
<1>4. Keeps(w, n)
  <2>1. n \in 0 .. n
    BY <1>1
  <2> HIDE DEF Keeps
  <2> QED BY <1>3, <2>1
<1>5. WaveOf(e, s) = w
  BY <1>1 DEF WaveOf, ReadBy
<1> HIDE DEF w
<1>6. DOMAIN w = 1 .. n /\ \A i \in 1 .. n : w[i] = Body(w, i)
  <2> HIDE DEF Body
  <2> QED BY <1>4
<1>7. ASSUME NEW i \in 1 .. n, \A j \in 1 .. i - 1 : w[j] \in 1 .. j
      PROVE  /\ w[i] \in 1 .. i
             /\ \A j \in ReadBy(e, s, i) : w[j] < w[i]
             /\ w[i] # 1 => \E j \in ReadBy(e, s, i) : w[i] = w[j] + 1
  <2> DEFINE L == {1} \cup {w[j] + 1 : j \in ReadBy(e, s, i)}
  <2>1. \A j \in ReadBy(e, s, i) : w[j] \in Nat /\ w[j] >= 1 /\ w[j] + 1 <= i
    <3> SUFFICES ASSUME NEW j \in ReadBy(e, s, i) PROVE w[j] \in Nat /\ w[j] >= 1 /\ w[j] + 1 <= i
      OBVIOUS
    <3>1. j \in 1 .. i - 1
      BY <1>2, <1>7
    <3>2. w[j] \in 1 .. j
      BY <1>7, <3>1
    <3> QED BY <3>1, <3>2
  <2>2. i \in Nat /\ L \subseteq Nat /\ L # {} /\ \A x \in L : x <= i
    BY <2>1, <1>7
  <2>3. Max(L) \in L /\ \A x \in L : x <= Max(L)
    <3> HIDE DEF L
    <3> QED BY <2>2, MaxFacts
  <2>4. w[i] = Max(L)
    BY <1>6
  <2>5. w[i] \in Nat /\ w[i] >= 1 /\ w[i] <= i
    <3>1. 1 \in L
      OBVIOUS
    <3> HIDE DEF L
    <3> QED BY <2>2, <2>3, <2>4, <3>1
  <2>6. \A j \in ReadBy(e, s, i) : w[j] + 1 <= w[i]
    BY <2>3, <2>4
  <2>7. w[i] # 1 => \E j \in ReadBy(e, s, i) : w[i] = w[j] + 1
    BY <2>3, <2>4
  <2> HIDE DEF L
  <2> QED BY <2>1, <2>5, <2>6, <2>7
<1>8. \A i \in 1 .. n : w[i] \in 1 .. i
  <2> DEFINE Bad == {i \in 1 .. n : ~ (w[i] \in 1 .. i)}
  <2> SUFFICES ASSUME Bad # {} PROVE FALSE
    OBVIOUS
  <2>1. PICK m \in Bad : \A k \in Bad : m <= k
    <3>1. Bad \subseteq Nat
      OBVIOUS
    <3> HIDE DEF Bad
    <3> QED BY <3>1, LeastNatural
  <2>2. m \in 1 .. n /\ ~ (w[m] \in 1 .. m)
    BY <2>1
  <2>3. \A j \in 1 .. m - 1 : w[j] \in 1 .. j
    <3> SUFFICES ASSUME NEW j \in 1 .. m - 1, ~ (w[j] \in 1 .. j) PROVE FALSE
      OBVIOUS
    <3>1. j \in Bad /\ ~ (m <= j)
      BY <2>2
    <3> HIDE DEF Bad
    <3> QED BY <2>1, <3>1
  <2> HIDE DEF Bad
  <2> QED BY <1>7, <2>2, <2>3
<1>9. ASSUME NEW i \in 1 .. n
      PROVE  /\ w[i] \in 1 .. i
             /\ \A j \in ReadBy(e, s, i) : w[j] < w[i]
             /\ w[i] # 1 => \E j \in DOMAIN s : w[i] = w[j] + 1
  <2>1. \A j \in 1 .. i - 1 : w[j] \in 1 .. j
    BY <1>8
  <2>2. /\ w[i] \in 1 .. i
        /\ \A j \in ReadBy(e, s, i) : w[j] < w[i]
        /\ w[i] # 1 => \E j \in ReadBy(e, s, i) : w[i] = w[j] + 1
    <3> HIDE DEF Body
    <3> QED BY <1>7, <2>1
  <2>3. \A j \in ReadBy(e, s, i) : j \in DOMAIN s
    BY <1>1, <1>2
  <2> QED BY <2>2, <2>3
<1>10. /\ DOMAIN w = DOMAIN s
       /\ \A i \in DOMAIN s :
            /\ w[i] \in 1 .. i
            /\ \A j \in ReadBy(e, s, i) : w[j] < w[i]
            /\ w[i] # 1 => \E j \in DOMAIN s : w[i] = w[j] + 1
  <2> HIDE DEF Body, Keeps
  <2> QED BY <1>1, <1>6, <1>9
<1> QED BY <1>5, <1>10 DEF s

\* The first recalculation in waves runs every formula, no wave being empty.
LEMMA BucketsFacts ==
  ASSUME NEW e \in Engine
  PROVE  Waves(e, Buckets(e)) /\ Ahead(Buckets(e)) = Formulas(e)
<1> DEFINE s == FullPlan(e)
           E == (SUBSET Formulas(e)) \ {{}}
           B == Buckets(e)
<1>1. s \in Seq(E) /\ Chained(e, s) /\ Formulas(e) \subseteq UNION ToSet(s)
  BY PlanFacts, PlanChained
<1>2. PICK n \in Nat : DOMAIN s = 1 .. n /\ \A i \in 1 .. n : s[i] \in E
  <2> HIDE DEF s, E
  <2> QED BY <1>1, SeqFacts
<1>3. PICK w : /\ w = WaveOf(e, s) /\ DOMAIN w = DOMAIN s
               /\ \A i \in DOMAIN s :
                    /\ w[i] \in 1 .. i
                    /\ \A j \in ReadBy(e, s, i) : w[j] < w[i]
                    /\ w[i] # 1 => \E j \in DOMAIN s : w[i] = w[j] + 1
  BY WaveOfFacts
<1>4. \A i \in DOMAIN s : \A j \in DOMAIN s \ {i}, a \in s[i] :
        Named(e, a) \cap s[j] # {} => j \in ReadBy(e, s, i)
  BY ReadByFacts
<1> DEFINE Holding(k) == UNION {s[i] : i \in {j \in DOMAIN s : w[j] = k}}
           tops == {0} \cup Range(w)
           M == Max(tops)
<1>5. M \in tops /\ M \in Nat /\ \A i \in DOMAIN s : w[i] \in 1 .. M
  <2>1. \A i \in DOMAIN s : w[i] \in Nat /\ w[i] >= 1 /\ w[i] <= n
    BY <1>2, <1>3
  <2>2. tops \subseteq Nat /\ tops # {} /\ \A x \in tops : x <= n
    BY <1>2, <1>3, <2>1 DEF Range
  <2>3. M \in tops /\ \A x \in tops : x <= M
    <3> HIDE DEF tops
    <3> QED BY <1>2, <2>2, MaxFacts
  <2>4. \A i \in DOMAIN s : w[i] \in tops
    BY <1>3 DEF Range
  <2>5. M \in Nat
    BY <2>2, <2>3
  <2> HIDE DEF M, tops
  <2> QED BY <2>1, <2>3, <2>4, <2>5
<1>6. B = [k \in 1 .. M |-> Filtered(s, Holding(k))]
  BY <1>3 DEF Buckets
<1> HIDE DEF B, M, s, E
<1>7. DOMAIN B = 1 .. M /\ \A k \in 1 .. M : B[k] = Filtered(s, Holding(k))
  BY <1>6
<1>8. ASSUME NEW k \in 1 .. M, NEW p \in DOMAIN s, s[p] \cap Holding(k) # {}
      PROVE  w[p] = k
  <2>1. PICK j \in DOMAIN s : w[j] = k /\ s[p] \cap s[j] # {}
    BY <1>8
  <2>2. j = p
    BY <1>1, <2>1 DEF Chained
  <2> QED BY <2>1, <2>2
<1>9. ASSUME NEW p \in DOMAIN s PROVE s[p] \cap Holding(w[p]) # {}
  <2>1. s[p] # {} /\ s[p] \subseteq Holding(w[p])
    BY <1>2 DEF E
  <2> HIDE DEF Holding
  <2> QED BY <2>1
<1>10. ASSUME NEW k \in 1 .. M
       PROVE  /\ B[k] \in Seq(E)
              /\ \A i \in DOMAIN B[k] : \E p \in DOMAIN s : B[k][i] = s[p] /\ w[p] = k
              /\ \A i, j \in DOMAIN B[k] : B[k][i] \cap B[k][j] # {} => i = j
              /\ \A p \in DOMAIN s : w[p] = k => \E i \in DOMAIN B[k] : B[k][i] = s[p]
  <2> DEFINE D == Holding(k)
             b == B[k]
  <2>1. b = Filtered(s, D)
    BY <1>7
  <2>2. /\ \A p \in DOMAIN s : s[p] \cap D # {} => w[p] = k
        /\ \A p \in DOMAIN s : w[p] = k => s[p] \cap D # {}
    <3> HIDE DEF Holding
    <3> QED BY <1>8, <1>9
  <2> HIDE DEF D, b
  <2>3. b \in Seq(E) /\ Subplan(b, s, D)
    BY <1>1, <2>1, FilteredFacts
  <2>4. PICK h \in [DOMAIN b -> DOMAIN s] :
          /\ \A i, j \in DOMAIN b : i < j => h[i] < h[j]
          /\ \A i \in DOMAIN b : b[i] = s[h[i]] /\ s[h[i]] \cap D # {}
          /\ \A p \in DOMAIN s : s[p] \cap D # {} => \E i \in DOMAIN b : h[i] = p
    BY <2>3 DEF Subplan
  <2>5. ASSUME NEW i \in DOMAIN b PROVE \E p \in DOMAIN s : b[i] = s[p] /\ w[p] = k
    BY <2>2, <2>4
  <2>6. ASSUME NEW i \in DOMAIN b, NEW j \in DOMAIN b, b[i] \cap b[j] # {} PROVE i = j
    <3>1. h[i] \in DOMAIN s /\ h[j] \in DOMAIN s /\ s[h[i]] \cap s[h[j]] # {}
      BY <2>4, <2>6
    <3>2. h[i] = h[j]
      BY <1>1, <3>1 DEF Chained
    <3>3. i \in Nat /\ j \in Nat /\ h[i] \in Nat
      <4>1. PICK m \in Nat : DOMAIN b = 1 .. m
        BY <2>3, SeqFacts
      <4> QED BY <1>2, <2>6, <3>1, <4>1
    <3>4. ~ (i < j) /\ ~ (j < i)
      BY <2>4, <3>2, <3>3
    <3> QED BY <3>3, <3>4
  <2>7. ASSUME NEW p \in DOMAIN s, w[p] = k PROVE \E i \in DOMAIN b : b[i] = s[p]
    BY <2>2, <2>4, <2>7
  <2> QED BY <2>3, <2>5, <2>6, <2>7 DEF b
<1>11. ASSUME NEW k \in 1 .. M PROVE \E p \in DOMAIN s : w[p] = k
  <2> DEFINE T == {x \in Nat : x >= k /\ \E p \in DOMAIN s : w[p] = x}
  <2>1. M \in T
    <3>1. M # 0 /\ M >= k
      BY <1>5, <1>11
    <3>2. \E p \in DOMAIN s : w[p] = M
      BY <1>3, <1>5, <3>1 DEF Range
    <3> QED BY <1>5, <3>1, <3>2
  <2>2. T \subseteq Nat /\ T # {}
    BY <2>1
  <2>3. PICK m \in T : \A x \in T : m <= x
    <3> HIDE DEF T
    <3> QED BY <2>2, LeastNatural
  <2>4. m \in Nat /\ m >= k
    BY <2>3
  <2>5. PICK p \in DOMAIN s : w[p] = m
    BY <2>3
  <2>6. CASE m = k
    BY <2>5, <2>6
  <2>7. CASE m # k
    <3>1. m > k /\ k >= 1
      BY <1>5, <2>4, <2>7
    <3>2. PICK j \in DOMAIN s : w[p] = w[j] + 1
      BY <1>3, <2>5, <3>1
    <3>3. w[j] \in Nat /\ w[j] >= k /\ ~ (m <= w[j])
      BY <1>5, <2>4, <2>5, <3>1, <3>2
    <3>4. w[j] \in T
      BY <3>3
    <3> HIDE DEF T
    <3> QED BY <2>3, <3>3, <3>4
  <2> QED BY <2>6, <2>7
<1>12. B \in Seq(Seq(E))
  <2>1. \A k \in 1 .. M : B[k] \in Seq(E)
    BY <1>10
  <2>2. B = [k \in 1 .. M |-> B[k]]
    BY <1>6
  <2>3. B \in [1 .. M -> Seq(E)]
    BY <2>1, <2>2
  <2> QED BY <1>5, <2>3
<1>13. ASSUME NEW k \in DOMAIN B
       PROVE  B[k] # <<>> /\ \A i \in DOMAIN B[k] : B[k][i] \in ToSet(s)
  <2>1. k \in 1 .. M
    BY <1>7, <1>13
  <2>2. PICK p \in DOMAIN s : w[p] = k
    BY <1>11, <2>1
  <2>3. \E i \in DOMAIN B[k] : B[k][i] = s[p]
    BY <1>10, <2>1, <2>2
  <2>4. B[k] # <<>>
    BY <2>3
  <2>5. \A i \in DOMAIN B[k] : B[k][i] \in ToSet(s)
    BY <1>10, <2>1 DEF ToSet
  <2> QED BY <2>4, <2>5
<1>14. ASSUME NEW k \in DOMAIN B, NEW l \in DOMAIN B, NEW i \in DOMAIN B[k], NEW j \in DOMAIN B[l]
       PROVE  /\ B[k][i] \cap B[l][j] # {} => k = l /\ i = j
              /\ \A a \in B[k][i] : Named(e, a) \cap B[l][j] # {} => l < k \/ (l = k /\ i = j)
  <2>1. k \in 1 .. M /\ l \in 1 .. M
    BY <1>7, <1>14
  <2>2. PICK p \in DOMAIN s : B[k][i] = s[p] /\ w[p] = k
    BY <1>10, <1>14, <2>1
  <2>3. PICK q \in DOMAIN s : B[l][j] = s[q] /\ w[q] = l
    BY <1>10, <1>14, <2>1
  <2>4. ASSUME B[k][i] \cap B[l][j] # {} PROVE k = l /\ i = j
    <3>1. p = q
      BY <1>1, <2>2, <2>3, <2>4 DEF Chained
    <3>2. k = l
      BY <2>2, <2>3, <3>1
    <3> QED BY <1>10, <1>14, <2>1, <2>4, <3>2
  <2>5. ASSUME NEW a \in B[k][i], Named(e, a) \cap B[l][j] # {} PROVE l < k \/ (l = k /\ i = j)
    <3>1. CASE p = q
      <4>1. B[k][i] = B[l][j] /\ B[k][i] # {}
        BY <2>2, <2>3, <2>5, <3>1
      <4> QED BY <2>4, <4>1
    <3>2. CASE p # q
      <4>1. q \in ReadBy(e, s, p)
        BY <1>4, <2>2, <2>3, <2>5, <3>2
      <4>2. w[q] < w[p]
        BY <1>3, <4>1
      <4> QED BY <2>2, <2>3, <4>2
    <3> QED BY <3>1, <3>2
  <2> QED BY <2>4, <2>5
<1>15. Waves(e, B)
  BY <1>12, <1>13, <1>14 DEF Waves, E, s
<1>16. Ahead(B) = Formulas(e)
  <2>1. ASSUME NEW a \in Ahead(B) PROVE a \in Formulas(e)
    <3>1. PICK k \in DOMAIN B : \E i \in DOMAIN B[k] : a \in B[k][i]
      BY <2>1 DEF Ahead, CellsOf, Range
    <3>2. PICK p \in DOMAIN s : a \in s[p]
      BY <1>7, <1>10, <3>1
    <3> QED BY <1>2, <3>2 DEF E
  <2>2. ASSUME NEW a \in Formulas(e) PROVE a \in Ahead(B)
    <3>1. PICK p \in DOMAIN s : a \in s[p]
      BY <1>1, <2>2 DEF ToSet
    <3>2. w[p] \in DOMAIN B
      BY <1>5, <1>7
    <3>3. PICK i \in DOMAIN B[w[p]] : B[w[p]][i] = s[p]
      BY <1>7, <1>10, <3>2
    <3> QED BY <3>1, <3>2, <3>3 DEF Ahead, CellsOf, Range
  <2> QED BY <2>1, <2>2
<1> QED BY <1>15, <1>16 DEF B

\* A step of the first wave reads no step to come, but itself.
LEMMA FirstWaveFacts ==
  ASSUME NEW e, NEW B, Waves(e, B), B # <<>>
  PROVE  /\ Head(B) \in Seq((SUBSET Formulas(e)) \ {{}}) /\ Head(B) # <<>>
         /\ \A i \in DOMAIN Head(B) :
              /\ Head(B)[i] \in (SUBSET Formulas(e)) \ {{}}
              /\ Head(B)[i] \in ToSet(FullPlan(e)) /\ Head(B)[i] \subseteq Ahead(B)
              /\ \A c \in Head(B)[i] : Named(e, c) \cap Ahead(B) \subseteq Head(B)[i]
         /\ \A i, j \in DOMAIN Head(B) : Head(B)[i] \cap Head(B)[j] # {} => i = j
<1> DEFINE E == (SUBSET Formulas(e)) \ {{}}
           b == B[1]
<1>1. B \in Seq(Seq(E))
  BY DEF Waves
<1>2. PICK n \in Nat \ {0} : DOMAIN B = 1 .. n /\ Head(B) = B[1]
  <2> HIDE DEF E
  <2> QED BY <1>1, TailFacts
<1>3. 1 \in DOMAIN B /\ \A k \in DOMAIN B : k \in 1 .. n /\ ~ (k < 1)
  BY <1>2
<1>4. b \in Seq(E) /\ b # <<>>
  <2>1. \A k \in DOMAIN B : B[k] \in Seq(E)
    <3> HIDE DEF E
    <3>1. PICK m \in Nat : DOMAIN B = 1 .. m /\ \A k \in 1 .. m : B[k] \in Seq(E)
      BY <1>1, SeqFacts
    <3> QED BY <3>1
  <2> QED BY <1>3, <2>1 DEF Waves
<1>5. \A i \in DOMAIN b : b[i] \in E
  <2> HIDE DEF E, b
  <2>1. PICK m \in Nat : DOMAIN b = 1 .. m /\ \A i \in 1 .. m : b[i] \in E
    BY <1>4, SeqFacts
  <2> QED BY <2>1
<1>6. ASSUME NEW i \in DOMAIN b
      PROVE  b[i] \in ToSet(FullPlan(e)) /\ b[i] \subseteq Ahead(B)
  <2>1. b[i] \in ToSet(FullPlan(e))
    BY <1>3, <1>6 DEF Waves
  <2>2. b[i] \subseteq CellsOf(b)
    BY <1>6 DEF CellsOf, Range
  <2>3. CellsOf(b) \subseteq Ahead(B)
    BY <1>3 DEF Ahead
  <2> QED BY <2>1, <2>2, <2>3
<1>7. ASSUME NEW i \in DOMAIN b, NEW c \in b[i], NEW x \in Named(e, c) \cap Ahead(B)
      PROVE  x \in b[i]
  <2>1. PICK l \in DOMAIN B : \E j \in DOMAIN B[l] : x \in B[l][j]
    BY <1>7 DEF Ahead, CellsOf, Range
  <2>2. PICK j \in DOMAIN B[l] : x \in B[l][j]
    BY <2>1
  <2>3. Named(e, c) \cap B[l][j] # {}
    BY <1>7, <2>2
  <2>4. l < 1 \/ (l = 1 /\ i = j)
    BY <1>3, <1>7, <2>3 DEF Waves
  <2>5. l = 1 /\ i = j
    BY <1>3, <2>4
  <2> QED BY <2>2, <2>5
<1>8. \A i, j \in DOMAIN b : b[i] \cap b[j] # {} => i = j
  BY <1>3 DEF Waves
<1> QED BY <1>2, <1>4, <1>5, <1>6, <1>7, <1>8 DEF b, E

\* The waves to come once the first has run.
WaveDropped(e, B, T) ==
  /\ Waves(e, T)
  /\ Ahead(T) = Ahead(B) \ CellsOf(Head(B))
  /\ \A k \in DOMAIN T : \E l \in DOMAIN B : T[k] = B[l]

LEMMA DropWave ==
  ASSUME NEW e, NEW B, Waves(e, B), B # <<>>, NEW T, T = Tail(B)
  PROVE  WaveDropped(e, B, T)
<1> DEFINE E == (SUBSET Formulas(e)) \ {{}}
<1>1. B \in Seq(Seq(E))
  BY DEF Waves
<1>2. PICK n \in Nat \ {0} :
        /\ DOMAIN B = 1 .. n /\ DOMAIN T = 1 .. n - 1 /\ Head(B) = B[1]
        /\ \A i \in 1 .. n - 1 : T[i] = B[i + 1]
  <2> HIDE DEF E
  <2> QED BY <1>1, TailFacts
<1>3. T \in Seq(Seq(E))
  <2> HIDE DEF E
  <2> QED BY <1>1
<1> HIDE DEF E
<1>4. ASSUME NEW k \in DOMAIN T PROVE k + 1 \in DOMAIN B /\ T[k] = B[k + 1] /\ k \in Int
  BY <1>2, <1>4
<1>5. \A k, l \in DOMAIN T : k + 1 = l + 1 => k = l
  BY <1>2
<1>6. \A k, l \in DOMAIN T : l + 1 < k + 1 => l < k
  BY <1>2
<1>7. ASSUME NEW k \in DOMAIN T
      PROVE  T[k] # <<>> /\ \A i \in DOMAIN T[k] : T[k][i] \in ToSet(FullPlan(e))
  BY <1>4, <1>7 DEF Waves
<1>8. ASSUME NEW k \in DOMAIN T, NEW l \in DOMAIN T, NEW i \in DOMAIN T[k], NEW j \in DOMAIN T[l]
      PROVE  /\ T[k][i] \cap T[l][j] # {} => k = l /\ i = j
             /\ \A a \in T[k][i] : Named(e, a) \cap T[l][j] # {} => l < k \/ (l = k /\ i = j)
  <2>1. /\ k + 1 \in DOMAIN B /\ l + 1 \in DOMAIN B
        /\ i \in DOMAIN B[k + 1] /\ j \in DOMAIN B[l + 1]
        /\ T[k] = B[k + 1] /\ T[l] = B[l + 1]
    BY <1>4, <1>8
  <2>2. T[k][i] \cap T[l][j] # {} => k + 1 = l + 1 /\ i = j
    BY <2>1 DEF Waves
  <2>3. \A a \in T[k][i] : Named(e, a) \cap T[l][j] # {} => l + 1 < k + 1 \/ (l + 1 = k + 1 /\ i = j)
    BY <2>1 DEF Waves
  <2> QED BY <1>5, <1>6, <1>8, <2>2, <2>3
<1>9. Waves(e, T)
  BY <1>3, <1>7, <1>8 DEF Waves, E
<1>10. 1 \in DOMAIN B /\ \A k \in DOMAIN B : k # 1 => k - 1 \in DOMAIN T /\ T[k - 1] = B[k]
  BY <1>2
<1>11. ASSUME NEW x \in Ahead(T) PROVE x \in Ahead(B) \ CellsOf(Head(B))
  <2>1. PICK k \in DOMAIN T : \E i \in DOMAIN T[k] : x \in T[k][i]
    BY <1>11 DEF Ahead, CellsOf, Range
  <2>2. k + 1 \in DOMAIN B /\ k + 1 # 1 /\ \E i \in DOMAIN B[k + 1] : x \in B[k + 1][i]
    BY <1>2, <1>4, <2>1
  <2>3. PICK i \in DOMAIN B[k + 1] : x \in B[k + 1][i]
    BY <2>2
  <2>4. x \in Ahead(B)
    BY <2>2 DEF Ahead, CellsOf, Range
  <2>5. x \notin CellsOf(B[1])
    <3> SUFFICES ASSUME NEW j \in DOMAIN B[1], x \in B[1][j] PROVE FALSE
      BY DEF CellsOf, Range
    <3>1. B[1][j] \cap B[k + 1][i] # {}
      BY <2>3
    <3> QED BY <1>10, <2>2, <2>3, <3>1 DEF Waves
  <2> QED BY <1>2, <2>4, <2>5
<1>12. ASSUME NEW x \in Ahead(B) \ CellsOf(Head(B)) PROVE x \in Ahead(T)
  <2>1. PICK k \in DOMAIN B : \E i \in DOMAIN B[k] : x \in B[k][i]
    BY <1>12 DEF Ahead, CellsOf, Range
  <2>2. k # 1
    BY <1>2, <1>12, <2>1 DEF CellsOf, Range
  <2>3. k - 1 \in DOMAIN T /\ \E i \in DOMAIN T[k - 1] : x \in T[k - 1][i]
    BY <1>10, <2>1, <2>2
  <2> QED BY <2>3 DEF Ahead, CellsOf, Range
<1> QED BY <1>4, <1>9, <1>11, <1>12 DEF WaveDropped

\* The waves to come once the first step of the first wave has run.
Dropped(B) == IF Len(Head(B)) = 1 THEN Tail(B) ELSE [B EXCEPT ![1] = Tail(@)]

LEMMA DropStep ==
  ASSUME NEW e, NEW B, Waves(e, B), B # <<>>, Len(Head(B)) # 1
  PROVE  /\ Waves(e, Dropped(B)) /\ Ahead(Dropped(B)) = Ahead(B) \ Head(Head(B))
         /\ Dropped(B) # <<>> /\ Head(Dropped(B)) = Tail(Head(B))
         /\ DOMAIN Dropped(B) = DOMAIN B
         /\ \A k \in DOMAIN B : k # 1 => Dropped(B)[k] = B[k]
<1> DEFINE E == (SUBSET Formulas(e)) \ {{}}
           b == Head(B)
           R == Dropped(B)
<1>1. B \in Seq(Seq(E)) /\ b \in Seq(E) /\ b # <<>>
  BY FirstWaveFacts DEF Waves
<1> HIDE DEF E, b
<1>2. PICK n \in Nat \ {0} : DOMAIN B = 1 .. n /\ b = B[1]
  BY <1>1, TailFacts DEF b
<1>3. PICK m \in Nat \ {0} :
        /\ DOMAIN b = 1 .. m /\ DOMAIN Tail(b) = 1 .. m - 1 /\ Head(b) = b[1]
        /\ \A i \in 1 .. m - 1 : Tail(b)[i] = b[i + 1]
  BY <1>1, TailFacts
<1>4. Len(b) = m /\ m # 1 /\ Tail(b) \in Seq(E)
  <2>1. Len(b) \in Nat /\ DOMAIN b = 1 .. Len(b)
    BY <1>1, LenProperties
  <2>2. Len(b) = m
    BY <1>3, <2>1
  <2>3. Tail(b) \in Seq(E)
    BY <1>1
  <2>4. Len(b) # 1
    BY DEF b
  <2> QED BY <2>2, <2>3, <2>4
<1>5. R = [B EXCEPT ![1] = Tail(b)]
  BY <1>2, <1>4 DEF Dropped, b
<1>6. /\ DOMAIN R = 1 .. n /\ R[1] = Tail(b)
      /\ \A k \in 1 .. n : k # 1 => R[k] = B[k]
  BY <1>2, <1>5
<1>7. \A k \in 1 .. n : B[k] \in Seq(E) /\ B[k] # <<>>
  <2>1. PICK l \in Nat : DOMAIN B = 1 .. l /\ \A k \in 1 .. l : B[k] \in Seq(E)
    BY <1>1, SeqFacts
  <2> QED BY <1>2, <2>1 DEF Waves
<1> HIDE DEF R
<1>8. R \in Seq(Seq(E)) /\ R # <<>> /\ Head(R) = R[1]
  <2>1. \A k \in 1 .. n : R[k] \in Seq(E)
    BY <1>4, <1>6, <1>7
  <2>2. R = [k \in 1 .. n |-> R[k]]
    BY <1>2, <1>5, <1>6
  <2>3. R \in [1 .. n -> Seq(E)]
    BY <2>1, <2>2
  <2>4. R \in Seq(Seq(E))
    BY <2>3
  <2>5. R # <<>>
    BY <1>6
  <2>6. Head(R) = R[1]
    BY <2>4, <2>5, TailFacts
  <2> QED BY <2>4, <2>5, <2>6
\* Where a step of R is in B.
<1> DEFINE At(k, i) == IF k = 1 THEN i + 1 ELSE i
<1>9. ASSUME NEW k \in 1 .. n, NEW i \in DOMAIN R[k]
      PROVE  /\ At(k, i) \in DOMAIN B[k] /\ R[k][i] = B[k][At(k, i)]
             /\ k = 1 => At(k, i) # 1
  <2>1. CASE k = 1
    <3>1. i \in 1 .. m - 1 /\ R[k] = Tail(b) /\ B[k] = b
      BY <1>2, <1>3, <1>6, <1>9, <2>1
    <3> QED BY <1>3, <2>1, <3>1
  <2>2. CASE k # 1
    BY <1>6, <1>9, <2>2
  <2> QED BY <2>1, <2>2
<1>10. ASSUME NEW k \in 1 .. n, NEW i \in DOMAIN R[k], NEW j \in DOMAIN R[k], At(k, i) = At(k, j)
       PROVE  i = j
  <2>1. CASE k = 1
    <3>1. i \in 1 .. m - 1 /\ j \in 1 .. m - 1
      BY <1>3, <1>6, <1>10, <2>1
    <3> QED BY <1>10, <2>1, <3>1
  <2>2. CASE k # 1
    BY <1>10, <2>2
  <2> QED BY <2>1, <2>2
<1>11. ASSUME NEW k \in 1 .. n, NEW p \in DOMAIN B[k], k # 1 \/ p # 1
       PROVE  \E i \in DOMAIN R[k] : R[k][i] = B[k][p]
  <2>1. CASE k = 1
    <3>1. p - 1 \in 1 .. m - 1 /\ (p - 1) + 1 = p /\ R[k] = Tail(b) /\ B[k] = b
      BY <1>2, <1>3, <1>6, <1>11, <2>1
    <3> QED BY <1>3, <3>1
  <2>2. CASE k # 1
    BY <1>6, <2>2
  <2> QED BY <2>1, <2>2
<1> HIDE DEF At
<1>12. ASSUME NEW k \in DOMAIN R
       PROVE  R[k] # <<>> /\ \A i \in DOMAIN R[k] : R[k][i] \in ToSet(FullPlan(e))
  <2>1. k \in 1 .. n
    BY <1>6, <1>12
  <2>2. R[k] # <<>>
    <3>1. CASE k = 1
      <4>1. 1 \in 1 .. m - 1
        BY <1>4
      <4> QED BY <1>3, <1>6, <3>1, <4>1
    <3>2. CASE k # 1
      BY <1>6, <1>7, <2>1, <3>2
    <3> QED BY <3>1, <3>2
  <2>3. ASSUME NEW i \in DOMAIN R[k] PROVE R[k][i] \in ToSet(FullPlan(e))
    BY <1>2, <1>9, <2>1 DEF Waves
  <2> QED BY <2>2, <2>3
<1>13. ASSUME NEW k \in DOMAIN R, NEW l \in DOMAIN R, NEW i \in DOMAIN R[k], NEW j \in DOMAIN R[l]
       PROVE  /\ R[k][i] \cap R[l][j] # {} => k = l /\ i = j
              /\ \A a \in R[k][i] : Named(e, a) \cap R[l][j] # {} => l < k \/ (l = k /\ i = j)
  <2>1. k \in 1 .. n /\ l \in 1 .. n
    BY <1>6, <1>13
  <2>2. /\ At(k, i) \in DOMAIN B[k] /\ R[k][i] = B[k][At(k, i)]
        /\ At(l, j) \in DOMAIN B[l] /\ R[l][j] = B[l][At(l, j)]
    BY <1>9, <1>13, <2>1
  <2>3. R[k][i] \cap R[l][j] # {} => k = l /\ At(k, i) = At(l, j)
    BY <1>2, <2>1, <2>2 DEF Waves
  <2>4. \A a \in R[k][i] : Named(e, a) \cap R[l][j] # {} =>
          l < k \/ (l = k /\ At(k, i) = At(l, j))
    BY <1>2, <2>1, <2>2 DEF Waves
  <2> QED BY <1>10, <1>13, <2>1, <2>3, <2>4
<1>14. Waves(e, R)
  BY <1>8, <1>12, <1>13 DEF Waves, E
<1>15. 1 \in 1 .. n /\ 1 \in DOMAIN B[1] /\ B[1][1] = Head(b)
  BY <1>2, <1>3
<1>16. ASSUME NEW x \in Ahead(R) PROVE x \in Ahead(B) \ Head(b)
  <2>1. PICK k \in DOMAIN R : \E i \in DOMAIN R[k] : x \in R[k][i]
    BY <1>16 DEF Ahead, CellsOf, Range
  <2>2. PICK i \in DOMAIN R[k] : x \in R[k][i]
    BY <2>1
  <2>3. k \in 1 .. n /\ k \in DOMAIN B /\ At(k, i) \in DOMAIN B[k] /\ x \in B[k][At(k, i)]
        /\ (k = 1 => At(k, i) # 1)
    BY <1>2, <1>6, <1>9, <2>2
  <2>4. x \in Ahead(B)
    BY <2>3 DEF Ahead, CellsOf, Range
  <2>5. x \notin Head(b)
    <3> SUFFICES ASSUME x \in B[1][1] PROVE FALSE
      BY <1>15
    <3>1. B[1][1] \cap B[k][At(k, i)] # {}
      BY <2>3
    <3>2. k = 1 /\ At(k, i) = 1
      BY <1>2, <1>15, <2>3, <3>1 DEF Waves
    <3> QED BY <2>3, <3>2
  <2> QED BY <2>4, <2>5
<1>17. ASSUME NEW x \in Ahead(B) \ Head(b) PROVE x \in Ahead(R)
  <2>1. PICK k \in DOMAIN B : \E p \in DOMAIN B[k] : x \in B[k][p]
    BY <1>17 DEF Ahead, CellsOf, Range
  <2>2. PICK p \in DOMAIN B[k] : x \in B[k][p]
    BY <2>1
  <2>3. k \in 1 .. n /\ (k # 1 \/ p # 1)
    BY <1>2, <1>15, <1>17, <2>2
  <2>4. PICK i \in DOMAIN R[k] : R[k][i] = B[k][p]
    BY <1>11, <2>2, <2>3
  <2>5. k \in DOMAIN R /\ x \in R[k][i]
    BY <1>6, <2>2, <2>3, <2>4
  <2> QED BY <2>5 DEF Ahead, CellsOf, Range
<1>18. Ahead(R) = Ahead(B) \ Head(b)
  BY <1>16, <1>17
<1>19. Head(R) = Tail(b) /\ DOMAIN R = DOMAIN B /\ \A k \in DOMAIN B : k # 1 => R[k] = B[k]
  BY <1>2, <1>6, <1>8
<1> QED BY <1>8, <1>14, <1>18, <1>19 DEF R, b

-----------------------------------------------------------------------------
(* Steps of formulas without a region. *)

LEMMA AlikeTwice ==
  ASSUME NEW e, NEW g, NEW f, NEW A, NEW B, Alike(e, g, A, A), Alike(g, f, B, B)
  PROVE  Alike(e, f, A \cup B, A \cup B)
BY DEF Alike

LEMMA AloneQuiet ==
  ASSUME NEW e \in Engine, Mapped(e), NEW a \in Cell, e.spills[a] = {}, NEW v \in Value, NEW f,
         f = WriteAlone(e, a, v)
  PROVE  f \in Engine /\ Alike(e, f, {a}, {}) /\ f.values[a] = v
<1>1. AloneLeaves(e, a, v, f)
  BY AloneFields
<1>2. Reclaimed(e, a, e.spills[a]) = {}
  BY DEF Reclaimed
<1>3. Vacated(e, {}) = {}
  BY DEF Vacated
<1>4. e.dynamic \ {a} = e.dynamic
  BY DEF Mapped, AnchorsOf
<1>5. [e.spills EXCEPT ![a] = {}] = e.spills
  BY EngineFacts
<1>6. /\ f.spills = e.spills /\ f.owner = e.owner /\ f.dynamic = e.dynamic
      /\ f.redirty = e.redirty /\ f.unstable = e.unstable
  BY <1>1, <1>2, <1>3, <1>4, <1>5 DEF AloneLeaves
<1>7. \A x \in Cell : f.values[x] = IF x = a THEN v ELSE e.values[x]
  BY <1>1, <1>2 DEF AloneLeaves
<1> QED BY <1>1, <1>6, <1>7 DEF AloneLeaves, Alike

\* A write of one cell's diagnostics.
Tagged(e, c, d) == [e EXCEPT !.diags[c] = d]

TaggedGives(e, c, d, f) ==
  f \in Engine /\ Alike(e, f, {}, {c}) /\ f.diags[c] = d /\ f.values = e.values

LEMMA TaggedQuiet ==
  ASSUME NEW e \in Engine, NEW c \in Cell, NEW d \in SUBSET (Refusal \cup {"Unparsed"})
  PROVE  TaggedGives(e, c, d, Tagged(e, c, d))
<1> DEFINE f == Tagged(e, c, d)
<1>1. e.diags \in [Cell -> SUBSET (Refusal \cup {"Unparsed"})]
  BY EngineFacts
<1> DEFINE g == [e.diags EXCEPT ![c] = d]
<1>2. g \in [Cell -> SUBSET (Refusal \cup {"Unparsed"})] /\ g[c] = d /\ \A x \in Cell \ {c} : g[x] = e.diags[x]
  BY <1>1
<1>3. f = [e EXCEPT !.diags = g]
  BY DEF Tagged
<1> HIDE DEF g
<1>4. f \in Engine
  BY <1>2, <1>3 DEF Engine
<1>5. /\ f.programs = e.programs /\ f.values = e.values /\ f.spills = e.spills
      /\ f.owner = e.owner /\ f.dynamic = e.dynamic /\ f.redirty = e.redirty
      /\ f.unstable = e.unstable /\ f.refused = e.refused /\ f.diags = g
  BY <1>3 DEF Engine
<1> HIDE DEF f
<1>6. TaggedGives(e, c, d, f)
  BY <1>2, <1>4, <1>5 DEF Alike, TaggedGives
<1> QED BY <1>6 DEF f

LEMMA RefuseQuiet ==
  ASSUME NEW e \in Engine, Mapped(e), NEW a \in Cell, e.spills[a] = {}, NEW v \in Value,
         NEW why \in Refusal
  PROVE  Alike(e, RefuseWith(e, a, v, why), {a}, {a})
<1> DEFINE g == WriteAlone(e, a, v)
           d == g.diags[a] \cup {why}
           f == RefuseWith(e, a, v, why)
<1>1. g \in Engine /\ Alike(e, g, {a}, {})
  BY AloneQuiet
<1>2. f = Tagged(g, a, d)
  BY DEF RefuseWith, Tagged
<1>3. d \in SUBSET (Refusal \cup {"Unparsed"})
  <2> HIDE DEF g
  <2>1. g.diags[a] \in SUBSET (Refusal \cup {"Unparsed"})
    BY <1>1, EngineFacts
  <2> QED BY <2>1
<1> HIDE DEF f, g, d
<1>4. Alike(g, f, {}, {a})
  <2>1. TaggedGives(g, a, d, Tagged(g, a, d))
    BY <1>1, <1>3, TaggedQuiet
  <2> QED BY <1>2, <2>1 DEF TaggedGives
<1>5. Alike(e, f, {a}, {a})
  BY <1>1, <1>4 DEF Alike
<1> QED BY <1>5 DEF f

\* A formula without a region changes its own slot only, or spills.
LEMMA CellQuiet ==
  ASSUME NEW e, NEW t, Steady(e, t), NEW c \in Formulas(e), e.spills[c] = {}, NEW f, f = RunCell(e, c)
  PROVE  /\ f.spills[c] # {} \/ Alike(e, f, {c}, {c})
         /\ Result(e, c).kind = "scalar" =>
              /\ Alike(e, f, {c}, {c})
              /\ f.values[c] = IF Result(e, c).value = Blank THEN 0 ELSE Result(e, c).value
              /\ f.diags[c] = Parsed(e, c)
<1> DEFINE d == Parsed(e, c)
           g == Tagged(e, c, d)
           r == Result(e, c)
<1>1. e \in Engine /\ c \in Cell /\ Mapped(e) /\ e.refused = {}
  BY ProgramFacts DEF Sound, Steady
<1>2. f = Commit(g, c, r)
  BY <1>1 DEF RunCell, Skipped, ApplyResult, Parsed, Tagged
<1>3. d \in SUBSET (Refusal \cup {"Unparsed"})
  BY DEF Parsed
<1> HIDE DEF d
<1>4. g \in Engine /\ Alike(e, g, {}, {c}) /\ g.diags[c] = d /\ g.values = e.values
  <2>1. TaggedGives(e, c, d, g)
    BY <1>1, <1>3, TaggedQuiet
  <2> QED BY <2>1 DEF TaggedGives
<1>5. IsScalar(r) \/ r.kind = "lambdas" \/ IsArray(r)
  BY <1>1, ResultFacts
<1> HIDE DEF g, r
<1>6. Mapped(g) /\ g.spills[c] = {}
  BY <1>4, <1>1 DEF Mapped, Alike, AnchorsOf, Formulas
<1>7. ASSUME r.kind = "scalar"
      PROVE  /\ Alike(e, f, {c}, {c}) /\ f.diags[c] = d
             /\ f.values[c] = IF r.value = Blank THEN 0 ELSE r.value
  <2> DEFINE v == IF r.value = Blank THEN 0 ELSE r.value
  <2>1. IsScalar(r)
    BY <1>5, <1>7 DEF IsScalar, IsArray
  <2>2. v \in Value
    BY <2>1, ValueFacts DEF IsScalar
  <2>3. f = WriteAlone(g, c, v)
    BY <1>2, <1>7 DEF Commit
  <2> HIDE DEF v
  <2>4. Alike(g, f, {c}, {}) /\ f.values[c] = v
    BY <1>1, <1>4, <1>6, <2>2, <2>3, AloneQuiet
  <2>5. Alike(e, f, {c}, {c}) /\ f.diags[c] = d
    BY <1>1, <1>4, <2>4 DEF Alike
  <2> QED BY <2>4, <2>5 DEF v
<1>8. ASSUME NEW v \in Value, NEW why \in Refusal, f = RefuseWith(g, c, v, why)
      PROVE  Alike(e, f, {c}, {c})
  <2>1. Alike(g, f, {c}, {c})
    BY <1>1, <1>4, <1>6, <1>8, RefuseQuiet
  <2> QED BY <1>4, <2>1 DEF Alike
<1>9. CASE r.kind = "lambdas"
  <2>1. f = RefuseWith(g, c, ValueError, "Lambdas") /\ ValueError \in Value /\ "Lambdas" \in Refusal
    BY <1>2, <1>9, ValueFacts DEF Commit, Refusal
  <2> QED BY <1>8, <1>9, <2>1 DEF r
<1>10. CASE IsArray(r)
  <2>0. r.kind = "array" /\ "OffSheet" \in Refusal /\ "Blocked" \in Refusal /\ SpillError \in Value
    BY <1>10, ValueFacts DEF IsArray, Refusal
  <2>1. CASE OffSheet(c, r)
    <3>1. f = RefuseWith(g, c, SpillError, "OffSheet")
      BY <1>2, <2>0, <2>1 DEF Commit
    <3> QED BY <1>8, <2>0, <3>1 DEF r
  <2>2. CASE ~ OffSheet(c, r) /\ Obstructed(g, c, r)
    <3>1. f = RefuseWith(g, c, SpillError, "Blocked")
      BY <1>2, <2>0, <2>2 DEF Commit
    <3> QED BY <1>8, <2>0, <3>1 DEF r
  <2>3. CASE ~ OffSheet(c, r) /\ ~ Obstructed(g, c, r)
    <3>1. f = SpillInto(g, c, r)
      BY <1>2, <2>0, <2>3 DEF Commit
    <3>2. SpillGives(g, c, Footprint(c, r), Slots(c, r), f)
      BY <1>1, <1>4, <1>10, <2>3, <3>1, SpillExact
    <3>3. c \in Footprint(c, r) /\ g.spills \in [Cell -> SUBSET Cell]
      BY <1>1, <1>4, <1>10, <2>3, FootprintFacts, EngineFacts
    <3>4. f.spills[c] # {}
      BY <1>1, <3>2, <3>3 DEF SpillGives
    <3> QED BY <2>0, <3>4 DEF r
  <2> QED BY <2>1, <2>2, <2>3
<1>11. CASE IsScalar(r)
  BY <1>7, <1>11 DEF IsScalar, r, d
<1> QED BY <1>5, <1>9, <1>10, <1>11
LEMMA MemberQuiet ==
  ASSUME NEW e, NEW t, Sound(e, t), NEW c \in Formulas(e), e.spills[c] = {}, NEW f,
         f = RunCycleMember(e, c)
  PROVE  /\ Alike(e, f, {c}, {c})
         /\ f.values[c] = UnsupportedError /\ f.diags[c] = {"Circular"}
<1> DEFINE g == WriteAlone(e, c, UnsupportedError)
           d == {"Circular"}
<1>1. e \in Engine /\ c \in Cell /\ Mapped(e) /\ UnsupportedError \in Value
  BY ProgramFacts, ValueFacts DEF Sound
<1>2. g \in Engine /\ Alike(e, g, {c}, {}) /\ g.values[c] = UnsupportedError
  BY <1>1, AloneQuiet
<1>3. f = Tagged(g, c, d) /\ d \in SUBSET (Refusal \cup {"Unparsed"})
  BY DEF RunCycleMember, Tagged, Refusal
<1> HIDE DEF g, d
<1>4. TaggedGives(g, c, d, Tagged(g, c, d))
  BY <1>1, <1>2, <1>3, TaggedQuiet
<1>5. f \in Engine /\ Alike(g, f, {}, {c}) /\ f.diags[c] = d /\ f.values = g.values
  BY <1>3, <1>4 DEF TaggedGives
<1> QED BY <1>2, <1>5 DEF Alike, d

LEMMA GroupQuiet ==
  ASSUME NEW e, NEW t, Sound(e, t), NEW C \in SUBSET Formulas(e), \A c \in C : e.spills[c] = {},
         NEW f, f = Grouped(e, C)
  PROVE  /\ Alike(e, f, C, C)
         /\ \A c \in C : f.values[c] = UnsupportedError /\ f.diags[c] = {"Circular"}
<1>1. PICK g : /\ Members(g, e, C)
               /\ Grouped(e, C) = g[C]
               /\ \A s \in SUBSET C : Settled(e, t, g[s], s) /\ GroupRefused(e, g[s], s)
  BY CircularGroupSteps DEF Grouped
<1> DEFINE Marked(h, s) == \A c \in s : h.values[c] = UnsupportedError /\ h.diags[c] = {"Circular"}
           T == {s \in SUBSET C : Alike(e, g[s], s, s) /\ Marked(g[s], s)}
<1>2. {} \in T
  BY <1>1 DEF Members, Alike
<1>3. ASSUME NEW s \in SUBSET C, s # {}, s \ {Pick(s)} \in T PROVE s \in T
  <2> DEFINE x == Pick(s)
             u == s \ {x}
  <2>1. x \in s /\ x \in C /\ u \in SUBSET C /\ Alike(e, g[u], u, u) /\ Marked(g[u], u)
    BY <1>3 DEF Pick
  <2>2. g[s] = RunCycleMember(g[u], x)
    BY <1>1, <1>3 DEF Members
  <2>3. u \cup {x} = s /\ x \notin u /\ x \in Cell /\ u \subseteq Cell
    BY <2>1 DEF Formulas
  <2> HIDE DEF x, u
  <2>4. Sound(g[u], t) /\ x \in Formulas(g[u]) /\ g[u].spills[x] = {}
    BY <1>1, <2>1 DEF Settled, Formulas, Alike
  <2>5. Alike(g[u], g[s], {x}, {x}) /\ g[s].values[x] = UnsupportedError /\ g[s].diags[x] = {"Circular"}
    BY <2>2, <2>4, MemberQuiet
  <2>6. Alike(e, g[s], s, s)
    BY <2>1, <2>3, <2>5, AlikeTwice
  <2>7. Marked(g[s], s)
    BY <2>1, <2>3, <2>5 DEF Alike
  <2> QED BY <2>6, <2>7
<1>4. IsFiniteSet(C)
  <2>1. C \in SUBSET Cell
    BY DEF Formulas
  <2> QED BY <2>1, CellFacts, FS_Subset
<1>5. \A s \in SUBSET C : s # {} /\ s \ {Pick(s)} \in T => s \in T
  BY <1>3
<1> HIDE DEF T
<1>6. \A s \in SUBSET C : s \in T
  BY <1>2, <1>4, <1>5, SetInduction
<1>7. C \in T
  BY <1>6
<1> QED BY <1>1, <1>7 DEF T

\* A step that cannot spill.
Tame(e, C) == IsCircular(e, C) \/ \A c \in C : Result(e, c).kind = "scalar"

LEMMA StepQuiet ==
  ASSUME NEW e, NEW t, Steady(e, t), NEW C \in (SUBSET Formulas(e)) \ {{}},
         \A c \in C : e.spills[c] = {}, NEW f, f = RunStep(e, C)
  PROVE  /\ (\E c \in C : f.spills[c] # {}) \/ Alike(e, f, C, C)
         /\ Tame(e, C) => Alike(e, f, C, C) /\ Done(f, C)
<1>1. Sound(e, t) /\ e \in Engine /\ Lost(e) = {}
  BY DEF Steady, Sound
<1>2. CASE IsCircular(e, C)
  <2>1. f = Grouped(e, C) /\ C \in SUBSET Formulas(e)
    BY <1>2 DEF RunStep, Grouped
  <2>2. /\ Alike(e, f, C, C)
        /\ \A c \in C : f.values[c] = UnsupportedError /\ f.diags[c] = {"Circular"}
    BY <1>1, <2>1, GroupQuiet
  <2>3. IsCircular(f, C)
    BY <1>2, <2>2 DEF Alike, IsCircular
  <2> QED BY <2>2, <2>3 DEF Done
<1>3. CASE ~ IsCircular(e, C)
  <2>1. PICK c \in Formulas(e) : C = {c} /\ c \notin Named(e, c)
    BY <1>1, <1>3, LoneStep
  <2>2. f = RunCell(e, c) /\ e.spills[c] = {}
    BY <1>3, <2>1, RunLone
  <2>3. /\ f.spills[c] # {} \/ Alike(e, f, {c}, {c})
        /\ Result(e, c).kind = "scalar" =>
             /\ Alike(e, f, {c}, {c})
             /\ f.values[c] = IF Result(e, c).value = Blank THEN 0 ELSE Result(e, c).value
             /\ f.diags[c] = Parsed(e, c)
    BY <2>2, CellQuiet
  <2>4. ASSUME Result(e, c).kind = "scalar" PROVE Done(f, {c})
    <3>1. Alike(e, f, {c}, {c}) /\ {c} \in SUBSET Formulas(e) /\ Named(e, c) \cap {c} = {}
      BY <2>1, <2>3, <2>4
    <3>2. Result(f, c) = Result(e, c)
      BY <1>1, <3>1, AlikeReads
    <3>3. ~ IsCircular(f, {c}) /\ Parsed(f, c) = Parsed(e, c)
      BY <1>3, <2>1, <3>1 DEF Alike, IsCircular, Parsed
    <3> QED BY <2>3, <2>4, <3>2, <3>3 DEF Done
  <2>5. Tame(e, C) => Result(e, c).kind = "scalar"
    BY <1>3, <2>1 DEF Tame
  <2> QED BY <2>1, <2>3, <2>4, <2>5
<1> QED BY <1>2, <1>3

\* What has run keeps, whatever other formulas run that it does not read.
LEMMA DoneKept ==
  ASSUME NEW e, NEW t, Steady(e, t), NEW f, NEW A \in SUBSET Formulas(e), Alike(e, f, A, A),
         NEW C \in (SUBSET Formulas(e)) \ {{}}, C \cap A = {}, \A c \in C : Named(e, c) \cap A = {},
         Done(e, C)
  PROVE  Done(f, C)
<1>1. Sound(e, t) /\ e \in Engine /\ Lost(e) = {} /\ C \subseteq Cell \ A
  BY DEF Steady, Sound, Formulas
<1>2. \A c \in C : f.values[c] = e.values[c] /\ f.diags[c] = e.diags[c]
  BY <1>1 DEF Alike
<1>3. IsCircular(f, C) <=> IsCircular(e, C)
  BY DEF Alike, IsCircular
<1>4. CASE IsCircular(e, C)
  BY <1>2, <1>3, <1>4 DEF Done
<1>5. CASE ~ IsCircular(e, C)
  <2>1. ASSUME NEW c \in C PROVE Result(f, c) = Result(e, c) /\ Parsed(f, c) = Parsed(e, c)
    <3>1. c \in Formulas(e) /\ Named(e, c) \cap A = {}
      BY <2>1
    <3>2. Result(f, c) = Result(e, c)
      BY <1>1, <3>1, AlikeReads
    <3> QED BY <3>2 DEF Alike, Parsed
  <2>2. \A c \in C :
          /\ Result(e, c).kind = "scalar"
          /\ e.values[c] = IF Result(e, c).value = Blank THEN 0 ELSE Result(e, c).value
          /\ e.diags[c] = Parsed(e, c)
    BY <1>5 DEF Done
  <2>3. \A c \in C :
          /\ Result(f, c).kind = "scalar"
          /\ f.values[c] = IF Result(f, c).value = Blank THEN 0 ELSE Result(f, c).value
          /\ f.diags[c] = Parsed(f, c)
    BY <1>2, <2>1, <2>2
  <2> QED BY <1>3, <1>5, <2>3 DEF Done
<1> QED BY <1>4, <1>5

LEMMA DoneStays ==
  ASSUME NEW e, NEW t, Steady(e, t), NEW C \in (SUBSET Formulas(e)) \ {{}},
         \A c \in C : e.spills[c] = {}, Done(e, C)
  PROVE  RunStep(e, C) = e
<1> DEFINE f == RunStep(e, C)
<1>1. Sound(e, t) /\ e \in Engine /\ Lost(e) = {} /\ C \subseteq Cell
  BY DEF Steady, Sound, Formulas
<1>2. Tame(e, C)
  BY DEF Done, Tame
<1>3. Steady(f, t) /\ f \in Engine
  BY SteadyStep DEF Steady, Sound
<1> HIDE DEF f
<1>4. Alike(e, f, C, C) /\ Done(f, C)
  BY <1>2, StepQuiet DEF f
<1>5. IsCircular(f, C) <=> IsCircular(e, C)
  BY <1>4 DEF Alike, IsCircular
<1>6. \A c \in C : f.values[c] = e.values[c] /\ f.diags[c] = e.diags[c]
  <2>1. CASE IsCircular(e, C)
    BY <1>4, <1>5, <2>1 DEF Done
  <2>2. CASE ~ IsCircular(e, C)
    <3>1. PICK c \in Formulas(e) : C = {c} /\ c \notin Named(e, c)
      BY <1>1, <2>2, LoneStep
    <3>2. C \in SUBSET Formulas(e) /\ Named(e, c) \cap C = {}
      BY <3>1
    <3>3. Result(f, c) = Result(e, c)
      BY <1>1, <1>4, <3>2, AlikeReads
    <3>4. Parsed(f, c) = Parsed(e, c)
      BY <1>4 DEF Alike, Parsed
    <3> QED BY <1>4, <1>5, <2>2, <3>1, <3>3, <3>4 DEF Done
  <2> QED BY <2>1, <2>2
<1>7. Alike(e, f, {}, {})
  BY <1>4, <1>6 DEF Alike
<1> QED BY <1>1, <1>3, <1>7, AlikeSame DEF f

LEMMA FoldStays ==
  ASSUME NEW e, NEW t, Steady(e, t), NEW s \in Seq((SUBSET Formulas(e)) \ {{}}), AnchorsOf(e) = {},
         \A i \in DOMAIN s : Done(e, s[i])
  PROVE  FoldLeft(RunStep, e, s) = e
<1> DEFINE E == (SUBSET Formulas(e)) \ {{}}
<1>1. PICK n \in Nat : Len(s) = n /\ DOMAIN s = 1 .. n /\ \A i \in 1 .. n : s[i] \in E
  <2> HIDE DEF E
  <2> QED BY SeqFacts DEF E
<1>2. PICK h : Chain(h, e, s) /\ FoldLeft(RunStep, e, s) = h[Len(s)]
  BY FoldChain
<1>3. \A i \in 1 .. n : RunStep(e, s[i]) = e
  <2> SUFFICES ASSUME NEW i \in 1 .. n PROVE RunStep(e, s[i]) = e
    OBVIOUS
  <2>1. s[i] \in (SUBSET Formulas(e)) \ {{}} /\ Done(e, s[i])
    BY <1>1
  <2>2. \A c \in s[i] : e.spills[c] = {}
    BY <2>1 DEF AnchorsOf, Formulas
  <2> QED BY <2>1, <2>2, DoneStays
<1> DEFINE Bad == {i \in 0 .. n : h[i] # e}
<1>4. n \in Bad \/ h[n] = e
  BY <1>1
<1> SUFFICES ASSUME Bad # {} PROVE FALSE
  BY <1>1, <1>2, <1>4
<1>5. PICK m \in Bad : \A k \in Bad : m <= k
  <2>1. Bad \subseteq Nat
    OBVIOUS
  <2> HIDE DEF Bad
  <2> QED BY <2>1, LeastNatural
<1>6. m \in 0 .. n /\ h[m] # e /\ m # 0
  BY <1>2, <1>5 DEF Chain
<1>7. m - 1 \in 0 .. n /\ ~ (m <= m - 1) /\ m \in 1 .. n
  BY <1>1, <1>6
<1>8. h[m - 1] = e
  BY <1>5, <1>7
<1> QED BY <1>1, <1>2, <1>3, <1>6, <1>7, <1>8 DEF Chain

-----------------------------------------------------------------------------
(* The steps of the waves. *)

\* The plan of an engine is that of its programs, and its steps share nothing.
LEMMA PlanSame ==
  ASSUME NEW e \in Engine, NEW f, f.programs = e.programs
  PROVE  /\ FullPlan(f) = FullPlan(e) /\ Formulas(f) = Formulas(e)
         /\ \A C \in ToSet(FullPlan(e)) : C \in (SUBSET Formulas(e)) \ {{}}
         /\ \A C, D \in ToSet(FullPlan(e)) : C \cap D # {} => C = D
<1> DEFINE s == FullPlan(e)
<1>1. s \in Seq((SUBSET Formulas(e)) \ {{}}) /\ Chained(e, s)
  BY PlanFacts, PlanChained
<1>2. FullPlan(f) = FullPlan(e) /\ Formulas(f) = Formulas(e)
  BY DEF FullPlan, Formulas
<1> HIDE DEF s
<1>3. PICK n \in Nat : DOMAIN s = 1 .. n /\ \A i \in 1 .. n : s[i] \in (SUBSET Formulas(e)) \ {{}}
  BY <1>1, SeqFacts
<1>4. ToSet(s) = {s[i] : i \in DOMAIN s}
  BY DEF ToSet
<1>5. \A C, D \in ToSet(s) : C \cap D # {} => C = D
  BY <1>1, <1>4 DEF Chained
<1> QED BY <1>2, <1>3, <1>4, <1>5 DEF s

LEMMA UnderWayStep ==
  ASSUME NEW e, NEW A, NEW t, NEW s, UnderWay(e, A, t, s),
         NEW C \in ToSet(FullPlan(e)), C \subseteq A, \A c \in C : Named(e, c) \cap A \subseteq C,
         ~ Unscanned(s) => Tame(e, C), NEW f, f = RunStep(e, C)
  PROVE  UnderWay(f, A \ C, t, s)
<1>1. /\ Steady(e, t) /\ e.programs = s.programs /\ A \subseteq Formulas(e)
      /\ \A a \in A : e.spills[a] = {}
      /\ \A a \in Formulas(e) \ A : Named(e, a) \cap A = {}
      /\ Quiet(e) /\ (~ Unscanned(s) => Plain(e, A, s))
  BY DEF UnderWay
<1>2. e \in Engine /\ C \in (SUBSET Formulas(e)) \ {{}} /\ \A c \in C : e.spills[c] = {}
  <2>1. e \in Engine
    BY <1>1 DEF Steady, Sound
  <2> QED BY <1>1, <2>1, PlanSame
<1>3. /\ Steady(f, t) /\ f.programs = e.programs /\ Formulas(f) = Formulas(e)
      /\ Wrote(e, f, C)
  BY <1>1, <1>2, SteadyStep
<1>4. /\ (\E c \in C : f.spills[c] # {}) \/ Alike(e, f, C, C)
      /\ Tame(e, C) => Alike(e, f, C, C) /\ Done(f, C)
  BY <1>1, <1>2, StepQuiet
<1>5. \A x \in Cell : f.spills[x] = {} => e.spills[x] = {}
  BY <1>2, <1>3 DEF Wrote
<1>6. \A a \in A \ C : f.spills[a] = {}
  <2>1. A \subseteq Cell
    BY <1>1 DEF Formulas
  <2> QED BY <1>1, <1>3, <2>1 DEF Wrote
<1>7. \A a \in Formulas(f) \ (A \ C) : Named(f, a) \cap (A \ C) = {}
  <2> SUFFICES ASSUME NEW a \in Formulas(f) \ (A \ C) PROVE Named(f, a) \cap (A \ C) = {}
    OBVIOUS
  <2>1. Named(f, a) = Named(e, a) /\ a \in Formulas(e)
    BY <1>3 DEF Named
  <2> QED BY <1>1, <2>1
<1>8. Quiet(f)
  <2> SUFFICES ASSUME AnchorsOf(f) = {} PROVE f.redirty = {} /\ f.unstable = {}
    BY DEF Quiet
  <2>1. AnchorsOf(e) = {}
    BY <1>5 DEF AnchorsOf
  <2>2. C \subseteq Cell
    BY <1>2 DEF Formulas
  <2>3. Alike(e, f, C, C)
    BY <1>4, <2>2 DEF AnchorsOf
  <2> QED BY <1>1, <2>1, <2>3 DEF Quiet, Alike
<1>9. ASSUME ~ Unscanned(s) PROVE Plain(f, A \ C, s)
  <2>1. /\ AnchorsOf(e) = {}
        /\ Alike(Reset(s), e, Formulas(e), Formulas(e))
        /\ \A D \in ToSet(FullPlan(e)) : D \cap A = {} => Done(e, D)
    BY <1>1, <1>9 DEF Plain
  <2>2. Alike(e, f, C, C) /\ Done(f, C)
    BY <1>4, <1>9
  <2>3. AnchorsOf(f) = {}
    BY <2>1, <2>2 DEF AnchorsOf, Alike
  <2>4. Alike(Reset(s), f, Formulas(f), Formulas(f))
    BY <1>2, <1>3, <2>1, <2>2 DEF Alike
  <2>5. ASSUME NEW D \in ToSet(FullPlan(f)), D \cap (A \ C) = {} PROVE Done(f, D)
    <3>1. D \in ToSet(FullPlan(e)) /\ D \in (SUBSET Formulas(e)) \ {{}} /\ (C \cap D # {} => C = D)
      BY <1>2, <1>3, PlanSame
    <3>2. CASE C = D
      BY <2>2, <3>2
    <3>3. CASE C # D
      <4>1. D \cap C = {} /\ D \cap A = {}
        BY <2>5, <3>1, <3>3
      <4>2. Done(e, D) /\ \A d \in D : Named(e, d) \cap C = {}
        BY <1>1, <2>1, <3>1, <4>1
      <4>3. C \in SUBSET Formulas(e)
        BY <1>2
      <4> QED BY <1>1, <2>2, <3>1, <4>1, <4>2, <4>3, DoneKept
    <3> QED BY <3>2, <3>3
  <2> QED BY <2>3, <2>4, <2>5 DEF Plain
<1>10. A \ C \subseteq Formulas(f)
  BY <1>1, <1>3
<1> QED BY <1>1, <1>3, <1>6, <1>7, <1>8, <1>9, <1>10 DEF UnderWay

\* The plan, and so the waves, are those of the programs.
LEMMA WavesSame ==
  ASSUME NEW e, NEW f, e.programs = f.programs, NEW B
  PROVE  /\ Waves(e, B) => Waves(f, B)
         /\ Scanned(e, B) => Scanned(f, B)
<1>1. Formulas(e) = Formulas(f) /\ FullPlan(e) = FullPlan(f)
  BY DEF Formulas, FullPlan
<1>2. \A a : Named(e, a) = Named(f, a)
  BY DEF Named
<1>3. \A b : AllEval(e, b) <=> AllEval(f, b)
  BY DEF AllEval, IsCircular
<1> QED BY <1>1, <1>2, <1>3 DEF Waves, Scanned

LEMMA ResetFacts ==
  ASSUME NEW e, NEW t, Sound(e, t)
  PROVE  /\ Sound(Reset(e), t) /\ Lost(Reset(e)) = Lost(e) /\ AnchorsOf(Reset(e)) = AnchorsOf(e)
         /\ Reset(e).programs = e.programs /\ Reset(e).refused = {}
         /\ Reset(e).spills = e.spills /\ Reset(e).redirty = e.redirty
         /\ Reset(e).unstable = e.unstable
         /\ Formulas(Reset(e)) = Formulas(e)
<1> DEFINE f == Reset(e)
<1>1. e \in Engine
  BY DEF Sound
<1>2. /\ f \in Engine /\ f.programs = e.programs /\ f.values = e.values /\ f.spills = e.spills
      /\ f.owner = e.owner /\ f.dynamic = e.dynamic /\ f.refused = {}
      /\ f.redirty = e.redirty /\ f.unstable = e.unstable
  BY <1>1 DEF Reset, Engine
<1> HIDE DEF f
<1>3. Sound(f, t) /\ Lost(f) = Lost(e) /\ AnchorsOf(f) = AnchorsOf(e)
  BY <1>2, TaggedSound
<1> QED BY <1>2, <1>3 DEF f, Formulas

LEMMA BaseIsInv ==
  pc \in {"loaded", "idle", "run"} => (Base <=> Inv)
BY DEF Base, Inv

LEMMA BaseNext ==
  ASSUME Inv' PROVE Base' /\ pc' \in {"loaded", "idle", "run"}
BY DEF Base, Inv

LEMMA BaseKept ==
  ASSUME Base, UNCHANGED <<typed, iters, call, before, plan>>, pc' # "run",
         Sound(engine', typed), Lost(engine') = {}, engine'.programs = engine.programs,
         engine'.unstable \subseteq engine.unstable \cup Formulas(engine)
  PROVE  Base'
<1>1. Formulas(engine') = Formulas(engine)
  BY DEF Formulas
<1>2. Pending'
  BY <1>1 DEF Base, Pending
<1>3. Changing'
  BY <1>1 DEF Base, Changing
<1> QED BY <1>2, <1>3 DEF Base

-----------------------------------------------------------------------------
(* Every action keeps the invariant. *)

LEMMA ParallelInitInv == ParallelInit => ParInv
<1> SUFFICES ASSUME ParallelInit PROVE ParInv
  OBVIOUS
<1>1. Init /\ buckets = <<>> /\ staged = <<>> /\ start = NoStart
  BY DEF ParallelInit
<1>2. Inv /\ pc = "loaded"
  BY <1>1, InitInv DEF Init
<1>3. engine.redirty = {} /\ engine.unstable = {}
  BY <1>1 DEF Init, Loaded
<1>4. Base
  BY <1>2, BaseIsInv
<1>5. DOMAIN staged = {}
  BY <1>1
<1> QED BY <1>1, <1>2, <1>3, <1>4, <1>5 DEF ParInv, SerialInv, Quiet

LEMMA RecalcParallelKeeps == ParInv /\ RecalcParallel => ParInv'
<1>a. SUFFICES ASSUME ParInv, RecalcParallel PROVE ParInv'
  OBVIOUS
<1>1. /\ pc \in {"loaded", "idle"} /\ GateOpen(engine) /\ engine' = Reset(engine)
      /\ buckets' = Buckets(engine) /\ start' = engine /\ pc' = "waves"
      /\ UNCHANGED <<typed, plan, iters, staged>>
      /\ before' \in {Shown(engine), before, NoSnapshot}
      /\ call' \in {"recalc", "rebuild", "again"}
  BY <1>a DEF RecalcParallel, Recorded, Reset
<1>2. /\ Base /\ Quiet(engine) /\ DOMAIN staged = {}
  BY <1>a, <1>1 DEF ParInv, SerialInv
<1>3. /\ Sound(engine, typed) /\ Lost(engine) = {} /\ engine \in Engine
  BY <1>1, <1>2 DEF Base, Pending, Sound
<1>4. AnchorsOf(engine) = {}
  BY <1>1 DEF GateOpen, AnchorsOf
<1>5. /\ Sound(engine', typed) /\ Lost(engine') = {} /\ AnchorsOf(engine') = {}
      /\ engine'.programs = engine.programs /\ engine'.refused = {}
      /\ engine'.spills = engine.spills /\ engine'.redirty = engine.redirty
      /\ engine'.unstable = engine.unstable
      /\ Formulas(engine') = Formulas(engine)
  BY <1>1, <1>3, <1>4, ResetFacts
<1>6. Waves(engine', buckets') /\ Ahead(buckets') = Formulas(engine)
  BY <1>1, <1>3, <1>5, BucketsFacts, WavesSame
<1>7. ASSUME ~ Unscanned(engine) PROVE Scanned(engine', buckets')
  <2>1. Scanned(engine, Buckets(engine))
    BY <1>7 DEF Unscanned, Scanned
  <2> QED BY <1>1, <1>5, <2>1, WavesSame
<1>8. Plain(engine', Formulas(engine), engine)
  <2>1. Alike(Reset(engine), engine', Formulas(engine'), Formulas(engine'))
    BY <1>1 DEF Alike
  <2>2. engine' \in Engine
    BY <1>5 DEF Sound
  <2>3. \A C \in ToSet(FullPlan(engine')) : C \cap Formulas(engine) # {}
    BY <1>5, <2>2, PlanSame
  <2> QED BY <1>5, <2>1, <2>3 DEF Plain
<1>9. UnderWay(engine', Formulas(engine), typed, engine)
  <2>1. \A a \in Formulas(engine) : engine'.spills[a] = {}
    BY <1>4, <1>5 DEF AnchorsOf, Formulas
  <2>2. Quiet(engine')
    BY <1>2, <1>4, <1>5 DEF Quiet
  <2> QED BY <1>5, <1>8, <2>1, <2>2 DEF UnderWay, Steady
<1>10. before' \in [Cell -> Value] \cup {NoSnapshot}
  BY <1>1, <1>2, <1>3, ShownFacts DEF Base
<1>11. Pending' /\ Changing'
  BY <1>1, <1>2, <1>5 DEF Base, Pending, Changing
<1>12. Base'
  BY <1>1, <1>2, <1>5, <1>10, <1>11 DEF Base
<1>13. WaveInv'
  BY <1>1, <1>2, <1>3, <1>6, <1>7, <1>9 DEF WaveInv
<1> QED BY <1>1, <1>12, <1>13 DEF ParInv

LEMMA EvaluateKeeps == ASSUME ParInv, NEW c \in Cell, Evaluate(c) PROVE ParInv'
<1>1. /\ InEvalWave /\ c \in CellsOf(Head(buckets)) \ DOMAIN staged
      /\ staged' = [x \in DOMAIN staged \cup {c} |-> IF x = c THEN Result(engine, c) ELSE staged[x]]
      /\ UNCHANGED <<vars, buckets, start>>
  BY DEF Evaluate
<1>2. pc = "waves" /\ Base /\ WaveInv
  BY <1>1 DEF ParInv, InEvalWave, InWave
<1>3. /\ engine' = engine /\ pc' = pc /\ plan' = plan /\ iters' = iters /\ typed' = typed
      /\ call' = call /\ before' = before /\ buckets' = buckets /\ start' = start
  BY <1>1 DEF vars
<1>4. Base'
  BY <1>2, <1>3 DEF Base, Pending, Changing
<1>5. DOMAIN staged' = DOMAIN staged \cup {c}
  BY <1>1
<1>6. \A x \in DOMAIN staged' : staged'[x] = Result(engine, x)
  BY <1>1, <1>2, <1>5 DEF WaveInv
<1>7. InEvalWave'
  BY <1>1, <1>3 DEF InEvalWave, InWave
<1>8. DOMAIN staged' \subseteq CellsOf(Head(buckets'))
  BY <1>1, <1>2, <1>3, <1>5 DEF WaveInv
<1>9. WaveInv'
  BY <1>2, <1>3, <1>6, <1>7, <1>8 DEF WaveInv
<1> QED BY <1>2, <1>3, <1>4, <1>9 DEF ParInv

\* The serial pass that begins now leaves what it would have at the start.
LEMMA SamePass ==
  ASSUME NEW e, NEW A, NEW t, NEW s \in Engine, UnderWay(e, A, t, s), ~ Unscanned(s)
  PROVE  FoldLeft(RunStep, e, FullPlan(e)) = Serial(s)
<1> DEFINE f == Reset(s)
           p == FullPlan(e)
<1>1. Steady(e, t) /\ e.programs = s.programs /\ Plain(e, A, s)
  BY DEF UnderWay
<1>2. e \in Engine /\ Sound(e, t)
  BY <1>1 DEF Steady, Sound
<1>3. Serial(s) = FoldLeft(RunStep, f, p)
  BY <1>1 DEF Serial, Reset, FullPlan
<1>4. f \in Engine
  BY DEF Reset, Engine
<1> HIDE DEF f
<1>5. Alike(e, f, Formulas(e), Formulas(e))
  BY <1>1 DEF Plain, Alike, f
<1>6. Sound(f, t)
  BY <1>2, <1>4, <1>5, AlikeSound
<1>7. /\ p \in Seq((SUBSET Formulas(e)) \ {{}}) /\ Chained(e, p)
      /\ Formulas(e) \subseteq UNION ToSet(p)
  BY <1>2, PlanFacts, PlanChained
<1> HIDE DEF p
<1>8. FoldLeft(RunStep, e, p) = FoldLeft(RunStep, f, p)
  BY <1>1, <1>5, <1>6, <1>7, AlikeFold
<1> QED BY <1>3, <1>8 DEF p

LEMMA FallBackKeeps == ParInv /\ FallBack => ParInv'
<1>a. SUFFICES ASSUME ParInv, FallBack PROVE ParInv'
  OBVIOUS
<1>1. /\ InEvalWave /\ engine' = Reset(engine) /\ plan' = FullPlan(engine) /\ iters' = 0
      /\ pc' = "run" /\ buckets' = <<>> /\ staged' = <<>>
      /\ UNCHANGED <<typed, call, before, start>>
  BY <1>a DEF FallBack, Drive, Reset
<1>2. pc = "waves" /\ Base /\ WaveInv
  BY <1>a, <1>1 DEF ParInv, InEvalWave, InWave
<1>3. /\ Steady(engine, typed) /\ Sound(engine, typed) /\ engine \in Engine
      /\ engine.refused = {} /\ Lost(engine) = {}
      /\ UnderWay(engine, Ahead(buckets), typed, start) /\ start \in Engine
  BY <1>2 DEF WaveInv, UnderWay, Steady, Sound
<1>4. engine' = engine
  <2> DEFINE f == Reset(engine)
  <2>1. f \in Engine /\ Alike(engine, f, {}, {})
    BY <1>3 DEF Reset, Engine, Alike
  <2> HIDE DEF f
  <2>2. engine = f
    BY <1>3, <2>1, AlikeSame
  <2> QED BY <1>1, <2>2 DEF f
<1>5. plan' \in Seq((SUBSET Formulas(engine)) \ {{}})
  BY <1>1, <1>3, PlanFacts
<1>6. Pending'
  BY <1>1, <1>3, <1>4, <1>5 DEF Pending
<1>7. iters' \in 0 .. Cap /\ Changing'
  BY <1>1, CapAssumption DEF Changing
<1>8. Base'
  BY <1>1, <1>2, <1>3, <1>4, <1>6, <1>7 DEF Base
<1>9. ~ Unscanned(start) => FoldLeft(RunStep, engine', plan') = Serial(start)
  BY <1>1, <1>3, <1>4, SamePass
<1>10. DOMAIN staged' = {}
  BY <1>1
<1>11. SerialInv'
  BY <1>1, <1>9, <1>10 DEF SerialInv
<1> QED BY <1>1, <1>8, <1>11 DEF ParInv

\* One result is written: the step it is of runs.
LEMMA ApplyKeeps == ParInv /\ Apply => ParInv'
<1>a. SUFFICES ASSUME ParInv, Apply PROVE ParInv'
  OBVIOUS
<1> DEFINE b == Head(buckets)
           C == Head(b)
           A == Ahead(buckets)
<1>1. /\ InEvalWave /\ StagedAll /\ ~ ArrayStaged
      /\ buckets' = Dropped(buckets)
      /\ staged' = Restrict(staged, CellsOf(Tail(b)))
      /\ UNCHANGED <<pc, plan, iters, typed, call, before, start>>
  BY <1>a DEF Apply, LeftStaged, Dropped
<1>2. pc = "waves" /\ buckets # <<>> /\ AllEval(engine, b) /\ Base /\ WaveInv
  BY <1>a, <1>1 DEF ParInv, InEvalWave, InWave
<1>3. /\ Steady(engine, typed) /\ Sound(engine, typed) /\ engine \in Engine
      /\ engine.refused = {} /\ Lost(engine) = {}
      /\ UnderWay(engine, A, typed, start) /\ Waves(engine, buckets)
  BY <1>2 DEF WaveInv, UnderWay, Steady, Sound
<1>4. /\ b \in Seq((SUBSET Formulas(engine)) \ {{}}) /\ b # <<>>
      /\ \A i \in DOMAIN b :
           /\ b[i] \in (SUBSET Formulas(engine)) \ {{}}
           /\ b[i] \in ToSet(FullPlan(engine)) /\ b[i] \subseteq A
           /\ \A d \in b[i] : Named(engine, d) \cap A \subseteq b[i]
      /\ \A i, j \in DOMAIN b : b[i] \cap b[j] # {} => i = j
  <2> HIDE DEF C
  <2> QED BY <1>2, <1>3, FirstWaveFacts
<1>5. PICK n \in Nat \ {0} :
        /\ DOMAIN b = 1 .. n /\ DOMAIN Tail(b) = 1 .. n - 1 /\ C = b[1]
        /\ \A i \in 1 .. n - 1 : Tail(b)[i] = b[i + 1]
  <2> HIDE DEF b
  <2> QED BY <1>4, TailFacts DEF C
<1>6. Len(b) = n
  <2> HIDE DEF b
  <2> QED BY <1>4, <1>5, LenProperties
<1>7. \E c \in C : engine' = ApplyResult(engine, c, staged[c])
  BY <1>a DEF Apply
<1> HIDE DEF b, C, A
<1>8. 1 \in DOMAIN b
  BY <1>5
<1>9. ~ IsCircular(engine, C)
  BY <1>2, <1>5, <1>8 DEF AllEval
<1>10. /\ C \in (SUBSET Formulas(engine)) \ {{}} /\ C \in ToSet(FullPlan(engine)) /\ C \subseteq A
       /\ \A d \in C : Named(engine, d) \cap A \subseteq C
  BY <1>4, <1>5, <1>8
<1>11. PICK c \in Formulas(engine) : C = {c} /\ c \notin Named(engine, c)
  BY <1>3, <1>9, <1>10, LoneStep
<1>12. CellsOf(b) \subseteq DOMAIN staged /\ CellsOf(b) = UNION {b[i] : i \in DOMAIN b}
  BY <1>1 DEF StagedAll, CellsOf, Range, b
<1>13. c \in DOMAIN staged /\ staged[c] = Result(engine, c) /\ Result(engine, c).kind = "scalar"
  <2>1. c \in DOMAIN staged
    BY <1>5, <1>8, <1>11, <1>12
  <2> QED BY <1>1, <1>2, <2>1 DEF WaveInv, ArrayStaged
<1>14. engine' = RunStep(engine, C)
  <2>1. RunStep(engine, {c}) = RunCell(engine, c)
    BY <1>9, <1>11, RunLone
  <2>2. RunCell(engine, c) = ApplyResult(engine, c, Result(engine, c))
    BY <1>3 DEF RunCell, Skipped
  <2> QED BY <1>7, <1>11, <1>13, <2>1, <2>2
<1>15. Tame(engine, C)
  BY <1>11, <1>13 DEF Tame
<1>16. UnderWay(engine', A \ C, typed, start)
  BY <1>3, <1>10, <1>14, <1>15, UnderWayStep
<1>17. \A d \in C : engine.spills[d] = {}
  BY <1>3, <1>10 DEF UnderWay
<1>18. Alike(engine, engine', C, C)
  BY <1>3, <1>10, <1>14, <1>15, <1>17, StepQuiet
<1>19. /\ Waves(engine, buckets') /\ Ahead(buckets') = A \ C
       /\ \A k \in DOMAIN buckets' :
            \/ \E l \in DOMAIN buckets : buckets'[k] = buckets[l]
            \/ buckets'[k] = Tail(b)
       /\ n = 1 => DOMAIN Tail(b) = {}
       /\ n # 1 => buckets' # <<>> /\ Head(buckets') = Tail(b)
  <2>1. CASE n = 1
    <3>1. buckets' = Tail(buckets)
      BY <1>1, <1>6, <2>1 DEF Dropped, b
    <3>2. CellsOf(b) = C /\ DOMAIN Tail(b) = {}
      BY <1>5, <1>12, <2>1
    <3>3. /\ Waves(engine, buckets') /\ Ahead(buckets') = Ahead(buckets) \ CellsOf(b)
          /\ \A k \in DOMAIN buckets' : \E l \in DOMAIN buckets : buckets'[k] = buckets[l]
      <4>1. Waves(engine, buckets) /\ buckets # <<>>
        BY <1>2, <1>3
      <4>2. WaveDropped(engine, buckets, buckets')
        BY <3>1, <4>1, DropWave
      <4> QED BY <4>2 DEF WaveDropped, b
    <3> QED BY <2>1, <3>2, <3>3 DEF A
  <2>2. CASE n # 1
    <3>1. Len(Head(buckets)) # 1
      BY <1>6, <2>2 DEF b
    <3>2. /\ Waves(engine, buckets') /\ Ahead(buckets') = A \ C
          /\ buckets' # <<>> /\ Head(buckets') = Tail(b)
          /\ DOMAIN buckets' = DOMAIN buckets
          /\ \A k \in DOMAIN buckets : k # 1 => buckets'[k] = buckets[k]
      BY <1>1, <1>2, <1>3, <3>1, DropStep DEF A, b, C
    <3>3. buckets'[1] = Tail(b)
      BY <3>2 DEF Head
    <3> QED BY <2>2, <3>2, <3>3
  <2> QED BY <2>1, <2>2
<1>20. AllEval(engine, Tail(b))
  <2>1. \A i \in 1 .. n - 1 : i + 1 \in 1 .. n
    BY <1>5
  <2> QED BY <1>2, <1>5, <2>1 DEF AllEval
<1>21. engine'.programs = engine.programs
  BY <1>18 DEF Alike
<1>22. Waves(engine', buckets')
  BY <1>19, <1>21, WavesSame
<1>23. ASSUME ~ Unscanned(start) PROVE Scanned(engine', buckets')
  <2>1. Scanned(engine, buckets)
    BY <1>2, <1>23 DEF WaveInv
  <2>2. Scanned(engine, buckets')
    BY <1>19, <1>20, <2>1 DEF Scanned
  <2> QED BY <1>21, <2>2, WavesSame
<1>24. DOMAIN staged' = CellsOf(Tail(b)) /\ \A d \in CellsOf(Tail(b)) : staged'[d] = staged[d]
  BY <1>1 DEF Restrict
<1>25. ASSUME NEW d \in CellsOf(Tail(b))
       PROVE  d \in DOMAIN staged /\ Result(engine', d) = Result(engine, d)
  <2>1. PICK i \in 1 .. n - 1 : d \in b[i + 1]
    BY <1>5, <1>25 DEF CellsOf, Range
  <2>2. i + 1 \in DOMAIN b /\ i + 1 # 1
    BY <1>5, <2>1
  <2>3. d \in DOMAIN staged /\ d \in Formulas(engine)
    BY <1>4, <1>12, <2>1, <2>2
  <2>4. Named(engine, d) \cap C = {}
    <3>1. Named(engine, d) \cap A \subseteq b[i + 1]
      BY <1>4, <2>1, <2>2
    <3>2. b[1] \cap b[i + 1] = {}
      BY <1>4, <1>8, <2>2
    <3> QED BY <1>5, <1>10, <3>1, <3>2
  <2>5. C \in SUBSET Formulas(engine)
    BY <1>10
  <2>6. Result(engine', d) = Result(engine, d)
    BY <1>3, <1>18, <2>3, <2>4, <2>5, AlikeReads
  <2> QED BY <2>3, <2>6
<1>26. \A d \in DOMAIN staged' : staged'[d] = Result(engine', d)
  BY <1>2, <1>24, <1>25 DEF WaveInv
<1>27. DOMAIN staged' \subseteq IF InEvalWave' THEN CellsOf(Head(buckets')) ELSE {}
  <2>1. CASE n = 1
    BY <1>19, <1>24, <2>1 DEF CellsOf, Range
  <2>2. CASE n # 1
    <3>1. AllEval(engine', Head(buckets'))
      BY <1>19, <1>20, <1>21, <2>2 DEF AllEval, IsCircular
    <3>2. InEvalWave'
      BY <1>1, <1>2, <1>19, <2>2, <3>1 DEF InEvalWave, InWave
    <3> QED BY <1>19, <1>24, <2>2, <3>2
  <2> QED BY <2>1, <2>2
<1>28. Base'
  <2>1. Sound(engine', typed) /\ Lost(engine') = {}
    BY <1>16 DEF UnderWay, Steady
  <2>2. engine'.unstable \subseteq engine.unstable \cup Formulas(engine)
    BY <1>18 DEF Alike
  <2> QED BY <1>1, <1>2, <1>21, <2>1, <2>2, BaseKept
<1>29. WaveInv'
  BY <1>1, <1>2, <1>16, <1>19, <1>22, <1>23, <1>26, <1>27 DEF WaveInv
<1> QED BY <1>1, <1>2, <1>28, <1>29 DEF ParInv

\* Only the array operations give an array, or lambdas.
LEMMA PlainResult ==
  ASSUME NEW e \in Engine, NEW c \in Formulas(e), e.programs[c].op \notin ArrayOp
  PROVE  Result(e, c).kind = "scalar"
<1>1. e.programs[c].op \in {"ref", "count", "hash", "unparsed"}
  BY ProgramFacts DEF ArrayOp
<1>2. CASE e.programs[c].op = "ref"
  BY <1>2 DEF Result, Scalar
<1>3. CASE e.programs[c].op = "count"
  BY <1>3 DEF Result, Scalar
<1>4. CASE e.programs[c].op = "hash"
  BY <1>4 DEF Result, Scalar
<1>5. CASE e.programs[c].op = "unparsed"
  BY <1>5 DEF Result, Scalar
<1> QED BY <1>1, <1>2, <1>3, <1>4, <1>5

\* A wave that is run serially.
LEMMA WaveRuns ==
  ASSUME NEW e, NEW B, NEW t, NEW s, UnderWay(e, Ahead(B), t, s), Waves(e, B), B # <<>>,
         ~ Unscanned(s) => \A c \in CellsOf(Head(B)) : e.programs[c].op \notin ArrayOp,
         NEW f, f = FoldLeft(RunStep, e, Head(B))
  PROVE  /\ UnderWay(f, Ahead(Tail(B)), t, s) /\ f.programs = e.programs
         /\ f.unstable \subseteq e.unstable \cup Formulas(e)
<1> DEFINE b == Head(B)
           A == Ahead(B)
           E == (SUBSET Formulas(e)) \ {{}}
           Ran(i) == UNION {b[j] : j \in 1 .. i}
<1>1. /\ b \in Seq(E) /\ b # <<>>
      /\ \A i \in DOMAIN b :
           /\ b[i] \in E
           /\ b[i] \in ToSet(FullPlan(e)) /\ b[i] \subseteq A
           /\ \A d \in b[i] : Named(e, d) \cap A \subseteq b[i]
      /\ \A i, j \in DOMAIN b : b[i] \cap b[j] # {} => i = j
  BY FirstWaveFacts
<1>2. PICK n \in Nat : Len(b) = n /\ DOMAIN b = 1 .. n
  <2> HIDE DEF b, E
  <2> QED BY <1>1, SeqFacts
<1>3. PICK h : Chain(h, e, b) /\ f = h[Len(b)]
  <2> HIDE DEF E
  <2>1. b \in Seq(E)
    BY <1>1
  <2> HIDE DEF b
  <2> QED BY <2>1, FoldChain DEF b
<1>4. CellsOf(b) = Ran(n)
  BY <1>2 DEF CellsOf, Range
<1> DEFINE Kept(i) == /\ UnderWay(h[i], A \ Ran(i), t, s) /\ h[i].programs = e.programs
                      /\ h[i].unstable \subseteq e.unstable \cup Formulas(e)
<1>5. Kept(0)
  <2>1. Ran(0) = {} /\ h[0] = e
    BY <1>3 DEF Chain
  <2>2. A \ {} = A
    OBVIOUS
  <2> HIDE DEF Ran, A
  <2> QED BY <2>1, <2>2 DEF A
<1>6. ASSUME NEW i \in 0 .. n - 1, Kept(i) PROVE Kept(i + 1)
  <2> DEFINE C == b[i + 1]
             R == A \ Ran(i)
  <2>1. i + 1 \in 1 .. n /\ (i + 1) - 1 = i
    BY <1>2
  <2>2. h[i + 1] = RunStep(h[i], C)
    BY <1>2, <1>3, <2>1 DEF Chain
  <2>3. /\ C \in E /\ C \in ToSet(FullPlan(e)) /\ C \subseteq A
        /\ \A d \in C : Named(e, d) \cap A \subseteq C
    BY <1>1, <1>2, <2>1
  <2>4. UnderWay(h[i], R, t, s) /\ h[i].programs = e.programs
        /\ h[i].unstable \subseteq e.unstable \cup Formulas(e)
    BY <1>6
  <2>5. \A j \in 1 .. i : b[j] \cap C = {}
    <3> SUFFICES ASSUME NEW j \in 1 .. i PROVE b[j] \cap C = {}
      OBVIOUS
    <3>1. j \in DOMAIN b /\ i + 1 \in DOMAIN b /\ j # i + 1
      BY <1>2, <2>1
    <3> QED BY <1>1, <3>1
  <2>6. C \subseteq R
    BY <2>3, <2>5
  <2>7. R \ C = A \ Ran(i + 1)
    <3>1. 1 .. i + 1 = (1 .. i) \cup {i + 1}
      BY <1>2
    <3>2. Ran(i + 1) = Ran(i) \cup C
      BY <3>1
    <3> QED BY <3>2
  <2>8. Steady(h[i], t) /\ h[i] \in Engine
    BY <2>4 DEF UnderWay, Steady, Sound
  <2>9. Formulas(h[i]) = Formulas(e) /\ FullPlan(h[i]) = FullPlan(e)
    BY <2>4 DEF Formulas, FullPlan
  <2>10. \A d \in C : Named(h[i], d) \cap R \subseteq C
    BY <2>3, <2>4 DEF Named
  <2>11. ASSUME ~ Unscanned(s) PROVE Tame(h[i], C)
    <3> SUFFICES ASSUME NEW c \in C PROVE Result(h[i], c).kind = "scalar"
      BY DEF Tame
    <3>1. c \in CellsOf(b) /\ c \in Formulas(h[i])
      BY <1>2, <2>1, <2>3, <2>9 DEF CellsOf, Range
    <3>2. h[i].programs[c].op \notin ArrayOp
      BY <2>4, <2>11, <3>1
    <3> QED BY <2>8, <3>1, <3>2, PlainResult
  <2>12. C \in (SUBSET Formulas(h[i])) \ {{}}
    BY <2>3, <2>9
  <2> DEFINE g == h[i]
             k == h[i + 1]
  <2>13. /\ UnderWay(g, R, t, s) /\ Steady(g, t) /\ C \in ToSet(FullPlan(g)) /\ C \subseteq R
         /\ \A d \in C : Named(g, d) \cap R \subseteq C
         /\ (~ Unscanned(s) => Tame(g, C)) /\ k = RunStep(g, C)
         /\ C \in (SUBSET Formulas(g)) \ {{}}
    BY <2>2, <2>3, <2>4, <2>6, <2>8, <2>9, <2>10, <2>11, <2>12
  <2>14. Kept(i + 1) = (/\ UnderWay(k, R \ C, t, s) /\ k.programs = e.programs
                        /\ k.unstable \subseteq e.unstable \cup Formulas(e))
    BY <2>7
  <2>15. g.programs = e.programs /\ g.unstable \subseteq e.unstable \cup Formulas(e) /\ C \subseteq Formulas(e)
    BY <2>3, <2>4
  <2> HIDE DEF C, R, g, k, Kept
  <2>16. UnderWay(k, R \ C, t, s)
    BY <2>13, UnderWayStep
  <2>17. k.programs = g.programs /\ k.unstable \subseteq g.unstable \cup C
    BY <2>13, SteadyStep
  <2> QED BY <2>14, <2>15, <2>16, <2>17
<1> HIDE DEF Kept
<1>7. Kept(n)
  <2> DEFINE Bad == {i \in 0 .. n : ~ Kept(i)}
  <2>1. n \in Bad \/ Kept(n)
    BY <1>2
  <2> SUFFICES ASSUME Bad # {} PROVE FALSE
    BY <2>1
  <2>2. PICK m \in Bad : \A k \in Bad : m <= k
    <3>1. Bad \subseteq Nat
      OBVIOUS
    <3> HIDE DEF Bad
    <3> QED BY <3>1, LeastNatural
  <2>3. m \in 0 .. n /\ ~ Kept(m) /\ m # 0
    BY <1>5, <2>2
  <2>4. m - 1 \in 0 .. n - 1 /\ ~ (m <= m - 1) /\ (m - 1) + 1 = m /\ m - 1 \in 0 .. n
    BY <1>2, <2>3
  <2>5. Kept(m - 1)
    BY <2>2, <2>4
  <2> QED BY <1>6, <2>3, <2>4, <2>5
<1>8. Ahead(Tail(B)) = A \ Ran(n)
  <2>1. WaveDropped(e, B, Tail(B))
    BY DropWave
  <2> QED BY <1>4, <2>1 DEF WaveDropped
<1> QED BY <1>2, <1>3, <1>7, <1>8 DEF Kept

LEMMA BarrierKeeps == ParInv /\ Barrier => ParInv'
<1>a. SUFFICES ASSUME ParInv, Barrier PROVE ParInv'
  OBVIOUS
<1>1. /\ InWave /\ ~ InEvalWave /\ engine' = FoldLeft(RunStep, engine, Head(buckets))
      /\ buckets' = Tail(buckets)
      /\ UNCHANGED <<pc, plan, iters, typed, call, before, staged, start>>
  BY <1>a DEF Barrier
<1>2. pc = "waves" /\ buckets # <<>> /\ ~ AllEval(engine, Head(buckets)) /\ Base /\ WaveInv
  BY <1>a, <1>1 DEF ParInv, InEvalWave, InWave
<1>3. /\ UnderWay(engine, Ahead(buckets), typed, start) /\ Waves(engine, buckets)
      /\ (~ Unscanned(start) => Scanned(engine, buckets)) /\ start \in Engine
      /\ DOMAIN staged = {}
  BY <1>1, <1>2 DEF WaveInv
<1>4. 1 \in DOMAIN buckets /\ Head(buckets) = buckets[1]
  <2>1. buckets \in Seq(Seq((SUBSET Formulas(engine)) \ {{}}))
    BY <1>3 DEF Waves
  <2>2. PICK n \in Nat \ {0} : DOMAIN buckets = 1 .. n /\ Head(buckets) = buckets[1]
    BY <1>2, <2>1, TailFacts
  <2> QED BY <2>2
<1>5. ~ Unscanned(start) => \A c \in CellsOf(Head(buckets)) : engine.programs[c].op \notin ArrayOp
  BY <1>2, <1>3, <1>4 DEF Scanned
<1>6. /\ UnderWay(engine', Ahead(Tail(buckets)), typed, start) /\ engine'.programs = engine.programs
      /\ engine'.unstable \subseteq engine.unstable \cup Formulas(engine)
  BY <1>1, <1>2, <1>3, <1>5, WaveRuns
<1>7. /\ Waves(engine, Tail(buckets))
      /\ \A k \in DOMAIN Tail(buckets) : \E l \in DOMAIN buckets : Tail(buckets)[k] = buckets[l]
  <2>1. WaveDropped(engine, buckets, Tail(buckets))
    BY <1>2, <1>3, DropWave
  <2> QED BY <2>1 DEF WaveDropped
<1>8. Waves(engine', buckets')
  BY <1>1, <1>6, <1>7, WavesSame
<1>9. ASSUME ~ Unscanned(start) PROVE Scanned(engine', buckets')
  <2>1. Scanned(engine, Tail(buckets))
    BY <1>3, <1>7, <1>9 DEF Scanned
  <2> QED BY <1>1, <1>6, <2>1, WavesSame
<1>10. Base'
  <2>1. Sound(engine', typed) /\ Lost(engine') = {}
    BY <1>6 DEF UnderWay, Steady
  <2> QED BY <1>1, <1>2, <1>6, <2>1, BaseKept
<1>11. WaveInv'
  BY <1>1, <1>3, <1>6, <1>8, <1>9 DEF WaveInv
<1> QED BY <1>1, <1>2, <1>10, <1>11 DEF ParInv

LEMMA FinishWavesKeeps == ParInv /\ FinishWaves => ParInv'
<1>a. SUFFICES ASSUME ParInv, FinishWaves PROVE ParInv'
  OBVIOUS
<1>1. /\ pc = "waves" /\ buckets = <<>> /\ pc' = "idle" /\ start' = NoStart
      /\ UNCHANGED <<engine, plan, iters, typed, call, before, buckets, staged>>
  BY <1>a DEF FinishWaves, WavesDone
<1>2. Base /\ WaveInv /\ ~ InEvalWave
  BY <1>a, <1>1 DEF ParInv, InEvalWave, InWave
<1>3. DOMAIN staged = {} /\ UnderWay(engine, Ahead(buckets), typed, start)
  BY <1>2 DEF WaveInv
<1>4. Sound(engine, typed) /\ Lost(engine) = {} /\ Quiet(engine)
  BY <1>3 DEF UnderWay, Steady
<1>5. Base'
  BY <1>1, <1>2, <1>4, BaseKept
<1>6. SerialInv'
  BY <1>1, <1>3, <1>4 DEF SerialInv
<1> QED BY <1>1, <1>5, <1>6 DEF ParInv

\* Outside the waves the invariant is that of the serial engine.
LEMMA SerialParts ==
  ASSUME ParInv, pc # "waves"
  PROVE  Inv /\ SerialInv
BY BaseIsInv DEF ParInv

LEMMA SerialRecalcKeeps == ParInv /\ SerialRecalc => ParInv'
<1>a. SUFFICES ASSUME ParInv, SerialRecalc PROVE ParInv'
  OBVIOUS
<1>1. /\ pc \in {"loaded", "idle"} /\ Recalc /\ pc' = "run"
      /\ buckets' = buckets /\ staged' = staged /\ start' = start
  BY <1>a DEF SerialRecalc, Recalc, Drive, parVars
<1>2. Inv /\ SerialInv
  BY <1>a, <1>1, SerialParts
<1>3. Base' /\ pc' = "run"
  BY <1>1, <1>2, RecalcKeepsInv, BaseNext
<1>4. start' = NoStart /\ buckets' = <<>> /\ DOMAIN staged' = {}
  BY <1>1, <1>2 DEF SerialInv
<1>5. SerialInv'
  BY <1>3, <1>4 DEF SerialInv
<1> QED BY <1>3, <1>5 DEF ParInv

LEMMA EditKeeps == ParInv /\ Edit => ParInv'
<1>a. SUFFICES ASSUME ParInv, Edit PROVE ParInv'
  OBVIOUS
<1>1. /\ \/ \E c \in Cell : \E p \in Menu[c] : EditFormula(c, p)
         \/ \E c \in Cell : \E v \in Typable[c] : EditLiteral(c, v)
      /\ buckets' = buckets /\ staged' = staged /\ start' = start
  BY <1>a DEF Edit, parVars
<1>2. pc = "idle" /\ pc' = "run"
  BY <1>1 DEF EditFormula, EditLiteral, EditTo, Drive
<1>3. Inv /\ SerialInv
  BY <1>a, <1>2, SerialParts
<1>4. Inv'
  BY <1>1, <1>3, EditFormulaKeepsInv, EditLiteralKeepsInv
<1>5. Base' /\ pc' = "run"
  BY <1>2, <1>4, BaseNext
<1>6. start' = NoStart /\ buckets' = <<>> /\ DOMAIN staged' = {}
  BY <1>1, <1>2, <1>3 DEF SerialInv
<1>7. SerialInv'
  BY <1>5, <1>6 DEF SerialInv
<1> QED BY <1>5, <1>7 DEF ParInv

\* When a serial call returns there is nothing left to reconcile.
LEMMA ReturnsQuiet ==
  ASSUME Inv, Converged \/ NextPass \/ OverCap, pc' # "run"
  PROVE  engine'.redirty = {} /\ engine'.unstable = {}
<1>1. engine \in Engine /\ Sound(engine, typed)
  BY DEF Inv, Sound
<1>2. Drained(engine).redirty = {} /\ Drained(engine).unstable = {} /\ Drained(engine) \in Engine
  BY <1>1 DEF Drained, Engine
<1>3. CASE Converged
  BY <1>2, <1>3 DEF Converged
<1>4. CASE NextPass
  BY <1>2, <1>4 DEF NextPass
<1>5. CASE OverCap
  <2> DEFINE none == {}
             done == FoldSet(LAMBDA a, acc : RefuseAnchor(acc, a), Drained(engine), none)
  <2>1. engine.unstable \ engine.refused = {} /\ engine' = [done EXCEPT !.redirty = {}]
    <3> DEFINE new == engine.unstable \ engine.refused
               all == FoldSet(LAMBDA a, acc : RefuseAnchor(acc, a), Drained(engine), new)
    <3>1. /\ engine' = [all EXCEPT !.redirty = IF new = {} THEN {} ELSE @ \cup engine.redirty]
          /\ pc' = IF new = {} THEN "idle" ELSE "run"
      BY <1>5 DEF OverCap
    <3>2. new = {}
      BY <3>1
    <3> HIDE DEF new
    <3>3. all = done
      BY <3>2
    <3> HIDE DEF all, done
    <3> QED BY <3>1, <3>2, <3>3 DEF new
  <2>2. Sound(Drained(engine), typed) /\ none \in SUBSET Formulas(Drained(engine))
    BY <1>1, DrainedFacts
  <2>3. LET f == FoldSet(LAMBDA a, acc : RefuseAnchor(acc, a), Drained(engine), none)
        IN Settled(Drained(engine), typed, f, none) /\ AnchorsRefused(Drained(engine), f, none)
    <3> HIDE DEF none
    <3> QED BY <2>2, RefusalsSound
  <2>4. Settled(Drained(engine), typed, done, none)
    BY <2>3
  <2> HIDE DEF done
  <2>5. done \in Engine /\ done.unstable = {}
    BY <1>2, <2>4 DEF Settled, Sound
  <2> QED BY <2>1, <2>5 DEF Engine
<1> QED BY <1>3, <1>4, <1>5

LEMMA SerialStepKeeps == ParInv /\ SerialStep => ParInv'
<1>a. SUFFICES ASSUME ParInv, SerialStep PROVE ParInv'
  OBVIOUS
<1>1. /\ Step /\ start' = (IF PassEnds THEN NoStart ELSE start) /\ buckets' = buckets /\ staged' = staged
  BY <1>a DEF SerialStep
<1>2. pc = "run"
  BY <1>1 DEF Step, ExecuteStep, Converged, NextPass, OverCap, PassEnds
<1>3. Inv /\ SerialInv
  BY <1>a, <1>2, SerialParts
<1>4. Inv'
  BY <1>1, <1>3, NextKeepsInv DEF Next
<1>5. Base' /\ pc' \in {"loaded", "idle", "run"}
  BY <1>4, BaseNext
<1>6. buckets' = <<>> /\ DOMAIN staged' = {}
  BY <1>1, <1>3 DEF SerialInv
<1>7. CASE ExecuteStep
  <2>1. /\ plan # <<>> /\ engine' = RunStep(engine, Head(plan)) /\ plan' = Tail(plan) /\ pc' = "run"
        /\ start' = start
    BY <1>1, <1>7 DEF ExecuteStep, PassEnds
  <2>2. plan \in Seq((SUBSET Formulas(engine)) \ {{}})
    BY <1>3 DEF Inv, Pending
  <2>3. FoldLeft(RunStep, engine, plan) = FoldLeft(RunStep, engine', plan')
    BY <2>1, <2>2, FoldFirst
  <2>4. SerialInv'
    BY <1>3, <1>6, <2>1, <2>3 DEF SerialInv
  <2> QED BY <1>5, <2>1, <2>4 DEF ParInv
<1>8. CASE Converged \/ NextPass \/ OverCap
  <2>1. PassEnds
    BY <1>8 DEF Converged, NextPass, OverCap
  <2>2. start' = NoStart
    BY <1>1, <2>1
  <2>3. pc' # "run" => Quiet(engine')
    BY <1>3, <1>8, ReturnsQuiet DEF Quiet
  <2>4. SerialInv'
    BY <1>6, <2>2, <2>3 DEF SerialInv
  <2> QED BY <1>5, <2>4 DEF ParInv
<1> QED BY <1>1, <1>7, <1>8 DEF Step

LEMMA ParallelStutterKeeps == ParInv /\ UNCHANGED <<vars, parVars>> => ParInv'
<1> SUFFICES ASSUME ParInv, UNCHANGED <<vars, parVars>> PROVE ParInv'
  OBVIOUS
<1>1. /\ engine' = engine /\ pc' = pc /\ plan' = plan /\ iters' = iters /\ typed' = typed
      /\ call' = call /\ before' = before /\ buckets' = buckets /\ staged' = staged /\ start' = start
  BY DEF vars, parVars
<1>2. Base <=> Base'
  BY <1>1 DEF Base, Pending, Changing
<1>3. WaveInv <=> WaveInv'
  BY <1>1 DEF WaveInv, InEvalWave, InWave
<1>4. SerialInv <=> SerialInv'
  BY <1>1 DEF SerialInv
<1> QED BY <1>1, <1>2, <1>3, <1>4 DEF ParInv

LEMMA ParallelNextKeeps == ParInv /\ [ParallelNext]_<<vars, parVars>> => ParInv'
<1> SUFFICES ASSUME ParInv, [ParallelNext]_<<vars, parVars>> PROVE ParInv'
  OBVIOUS
<1>1. CASE RecalcParallel
  BY <1>1, RecalcParallelKeeps
<1>2. CASE \E c \in Cell : Evaluate(c)
  BY <1>2, EvaluateKeeps
<1>3. CASE FallBack
  BY <1>3, FallBackKeeps
<1>4. CASE Apply
  BY <1>4, ApplyKeeps
<1>5. CASE Barrier
  BY <1>5, BarrierKeeps
<1>6. CASE FinishWaves
  BY <1>6, FinishWavesKeeps
<1>7. CASE SerialRecalc
  BY <1>7, SerialRecalcKeeps
<1>8. CASE Edit
  BY <1>8, EditKeeps
<1>9. CASE SerialStep
  BY <1>9, SerialStepKeeps
<1>10. CASE UNCHANGED <<vars, parVars>>
  BY <1>10, ParallelStutterKeeps
<1> QED BY <1>1, <1>2, <1>3, <1>4, <1>5, <1>6, <1>7, <1>8, <1>9, <1>10 DEF ParallelNext

-----------------------------------------------------------------------------
(* The theorems. *)

(* While the waves run, the engine and the values and diagnostics of the     *)
(* formulas still to run are all that a serial pass would find at the same   *)
(* point, every result staged is the one its formula still has, and the      *)
(* waves to come hold the rest of the plan in an order in which no formula   *)
(* runs before one it reads (try_recalc_parallel, execute_parallel).         *)
THEOREM ParallelInvariant == ParallelSpec => []ParInv
<1>1. ParallelInit => ParInv
  BY ParallelInitInv
<1>2. ParInv /\ [ParallelNext]_<<vars, parVars>> => ParInv'
  BY ParallelNextKeeps
<1> QED BY <1>1, <1>2, PTL DEF ParallelSpec

\* When the waves are done, every step has run, so a serial pass changes nothing.
LEMMA WavesLeaveSerial ==
  ASSUME ParInv, WavesDone, ~ Unscanned(start)
  PROVE  engine = Serial(start) /\ engine.redirty = {} /\ engine.unstable = {}
<1>1. buckets = <<>> /\ WaveInv
  BY DEF ParInv, WavesDone
<1>2. Ahead(buckets) = {}
  BY <1>1 DEF Ahead
<1>3. UnderWay(engine, {}, typed, start) /\ start \in Engine
  BY <1>1, <1>2 DEF WaveInv
<1>4. Steady(engine, typed) /\ engine \in Engine /\ Quiet(engine) /\ Plain(engine, {}, start)
  BY <1>3 DEF UnderWay, Steady, Sound
<1>5. /\ FullPlan(engine) \in Seq((SUBSET Formulas(engine)) \ {{}}) /\ AnchorsOf(engine) = {}
      /\ \A i \in DOMAIN FullPlan(engine) : Done(engine, FullPlan(engine)[i])
  <2>1. FullPlan(engine) \in Seq((SUBSET Formulas(engine)) \ {{}})
    BY <1>4, PlanFacts
  <2>2. \A i \in DOMAIN FullPlan(engine) : FullPlan(engine)[i] \in ToSet(FullPlan(engine))
    BY DEF ToSet
  <2> QED BY <1>4, <2>1, <2>2 DEF Plain
<1>6. FoldLeft(RunStep, engine, FullPlan(engine)) = engine
  BY <1>4, <1>5, FoldStays
<1>7. FoldLeft(RunStep, engine, FullPlan(engine)) = Serial(start)
  BY <1>3, SamePass
<1> QED BY <1>4, <1>5, <1>6, <1>7 DEF Quiet

(* The parallel executor is the serial one: a staged result is still what    *)
(* its formula evaluates to when its turn to be written comes, the waves     *)
(* leave the engine as one serial pass would, to the last owner and          *)
(* diagnostic, with nothing to reconcile, and the serial pass that an array  *)
(* among the results sends it to leaves what it would have without the waves *)
(* written before; but for an array that the gate misses in a wave that is   *)
(* run serially (ParallelIsSerial: plan_waves, try_recalc_parallel,          *)
(* execute_parallel).                                                        *)
THEOREM WavesAreSerial == ParallelSpec => []ParallelIsSerial
<1>1. ParInv => ParallelIsSerial
  <2> SUFFICES ASSUME ParInv PROVE ParallelIsSerial
    OBVIOUS
  <2>1. \A c \in DOMAIN staged : staged[c] = Result(engine, c)
    BY DEF ParInv, WaveInv, SerialInv
  <2>2. ASSUME WavesDone, ~ Unscanned(start)
        PROVE  engine = Serial(start) /\ engine.redirty = {} /\ engine.unstable = {}
    BY <2>2, WavesLeaveSerial
  <2>3. ASSUME start # NoStart, ~ Unscanned(start), PassEnds PROVE engine = Serial(start)
    <3>1. pc = "run" /\ plan = <<>>
      BY <2>3 DEF PassEnds
    <3>2. FoldLeft(RunStep, engine, plan) = Serial(start)
      BY <2>3, <3>1 DEF ParInv, SerialInv
    <3> QED BY <3>1, <3>2, FoldNone
  <2>4. ~ (WavesDone /\ PassEnds)
    BY DEF WavesDone, PassEnds
  <2> QED BY <2>1, <2>2, <2>3, <2>4 DEF ParallelIsSerial
<1> QED BY <1>1, ParallelInvariant, PTL

(* The buckets, the staged results and the engine keep their types, and the  *)
(* waves to come share no formula (ParallelTypeOK: plan_waves).              *)
THEOREM WaveTypesKept == ParallelSpec => []ParallelTypeOK
<1>1. ParInv => ParallelTypeOK
  <2> SUFFICES ASSUME ParInv PROVE ParallelTypeOK
    OBVIOUS
  <2>1. engine \in Engine /\ pc \in {"loaded", "idle", "run", "waves"}
    BY DEF ParInv, Base, Sound
  <2>2. CASE pc = "waves"
    <3>1. Waves(engine, buckets) /\ WaveInv
      BY <2>2 DEF ParInv, WaveInv
    <3>2. buckets \in Seq(Seq((SUBSET Formulas(engine)) \ {{}}))
      BY <3>1 DEF Waves
    <3>3. Seq(Seq((SUBSET Formulas(engine)) \ {{}})) \subseteq Seq(Seq(SUBSET Cell))
      <4> DEFINE E == (SUBSET Formulas(engine)) \ {{}}
                 G == SUBSET Cell
      <4>1. E \subseteq G
        BY DEF Formulas
      <4> HIDE DEF E, G
      <4> DEFINE SE == Seq(E)
                 SG == Seq(G)
      <4>2. SE \subseteq SG
        BY <4>1
      <4> HIDE DEF SE, SG
      <4>3. Seq(SE) \subseteq Seq(SG)
        BY <4>2
      <4> QED BY <4>3 DEF SE, SG, E, G
    <3>4. DOMAIN staged \subseteq IF InWave THEN CellsOf(Head(buckets)) ELSE {}
      BY <3>1 DEF WaveInv, InEvalWave
    <3>5. ASSUME NEW k \in DOMAIN buckets, NEW l \in DOMAIN buckets, k # l
          PROVE  CellsOf(buckets[k]) \cap CellsOf(buckets[l]) = {}
      BY <3>1, <3>5 DEF Waves, CellsOf, Range
    <3> QED BY <2>1, <2>2, <3>2, <3>3, <3>4, <3>5 DEF ParallelTypeOK
  <2>3. CASE pc # "waves"
    <3>1. buckets = <<>> /\ DOMAIN staged = {}
      BY <2>3 DEF ParInv, SerialInv
    <3>2. DOMAIN buckets = {} /\ buckets \in Seq(Seq(SUBSET Cell))
      BY <3>1
    <3> QED BY <2>1, <2>3, <3>1, <3>2 DEF ParallelTypeOK
  <2> QED BY <2>2, <2>3
<1> QED BY <1>1, ParallelInvariant, PTL

(* Waves and all, the two spill maps describe one partition of the cells     *)
(* that arrays own, and no array leaves a value behind (OwnershipExact:      *)
(* execute_parallel's circular waves spill, and are reconciled by no pass).  *)
THEOREM WavesKeepOwnership == ParallelSpec => []OwnershipExact
<1>1. ParInv => OwnershipExact
  BY SoundIsExact DEF ParInv, Base
<1> QED BY <1>1, ParallelInvariant, PTL

\* The waves under way left no array unscanned.
Backstopped == pc = "waves" => ~ Unscanned(start)

\* A complete list leaves none.
LEMMA CompleteList ==
  ASSUME Unlisted = {}, NEW e \in Engine, GateOpen(e) PROVE ~ Unscanned(e)
<1> SUFFICES ASSUME Unscanned(e) PROVE FALSE
  OBVIOUS
<1>1. PICK k \in DOMAIN Buckets(e) : \E c \in CellsOf(Buckets(e)[k]) : e.programs[c].op \in ArrayOp
  BY DEF Unscanned
<1>2. PICK c \in CellsOf(Buckets(e)[k]) : e.programs[c].op \in ArrayOp
  BY <1>1
<1>3. c \in Ahead(Buckets(e))
  BY <1>1, <1>2 DEF Ahead
<1>4. c \in Cell
  BY <1>3, BucketsFacts DEF Formulas
<1> QED BY <1>2, <1>4 DEF GateOpen

\* What has run and is diagnosed as it should be is right, or refused.
LEMMA DoneIsRight ==
  ASSUME NEW e \in Engine, AnchorsOf(e) = {}, \A C \in ToSet(FullPlan(e)) : Done(e, C),
         NEW a \in Formulas(e)
  PROVE  Right(e, a)
<1>1. PICK C \in ToSet(FullPlan(e)) : a \in C
  BY PlanFacts
<1>2. Done(e, C) /\ a \in Cell /\ e.spills[a] = {}
  BY ProgramFacts DEF AnchorsOf
<1>3. CASE IsCircular(e, C)
  <2>1. UnsupportedError \in Error /\ "Circular" \in Refusal
    BY DEF Error, Refusal
  <2>2. e.values[a] = UnsupportedError /\ e.diags[a] = {"Circular"}
    BY <1>1, <1>2, <1>3 DEF Done
  <2> QED BY <1>2, <2>1, <2>2 DEF Right, RefusedAt
<1>4. CASE ~ IsCircular(e, C)
  <2>1. /\ Result(e, a).kind = "scalar" /\ e.diags[a] = Parsed(e, a)
        /\ e.values[a] = IF Result(e, a).value = Blank THEN 0 ELSE Result(e, a).value
    BY <1>1, <1>2, <1>4 DEF Done
  <2>2. e.diags[a] \cap Refusal = {}
    BY <2>1 DEF Parsed, Refusal
  <2>3. Holds(e, a, Result(e, a))
    BY <2>1 DEF Holds
  <2> QED BY <2>2, <2>3 DEF Right
<1> QED BY <1>3, <1>4

\* The serial engine's freshness, which the waves interrupt.
WaveFresh ==
  IF pc = "waves" THEN ~ Unscanned(start) /\ Chained(engine, plan) ELSE Fresh

LEMMA WavesFresh ==
  ASSUME Backstopped', ParInv, ParInv', WaveFresh,
         RecalcParallel \/ FallBack \/ FinishWaves
  PROVE  WaveFresh'
<1>0. engine \in Engine
  BY DEF ParInv, Base, Sound
<1>1. CASE RecalcParallel
  <2>1. /\ pc \in {"loaded", "idle"} /\ GateOpen(engine) /\ engine' = Reset(engine)
        /\ start' = engine /\ pc' = "waves" /\ plan' = plan
    BY <1>1 DEF RecalcParallel, Reset
  <2>2. ~ Unscanned(start')
    BY <2>1 DEF Backstopped
  <2>3. engine'.programs = engine.programs /\ Chained(engine, plan)
    BY <1>0, <2>1 DEF Reset, Engine, WaveFresh, Fresh
  <2>4. Chained(engine', plan')
    BY <2>1, <2>3, ChainedSame
  <2> QED BY <2>1, <2>2, <2>4 DEF WaveFresh
<1>2. CASE FallBack
  <2>1. /\ engine' = Reset(engine) /\ plan' = FullPlan(engine) /\ iters' = 0 /\ pc' = "run"
    BY <1>2 DEF FallBack, Drive, Reset
  <2>2. engine'.programs = engine.programs /\ engine'.refused = {}
    BY <1>0, <2>1 DEF Reset, Engine
  <2>3. Chained(engine', plan')
    BY <1>0, <2>1, <2>2, PlanChained, ChainedSame
  <2>4. Formulas(engine') \subseteq UNION ToSet(plan')
    BY <1>0, <2>1, <2>2, PlanFacts DEF Formulas
  <2>5. Awaited(engine', plan') /\ RefusalsStand(engine')
    BY <2>2, <2>4 DEF Awaited, RefusalsStand
  <2>6. ~ (iters' > 0)
    BY <2>1
  <2> QED BY <2>1, <2>3, <2>5, <2>6 DEF Fresh, WaveFresh
<1>3. CASE FinishWaves
  <2>1. /\ pc = "waves" /\ buckets = <<>> /\ pc' = "idle" /\ engine' = engine /\ plan' = plan
    BY <1>3 DEF FinishWaves, WavesDone
  <2>2. ~ Unscanned(start) /\ Chained(engine, plan)
    BY <2>1 DEF WaveFresh
  <2>3. Ahead(buckets) = {}
    BY <2>1 DEF Ahead
  <2>4. Plain(engine, {}, start) /\ engine.refused = {}
    BY <2>1, <2>2, <2>3 DEF ParInv, WaveInv, UnderWay, Steady
  <2>5. AnchorsOf(engine) = {} /\ \A C \in ToSet(FullPlan(engine)) : Done(engine, C)
    BY <2>4 DEF Plain
  <2>6. \A a \in Formulas(engine) : Right(engine, a)
    BY <1>0, <2>5, DoneIsRight
  <2> QED BY <2>1, <2>2, <2>4, <2>6 DEF Fresh, WaveFresh, RefusalsStand
<1> QED BY <1>1, <1>2, <1>3

LEMMA ParallelNextFresh ==
  ASSUME Backstopped', ParInv, ParInv', WaveFresh, [ParallelNext]_<<vars, parVars>>
  PROVE  WaveFresh'
<1>1. CASE RecalcParallel \/ FallBack \/ FinishWaves
  BY <1>1, WavesFresh
<1>2. CASE (\E c \in Cell : Evaluate(c)) \/ Apply \/ Barrier
  <2>1. pc = "waves" /\ pc' = "waves" /\ plan' = plan /\ start' = start
    BY <1>2 DEF Evaluate, Apply, Barrier, InEvalWave, InWave, vars
  <2>2. engine.programs = start.programs /\ engine'.programs = start'.programs
    BY <2>1 DEF ParInv, WaveInv, UnderWay
  <2>3. Chained(engine', plan')
    BY <2>1, <2>2, ChainedSame DEF WaveFresh
  <2> QED BY <2>1, <2>3 DEF WaveFresh
<1>3. CASE SerialRecalc \/ Edit \/ SerialStep
  <2>1. pc # "waves" /\ pc' # "waves"
    <3>1. CASE SerialRecalc
      BY <3>1 DEF SerialRecalc, Recalc, Drive
    <3>2. CASE Edit
      BY <3>2 DEF Edit, EditFormula, EditLiteral, EditTo, Drive
    <3>3. CASE SerialStep
      BY <3>3 DEF SerialStep, Step, ExecuteStep, Converged, NextPass, OverCap, PassEnds
    <3> QED BY <1>3, <3>1, <3>2, <3>3
  <2>2. Inv /\ Fresh
    BY <2>1, SerialParts DEF WaveFresh
  <2>3. Next
    BY <1>3 DEF SerialRecalc, Edit, SerialStep, Next
  <2>4. Fresh'
    BY <2>2, <2>3, NextFresh
  <2> QED BY <2>1, <2>4 DEF WaveFresh
<1>4. CASE UNCHANGED <<vars, parVars>>
  <2>1. Fresh => Fresh'
    BY <1>4, StutterFresh
  <2> QED BY <1>4, <2>1 DEF WaveFresh, vars, parVars
<1> QED BY <1>1, <1>2, <1>3, <1>4 DEF ParallelNext

(* Never silently wrong, with the waves as without them, while no waves are  *)
(* begun with an array that the gate misses in a wave that is run serially:  *)
(* between calls every formula shows what it evaluates to now, or is refused *)
(* (FreshOrRefused: parallel_unsafe, try_recalc_parallel, execute_parallel). *)
THEOREM WavesAreRightOrRefused == ParallelSpec /\ []Backstopped => []FreshOrRefused
<1>1. ParallelInit => WaveFresh
  BY InitFresh DEF ParallelInit, Init, WaveFresh
<1>2. Backstopped' /\ ParInv /\ ParInv' /\ WaveFresh /\ [ParallelNext]_<<vars, parVars>> => WaveFresh'
  BY ParallelNextFresh
<1>3. WaveFresh => FreshOrRefused
  BY FreshIsRight DEF WaveFresh, FreshOrRefused
<1> QED BY <1>1, <1>2, <1>3, ParallelInvariant, PTL DEF ParallelSpec

(* So with a complete list of the functions that return arrays nothing is    *)
(* ever silently wrong, for every workbook (FreshOrRefused:                  *)
(* ARRAY_RETURNING_FNS, parallel_unsafe).                                    *)
THEOREM CompleteListIsSafe == Unlisted = {} => (ParallelSpec => []FreshOrRefused)
<1> SUFFICES ASSUME Unlisted = {} PROVE ParallelSpec => []FreshOrRefused
  OBVIOUS
<1>1. ParallelInit => Backstopped
  BY DEF ParallelInit, Init, Backstopped
<1>2. ParInv /\ Backstopped /\ [ParallelNext]_<<vars, parVars>> => Backstopped'
  <2> SUFFICES ASSUME ParInv, Backstopped, [ParallelNext]_<<vars, parVars>> PROVE Backstopped'
    OBVIOUS
  <2>1. CASE RecalcParallel
    <3>1. engine \in Engine /\ GateOpen(engine) /\ start' = engine
      BY <2>1 DEF RecalcParallel, ParInv, Base, Sound
    <3> QED BY <3>1, CompleteList DEF Backstopped
  <2>2. CASE ~ RecalcParallel
    <3> SUFFICES ASSUME pc' = "waves" PROVE pc = "waves" /\ start' = start
      BY DEF Backstopped
    <3>1. CASE (\E c \in Cell : Evaluate(c)) \/ Apply \/ Barrier
      BY <3>1 DEF Evaluate, Apply, Barrier, InEvalWave, InWave, vars
    <3>2. CASE SerialRecalc \/ FallBack \/ FinishWaves
      BY <3>2 DEF SerialRecalc, Recalc, FallBack, FinishWaves, Drive
    <3>3. CASE Edit
      BY <3>3 DEF Edit, EditFormula, EditLiteral, EditTo, Drive
    <3>4. CASE SerialStep
      BY <3>4 DEF SerialStep, Step, ExecuteStep, Converged, NextPass, OverCap, PassEnds
    <3>5. CASE UNCHANGED <<vars, parVars>>
      BY <3>5 DEF vars, parVars
    <3> QED BY <2>2, <3>1, <3>2, <3>3, <3>4, <3>5 DEF ParallelNext
  <2> QED BY <2>1, <2>2
<1> QED BY <1>1, <1>2, ParallelInvariant, WavesAreRightOrRefused, PTL DEF ParallelSpec
=============================================================================
