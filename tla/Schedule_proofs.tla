--------------------------- MODULE Schedule_proofs ----------------------------
(***************************************************************************)
(* The plan is right for every workbook: it schedules each formula once,   *)
(* after what it reads, in the full plan, in every incremental plan and in *)
(* the waves of it; and a step is an evaluation exactly when its formula   *)
(* does not depend on itself.                                              *)
(*                                                                         *)
(* The search keeps the invariant of Tarjan_proofs.  What it leaves is a   *)
(* condensation without cycles, for a component leads only to components   *)
(* emitted before it; the in-degrees of Kahn's loop count the precedents   *)
(* not scheduled yet, so the loop cannot stop before the last component.   *)
(*                                                                         *)
(* And it is the canonical plan of RecalcOrder: LeadsTo is the least       *)
(* reflexive and transitive relation over the edges, so its components are *)
(* those the search emits; and what is scheduled, followed by what the     *)
(* canonical order puts after it, is always the whole of that order.       *)
(***************************************************************************)
EXTENDS Schedule, FiniteSetTheorems, SequenceTheorems, TLAPS

\* The graph the search runs on, and what it guarantees.
Ordering == {e \in Edges(graph) : e[1] # e[2]}

Found == INSTANCE Tarjan_proofs WITH edges <- {e \in Edges(graph) : e[1] # e[2]}

Step == [kind : {"Eval", "Cycle", "Iterate"}, members : SUBSET Node]

Out == {steps[i].members : i \in DOMAIN steps}

Waiting(D) == {C \in comps \ Out : Precedes(C, D)}

\* The steps stand for different components, in an order that respects the edges.
StepsInv ==
  /\ steps \in Seq(Step)
  /\ \A i \in DOMAIN steps : steps[i].members \in comps /\ steps[i] = StepFor(steps[i].members)
  /\ \A i, j \in DOMAIN steps : steps[i].members = steps[j].members => i = j
  /\ \A i, j \in DOMAIN steps : Precedes(steps[i].members, steps[j].members) => i < j

\* Kahn's loop: the in-degree of a component counts its precedents not yet out.
OrderInv ==
  /\ \A C, D \in comps : D \in Out /\ Precedes(C, D) => C \in Out
  /\ indeg \in [comps -> Nat]
  /\ \A D \in comps : indeg[D] = Cardinality(Waiting(D))
  /\ ready = {D \in comps \ Out : indeg[D] = 0}

\* The incremental plan holds the dirty cells; a wave is below its step's place.
LevelInv ==
  /\ dirty \subseteq Node /\ Scheduled = dirty
  /\ wave \in Seq(Nat) /\ Len(wave) <= Len(steps)
  /\ \A i \in DOMAIN wave : wave[i] < i
  /\ \A i, j \in DOMAIN wave : Precedes(steps[i].members, steps[j].members) => wave[i] < wave[j]

PlanInv ==
  /\ graph \in Workbooks
  /\ phase \in {"search", "order", "planned", "level"}
  /\ Found!Inv
  /\ phase = "search" => steps = <<>>
  /\ phase # "search" => Found!Finished
  /\ phase # "level" => wave = <<>>
  /\ StepsInv
  /\ phase = "order" => OrderInv
  /\ phase = "planned" => Out = comps
  /\ phase = "level" => LevelInv

-----------------------------------------------------------------------------
(* Lemmas. *)

LEMMA SearchKeepsInv == Found!Inv /\ Search!Next => Found!Inv'
<1>1. Search!Next => Found!Next
  BY DEF Search!Next, Found!Next, Search!StartSearch, Found!StartSearch,
         Search!Advance, Found!Advance, Search!Retreat, Found!Retreat,
         Search!Top, Found!Top, Search!Discover, Found!Discover,
         Search!BackEdge, Found!BackEdge, Search!EmitComponent, Found!EmitComponent,
         Search!PoppedFrom, Found!PoppedFrom, Search!Place, Found!Place,
         Search!OffStack, Found!OffStack, Search!NextNumber, Found!NextNumber,
         Search!Relaxed, Found!Relaxed, Search!Unvisited, Found!Unvisited,
         Search!Succ, Found!Succ, Search!Last, Found!Last, Search!Front, Found!Front
<1> QED BY <1>1, Found!StepKeepsInv

LEMMA InitialSearch == Search!Init => Found!Inv
<1>1. Search!Init => Found!Init
  BY DEF Search!Init, Found!Init, Search!Unvisited, Found!Unvisited
<1> QED BY <1>1, Found!InitInv

LEMMA SearchStutters == Found!Inv /\ UNCHANGED <<graph, search>> => Found!Inv'
<1> SUFFICES ASSUME Found!Inv, UNCHANGED <<graph, search>> PROVE Found!Inv'
  OBVIOUS
<1>1. UNCHANGED Found!vars
  BY DEF search, Found!vars
<1> QED BY <1>1, Found!StutterKeepsInv

LEMMA GraphFacts ==
  ASSUME graph \in Workbooks
  PROVE  graph.reads \subseteq Node \X Cell /\ graph.iterate \in BOOLEAN
BY WorkbooksAssumption

\* What the search leaves: sets of formulas, disjoint, holding all of them, each
\* strongly connected, and ranked so that an edge leads to a higher rank.
LEMMA CondensationFacts ==
  ASSUME graph \in Workbooks, Found!Inv, Found!Finished
  PROVE  /\ IsFiniteSet(comps)
         /\ \A C \in comps : C \subseteq Node /\ C # {} /\ Found!Connected(C)
         /\ \A C, D \in comps : C # D => C \cap D = {}
         /\ UNION comps = Node
         /\ \E rank \in [comps -> Nat] : \A C, D \in comps : Precedes(C, D) => rank[C] < rank[D]
         /\ \A C \in comps : \E S \in SUBSET Node :
              /\ S \cap C = {}
              /\ \A e \in Ordering : e[1] \in S \cup C => e[2] \in S \cup C
              /\ \A e \in Ordering : e[1] \in S => e[2] \in S
<1>1. members \in Seq(SUBSET Node) /\ Found!MembersInv /\ Found!Emitted = Node
  <2>1. Found!Inv => (Found!Finished => Found!Emitted = Node)
    BY Found!FinishedIsComplete
  <2> QED BY <2>1 DEF Found!Inv, Found!TypeInv
<1>2. PICK p \in Nat : DOMAIN members = 1 .. p /\ \A i \in 1 .. p : members[i] \in SUBSET Node
  BY <1>1, Found!SeqFacts
<1>3. comps = {members[i] : i \in 1 .. p}
  BY <1>2 DEF comps, ToSet
<1>4. /\ \A i \in 1 .. p : members[i] # {} /\ Found!Connected(members[i])
      /\ \A i, j \in 1 .. p : i # j => members[i] \cap members[j] = {}
  BY <1>1, <1>2 DEF Found!MembersInv
<1>5. \A i \in 1 .. p : \A x \in members[i], w \in Node :
        <<x, w>> \in Ordering => \E j \in 1 .. i : w \in members[j]
  BY <1>1, <1>2 DEF Found!MembersInv, Ordering
<1>6. IsFiniteSet(comps)
  <2>1. IsFiniteSet(1 .. p)
    <3>1. 1 \in Int /\ p \in Int
      OBVIOUS
    <3> QED BY <3>1, FS_Interval
  <2> DEFINE f == [i \in 1 .. p |-> members[i]]
  <2>2. f \in Surjection(1 .. p, comps)
    BY <1>3 DEF Surjection
  <2> HIDE DEF f
  <2> QED BY <2>1, <2>2, FS_Surjection
<1>7. \A i, j \in 1 .. p : members[i] = members[j] => i = j
  BY <1>4
<1>8. UNION comps = Node
  <2>1. Found!Emitted = UNION {members[i] : i \in 1 .. p}
    BY <1>2 DEF Found!Emitted
  <2> QED BY <1>1, <1>3, <2>1
<1>9. \A C, D \in comps : C # D => C \cap D = {}
  BY <1>3, <1>4
<1>10. Ordering \subseteq Node \X Node
  BY GraphFacts DEF Ordering, Edges
<1>11. \E rank \in [comps -> Nat] : \A C, D \in comps : Precedes(C, D) => rank[C] < rank[D]
  <2> DEFINE at == [C \in comps |-> CHOOSE i \in 1 .. p : members[i] = C]
             rank == [C \in comps |-> p - at[C]]
  <2>1. \A C \in comps : at[C] \in 1 .. p /\ members[at[C]] = C
    BY <1>3
  <2> HIDE DEF at
  <2>2. rank \in [comps -> Nat] /\ \A C \in comps : rank[C] = p - at[C]
    BY <1>2, <2>1
  <2> HIDE DEF rank
  <2>3. ASSUME NEW C \in comps, NEW D \in comps, Precedes(C, D)
        PROVE  rank[C] < rank[D]
    <3>1. PICK e \in graph.reads : e[2] \in C /\ e[1] \in D
      BY <2>3 DEF Precedes
    <3>2. C # D /\ C \cap D = {} /\ C \subseteq Node /\ D \subseteq Node
      BY <2>3, <1>2, <1>3, <1>9 DEF Precedes
    <3>3. e[1] # e[2] /\ e[1] \in Node /\ e[2] \in Node
      BY <3>1, <3>2
    <3>4. <<e[2], e[1]>> \in Edges(graph)
      BY <3>1, <3>3 DEF Edges
    <3>5. <<e[2], e[1]>> \in Ordering
      BY <3>3, <3>4 DEF Ordering
    <3>6. PICK j \in 1 .. at[C] : e[1] \in members[j]
      BY <2>1, <1>5, <3>1, <3>3, <3>5
    <3>7. j \in 1 .. p /\ at[D] \in 1 .. p /\ at[C] \in 1 .. p
      BY <2>1, <1>2
    <3>8. j = at[D]
      BY <3>1, <3>6, <3>7, <2>1, <1>4
    <3>9. at[C] # at[D]
      BY <2>1, <3>2
    <3>10. at[D] < at[C]
      BY <3>6, <3>7, <3>8, <3>9
    <3> QED BY <1>2, <2>2, <3>7, <3>10
  <2> QED BY <2>2, <2>3
<1>12. ASSUME NEW C \in comps
       PROVE  \E S \in SUBSET Node :
                /\ S \cap C = {}
                /\ \A e \in Ordering : e[1] \in S \cup C => e[2] \in S \cup C
                /\ \A e \in Ordering : e[1] \in S => e[2] \in S
  <2>1. PICK i \in 1 .. p : C = members[i]
    BY <1>3
  <2> DEFINE S == {x \in Node : \E j \in 1 .. p : j < i /\ x \in members[j]}
  <2>2. S \cap C = {}
    BY <2>1, <1>4
  <2>3. ASSUME NEW e \in Ordering, NEW j \in 1 .. p, e[1] \in members[j]
        PROVE  \E k \in 1 .. p : k <= j /\ e[2] \in members[k]
    <3>1. e = <<e[1], e[2]>> /\ e[2] \in Node
      BY <1>10
    <3>2. PICK k \in 1 .. j : e[2] \in members[k]
      BY <1>5, <2>3, <3>1
    <3>3. k \in 1 .. p /\ k <= j
      BY <1>2
    <3> QED BY <3>2, <3>3
  <2>4. \A e \in Ordering : e[2] \in Node
    BY <1>10
  <2>5. \A e \in Ordering : e[1] \in S => e[2] \in S
    <3> SUFFICES ASSUME NEW e \in Ordering, e[1] \in S PROVE e[2] \in S
      OBVIOUS
    <3>1. PICK j \in 1 .. p : j < i /\ e[1] \in members[j]
      OBVIOUS
    <3>2. PICK k \in 1 .. p : k <= j /\ e[2] \in members[k]
      BY <2>3, <3>1
    <3>3. k < i
      BY <3>1, <3>2
    <3> QED BY <3>2, <3>3, <2>4
  <2>6. \A e \in Ordering : e[1] \in S \cup C => e[2] \in S \cup C
    <3> SUFFICES ASSUME NEW e \in Ordering, e[1] \in C PROVE e[2] \in S \cup C
      BY <2>5
    <3>1. PICK k \in 1 .. p : k <= i /\ e[2] \in members[k]
      BY <2>1, <2>3
    <3>2. k < i \/ k = i
      BY <3>1
    <3> QED BY <3>1, <3>2, <2>1, <2>4
  <2> HIDE DEF S
  <2>7. S \in SUBSET Node
    BY DEF S
  <2> QED BY <2>2, <2>5, <2>6, <2>7
<1>13. \A C \in comps : C \subseteq Node /\ C # {} /\ Found!Connected(C)
  BY <1>2, <1>3, <1>4
<1> QED BY <1>6, <1>8, <1>9, <1>11, <1>12, <1>13

\* Filtering a plan keeps the steps with a dirty cell, in their order.
LEMMA FilteredFacts ==
  ASSUME NEW plan \in Seq(Step), NEW D
  PROVE  /\ Filtered(plan, D) \in Seq(Step)
         /\ \E h \in [DOMAIN Filtered(plan, D) -> DOMAIN plan] :
              /\ \A i, j \in DOMAIN Filtered(plan, D) : i < j => h[i] < h[j]
              /\ \A i \in DOMAIN Filtered(plan, D) :
                   Filtered(plan, D)[i] = plan[h[i]] /\ Kept(plan[h[i]], D)
              /\ \A k \in DOMAIN plan :
                   Kept(plan[k], D) => \E i \in DOMAIN Filtered(plan, D) : h[i] = k
<1>1. PICK n \in Nat : /\ DOMAIN plan = 1 .. n /\ Len(plan) = n
                       /\ \A i \in 1 .. n : plan[i] \in Step
  BY Found!SeqFacts
<1> DEFINE Body(g, i) == IF i = 0 THEN <<>>
                         ELSE IF Kept(plan[i], D) THEN Append(g[i - 1], plan[i]) ELSE g[i - 1]
           IsKept(g, m) == g = [i \in 0 .. m |-> Body(g, i)]
\* The recursion defines a function.
<1>2. \A m \in Nat : \E g : IsKept(g, m)
  <2> DEFINE Bad == {m \in Nat : ~ \E g : IsKept(g, m)}
  <2> SUFFICES ASSUME Bad # {} PROVE FALSE
    OBVIOUS
  <2>1. PICK m \in Bad : \A k \in Bad : m <= k
    <3>1. Bad \subseteq Nat
      OBVIOUS
    <3> HIDE DEF Bad
    <3> QED BY <3>1, Found!LeastNatural
  <2>2. m \in Nat /\ ~ \E g : IsKept(g, m)
    BY <2>1
  <2>3. CASE m = 0
    <3> DEFINE g == [i \in 0 .. 0 |-> <<>>]
    <3>1. IsKept(g, 0)
      OBVIOUS
    <3> HIDE DEF IsKept, g
    <3> QED BY <2>2, <2>3, <3>1
  <2>4. CASE m # 0
    <3>1. m - 1 \in Nat /\ ~ (m <= m - 1)
      BY <2>2, <2>4
    <3>2. PICK g : IsKept(g, m - 1)
      <4>1. m - 1 \notin Bad
        <5> HIDE DEF Bad
        <5> QED BY <2>1, <3>1
      <4> HIDE DEF IsKept
      <4> QED BY <3>1, <4>1
    <3> DEFINE f == [i \in 0 .. m |-> Body(g, i)]
    <3>3. \A i \in 0 .. m - 1 : f[i] = g[i]
      <4>1. \A i \in 0 .. m - 1 : i \in 0 .. m
        BY <3>1
      <4>2. g = [i \in 0 .. m - 1 |-> Body(g, i)]
        BY <3>2
      <4> HIDE DEF Body
      <4> QED BY <4>1, <4>2
    <3>4. \A i \in 0 .. m : Body(f, i) = Body(g, i)
      <4> SUFFICES ASSUME NEW i \in 0 .. m PROVE Body(f, i) = Body(g, i)
        OBVIOUS
      <4>1. CASE i = 0
        BY <4>1
      <4>2. CASE i # 0
        <5>1. i - 1 \in 0 .. m - 1
          BY <4>2, <2>2
        <5>2. f[i - 1] = g[i - 1]
          BY <3>3, <5>1
        <5> HIDE DEF f
        <5> QED BY <4>2, <5>2
      <4> QED BY <4>1, <4>2
    <3>5. IsKept(f, m)
      <4>1. f = [i \in 0 .. m |-> Body(g, i)]
        OBVIOUS
      <4> HIDE DEF f, Body
      <4> QED BY <3>4, <4>1
    <3> HIDE DEF IsKept, f
    <3> QED BY <2>2, <3>5
  <2> QED BY <2>3, <2>4
<1> DEFINE kept == CHOOSE g : IsKept(g, n)
<1>3. IsKept(kept, n)
  <2> HIDE DEF IsKept
  <2> QED BY <1>2
<1>4. Filtered(plan, D) = kept[n]
  BY <1>1 DEF Filtered
<1> HIDE DEF kept
<1>5. kept[0] = <<>>
  BY <1>3
<1>6. ASSUME NEW i \in 1 .. n
      PROVE  kept[i] = IF Kept(plan[i], D) THEN Append(kept[i - 1], plan[i]) ELSE kept[i - 1]
  <2>1. i \in 0 .. n /\ i # 0
    BY <1>1
  <2> QED BY <1>3, <2>1
<1> HIDE DEF IsKept, Body
\* Each part of it is an embedding of the steps kept so far.
<1> DEFINE Embeds(q, m, h) ==
             /\ h \in [DOMAIN q -> 1 .. m]
             /\ \A i, j \in DOMAIN q : i < j => h[i] < h[j]
             /\ \A i \in DOMAIN q : q[i] = plan[h[i]] /\ Kept(plan[h[i]], D)
             /\ \A k \in 1 .. m : Kept(plan[k], D) => \E i \in DOMAIN q : h[i] = k
           Good(m) == kept[m] \in Seq(Step) /\ \E h : Embeds(kept[m], m, h)
<1>7. \A m \in 0 .. n : Good(m)
  <2> DEFINE Bad == {m \in 0 .. n : ~ Good(m)}
  <2> SUFFICES ASSUME Bad # {} PROVE FALSE
    OBVIOUS
  <2>1. PICK m \in Bad : \A k \in Bad : m <= k
    <3>1. Bad \subseteq Nat
      BY <1>1
    <3> HIDE DEF Bad
    <3> QED BY <3>1, Found!LeastNatural
  <2>2. m \in 0 .. n /\ ~ Good(m)
    BY <2>1
  <2>3. CASE m = 0
    <3>1. kept[0] \in Seq(Step) /\ DOMAIN kept[0] = {}
      BY <1>5, EmptySeq
    <3>2. Embeds(kept[0], 0, [i \in {} |-> 0])
      BY <3>1
    <3> HIDE DEF Embeds
    <3> QED BY <2>2, <2>3, <3>1, <3>2
  <2>4. CASE m # 0
    <3>1. m \in 1 .. n /\ m - 1 \in 0 .. n /\ ~ (m <= m - 1)
      BY <1>1, <2>2, <2>4
    <3>2. Good(m - 1)
      <4>1. m - 1 \notin Bad
        <5> HIDE DEF Bad
        <5> QED BY <2>1, <3>1
      <4> HIDE DEF Good
      <4> QED BY <3>1, <4>1
    <3> DEFINE q == kept[m - 1]
    <3>3. PICK h : Embeds(q, m - 1, h)
      BY <3>2
    <3>4. q \in Seq(Step)
      BY <3>2
    <3> HIDE DEF q
    <3>5. \A k \in 1 .. m : k = m \/ k \in 1 .. m - 1
      BY <3>1
    <3>6. \A k \in 1 .. m - 1 : k \in 1 .. m /\ k < m
      BY <3>1
    <3>7. CASE ~ Kept(plan[m], D)
      <4>1. kept[m] = q
        BY <1>6, <3>1, <3>7 DEF q
      <4>2. h \in [DOMAIN q -> 1 .. m]
        BY <3>3, <3>6
      <4>3. Embeds(q, m, h)
        BY <3>3, <3>5, <3>7, <4>2
      <4> HIDE DEF Embeds
      <4> QED BY <2>2, <3>4, <4>1, <4>3
    <3>8. CASE Kept(plan[m], D)
      <4>1. kept[m] = Append(q, plan[m]) /\ plan[m] \in Step
        BY <1>1, <1>6, <3>1, <3>8 DEF q
      <4>2. PICK l \in Nat : l = Len(q) /\ DOMAIN q = 1 .. l
        BY <3>4, Found!SeqFacts
      <4> DEFINE r == kept[m]
                 g == [i \in 1 .. l + 1 |-> IF i = l + 1 THEN m ELSE h[i]]
      <4>3. /\ r \in Seq(Step) /\ DOMAIN r = 1 .. l + 1
            /\ \A i \in 1 .. l : r[i] = q[i]
            /\ r[l + 1] = plan[m]
        BY <4>1, <4>2, <3>4, Found!AppendFacts
      <4>4. \A i \in 1 .. l + 1 : i = l + 1 \/ i \in 1 .. l
        BY <4>2
      <4>5. \A i \in 1 .. l : i \in 1 .. l + 1 /\ i # l + 1 /\ i < l + 1
        BY <4>2
      <4>6. /\ g \in [1 .. l + 1 -> 1 .. m] /\ g[l + 1] = m
            /\ \A i \in 1 .. l : g[i] = h[i] /\ h[i] \in 1 .. m - 1
        <5>1. \A i \in 1 .. l : h[i] \in 1 .. m - 1
          BY <3>3, <4>2
        <5>2. \A i \in 1 .. l : g[i] = h[i]
          BY <4>5
        <5>3. l + 1 \in 1 .. l + 1 /\ m \in 1 .. m
          BY <3>1, <4>2
        <5>4. g[l + 1] = m
          BY <5>3
        <5>5. \A i \in 1 .. l + 1 : g[i] \in 1 .. m
          BY <5>1, <5>2, <5>3, <5>4, <3>6, <4>4
        <5>6. g \in [1 .. l + 1 -> 1 .. m]
          <6>1. g = [i \in 1 .. l + 1 |-> g[i]]
            OBVIOUS
          <6> HIDE DEF g
          <6> QED BY <5>5, <6>1
        <5> QED BY <5>1, <5>2, <5>4, <5>6
      <4> HIDE DEF g, r
      <4>7. \A i, j \in 1 .. l + 1 : i < j => g[i] < g[j]
        <5> SUFFICES ASSUME NEW i \in 1 .. l + 1, NEW j \in 1 .. l + 1, i < j
                     PROVE  g[i] < g[j]
          OBVIOUS
        <5>1. i \in 1 .. l
          BY <4>2
        <5>2. CASE j = l + 1
          BY <5>1, <5>2, <4>6, <3>6
        <5>3. CASE j \in 1 .. l
          BY <5>1, <5>3, <4>2, <4>6, <3>3
        <5> QED BY <5>2, <5>3, <4>4
      <4>8. \A i \in 1 .. l + 1 : r[i] = plan[g[i]] /\ Kept(plan[g[i]], D)
        <5>1. \A i \in 1 .. l : q[i] = plan[h[i]] /\ Kept(plan[h[i]], D)
          BY <3>3, <4>2
        <5> QED BY <5>1, <3>8, <4>3, <4>4, <4>6
      <4>9. \A k \in 1 .. m : Kept(plan[k], D) => \E i \in 1 .. l + 1 : g[i] = k
        <5>1. \A k \in 1 .. m - 1 : Kept(plan[k], D) => \E i \in 1 .. l : h[i] = k
          BY <3>3, <4>2
        <5>2. l + 1 \in 1 .. l + 1
          BY <4>2
        <5> QED BY <5>1, <5>2, <3>5, <4>5, <4>6
      <4>10. Embeds(r, m, g)
        BY <4>3, <4>6, <4>7, <4>8, <4>9
      <4> HIDE DEF Embeds
      <4> QED BY <2>2, <4>3, <4>10 DEF r
    <3> QED BY <3>7, <3>8
  <2> QED BY <2>3, <2>4
<1>8. n \in 0 .. n
  BY <1>1
<1>9. kept[n] \in Seq(Step) /\ \E h : Embeds(kept[n], n, h)
  <2> HIDE DEF Embeds
  <2> QED BY <1>7, <1>8
<1> QED BY <1>1, <1>4, <1>9

\* A bounded set of natural numbers has a greatest element.
LEMMA MaxFacts ==
  ASSUME NEW S, S \subseteq Nat, S # {}, NEW b \in Nat, \A x \in S : x <= b
  PROVE  Max(S) \in S /\ \A x \in S : x <= Max(S)
<1> DEFINE T == {b - x : x \in S}
<1>1. T \subseteq Nat /\ T # {}
  <2>1. \A x \in S : x \in Nat /\ x <= b
    OBVIOUS
  <2>2. \A x \in S : b - x \in Nat
    BY <2>1
  <2>3. PICK x : x \in S
    OBVIOUS
  <2> QED BY <2>2, <2>3
<1>2. PICK m \in T : \A n \in T : m <= n
  <2> HIDE DEF T
  <2> QED BY <1>1, Found!LeastNatural
<1>3. PICK x \in S : m = b - x
  BY <1>2
<1>4. \A y \in S : b - x <= b - y
  BY <1>2, <1>3
<1>5. \A y \in S : x >= y
  BY <1>4
<1>6. Max(S) \in S /\ \A y \in S : Max(S) >= y
  BY <1>5 DEF Max
<1>7. \A y \in S : y \in Nat /\ Max(S) \in Nat
  BY <1>6
<1> QED BY <1>6, <1>7

\* A set closed under "is a dependent of" takes a component whole or not at all.
LEMMA ClosedTakesWhole ==
  ASSUME NEW C, Found!Connected(C), NEW D,
         \A e \in Edges(graph) : e[1] \in D => e[2] \in D, C \cap D # {}
  PROVE  C \subseteq D
<1> SUFFICES ASSUME ~ (C \subseteq D) PROVE FALSE
  OBVIOUS
<1>1. C \cap D \in (SUBSET C) \ {{}, C}
  OBVIOUS
<1>2. PICK a \in C \cap D, b \in C \ (C \cap D) : <<a, b>> \in {e \in Edges(graph) : e[1] # e[2]}
  BY <1>1 DEF Found!Connected, Found!Joined
<1> QED BY <1>2

\* A component is a cycle exactly when its members depend on themselves.
LEMMA KindFacts ==
  ASSUME PlanInv, phase # "search", NEW C \in comps, NEW c \in C
  PROVE  StepFor(C).kind = "Eval" <=> ~ DependsOnItself(c)
<1>1. /\ C \subseteq Node /\ C # {} /\ Found!Connected(C)
      /\ \E S \in SUBSET Node :
           /\ S \cap C = {}
           /\ \A e \in Ordering : e[1] \in S \cup C => e[2] \in S \cup C
           /\ \A e \in Ordering : e[1] \in S => e[2] \in S
  BY CondensationFacts DEF PlanInv
<1>2. IsFiniteSet(C) /\ Cardinality(C) \in Nat /\ Cardinality(C) # 0
  <2>1. IsFiniteSet(C)
    BY <1>1, CellAssumption, FS_Subset
  <2> QED BY <1>1, <2>1, FS_CardinalityType, FS_EmptySet
<1>3. Cardinality(C) > 1 \/ C = {c}
  BY <1>2, FS_Singleton
<1>4. ~ (Cardinality({c}) > 1) /\ Min({c}) = c
  <2>1. c \in Nat
    BY <1>1, CellAssumption
  <2>2. Min({c}) = c
    BY <2>1 DEF Min
  <2> QED BY <2>2, FS_Singleton
<1>5. StepFor(C).kind = "Eval" <=> ~ IsCycle(C)
  BY DEF StepFor
<1>6. CASE Cardinality(C) > 1
  <2>1. IsCycle(C)
    BY <1>6 DEF IsCycle
  <2>2. DependsOnItself(c)
    <3> SUFFICES ASSUME NEW S \in SUBSET Node, c \notin S,
                        \A e \in Edges(graph) : e[1] \in S \cup {c} => e[2] \in S
                 PROVE  FALSE
      BY DEF DependsOnItself
    <3>1. C \subseteq S \cup {c}
      <4> DEFINE D == S \cup {c}
      <4>1. \A e \in Edges(graph) : e[1] \in D => e[2] \in D
        OBVIOUS
      <4>2. C \cap D # {}
        OBVIOUS
      <4>3. Found!Connected(C)
        BY <1>1
      <4> HIDE DEF D
      <4>4. C \subseteq D
        BY <4>1, <4>2, <4>3, ClosedTakesWhole
      <4> QED BY <4>4 DEF D
    <3>2. C # {c}
      BY <1>4, <1>6
    <3>3. C \cap S # {}
      BY <3>1, <3>2
    <3>4. C \subseteq S
      BY <1>1, <3>3, ClosedTakesWhole
    <3> QED BY <3>4
  <2> QED BY <1>5, <2>1, <2>2
<1>7. CASE C = {c} /\ SelfLoop(c)
  <2>1. IsCycle(C)
    BY <1>4, <1>7 DEF IsCycle, Rep
  <2>2. <<c, c>> \in Edges(graph)
    <3>1. <<c, c>> \in {f \in graph.reads : f[2] \in Node}
      BY <1>1, <1>7 DEF SelfLoop
    <3> QED BY <3>1 DEF Edges
  <2>3. DependsOnItself(c)
    BY <2>2 DEF DependsOnItself
  <2> QED BY <1>5, <2>1, <2>3
<1>8. CASE C = {c} /\ ~ SelfLoop(c)
  <2>1. ~ IsCycle(C)
    BY <1>4, <1>8 DEF IsCycle, Rep
  <2>2. PICK S \in SUBSET Node :
          /\ S \cap C = {}
          /\ \A e \in Ordering : e[1] \in S \cup C => e[2] \in S \cup C
          /\ \A e \in Ordering : e[1] \in S => e[2] \in S
    BY <1>1
  <2>3. <<c, c>> \notin Edges(graph)
    <3> SUFFICES ASSUME <<c, c>> \in Edges(graph) PROVE FALSE
      OBVIOUS
    <3>1. PICK e \in graph.reads : <<c, c>> = <<e[2], e[1]>>
      BY DEF Edges
    <3>2. e = <<e[1], e[2]>>
      BY GraphFacts DEF PlanInv
    <3>3. e = <<c, c>>
      BY <3>1, <3>2
    <3> QED BY <1>8, <3>3 DEF SelfLoop
  <2>4. \A e \in Edges(graph) : e[1] = e[2] \/ e \in Ordering
    BY DEF Ordering
  <2>5. \A e \in Edges(graph) : e = <<e[1], e[2]>>
    BY DEF Edges
  <2>6. \A e \in Edges(graph) : e[1] \in S \cup {c} => e[2] \in S
    <3> SUFFICES ASSUME NEW e \in Edges(graph), e[1] \in S \cup {c} PROVE e[2] \in S
      OBVIOUS
    <3>1. CASE e[1] \in S
      BY <3>1, <2>2, <2>4
    <3>2. CASE e[1] = c
      <4>1. e[2] # c
        BY <3>2, <2>3, <2>5
      <4>2. e \in Ordering
        BY <3>2, <4>1, <2>4
      <4> QED BY <4>1, <4>2, <3>2, <1>8, <2>2
    <3> QED BY <3>1, <3>2
  <2>7. ~ DependsOnItself(c)
    BY <2>2, <2>6 DEF DependsOnItself
  <2> QED BY <1>5, <2>1, <2>7
<1> QED BY <1>3, <1>6, <1>7, <1>8

-----------------------------------------------------------------------------
(* Each action keeps the invariant. *)

LEMMA InitPlan == Init => PlanInv
<1>a. SUFFICES ASSUME Init PROVE PlanInv
  OBVIOUS
<1>1. /\ graph \in Workbooks /\ Search!Init /\ steps = <<>> /\ wave = <<>> /\ phase = "search"
  BY <1>a DEF Init
<1>2. steps \in Seq(Step) /\ DOMAIN steps = {}
  BY <1>1, EmptySeq
<1>3. StepsInv
  BY <1>2 DEF StepsInv
<1> QED BY <1>1, <1>3, InitialSearch DEF PlanInv

LEMMA SearchStepKeepsPlan == PlanInv /\ SearchStep => PlanInv'
<1>a. SUFFICES ASSUME PlanInv, SearchStep PROVE PlanInv'
  OBVIOUS
<1>1. /\ graph' = graph /\ steps' = steps /\ wave' = wave /\ phase' = "search"
      /\ phase = "search" /\ Search!Next
  BY <1>a DEF SearchStep
<1>2. Found!Inv'
  BY <1>a, <1>1, SearchKeepsInv DEF PlanInv
<1>3. steps = <<>> /\ wave = <<>>
  BY <1>a, <1>1 DEF PlanInv
<1>4. steps' \in Seq(Step) /\ DOMAIN steps' = {}
  BY <1>1, <1>3, EmptySeq
<1>5. StepsInv'
  BY <1>4 DEF StepsInv
<1> QED BY <1>a, <1>1, <1>2, <1>3, <1>5 DEF PlanInv

\* What does not change when the search is over and the graph stays.
LEMMA SearchIsOver ==
  ASSUME PlanInv, UNCHANGED <<graph, search>>
  PROVE  /\ graph' = graph /\ graph' \in Workbooks /\ members' = members /\ comps' = comps
         /\ Found!Inv' /\ (Found!Finished => Found!Finished')
         /\ \A C, D : Precedes(C, D)' <=> Precedes(C, D)
         /\ \A C : StepFor(C)' = StepFor(C)
<1>1. graph' = graph /\ members' = members /\ call' = call /\ index' = index
  BY DEF search
<1>2. comps' = comps
  BY <1>1 DEF comps, ToSet
<1>3. Found!Inv'
  BY SearchStutters DEF PlanInv
<1>4. Found!Finished => Found!Finished'
  BY <1>1 DEF Found!Finished, Found!Visited, Found!Unvisited
<1>5. \A C, D : Precedes(C, D)' <=> Precedes(C, D)
  BY <1>1 DEF Precedes
<1>6. \A C : StepFor(C)' = StepFor(C)
  BY <1>1 DEF StepFor, IsCycle, SelfLoop, Rep
<1> QED BY <1>1, <1>2, <1>3, <1>4, <1>5, <1>6 DEF PlanInv

LEMMA CondenseKeepsPlan == PlanInv /\ Condense => PlanInv'
<1>a. SUFFICES ASSUME PlanInv, Condense PROVE PlanInv'
  OBVIOUS
<1>1. /\ phase = "search" /\ phase' = "order" /\ steps' = steps /\ wave' = wave
      /\ UNCHANGED <<graph, search>>
      /\ indeg' = [D \in comps |-> WaitCount(D)]
      /\ ready' = {C \in comps : indeg'[C] = 0}
      /\ call = <<>> /\ \A v \in Node : Search!Visited(v)
  BY <1>a DEF Condense
<1>2. Found!Finished
  BY <1>1 DEF Found!Finished, Found!Visited, Search!Visited, Found!Unvisited, Search!Unvisited
<1>3. steps = <<>> /\ wave = <<>>
  BY <1>a, <1>1 DEF PlanInv
<1>4. steps' \in Seq(Step) /\ DOMAIN steps' = {} /\ Out' = {}
  BY <1>1, <1>3, EmptySeq DEF Out
<1>5. /\ graph' \in Workbooks /\ comps' = comps /\ Found!Inv' /\ Found!Finished'
      /\ \A C, D : Precedes(C, D)' <=> Precedes(C, D)
  BY <1>a, <1>1, <1>2, SearchIsOver
<1>6. \A D \in comps : Waiting(D)' = {C \in comps : Precedes(C, D)}
  BY <1>4, <1>5 DEF Waiting
<1>7. \A D \in comps : WaitCount(D) = Cardinality(Waiting(D)') /\ WaitCount(D) \in Nat
  <2>1. IsFiniteSet(comps)
    BY <1>a, <1>2, CondensationFacts DEF PlanInv
  <2>2. \A D \in comps : IsFiniteSet({C \in comps : Precedes(C, D)})
    BY <2>1, FS_Subset
  <2> QED BY <1>6, <2>2, FS_CardinalityType DEF WaitCount
<1>8. StepsInv'
  BY <1>4 DEF StepsInv
<1>9. OrderInv'
  <2>1. indeg' \in [comps -> Nat]
    BY <1>1, <1>7
  <2>2. \A D \in comps : indeg'[D] = Cardinality(Waiting(D)')
    BY <1>1, <1>7
  <2>3. \A D \in comps' : indeg'[D] = Cardinality(Waiting(D))'
    BY <1>5, <2>2
  <2> QED BY <1>1, <1>4, <1>5, <2>1, <2>3 DEF OrderInv
<1> QED BY <1>1, <1>3, <1>5, <1>8, <1>9 DEF PlanInv

LEMMA EmitKeepsPlan == PlanInv /\ Emit => PlanInv'
<1>a. SUFFICES ASSUME PlanInv, Emit PROVE PlanInv'
  OBVIOUS
<1>1. /\ phase = "order" /\ phase' = "order" /\ wave' = wave /\ UNCHANGED <<graph, search>>
      /\ Found!Finished /\ wave = <<>> /\ OrderInv /\ StepsInv
  BY <1>a DEF Emit, PlanInv
<1>2. PICK C \in ready :
        /\ steps' = Append(steps, StepFor(C))
        /\ indeg' = [D \in comps |-> IF D \in Freed(C) THEN indeg[D] - 1 ELSE indeg[D]]
        /\ ready' = (ready \ {C}) \cup {D \in Freed(C) : LastOne(D)}
  BY <1>a DEF Emit
<1>3. /\ graph' \in Workbooks /\ comps' = comps /\ Found!Inv' /\ Found!Finished'
      /\ (\A A, D : Precedes(A, D)' <=> Precedes(A, D))
      /\ (\A A : StepFor(A)' = StepFor(A))
  BY <1>a, <1>1, SearchIsOver
<1>4. IsFiniteSet(comps) /\ \A D \in comps : D \subseteq Node
  BY <1>a, <1>1, CondensationFacts DEF PlanInv
<1>5. C \in comps /\ C \notin Out /\ indeg[C] = 0
  BY <1>1, <1>2 DEF OrderInv
<1>6. \A D \in comps : /\ IsFiniteSet(Waiting(D)) /\ Cardinality(Waiting(D)) \in Nat
                       /\ Cardinality(Waiting(D)) = indeg[D]
  <2>1. \A D \in comps : Waiting(D) \in SUBSET comps
    BY DEF Waiting
  <2> QED BY <1>1, <1>4, <2>1, FS_Subset, FS_CardinalityType DEF OrderInv
<1>7. \A A \in comps : Precedes(A, C) => A \in Out
  <2>1. Waiting(C) = {}
    BY <1>5, <1>6, FS_EmptySet
  <2> QED BY <2>1 DEF Waiting
<1>8. StepFor(C) \in Step /\ StepFor(C).members = C
  BY <1>4, <1>5 DEF StepFor, Step
<1>9. PICK n \in Nat : DOMAIN steps = 1 .. n /\ Len(steps) = n /\ steps \in Seq(Step)
  BY <1>1, Found!SeqFacts DEF StepsInv
<1>10. /\ steps' \in Seq(Step) /\ DOMAIN steps' = 1 .. n + 1
       /\ \A i \in 1 .. n : steps'[i] = steps[i]
       /\ steps'[n + 1] = StepFor(C)
  BY <1>2, <1>8, <1>9, Found!AppendFacts
<1>11. \A i \in 1 .. n + 1 : i \in 1 .. n \/ i = n + 1
  BY <1>9
<1>12. \A i \in 1 .. n : i \in 1 .. n + 1 /\ i < n + 1
  BY <1>9
<1>13. n + 1 \in 1 .. n + 1
  BY <1>9
<1>14. Out' = Out \cup {C}
  <2>1. \A A : A \in Out <=> \E i \in 1 .. n : A = steps[i].members
    BY <1>9 DEF Out
  <2>2. \A A : A \in Out' <=> \E i \in 1 .. n + 1 : A = steps'[i].members
    BY <1>10 DEF Out
  <2> QED BY <1>8, <1>10, <1>11, <1>12, <1>13, <2>1, <2>2
<1>15. \A i \in 1 .. n : steps[i].members \in Out
  BY <1>9 DEF Out
<1>16. StepsInv'
  <2>1. \A i \in 1 .. n + 1 : steps'[i].members \in comps /\ steps'[i] = StepFor(steps'[i].members)
    BY <1>1, <1>5, <1>8, <1>9, <1>10, <1>11 DEF StepsInv
  <2>2. \A i, j \in 1 .. n + 1 : steps'[i].members = steps'[j].members => i = j
    BY <1>1, <1>5, <1>8, <1>9, <1>10, <1>11, <1>15 DEF StepsInv
  <2>3. \A i, j \in 1 .. n + 1 : Precedes(steps'[i].members, steps'[j].members) => i < j
    <3> SUFFICES ASSUME NEW i \in 1 .. n + 1, NEW j \in 1 .. n + 1,
                        Precedes(steps'[i].members, steps'[j].members)
                 PROVE  i < j
      OBVIOUS
    <3>1. CASE i \in 1 .. n /\ j \in 1 .. n
      BY <3>1, <1>1, <1>9, <1>10 DEF StepsInv
    <3>2. CASE i \in 1 .. n /\ j = n + 1
      BY <3>2, <1>12
    <3>3. CASE i = n + 1 /\ j \in 1 .. n
      <4>1. Precedes(C, steps[j].members) /\ steps[j].members \in comps /\ steps[j].members \in Out
        BY <3>3, <1>1, <1>8, <1>9, <1>10, <1>15 DEF StepsInv
      <4> QED BY <4>1, <1>1, <1>5 DEF OrderInv
    <3>4. CASE i = n + 1 /\ j = n + 1
      BY <3>4 DEF Precedes
    <3> QED BY <3>1, <3>2, <3>3, <3>4, <1>11
  <2>4. \A i \in DOMAIN steps' :
          steps'[i].members \in comps' /\ steps'[i] = StepFor(steps[i].members)'
    BY <2>1, <1>3, <1>10
  <2>5. \A i, j \in DOMAIN steps' : Precedes(steps[i].members, steps[j].members)' => i < j
    BY <2>3, <1>3, <1>10
  <2> QED BY <1>10, <2>2, <2>4, <2>5 DEF StepsInv
<1>17. \A D \in comps : Waiting(D)' = Waiting(D) \ {C}
  BY <1>3, <1>14 DEF Waiting
<1>18. \A D \in comps : D \in Freed(C) <=> C \in Waiting(D)
  BY <1>5 DEF Freed, Waiting
<1>19. \A D \in comps : /\ Cardinality(Waiting(D) \ {C}) \in Nat
                        /\ Cardinality(Waiting(D) \ {C}) =
                             IF D \in Freed(C) THEN indeg[D] - 1 ELSE indeg[D]
  <2> SUFFICES ASSUME NEW D \in comps
               PROVE  /\ Cardinality(Waiting(D) \ {C}) \in Nat
                      /\ Cardinality(Waiting(D) \ {C}) =
                           IF D \in Freed(C) THEN indeg[D] - 1 ELSE indeg[D]
    OBVIOUS
  <2>1. /\ IsFiniteSet(Waiting(D) \ {C})
        /\ Cardinality(Waiting(D) \ {C}) =
             IF C \in Waiting(D) THEN Cardinality(Waiting(D)) - 1 ELSE Cardinality(Waiting(D))
    BY <1>6, FS_RemoveElement
  <2> QED BY <2>1, <1>6, <1>18, FS_CardinalityType
<1>20. \A D \in comps : indeg'[D] = Cardinality(Waiting(D) \ {C}) /\ indeg'[D] \in Nat
  BY <1>2, <1>19
<1>21. \A D \in Freed(C) : D \in comps /\ D \notin Out /\ D # C /\ indeg[D] # 0
  <2> SUFFICES ASSUME NEW D \in Freed(C)
               PROVE  D \in comps /\ D \notin Out /\ D # C /\ indeg[D] # 0
    OBVIOUS
  <2>1. D \in comps /\ Precedes(C, D) /\ D # C
    BY DEF Freed, Precedes
  <2>2. D \notin Out
    BY <1>1, <1>5, <2>1 DEF OrderInv
  <2>3. Waiting(D) # {}
    BY <1>18, <2>1
  <2>4. indeg[D] # 0
    BY <1>6, <2>1, <2>3, FS_EmptySet
  <2> QED BY <2>1, <2>2, <2>4
<1>22. ready' = {D \in comps \ Out' : indeg'[D] = 0}
  <2>1. \A D \in comps : D \in ready' <=> (D \in ready /\ D # C) \/ (D \in Freed(C) /\ indeg[D] = 1)
    BY <1>2 DEF LastOne
  <2>2. ready' \subseteq comps
    BY <1>1, <1>2, <1>21 DEF OrderInv
  <2>3. ASSUME NEW D \in comps
        PROVE  D \in ready' <=> D \notin Out' /\ indeg'[D] = 0
    <3>0. D \in ready <=> D \notin Out /\ indeg[D] = 0
      BY <1>1 DEF OrderInv
    <3>1. CASE D \in Freed(C)
      <4>1. indeg'[D] = indeg[D] - 1 /\ indeg[D] \in Nat
        BY <3>1, <1>2, <1>6
      <4>2. D \notin Out' /\ D \notin ready
        BY <3>0, <3>1, <1>14, <1>21
      <4> QED BY <2>1, <3>1, <4>1, <4>2
    <3>2. CASE D \notin Freed(C)
      <4>1. indeg'[D] = indeg[D]
        BY <3>2, <1>2
      <4> QED BY <2>1, <3>0, <3>2, <4>1, <1>14
    <3> QED BY <3>1, <3>2
  <2> QED BY <2>2, <2>3
<1>23. OrderInv'
  <2>1. \A A, D \in comps' : D \in Out' /\ Precedes(A, D)' => A \in Out'
    BY <1>1, <1>3, <1>7, <1>14 DEF OrderInv
  <2>2. indeg' \in [comps -> Nat]
    <3>1. indeg' = [D \in comps |-> indeg'[D]]
      BY <1>2
    <3> QED BY <3>1, <1>20
  <2>3. \A D \in comps' : indeg'[D] = Cardinality(Waiting(D))'
    BY <1>3, <1>17, <1>20
  <2> QED BY <1>3, <1>22, <2>1, <2>2, <2>3 DEF OrderInv
<1> QED BY <1>1, <1>3, <1>16, <1>23 DEF PlanInv

\* The loop has scheduled every component when none is ready: of those left, the
\* one of the lowest rank would wait for none.
LEMMA PlannedKeepsPlan == PlanInv /\ Planned => PlanInv'
<1>a. SUFFICES ASSUME PlanInv, Planned PROVE PlanInv'
  OBVIOUS
<1>1. /\ phase = "order" /\ phase' = "planned" /\ ready = {} /\ steps' = steps /\ wave' = wave
      /\ UNCHANGED <<graph, search>>
      /\ Found!Finished /\ wave = <<>> /\ OrderInv /\ StepsInv
  BY <1>a DEF Planned, PlanInv
<1>2. /\ graph' \in Workbooks /\ comps' = comps /\ Found!Inv' /\ Found!Finished'
      /\ (\A A, D : Precedes(A, D)' <=> Precedes(A, D))
      /\ (\A A : StepFor(A)' = StepFor(A))
  BY <1>a, <1>1, SearchIsOver
<1>3. PICK rank \in [comps -> Nat] : \A C, D \in comps : Precedes(C, D) => rank[C] < rank[D]
  BY <1>a, <1>1, CondensationFacts DEF PlanInv
<1>4. Out \subseteq comps
  BY <1>1 DEF StepsInv, Out
<1>5. comps \subseteq Out
  <2> DEFINE Left == comps \ Out
             Ranks == {rank[C] : C \in Left}
  <2> SUFFICES ASSUME Left # {} PROVE FALSE
    OBVIOUS
  <2>1. Ranks # {} /\ Ranks \subseteq Nat
    OBVIOUS
  <2>2. PICK m \in Ranks : \A k \in Ranks : m <= k
    <3> HIDE DEF Ranks
    <3> QED BY <2>1, Found!LeastNatural
  <2>3. PICK C \in Left : m = rank[C]
    BY <2>2
  <2>4. \A D \in Left : rank[C] <= rank[D]
    BY <2>2, <2>3
  <2>5. Waiting(C) = {}
    <3> SUFFICES ASSUME NEW D \in Waiting(C) PROVE FALSE
      OBVIOUS
    <3>1. D \in Left /\ Precedes(D, C)
      BY DEF Waiting
    <3>2. rank[D] < rank[C] /\ rank[C] <= rank[D] /\ rank[C] \in Nat /\ rank[D] \in Nat
      BY <1>3, <2>4, <3>1
    <3> QED BY <3>2
  <2>6. C \in ready
    <3>1. indeg[C] = 0
      BY <1>1, <2>5, FS_EmptySet DEF OrderInv
    <3> QED BY <1>1, <3>1 DEF OrderInv
  <2> QED BY <1>1, <2>6
<1>6. Out' = Out
  BY <1>1 DEF Out
<1>7. StepsInv'
  BY <1>1, <1>2 DEF StepsInv
<1> QED BY <1>1, <1>2, <1>4, <1>5, <1>6, <1>7 DEF PlanInv

LEMMA RecalcKeepsPlan == PlanInv /\ (\E D \in ClosedSets : RecalcPlan(D)) => PlanInv'
<1>a. SUFFICES ASSUME PlanInv, NEW D \in ClosedSets, RecalcPlan(D) PROVE PlanInv'
  OBVIOUS
<1>1. /\ phase = "planned" /\ phase' = "level" /\ dirty' = D /\ steps' = Filtered(steps, D)
      /\ wave' = wave /\ UNCHANGED <<graph, search>>
      /\ Found!Finished /\ wave = <<>> /\ StepsInv /\ Out = comps
  BY <1>a DEF RecalcPlan, PlanInv
<1>2. /\ graph' \in Workbooks /\ comps' = comps /\ Found!Inv' /\ Found!Finished'
      /\ (\A A, B : Precedes(A, B)' <=> Precedes(A, B))
      /\ (\A A : StepFor(A)' = StepFor(A))
  BY <1>a, <1>1, SearchIsOver
<1>3. D \subseteq Node /\ \A e \in Edges(graph) : e[1] \in D => e[2] \in D
  BY DEF ClosedSets
<1>4. steps \in Seq(Step)
  BY <1>1 DEF StepsInv
<1>5. steps' \in Seq(Step)
  BY <1>1, <1>4, FilteredFacts
<1>6. PICK h \in [DOMAIN steps' -> DOMAIN steps] :
        /\ \A i, j \in DOMAIN steps' : i < j => h[i] < h[j]
        /\ \A i \in DOMAIN steps' : steps'[i] = steps[h[i]] /\ Kept(steps[h[i]], D)
        /\ \A k \in DOMAIN steps : Kept(steps[k], D) => \E i \in DOMAIN steps' : h[i] = k
  BY <1>1, <1>4, FilteredFacts
<1>7. DOMAIN steps \subseteq Nat /\ DOMAIN steps' \subseteq Nat
  BY <1>4, <1>5, Found!SeqFacts
<1>8. \A i, j \in DOMAIN steps' : (h[i] = h[j] => i = j) /\ (h[i] < h[j] => i < j)
  <2> SUFFICES ASSUME NEW i \in DOMAIN steps', NEW j \in DOMAIN steps'
               PROVE  (h[i] = h[j] => i = j) /\ (h[i] < h[j] => i < j)
    OBVIOUS
  <2>1. i \in Nat /\ j \in Nat /\ h[i] \in Nat /\ h[j] \in Nat
    BY <1>7
  <2>2. (i < j => h[i] < h[j]) /\ (j < i => h[j] < h[i])
    BY <1>6
  <2> QED BY <2>1, <2>2
<1>9. StepsInv'
  <2>1. \A i \in DOMAIN steps' :
          steps'[i].members \in comps' /\ steps'[i] = StepFor(steps[i].members)'
    BY <1>1, <1>2, <1>6 DEF StepsInv
  <2>2. \A i, j \in DOMAIN steps' : steps'[i].members = steps'[j].members => i = j
    BY <1>1, <1>6, <1>8 DEF StepsInv
  <2>3. \A i, j \in DOMAIN steps' : Precedes(steps[i].members, steps[j].members)' => i < j
    BY <1>1, <1>2, <1>6, <1>8 DEF StepsInv
  <2> QED BY <1>5, <2>1, <2>2, <2>3 DEF StepsInv
<1>10. /\ \A C \in comps : Found!Connected(C)
       /\ UNION comps = Node
  BY <1>a, <1>1, CondensationFacts DEF PlanInv
<1>11. Scheduled' = D
  <2>1. \A x : x \in Scheduled' <=> \E i \in DOMAIN steps' : x \in steps'[i].members
    BY DEF Scheduled
  <2>2. ASSUME NEW i \in DOMAIN steps' PROVE steps'[i].members \subseteq D
    <3>1. steps'[i] = steps[h[i]] /\ steps[h[i]].members \cap D # {} /\ steps[h[i]].members \in comps
      BY <1>1, <1>6 DEF Kept, StepsInv
    <3> QED BY <3>1, <1>3, <1>10, ClosedTakesWhole
  <2>3. ASSUME NEW x \in D PROVE \E i \in DOMAIN steps' : x \in steps'[i].members
    <3>1. PICK C \in comps : x \in C
      BY <1>3, <1>10
    <3>2. PICK k \in DOMAIN steps : steps[k].members = C
      BY <1>1 DEF Out
    <3>3. Kept(steps[k], D)
      BY <3>1, <3>2 DEF Kept
    <3>4. PICK i \in DOMAIN steps' : h[i] = k
      BY <1>6, <3>3
    <3>5. steps'[i] = steps[k]
      BY <1>6, <3>4
    <3> QED BY <3>1, <3>2, <3>5
  <2> QED BY <2>1, <2>2, <2>3
<1>12. LevelInv'
  <2>1. wave' \in Seq(Nat) /\ DOMAIN wave' = {} /\ Len(wave') = 0
    BY <1>1, EmptySeq
  <2>2. Len(steps') \in Nat
    BY <1>5, Found!SeqFacts
  <2>3. Len(wave') <= Len(steps')
    BY <2>1, <2>2
  <2> QED BY <1>1, <1>3, <1>11, <2>1, <2>3 DEF LevelInv
<1> QED BY <1>1, <1>2, <1>9, <1>12 DEF PlanInv

LEMMA LevelKeepsPlan == PlanInv /\ Level => PlanInv'
<1>a. SUFFICES ASSUME PlanInv, Level PROVE PlanInv'
  OBVIOUS
<1> DEFINE here == Len(wave) + 1
           precedents == {e[2] : e \in {f \in graph.reads : f[1] \in steps[here].members}}
           above == (UNION {StepOf(p) : p \in precedents}) \ {here}
<1>1. /\ phase = "level" /\ phase' = "level" /\ dirty' = dirty /\ steps' = steps
      /\ UNCHANGED <<graph, search>> /\ Len(wave) < Len(steps)
      /\ wave' = Append(wave, WaveAbove(above))
      /\ Found!Finished /\ StepsInv /\ LevelInv
  BY <1>a DEF Level, Unlevelled, PlanInv
<1>2. /\ graph' \in Workbooks /\ comps' = comps /\ Found!Inv' /\ Found!Finished'
      /\ (\A A, B : Precedes(A, B)' <=> Precedes(A, B))
      /\ (\A A : StepFor(A)' = StepFor(A))
  BY <1>a, <1>1, SearchIsOver
<1>3. PICK n \in Nat : DOMAIN steps = 1 .. n /\ Len(steps) = n
  BY <1>1, Found!SeqFacts DEF StepsInv
<1>4. PICK l \in Nat : /\ DOMAIN wave = 1 .. l /\ Len(wave) = l
                       /\ \A i \in 1 .. l : wave[i] \in Nat
  BY <1>1, Found!SeqFacts DEF LevelInv
<1>5. here = l + 1 /\ here \in 1 .. n
  BY <1>1, <1>3, <1>4
<1> HIDE DEF here
<1>6. \A j : j \in above <=> /\ j \in 1 .. n /\ j # here
                             /\ \E e \in graph.reads : e[1] \in steps[here].members
                                                       /\ e[2] \in steps[j].members
  <2>1. \A j : j \in above <=> j # here /\ \E p \in precedents : j \in StepOf(p)
    OBVIOUS
  <2>2. \A p : p \in precedents <=>
          \E e \in graph.reads : e[1] \in steps[here].members /\ e[2] = p
    OBVIOUS
  <2>3. \A j, p : j \in StepOf(p) <=> j \in 1 .. n /\ p \in steps[j].members
    BY <1>3 DEF StepOf
  <2> HIDE DEF above, precedents
  <2> QED BY <2>1, <2>2, <2>3
<1> HIDE DEF above
<1>7. \A j \in 1 .. n : j \in above <=> Precedes(steps[j].members, steps[here].members)
  BY <1>1, <1>3, <1>5, <1>6 DEF Precedes, StepsInv
<1>8. \A j \in above : j \in 1 .. l
  <2> SUFFICES ASSUME NEW j \in above PROVE j \in 1 .. l
    OBVIOUS
  <2>1. j \in 1 .. n /\ Precedes(steps[j].members, steps[here].members)
    BY <1>6, <1>7
  <2>2. j < here
    BY <1>1, <1>3, <1>5, <2>1 DEF StepsInv
  <2> QED BY <1>4, <1>5, <2>1, <2>2
<1> DEFINE waves == {0} \cup {wave[j] + 1 : j \in above}
<1>9. waves \subseteq Nat /\ waves # {} /\ \A x \in waves : x <= l
  <2>1. \A j \in above : wave[j] \in Nat /\ wave[j] < j /\ j <= l /\ j \in Nat
    BY <1>1, <1>4, <1>8 DEF LevelInv
  <2>2. \A j \in above : wave[j] + 1 \in Nat /\ wave[j] + 1 <= l
    BY <2>1, <1>4
  <2> QED BY <2>2, <1>4
<1>10. WaveAbove(above) \in Nat /\ WaveAbove(above) < l + 1
       /\ \A j \in above : wave[j] < WaveAbove(above)
  <2>0. WaveAbove(above) = Max(waves)
    BY DEF WaveAbove
  <2>1. \A j \in above : wave[j] + 1 \in waves /\ wave[j] \in Nat
    BY <1>4, <1>8
  <2> HIDE DEF waves
  <2>2. Max(waves) \in waves /\ \A x \in waves : x <= Max(waves)
    BY <1>4, <1>9, MaxFacts
  <2>3. Max(waves) \in Nat /\ Max(waves) <= l
    BY <1>9, <2>2
  <2>4. \A j \in above : wave[j] + 1 <= Max(waves) /\ wave[j] \in Nat
    BY <2>1, <2>2
  <2>5. \A j \in above : wave[j] < Max(waves)
    BY <2>3, <2>4
  <2> QED BY <1>4, <2>0, <2>3, <2>5
<1> HIDE DEF waves
<1>11. /\ wave' \in Seq(Nat) /\ DOMAIN wave' = 1 .. l + 1 /\ Len(wave') = l + 1
       /\ \A i \in 1 .. l : wave'[i] = wave[i]
       /\ wave'[l + 1] = WaveAbove(above)
  <2>1. wave \in Seq(Nat)
    BY <1>1 DEF LevelInv
  <2> QED BY <1>1, <1>4, <1>10, <2>1, Found!AppendFacts
<1>12. \A i \in 1 .. l + 1 : i \in 1 .. l \/ i = l + 1
  BY <1>4
<1>13. \A i \in 1 .. l + 1 : i \in 1 .. n
  BY <1>3, <1>5
<1>14. StepsInv'
  BY <1>1, <1>2 DEF StepsInv
<1>15. LevelInv'
  <2>1. Len(wave') <= Len(steps')
    BY <1>1, <1>3, <1>5, <1>11
  <2>2. \A i \in 1 .. l + 1 : wave'[i] < i
    BY <1>1, <1>4, <1>10, <1>11, <1>12 DEF LevelInv
  <2>3. ASSUME NEW i \in 1 .. l + 1, NEW j \in 1 .. l + 1,
               Precedes(steps[i].members, steps[j].members)
        PROVE  wave'[i] < wave'[j]
    <3>0. i < j /\ i \in 1 .. n /\ j \in 1 .. n
      BY <1>1, <1>3, <1>13, <2>3 DEF StepsInv
    <3>1. i \in 1 .. l
      BY <1>4, <3>0
    <3>2. CASE j \in 1 .. l
      BY <1>1, <1>4, <1>11, <2>3, <3>1, <3>2 DEF LevelInv
    <3>3. CASE j = l + 1
      BY <1>5, <1>7, <1>10, <1>11, <2>3, <3>0, <3>1, <3>3
    <3> QED BY <1>12, <3>2, <3>3
  <2>4. \A i, j \in DOMAIN wave' :
          Precedes(steps[i].members, steps[j].members)' => wave'[i] < wave'[j]
    BY <1>1, <1>2, <1>11, <2>3
  <2>5. Scheduled' = dirty' /\ dirty' \subseteq Node
    BY <1>1 DEF LevelInv, Scheduled
  <2>6. \A i \in DOMAIN wave' : wave'[i] < i
    BY <1>11, <2>2
  <2> QED BY <1>11, <2>1, <2>4, <2>5, <2>6 DEF LevelInv
<1> QED BY <1>1, <1>2, <1>14, <1>15 DEF PlanInv

LEMMA StutterKeepsPlan == PlanInv /\ UNCHANGED vars => PlanInv'
<1>a. SUFFICES ASSUME PlanInv, UNCHANGED vars PROVE PlanInv'
  OBVIOUS
<1>1. /\ phase' = phase /\ dirty' = dirty /\ steps' = steps /\ wave' = wave /\ indeg' = indeg
      /\ ready' = ready /\ UNCHANGED <<graph, search>>
  BY <1>a DEF vars
<1>2. /\ graph' \in Workbooks /\ comps' = comps /\ Found!Inv' /\ (Found!Finished => Found!Finished')
      /\ (\A A, B : Precedes(A, B)' <=> Precedes(A, B))
      /\ (\A A : StepFor(A)' = StepFor(A))
  BY <1>a, <1>1, SearchIsOver
<1>3. Out' = Out /\ Scheduled' = Scheduled
  BY <1>1 DEF Out, Scheduled
<1>4. \A D : Waiting(D)' = Waiting(D)
  BY <1>2, <1>3 DEF Waiting
<1>5. StepsInv'
  BY <1>a, <1>1, <1>2 DEF PlanInv, StepsInv
<1>6. OrderInv => OrderInv'
  BY <1>1, <1>2, <1>3, <1>4 DEF OrderInv
<1>7. LevelInv => LevelInv'
  BY <1>1, <1>2, <1>3 DEF LevelInv
<1> QED BY <1>a, <1>1, <1>2, <1>3, <1>5, <1>6, <1>7 DEF PlanInv

-----------------------------------------------------------------------------
(* The theorems. *)

\* The inductive invariant of planning (schedule.rs build_full_plan, plan_waves;
\* lib.rs recalc_plan), for every workbook: the search is what Tarjan_proofs says,
\* the in-degrees count what a component still waits for, and the waves stay below
\* the places of their steps.
THEOREM PlanInvHolds == Spec => []PlanInv
<1>1. PlanInv /\ [Next]_vars => PlanInv'
  BY SearchStepKeepsPlan, CondenseKeepsPlan, EmitKeepsPlan, PlannedKeepsPlan, RecalcKeepsPlan,
     LevelKeepsPlan, StutterKeepsPlan DEF Next
<1> QED BY InitPlan, <1>1, PTL DEF Spec

\* In every plan of every workbook a step comes after the steps of what its members
\* read, and in a later wave than each of them.
THEOREM PlansRespectEdges == Spec => []PlanRespectsEdges
<1>1. PlanInv => PlanRespectsEdges
  <2> SUFFICES ASSUME PlanInv PROVE PlanRespectsEdges
    OBVIOUS
  <2>1. phase = "level" \/ DOMAIN wave = {}
    BY EmptySeq DEF PlanInv
  <2> QED BY <2>1 DEF PlanInv, StepsInv, LevelInv, PlanRespectsEdges
<1> QED BY <1>1, PlanInvHolds, PTL

\* The full plan of every workbook schedules each formula exactly once, an
\* incremental plan exactly the dirty ones, and both evaluate a formula on its own
\* exactly when it does not depend on itself: Kahn's loop never stops early, and
\* no circular group is half dirty.
THEOREM PlansAreComplete == Spec => []PlanIsComplete
<1>1. PlanInv => PlanIsComplete
  <2>a. SUFFICES ASSUME PlanInv, phase \in {"planned", "level"}
                 PROVE  /\ Scheduled = IF phase = "planned" THEN Node ELSE dirty
                        /\ \A i, j \in DOMAIN steps :
                             steps[i].members \cap steps[j].members # {} => i = j
                        /\ \A i \in DOMAIN steps : \A c \in steps[i].members :
                             steps[i].kind = "Eval" <=> ~DependsOnItself(c)
    BY DEF PlanIsComplete
  <2>1. StepsInv /\ Found!Finished /\ phase # "search"
    BY <2>a DEF PlanInv
  <2>2. UNION comps = Node /\ \A C, D \in comps : C # D => C \cap D = {}
    BY <2>a, <2>1, CondensationFacts DEF PlanInv
  <2>3. Scheduled = IF phase = "planned" THEN Node ELSE dirty
    <3>1. Scheduled = UNION Out
      BY DEF Scheduled, Out
    <3> QED BY <2>a, <2>2, <3>1 DEF PlanInv, LevelInv
  <2>4. \A i, j \in DOMAIN steps : steps[i].members \cap steps[j].members # {} => i = j
    BY <2>1, <2>2 DEF StepsInv
  <2>5. ASSUME NEW i \in DOMAIN steps, NEW c \in steps[i].members
        PROVE  steps[i].kind = "Eval" <=> ~DependsOnItself(c)
    <3>1. steps[i].members \in comps /\ steps[i] = StepFor(steps[i].members)
      BY <2>1 DEF StepsInv
    <3> QED BY <2>a, <2>1, <3>1, KindFacts
  <2> QED BY <2>3, <2>4, <2>5
<1> QED BY <1>1, PlanInvHolds, PTL

-----------------------------------------------------------------------------
(* The canonical order. *)

\* Induction on the size of the elements of a set.
LEMMA SizeInduction ==
  ASSUME NEW D, NEW size \in [D -> Nat], NEW P,
         \A x \in D : (\A y \in D : size[y] < size[x] => y \in P) => x \in P
  PROVE  D \subseteq P
<1> SUFFICES ASSUME NEW z \in D, z \notin P PROVE FALSE
  OBVIOUS
<1> DEFINE T == {size[x] : x \in D \ P}
<1>1. T \subseteq Nat /\ T # {}
  OBVIOUS
<1>2. PICK m \in T : \A k \in T : m <= k
  <2> HIDE DEF T
  <2> QED BY <1>1, Found!LeastNatural
<1>3. PICK x \in D \ P : m = size[x]
  OBVIOUS
<1>4. ASSUME NEW y \in D, size[y] < size[x], y \notin P PROVE FALSE
  <2>1. size[y] \in T
    BY <1>4
  <2>2. size[x] <= size[y]
    <3> HIDE DEF T
    <3> QED BY <1>2, <1>3, <2>1
  <2>3. size[x] \in Nat /\ size[y] \in Nat
    OBVIOUS
  <2> QED BY <1>4, <2>2, <2>3
<1> QED BY <1>3, <1>4

\* g is defined by recursion down the elements of D.
Recurses(g, D, Z, base, prev, step) ==
  \A x \in D : g[x] = IF x \in Z THEN base ELSE step[<<x, g[prev[x]]>>]

\* A recursion over elements of bounded size defines a function.
LEMMA RecursionDefines ==
  ASSUME NEW D, NEW V, NEW top \in Nat, NEW size \in [D -> Nat], \A x \in D : size[x] < top,
         NEW Z, NEW prev, \A x \in D \ Z : prev[x] \in D /\ size[prev[x]] < size[x],
         NEW base \in V, NEW step \in [D \X V -> V]
  PROVE  \E g \in [D -> V] : Recurses(g, D, Z, base, prev, step)
<1> DEFINE Unroll(g) == [x \in D |-> IF x \in Z THEN base ELSE step[<<x, g[prev[x]]>>]]
           Fits(g, m) == \A x \in D : size[x] < m => g[x] = Unroll(g)[x]
           T == {m \in Nat : ~ \E g \in [D -> V] : Fits(g, m)}
<1>1. ASSUME NEW g \in [D -> V] PROVE Unroll(g) \in [D -> V]
  <2>1. \A x \in D \ Z : step[<<x, g[prev[x]]>>] \in V
    OBVIOUS
  <2> QED BY <2>1
<1>2. T = {}
  <2> SUFFICES ASSUME T # {} PROVE FALSE
    OBVIOUS
  <2>1. PICK m \in T : \A k \in T : m <= k
    <3>1. T \subseteq Nat
      OBVIOUS
    <3> HIDE DEF T
    <3> QED BY <3>1, Found!LeastNatural
  <2>2. m \in Nat /\ ~ \E g \in [D -> V] : Fits(g, m)
    BY <2>1
  <2>3. m # 0
    <3>1. [x \in D |-> base] \in [D -> V] /\ Fits([x \in D |-> base], 0)
      OBVIOUS
    <3> HIDE DEF Fits
    <3> QED BY <2>2, <3>1
  <2>4. m - 1 \in Nat /\ ~ (m <= m - 1)
    BY <2>2, <2>3
  <2>5. PICK g \in [D -> V] : Fits(g, m - 1)
    <3>1. m - 1 \notin T
      <4> HIDE DEF T
      <4> QED BY <2>1, <2>4
    <3> HIDE DEF Fits
    <3> QED BY <2>4, <3>1
  <2> DEFINE f == Unroll(g)
  <2>6. ASSUME NEW x \in D, size[x] < m PROVE f[x] = Unroll(f)[x]
    <3>1. CASE x \in Z
      BY <3>1
    <3>2. CASE x \notin Z
      <4>1. prev[x] \in D /\ size[prev[x]] < m - 1
        <5>1. prev[x] \in D /\ size[prev[x]] < size[x]
          BY <3>2
        <5>2. size[prev[x]] \in Nat /\ size[x] \in Nat
          BY <5>1
        <5> QED BY <2>2, <2>6, <5>1, <5>2
      <4>2. f[prev[x]] = g[prev[x]]
        BY <2>5, <4>1
      <4>3. f[x] = step[<<x, g[prev[x]]>>] /\ Unroll(f)[x] = step[<<x, f[prev[x]]>>]
        BY <3>2
      <4> HIDE DEF f, Unroll
      <4> QED BY <4>2, <4>3
    <3> QED BY <3>1, <3>2
  <2>7. f \in [D -> V]
    <3> HIDE DEF Unroll
    <3> QED BY <1>1
  <2>8. Fits(f, m)
    <3> HIDE DEF Unroll, f
    <3> QED BY <2>6
  <2> HIDE DEF f, Fits
  <2> QED BY <2>2, <2>7, <2>8
<1>3. PICK g \in [D -> V] : Fits(g, top)
  <2>1. top \notin T
    <3> HIDE DEF T
    <3> QED BY <1>2
  <2> HIDE DEF Fits
  <2> QED BY <2>1
<1>4. Recurses(g, D, Z, base, prev, step)
  BY <1>3 DEF Recurses
<1> QED BY <1>4

\* R holds the pairs that E leads from and to, by way of X.
Through(N, E, X, R) ==
  /\ R \subseteq N \X N /\ E \subseteq R
  /\ \A c \in N : <<c, c>> \in R
  /\ \A v \in X, c, d \in N : <<c, v>> \in R /\ <<v, d>> \in R => <<c, d>> \in R
  /\ \A S : (\A e \in E : e[1] \in S => e[2] \in S) =>
              \A c, d \in N : <<c, d>> \in R /\ c \in S => d \in S

Widened(N, u, R) == R \cup {p \in N \X N : <<p[1], u>> \in R /\ <<u, p[2]>> \in R}

LEMMA WidenedThrough ==
  ASSUME NEW N, NEW E, NEW X, X \subseteq N, NEW u \in X, NEW R, Through(N, E, X \ {u}, R)
  PROVE  Through(N, E, X, Widened(N, u, R))
<1> DEFINE W == Widened(N, u, R)
<1>1. u \in N /\ R \subseteq W /\ W \subseteq N \X N
  BY DEF Widened, Through
<1>2. \A c, d \in N : <<c, d>> \in W <=> <<c, d>> \in R \/ (<<c, u>> \in R /\ <<u, d>> \in R)
  BY DEF Widened
<1> HIDE DEF W
<1>3. ASSUME NEW v \in X, NEW c \in N, NEW d \in N, <<c, v>> \in W, <<v, d>> \in W
      PROVE  <<c, d>> \in W
  <2>1. v \in N
    OBVIOUS
  <2>2. CASE v = u
    <3>1. <<c, u>> \in R /\ <<u, d>> \in R
      BY <1>1, <1>2, <1>3, <2>2
    <3> QED BY <1>2, <3>1
  <2>3. CASE v # u
    <3>1. \A a, b \in N : <<a, v>> \in R /\ <<v, b>> \in R => <<a, b>> \in R
      BY <2>3 DEF Through
    <3> QED BY <1>1, <1>2, <1>3, <2>1, <3>1
  <2> QED BY <2>2, <2>3
<1>4. ASSUME NEW S, \A e \in E : e[1] \in S => e[2] \in S,
             NEW c \in N, NEW d \in N, <<c, d>> \in W, c \in S
      PROVE  d \in S
  <2>1. \A a, b \in N : <<a, b>> \in R /\ a \in S => b \in S
    BY <1>4 DEF Through
  <2> QED BY <1>1, <1>2, <1>4, <2>1
<1>5. E \subseteq W /\ \A c \in N : <<c, c>> \in W
  BY <1>1 DEF Through
<1>6. Through(N, E, X, W)
  BY <1>1, <1>3, <1>4, <1>5 DEF Through
<1> QED BY <1>6 DEF W

LEMMA EdgesThrough ==
  ASSUME NEW N, NEW E, E \subseteq N \X N
  PROVE  Through(N, E, {}, E \cup {<<c, c>> : c \in N})
<1> DEFINE R == E \cup {<<c, c>> : c \in N}
<1>1. R \subseteq N \X N /\ E \subseteq R /\ \A c \in N : <<c, c>> \in R
  OBVIOUS
<1>2. \A c, d \in N : <<c, d>> \in R => c = d \/ <<c, d>> \in E
  OBVIOUS
<1> HIDE DEF R
<1>3. ASSUME NEW S, \A e \in E : e[1] \in S => e[2] \in S,
             NEW c \in N, NEW d \in N, <<c, d>> \in R, c \in S
      PROVE  d \in S
  <2>1. CASE <<c, d>> \in E
    <3>1. <<c, d>>[1] = c /\ <<c, d>>[2] = d
      OBVIOUS
    <3> QED BY <1>3, <2>1, <3>1
  <2> QED BY <1>2, <1>3, <2>1
<1>4. Through(N, E, {}, R)
  BY <1>1, <1>3 DEF Through
<1> QED BY <1>4 DEF R

\* The edges between the formulas, from what is read to what reads it.
Leading(nodes, reads) == {<<e[2], e[1]>> : e \in {f \in reads : f[2] \in nodes}}

LEMMA LeadsToFacts ==
  ASSUME NEW nodes, IsFiniteSet(nodes), NEW reads, Leading(nodes, reads) \subseteq nodes \X nodes
  PROVE  Through(nodes, Leading(nodes, reads), nodes, LeadsTo(nodes, reads))
<1> DEFINE E == Leading(nodes, reads)
           D == SUBSET nodes
           V == SUBSET (nodes \X nodes)
           base == E \cup {<<c, c>> : c \in nodes}
           at(X) == CHOOSE u \in X : TRUE
           prev == [X \in D |-> X \ {at(X)}]
           step == [p \in D \X V |-> Widened(nodes, at(p[1]), p[2])]
           size == [X \in D |-> Cardinality(X)]
           Body(f, X) == IF X = {} THEN base ELSE Widened(nodes, at(X), f[X \ {at(X)}])
           through == CHOOSE f : f = [X \in D |-> Body(f, X)]
<1>1. LeadsTo(nodes, reads) = through[nodes]
  BY DEF LeadsTo, Leading, Widened
<1>2. \A X \in D : IsFiniteSet(X) /\ size[X] \in Nat /\ size[X] < Cardinality(nodes) + 1
  <2> SUFFICES ASSUME NEW X \in D
               PROVE  IsFiniteSet(X) /\ Cardinality(X) \in Nat /\ Cardinality(X) < Cardinality(nodes) + 1
    OBVIOUS
  <2>1. IsFiniteSet(X) /\ Cardinality(X) <= Cardinality(nodes)
    BY FS_Subset
  <2>2. Cardinality(X) \in Nat /\ Cardinality(nodes) \in Nat
    BY <2>1, FS_CardinalityType
  <2> QED BY <2>1, <2>2
<1>3. \A X \in D \ {{}} : at(X) \in X /\ prev[X] \in D /\ prev[X] = X \ {at(X)} /\ size[prev[X]] < size[X]
  <2> SUFFICES ASSUME NEW X \in D \ {{}}
               PROVE  at(X) \in X /\ prev[X] \in D /\ prev[X] = X \ {at(X)} /\ size[prev[X]] < size[X]
    OBVIOUS
  <2>1. at(X) \in X
    OBVIOUS
  <2> HIDE DEF at
  <2>2. prev[X] = X \ {at(X)} /\ X \ {at(X)} \in D
    OBVIOUS
  <2>3. Cardinality(X \ {at(X)}) = Cardinality(X) - 1
    BY <1>2, <2>1, FS_RemoveElement
  <2>4. Cardinality(X) \in Nat
    BY <1>2
  <2>5. size[prev[X]] = Cardinality(X \ {at(X)}) /\ size[X] = Cardinality(X)
    BY <2>2
  <2> HIDE DEF prev, size
  <2>6. size[prev[X]] < size[X]
    BY <2>3, <2>4, <2>5
  <2> QED BY <2>1, <2>2, <2>6
<1>4. base \in V /\ step \in [D \X V -> V]
  BY DEF Widened
<1>5. \A X \in D, R \in V : step[<<X, R>>] = Widened(nodes, at(X), R)
  OBVIOUS
<1>6. size \in [D -> Nat] /\ Cardinality(nodes) + 1 \in Nat
  <2>1. Cardinality(nodes) \in Nat /\ \A X \in D : Cardinality(X) \in Nat
    BY <1>2, FS_CardinalityType
  <2> QED BY <2>1
<1> HIDE DEF prev, step, size, base, at, V
<1>7. through = [X \in D |-> Body(through, X)]
  <2>1. \A X \in D \ {{}} : prev[X] \in D /\ size[prev[X]] < size[X]
    BY <1>3
  <2>2. \A X \in D : size[X] < Cardinality(nodes) + 1
    BY <1>2
  <2> HIDE DEF D, E
  <2>3. \E g \in [D -> V] : Recurses(g, D, {{}}, base, prev, step)
    BY <1>4, <1>6, <2>1, <2>2, RecursionDefines
  <2>4. PICK g \in [D -> V] : Recurses(g, D, {{}}, base, prev, step)
    BY <2>3
  <2>5. ASSUME NEW X \in D PROVE g[X] = Body(g, X)
    <3>1. CASE X = {}
      BY <2>4, <3>1 DEF Recurses
    <3>2. CASE X # {}
      <4>1. prev[X] = X \ {at(X)} /\ prev[X] \in D
        BY <1>3, <3>2
      <4>2. g[X] = step[<<X, g[prev[X]]>>] /\ g[prev[X]] \in V
        BY <2>4, <3>2, <4>1 DEF Recurses
      <4> QED BY <1>5, <3>2, <4>1, <4>2
    <3> QED BY <3>1, <3>2
  <2>6. g = [X \in D |-> Body(g, X)]
    <3> HIDE DEF Body
    <3> QED BY <2>5
  <2> HIDE DEF Body
  <2> QED BY <2>6
<1> HIDE DEF through
<1>8. \A X \in D : through[X] = Body(through, X)
  <2> HIDE DEF Body, D
  <2> QED BY <1>7
<1> DEFINE P == {X \in D : Through(nodes, E, X, through[X])}
<1>9. ASSUME NEW X \in D, \A Y \in D : size[Y] < size[X] => Y \in P
      PROVE  X \in P
  <2>1. CASE X = {}
    <3>1. through[X] = base
      BY <1>8, <2>1
    <3>2. Through(nodes, E, {}, base)
      <4>1. E \subseteq nodes \X nodes
        OBVIOUS
      <4> HIDE DEF E
      <4> QED BY <4>1, EdgesThrough DEF base
    <3> QED BY <2>1, <3>1, <3>2
  <2>2. CASE X # {}
    <3>1. at(X) \in X /\ X \ {at(X)} \in P
      BY <1>3, <1>9, <2>2
    <3>2. through[X] = Widened(nodes, at(X), through[X \ {at(X)}])
      BY <1>8, <2>2
    <3>3. Through(nodes, E, X \ {at(X)}, through[X \ {at(X)}]) /\ X \subseteq nodes
      BY <3>1
    <3> HIDE DEF E
    <3>4. Through(nodes, E, X, Widened(nodes, at(X), through[X \ {at(X)}]))
      BY <3>1, <3>3, WidenedThrough
    <3> QED BY <3>2, <3>4
  <2> QED BY <2>1, <2>2
<1>10. D \subseteq P
  <2> HIDE DEF D, P
  <2> QED BY <1>6, <1>9, SizeInduction
<1>11. nodes \in P
  BY <1>10
<1> QED BY <1>1, <1>11

LEMMA MinFacts ==
  ASSUME NEW S, S \subseteq Nat, S # {}
  PROVE  Min(S) \in S /\ \A x \in S : Min(S) <= x
<1>1. \E m \in S : \A x \in S : m <= x
  BY Found!LeastNatural
<1> QED BY <1>1 DEF Min

\* What may come next, and what does.
Free(all, reads, done) ==
  {C \in all \ done : {B \in all \ {C} : \E e \in reads : e[1] \in C /\ e[2] \in B} \subseteq done}

Least(S) == CHOOSE C \in S : \A D \in S : Min(C) <= Min(D)

LEMMA LeastFacts ==
  ASSUME NEW S, S # {}, \A C \in S : C \subseteq Nat /\ C # {}
  PROVE  Least(S) \in S /\ \A D \in S : Min(Least(S)) <= Min(D)
<1> DEFINE T == {Min(C) : C \in S}
<1>1. T \subseteq Nat /\ T # {}
  <2>1. \A C \in S : Min(C) \in C /\ C \subseteq Nat
    BY MinFacts
  <2> QED BY <2>1
<1>2. PICK m \in T : \A x \in T : m <= x
  <2> HIDE DEF T
  <2> QED BY <1>1, Found!LeastNatural
<1>3. \E C \in S : \A D \in S : Min(C) <= Min(D)
  BY <1>2
<1> QED BY <1>3 DEF Least

\* What comes after the components of a set: f is `rest` of CanonicalPlan.
IsRest(all, reads, f) ==
  \A done \in SUBSET all :
    f[done] = IF Free(all, reads, done) = {} THEN <<>>
              ELSE <<Least(Free(all, reads, done))>> \o f[done \cup {Least(Free(all, reads, done))}]

IsCanonical(all, nodes, reads, f) ==
  f \in [SUBSET all -> Seq(all)] /\ IsRest(all, reads, f) /\ f[{}] = CanonicalPlan(nodes, reads)

LEMMA RestFacts ==
  ASSUME NEW nodes, NEW reads, NEW all, all = ComponentsOf(nodes, LeadsTo(nodes, reads)),
         IsFiniteSet(all), \A C \in all : C \subseteq Nat /\ C # {}
  PROVE  \E f : IsCanonical(all, nodes, reads, f)
<1> DEFINE D == SUBSET all
           V == Seq(all)
           free(X) == Free(all, reads, X)
           at(X) == Least(free(X))
           Z == {X \in D : free(X) = {}}
           prev == [X \in D |-> X \cup {at(X)}]
           size == [X \in D |-> Cardinality(all \ X)]
           Body(f, X) == IF free(X) = {} THEN <<>> ELSE <<at(X)>> \o f[X \cup {at(X)}]
           rest == CHOOSE f : f = [X \in D |-> Body(f, X)]
<1>1. CanonicalPlan(nodes, reads) = rest[{}]
  BY DEF CanonicalPlan, Free, Least
<1>2. \A X \in D : IsFiniteSet(all \ X) /\ Cardinality(all \ X) \in Nat
                   /\ Cardinality(all \ X) < Cardinality(all) + 1
  <2> SUFFICES ASSUME NEW X \in D
               PROVE  IsFiniteSet(all \ X) /\ Cardinality(all \ X) \in Nat
                      /\ Cardinality(all \ X) < Cardinality(all) + 1
    OBVIOUS
  <2>1. all \ X \in SUBSET all
    OBVIOUS
  <2>2. IsFiniteSet(all \ X) /\ Cardinality(all \ X) <= Cardinality(all)
    BY <2>1, FS_Subset
  <2>3. Cardinality(all \ X) \in Nat /\ Cardinality(all) \in Nat
    BY <2>2, FS_CardinalityType
  <2> QED BY <2>2, <2>3
<1>3. \A X \in D : free(X) # {} => at(X) \in all \ X
  <2> SUFFICES ASSUME NEW X \in D, free(X) # {} PROVE at(X) \in all \ X
    OBVIOUS
  <2>1. free(X) \subseteq all \ X
    BY DEF Free
  <2> HIDE DEF free
  <2>2. \A C \in free(X) : C \subseteq Nat /\ C # {}
    BY <2>1
  <2> QED BY <2>1, <2>2, LeastFacts
<1>4. \A X \in D \ Z : prev[X] \in D /\ prev[X] = X \cup {at(X)} /\ size[prev[X]] < size[X]
  <2> SUFFICES ASSUME NEW X \in D, free(X) # {}
               PROVE  prev[X] \in D /\ prev[X] = X \cup {at(X)} /\ size[prev[X]] < size[X]
    OBVIOUS
  <2>1. at(X) \in all \ X
    BY <1>3
  <2> HIDE DEF at
  <2>2. prev[X] = X \cup {at(X)} /\ X \cup {at(X)} \in D
    BY <2>1
  <2>3. all \ (X \cup {at(X)}) = (all \ X) \ {at(X)}
    OBVIOUS
  <2>4. Cardinality((all \ X) \ {at(X)}) = Cardinality(all \ X) - 1
    BY <1>2, <2>1, FS_RemoveElement
  <2>5. Cardinality(all \ X) \in Nat
    BY <1>2
  <2>6. size[prev[X]] = Cardinality((all \ X) \ {at(X)}) /\ size[X] = Cardinality(all \ X)
    BY <2>2, <2>3
  <2> HIDE DEF prev, size
  <2>7. size[prev[X]] < size[X]
    BY <2>4, <2>5, <2>6
  <2> QED BY <2>2, <2>7
<1>5. size \in [D -> Nat] /\ Cardinality(all) + 1 \in Nat /\ \A X \in D : size[X] < Cardinality(all) + 1
  <2>1. Cardinality(all) + 1 \in Nat
    BY FS_CardinalityType
  <2>2. size \in [D -> Nat]
    BY <1>2
  <2>3. \A X \in D : size[X] = Cardinality(all \ X)
    OBVIOUS
  <2> HIDE DEF size
  <2>4. \A X \in D : size[X] < Cardinality(all) + 1
    BY <1>2, <2>3
  <2> QED BY <2>1, <2>2, <2>4
<1>6. \A X \in D, r \in V : free(X) # {} => <<at(X)>> \o r \in V
  <2> SUFFICES ASSUME NEW X \in D, NEW r \in Seq(all), free(X) # {} PROVE <<at(X)>> \o r \in Seq(all)
    OBVIOUS
  <2>1. <<at(X)>> \in Seq(all)
    BY <1>3
  <2> QED BY <2>1, ConcatProperties
<1>7. <<>> \in V
  BY EmptySeq
<1> DEFINE step == [p \in D \X V |-> IF p[1] \in Z THEN <<>> ELSE <<at(p[1])>> \o p[2]]
<1>8. step \in [D \X V -> V] /\ \A X \in D \ Z, r \in V : step[<<X, r>>] = <<at(X)>> \o r
  <2> HIDE DEF at, free, V
  <2>1. \A p \in D \X V : p[1] \in D /\ p[2] \in V
    OBVIOUS
  <2> QED BY <1>6, <1>7, <2>1
<1>9. \A X \in D : X \in Z <=> free(X) = {}
  OBVIOUS
<1> HIDE DEF prev, size, at, V, step, Z, free
<1>10. rest = [X \in D |-> Body(rest, X)]
  <2> HIDE DEF D
  <2>1. \E g \in [D -> V] : Recurses(g, D, Z, <<>>, prev, step)
    BY <1>4, <1>5, <1>7, <1>8, RecursionDefines
  <2>2. PICK g \in [D -> V] : Recurses(g, D, Z, <<>>, prev, step)
    BY <2>1
  <2>3. ASSUME NEW X \in D PROVE g[X] = Body(g, X)
    <3>1. CASE X \in Z
      BY <1>9, <2>2, <3>1 DEF Recurses
    <3>2. CASE X \notin Z
      <4>1. prev[X] = X \cup {at(X)} /\ prev[X] \in D
        BY <1>4, <3>2
      <4>2. g[X] = step[<<X, g[prev[X]]>>] /\ g[prev[X]] \in V
        BY <2>2, <3>2, <4>1 DEF Recurses
      <4> QED BY <1>8, <1>9, <3>2, <4>1, <4>2
    <3> QED BY <3>1, <3>2
  <2>4. g = [X \in D |-> Body(g, X)]
    <3> HIDE DEF Body
    <3> QED BY <2>3
  <2> HIDE DEF Body
  <2> QED BY <2>4
<1> HIDE DEF rest
<1>11. \A X \in D : rest[X] = Body(rest, X)
  <2> HIDE DEF Body, D
  <2> QED BY <1>10
<1> DEFINE P == {X \in D : rest[X] \in V}
<1>12. ASSUME NEW X \in D, \A Y \in D : size[Y] < size[X] => Y \in P
       PROVE  X \in P
  <2>1. CASE X \in Z
    BY <1>7, <1>9, <1>11, <2>1
  <2>2. CASE X \notin Z
    <3>1. X \cup {at(X)} \in P
      BY <1>4, <1>12, <2>2
    <3>2. rest[X] = <<at(X)>> \o rest[X \cup {at(X)}]
      BY <1>9, <1>11, <2>2
    <3> QED BY <1>6, <1>9, <2>2, <3>1, <3>2
  <2> QED BY <2>1, <2>2
<1>13. D \subseteq P
  <2> HIDE DEF D, P
  <2> QED BY <1>5, <1>12, SizeInduction
<1>14. rest \in [SUBSET all -> Seq(all)]
  <2>1. \A X \in D : rest[X] \in V
    BY <1>13
  <2> HIDE DEF Body
  <2> QED BY <1>10, <2>1 DEF V
<1>15. IsRest(all, reads, rest)
  BY <1>11 DEF IsRest, at, free
<1> QED BY <1>1, <1>14, <1>15 DEF IsCanonical

-----------------------------------------------------------------------------
(* The plan is the canonical one. *)

\* What the search emits are the components that the canonical order arranges.
LEMMA ComponentsAreCanonical ==
  ASSUME graph \in Workbooks, Found!Inv, Found!Finished
  PROVE  ComponentsOf(Node, LeadsTo(Node, graph.reads)) = comps
<1> DEFINE reads == graph.reads
           R == LeadsTo(Node, reads)
<1>1. /\ UNION comps = Node
      /\ \A C \in comps : C \subseteq Node /\ Found!Connected(C)
      /\ \A C \in comps : \E S \in SUBSET Node :
           /\ S \cap C = {}
           /\ \A e \in Ordering : e[1] \in S \cup C => e[2] \in S \cup C
           /\ \A e \in Ordering : e[1] \in S => e[2] \in S
  BY CondensationFacts
<1>2. Leading(Node, reads) = Edges(graph) /\ Edges(graph) \subseteq Node \X Node
  BY GraphFacts DEF Leading, Edges
<1>3. Through(Node, Edges(graph), Node, R)
  <2>1. IsFiniteSet(Node)
    BY CellAssumption, FS_Subset
  <2> HIDE DEF reads
  <2> QED BY <1>2, <2>1, LeadsToFacts
<1>4. Ordering \subseteq Edges(graph)
  BY DEF Ordering
<1>5. \A S : (\A e \in Ordering : e[1] \in S => e[2] \in S) =>
               \A c, d \in Node : <<c, d>> \in R /\ c \in S => d \in S
  <2> SUFFICES ASSUME NEW S, \A e \in Ordering : e[1] \in S => e[2] \in S
               PROVE  \A c, d \in Node : <<c, d>> \in R /\ c \in S => d \in S
    OBVIOUS
  <2>1. \A e \in Edges(graph) : e[1] \in S => e[2] \in S
    BY DEF Ordering
  <2> HIDE DEF R
  <2> QED BY <1>3, <2>1 DEF Through
<1> HIDE DEF R
<1>6. ASSUME NEW C \in comps, NEW c \in C
      PROVE  {d \in Node : <<c, d>> \in R /\ <<d, c>> \in R} = C
  <2>1. C \subseteq Node /\ Found!Connected(C)
    BY <1>1
  <2>2. ASSUME NEW a \in C, NEW b \in C PROVE <<a, b>> \in R
    <3> DEFINE S == {d \in Node : <<a, d>> \in R}
    <3>1. ASSUME NEW e \in Edges(graph), e[1] \in S PROVE e[2] \in S
      <4>1. e = <<e[1], e[2]>> /\ e[1] \in Node /\ e[2] \in Node
        BY <1>2
      <4>2. e \in R
        BY <1>3 DEF Through
      <4>3. <<a, e[1]>> \in R /\ <<e[1], e[2]>> \in R
        BY <3>1, <4>1, <4>2
      <4> QED BY <1>3, <2>1, <4>1, <4>3 DEF Through
    <3>2. a \in S
      BY <1>3, <2>1 DEF Through
    <3> HIDE DEF S
    <3>3. C \cap S # {} /\ \A e \in Edges(graph) : e[1] \in S => e[2] \in S
      BY <3>1, <3>2
    <3>4. C \subseteq S
      BY <2>1, <3>3, ClosedTakesWhole
    <3> QED BY <3>4 DEF S
  <2>3. ASSUME NEW d \in Node, <<c, d>> \in R, <<d, c>> \in R PROVE d \in C
    <3>1. PICK S \in SUBSET Node :
            /\ S \cap C = {}
            /\ \A e \in Ordering : e[1] \in S \cup C => e[2] \in S \cup C
            /\ \A e \in Ordering : e[1] \in S => e[2] \in S
      BY <1>1
    <3>2. d \in S \cup C
      BY <1>5, <2>1, <2>3, <3>1
    <3>3. d \notin S
      BY <1>5, <2>1, <2>3, <3>1
    <3> QED BY <3>2, <3>3
  <2> QED BY <2>1, <2>2, <2>3
<1>7. \A c \in Node : \E C \in comps : c \in C
  BY <1>1
<1>8. \A C \in comps : \E c \in Node : c \in C
  <2>1. \A C \in comps : C # {} /\ C \subseteq Node
    BY CondensationFacts
  <2> QED BY <2>1
<1> DEFINE of(c) == {d \in Node : <<c, d>> \in R /\ <<d, c>> \in R}
<1>9. \A C \in comps : \A c \in C : of(c) = C
  BY <1>6
<1> HIDE DEF of
<1>10. {of(c) : c \in Node} = comps
  BY <1>7, <1>8, <1>9
<1>11. ComponentsOf(Node, R) = comps
  BY <1>10 DEF ComponentsOf, of
<1> QED BY <1>11 DEF R

\* The members of the steps, in the order of the plan.
Groups == [i \in DOMAIN steps |-> steps[i].members]

\* What is scheduled is the beginning of the canonical plan, and what is left of
\* it comes after the components that are out.
CanonInv ==
  phase \in {"order", "planned"} =>
    \E f : /\ IsCanonical(comps, Node, graph.reads, f)
           /\ Groups \o f[Out] = f[{}]

LEMMA GroupsFacts ==
  ASSUME PlanInv
  PROVE  Groups \in Seq(comps)
<1>1. steps \in Seq(Step) /\ \A i \in DOMAIN steps : steps[i].members \in comps
  BY DEF PlanInv, StepsInv
<1>2. DOMAIN steps = 1 .. Len(steps) /\ Len(steps) \in Nat
  BY <1>1, LenProperties
<1>3. Groups \in [1 .. Len(steps) -> comps]
  BY <1>1, <1>2 DEF Groups
<1> QED BY <1>2, <1>3, SeqDef

LEMMA CanonicalExists ==
  ASSUME graph \in Workbooks, Found!Inv, Found!Finished
  PROVE  \E f : IsCanonical(comps, Node, graph.reads, f)
<1> DEFINE all == comps
           reads == graph.reads
<1>1. all = ComponentsOf(Node, LeadsTo(Node, reads))
  BY ComponentsAreCanonical
<1>2. IsFiniteSet(all) /\ \A C \in all : C \subseteq Nat /\ C # {}
  BY CondensationFacts, CellAssumption
<1> HIDE DEF all, reads
<1>3. \E f : IsCanonical(all, Node, reads, f)
  BY <1>1, <1>2, RestFacts
<1> QED BY <1>3 DEF all, reads

LEMMA CondenseCanonical == PlanInv /\ Condense => CanonInv'
<1> SUFFICES ASSUME PlanInv, Condense PROVE CanonInv'
  OBVIOUS
<1>1. /\ phase = "search" /\ steps' = steps /\ steps = <<>> /\ graph \in Workbooks
      /\ graph' = graph /\ members' = members /\ Found!Inv /\ Found!Finished
  <2>1. Found!Finished
    BY DEF Condense, Found!Finished, Found!Visited, Search!Visited, Found!Unvisited, Search!Unvisited
  <2> QED BY <2>1 DEF Condense, PlanInv, search
<1>2. Groups' = <<>> /\ Out' = {}
  <2>1. DOMAIN steps' = {}
    BY <1>1, EmptySeq
  <2> QED BY <2>1, EmptySeq DEF Groups, Out
<1>3. comps' = comps
  BY <1>1 DEF comps, ToSet
<1>4. PICK f : IsCanonical(comps, Node, graph.reads, f)
  BY <1>1, CanonicalExists
<1>5. f[{}] \in Seq(comps)
  BY <1>4 DEF IsCanonical
<1>6. <<>> \o f[{}] = f[{}]
  BY <1>5, ConcatEmptySeq
<1>7. IsCanonical(comps, Node, graph.reads, f)'
  BY <1>1, <1>3, <1>4
<1> QED BY <1>2, <1>6, <1>7 DEF CanonInv

\* What is ready is what may come next in the canonical order.
LEMMA ReadyIsFree ==
  ASSUME PlanInv, phase = "order"
  PROVE  ready = Free(comps, graph.reads, Out)
<1>1. /\ ready = {D \in comps \ Out : indeg[D] = 0}
      /\ \A D \in comps : indeg[D] = Cardinality(Waiting(D))
      /\ IsFiniteSet(comps)
  BY CondensationFacts DEF PlanInv, OrderInv
<1>2. ASSUME NEW D \in comps \ Out
      PROVE  indeg[D] = 0 <=> {B \in comps \ {D} : \E e \in graph.reads : e[1] \in D /\ e[2] \in B} \subseteq Out
  <2>1. IsFiniteSet(Waiting(D))
    BY <1>1, FS_Subset DEF Waiting
  <2>2. indeg[D] = 0 <=> Waiting(D) = {}
    BY <1>1, <2>1, FS_EmptySet
  <2> QED BY <2>2 DEF Waiting, Precedes
<1> QED BY <1>1, <1>2 DEF Free

LEMMA EmitCanonical == PlanInv /\ CanonInv /\ Emit => CanonInv'
<1> SUFFICES ASSUME PlanInv, CanonInv, Emit PROVE CanonInv'
  OBVIOUS
<1>1. /\ phase = "order" /\ graph' = graph /\ members' = members
      /\ ready \subseteq comps
      /\ \A C \in comps : C \subseteq Nat /\ C # {}
      /\ \A C, D \in comps : C # D => C \cap D = {}
  <2>1. \A C \in comps : C \subseteq Nat /\ C # {}
    BY CondensationFacts, CellAssumption DEF Emit, PlanInv
  <2> QED BY <2>1, CondensationFacts DEF Emit, PlanInv, OrderInv, search
<1>2. comps' = comps
  BY <1>1 DEF comps, ToSet
<1>3. PICK C \in ready : First(C) /\ steps' = Append(steps, StepFor(C))
  BY DEF Emit
<1>4. ready = Free(comps, graph.reads, Out) /\ ready # {}
  BY <1>1, <1>3, ReadyIsFree
<1>5. C = Least(ready)
  <2>1. Least(ready) \in ready /\ \A D \in ready : Min(Least(ready)) <= Min(D)
    BY <1>1, <1>4, LeastFacts
  <2>2. Min(C) <= Min(Least(ready)) /\ Min(Least(ready)) <= Min(C)
    BY <1>3, <2>1 DEF First, Rep
  <2>3. Min(C) \in C /\ Min(Least(ready)) \in Least(ready) /\ C \subseteq Nat /\ Least(ready) \subseteq Nat
    BY <1>1, <1>3, <2>1, MinFacts
  <2>4. Min(C) = Min(Least(ready))
    <3>1. Min(C) \in Nat /\ Min(Least(ready)) \in Nat
      BY <2>3
    <3> QED BY <2>2, <3>1
  <2> QED BY <1>1, <1>3, <2>1, <2>3, <2>4
<1>6. steps \in Seq(Step) /\ StepFor(C).members = C /\ StepFor(C) \in Step
  <2>1. C \subseteq Node
    BY <1>1, <1>3, CondensationFacts DEF PlanInv
  <2> QED BY <2>1 DEF StepFor, Step, PlanInv, StepsInv
<1>7. Groups' = Append(Groups, C) /\ Out' = Out \cup {C}
  <2>1. PICK n \in Nat : DOMAIN steps = 1 .. n /\ Len(steps) = n
    BY <1>6, Found!SeqFacts
  <2>2. /\ DOMAIN steps' = 1 .. n + 1
        /\ \A i \in 1 .. n : steps'[i] = steps[i]
        /\ steps'[n + 1] = StepFor(C)
    BY <1>3, <1>6, <2>1, Found!AppendFacts
  <2>3. Groups \in Seq(comps) /\ DOMAIN Groups = 1 .. n
    BY <2>1, GroupsFacts DEF Groups
  <2>4. Len(Groups) = n
    BY <2>1, <2>3, Found!SeqFacts
  <2>5. /\ DOMAIN Append(Groups, C) = 1 .. n + 1
        /\ \A i \in 1 .. n : Append(Groups, C)[i] = Groups[i]
        /\ Append(Groups, C)[n + 1] = C
    BY <1>1, <1>3, <2>3, <2>4, Found!AppendFacts
  <2>6. \A i \in 1 .. n + 1 : i \in 1 .. n \/ i = n + 1
    BY <2>1
  <2>7. \A i \in 1 .. n : i \in 1 .. n + 1
    BY <2>1
  <2>8. \A i \in 1 .. n + 1 : Groups'[i] = Append(Groups, C)[i]
    BY <1>6, <2>1, <2>2, <2>5, <2>6 DEF Groups
  <2>9. Groups' = Append(Groups, C)
    <3>1. DOMAIN Groups' = 1 .. n + 1
      BY <2>2 DEF Groups
    <3>2. Groups' = [i \in 1 .. n + 1 |-> Groups'[i]]
      BY <3>1 DEF Groups
    <3>3. Append(Groups, C) = [i \in 1 .. n + 1 |-> Append(Groups, C)[i]]
      <4>1. Append(Groups, C) \in Seq(comps)
        BY <1>1, <1>3, <2>3, Found!AppendFacts
      <4>2. DOMAIN Append(Groups, C) = 1 .. n + 1
        BY <2>5
      <4> DEFINE s == Append(Groups, C)
      <4> HIDE DEF s
      <4>3. s = [i \in 1 .. n + 1 |-> s[i]]
        <5>1. s \in Seq(comps) /\ DOMAIN s = 1 .. n + 1
          BY <4>1, <4>2 DEF s
        <5>2. \E k \in Nat : s \in [1 .. k -> comps]
          BY <5>1, SeqDef
        <5> QED BY <5>1, <5>2
      <4> QED BY <4>3 DEF s
    <3> QED BY <2>8, <3>2, <3>3
  <2>10. Out' = Out \cup {C}
    <3>1. \A A : A \in Out <=> \E i \in 1 .. n : A = steps[i].members
      BY <2>1 DEF Out
    <3>2. \A A : A \in Out' <=> \E i \in 1 .. n + 1 : A = steps'[i].members
      BY <2>2 DEF Out
    <3>3. n + 1 \in 1 .. n + 1
      BY <2>1
    <3> QED BY <1>6, <2>2, <2>6, <2>7, <3>1, <3>2, <3>3
  <2> QED BY <2>9, <2>10
<1>8. PICK f : IsCanonical(comps, Node, graph.reads, f) /\ Groups \o f[Out] = f[{}]
  BY <1>1 DEF CanonInv
<1>9. Out \in SUBSET comps /\ Out \cup {C} \in SUBSET comps /\ C \in comps
  BY <1>1, <1>3 DEF Out, PlanInv, StepsInv
<1>10. f[Out] = <<C>> \o f[Out \cup {C}] /\ f[Out \cup {C}] \in Seq(comps)
  BY <1>4, <1>5, <1>8, <1>9 DEF IsCanonical, IsRest
<1>11. Append(Groups, C) \o f[Out \cup {C}] = f[{}]
  <2>1. Groups \in Seq(comps) /\ <<C>> \in Seq(comps)
    BY <1>9, GroupsFacts
  <2> DEFINE g == Groups
             r == f[Out \cup {C}]
             S == comps
  <2>2. g \in Seq(S) /\ <<C>> \in Seq(S) /\ r \in Seq(S) /\ C \in S
    BY <1>9, <1>10, <2>1
  <2> HIDE DEF g, r, S
  <2>3. Append(g, C) = g \o <<C>>
    BY <2>2, AppendIsConcat
  <2>4. (g \o <<C>>) \o r = g \o (<<C>> \o r)
    BY <2>2, ConcatAssociative
  <2> QED BY <1>8, <1>10, <2>3, <2>4 DEF g, r
<1>12. IsCanonical(comps, Node, graph.reads, f)'
  BY <1>1, <1>2, <1>8
<1>13. Groups' \o f[Out'] = f[{}]
  BY <1>7, <1>11
<1> QED BY <1>12, <1>13 DEF CanonInv

\* When nothing is left, nothing comes after.
LEMMA CanonicalWhenPlanned == PlanInv /\ CanonInv => PlanIsCanonical
<1> SUFFICES ASSUME PlanInv, CanonInv, phase = "planned"
             PROVE  Groups = CanonicalPlan(Node, graph.reads)
  BY DEF PlanIsCanonical, Groups
<1>1. PICK f : IsCanonical(comps, Node, graph.reads, f) /\ Groups \o f[Out] = f[{}]
  BY DEF CanonInv
<1>2. Out = comps
  BY DEF PlanInv
<1>3. f[Out] = <<>>
  <2>1. Free(comps, graph.reads, Out) = {} /\ Out \in SUBSET comps
    BY <1>2 DEF Free
  <2> QED BY <1>1, <2>1 DEF IsCanonical, IsRest
<1>4. Groups \o <<>> = Groups
  BY GroupsFacts, ConcatEmptySeq
<1> QED BY <1>1, <1>3, <1>4 DEF IsCanonical

LEMMA CanonStep == PlanInv /\ CanonInv /\ [Next]_vars => CanonInv'
<1> SUFFICES ASSUME PlanInv, CanonInv, [Next]_vars PROVE CanonInv'
  OBVIOUS
<1>1. CASE SearchStep
  BY <1>1 DEF SearchStep, CanonInv
<1>2. CASE Condense
  BY <1>2, CondenseCanonical
<1>3. CASE Emit
  BY <1>3, EmitCanonical
<1>4. CASE Planned \/ UNCHANGED vars
  <2>1. UNCHANGED <<graph, members, steps>> /\ (phase' = phase \/ phase = "order")
    BY <1>4 DEF Planned, vars, search
  <2>2. comps' = comps /\ Groups' = Groups /\ Out' = Out
    BY <2>1 DEF comps, ToSet, Groups, Out
  <2> QED BY <2>1, <2>2 DEF CanonInv
<1>5. CASE \E D \in ClosedSets : RecalcPlan(D)
  BY <1>5 DEF RecalcPlan, CanonInv
<1>6. CASE Level
  BY <1>6 DEF Level, CanonInv
<1> QED BY <1>1, <1>2, <1>3, <1>4, <1>5, <1>6 DEF Next

(* The plan of every workbook is the canonical one: whatever order the       *)
(* search found the components in, Kahn's loop with its in-degrees and its   *)
(* heap yields the order that the graph and the cell order alone define      *)
(* (PlanIsCanonical: build_full_plan).                                       *)
THEOREM PlansAreCanonical == Spec => []PlanIsCanonical
<1>1. Init => CanonInv
  BY DEF Init, CanonInv
<1>2. PlanInv /\ CanonInv /\ [Next]_vars => CanonInv'
  BY CanonStep
<1> QED BY <1>1, <1>2, PlanInvHolds, CanonicalWhenPlanned, PTL DEF Spec
=============================================================================
