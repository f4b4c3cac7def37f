------------------------------- MODULE Schedule -------------------------------
(***************************************************************************)
(* The recalculation order of xl-graph: build_full_plan (the component      *)
(* search of module Tarjan, then Kahn's algorithm over the condensation,   *)
(* schedule.rs), the filter of recalc_plan (lib.rs), and plan_waves        *)
(* (schedule.rs).                                                          *)
(*                                                                         *)
(* A cell is its rank in CellId order, so the dense index of a node, which *)
(* the code assigns in that order, compares as the cell does.  `reads`     *)
(* holds the precedents of every formula with its ranges expanded, the     *)
(* cells that are no formula included.                                     *)
(***************************************************************************)
EXTENDS RecalcOrder

CONSTANTS
  Cell,       \* a finite set of integers
  Node,       \* the cells that hold formulas
  Workbooks   \* what to plan: what is read and CalcSettings::iterate

ASSUME CellAssumption ==
  Cell \subseteq Nat /\ IsFiniteSet(Cell) /\ Node \subseteq Cell
ASSUME WorkbooksAssumption ==
  \A g \in Workbooks : g.reads \subseteq Node \X Cell /\ g.iterate \in BOOLEAN

VARIABLES
  graph,  \* what the formulas read, and the iteration setting
  index, low, onStack, component, members, sccStack, call, counter,
          \* the component search (module Tarjan)
  indeg,  \* the components a component still waits for
  ready,  \* the components that wait for none
  steps,  \* the plan: the kind and the members of each step
  dirty,  \* the dirty set recalc_plan filtered the full plan by
  wave,   \* the wave of each step of the plan, levelled so far
  phase   \* "search", "order", "planned", "level"

search == <<index, low, onStack, component, members, sccStack, call, counter>>
vars == <<graph, search, indeg, ready, steps, dirty, wave, phase>>

-----------------------------------------------------------------------------
(* The graph the plan is built from. *)

\* Edges run from precedent to dependent; an input cell needs no ordering.
Edges(g) == {<<e[2], e[1]>> : e \in {f \in g.reads : f[2] \in Node}}
SelfLoop(c) == <<c, c>> \in graph.reads

\* The search is given the successor lists without the self loops.
Search == INSTANCE Tarjan WITH edges <- {e \in Edges(graph) : e[1] # e[2]}
comps == ToSet(members)

\* An edge of the condensation, however many edges of the graph it stands for.
Precedes(C, D) == C # D /\ \E e \in graph.reads : e[2] \in C /\ e[1] \in D

Rep(C) == Min(C)

\* Fault: a component waits for itself.
WaitCount_WithSelf(D) == 1 + Cardinality({C \in comps : Precedes(C, D)})

WaitCount(D) == Cardinality({C \in comps : Precedes(C, D)})

-----------------------------------------------------------------------------
Init ==
  /\ graph \in Workbooks
  /\ Search!Init
  /\ indeg = <<>>
  /\ ready = {}
  /\ steps = <<>>
  /\ dirty = Node
  /\ wave = <<>>
  /\ phase = "search"

SearchStep ==
  /\ phase = "search"
  /\ UNCHANGED <<graph, indeg, ready, steps, dirty, wave, phase>>
  /\ Search!Next

\* The search is over: the in-degrees of the condensation, and what waits for none.
Condense ==
  /\ phase = "search"
  /\ call = <<>>
  /\ \A v \in Node : Search!Visited(v)
  /\ indeg' = [D \in comps |-> WaitCount(D)]
  /\ ready' = {C \in comps : indeg'[C] = 0}
  /\ phase' = "order"
  /\ UNCHANGED <<graph, search, steps, dirty, wave>>

IsCycle(C) == Cardinality(C) > 1 \/ SelfLoop(Rep(C))

StepFor(C) ==
  [kind |-> IF ~IsCycle(C) THEN "Eval" ELSE IF graph.iterate THEN "Iterate" ELSE "Cycle",
   members |-> C]

\* Fault: independent components come in any order.
First_Any(C) == TRUE

\* The tie-break between ready components: the least cell.
First(C) == \A D \in ready : Rep(C) <= Rep(D)

Freed(C) == {D \in comps : Precedes(C, D)}

\* Fault: a component is ready as soon as one of its precedents is emitted.
LastOne_First(D) == indeg[D] >= 1

LastOne(D) == indeg[D] = 1

\* One iteration of Kahn's loop: the ready component of the least cell.
Emit ==
  /\ phase = "order"
  /\ \E C \in ready :
       /\ First(C)
       /\ steps' = Append(steps, StepFor(C))
       /\ indeg' = [D \in comps |-> IF D \in Freed(C) THEN indeg[D] - 1 ELSE indeg[D]]
       /\ ready' = (ready \ {C}) \cup {D \in Freed(C) : LastOne(D)}
  /\ UNCHANGED <<graph, search, dirty, wave, phase>>

Planned ==
  /\ phase = "order"
  /\ ready = {}
  /\ phase' = "planned"
  /\ UNCHANGED <<graph, search, indeg, ready, steps, dirty, wave>>

\* The dirty sets DepGraph accumulates: closed under "is a dependent of".
ClosedSets == {D \in SUBSET Node : \A e \in Edges(graph) : e[1] \in D => e[2] \in D}

\* Fault: circular groups are left out of an incremental plan.
Kept_EvalOnly(s, D) == s.kind = "Eval" /\ s.members \cap D # {}

Kept(s, D) == s.members \cap D # {}

\* The steps of the plan with a dirty cell, in the order of the plan.
Filtered(plan, D) ==
  LET kept[i \in 0 .. Len(plan)] ==
        IF i = 0 THEN <<>>
        ELSE IF Kept(plan[i], D) THEN Append(kept[i - 1], plan[i]) ELSE kept[i - 1]
  IN kept[Len(plan)]

\* recalc_plan: the full plan filtered by the dirty set.
RecalcPlan(D) ==
  /\ phase = "planned"
  /\ dirty' = D
  /\ steps' = Filtered(steps, D)
  /\ phase' = "level"
  /\ UNCHANGED <<graph, search, indeg, ready, wave>>

StepOf(c) == {i \in DOMAIN steps : c \in steps[i].members}

Unlevelled == Len(wave) < Len(steps)

\* Fault: above the first wave instead of the last.
WaveAbove_Lowest(J) == IF J = {} THEN 0 ELSE Min({wave[j] + 1 : j \in J})

WaveAbove(J) == Max({0} \cup {wave[j] + 1 : j \in J})

\* plan_waves: the next step goes one wave above its scheduled precedents.
Level ==
  /\ phase = "level"
  /\ Unlevelled
  /\ LET i == Len(wave) + 1
         precedents == {e[2] : e \in {f \in graph.reads : f[1] \in steps[i].members}}
         above == (UNION {StepOf(p) : p \in precedents}) \ {i}
     IN wave' = Append(wave, WaveAbove(above))
  /\ UNCHANGED <<graph, search, indeg, ready, steps, dirty, phase>>

Next == SearchStep \/ Condense \/ Emit \/ Planned \/ (\E D \in ClosedSets : RecalcPlan(D)) \/ Level

Spec == Init /\ [][Next]_vars /\ WF_vars(SearchStep)

-----------------------------------------------------------------------------
(* Properties. *)

(* The search emits the components of the graph it is given, each once and   *)
(* every one in the end, successors first: module SccSpec.                   *)
EmitsComponents == Search!EmitsComponents

Scheduled == UNION {steps[i].members : i \in DOMAIN steps}

TypeOK ==
  /\ graph.reads \subseteq Node \X Cell
  /\ Search!TypeOK
  /\ phase \in {"search", "order", "planned", "level"}
  /\ phase # "search" => indeg \in [comps -> 0 .. Cardinality(comps)]
  /\ ready \subseteq comps
  /\ steps \in Seq([kind : {"Eval", "Cycle", "Iterate"}, members : comps])
  /\ dirty \subseteq Node
  /\ wave \in Seq(0 .. Cardinality(Node))

(* Every step comes after the steps of the formulas its members read, in the *)
(* full plan and in the plan filtered by a dirty set; and it lies in a later *)
(* wave than each of them, so the steps of one wave may be evaluated in any  *)
(* order, or together. (schedule.rs build_full_plan, recalc_plan, plan_waves)*)
PlanRespectsEdges ==
  \A i, j \in DOMAIN steps :
    Precedes(steps[i].members, steps[j].members) =>
      /\ i < j
      /\ {i, j} \subseteq DOMAIN wave => wave[i] < wave[j]

\* The cell is in every set that holds the dependents of c and of its own members.
DependsOnItself(c) ==
  \A S \in SUBSET Node :
    (\A e \in Edges(graph) : e[1] \in S \cup {c} => e[2] \in S) => c \in S

(* The full plan schedules every formula in exactly one step, and evaluates  *)
(* it on its own exactly when it does not depend on itself, directly or      *)
(* through other formulas: no circular group is left waiting on itself. An   *)
(* incremental plan schedules exactly the dirty formulas: no circular group  *)
(* is half dirty. (schedule.rs build_full_plan, recalc_plan)                 *)
PlanIsComplete ==
  phase \in {"planned", "level"} =>
    /\ Scheduled = IF phase = "planned" THEN Node ELSE dirty
    /\ \A i, j \in DOMAIN steps :
         steps[i].members \cap steps[j].members # {} => i = j
    /\ \A i \in DOMAIN steps : \A c \in steps[i].members :
         steps[i].kind = "Eval" <=> ~DependsOnItself(c)

(* The plan is the canonical one: Kahn's loop, with its in-degrees and its    *)
(* heap, yields the order that the graph and the cell order alone define.    *)
PlanIsCanonical ==
  phase = "planned" =>
    [i \in DOMAIN steps |-> steps[i].members] = CanonicalPlan(Node, graph.reads)

=============================================================================
