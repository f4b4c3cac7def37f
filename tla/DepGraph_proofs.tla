---------------------------- MODULE DepGraph_proofs ---------------------------
(***************************************************************************)
(* Proofs about DepGraph, about the range index it keeps (IndexedGraph)    *)
(* and about RecalcDriver, which drives it, for every workbook, every menu *)
(* of formulas, every cap and whatever the formulas evaluate to.           *)
(*                                                                         *)
(* DepGraph: the two reverse indexes mirror the forward edges              *)
(* (EdgesMirror), so what propagate looks up is exactly the set of readers *)
(* (NeighboursAreReaders).  Then every cell that is dirty or was marked    *)
(* waits on the worklist or has its readers dirty (ClosureInv), which is   *)
(* inductive; when the worklist is empty it says that the dirty set is     *)
(* closed, and a closed set that holds the readers of the marked cells     *)
(* holds everything downstream of them.                                    *)
(*                                                                         *)
(* The index: entry_order is a strict total order, and such an order       *)
(* numbers a finite set (OrderNumbers), so Arranged and Picked list what   *)
(* they say they do.  Then the array holds exactly the edges of its sheet, *)
(* in order whenever the flag says so (IndexInv), and in an array in order *)
(* every cut partition_point may find is the right one (ScanAnswers).      *)
(*                                                                         *)
(* RecalcDriver: every step of the driver is a step of the graph or leaves *)
(* its edges and its marks alone, so the invariant of DepGraph carries     *)
(* over (GraphStep).  The phase of the call then says what is marked and   *)
(* rewired (PhaseInv), that pending cells come with an anchor to refuse    *)
(* (PendingInv), and where each formula that is out of date is accounted   *)
(* for: marked, downstream of what propagate has yet to look at or of what *)
(* spilling changed, or planned (StaleInv).                                *)
(***************************************************************************)
EXTENDS RecalcDriver, IndexedGraph, FiniteSetTheorems, SequenceTheorems, TLAPS

-----------------------------------------------------------------------------
(* The dependency graph. *)

(* What propagate looks up for a cell are cells.                             *)
LEMMA NeighboursType ==
  ASSUME TypeOK, NEW x \in Cell
  PROVE  Neighbours(x) \subseteq Cell
<1>1. dependents[x] \subseteq Cell
  BY DEF TypeOK
<1>2. ranges[CellSheet[x]] \subseteq SheetRange \X Cell
  BY SheetAssumption DEF TypeOK
<1>3. Query(x) \subseteq Cell
  BY <1>2 DEF Query
<1> QED
  BY <1>1, <1>3 DEF Neighbours

(* Every step keeps every variable in its type.                              *)
LEMMA TypeStep == TypeOK /\ [Next]_vars => TypeOK'
<1> SUFFICES ASSUME TypeOK, [Next]_vars PROVE TypeOK'
  OBVIOUS
<1>1. ASSUME NEW c \in Cell, NEW P \in Formulas[c], SetDeps(c, P) PROVE TypeOK'
  <2>1. P \in Precedents
    BY FormulasAssumption
  <2>2. ranges' \in [Sheet -> SUBSET (SheetRange \X Cell)]
    BY <1>1, <2>1 DEF SetDeps, DetachedRanges, TypeOK, Precedents
  <2>3. dependents' \in [Cell -> SUBSET Cell]
    BY <1>1, <2>1 DEF SetDeps, DetachedDependents, TypeOK, Precedents
  <2> QED
    BY <1>1, <2>1, <2>2, <2>3 DEF SetDeps, TypeOK, flagVars
<1>2. ASSUME NEW c \in Cell, RemoveNode(c) PROVE TypeOK'
  <2>1. NoPrecedents \in Precedents
    BY DEF NoPrecedents, Precedents
  <2> QED
    BY <1>2, <2>1 DEF RemoveNode, DetachedRanges, DetachedDependents, TypeOK
<1>3. ASSUME NEW c \in Cell, NEW flag \in BOOLEAN, RegisterVolatile(c, flag)
      PROVE TypeOK'
  BY <1>3 DEF RegisterVolatile, TypeOK, edgeVars
<1>4. ASSUME NEW c \in Cell, NEW flag \in BOOLEAN, SetDynamicDeps(c, flag)
      PROVE TypeOK'
  BY <1>4 DEF SetDynamicDeps, TypeOK, edgeVars
<1>5. ASSUME NEW S \in SUBSET Cell, MarkDirty(S) PROVE TypeOK'
  BY <1>5 DEF MarkDirty, Pushed, TypeOK, edgeVars, flagVars
<1>6. ASSUME NEW x \in Cell, PropagateStep(x) PROVE TypeOK'
  BY <1>6, NeighboursType DEF PropagateStep, Fresh, TypeOK, edgeVars, flagVars
<1>7. ASSUME MarkAllDirty PROVE TypeOK'
  BY <1>7 DEF MarkAllDirty, TypeOK, edgeVars, flagVars
<1>8. ASSUME ClearDirty PROVE TypeOK'
  BY <1>8 DEF ClearDirty, Emptied, TypeOK, edgeVars, flagVars
<1>9. ASSUME TakeRecalcPlan PROVE TypeOK'
  BY <1>9 DEF TakeRecalcPlan, Emptied, Scheduled, TypeOK, edgeVars, flagVars
<1>10. ASSUME UNCHANGED vars PROVE TypeOK'
  BY <1>10 DEF vars, edgeVars, flagVars, TypeOK
<1>11. ASSUME MarkVolatileDirty PROVE TypeOK'
  BY <1>5, <1>11 DEF MarkVolatileDirty, TypeOK
<1> QED
  BY <1>1, <1>2, <1>3, <1>4, <1>5, <1>6, <1>7, <1>8, <1>9, <1>10, <1>11,
     FlaggableAssumption
  DEF Next

(* Every variable stays in its type in every behaviour.                      *)
THEOREM TypeCorrect == Spec => []TypeOK
<1>1. Init => TypeOK
  BY DEF Init, TypeOK, Precedents, NoPrecedents
<1> QED
  BY <1>1, TypeStep, PTL DEF Spec

-----------------------------------------------------------------------------
(* The reverse indexes. *)

(* Rewiring or removing a formula first clears its entries from the index:   *)
(* afterwards the index holds exactly the entries of the other formulas.     *)
LEMMA DetachRanges ==
  ASSUME TypeOK, EdgesMirror, NEW c \in Cell, NEW s \in Sheet
  PROVE  DetachedRanges(c)[s] = {e \in ranges[s] : e[2] # c}
<1>1. DetachedRanges(c)[s] = IF \E r \in prec[c].ranges : RangeSheet[r] = s
                             THEN {e \in ranges[s] : e[2] # c} ELSE ranges[s]
  BY DEF DetachedRanges
<1>2. ASSUME NEW e \in ranges[s], e[2] = c
      PROVE  \E r \in prec[c].ranges : RangeSheet[r] = s
  BY <1>2 DEF EdgesMirror
<1> QED
  BY <1>1, <1>2

(* The same for the reverse edges of single-cell precedents.                 *)
LEMMA DetachDependents ==
  ASSUME TypeOK, EdgesMirror, NEW c \in Cell, NEW p \in Cell
  PROVE  DetachedDependents(c)[p] = dependents[p] \ {c}
  BY DEF DetachedDependents, EdgesMirror

(* set_deps leaves both reverse indexes in step with the forward edges.      *)
LEMMA SetDepsMirror ==
  ASSUME TypeOK, EdgesMirror, NEW c \in Cell, NEW P \in Formulas[c], SetDeps(c, P)
  PROVE  EdgesMirror'
<1>1. P \in Precedents
  BY FormulasAssumption
<1>2. nodes' = nodes \cup {c} /\ prec' = [prec EXCEPT ![c] = P]
  BY DEF SetDeps
<1>3. prec'[c] = P /\ \A d \in Cell \ {c} : prec'[d] = prec[d]
  BY <1>2 DEF TypeOK
<1>4. ASSUME NEW p \in Cell
      PROVE  dependents'[p] = {d \in nodes' : p \in prec'[d].cells}
  <2>1. dependents'[p] = (dependents[p] \ {c}) \cup
                         (IF p \in P.cells THEN {c} ELSE {})
    BY DetachDependents DEF SetDeps
  <2>2. dependents[p] = {d \in nodes : p \in prec[d].cells}
    BY DEF EdgesMirror
  <2> QED
    BY <1>2, <1>3, <2>1, <2>2 DEF TypeOK
<1>5. ASSUME NEW s \in Sheet
      PROVE  ranges'[s] = {e \in SheetRange \X Cell : /\ e[2] \in nodes'
                                                      /\ e[1] \in prec'[e[2]].ranges
                                                      /\ RangeSheet[e[1]] = s}
  <2>1. ranges'[s] = {e \in ranges[s] : e[2] # c} \cup
                     {<<r, c>> : r \in {q \in P.ranges : RangeSheet[q] = s}}
    BY DetachRanges DEF SetDeps
  <2>2. ranges[s] = {e \in SheetRange \X Cell : /\ e[2] \in nodes
                                                /\ e[1] \in prec[e[2]].ranges
                                                /\ RangeSheet[e[1]] = s}
    BY DEF EdgesMirror
  <2>3. P.ranges \subseteq SheetRange
    BY <1>1 DEF Precedents
  <2>4. ASSUME NEW e \in ranges'[s]
        PROVE  e \in SheetRange \X Cell /\ e[2] \in nodes'
               /\ e[1] \in prec'[e[2]].ranges /\ RangeSheet[e[1]] = s
    BY <1>2, <1>3, <2>1, <2>2, <2>3
  <2>5. ASSUME NEW e \in SheetRange \X Cell, e[2] \in nodes',
               e[1] \in prec'[e[2]].ranges, RangeSheet[e[1]] = s
        PROVE  e \in ranges'[s]
    <3>1. CASE e[2] = c
      <4>1. e = <<e[1], c>>
        BY <3>1
      <4> QED
        BY <1>3, <2>1, <2>5, <3>1, <4>1
    <3>2. CASE e[2] # c
      BY <1>2, <1>3, <2>1, <2>2, <2>5, <3>2
    <3> QED
      BY <3>1, <3>2
  <2> QED
    BY <2>4, <2>5
<1>6. \A d \in Cell \ nodes' : prec'[d] = NoPrecedents
  BY <1>2, <1>3 DEF EdgesMirror
<1> QED
  BY <1>4, <1>5, <1>6 DEF EdgesMirror

(* remove_node drops every edge out of the cell and no other.                *)
LEMMA RemoveNodeMirror ==
  ASSUME TypeOK, EdgesMirror, NEW c \in Cell, RemoveNode(c)
  PROVE  EdgesMirror'
<1>1. nodes' = nodes \ {c} /\ prec' = [prec EXCEPT ![c] = NoPrecedents]
  BY DEF RemoveNode
<1>2. prec'[c] = NoPrecedents /\ \A d \in Cell \ {c} : prec'[d] = prec[d]
  BY <1>1 DEF TypeOK
<1>3. ASSUME NEW p \in Cell
      PROVE  dependents'[p] = {d \in nodes' : p \in prec'[d].cells}
  BY <1>1, <1>2, DetachDependents DEF RemoveNode, EdgesMirror, TypeOK
<1>4. ASSUME NEW s \in Sheet
      PROVE  ranges'[s] = {e \in SheetRange \X Cell : /\ e[2] \in nodes'
                                                      /\ e[1] \in prec'[e[2]].ranges
                                                      /\ RangeSheet[e[1]] = s}
  <2>1. ranges'[s] = {e \in ranges[s] : e[2] # c}
    BY DetachRanges DEF RemoveNode
  <2>2. ranges[s] = {e \in SheetRange \X Cell : /\ e[2] \in nodes
                                                /\ e[1] \in prec[e[2]].ranges
                                                /\ RangeSheet[e[1]] = s}
    BY DEF EdgesMirror
  <2> QED
    BY <1>1, <1>2, <2>1, <2>2
<1>5. \A d \in Cell \ nodes' : prec'[d] = NoPrecedents
  BY <1>1, <1>2 DEF EdgesMirror
<1> QED
  BY <1>3, <1>4, <1>5 DEF EdgesMirror

(* Only set_deps and remove_node touch edges, and both keep the mirror.      *)
LEMMA MirrorStep == TypeOK /\ EdgesMirror /\ [Next]_vars => EdgesMirror'
<1> SUFFICES ASSUME TypeOK, EdgesMirror, [Next]_vars PROVE EdgesMirror'
  OBVIOUS
<1>1. ASSUME UNCHANGED edgeVars PROVE EdgesMirror'
  BY <1>1 DEF edgeVars, EdgesMirror
<1>2. \/ \E c \in Cell : \E P \in Formulas[c] : SetDeps(c, P)
      \/ \E c \in Cell : RemoveNode(c)
      \/ UNCHANGED edgeVars
  BY DEF Next, vars, RegisterVolatile, SetDynamicDeps, MarkDirty,
         MarkVolatileDirty, PropagateStep, MarkAllDirty, ClearDirty,
         TakeRecalcPlan
<1> QED
  BY <1>1, <1>2, SetDepsMirror, RemoveNodeMirror

(* The reverse edges and the range index mirror the forward edges after any  *)
(* sequence of set_deps and remove_node, on any number of sheets.            *)
THEOREM IndexesMirrorEdges == Spec => []EdgesMirror
<1>1. Init => EdgesMirror
  BY DEF Init, EdgesMirror, NoPrecedents
<1> QED
  BY <1>1, MirrorStep, TypeCorrect, PTL DEF Spec

-----------------------------------------------------------------------------
(* Dirtiness. *)

(* What propagate looks up for a cell, through the reverse edges and the     *)
(* index of the cell's own sheet, is exactly the set of its readers.         *)
LEMMA NeighboursAreReaders ==
  ASSUME TypeOK, EdgesMirror, NEW x \in Cell
  PROVE  Neighbours(x) = Readers(x)
<1> DEFINE s == CellSheet[x]
<1>1. s \in Sheet
  BY SheetAssumption
<1>2. dependents[x] = {c \in nodes : x \in prec[c].cells}
  BY DEF EdgesMirror
<1>3. ranges[s] = {e \in SheetRange \X Cell : /\ e[2] \in nodes
                                              /\ e[1] \in prec[e[2]].ranges
                                              /\ RangeSheet[e[1]] = s}
  BY <1>1 DEF EdgesMirror
<1>4. Query(x) = {c \in nodes : \E r \in prec[c].ranges : x \in Covers[r]}
  <2>1. ASSUME NEW c \in Query(x)
        PROVE  c \in nodes /\ \E r \in prec[c].ranges : x \in Covers[r]
    BY <1>3, <2>1 DEF Query
  <2>2. ASSUME NEW c \in nodes, NEW r \in prec[c].ranges, x \in Covers[r]
        PROVE  c \in Query(x)
    <3>1. c \in Cell /\ r \in SheetRange
      BY DEF TypeOK, Precedents
    <3>2. RangeSheet[r] = s
      BY <2>2, <3>1, CoversAssumption
    <3>3. <<r, c>> \in ranges[s]
      BY <1>3, <3>1, <3>2
    <3> QED
      BY <2>2, <3>3 DEF Query
  <2> QED
    BY <2>1, <2>2
<1> QED
  BY <1>2, <1>4 DEF Neighbours, Readers, Reads, TypeOK

(* Steps that leave the edges alone leave every cell its readers.            *)
LEMMA ReadersStable ==
  ASSUME UNCHANGED edgeVars
  PROVE  \A x : Readers(x)' = Readers(x)
BY DEF Readers, Reads, edgeVars

(* set_deps changes the readers of a cell by the rewired cell only.          *)
LEMMA ReadersRewired ==
  ASSUME TypeOK, NEW c \in Cell, NEW P \in Formulas[c], SetDeps(c, P), NEW x \in Cell
  PROVE  Readers(x)' \subseteq Readers(x) \cup {c}
<1>1. nodes' = nodes \cup {c} /\ \A d \in Cell \ {c} : prec'[d] = prec[d]
  BY DEF SetDeps, TypeOK
<1> QED
  BY <1>1 DEF Readers, Reads

(* remove_node takes the removed cell from the readers of every cell.        *)
LEMMA ReadersRemoved ==
  ASSUME TypeOK, NEW c \in Cell, RemoveNode(c), NEW x \in Cell
  PROVE  Readers(x)' \subseteq Readers(x) \ {c}
<1>1. nodes' = nodes \ {c} /\ \A d \in Cell \ {c} : prec'[d] = prec[d]
  BY DEF RemoveNode, TypeOK
<1> QED
  BY <1>1 DEF Readers, Reads

(* One step of any operation keeps the dirty set a set of formulas.          *)
LEMMA DirtyNodesStep ==
  TypeOK /\ EdgesMirror /\ DirtyAreNodes /\ [Next]_vars => DirtyAreNodes'
<1> SUFFICES ASSUME TypeOK, EdgesMirror, DirtyAreNodes, [Next]_vars
             PROVE  DirtyAreNodes'
  OBVIOUS
<1>1. ASSUME NEW x \in Cell, PropagateStep(x) PROVE DirtyAreNodes'
  <2>1. Neighbours(x) \subseteq nodes
    BY NeighboursAreReaders DEF Readers, Reads
  <2> QED
    BY <1>1, <2>1 DEF PropagateStep, Fresh, DirtyAreNodes, edgeVars
<1>2. ASSUME NEW S, MarkDirty(S) PROVE DirtyAreNodes'
  BY <1>2 DEF MarkDirty, DirtyAreNodes, edgeVars
<1>3. ASSUME ~ \E x \in Cell : PropagateStep(x), ~ \E S : MarkDirty(S)
      PROVE  DirtyAreNodes'
  BY <1>3 DEF Next, vars, DirtyAreNodes, SetDeps, RemoveNode, RegisterVolatile,
              SetDynamicDeps, MarkVolatileDirty, MarkAllDirty, ClearDirty,
              Emptied, TakeRecalcPlan, edgeVars
<1> QED
  BY <1>1, <1>2, <1>3

(* One step of any operation keeps the closure invariant.                    *)
LEMMA ClosureStep == Inv /\ [Next]_vars => ClosureInv'
<1> SUFFICES ASSUME Inv, [Next]_vars PROVE ClosureInv'
  OBVIOUS
<1> USE DEF Inv
<1>1. ASSUME NEW c \in Cell, NEW P \in Formulas[c], SetDeps(c, P)
      PROVE  ClosureInv'
  <2>1. UNCHANGED <<dirty, edited, stack>> /\ nodes' = nodes \cup {c}
    BY <1>1 DEF SetDeps
  <2>2. CASE dirty = {} /\ edited = {}
    BY <2>1, <2>2 DEF ClosureInv
  <2>3. CASE ~(dirty = {} /\ edited = {})
    <3>1. rewired' = rewired \cup {c}
      BY <1>1, <2>3 DEF SetDeps
    <3> QED
      BY <1>1, <2>1, <3>1, ReadersRewired DEF ClosureInv, Settled, TypeOK
  <2> QED
    BY <2>2, <2>3
<1>2. ASSUME NEW c \in Cell, RemoveNode(c) PROVE ClosureInv'
  <2>1. /\ dirty' = dirty \ {c} /\ rewired' = rewired \ {c}
        /\ nodes' = nodes \ {c} /\ UNCHANGED <<stack, edited>>
    BY <1>2 DEF RemoveNode
  <2> QED
    BY <1>2, <2>1, ReadersRemoved DEF ClosureInv, Settled, TypeOK
<1>3. ASSUME NEW S \in SUBSET Cell, MarkDirty(S) PROVE ClosureInv'
  <2>1. UNCHANGED edgeVars
    BY <1>3 DEF MarkDirty
  <2>2. /\ stack = {} /\ dirty' = dirty \cup (S \cap nodes)
        /\ stack' = S /\ edited' = edited \cup S /\ rewired' = rewired \ S
    BY <1>3 DEF MarkDirty, Pushed, Idle
  <2>3. \A x \in Cell : Readers(x) \subseteq nodes
    BY DEF Readers, Reads
  <2> QED
    BY <2>1, <2>2, <2>3, ReadersStable DEF ClosureInv, Settled, TypeOK, edgeVars
<1>4. ASSUME NEW x \in Cell, PropagateStep(x) PROVE ClosureInv'
  <2>1. UNCHANGED <<edgeVars, edited, rewired>>
    BY <1>4 DEF PropagateStep
  <2>2. dirty' = dirty \cup Readers(x)
    BY <1>4, NeighboursAreReaders DEF PropagateStep, Fresh
  <2>3. stack' = (stack \ {x}) \cup (Readers(x) \ dirty)
    BY <1>4, NeighboursAreReaders DEF PropagateStep, Fresh
  <2>4. \A y \in Cell : Settled(y) => Settled(y)'
    BY <2>1, <2>2, <2>3, ReadersStable DEF Settled
  <2>5. \A y \in dirty' \ dirty : Settled(y)'
    BY <2>2, <2>3 DEF Settled
  <2> QED
    BY <2>1, <2>2, <2>4, <2>5 DEF ClosureInv, TypeOK, edgeVars
<1>5. ASSUME MarkAllDirty PROVE ClosureInv'
  <2>1. UNCHANGED <<edgeVars, stack, edited>> /\ dirty' = nodes
    BY <1>5 DEF MarkAllDirty
  <2>2. \A x : Readers(x) \subseteq nodes
    BY DEF Readers, Reads
  <2> QED
    BY <2>1, <2>2, ReadersStable DEF ClosureInv, Settled, edgeVars
<1>6. ASSUME Emptied PROVE ClosureInv'
  BY <1>6 DEF Emptied, ClosureInv
<1>7. ASSUME UNCHANGED <<edgeVars, dirty, stack, edited, rewired>> PROVE ClosureInv'
  BY <1>7, ReadersStable DEF ClosureInv, Settled, edgeVars
<1>8. MarkVolatileDirty => \E S \in SUBSET Cell : MarkDirty(S)
  BY DEF MarkVolatileDirty, TypeOK
<1>9. \/ \E c \in Cell : \E P \in Formulas[c] : SetDeps(c, P)
      \/ \E c \in Cell : RemoveNode(c)
      \/ \E S \in SUBSET Cell : MarkDirty(S)
      \/ \E x \in Cell : PropagateStep(x)
      \/ MarkAllDirty
      \/ Emptied
      \/ UNCHANGED <<edgeVars, dirty, stack, edited, rewired>>
  BY <1>8 DEF Next, vars, RegisterVolatile, SetDynamicDeps, ClearDirty,
              TakeRecalcPlan
<1> QED
  BY <1>1, <1>2, <1>3, <1>4, <1>5, <1>6, <1>7, <1>9

(* The inductive invariant of the graph.                                     *)
THEOREM InvHolds == Spec => []Inv
<1>1. Init => DirtyAreNodes /\ ClosureInv
  BY DEF Init, DirtyAreNodes, ClosureInv
<1>2. Inv /\ [Next]_vars => DirtyAreNodes' /\ ClosureInv'
  BY DirtyNodesStep, ClosureStep DEF Inv
<1> QED
  BY <1>1, <1>2, TypeCorrect, IndexesMirrorEdges, PTL DEF Spec, Inv

(* Only formulas are ever dirty.                                             *)
THEOREM OnlyFormulasAreDirty == Spec => []DirtyAreNodes
<1>1. Inv => DirtyAreNodes
  BY DEF Inv
<1> QED
  BY <1>1, InvHolds, PTL

(* Between calls the dirty set is closed under "is a dependent of", but for  *)
(* formulas that were rewired and not marked after it.                       *)
THEOREM DirtySetIsClosed == Spec => []DirtyClosed
<1>1. Inv => DirtyClosed
  BY DEF Inv, ClosureInv, Settled, DirtyClosed, Idle
<1> QED
  BY <1>1, InvHolds, PTL

(* No lost update: every formula downstream of a cell marked since the last  *)
(* plan is dirty, whatever was rewired, removed or marked in between, when   *)
(* each rewired formula was marked after it.                                 *)
THEOREM NoLostUpdate == Spec => []EditsReachReaders
<1>1. ASSUME Inv PROVE EditsReachReaders
  <2> SUFFICES ASSUME stack = {}, rewired = {}
               PROVE  edited \cap nodes \subseteq dirty
                      /\ Downstream(edited) \subseteq dirty
    BY DEF EditsReachReaders, Idle
  <2>1. \A x \in edited \cup dirty : Readers(x) \subseteq dirty
    BY <1>1 DEF Inv, ClosureInv, Settled
  <2>2. dirty \in SUBSET Cell /\ ClosedFrom(edited, dirty)
    BY <1>1, <2>1 DEF Inv, TypeOK, ClosedFrom
  <2>3. Downstream(edited) \subseteq dirty
    BY <2>2 DEF Downstream
  <2> QED
    BY <1>1, <2>3 DEF Inv, ClosureInv
<1> QED
  BY <1>1, InvHolds, PTL

-----------------------------------------------------------------------------
(* The range index. *)

LEMMA SameCardinality == \A S : Index!Cardinality(S) = Cardinality(S)
BY DEF Index!Cardinality, Cardinality

\* What L puts below x in S.
Under(S, L, x) == {y \in S : <<y, x>> \in L}

\* L numbers the elements of S from 0.
Numbers(S, L) ==
  /\ Cardinality(S) \in Nat
  /\ \A x \in S : Cardinality(Under(S, L, x)) \in 0 .. Cardinality(S) - 1
  /\ \A x, y \in S :
       /\ Cardinality(Under(S, L, x)) = Cardinality(Under(S, L, y)) => x = y
       /\ Cardinality(Under(S, L, x)) < Cardinality(Under(S, L, y)) => <<x, y>> \in L
  /\ \A n \in 1 .. Cardinality(S) : \E x \in S : Cardinality(Under(S, L, x)) = n - 1

LEMMA OrderNumbers ==
  ASSUME NEW S, IsFiniteSet(S), NEW L,
         \A x \in S : <<x, x>> \notin L,
         \A x, y, z \in S : <<x, y>> \in L /\ <<y, z>> \in L => <<x, z>> \in L,
         \A x, y \in S : x = y \/ <<x, y>> \in L \/ <<y, x>> \in L
  PROVE  Numbers(S, L)
<1> DEFINE U(x) == Under(S, L, x)
           N == Cardinality(S)
           rank == [x \in S |-> Cardinality(U(x))]
<1>1. N \in Nat
  BY FS_CardinalityType
<1>2. ASSUME NEW x \in S
      PROVE  U(x) \in SUBSET S /\ x \notin U(x) /\ IsFiniteSet(U(x)) /\ Cardinality(U(x)) \in 0 .. N - 1
  <2>1. U(x) \in SUBSET S /\ x \notin U(x)
    BY DEF Under
  <2>2. U(x) # S
    BY <2>1
  <2> HIDE DEF U
  <2>3. IsFiniteSet(U(x)) /\ Cardinality(U(x)) <= N /\ Cardinality(U(x)) # N
    BY <2>1, <2>2, FS_Subset
  <2>4. Cardinality(U(x)) \in Nat
    BY <2>3, FS_CardinalityType
  <2> QED BY <1>1, <2>1, <2>3, <2>4
<1>3. ASSUME NEW x \in S, NEW y \in S, <<x, y>> \in L
      PROVE  Cardinality(U(x)) < Cardinality(U(y))
  <2>1. U(x) \in SUBSET U(y) /\ x \in U(y) /\ x \notin U(x)
    BY <1>2, <1>3 DEF Under
  <2>2. IsFiniteSet(U(y)) /\ U(x) # U(y)
    BY <1>2, <2>1
  <2>3. Cardinality(U(x)) \in Nat /\ Cardinality(U(y)) \in Nat
    BY <1>1, <1>2
  <2> HIDE DEF U
  <2>4. Cardinality(U(x)) <= Cardinality(U(y)) /\ Cardinality(U(y)) # Cardinality(U(x))
    BY <2>1, <2>2, FS_Subset
  <2> QED BY <2>3, <2>4
<1> HIDE DEF U
<1>4. \A x \in S : rank[x] = Cardinality(U(x)) /\ rank[x] \in 0 .. N - 1
  BY <1>2
<1>5. \A x, y \in S : rank[x] = rank[y] => x = y
  <2> SUFFICES ASSUME NEW x \in S, NEW y \in S, rank[x] = rank[y], x # y PROVE FALSE
    OBVIOUS
  <2>1. rank[x] < rank[y] \/ rank[y] < rank[x]
    BY <1>3, <1>4
  <2> QED BY <1>1, <1>4, <2>1
<1>6. \A x, y \in S : rank[x] < rank[y] => <<x, y>> \in L
  <2> SUFFICES ASSUME NEW x \in S, NEW y \in S, rank[x] < rank[y], <<x, y>> \notin L PROVE FALSE
    OBVIOUS
  <2>1. x = y \/ rank[y] < rank[x]
    BY <1>3, <1>4
  <2> QED BY <1>1, <1>4, <2>1
<1>7. rank \in [S -> 0 .. N - 1]
  BY <1>4
<1> HIDE DEF rank
<1>8. IsFiniteSet(0 .. N - 1) /\ Cardinality(0 .. N - 1) = N
  <2>1. 0 \in Int /\ N - 1 \in Int
    BY <1>1
  <2>2. IsFiniteSet(0 .. N - 1) /\ Cardinality(0 .. N - 1) = IF 0 > N - 1 THEN 0 ELSE N - 1 - 0 + 1
    BY <2>1, FS_Interval
  <2> HIDE DEF N
  <2>3. IF 0 > N - 1 THEN N = 0 ELSE N - 1 - 0 + 1 = N
    BY <1>1
  <2> QED BY <2>2, <2>3
<1>9. \A n \in 0 .. N - 1 : \E x \in S : rank[x] = n
  <2>1. rank \in Injection(S, 0 .. N - 1)
    BY <1>5, <1>7 DEF Injection, IsInjective
  <2>2. rank \in Surjection(S, 0 .. N - 1)
    BY <1>8, <2>1, FS_Injection
  <2> QED BY <2>2 DEF Surjection
<1>10. \A n \in 1 .. N : \E x \in S : rank[x] = n - 1
  BY <1>1, <1>9
<1> HIDE DEF N
<1> QED BY <1>1, <1>4, <1>5, <1>6, <1>10 DEF Numbers, N, U

\* The entries of the index, and the keys by which it sorts them.
Entry == [top : Int, bottom : Int, left : Int, right : Int] \X Int

LEMMA KeyFacts ==
  ASSUME NEW e \in Entry
  PROVE  /\ \A i \in 1 .. 5 : Index!Key(e)[i] \in Int
         /\ Index!Key(e)[1] = e[1].top /\ Index!Key(e)[2] = e[1].bottom
         /\ Index!Key(e)[3] = e[1].left /\ Index!Key(e)[4] = e[1].right
         /\ Index!Key(e)[5] = e[2]
<1>1. /\ Index!Key(e)[1] = e[1].top /\ Index!Key(e)[2] = e[1].bottom
      /\ Index!Key(e)[3] = e[1].left /\ Index!Key(e)[4] = e[1].right
      /\ Index!Key(e)[5] = e[2]
  BY DEF Index!Key
<1>2. /\ e[1].top \in Int /\ e[1].bottom \in Int /\ e[1].left \in Int /\ e[1].right \in Int
      /\ e[2] \in Int
  BY DEF Entry
<1>3. \A i \in 1 .. 5 : i = 1 \/ i = 2 \/ i = 3 \/ i = 4 \/ i = 5
  OBVIOUS
<1> QED BY <1>1, <1>2, <1>3

\* Entries with one key are one entry.
LEMMA KeyIsEntry ==
  ASSUME NEW e \in Entry, NEW f \in Entry,
         \A i \in 1 .. 5 : Index!Key(e)[i] = Index!Key(f)[i]
  PROVE  e = f
<1>1. 1 \in 1 .. 5 /\ 2 \in 1 .. 5 /\ 3 \in 1 .. 5 /\ 4 \in 1 .. 5 /\ 5 \in 1 .. 5
  OBVIOUS
<1>2. /\ e[1].top = f[1].top /\ e[1].bottom = f[1].bottom
      /\ e[1].left = f[1].left /\ e[1].right = f[1].right /\ e[2] = f[2]
  BY <1>1, KeyFacts
<1>3. /\ e[1] \in [top : Int, bottom : Int, left : Int, right : Int]
      /\ f[1] \in [top : Int, bottom : Int, left : Int, right : Int]
      /\ e = <<e[1], e[2]>> /\ f = <<f[1], f[2]>>
  BY DEF Entry
<1>4. e[1] = f[1]
  BY <1>2, <1>3
<1> QED BY <1>2, <1>3, <1>4

LEMMA BeforeFacts ==
  ASSUME NEW e \in Entry, NEW f \in Entry
  PROVE  /\ ~ Index!Before(e, e)
         /\ e = f \/ Index!Before(e, f) \/ Index!Before(f, e)
         /\ Index!Before(e, f) => e[1].top <= f[1].top
<1> DEFINE k == Index!Key(e)
           l == Index!Key(f)
<1>1. /\ \A i \in 1 .. 5 : k[i] \in Int /\ l[i] \in Int
      /\ k[1] = e[1].top /\ l[1] = f[1].top
  BY KeyFacts
<1>2. (\A i \in 1 .. 5 : k[i] = l[i]) => e = f
  BY KeyIsEntry
<1>3. /\ Index!Before(e, f) <=> \E i \in 1 .. 5 : k[i] < l[i] /\ \A j \in 1 .. i - 1 : k[j] = l[j]
      /\ Index!Before(f, e) <=> \E i \in 1 .. 5 : l[i] < k[i] /\ \A j \in 1 .. i - 1 : l[j] = k[j]
      /\ Index!Before(e, e) <=> \E i \in 1 .. 5 : k[i] < k[i] /\ \A j \in 1 .. i - 1 : k[j] = k[j]
  BY DEF Index!Before
<1> HIDE DEF k, l
<1>4. ~ Index!Before(e, e)
  BY <1>1, <1>3
<1>5. ASSUME ~ Index!Before(e, f), ~ Index!Before(f, e) PROVE \A i \in 1 .. 5 : k[i] = l[i]
  <2>1. ASSUME NEW i \in 1 .. 5, \A j \in 1 .. i - 1 : k[j] = l[j] PROVE k[i] = l[i]
    BY <1>1, <1>3, <1>5, <2>1
  <2>2. /\ \A j \in 1 .. 0 : FALSE
        /\ \A j \in 1 .. 1 : j = 1
        /\ \A j \in 1 .. 2 : j = 1 \/ j = 2
        /\ \A j \in 1 .. 3 : j = 1 \/ j = 2 \/ j = 3
        /\ \A j \in 1 .. 4 : j = 1 \/ j = 2 \/ j = 3 \/ j = 4
        /\ \A j \in 1 .. 5 : j = 1 \/ j = 2 \/ j = 3 \/ j = 4 \/ j = 5
    OBVIOUS
  <2>3. 1 \in 1 .. 5 /\ 1 - 1 = 0 /\ 2 \in 1 .. 5 /\ 2 - 1 = 1 /\ 3 \in 1 .. 5 /\ 3 - 1 = 2
        /\ 4 \in 1 .. 5 /\ 4 - 1 = 3 /\ 5 \in 1 .. 5 /\ 5 - 1 = 4
    OBVIOUS
  <2>4. k[1] = l[1]
    BY <2>1, <2>2, <2>3
  <2>5. k[2] = l[2]
    BY <2>1, <2>2, <2>3, <2>4
  <2>6. k[3] = l[3]
    BY <2>1, <2>2, <2>3, <2>4, <2>5
  <2>7. k[4] = l[4]
    BY <2>1, <2>2, <2>3, <2>4, <2>5, <2>6
  <2>8. k[5] = l[5]
    BY <2>1, <2>2, <2>3, <2>4, <2>5, <2>6, <2>7
  <2> QED BY <2>2, <2>4, <2>5, <2>6, <2>7, <2>8
<1>6. ASSUME Index!Before(e, f) PROVE k[1] <= l[1]
  <2>1. PICK i \in 1 .. 5 : k[i] < l[i] /\ \A j \in 1 .. i - 1 : k[j] = l[j]
    BY <1>3, <1>6
  <2>2. 1 \in 1 .. 5 /\ (i = 1 \/ 1 \in 1 .. i - 1)
    OBVIOUS
  <2>3. CASE i = 1
    BY <1>1, <2>1, <2>2, <2>3
  <2>4. CASE 1 \in 1 .. i - 1
    BY <1>1, <2>1, <2>2, <2>4
  <2> QED BY <2>2, <2>3, <2>4
<1> QED BY <1>1, <1>2, <1>4, <1>5, <1>6

LEMMA BeforeChains ==
  ASSUME NEW e \in Entry, NEW f \in Entry, NEW g \in Entry, Index!Before(e, f), Index!Before(f, g)
  PROVE  Index!Before(e, g)
<1> DEFINE k == Index!Key(e)
           l == Index!Key(f)
           m == Index!Key(g)
<1>1. \A i \in 1 .. 5 : k[i] \in Int /\ l[i] \in Int /\ m[i] \in Int
  BY KeyFacts
<1>2. PICK i \in 1 .. 5 : k[i] < l[i] /\ \A j \in 1 .. i - 1 : k[j] = l[j]
  BY DEF Index!Before
<1>3. PICK h \in 1 .. 5 : l[h] < m[h] /\ \A j \in 1 .. h - 1 : l[j] = m[j]
  BY DEF Index!Before
<1>4. SUFFICES \E p \in 1 .. 5 : k[p] < m[p] /\ \A j \in 1 .. p - 1 : k[j] = m[j]
  BY DEF Index!Before
<1> HIDE DEF k, l, m
<1>5. CASE i < h
  <2>1. i \in 1 .. h - 1 /\ \A j \in 1 .. i - 1 : j \in 1 .. h - 1
    BY <1>5
  <2>2. l[i] = m[i] /\ \A j \in 1 .. i - 1 : k[j] = m[j]
    BY <1>2, <1>3, <2>1
  <2> QED BY <1>1, <1>2, <2>2
<1>6. CASE h < i
  <2>1. h \in 1 .. i - 1 /\ \A j \in 1 .. h - 1 : j \in 1 .. i - 1
    BY <1>6
  <2>2. k[h] = l[h] /\ \A j \in 1 .. h - 1 : k[j] = m[j]
    BY <1>2, <1>3, <2>1
  <2> QED BY <1>1, <1>3, <2>2
<1>7. CASE i = h
  <2>1. k[i] < m[i]
    BY <1>1, <1>2, <1>3, <1>7
  <2> QED BY <1>2, <1>3, <1>7, <2>1
<1> QED BY <1>5, <1>6, <1>7

\* The entries of S in order.
InOrder(S, a) ==
  /\ a \in Seq(S)
  /\ {a[i] : i \in DOMAIN a} = S
  /\ \A i, j \in DOMAIN a : i < j => Index!Before(a[i], a[j])

LEMMA ArrangedFacts ==
  ASSUME NEW S, IsFiniteSet(S), S \subseteq Entry
  PROVE  InOrder(S, Index!Arranged(S))
<1> DEFINE a == Index!Arranged(S)
           N == Index!Cardinality(S)
           L == {p \in S \X S : Index!Before(p[1], p[2])}
           place(e) == Index!Cardinality({f \in S : Index!Before(f, e)})
<1>1. \A x, y \in S : <<x, y>> \in L <=> Index!Before(x, y)
  OBVIOUS
<1>2. \A x \in S : place(x) = Cardinality(Under(S, L, x))
  <2> SUFFICES ASSUME NEW x \in S PROVE place(x) = Cardinality(Under(S, L, x))
    OBVIOUS
  <2>1. {f \in S : Index!Before(f, x)} = Under(S, L, x)
    BY <1>1 DEF Under
  <2> QED BY <2>1, SameCardinality
<1> HIDE DEF L
<1>3. Numbers(S, L)
  <2>1. \A x \in S : <<x, x>> \notin L
    BY <1>1, BeforeFacts
  <2>2. \A x, y, z \in S : <<x, y>> \in L /\ <<y, z>> \in L => <<x, z>> \in L
    BY <1>1, BeforeChains
  <2>3. \A x, y \in S : x = y \/ <<x, y>> \in L \/ <<y, x>> \in L
    BY <1>1, BeforeFacts
  <2> QED BY <2>1, <2>2, <2>3, OrderNumbers
<1>4. /\ N \in Nat
      /\ \A x \in S : place(x) \in 0 .. N - 1
      /\ \A x, y \in S : (place(x) = place(y) => x = y) /\ (place(x) < place(y) => <<x, y>> \in L)
      /\ \A n \in 1 .. N : \E x \in S : place(x) = n - 1
  BY <1>2, <1>3, SameCardinality DEF Numbers
<1>5. a = [i \in 1 .. N |-> CHOOSE e \in S : place(e) = i - 1]
  BY DEF Index!Arranged
<1> HIDE DEF place, a, N
<1>6. DOMAIN a = 1 .. N /\ \A i \in 1 .. N : a[i] \in S /\ place(a[i]) = i - 1
  BY <1>4, <1>5
<1>7. a \in Seq(S)
  <2>1. a \in [1 .. N -> S]
    BY <1>5, <1>6
  <2> QED BY <1>4, <2>1, SeqDef
<1>8. ASSUME NEW x \in S PROVE \E i \in 1 .. N : a[i] = x
  <2>1. place(x) + 1 \in 1 .. N /\ (place(x) + 1) - 1 = place(x)
    BY <1>4
  <2>2. a[place(x) + 1] = x
    BY <1>4, <1>6, <2>1
  <2> QED BY <2>1, <2>2
<1>9. ASSUME NEW i \in 1 .. N, NEW j \in 1 .. N, i < j PROVE Index!Before(a[i], a[j])
  <2>1. place(a[i]) < place(a[j])
    BY <1>4, <1>6, <1>9
  <2> QED BY <1>1, <1>4, <1>6, <2>1
<1>10. {a[i] : i \in DOMAIN a} = S
  BY <1>6, <1>8
<1>11. InOrder(S, a)
  BY <1>6, <1>7, <1>9, <1>10 DEF InOrder
<1> QED BY <1>11 DEF a

\* The entries at some places, in the order in which they were.
Thinned(s, I, r) ==
  /\ {r[n] : n \in DOMAIN r} = {s[i] : i \in I}
  /\ \A m, n \in DOMAIN r : m < n => \E i, j \in I : i < j /\ r[m] = s[i] /\ r[n] = s[j]

LEMMA PickedFacts ==
  ASSUME NEW E, NEW s \in Seq(E), NEW I, I \subseteq DOMAIN s
  PROVE  Index!Picked(s, I) \in Seq(E) /\ Thinned(s, I, Index!Picked(s, I))
<1> DEFINE r == Index!Picked(s, I)
           N == Index!Cardinality(I)
           L == {p \in I \X I : p[1] < p[2]}
           place(i) == Index!Cardinality({j \in I : j < i})
<1>0. /\ IsFiniteSet(I) /\ I \subseteq Int /\ \A i \in I : s[i] \in E
      /\ DOMAIN s = 1 .. Len(s) /\ Len(s) \in Nat
  <2>1. /\ DOMAIN s = 1 .. Len(s) /\ Len(s) \in Nat /\ \A i \in 1 .. Len(s) : s[i] \in E
    BY LenProperties, ElementOfSeq
  <2>2. IsFiniteSet(1 .. Len(s))
    BY <2>1, FS_Interval
  <2>3. IsFiniteSet(I)
    BY <2>1, <2>2, FS_Subset
  <2> QED BY <2>1, <2>3
<1>1. \A i, j \in I : <<i, j>> \in L <=> i < j
  OBVIOUS
<1>2. \A i \in I : place(i) = Cardinality(Under(I, L, i))
  <2> SUFFICES ASSUME NEW i \in I PROVE place(i) = Cardinality(Under(I, L, i))
    OBVIOUS
  <2>1. {j \in I : j < i} = Under(I, L, i)
    BY <1>1 DEF Under
  <2> QED BY <2>1, SameCardinality
<1> HIDE DEF L
<1>3. Numbers(I, L)
  <2>1. \A x \in I : <<x, x>> \notin L
    BY <1>0, <1>1
  <2>2. \A x, y, z \in I : <<x, y>> \in L /\ <<y, z>> \in L => <<x, z>> \in L
    BY <1>0, <1>1
  <2>3. \A x, y \in I : x = y \/ <<x, y>> \in L \/ <<y, x>> \in L
    <3> SUFFICES ASSUME NEW x \in I, NEW y \in I PROVE x = y \/ x < y \/ y < x
      BY <1>1
    <3> QED BY <1>0
  <2> QED BY <1>0, <2>1, <2>2, <2>3, OrderNumbers
<1>4. /\ N \in Nat
      /\ \A x \in I : place(x) \in 0 .. N - 1
      /\ \A x, y \in I : (place(x) = place(y) => x = y) /\ (place(x) < place(y) => <<x, y>> \in L)
      /\ \A n \in 1 .. N : \E x \in I : place(x) = n - 1
  BY <1>2, <1>3, SameCardinality DEF Numbers
<1> DEFINE at(n) == CHOOSE i \in I : place(i) = n - 1
<1>5. r = [n \in 1 .. N |-> s[at(n)]]
  BY DEF Index!Picked
<1> HIDE DEF place, r, N
<1>6. \A n \in 1 .. N : at(n) \in I /\ place(at(n)) = n - 1
  BY <1>4
<1> HIDE DEF at
<1>7. DOMAIN r = 1 .. N /\ \A n \in 1 .. N : r[n] = s[at(n)] /\ r[n] \in E
  BY <1>0, <1>5, <1>6
<1>8. r \in Seq(E)
  <2>1. r \in [1 .. N -> E]
    BY <1>5, <1>7
  <2> QED BY <1>4, <2>1, SeqDef
<1>9. ASSUME NEW i \in I PROVE \E n \in 1 .. N : r[n] = s[i]
  <2>1. place(i) + 1 \in 1 .. N /\ (place(i) + 1) - 1 = place(i)
    BY <1>4
  <2>2. at(place(i) + 1) = i
    BY <1>4, <1>6, <2>1
  <2> QED BY <1>7, <2>1, <2>2
<1>10. ASSUME NEW m \in 1 .. N, NEW n \in 1 .. N, m < n
       PROVE  \E i, j \in I : i < j /\ r[m] = s[i] /\ r[n] = s[j]
  <2>1. place(at(m)) < place(at(n))
    BY <1>4, <1>6, <1>10
  <2>2. at(m) \in I /\ at(n) \in I /\ at(m) < at(n)
    BY <1>1, <1>4, <1>6, <2>1
  <2> QED BY <1>7, <2>2
<1>11. {r[n] : n \in DOMAIN r} = {s[i] : i \in I}
  BY <1>6, <1>7, <1>9
<1>12. \A m, n \in DOMAIN r : m < n => \E i, j \in I : i < j /\ r[m] = s[i] /\ r[n] = s[j]
  <2> SUFFICES ASSUME NEW m \in 1 .. N, NEW n \in 1 .. N, m < n
               PROVE  \E i, j \in I : i < j /\ r[m] = s[i] /\ r[n] = s[j]
    BY <1>7
  <2> QED BY <1>10
<1>13. Thinned(s, I, r)
  BY <1>11, <1>12 DEF Thinned
<1> QED BY <1>8, <1>13 DEF r

\* The array s holds the entries of G, in the order of their top edges if flag says so.
Stores(s, flag, G) ==
  /\ s \in Seq(Entry)
  /\ {s[i] : i \in DOMAIN s} = G
  /\ flag => \A i, j \in DOMAIN s : i < j => s[i][1].top <= s[j][1].top

LEMMA StoredFinite ==
  ASSUME NEW s, NEW flag, NEW G, Stores(s, flag, G)
  PROVE  IsFiniteSet(G) /\ G \subseteq Entry /\ DOMAIN s = 1 .. Len(s) /\ Len(s) \in Nat
<1>1. /\ s \in Seq(Entry) /\ DOMAIN s = 1 .. Len(s) /\ Len(s) \in Nat
      /\ G = {s[i] : i \in DOMAIN s}
  BY LenProperties DEF Stores
<1>2. IsFiniteSet(1 .. Len(s))
  BY <1>1, FS_Interval
<1> DEFINE f == [i \in 1 .. Len(s) |-> s[i]]
<1>3. f \in Surjection(1 .. Len(s), G)
  BY <1>1 DEF Surjection
<1> HIDE DEF f
<1>4. IsFiniteSet(G)
  BY <1>2, <1>3, FS_Surjection
<1>5. G \subseteq Entry
  BY <1>1, ElementOfSeq
<1> QED BY <1>1, <1>4, <1>5

\* What is sorted keeps its order of top edges.
LEMMA OrderedStores ==
  ASSUME NEW S, S \subseteq Entry, NEW a, InOrder(S, a)
  PROVE  Stores(a, TRUE, S)
<1>1. a \in Seq(Entry)
  BY SeqMonotonic DEF InOrder
<1>2. \A i \in DOMAIN a : a[i] \in Entry
  BY <1>1, LenProperties, ElementOfSeq
<1>3. \A i, j \in DOMAIN a : i < j => a[i][1].top <= a[j][1].top
  BY <1>2, BeforeFacts DEF InOrder
<1> QED BY <1>1, <1>3 DEF InOrder, Stores

\* The entries that replace those of a formula.
Remaining(s, d) == Index!Picked(s, {i \in DOMAIN s : s[i][2] # d})
Incoming(d, R) == Index!Arranged(R \X {d})

LEMMA RemainingFacts ==
  ASSUME NEW s, NEW flag, NEW G, Stores(s, flag, G), NEW d
  PROVE  Stores(Remaining(s, d), flag, {e \in G : e[2] # d})
<1> DEFINE I == {i \in DOMAIN s : s[i][2] # d}
           r == Remaining(s, d)
<1>1. s \in Seq(Entry) /\ I \subseteq DOMAIN s
  BY DEF Stores
<1>2. r \in Seq(Entry) /\ Thinned(s, I, r)
  <2> HIDE DEF I
  <2>1. Index!Picked(s, I) \in Seq(Entry) /\ Thinned(s, I, Index!Picked(s, I))
    BY <1>1, PickedFacts
  <2> QED BY <2>1 DEF I, Remaining
<1>3. \A i \in I : s[i] \in G /\ s[i][2] # d
  BY DEF Stores
<1>4. \A e \in G : e[2] # d => \E i \in I : s[i] = e
  BY DEF Stores
<1> HIDE DEF r
<1>5. {s[i] : i \in I} = {e \in G : e[2] # d}
  <2> HIDE DEF I
  <2> QED BY <1>3, <1>4
<1> HIDE DEF I
<1>6. {r[n] : n \in DOMAIN r} = {e \in G : e[2] # d}
  BY <1>2, <1>5 DEF Thinned
<1>7. ASSUME flag, NEW m \in DOMAIN r, NEW n \in DOMAIN r, m < n PROVE r[m][1].top <= r[n][1].top
  <2>1. PICK i, j \in I : i < j /\ r[m] = s[i] /\ r[n] = s[j]
    BY <1>2, <1>7 DEF Thinned
  <2> QED BY <1>1, <1>7, <2>1 DEF Stores
<1>8. Stores(r, flag, {e \in G : e[2] # d})
  BY <1>2, <1>6, <1>7 DEF Stores
<1> QED BY <1>8 DEF r

LEMMA ReplaceKeeps ==
  ASSUME NEW s, NEW flag, NEW G, Stores(s, flag, G), NEW d \in Int, NEW R, IsFiniteSet(R),
         R \subseteq [top : Int, bottom : Int, left : Int, right : Int]
  PROVE  Stores(Remaining(s, d) \o Incoming(d, R), flag /\ Incoming(d, R) = <<>> /\ Remaining(s, d) # <<>>,
                {e \in G : e[2] # d} \cup (R \X {d}))
<1> DEFINE k == Remaining(s, d)
           a == Incoming(d, R)
           H == {e \in G : e[2] # d}
           N == R \X {d}
           t == k \o a
<1>1. Stores(k, flag, H)
  BY RemainingFacts
<1>2. N \subseteq Entry /\ IsFiniteSet(N)
  <2>1. IsFiniteSet({d})
    BY FS_Singleton
  <2>2. IsFiniteSet(R \X {d})
    BY <2>1, FS_Product
  <2> QED BY <2>2 DEF Entry
<1>3. Stores(a, TRUE, N)
  <2>1. InOrder(R \X {d}, Index!Arranged(R \X {d}))
    BY <1>2, ArrangedFacts
  <2>2. InOrder(N, a)
    BY <2>1 DEF Incoming
  <2> HIDE DEF a, N
  <2> QED BY <1>2, <2>2, OrderedStores
<1> HIDE DEF k, a, H, N
<1>4. /\ k \in Seq(Entry) /\ a \in Seq(Entry)
      /\ DOMAIN k = 1 .. Len(k) /\ Len(k) \in Nat /\ DOMAIN a = 1 .. Len(a) /\ Len(a) \in Nat
  BY <1>1, <1>3, LenProperties DEF Stores
<1>5. /\ t \in Seq(Entry) /\ Len(t) = Len(k) + Len(a)
      /\ \A i \in 1 .. Len(k) + Len(a) : t[i] = IF i <= Len(k) THEN k[i] ELSE a[i - Len(k)]
  BY <1>4, ConcatProperties
<1>6. DOMAIN t = 1 .. Len(k) + Len(a)
  BY <1>5, LenProperties
<1>7. ASSUME a = <<>> PROVE t = k
  BY <1>4, <1>7, ConcatEmptySeq
<1> HIDE DEF t
<1>8. ASSUME NEW i \in DOMAIN t PROVE t[i] \in H \cup N
  <2>1. CASE i <= Len(k)
    <3>1. i \in DOMAIN k /\ t[i] = k[i]
      BY <1>4, <1>5, <1>6, <2>1
    <3> QED BY <1>1, <3>1 DEF Stores
  <2>2. CASE ~ (i <= Len(k))
    <3>1. i - Len(k) \in DOMAIN a /\ t[i] = a[i - Len(k)]
      BY <1>4, <1>5, <1>6, <2>2
    <3> QED BY <1>3, <3>1 DEF Stores
  <2> QED BY <2>1, <2>2
<1>9. ASSUME NEW e \in H \cup N PROVE \E i \in DOMAIN t : t[i] = e
  <2>1. CASE e \in H
    <3>1. PICK i \in DOMAIN k : k[i] = e
      BY <1>1, <2>1 DEF Stores
    <3>2. i \in DOMAIN t /\ t[i] = k[i]
      BY <1>4, <1>5, <1>6
    <3> QED BY <3>1, <3>2
  <2>2. CASE e \in N
    <3>1. PICK i \in DOMAIN a : a[i] = e
      BY <1>3, <2>2 DEF Stores
    <3>2. i + Len(k) \in DOMAIN t /\ ~ (i + Len(k) <= Len(k)) /\ (i + Len(k)) - Len(k) = i
      BY <1>4, <1>6
    <3>3. t[i + Len(k)] = a[i]
      BY <1>5, <1>6, <3>2
    <3> QED BY <3>1, <3>2, <3>3
  <2> QED BY <2>1, <2>2
<1>10. {t[i] : i \in DOMAIN t} = H \cup N
  BY <1>8, <1>9
<1>11. Stores(t, flag /\ a = <<>> /\ k # <<>>, H \cup N)
  BY <1>1, <1>5, <1>7, <1>10 DEF Stores
<1> QED BY <1>11 DEF t, k, a, H, N

\* What a query searches.
LEMMA SortKeeps ==
  ASSUME NEW s, NEW flag \in BOOLEAN, NEW G, Stores(s, flag, G)
  PROVE  Stores(IF flag THEN s ELSE Index!Arranged(Index!ToSet(s)), TRUE, G)
<1>1. IsFiniteSet(G) /\ G \subseteq Entry /\ Index!ToSet(s) = G
  BY StoredFinite DEF Stores, Index!ToSet
<1>2. InOrder(G, Index!Arranged(G))
  BY <1>1, ArrangedFacts
<1>3. Stores(Index!Arranged(G), TRUE, G)
  <2> DEFINE a == Index!Arranged(G)
  <2>1. InOrder(G, a)
    BY <1>2
  <2> HIDE DEF a
  <2>2. Stores(a, TRUE, G)
    BY <1>1, <2>1, OrderedStores
  <2> QED BY <2>2 DEF a
<1>4. flag => Stores(s, TRUE, G)
  BY DEF Stores
<1> QED BY <1>1, <1>3, <1>4

\* The cut leaves out no entry that the scan would keep, and the scan tests the rest.
Found(s, k, row, col) == Index!Picked(s, {i \in 1 .. k : Index!Hit(s[i], row, col)})

Answers(G, row, col, r) ==
  {r[i][2] : i \in DOMAIN r} = {e[2] : e \in {f \in G : Promised!CoversCell(f[1], row, col)}}

LEMMA ScanAnswers ==
  ASSUME NEW s, NEW G, Stores(s, TRUE, G), NEW row \in Int, NEW col \in Int,
         NEW k \in Index!Cuts(s, row)
  PROVE  Answers(G, row, col, Found(s, k, row, col))
<1> DEFINE r == Found(s, k, row, col)
<1> DEFINE I == {i \in 1 .. k : Index!Hit(s[i], row, col)}
<1>1. /\ k \in 0 .. Len(s)
      /\ k > 0 => s[k][1].top <= row
      /\ k < Len(s) => s[k + 1][1].top > row
  BY DEF Index!Cuts
<1>2. /\ s \in Seq(Entry) /\ DOMAIN s = 1 .. Len(s) /\ Len(s) \in Nat
      /\ \A i \in DOMAIN s : s[i] \in G /\ s[i] \in Entry
      /\ \A e \in G : \E i \in DOMAIN s : s[i] = e
      /\ \A i, j \in DOMAIN s : i < j => s[i][1].top <= s[j][1].top
  BY StoredFinite DEF Stores
<1>3. \A i \in DOMAIN s : s[i][1].top \in Int
  BY <1>2 DEF Entry
<1>4. ASSUME NEW i \in DOMAIN s PROVE s[i][1].top <= row <=> i \in 1 .. k
  <2>1. CASE i <= k
    <3>1. k \in DOMAIN s /\ k > 0 /\ i \in 1 .. k /\ (i = k \/ i < k)
      BY <1>1, <1>2, <2>1
    <3>2. s[i][1].top <= s[k][1].top
      BY <1>2, <1>3, <3>1
    <3> QED BY <1>1, <1>3, <3>1, <3>2
  <2>2. CASE ~ (i <= k)
    <3>1. k + 1 \in DOMAIN s /\ k < Len(s) /\ i \notin 1 .. k /\ (i = k + 1 \/ k + 1 < i)
      BY <1>1, <1>2, <2>2
    <3>2. s[k + 1][1].top <= s[i][1].top
      BY <1>2, <1>3, <3>1
    <3> QED BY <1>1, <1>3, <3>1, <3>2
  <2> QED BY <2>1, <2>2
<1>5. I \subseteq DOMAIN s
  BY <1>1, <1>2
<1>6. \A i \in DOMAIN s : i \in I <=> Promised!CoversCell(s[i][1], row, col)
  <2> SUFFICES ASSUME NEW i \in DOMAIN s PROVE i \in I <=> Promised!CoversCell(s[i][1], row, col)
    OBVIOUS
  <2>1. /\ Promised!CoversCell(s[i][1], row, col) <=>
             /\ s[i][1].top <= row /\ row <= s[i][1].bottom
             /\ s[i][1].left <= col /\ col <= s[i][1].right
        /\ Index!Hit(s[i], row, col) <=>
             row <= s[i][1].bottom /\ col >= s[i][1].left /\ col <= s[i][1].right
    BY DEF Promised!CoversCell, Index!Hit
  <2>2. s[i][1].left \in Int
    BY <1>2 DEF Entry
  <2>3. col >= s[i][1].left <=> s[i][1].left <= col
    BY <2>2
  <2> QED BY <1>4, <2>1, <2>3
<1>7. Thinned(s, I, r)
  <2> HIDE DEF I
  <2>1. Thinned(s, I, Index!Picked(s, I))
    BY <1>2, <1>5, PickedFacts
  <2> QED BY <2>1 DEF I, Found
<1> HIDE DEF I, r
<1>8. {r[i] : i \in DOMAIN r} = {f \in G : Promised!CoversCell(f[1], row, col)}
  <2>1. {s[i] : i \in I} = {f \in G : Promised!CoversCell(f[1], row, col)}
    BY <1>2, <1>5, <1>6
  <2> QED BY <1>7, <2>1 DEF Thinned
<1>9. {r[i][2] : i \in DOMAIN r} = {e[2] : e \in {r[i] : i \in DOMAIN r}}
  OBVIOUS
<1> QED BY <1>8, <1>9 DEF Answers, r

\* What the graph stores of the indexed sheet, as entries of the array.
Registered == {<<Rectangle[e[1]], Rank[e[2]]>> : e \in ranges[Indexed]}

(* The array of an indexed sheet holds what the graph stores, in order if the *)
(* flag says so (SheetRanges).                                                *)
IndexInv == sorted \in BOOLEAN /\ Stores(entries, sorted, Registered)

LEMMA EntriesOfFormula ==
  ASSUME TypeOK, NEW x \in Cell
  PROVE  {e \in Registered : e[2] # Rank[x]} =
           {<<Rectangle[e[1]], Rank[e[2]]>> : e \in {f \in ranges[Indexed] : f[2] # x}}
<1>1. \A e \in ranges[Indexed] : e[2] \in Cell
  BY IndexedAssumption DEF TypeOK
<1>2. \A e \in ranges[Indexed] : Rank[e[2]] # Rank[x] <=> e[2] # x
  BY <1>1, RankAssumption
<1> QED BY <1>2 DEF Registered

LEMMA RegisteredAfterSet ==
  ASSUME TypeOK, EdgesMirror, NEW x \in Cell, NEW P \in Formulas[x], SetDeps(x, P)
  PROVE  Registered' = {e \in Registered : e[2] # Rank[x]} \cup (Rects(P) \X {Rank[x]})
<1> DEFINE Q == {q \in P.ranges : RangeSheet[q] = Indexed}
<1>1. ranges'[Indexed] = {e \in ranges[Indexed] : e[2] # x} \cup {<<r, x>> : r \in Q}
  BY IndexedAssumption, DetachRanges DEF SetDeps
<1>2. Registered' = {<<Rectangle[e[1]], Rank[e[2]]>> : e \in ranges'[Indexed]}
  BY DEF Registered
<1>3. Rects(P) \X {Rank[x]} = {<<Rectangle[e[1]], Rank[e[2]]>> : e \in {<<r, x>> : r \in Q}}
  <2>1. Rects(P) = {Rectangle[r] : r \in Q}
    BY DEF Rects
  <2> HIDE DEF Q
  <2>2. ASSUME NEW u \in Rects(P) \X {Rank[x]}
        PROVE  \E e \in {<<r, x>> : r \in Q} : u = <<Rectangle[e[1]], Rank[e[2]]>>
    <3>1. PICK r \in Q : u = <<Rectangle[r], Rank[x]>>
      BY <2>1
    <3>2. <<r, x>> \in {<<q, x>> : q \in Q} /\ <<r, x>>[1] = r /\ <<r, x>>[2] = x
      OBVIOUS
    <3> QED BY <3>1, <3>2
  <2>3. ASSUME NEW r \in Q PROVE <<Rectangle[r], Rank[x]>> \in Rects(P) \X {Rank[x]}
    BY <2>1
  <2> QED BY <2>2, <2>3
<1> HIDE DEF Q
<1> QED BY <1>1, <1>2, <1>3, EntriesOfFormula

LEMMA RegisteredAfterRemove ==
  ASSUME TypeOK, EdgesMirror, NEW x \in Cell, RemoveNode(x)
  PROVE  Registered' = {e \in Registered : e[2] # Rank[x]}
<1>1. ranges'[Indexed] = {e \in ranges[Indexed] : e[2] # x}
  BY IndexedAssumption, DetachRanges DEF RemoveNode
<1> QED BY <1>1, EntriesOfFormula DEF Registered

\* Replacing the entries of a formula, in the array and in the specification.
LEMMA ReplaceStep ==
  ASSUME IndexInv, NEW d \in Dependent, NEW R \in SUBSET Rect, IsFiniteSet(R), Index!Replace(d, R),
         Registered' = {e \in Registered : e[2] # d} \cup (R \X {d})
  PROVE  IndexInv' /\ Promised!Replace(d, R)
<1>1. d \in Int
  BY RankAssumption DEF Dependent
<1>2. R \subseteq [top : Int, bottom : Int, left : Int, right : Int]
  BY RankAssumption DEF Rect
<1>3. /\ entries' = Remaining(entries, d) \o Incoming(d, R)
      /\ sorted' = (sorted /\ Incoming(d, R) = <<>> /\ Remaining(entries, d) # <<>>)
      /\ asked' = <<>> /\ scan' = <<>>
  BY DEF Index!Replace, Index!Retained, Index!SortedAfter, Remaining, Incoming
<1>4. Stores(Remaining(entries, d) \o Incoming(d, R),
             sorted /\ Incoming(d, R) = <<>> /\ Remaining(entries, d) # <<>>,
             {e \in Registered : e[2] # d} \cup (R \X {d}))
  BY <1>1, <1>2, ReplaceKeeps DEF IndexInv
<1>5. Stores(entries', sorted', Registered')
  BY <1>3, <1>4
<1>6. sorted' \in BOOLEAN
  BY <1>3
<1>7. {scan'[i][2] : i \in DOMAIN scan'} = {}
  BY <1>3
<1>8. Promised!Replace(d, R)
  BY <1>3, <1>7 DEF Promised!Replace, Registered
<1> QED BY <1>5, <1>6, <1>8 DEF IndexInv

LEMMA QueryStep ==
  ASSUME IndexInv, NEW row \in Int, NEW col \in Int, Index!Query(row, col), UNCHANGED ranges
  PROVE  IndexInv' /\ Promised!Ask(row, col)
<1> DEFINE s == Index!Scanned
<1>1. Stores(s, TRUE, Registered)
  BY SortKeeps DEF IndexInv, Index!Scanned
<1>2. /\ entries' = s /\ sorted' = TRUE /\ asked' = <<row, col>>
      /\ \E k \in Index!Cuts(s, row) : scan' = Index!Picked(s, {i \in 1 .. k : Index!Hit(s[i], row, col)})
  BY DEF Index!Query
<1>3. Registered' = Registered
  BY DEF Registered
<1> HIDE DEF s
<1>4. IndexInv'
  BY <1>1, <1>2, <1>3 DEF IndexInv
<1>5. PICK k \in Index!Cuts(s, row) : scan' = Found(s, k, row, col)
  BY <1>2 DEF Found
<1>a. Answers(Registered, row, col, Found(s, k, row, col))
  BY <1>1, ScanAnswers
<1>6. {scan'[i][2] : i \in DOMAIN scan'}
        = {e[2] : e \in {f \in Registered : Promised!CoversCell(f[1], row, col)}}
  BY <1>5, <1>a DEF Answers
<1>7. Promised!Ask(row, col)
  BY <1>2, <1>3, <1>6 DEF Promised!Ask, Registered
<1> QED BY <1>4, <1>7

IndexStep == IndexInv' /\ [Promised!Next]_<<Registered, asked, {scan[i][2] : i \in DOMAIN scan}>>

LEMMA IndexNext ==
  ASSUME Inv, IndexInv, [IndexedNext]_<<vars, indexVars>>
  PROVE  IndexStep
<1>a. TypeOK /\ EdgesMirror
  BY DEF Inv
<1>1. ASSUME NEW x \in Cell, NEW P \in Formulas[x], IndexedSet(x, P) PROVE IndexStep
  <2>1. SetDeps(x, P) /\ Index!Replace(Rank[x], Rects(P)) /\ Rank[x] \in Dependent
    BY <1>1 DEF IndexedSet, Dependent
  <2>2. P.ranges \subseteq SheetRange /\ IsFiniteSet(P.ranges)
    BY FormulasAssumption, FiniteAssumption DEF Precedents
  <2>3. Rects(P) \in SUBSET Rect
    BY <2>2 DEF Rects, Rect
  <2>4. IsFiniteSet(Rects(P))
    <3> DEFINE Q == {q \in P.ranges : RangeSheet[q] = Indexed}
               f == [q \in Q |-> Rectangle[q]]
    <3>1. IsFiniteSet(Q)
      BY <2>2, FS_Subset
    <3>2. f \in Surjection(Q, Rects(P))
      BY DEF Surjection, Rects
    <3> HIDE DEF Q, f
    <3> QED BY <3>1, <3>2, FS_Surjection
  <2>5. Registered' = {e \in Registered : e[2] # Rank[x]} \cup (Rects(P) \X {Rank[x]})
    BY <1>a, <2>1, RegisteredAfterSet
  <2>6. IndexInv' /\ Promised!Replace(Rank[x], Rects(P))
    BY <2>1, <2>3, <2>4, <2>5, ReplaceStep
  <2> QED BY <2>1, <2>3, <2>6 DEF IndexStep, Promised!Next
<1>2. ASSUME NEW x \in Cell, IndexedRemove(x) PROVE IndexStep
  <2>1. RemoveNode(x) /\ Index!Replace(Rank[x], {}) /\ Rank[x] \in Dependent
    BY <1>2 DEF IndexedRemove, Dependent
  <2>2. Registered' = {e \in Registered : e[2] # Rank[x]} \cup ({} \X {Rank[x]})
    BY <1>a, <2>1, RegisteredAfterRemove
  <2>3. {} \in SUBSET Rect /\ IsFiniteSet({})
    BY FS_EmptySet
  <2>4. IndexInv' /\ Promised!Replace(Rank[x], {})
    BY <2>1, <2>2, <2>3, ReplaceStep
  <2> QED BY <2>1, <2>3, <2>4 DEF IndexStep, Promised!Next
<1>3. ASSUME NEW x \in Cell, IndexedPropagate(x) PROVE IndexStep
  <2>1. UNCHANGED ranges
    BY <1>3 DEF IndexedPropagate, PropagateStep, edgeVars
  <2>2. CASE x \in OnSheet
    <3>1. /\ Index!Query(Place[x][1], Place[x][2])
          /\ Place[x][1] \in Row /\ Place[x][2] \in Col
      BY <1>3, <2>2 DEF IndexedPropagate, Row, Col
    <3>2. Place[x][1] \in Int /\ Place[x][2] \in Int
      BY PlaceAssumption
    <3>3. IndexInv' /\ Promised!Ask(Place[x][1], Place[x][2])
      BY <2>1, <3>1, <3>2, QueryStep
    <3> QED BY <3>1, <3>3 DEF IndexStep, Promised!Next
  <2>3. CASE x \notin OnSheet
    <3>1. UNCHANGED indexVars
      BY <1>3, <2>3 DEF IndexedPropagate
    <3> QED BY <2>1, <3>1 DEF IndexStep, IndexInv, Registered, indexVars
  <2> QED BY <2>2, <2>3
<1>4. ASSUME IndexUnused PROVE IndexStep
  <2>1. UNCHANGED ranges
    BY <1>4 DEF IndexUnused, RegisterVolatile, SetDynamicDeps, MarkDirty, MarkVolatileDirty,
                MarkAllDirty, ClearDirty, TakeRecalcPlan, edgeVars
  <2>2. asked' = <<>> /\ scan' = <<>> /\ UNCHANGED <<entries, sorted>>
    BY <1>4 DEF IndexUnused, Index!Forget
  <2>3. IndexInv' /\ Registered' = Registered
    BY <2>1, <2>2 DEF IndexInv, Registered
  <2>4. {scan'[i][2] : i \in DOMAIN scan'} = {}
    BY <2>2
  <2>5. Promised!Forget
    BY <2>2, <2>3, <2>4 DEF Promised!Forget, Registered
  <2> QED BY <2>3, <2>5 DEF IndexStep, Promised!Next
<1>5. ASSUME UNCHANGED <<vars, indexVars>> PROVE IndexStep
  BY <1>5 DEF IndexStep, IndexInv, Registered, vars, edgeVars, indexVars
<1> QED BY <1>1, <1>2, <1>3, <1>4, <1>5 DEF IndexedNext

LEMMA IndexedIsGraph == IndexedSpec => Spec
<1>1. [IndexedNext]_<<vars, indexVars>> => [Next]_vars
  BY DEF IndexedNext, Next, IndexedSet, IndexedRemove, IndexedPropagate, IndexUnused
<1> QED BY <1>1, PTL DEF IndexedSpec, IndexedInit, Spec

LEMMA IndexedStart == IndexedInit => IndexInv /\ Promised!Init
<1> SUFFICES ASSUME IndexedInit PROVE IndexInv /\ Promised!Init
  OBVIOUS
<1>1. ranges[Indexed] = {} /\ entries = <<>> /\ sorted = FALSE /\ asked = <<>> /\ scan = <<>>
  BY IndexedAssumption DEF IndexedInit, Init, Index!Init
<1>2. Registered = {} /\ {scan[i][2] : i \in DOMAIN scan} = {}
  BY <1>1 DEF Registered
<1>3. Stores(entries, sorted, Registered)
  BY <1>1, <1>2, EmptySeq DEF Stores
<1> QED BY <1>1, <1>2, <1>3 DEF IndexInv, Promised!Init, Registered

(* Every query of the range index returns exactly the formulas with a range  *)
(* over the cell, after any sequence of edits and removals on any sheet: the *)
(* array never loses or keeps an entry that the graph does not, the flag     *)
(* never claims an order that an insertion broke, and the bisection cuts off *)
(* nothing that the scan would keep (AnswersExactly: SheetRanges).           *)
THEOREM IndexImplementsSpec == IndexedSpec => AnswersExactly
<1>1. IndexedInit => IndexInv /\ Promised!Init
  BY IndexedStart
<1>2. Inv /\ IndexInv /\ [IndexedNext]_<<vars, indexVars>> =>
        IndexInv' /\ [Promised!Next]_<<Registered, asked, {scan[i][2] : i \in DOMAIN scan}>>
  BY IndexNext DEF IndexStep
<1> QED BY <1>1, <1>2, IndexedIsGraph, InvHolds, PTL DEF IndexedSpec, AnswersExactly, Promised!Spec, Registered

\* What the query of a cell returned, where a turn of propagate asked one.
Served(x) == {scan'[i][2] : i \in DOMAIN scan'} = {Rank[y] : y \in Query(x)}

LEMMA QueryServes ==
  ASSUME TypeOK, EdgesMirror, IndexInv, NEW x \in OnSheet, IndexedPropagate(x)
  PROVE  Served(x)
<1>1. x \in Cell /\ CellSheet[x] = Indexed
  BY DEF OnSheet
<1>2. /\ Index!Query(Place[x][1], Place[x][2]) /\ UNCHANGED ranges
      /\ Place[x][1] \in Int /\ Place[x][2] \in Int
  BY <1>1, PlaceAssumption DEF IndexedPropagate, PropagateStep, edgeVars
<1>3. Promised!Ask(Place[x][1], Place[x][2])
  BY <1>2, QueryStep
<1>4. {scan'[i][2] : i \in DOMAIN scan'} =
        {u[2] : u \in {v \in Registered : Promised!CoversCell(v[1], Place[x][1], Place[x][2])}}
  BY <1>3 DEF Promised!Ask, Registered
<1>5. ASSUME NEW e \in ranges[Indexed]
      PROVE  Promised!CoversCell(Rectangle[e[1]], Place[x][1], Place[x][2]) <=> x \in Covers[e[1]]
  <2>1. e[1] \in SheetRange /\ RangeSheet[e[1]] = Indexed
    BY IndexedAssumption DEF EdgesMirror
  <2> QED BY <1>1, <2>1, PlaceAssumption DEF Promised!CoversCell
<1>6. {u[2] : u \in {v \in Registered : Promised!CoversCell(v[1], Place[x][1], Place[x][2])}} =
        {Rank[e[2]] : e \in {f \in ranges[Indexed] : x \in Covers[f[1]]}}
  <2> DEFINE A == {v \in Registered : Promised!CoversCell(v[1], Place[x][1], Place[x][2])}
             B == {f \in ranges[Indexed] : x \in Covers[f[1]]}
  <2>1. ASSUME NEW v \in A PROVE \E e \in B : v[2] = Rank[e[2]]
    <3>1. PICK e \in ranges[Indexed] : v = <<Rectangle[e[1]], Rank[e[2]]>>
      BY DEF Registered
    <3>2. v[1] = Rectangle[e[1]] /\ v[2] = Rank[e[2]]
      BY <3>1
    <3> QED BY <1>5, <3>2
  <2>2. ASSUME NEW e \in B PROVE \E v \in A : v[2] = Rank[e[2]]
    <3> DEFINE v == <<Rectangle[e[1]], Rank[e[2]]>>
    <3>1. v \in Registered /\ v[1] = Rectangle[e[1]] /\ v[2] = Rank[e[2]]
      BY DEF Registered
    <3> HIDE DEF v
    <3>2. v \in A
      BY <1>5, <3>1
    <3> QED BY <3>1, <3>2
  <2> HIDE DEF A, B
  <2>3. {u[2] : u \in A} = {Rank[e[2]] : e \in B}
    BY <2>1, <2>2
  <2> QED BY <2>3 DEF A, B
<1>7. {Rank[e[2]] : e \in {f \in ranges[Indexed] : x \in Covers[f[1]]}} = {Rank[y] : y \in Query(x)}
  BY <1>1 DEF Query
<1> QED BY <1>4, <1>6, <1>7 DEF Served

(* Each turn of propagate gets from the index the formulas that DepGraph     *)
(* looks up in its edges, those with a range that holds the cell: rectangles *)
(* and the relation "lies in" say the same (propagate, query).               *)
THEOREM IndexServesPropagate ==
  IndexedSpec => [][\A x \in OnSheet : IndexedPropagate(x) => Served(x)]_<<vars, indexVars>>
<1>1. IndexedInit => IndexInv
  BY IndexedStart
<1>2. Inv /\ IndexInv /\ [IndexedNext]_<<vars, indexVars>> => IndexInv'
  BY IndexNext DEF IndexStep
<1>3. Inv /\ IndexInv => \A x \in OnSheet : IndexedPropagate(x) => Served(x)
  BY QueryServes DEF Inv
<1> QED BY <1>1, <1>2, <1>3, IndexedIsGraph, InvHolds, PTL DEF IndexedSpec

-----------------------------------------------------------------------------
(* What is downstream of a set of cells. *)

(* The readers of the cells of a set, and of what is downstream of it, are   *)
(* downstream of it.                                                         *)
LEMMA DownstreamHoldsReaders ==
  ASSUME NEW S, NEW x \in S \cup Downstream(S)
  PROVE  Readers(x) \subseteq Downstream(S)
<1> SUFFICES ASSUME NEW r \in Readers(x), NEW T \in SUBSET Cell, ClosedFrom(S, T)
             PROVE  r \in T
  BY DEF Downstream, Readers
<1>1. x \in S \cup T
  BY DEF Downstream
<1> QED
  BY <1>1 DEF ClosedFrom

(* It is the least such set.                                                 *)
LEMMA DownstreamIsLeast ==
  ASSUME NEW S, NEW T \in SUBSET Cell, \A x \in S \cup T : Readers(x) \subseteq T
  PROVE  Downstream(S) \subseteq T
BY DEF Downstream, ClosedFrom

(* Only cells are downstream.                                                *)
LEMMA DownstreamCells == \A S : Downstream(S) \subseteq Cell
BY DEF Downstream

(* What is downstream of a set is formulas.                                  *)
LEMMA DownstreamNodes ==
  ASSUME TypeOK, NEW S
  PROVE  Downstream(S) \subseteq nodes
<1>1. \A x : Readers(x) \subseteq nodes
  BY DEF Readers, Reads
<1> QED
  BY <1>1, DownstreamIsLeast DEF TypeOK

(* More cells have more downstream.                                          *)
LEMMA DownstreamMonotone ==
  ASSUME NEW S, NEW T, S \subseteq T
  PROVE  Downstream(S) \subseteq Downstream(T)
<1>1. \A x \in S \cup Downstream(T) : Readers(x) \subseteq Downstream(T)
  BY DownstreamHoldsReaders
<1> QED
  BY <1>1, DownstreamIsLeast, DownstreamCells

(* Nothing is downstream of no cell.                                         *)
LEMMA DownstreamEmpty == Downstream({}) = {}
<1>1. \A x \in {} \cup {} : Readers(x) \subseteq {}
  OBVIOUS
<1> QED
  BY <1>1, DownstreamIsLeast

(* Steps that leave the edges alone leave every cell what is downstream.     *)
LEMMA DownstreamStable ==
  ASSUME UNCHANGED edgeVars
  PROVE  \A S : Downstream(S)' = Downstream(S)
BY ReadersStable DEF Downstream, ClosedFrom

-----------------------------------------------------------------------------
(* The graph under the driver. *)

(* A step that is none of the graph's, as far as its invariant can see.      *)
Aside ==
  /\ UNCHANGED <<edgeVars, dirty, stack, edited, rewired>>
  /\ {volatile', dynamic', planned'} \subseteq SUBSET Cell

(* Such a step keeps the invariant of the graph.                             *)
LEMMA InvAside == Inv /\ Aside => Inv'
<1> SUFFICES ASSUME Inv, Aside PROVE Inv'
  OBVIOUS
<1>1. TypeOK'
  BY DEF Inv, TypeOK, Aside, edgeVars
<1>2. EdgesMirror' /\ DirtyAreNodes'
  BY DEF Inv, EdgesMirror, DirtyAreNodes, Aside, edgeVars
<1>3. ClosureInv'
  BY ReadersStable DEF Inv, ClosureInv, Settled, Aside, edgeVars
<1> QED
  BY <1>1, <1>2, <1>3 DEF Inv

(* So does every operation of the graph.                                     *)
LEMMA InvNext == Inv /\ [Next]_vars => Inv'
BY TypeStep, MirrorStep, DirtyNodesStep, ClosureStep DEF Inv

(* The driver calls the operations of the graph one at a time, and does no   *)
(* more to it than flag anchors and take the plan of everything.             *)
LEMMA GraphStep == DriverTypeOK /\ [DriverNext]_allVars => [Next]_vars \/ Aside
<1> SUFFICES ASSUME DriverTypeOK, [DriverNext]_allVars PROVE [Next]_vars \/ Aside
  OBVIOUS
<1> USE DEF DriverTypeOK
<1>1. ASSUME CallEngine PROVE [Next]_vars \/ Aside
  <2>1. LoadFormula => Next
    BY DEF LoadFormula, Next
  <2>2. LoadVolatile => Next
    BY FlaggableAssumption DEF LoadVolatile, Next
  <2>3. LoadDone => UNCHANGED vars
    BY DEF LoadDone
  <2>4. ASSUME NEW c \in Cell, NEW owner \in Cell, EditSpilledCell(c, owner)
        PROVE  Next
    BY <2>4 DEF EditSpilledCell, Next
  <2>5. ASSUME NEW c \in Cell, EditCell(c) PROVE UNCHANGED vars
    BY <2>5 DEF EditCell
  <2>6. StartRecalc => Aside
    BY DEF StartRecalc, Aside, flagVars, TypeOK
  <2> QED
    BY <1>1, <2>1, <2>2, <2>3, <2>4, <2>5, <2>6 DEF CallEngine
<1>2. ASSUME EngineStep PROVE [Next]_vars \/ Aside
  <2>1. ASSUME NEW P \in Formulas[cell], InstallFormula(P) PROVE Next
    BY <2>1 DEF InstallFormula, Next
  <2>2. ASSUME NEW flag \in BOOLEAN, InstallFlag(flag) PROVE Aside
    BY <2>2 DEF InstallFlag, RegisterVolatile, Aside, TypeOK
  <2>3. ASSUME NEW S \in SUBSET Cell, InstallLiteral(S) PROVE Aside
    BY <2>3 DEF InstallLiteral, SetDynamicDeps, Aside, TypeOK
  <2>4. RemoveFormula => Next
    BY DEF RemoveFormula, Next
  <2>5. SeedEdit => Next
    BY DEF SeedEdit, EditSeeds, Next
  <2>6. SeedVolatile => Next
    BY DEF SeedVolatile, Next
  <2>7. TakeEditPlan \/ TakePassPlan => Next
    BY DEF TakeEditPlan, TakePassPlan, Next
  <2>8. ASSUME NEW A \in SUBSET Cell, NEW U \in SUBSET Cell, NEW W \in SUBSET Cell,
               Execute(A, U, W)
        PROVE  Aside
    BY <2>8 DEF Execute, Aside, TypeOK
  <2>9. Converged => UNCHANGED vars
    BY DEF Converged
  <2>10. DrainRedirty => Next
    BY DEF DrainRedirty, Next
  <2>11. ASSUME NEW V \in SUBSET Cell, OverCap(V) PROVE Aside
    BY <2>11 DEF OverCap, Aside, TypeOK
  <2>12. Return => Next
    BY DEF Return, Next
  <2>13. ASSUME NEW x \in Cell, Propagate(x) PROVE Next
    BY <2>13 DEF Propagate, Next
  <2> QED
    BY <1>2, <2>1, <2>2, <2>3, <2>4, <2>5, <2>6, <2>7, <2>8, <2>9, <2>10,
       <2>11, <2>12, <2>13 DEF EngineStep
<1>3. UNCHANGED allVars => UNCHANGED vars
  BY DEF allVars
<1> QED
  BY <1>1, <1>2, <1>3 DEF DriverNext

(* The invariant of the graph holds under the driver.                        *)
LEMMA GraphInvStep == Inv /\ DriverTypeOK /\ [DriverNext]_allVars => Inv'
BY GraphStep, InvAside, InvNext

-----------------------------------------------------------------------------
(* Types, phases and pending cells. *)

(* Every step keeps the variables in their types, the passes within the cap. *)
LEMMA DriverTypeStep == Inv /\ DriverTypeOK /\ [DriverNext]_allVars => DriverTypeOK'
<1> SUFFICES ASSUME Inv, DriverTypeOK, [DriverNext]_allVars PROVE DriverTypeOK'
  OBVIOUS
<1>1. TypeOK'
  BY GraphInvStep DEF Inv
<1>2. \A S : Downstream(S) \subseteq Cell /\ Affected(S) \subseteq Cell
  BY DownstreamCells DEF Affected, DriverTypeOK, TypeOK
<1> USE <1>1, <1>2 DEF DriverTypeOK, spillVars, driverVars
<1>3. LoadFormula \/ LoadVolatile => DriverTypeOK'
  BY DEF LoadFormula, LoadVolatile
<1>4. LoadDone => DriverTypeOK'
  BY DEF LoadDone
<1>5. ASSUME NEW c \in Cell, NEW owner \in Cell, EditSpilledCell(c, owner)
      PROVE  DriverTypeOK'
  BY <1>5 DEF EditSpilledCell
<1>6. ASSUME NEW c \in Cell, EditCell(c) PROVE DriverTypeOK'
  BY <1>6 DEF EditCell
<1>7. StartRecalc => DriverTypeOK'
  BY CapAssumption DEF StartRecalc, BeginDrive, TypeOK
<1>8. ASSUME NEW P, InstallFormula(P) PROVE DriverTypeOK'
  BY <1>8 DEF InstallFormula
<1>9. ASSUME NEW flag, InstallFlag(flag) PROVE DriverTypeOK'
  BY <1>9 DEF InstallFlag
<1>10. ASSUME NEW S \in SUBSET Cell, InstallLiteral(S) PROVE DriverTypeOK'
  BY <1>10 DEF InstallLiteral
<1>11. RemoveFormula => DriverTypeOK'
  BY DEF RemoveFormula
<1>12. SeedEdit \/ SeedVolatile => DriverTypeOK'
  BY DEF SeedEdit, SeedVolatile
<1>13. TakeEditPlan \/ TakePassPlan => DriverTypeOK'
  BY CapAssumption DEF TakeEditPlan, TakePassPlan, BeginDrive
<1>14. ASSUME NEW A \in SUBSET Cell, NEW U \in SUBSET Cell, NEW W \in SUBSET Cell,
              Execute(A, U, W)
       PROVE  DriverTypeOK'
  BY <1>14 DEF Execute
<1>15. Converged => DriverTypeOK'
  BY DEF Converged
<1>16. DrainRedirty => DriverTypeOK'
  <2> SUFFICES ASSUME DrainRedirty PROVE DriverTypeOK'
    OBVIOUS
  <2>1. iters' \in 0 .. Cap
    BY CapAssumption DEF DrainRedirty, UnderCap
  <2> QED
    BY <2>1 DEF DrainRedirty
<1>17. ASSUME NEW V \in SUBSET Cell, OverCap(V) PROVE DriverTypeOK'
  <2>1. iters' \in 0 .. Cap
    BY <1>17, CapAssumption DEF OverCap
  <2>2. stale' \subseteq Cell
    BY <1>17 DEF OverCap
  <2>3. redirty' \subseteq Cell /\ unstable' \subseteq Cell /\ refused' \subseteq Cell
    BY <1>17 DEF OverCap, Reseeded, Refusing
  <2> QED
    BY <1>17, <2>1, <2>2, <2>3 DEF OverCap
<1>18. Return => DriverTypeOK'
  BY DEF Return
<1>19. ASSUME NEW x, Propagate(x) PROVE DriverTypeOK'
  BY <1>19 DEF Propagate
<1>20. UNCHANGED allVars => DriverTypeOK'
  BY DEF allVars
<1> QED
  BY <1>3, <1>4, <1>5, <1>6, <1>7, <1>8, <1>9, <1>10, <1>11, <1>12, <1>13,
     <1>14, <1>15, <1>16, <1>17, <1>18, <1>19, <1>20
  DEF DriverNext, CallEngine, EngineStep

(* Each phase marks and rewires what it should and no more.                  *)
LEMMA PhaseStep ==
  DriverTypeOK /\ PhaseInv /\ [DriverNext]_allVars => PhaseInv'
<1> SUFFICES ASSUME DriverTypeOK, PhaseInv, [DriverNext]_allVars PROVE PhaseInv'
  OBVIOUS
<1> USE DEF PhaseInv, Unmarked, Idle, driverVars
<1>1. LoadFormula \/ LoadVolatile => PhaseInv'
  BY DEF LoadFormula, LoadVolatile, SetDeps, RegisterVolatile
<1>2. LoadDone \/ Converged => PhaseInv'
  BY DEF LoadDone, Converged, vars
<1>3. ASSUME NEW c, NEW owner, EditSpilledCell(c, owner) PROVE PhaseInv'
  BY <1>3 DEF EditSpilledCell, MarkDirty
<1>4. ASSUME NEW c, EditCell(c) PROVE PhaseInv'
  BY <1>4 DEF EditCell, vars
<1>5. StartRecalc => PhaseInv'
  BY DEF StartRecalc
<1>6. ASSUME NEW P, InstallFormula(P) PROVE PhaseInv'
  BY <1>6 DEF InstallFormula, SetDeps
<1>7. ASSUME NEW flag, InstallFlag(flag) PROVE PhaseInv'
  BY <1>7 DEF InstallFlag, RegisterVolatile
<1>8. ASSUME NEW S, InstallLiteral(S) PROVE PhaseInv'
  BY <1>8 DEF InstallLiteral, SetDynamicDeps
<1>9. RemoveFormula => PhaseInv'
  BY DEF RemoveFormula, RemoveNode
<1>10. SeedEdit => PhaseInv'
  BY DEF SeedEdit, EditSeeds, MarkDirty
<1>11. SeedVolatile => PhaseInv'
  BY DEF SeedVolatile, MarkVolatileDirty, MarkDirty
<1>12. TakeEditPlan \/ TakePassPlan => PhaseInv'
  BY DEF TakeEditPlan, TakePassPlan, TakeRecalcPlan, Emptied
<1>13. ASSUME NEW A, NEW U, NEW W, Execute(A, U, W) PROVE PhaseInv'
  BY <1>13 DEF Execute
<1>14. DrainRedirty => PhaseInv'
  BY DEF DrainRedirty, MarkDirty
<1>15. ASSUME NEW V, OverCap(V) PROVE PhaseInv'
  BY <1>15 DEF OverCap
<1>16. Return => PhaseInv'
  BY DEF Return, ClearDirty, Emptied
<1>17. ASSUME NEW x, Propagate(x) PROVE PhaseInv'
  BY <1>17 DEF Propagate, PropagateStep
<1>18. UNCHANGED allVars => PhaseInv'
  BY DEF allVars, vars
<1> QED
  BY <1>1, <1>2, <1>3, <1>4, <1>5, <1>6, <1>7, <1>8, <1>9, <1>10, <1>11, <1>12,
     <1>13, <1>14, <1>15, <1>16, <1>17, <1>18
  DEF DriverNext, CallEngine, EngineStep

(* A cell that spilling changed keeps an anchor to refuse, across passes,    *)
(* drains and refusals.                                                      *)
LEMMA PendingStep ==
  DriverTypeOK /\ PendingInv /\ [DriverNext]_allVars => PendingInv'
<1> SUFFICES ASSUME DriverTypeOK, PendingInv, [DriverNext]_allVars PROVE PendingInv'
  OBVIOUS
<1> USE DEF PendingInv, spillVars, driverVars
<1>1. LoadFormula \/ LoadVolatile \/ LoadDone => PendingInv'
  BY DEF LoadFormula, LoadVolatile, LoadDone
<1>2. ASSUME NEW c, NEW owner, EditSpilledCell(c, owner) PROVE PendingInv'
  BY <1>2 DEF EditSpilledCell
<1>3. ASSUME NEW c, EditCell(c) PROVE PendingInv'
  BY <1>3 DEF EditCell
<1>4. StartRecalc => PendingInv'
  BY DEF StartRecalc, BeginDrive
<1>5. ASSUME NEW P, InstallFormula(P) PROVE PendingInv'
  BY <1>5 DEF InstallFormula
<1>6. ASSUME NEW flag, InstallFlag(flag) PROVE PendingInv'
  BY <1>6 DEF InstallFlag
<1>7. ASSUME NEW S, InstallLiteral(S) PROVE PendingInv'
  BY <1>7 DEF InstallLiteral
<1>8. RemoveFormula \/ SeedEdit \/ SeedVolatile => PendingInv'
  BY DEF RemoveFormula, SeedEdit, SeedVolatile
<1>9. TakeEditPlan => PendingInv'
  BY DEF TakeEditPlan, BeginDrive
<1>10. TakePassPlan => PendingInv'
  BY DEF TakePassPlan
<1>11. ASSUME NEW A, NEW U, NEW W, Execute(A, U, W) PROVE PendingInv'
  <2>1. unstable' \cap refused' = {}
    BY <1>11 DEF Execute, Evaluated
  <2>2. redirty' # {} => unstable' # {}
    BY <1>11 DEF Execute
  <2> QED
    BY <1>11, <2>1, <2>2 DEF Execute
<1>12. Converged \/ DrainRedirty => PendingInv'
  BY DEF Converged, DrainRedirty
<1>13. ASSUME NEW V, OverCap(V) PROVE PendingInv'
  BY <1>13 DEF OverCap
<1>14. Return => PendingInv'
  BY DEF Return
<1>15. ASSUME NEW x, Propagate(x) PROVE PendingInv'
  BY <1>15 DEF Propagate
<1>16. UNCHANGED allVars => PendingInv'
  BY DEF allVars
<1> QED
  BY <1>1, <1>2, <1>3, <1>4, <1>5, <1>6, <1>7, <1>8, <1>9, <1>10, <1>11, <1>12,
     <1>13, <1>14, <1>15, <1>16
  DEF DriverNext, CallEngine, EngineStep

-----------------------------------------------------------------------------
(* What waits for propagate. *)

(* While the edges stay, only the worklist and the changed cells move.       *)
LEMMA WaitingMoved ==
  ASSUME UNCHANGED edgeVars
  PROVE  /\ Waiting' = dirty' \cup Downstream(stack')
         /\ Downstream(redirty)' = Downstream(redirty')
BY ReadersStable DEF Waiting, Downstream, ClosedFrom

(* Between calls what waits is what is dirty.                                *)
LEMMA WaitingWhenIdle == stack = {} => Waiting = dirty
BY DownstreamEmpty DEF Waiting

(* A mark makes the marked formulas and all that is downstream wait.         *)
LEMMA WaitingMarked ==
  ASSUME NEW S, MarkDirty(S)
  PROVE  Waiting' = dirty \cup Affected(S) /\ Waiting = dirty
<1>1. UNCHANGED edgeVars /\ dirty' = dirty \cup (S \cap nodes) /\ stack' = S
  BY DEF MarkDirty, Pushed
<1>2. Waiting' = dirty' \cup Downstream(S)
  BY <1>1, WaitingMoved
<1>3. Waiting = dirty
  BY WaitingWhenIdle DEF MarkDirty, Idle
<1> QED
  BY <1>1, <1>2, <1>3 DEF Affected

(* One turn of propagate's loop neither loses nor adds a formula: what it    *)
(* finds was downstream, and what was downstream is found or still is.       *)
LEMMA WaitingKept ==
  ASSUME Inv, rewired = {}, NEW x \in Cell, PropagateStep(x)
  PROVE  Waiting' = Waiting
<1>1. UNCHANGED <<edgeVars, rewired>> /\ x \in stack
  BY DEF PropagateStep
<1>2. /\ dirty' = dirty \cup Readers(x)
      /\ stack' = (stack \ {x}) \cup (Readers(x) \ dirty)
  BY NeighboursAreReaders DEF PropagateStep, Fresh, Inv
<1>3. Waiting' = dirty' \cup Downstream(stack')
  BY <1>1, WaitingMoved
<1>4. Waiting' \subseteq Waiting
  <2>1. Readers(x) \subseteq Downstream(stack)
    BY <1>1, DownstreamHoldsReaders
  <2>2. \A y \in stack' \cup Downstream(stack) : Readers(y) \subseteq Downstream(stack)
    BY <1>2, <2>1, DownstreamHoldsReaders
  <2>3. Downstream(stack') \subseteq Downstream(stack)
    BY <2>2, DownstreamIsLeast, DownstreamCells
  <2> QED
    BY <1>2, <1>3, <2>1, <2>3 DEF Waiting
<1>5. Waiting \subseteq Waiting'
  <2> DEFINE T == dirty' \cup Downstream(stack')
  <2>1. ClosureInv' /\ TypeOK'
    BY InvNext DEF Inv, Next
  <2>2. ASSUME NEW y \in dirty' PROVE Readers(y) \subseteq T
    <3>1. y \in stack' \/ Readers(y) \subseteq dirty'
      BY <1>1, <2>1, <2>2, ReadersStable DEF ClosureInv, Settled
    <3> QED
      BY <3>1, DownstreamHoldsReaders
  <2>3. \A y \in stack' \cup Downstream(stack') : Readers(y) \subseteq T
    BY DownstreamHoldsReaders
  <2>4. stack \subseteq stack' \cup {x} /\ Readers(x) \subseteq T
    BY <1>2
  <2>5. T \in SUBSET Cell
    BY <2>1, DownstreamCells DEF TypeOK
  <2>6. \A y \in stack \cup T : Readers(y) \subseteq T
    BY <2>2, <2>3, <2>4
  <2>7. Downstream(stack) \subseteq T
    BY <2>5, <2>6, DownstreamIsLeast
  <2> QED
    BY <1>2, <1>3, <2>7 DEF Waiting
<1> QED
  BY <1>4, <1>5

(* Removing a formula cuts what was downstream only where it is downstream   *)
(* of the removed cell.                                                      *)
LEMMA DownstreamRemoved ==
  ASSUME TypeOK, NEW c \in Cell, RemoveNode(c), NEW S
  PROVE  Downstream(S) \subseteq Downstream(S)' \cup Downstream({c})' \cup {c}
<1> DEFINE T == Downstream(S)' \cup Downstream({c})' \cup {c}
<1>1. nodes' = nodes \ {c} /\ \A d \in Cell \ {c} : prec'[d] = prec[d]
  BY DEF RemoveNode, TypeOK
<1>2. \A x : Readers(x) \subseteq Readers(x)' \cup {c}
  BY <1>1 DEF Readers, Reads, TypeOK
<1>3. ASSUME NEW D, NEW x \in D \cup Downstream(D)'
      PROVE  Readers(x)' \subseteq Downstream(D)'
  <2> SUFFICES ASSUME NEW r \in Readers(x)', NEW U \in SUBSET Cell, ClosedFrom(D, U)'
               PROVE  r \in U
    BY DEF Downstream, Readers
  <2>1. x \in D \cup U
    BY <1>3 DEF Downstream
  <2> QED
    BY <2>1 DEF ClosedFrom
<1>4. /\ \A x \in S \cup Downstream(S)' : Readers(x)' \subseteq Downstream(S)'
      /\ \A x \in {c} \cup Downstream({c})' : Readers(x)' \subseteq Downstream({c})'
  BY <1>3
<1>5. \A x \in S \cup T : Readers(x) \subseteq T
  BY <1>2, <1>4
<1>6. T \in SUBSET Cell
  BY DEF Downstream
<1> QED
  BY <1>5, <1>6, DownstreamIsLeast

-----------------------------------------------------------------------------
(* Where the formulas that are out of date are accounted for. *)

(* Removing the edited formula: what its edges kept downstream is downstream *)
(* of the cell itself, which the edit is about to mark.                      *)
LEMMA StaleRemove == DriverInv /\ RemoveFormula => StaleInv'
<1> SUFFICES ASSUME DriverInv, RemoveFormula PROVE StaleInv'
  OBVIOUS
<1> USE DEF DriverInv, DriverTypeOK, RemoveFormula
<1>1. /\ dirty' = dirty \ {cell} /\ stale' = stale \ {cell}
      /\ redirty' = redirty /\ cell' = cell /\ pc' = "seed"
  BY DEF RemoveNode, spillVars
<1>2. Downstream(redirty) \subseteq
        Downstream(redirty)' \cup Downstream({cell})' \cup {cell}
  <2>1. \A S : Downstream(S) \subseteq Downstream(S)' \cup Downstream({cell})' \cup {cell}
    <3>1. \A S, c : c = cell => Downstream(S) \subseteq Downstream(S)' \cup Downstream({c})' \cup {c}
      BY DownstreamRemoved DEF Inv
    <3>2. \A c : c = cell' => Downstream({c})' = Downstream({cell})'
      BY DEF Downstream, ClosedFrom
    <3> QED
      BY <1>1, <3>1, <3>2
  <2>2. \A S : S = redirty' => Downstream(S)' = Downstream(redirty)'
    BY DEF Downstream, ClosedFrom
  <2> QED
    BY <1>1, <2>1, <2>2
<1>3. stale \subseteq dirty \cup Downstream(redirty)
  BY DEF StaleInv
<1>4. stale' \subseteq dirty' \cup Downstream(redirty)' \cup Downstream({cell})'
  BY <1>1, <1>2, <1>3
<1>5. Downstream({cell})' \subseteq Affected({cell})'
  BY DEF Affected
<1> QED
  BY <1>1, <1>4, <1>5 DEF StaleInv

(* The formulas that a mark puts out of date are those it makes wait.        *)
LEMMA StaleMark ==
  DriverInv /\ (SeedEdit \/ SeedVolatile \/ DrainRedirty) => StaleInv'
<1> SUFFICES ASSUME DriverInv PROVE SeedEdit \/ SeedVolatile \/ DrainRedirty => StaleInv'
  OBVIOUS
<1>1. ASSUME SeedEdit PROVE StaleInv'
  <2>1. /\ MarkDirty({cell}) /\ pc' = "volatile" /\ redirty' = redirty
        /\ stale' = stale \cup Affected({cell})
        /\ stale \subseteq dirty \cup Downstream(redirty) \cup Affected({cell})
    BY <1>1 DEF SeedEdit, EditSeeds, spillVars, DriverInv, StaleInv
  <2>2. Waiting' = dirty \cup Affected({cell})
    BY <2>1, WaitingMarked
  <2>3. Downstream(redirty)' = Downstream(redirty)
    BY <2>1, WaitingMoved DEF MarkDirty
  <2> QED
    BY <2>1, <2>2, <2>3 DEF StaleInv
<1>2. ASSUME SeedVolatile PROVE StaleInv'
  <2>1. /\ MarkDirty(volatile) /\ pc' = "take" /\ redirty' = redirty
        /\ stale' = stale \cup Affected(volatile)
        /\ stale \subseteq Waiting \cup Downstream(redirty)
    BY <1>2 DEF SeedVolatile, MarkVolatileDirty, spillVars, DriverInv, StaleInv
  <2>2. Waiting' = dirty \cup Affected(volatile) /\ Waiting = dirty
    BY <2>1, WaitingMarked
  <2>3. Downstream(redirty)' = Downstream(redirty)
    BY <2>1, WaitingMoved DEF MarkDirty
  <2> QED
    BY <2>1, <2>2, <2>3 DEF StaleInv
<1>3. ASSUME DrainRedirty PROVE StaleInv'
  <2>1. /\ MarkDirty(redirty) /\ pc' = "retake" /\ stale' = stale
        /\ stale \subseteq Downstream(redirty)
    BY <1>3 DEF DrainRedirty, DriverInv, StaleInv
  <2>2. Waiting' = dirty \cup Affected(redirty)
    BY <2>1, WaitingMarked
  <2> QED
    BY <2>1, <2>2 DEF StaleInv, Affected
<1> QED
  BY <1>1, <1>2, <1>3

(* A plan holds what waits.                                                  *)
LEMMA StaleTake == DriverInv /\ (TakeEditPlan \/ TakePassPlan) => StaleInv'
<1> SUFFICES ASSUME DriverInv, TakeEditPlan \/ TakePassPlan PROVE StaleInv'
  OBVIOUS
<1>1. /\ stack = {} /\ planned' = Scheduled(dirty) /\ dirty' = {} /\ UNCHANGED edgeVars
      /\ stale' = stale /\ redirty' = redirty
  BY DEF TakeEditPlan, TakePassPlan, TakeRecalcPlan, Idle, Emptied, spillVars
<1>2. Waiting = dirty /\ dirty \subseteq planned'
  BY <1>1, WaitingWhenIdle DEF Scheduled, DriverInv, Inv, DirtyAreNodes
<1>3. Downstream(redirty)' = Downstream(redirty)
  BY <1>1, WaitingMoved
<1>4. CASE TakeEditPlan
  BY <1>1, <1>2, <1>3, <1>4 DEF TakeEditPlan, DriverInv, StaleInv
<1>5. CASE TakePassPlan
  <2>1. stale \subseteq dirty
    BY <1>2, <1>5 DEF TakePassPlan, DriverInv, StaleInv
  <2> QED
    BY <1>1, <1>2, <2>1, <1>5 DEF TakePassPlan, StaleInv
<1> QED
  BY <1>4, <1>5

(* A pass leaves out of date only what reads the cells it changed.           *)
LEMMA StaleExecute ==
  ASSUME DriverInv, NEW A, NEW U, NEW W, Execute(A, U, W)
  PROVE  StaleInv'
<1>1. /\ UNCHANGED edgeVars /\ redirty' = redirty \cup W /\ pc' = "drain"
      /\ stale' = (stale \ planned) \cup Downstream(W)
      /\ stale \subseteq planned \cup Downstream(redirty)
  BY DEF Execute, DriverInv, StaleInv
<1>2. /\ Downstream(redirty) \subseteq Downstream(redirty')
      /\ Downstream(W) \subseteq Downstream(redirty')
  BY <1>1, DownstreamMonotone
<1>3. stale' \subseteq Downstream(redirty)'
  BY <1>1, <1>2, WaitingMoved
<1> QED
  BY <1>1, <1>3 DEF StaleInv

(* A refusal adds its own cells to those that are drained next.  The loop    *)
(* does not give up here: an anchor is left to refuse.                       *)
LEMMA StaleOverCap ==
  ASSUME DriverInv, NEW V \in SUBSET Cell, OverCap(V)
  PROVE  StaleInv'
<1> DEFINE new == unstable \ refused
<1>1. new # {}
  BY CapAssumption DEF OverCap, UnderCap, DriverInv, DriverTypeOK, PendingInv
<1>2. /\ UNCHANGED edgeVars /\ pc' = "drain"
      /\ redirty' = redirty \cup V \cup new
      /\ stale' = stale \cup Downstream(V \cup new)
      /\ stale \subseteq Downstream(redirty)
  BY <1>1 DEF OverCap, Reseeded, DriverInv, StaleInv
<1>3. /\ Downstream(redirty) \subseteq Downstream(redirty')
      /\ Downstream(V \cup new) \subseteq Downstream(redirty')
  BY <1>2, DownstreamMonotone
<1>4. stale' \subseteq Downstream(redirty)'
  BY <1>2, <1>3, WaitingMoved
<1> QED
  BY <1>2, <1>4 DEF StaleInv

(* propagate runs only where every rewired cell has been marked.             *)
LEMMA PropagatingPhase ==
  ASSUME DriverInv, NEW x \in Cell, Propagate(x)
  PROVE  rewired = {} /\ pc \in {"install", "volatile", "take", "retake"}
BY DEF Propagate, PropagateStep, DriverInv, PhaseInv, Unmarked, DriverTypeOK

(* propagate moves what is out of date from the worklist to the dirty set.   *)
LEMMA StalePropagate ==
  ASSUME DriverInv, NEW x \in Cell, Propagate(x)
  PROVE  StaleInv'
<1>1. Waiting' = Waiting
  BY PropagatingPhase, WaitingKept DEF DriverInv, Propagate
<1>2. Downstream(redirty)' = Downstream(redirty)
  BY WaitingMoved DEF Propagate, PropagateStep, driverVars, spillVars
<1> QED
  BY <1>1, <1>2, PropagatingPhase DEF Propagate, driverVars, spillVars, DriverInv, StaleInv

(* Every step accounts for the formulas that it leaves out of date.          *)
LEMMA StaleStep == DriverInv /\ [DriverNext]_allVars => StaleInv'
<1> SUFFICES ASSUME DriverInv, [DriverNext]_allVars PROVE StaleInv'
  OBVIOUS
<1>1. LoadFormula \/ LoadVolatile \/ LoadDone => StaleInv'
  BY DEF LoadFormula, LoadVolatile, LoadDone, driverVars, spillVars, DriverInv, StaleInv
<1>2. ASSUME NEW c \in Cell, NEW owner \in Cell, EditSpilledCell(c, owner)
      PROVE  StaleInv'
  <2>1. Waiting' = dirty \cup Affected({owner})
    BY <1>2, WaitingMarked DEF EditSpilledCell
  <2> QED
    BY <1>2, <2>1 DEF EditSpilledCell, DriverInv, StaleInv
<1>3. ASSUME NEW c, EditCell(c) PROVE StaleInv'
  BY <1>3 DEF EditCell, DriverInv, StaleInv
<1>4. StartRecalc => StaleInv'
  BY DEF StartRecalc, StaleInv
<1>5. ASSUME NEW P, InstallFormula(P) PROVE StaleInv'
  <2>1. stale \subseteq dirty
    BY <1>5, WaitingWhenIdle DEF InstallFormula, SetDeps, Idle, DriverInv, StaleInv
  <2> QED
    BY <1>5, <2>1 DEF InstallFormula, SetDeps, StaleInv, Waiting
<1>6. ASSUME NEW flag, InstallFlag(flag) PROVE StaleInv'
  <2>1. stale \subseteq dirty
    BY <1>6, WaitingWhenIdle DEF InstallFlag, RegisterVolatile, Idle, DriverInv, StaleInv
  <2> QED
    BY <1>6, <2>1 DEF InstallFlag, RegisterVolatile, StaleInv
<1>7. ASSUME NEW S \in SUBSET Cell, InstallLiteral(S) PROVE StaleInv'
  <2>1. /\ stale \subseteq dirty /\ dirty' = dirty /\ pc' = "remove"
        /\ stale' = stale \cup Downstream(S) /\ redirty' = S
    BY <1>7, WaitingWhenIdle DEF InstallLiteral, SetDynamicDeps, Idle, DriverInv, StaleInv
  <2>2. Downstream(redirty)' = Downstream(S)
    BY <1>7, <2>1, WaitingMoved DEF InstallLiteral, SetDynamicDeps
  <2> QED
    BY <2>1, <2>2 DEF StaleInv
<1>8. Converged => StaleInv'
  BY DownstreamEmpty DEF Converged, DriverInv, StaleInv
<1>9. Return => StaleInv'
  BY DEF Return, DriverInv, StaleInv
<1>10. UNCHANGED allVars => StaleInv'
  <2> SUFFICES ASSUME UNCHANGED allVars PROVE StaleInv'
    OBVIOUS
  <2>1. UNCHANGED <<edgeVars, dirty, stack, planned, driverVars>>
    BY DEF allVars, vars
  <2>2. Waiting' = Waiting /\ Downstream(redirty)' = Downstream(redirty)
    BY <2>1, WaitingMoved DEF Waiting, driverVars, spillVars
  <2>3. Affected({cell})' = Affected({cell})
    BY <2>1, ReadersStable DEF Affected, Downstream, ClosedFrom, edgeVars, driverVars
  <2> QED
    BY <2>1, <2>2, <2>3 DEF driverVars, spillVars, DriverInv, StaleInv
<1> QED
  BY <1>1, <1>2, <1>3, <1>4, <1>5, <1>6, <1>7, <1>8, <1>9, <1>10, StaleRemove,
     StaleMark, StaleTake, StaleExecute, StaleOverCap, StalePropagate
  DEF DriverNext, CallEngine, EngineStep

-----------------------------------------------------------------------------
(* The theorems. *)

(* The inductive invariant of the driver and the graph under it.             *)
THEOREM DriverInvHolds == DriverSpec => []DriverInv
<1>1. DriverInit => DriverInv
  <2> SUFFICES ASSUME DriverInit PROVE DriverInv
    OBVIOUS
  <2>1. Inv
    BY DEF DriverInit, Init, Inv, TypeOK, Precedents, NoPrecedents, EdgesMirror,
           DirtyAreNodes, ClosureInv
  <2>2. DriverTypeOK
    BY <2>1, CapAssumption DEF DriverInit, DriverTypeOK, Inv
  <2> QED
    BY <2>1, <2>2 DEF DriverInit, Init, DriverInv, PhaseInv, Unmarked, PendingInv, StaleInv
<1>2. DriverInv /\ [DriverNext]_allVars => DriverInv'
  BY GraphInvStep, DriverTypeStep, PhaseStep, PendingStep, StaleStep DEF DriverInv
<1> QED
  BY <1>1, <1>2, PTL DEF DriverSpec

(* Between two calls of the engine no formula is out of date, whatever was   *)
(* edited, volatile or spilled, and however often a recalculation looped.    *)
THEOREM NothingIsStale == DriverSpec => []NothingStale
<1>1. DriverInv => NothingStale
  BY DEF DriverInv, StaleInv, NothingStale
<1> QED
  BY <1>1, DriverInvHolds, PTL

(* The engine marks every cell it rewires before it takes a plan.            *)
THEOREM RewiredCellsAreMarked == DriverSpec => []RewiredAreMarked
<1>1. DriverInv => RewiredAreMarked
  BY DEF DriverInv, PhaseInv, RewiredAreMarked
<1> QED
  BY <1>1, DriverInvHolds, PTL

(* Over the cap an anchor is left to refuse, so no pending cell is dropped.  *)
THEOREM PendingCellsAreKept == DriverSpec => []NeverDropsPending
<1>1. DriverInv => NeverDropsPending
  BY CapAssumption DEF DriverInv, DriverTypeOK, PendingInv, NeverDropsPending
<1> QED
  BY <1>1, DriverInvHolds, PTL

-----------------------------------------------------------------------------
(* The driver implements DirtySpec.  The graph's worklist, its reverse edges *)
(* and its index disappear: what waits for propagate counts as dirty.        *)

(* The pairs <<c, x>> of a formula c and a cell x that it reads.             *)
ReadsPairs == {e \in Cell \X Cell : Reads(e[1], e[2])}

(* Both specifications mean the same by downstream.                          *)
LEMMA SameDownstream ==
  ASSUME NEW S \in SUBSET Cell
  PROVE  Dirtiness!Downstream(S) = Downstream(S)
<1>1. ASSUME NEW T \in SUBSET Cell
      PROVE  (\A e \in ReadsPairs : e[2] \in S \cup T => e[1] \in T) <=> ClosedFrom(S, T)
  <2>1. ASSUME \A e \in ReadsPairs : e[2] \in S \cup T => e[1] \in T,
               NEW x \in S \cup T, NEW c \in Readers(x)
        PROVE  c \in T
    <3>1. <<c, x>> \in ReadsPairs
      BY DEF Readers, ReadsPairs
    <3> QED
      BY <2>1, <3>1
  <2>2. ASSUME ClosedFrom(S, T), NEW e \in ReadsPairs, e[2] \in S \cup T
        PROVE  e[1] \in T
    <3>1. e[1] \in Readers(e[2])
      BY DEF Readers, ReadsPairs
    <3> QED
      BY <2>2, <3>1 DEF ClosedFrom
  <2> QED
    BY <2>1, <2>2 DEF ClosedFrom
<1> QED
  BY <1>1 DEF Dirtiness!Downstream, Downstream, ReadsPairs

(* While the edges stay, so do the formulas and the pairs.                   *)
LEMMA PairsStable ==
  ASSUME UNCHANGED edgeVars
  PROVE  nodes' = nodes /\ ReadsPairs' = ReadsPairs
BY DEF ReadsPairs, Reads, edgeVars

(* set_deps enters a formula.                                                *)
LEMMA SetDepsEnters ==
  ASSUME TypeOK, NEW c \in Cell, NEW P \in Formulas[c], SetDeps(c, P)
  PROVE  Dirtiness!Next
<1> DEFINE X == {x \in Cell : Reads(c, x)'}
<1>1. /\ nodes' = nodes \cup {c} /\ dirty' = dirty /\ stack = {} /\ stack' = {}
      /\ planned' = planned /\ \A d \in Cell \ {c} : prec'[d] = prec[d]
  BY DEF SetDeps, Idle, TypeOK
<1>2. ReadsPairs' = {e \in ReadsPairs : e[1] # c} \cup {<<c, x>> : x \in X}
  <2>1. \A d \in Cell \ {c}, x \in Cell : Reads(d, x)' <=> Reads(d, x)
    BY <1>1 DEF Reads
  <2>2. ASSUME NEW e \in ReadsPairs'
        PROVE  e \in {f \in ReadsPairs : f[1] # c} \cup {<<c, x>> : x \in X}
    <3>1. e = <<e[1], e[2]>> /\ e[1] \in Cell /\ e[2] \in Cell /\ Reads(e[1], e[2])'
      BY DEF ReadsPairs
    <3>2. CASE e[1] = c
      BY <3>1, <3>2
    <3>3. CASE e[1] # c
      BY <2>1, <3>1, <3>3 DEF ReadsPairs
    <3> QED
      BY <3>2, <3>3
  <2>3. ASSUME NEW e \in ReadsPairs, e[1] # c PROVE e \in ReadsPairs'
    BY <2>1, <2>3 DEF ReadsPairs
  <2>4. \A x \in X : <<c, x>> \in ReadsPairs'
    BY DEF ReadsPairs
  <2> QED
    BY <2>2, <2>3, <2>4
<1>3. Waiting' = Waiting
  BY <1>1, DownstreamEmpty, WaitingWhenIdle DEF Waiting, Downstream, ClosedFrom
<1>4. Dirtiness!Enter(c, X)
  BY <1>1, <1>2, <1>3 DEF Dirtiness!Enter, ReadsPairs
<1> QED
  BY <1>4 DEF Dirtiness!Next

(* remove_node clears a formula.                                             *)
LEMMA RemoveNodeClears ==
  ASSUME TypeOK, NEW c \in Cell, RemoveNode(c)
  PROVE  Dirtiness!Next
<1>1. /\ nodes' = nodes \ {c} /\ dirty' = dirty \ {c} /\ stack = {} /\ stack' = {}
      /\ planned' = planned /\ \A d \in Cell \ {c} : prec'[d] = prec[d]
  BY DEF RemoveNode, Idle, TypeOK
<1>2. ReadsPairs' = {e \in ReadsPairs : e[1] # c}
  BY <1>1 DEF ReadsPairs, Reads
<1>3. Waiting' = Waiting \ {c}
  BY <1>1, DownstreamEmpty, WaitingWhenIdle DEF Waiting, Downstream, ClosedFrom
<1>4. Dirtiness!Clear(c)
  BY <1>1, <1>2, <1>3 DEF Dirtiness!Clear, ReadsPairs
<1> QED
  BY <1>4 DEF Dirtiness!Next

(* mark_dirty marks all that is downstream at once.                          *)
LEMMA MarkDirtyMarks ==
  ASSUME NEW S \in SUBSET Cell, MarkDirty(S)
  PROVE  Dirtiness!Next
<1>1. UNCHANGED <<edgeVars, planned>>
  BY DEF MarkDirty
<1>2. Waiting' = Waiting \cup (S \cap nodes) \cup Dirtiness!Downstream(S)
  BY WaitingMarked, SameDownstream DEF Affected
<1>3. Dirtiness!Mark(S)
  BY <1>1, <1>2, PairsStable DEF Dirtiness!Mark, ReadsPairs
<1> QED
  BY <1>3 DEF Dirtiness!Next

(* The plan schedules the dirty formulas, no more: a circular group with a   *)
(* dirty member is dirty as a whole.                                         *)
LEMMA ScheduledAreDirty ==
  ASSUME Inv, stack = {}, rewired = {}
  PROVE  Scheduled(dirty) = dirty
<1>1. \A d \in dirty : Readers(d) \subseteq dirty
  BY DEF Inv, ClosureInv, Settled
<1>2. dirty \in SUBSET Cell /\ dirty \subseteq nodes
  BY DEF Inv, TypeOK, DirtyAreNodes
<1>3. ASSUME NEW m \in dirty PROVE Downstream({m}) \subseteq dirty
  BY <1>1, <1>2, DownstreamIsLeast
<1> QED
  BY <1>2, <1>3 DEF Scheduled

(* recalc_plan takes the plan of what waits.                                 *)
LEMMA TakePlanTakes ==
  ASSUME Inv, rewired = {}, TakeRecalcPlan
  PROVE  Dirtiness!Next
<1>1. /\ stack = {} /\ stack' = {} /\ dirty' = {} /\ planned' = Scheduled(dirty)
      /\ UNCHANGED edgeVars
  BY DEF TakeRecalcPlan, Idle, Emptied
<1>2. planned' = Waiting
  BY <1>1, ScheduledAreDirty, WaitingWhenIdle
<1>3. Waiting' = {}
  BY <1>1, WaitingMoved, DownstreamEmpty
<1>4. Dirtiness!TakePlan
  BY <1>1, <1>2, <1>3, PairsStable DEF Dirtiness!TakePlan, ReadsPairs
<1> QED
  BY <1>4 DEF Dirtiness!Next

(* Where the graph's part of the state does not move, DirtySpec's does not.  *)
LEMMA DirtinessStutters ==
  ASSUME UNCHANGED <<edgeVars, planned>>, Waiting' = Waiting
  PROVE  UNCHANGED Dirtiness!vars
BY PairsStable DEF Dirtiness!vars, ReadsPairs

(* Nothing that DirtySpec sees moves with the flags and the call alone.      *)
LEMMA UnmarkedStutters ==
  ASSUME UNCHANGED <<edgeVars, planned, dirty, stack>>
  PROVE  UNCHANGED Dirtiness!vars
BY WaitingMoved, DirtinessStutters DEF Waiting

(* Every step of the driver is a step of DirtySpec or leaves it where it is. *)
LEMMA DirtinessStep ==
  DriverInv /\ [DriverNext]_allVars => [Dirtiness!Next]_(Dirtiness!vars)
<1> SUFFICES ASSUME DriverInv, [DriverNext]_allVars
             PROVE  Dirtiness!Next \/ UNCHANGED Dirtiness!vars
  OBVIOUS
<1>1. TypeOK /\ Inv /\ DriverTypeOK
  BY DEF DriverInv, Inv
<1>2. LoadFormula => Dirtiness!Next
  BY <1>1, SetDepsEnters DEF LoadFormula
<1>3. LoadVolatile => UNCHANGED Dirtiness!vars
  BY UnmarkedStutters DEF LoadVolatile, RegisterVolatile
<1>4. ASSUME NEW c \in Cell, NEW owner \in Cell, EditSpilledCell(c, owner)
      PROVE  Dirtiness!Next
  BY <1>4, MarkDirtyMarks DEF EditSpilledCell
<1>5. ASSUME UNCHANGED vars PROVE UNCHANGED Dirtiness!vars
  BY <1>5, UnmarkedStutters DEF vars
<1>6. StartRecalc => Dirtiness!Next
  <2> SUFFICES ASSUME StartRecalc PROVE Dirtiness!Next
    OBVIOUS
  <2>1. UNCHANGED <<edgeVars, dirty, stack>> /\ planned' = nodes
    BY DEF StartRecalc
  <2>2. Waiting' = Waiting
    BY <2>1, WaitingMoved DEF Waiting
  <2>3. Dirtiness!PlanAll
    BY <2>1, <2>2, PairsStable DEF Dirtiness!PlanAll, ReadsPairs
  <2> QED
    BY <2>3 DEF Dirtiness!Next
<1>7. ASSUME NEW P \in Formulas[cell], InstallFormula(P) PROVE Dirtiness!Next
  BY <1>1, <1>7, SetDepsEnters DEF InstallFormula, DriverTypeOK
<1>8. ASSUME NEW flag, InstallFlag(flag) PROVE UNCHANGED Dirtiness!vars
  BY <1>8, UnmarkedStutters DEF InstallFlag, RegisterVolatile
<1>9. ASSUME NEW S, InstallLiteral(S) PROVE UNCHANGED Dirtiness!vars
  BY <1>9, UnmarkedStutters DEF InstallLiteral, SetDynamicDeps
<1>10. RemoveFormula => Dirtiness!Next
  BY <1>1, RemoveNodeClears DEF RemoveFormula, DriverTypeOK
<1>11. SeedEdit \/ SeedVolatile \/ DrainRedirty => Dirtiness!Next
  <2>1. SeedEdit => MarkDirty({cell}) /\ {cell} \in SUBSET Cell
    BY <1>1 DEF SeedEdit, EditSeeds, DriverTypeOK
  <2>2. SeedVolatile => MarkDirty(volatile) /\ volatile \in SUBSET Cell
    BY <1>1 DEF SeedVolatile, MarkVolatileDirty, TypeOK
  <2>3. DrainRedirty => MarkDirty(redirty) /\ redirty \in SUBSET Cell
    BY <1>1 DEF DrainRedirty, DriverTypeOK
  <2> QED
    BY <2>1, <2>2, <2>3, MarkDirtyMarks
<1>12. TakeEditPlan \/ TakePassPlan => Dirtiness!Next
  BY <1>1, TakePlanTakes DEF TakeEditPlan, TakePassPlan, DriverInv, PhaseInv
<1>13. ASSUME NEW A, NEW U, NEW W, Execute(A, U, W) PROVE UNCHANGED Dirtiness!vars
  BY <1>13, UnmarkedStutters DEF Execute
<1>14. ASSUME NEW V, OverCap(V) PROVE UNCHANGED Dirtiness!vars
  BY <1>14, UnmarkedStutters DEF OverCap
<1>15. Return => UNCHANGED Dirtiness!vars
  BY UnmarkedStutters
  DEF Return, ClearDirty, Emptied, DriverInv, PhaseInv, Unmarked
<1>16. ASSUME NEW x \in Cell, Propagate(x) PROVE UNCHANGED Dirtiness!vars
  BY <1>1, <1>16, PropagatingPhase, WaitingKept, DirtinessStutters
  DEF Propagate, PropagateStep
<1>17. LoadDone \/ Converged \/ UNCHANGED allVars => UNCHANGED vars
  BY DEF LoadDone, Converged, allVars
<1>18. ASSUME NEW c, EditCell(c) PROVE UNCHANGED vars
  BY <1>18 DEF EditCell
<1> QED
  BY <1>2, <1>3, <1>4, <1>5, <1>6, <1>7, <1>8, <1>9, <1>10, <1>11, <1>12, <1>13,
     <1>14, <1>15, <1>16, <1>17, <1>18
  DEF DriverNext, CallEngine, EngineStep

(* The driver's graph does what mark_dirty documents, for every workbook:    *)
(* a mark reaches all transitive dependents, cycles included, and the plan   *)
(* taken next schedules exactly the dirty formulas.                          *)
THEOREM DriverImplementsDirtySpec == DriverSpec => DirtinessSpec
<1>1. DriverInit => Dirtiness!Init
  <2> SUFFICES ASSUME DriverInit PROVE Dirtiness!Init
    OBVIOUS
  <2>1. nodes = {} /\ dirty = {} /\ stack = {} /\ planned = {}
    BY DEF DriverInit, Init
  <2>2. Waiting = {} /\ ReadsPairs = {}
    BY <2>1, WaitingWhenIdle DEF ReadsPairs, Reads
  <2> QED
    BY <2>1, <2>2 DEF Dirtiness!Init, ReadsPairs
<1> QED
  BY <1>1, DirtinessStep, DriverInvHolds, PTL DEF DriverSpec, DirtinessSpec, Dirtiness!Spec
=============================================================================
