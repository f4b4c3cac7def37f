------------------------------- MODULE DepGraph -------------------------------
(***************************************************************************)
(* The dependency graph of a workbook: crate xl-graph, struct DepGraph.    *)
(*                                                                         *)
(* A node is a formula cell.  The graph keeps every node's precedents      *)
(* (forward edges), the reverse edges of its single-cell precedents, a     *)
(* per-sheet index of its range precedents, two flags, and the dirty set:  *)
(* the formulas the next incremental plan will recompute.                  *)
(*                                                                         *)
(* Geometry is abstract: a range is a name for the set of cells it covers  *)
(* (RangeIndex models the sorted array that answers that question).  The   *)
(* maps of sets that the code prunes when a set becomes empty are total    *)
(* functions here, {} standing for an absent entry: every read of the maps *)
(* treats the two alike.  The worklist of propagate is a set: the code     *)
(* pops a vector, and the theorems hold for every order of popping.        *)
(***************************************************************************)
EXTENDS Integers, FiniteSets

CONSTANTS
  Cell,        \* the cells of the workbook
  SheetRange,  \* the rectangles some formula names
  Sheet,       \* the sheets
  CellSheet,   \* [Cell -> Sheet]
  RangeSheet,  \* [SheetRange -> Sheet], the sheet a rectangle lies on
  Covers,      \* [SheetRange -> SUBSET Cell]; {} for a degenerate rectangle
  Formulas,    \* [Cell -> SUBSET Precedents], what may be entered in a cell
  Flaggable    \* the cells that register_volatile, set_dynamic_deps name

\* The precedents of one formula, coalesced into sets as Node stores them.
Precedents == [cells : SUBSET Cell, ranges : SUBSET SheetRange]
NoPrecedents == [cells |-> {}, ranges |-> {}]

ASSUME SheetAssumption ==
  /\ CellSheet \in [Cell -> Sheet]
  /\ RangeSheet \in [SheetRange -> Sheet]

\* SheetRange::contains: a range and a cell of another sheet never intersect.
ASSUME CoversAssumption ==
  /\ Covers \in [SheetRange -> SUBSET Cell]
  /\ \A r \in SheetRange : \A c \in Covers[r] : CellSheet[c] = RangeSheet[r]

ASSUME FormulasAssumption == Formulas \in [Cell -> SUBSET Precedents]
ASSUME FlaggableAssumption == Flaggable \subseteq Cell

VARIABLES
  nodes,       \* the formula cells
  prec,        \* prec[c]: the stored precedents of c, none if c is no node
  dependents,  \* dependents[p]: the cells that name p as a single cell
  ranges,      \* ranges[s]: the <<range, dependent>> entries of sheet s
  volatile,    \* cells registered volatile (a node or not)
  dynamic,     \* cells flagged as having dynamic dependencies
  dirty,       \* the formulas awaiting a plan
  stack,       \* the worklist of a propagate call in progress
  planned,     \* the cells the last plan taken schedules
  edited,      \* history: seeds marked since the dirty set was last emptied
  rewired      \* history: cells rewired after such marks, not marked since

edgeVars == <<nodes, prec, dependents, ranges>>
flagVars == <<volatile, dynamic>>
vars == <<edgeVars, flagVars, dirty, stack, planned, edited, rewired>>

TypeOK ==
  /\ nodes \subseteq Cell
  /\ prec \in [Cell -> Precedents]
  /\ dependents \in [Cell -> SUBSET Cell]
  /\ ranges \in [Sheet -> SUBSET (SheetRange \X Cell)]
  /\ volatile \subseteq Cell
  /\ dynamic \subseteq Cell
  /\ dirty \subseteq Cell
  /\ stack \subseteq Cell
  /\ planned \subseteq Cell
  /\ edited \subseteq Cell
  /\ rewired \subseteq Cell

Init ==
  /\ nodes = {}
  /\ prec = [c \in Cell |-> NoPrecedents]
  /\ dependents = [c \in Cell |-> {}]
  /\ ranges = [s \in Sheet |-> {}]
  /\ volatile = {}
  /\ dynamic = {}
  /\ dirty = {}
  /\ stack = {}
  /\ planned = {}
  /\ edited = {}
  /\ rewired = {}

-----------------------------------------------------------------------------
(* What reads what. *)

\* The meaning of the graph: node c reads x if a precedent of c is or covers x.
Reads(c, x) ==
  /\ c \in nodes
  /\ \/ x \in prec[c].cells
     \/ \E r \in prec[c].ranges : x \in Covers[r]

Readers(x) == {c \in Cell : Reads(c, x)}

\* T holds the readers of every cell of S and of its own cells.
ClosedFrom(S, T) == \A x \in S \cup T : Readers(x) \subseteq T

\* The transitive readers of S: the least set closed from S.
Downstream(S) ==
  {c \in Cell : \A T \in SUBSET Cell : ClosedFrom(S, T) => c \in T}

\* The dependents of every indexed range of x's sheet that covers x.
Query(x) == {e[2] : e \in {f \in ranges[CellSheet[x]] : x \in Covers[f[1]]}}

\* Fault: the readers through ranges are left out.
Neighbours_CellsOnly(x) == dependents[x]

\* What propagate looks up for one popped cell.
Neighbours(x) == dependents[x] \cup Query(x)

\* The neighbours that inserting into the dirty set finds new.
Fresh(x) == Neighbours(x) \ dirty

-----------------------------------------------------------------------------
(* Building the graph.  No operation starts while propagate is running:    *)
(* every one of them takes the graph by exclusive reference.               *)

Idle == stack = {}

\* Fault: only the index of the formula's own sheet is cleared.
DetachedRanges_OwnSheet(c) ==
  [s \in Sheet |-> IF s = CellSheet[c] THEN {e \in ranges[s] : e[2] # c} ELSE ranges[s]]

\* The reverse edges and the index once detach_precedents(c) has run.
DetachedDependents(c) ==
  [p \in Cell |-> IF p \in prec[c].cells THEN dependents[p] \ {c}
                                         ELSE dependents[p]]

DetachedRanges(c) ==
  [s \in Sheet |-> IF \E r \in prec[c].ranges : RangeSheet[r] = s
                   THEN {e \in ranges[s] : e[2] # c}
                   ELSE ranges[s]]

SetDeps(c, P) ==
  /\ Idle
  /\ nodes' = nodes \cup {c}
  /\ prec' = [prec EXCEPT ![c] = P]
  /\ dependents' = [p \in Cell |-> IF p \in P.cells
                                   THEN DetachedDependents(c)[p] \cup {c}
                                   ELSE DetachedDependents(c)[p]]
  /\ ranges' = [s \in Sheet |-> DetachedRanges(c)[s] \cup
                  {<<r, c>> : r \in {q \in P.ranges : RangeSheet[q] = s}}]
  /\ rewired' = IF dirty = {} /\ edited = {} THEN rewired
                                            ELSE rewired \cup {c}
  /\ UNCHANGED <<flagVars, dirty, stack, planned, edited>>

\* Reverse edges into c stay: its readers still read it, now as an input.
RemoveNode(c) ==
  /\ Idle
  /\ nodes' = nodes \ {c}
  /\ prec' = [prec EXCEPT ![c] = NoPrecedents]
  /\ dependents' = DetachedDependents(c)
  /\ ranges' = DetachedRanges(c)
  /\ volatile' = volatile \ {c}
  /\ dynamic' = dynamic \ {c}
  /\ dirty' = dirty \ {c}
  /\ rewired' = rewired \ {c}
  /\ UNCHANGED <<stack, planned, edited>>

RegisterVolatile(c, flag) ==
  /\ Idle
  /\ volatile' = IF flag THEN volatile \cup {c} ELSE volatile \ {c}
  /\ UNCHANGED <<edgeVars, dynamic, dirty, stack, planned, edited, rewired>>

SetDynamicDeps(c, flag) ==
  /\ Idle
  /\ dynamic' = IF flag THEN dynamic \cup {c} ELSE dynamic \ {c}
  /\ UNCHANGED <<edgeVars, volatile, dirty, stack, planned, edited, rewired>>

-----------------------------------------------------------------------------
(* Dirty marking. *)

\* Fault: a marked cell that is no formula is not looked at.
Pushed_NodesOnly(S) == S \cap nodes

\* Every seed goes on the worklist, a plain input too.
Pushed(S) == S

\* mark_dirty: the seeds that are nodes become dirty, and all are pushed.
MarkDirty(S) ==
  /\ Idle
  /\ dirty' = dirty \cup (S \cap nodes)
  /\ stack' = Pushed(S)
  /\ edited' = edited \cup S
  /\ rewired' = rewired \ S
  /\ UNCHANGED <<edgeVars, flagVars, planned>>

\* Fault: a volatile cell is marked only when it is dirty already.
MarkVolatileDirty_DirtyOnly == MarkDirty(volatile \cap dirty)

MarkVolatileDirty == MarkDirty(volatile)

\* One iteration of propagate's loop: a dirty neighbour is not pushed again.
PropagateStep(x) ==
  /\ x \in stack
  /\ dirty' = dirty \cup Fresh(x)
  /\ stack' = (stack \ {x}) \cup Fresh(x)
  /\ UNCHANGED <<edgeVars, flagVars, planned, edited, rewired>>

MarkAllDirty ==
  /\ Idle
  /\ dirty' = nodes
  /\ rewired' = {}
  /\ UNCHANGED <<edgeVars, flagVars, stack, planned, edited>>

Emptied == dirty' = {} /\ edited' = {} /\ rewired' = {}

ClearDirty ==
  /\ Idle
  /\ Emptied
  /\ UNCHANGED <<edgeVars, flagVars, stack, planned>>

\* Fault: the full plan, not filtered.
Scheduled_Everything(D) == nodes

\* The cells of the steps recalc_plan keeps: a dirty formula, and a circular
\* group (cells that read each other, if only through others) with a dirty
\* member, whole.
Scheduled(D) ==
  {c \in nodes : \/ c \in D
                 \/ \E m \in D : m \in Downstream({c}) /\ c \in Downstream({m})}

TakeRecalcPlan ==
  /\ Idle
  /\ planned' = Scheduled(dirty)
  /\ Emptied
  /\ UNCHANGED <<edgeVars, flagVars, stack>>

-----------------------------------------------------------------------------
Next ==
  \/ \E c \in Cell : \E P \in Formulas[c] : SetDeps(c, P)
  \/ \E c \in Cell : RemoveNode(c)
  \/ \E c \in Flaggable, flag \in BOOLEAN : RegisterVolatile(c, flag)
  \/ \E c \in Flaggable, flag \in BOOLEAN : SetDynamicDeps(c, flag)
  \/ \E S \in SUBSET Cell : MarkDirty(S)
  \/ MarkVolatileDirty
  \/ \E x \in Cell : PropagateStep(x)
  \/ MarkAllDirty
  \/ ClearDirty
  \/ TakeRecalcPlan

Spec == Init /\ [][Next]_vars

\* A call of propagate runs to its end: its loop is sequential code.
FairSpec == Spec /\ WF_vars(\E x \in Cell : PropagateStep(x))

-----------------------------------------------------------------------------
(* Properties. *)

(* The two reverse indexes say exactly what the forward edges say: rewiring  *)
(* or removing a formula leaves no edge behind and loses none, across        *)
(* sheets (set_deps, detach_precedents).                                     *)
EdgesMirror ==
  /\ \A p \in Cell : dependents[p] = {c \in nodes : p \in prec[c].cells}
  /\ \A s \in Sheet :
       ranges[s] = {e \in SheetRange \X Cell : /\ e[2] \in nodes
                                               /\ e[1] \in prec[e[2]].ranges
                                               /\ RangeSheet[e[1]] = s}
  /\ \A c \in Cell \ nodes : prec[c] = NoPrecedents

(* Only formulas are dirty: propagate inserts what the reverse indexes      *)
(* return without asking whether it is a node.                               *)
DirtyAreNodes == dirty \subseteq nodes

(* The dirty set is closed under "is a dependent of" between two calls, but  *)
(* for formulas rewired since and not marked after it.                       *)
DirtyClosed ==
  Idle => \A d \in dirty : Readers(d) \subseteq dirty \cup rewired

(* No lost update: when every rewired formula was marked after it, each      *)
(* cell marked since the last plan is dirty if it is a formula, and so is    *)
(* every formula that reads it, directly or through other formulas.          *)
EditsReachReaders ==
  Idle /\ rewired = {} =>
    /\ edited \cap nodes \subseteq dirty
    /\ Downstream(edited) \subseteq dirty

(* What the doc comment of mark_dirty says without a condition: the dirty    *)
(* set is always closed under "is a dependent of".                           *)
AlwaysClosed == Idle => \A d \in dirty : Readers(d) \subseteq dirty

-----------------------------------------------------------------------------
(* The inductive invariant behind DirtyClosed and EditsReachReaders: a cell  *)
(* that is dirty or was marked either waits on the worklist or has its       *)
(* readers dirty.                                                            *)

Settled(x) == x \in stack \/ Readers(x) \subseteq dirty \cup rewired

ClosureInv ==
  /\ \A d \in dirty : Settled(d)
  /\ \A s \in edited : Settled(s)
  /\ edited \cap nodes \subseteq dirty \cup rewired

Inv == TypeOK /\ EdgesMirror /\ DirtyAreNodes /\ ClosureInv
=============================================================================
