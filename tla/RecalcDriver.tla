----------------------------- MODULE RecalcDriver -----------------------------
(***************************************************************************)
(* How xl-engine drives the dependency graph: Engine::load, edit, recalc   *)
(* and the spill-planning loop of drive_recalc, as the sequence of graph   *)
(* calls each of them makes.  What a formula evaluates to is left open:    *)
(* executing a plan refreshes the planned cells and may change any set of  *)
(* cells outside their own slots (what a spill writes), which the loop     *)
(* marks dirty in its next pass.  SpillEngine models the values.           *)
(***************************************************************************)
EXTENDS DepGraph

CONSTANT Cap   \* SPILL_FIXPOINT_CAP, the passes before anchors are refused

ASSUME CapAssumption == Cap \in Nat \ {0}

VARIABLES
  pc,        \* the next graph call of the engine
  cell,      \* the cell of the edit in progress
  redirty,   \* Engine::spill_redirty: the cells a pass changed by spilling
  unstable,  \* Engine::spill_changed_anchors: the anchors that changed them
  refused,   \* Engine::refused_spills: anchors refused by this drive_recalc
  iters,     \* drains since drive_recalc began or last refused an anchor
  stale      \* history: formulas whose value may not match what they read

spillVars == <<redirty, unstable, refused, iters>>
driverVars == <<pc, cell, spillVars, stale>>
allVars == <<vars, driverVars>>

\* The formulas that a change of the cells of S puts out of date.
Affected(S) == (S \cap nodes) \cup Downstream(S)

\* What counts as dirty while propagate runs: DirtySpec's dirty set.
Waiting == dirty \cup Downstream(stack)

DriverInit ==
  /\ Init
  /\ pc = "load"
  /\ cell \in Cell
  /\ redirty = {}
  /\ unstable = {}
  /\ refused = {}
  /\ iters = 0
  /\ stale = {}

-----------------------------------------------------------------------------
(* Engine::load: set_deps for each formula cell of the file, once, and       *)
(* register_volatile when the formula is.                                    *)

LoadFormula ==
  /\ pc = "load"
  /\ \E c \in Cell \ nodes : \E P \in Formulas[c] : SetDeps(c, P)
  /\ UNCHANGED driverVars

LoadVolatile ==
  /\ pc = "load"
  /\ \E c \in nodes \cap Flaggable : RegisterVolatile(c, TRUE)
  /\ UNCHANGED driverVars

\* Values as loaded: the caches of the file, taken as they are.
LoadDone ==
  /\ pc = "load"
  /\ pc' = "idle"
  /\ UNCHANGED <<vars, cell, spillVars, stale>>

-----------------------------------------------------------------------------
(* Engine::edit. *)

\* The cell lies in another anchor's spill region: that owner is marked first.
EditSpilledCell(c, owner) ==
  /\ pc = "idle"
  /\ owner \in nodes \ {c}
  /\ MarkDirty({owner})
  /\ pc' = "install"
  /\ cell' = c
  /\ stale' = stale \cup Affected({owner})
  /\ UNCHANGED spillVars

EditCell(c) ==
  /\ pc = "idle"
  /\ pc' = "install"
  /\ cell' = c
  /\ UNCHANGED <<vars, spillVars, stale>>

InstallFormula(P) ==
  /\ pc = "install"
  /\ SetDeps(cell, P)
  /\ pc' = "flag"
  /\ UNCHANGED <<cell, spillVars, stale>>

InstallFlag(flag) ==
  /\ pc = "flag"
  /\ RegisterVolatile(cell, flag)
  /\ pc' = "seed"
  /\ UNCHANGED <<cell, spillVars, stale>>

\* A literal retracts the cell's spill: S are the cells that vacates.
InstallLiteral(S) ==
  /\ pc = "install"
  /\ Idle
  /\ S \subseteq Cell \ (nodes \cup {cell})
  /\ S # {} => cell \in dynamic
  /\ SetDynamicDeps(cell, FALSE)
  /\ pc' = "remove"
  /\ redirty' = S
  /\ unstable' = IF cell \in dynamic THEN {cell} ELSE {}
  /\ stale' = stale \cup Downstream(S)
  /\ UNCHANGED <<cell, refused, iters>>

RemoveFormula ==
  /\ pc = "remove"
  /\ RemoveNode(cell)
  /\ pc' = "seed"
  /\ stale' = stale \ {cell}
  /\ UNCHANGED <<cell, spillVars>>

\* Fault: the readers of the edited cell are marked, not the cell.
EditSeeds_ReadersOnly == dependents[cell]

EditSeeds == {cell}

SeedEdit ==
  /\ pc = "seed"
  /\ MarkDirty(EditSeeds)
  /\ pc' = "volatile"
  /\ stale' = stale \cup Affected({cell})
  /\ UNCHANGED <<cell, spillVars>>

SeedVolatile ==
  /\ pc = "volatile"
  /\ MarkVolatileDirty
  /\ pc' = "take"
  /\ stale' = stale \cup Affected(volatile)
  /\ UNCHANGED <<cell, spillVars>>

-----------------------------------------------------------------------------
(* Engine::recalc and drive_recalc. *)

\* What drive_recalc resets on entry.
BeginDrive == refused' = {} /\ iters' = 0

\* recalc: the full plan, whatever is dirty.
StartRecalc ==
  /\ pc = "idle"
  /\ Idle
  /\ planned' = nodes
  /\ stale' = nodes
  /\ pc' = "execute"
  /\ BeginDrive
  /\ UNCHANGED <<edgeVars, flagVars, dirty, stack, edited, rewired>>
  /\ UNCHANGED <<cell, redirty, unstable>>

\* edit's plan; drive_recalc executes it even when it is empty.
TakeEditPlan ==
  /\ pc = "take"
  /\ TakeRecalcPlan
  /\ pc' = "execute"
  /\ BeginDrive
  /\ UNCHANGED <<cell, redirty, unstable, stale>>

\* Fault: a refused anchor is evaluated again.
Evaluated_Refused == planned

\* A refused anchor is not evaluated for the rest of the recalculation.
Evaluated == planned \ refused

\* One pass over the plan.  A: the cells that end as spill anchors; U: the
\* anchors whose footprint or content changed, W: the cells outside the slots
\* of formulas that they changed.
Execute(A, U, W) ==
  /\ pc = "execute"
  /\ A \subseteq Evaluated \cap Flaggable
  /\ U \subseteq Evaluated \cap Flaggable
  /\ W \subseteq Cell \ nodes
  /\ W # {} => U # {}
  /\ dynamic' = (dynamic \ Evaluated) \cup A
  /\ redirty' = redirty \cup W
  /\ unstable' = unstable \cup U
  /\ stale' = (stale \ planned) \cup Downstream(W)
  /\ pc' = "drain"
  /\ UNCHANGED <<edgeVars, volatile, dirty, stack, planned, edited, rewired>>
  /\ UNCHANGED <<cell, refused, iters>>

\* The fixpoint: no cell was changed by spilling.
Converged ==
  /\ pc = "drain"
  /\ redirty = {}
  /\ unstable' = {}
  /\ pc' = "done"
  /\ UNCHANGED <<vars, cell, redirty, refused, iters, stale>>

UnderCap == iters < Cap

DrainRedirty ==
  /\ pc = "drain"
  /\ redirty # {}
  /\ UnderCap
  /\ MarkDirty(redirty)
  /\ redirty' = {}
  /\ unstable' = {}
  /\ iters' = iters + 1
  /\ pc' = "retake"
  /\ UNCHANGED <<cell, refused, stale>>

\* A pass of the loop: an empty plan means that no formula reads the cells.
TakePassPlan ==
  /\ pc = "retake"
  /\ TakeRecalcPlan
  /\ pc' = IF planned' = {} THEN "done" ELSE "execute"
  /\ UNCHANGED <<cell, spillVars, stale>>

\* Fault: the refusals are not remembered.
Refusing_Forgotten(new) == refused

Refusing(new) == refused \cup new

\* The cells whose readers a refusal puts out of date.
Reseeded(V, new) == V \cup new

\* Over the cap: the unstable anchors are refused.  Their regions are vacated
\* (the cells of V) and their readers see the refusal, so both are drained.
\* With nothing new to refuse the loop ends, and drops the pending cells.
OverCap(V) ==
  LET new == unstable \ refused
  IN /\ pc = "drain"
     /\ redirty # {}
     /\ ~UnderCap
     /\ V \subseteq Cell \ nodes
     /\ V # {} => new # {}
     /\ refused' = Refusing(new)
     /\ unstable' = new
     /\ dynamic' = dynamic \ new
     /\ stale' = stale \cup Downstream(V \cup new)
     /\ redirty' = IF new = {} THEN {} ELSE redirty \cup Reseeded(V, new)
     /\ iters' = IF new = {} THEN iters ELSE 0
     /\ pc' = IF new = {} THEN "done" ELSE "drain"
     /\ UNCHANGED <<edgeVars, volatile, dirty, stack, planned, edited, rewired>>
     /\ UNCHANGED cell

\* recalc ends with clear_dirty; after an edit the dirty set is empty already.
Return ==
  /\ pc = "done"
  /\ ClearDirty
  /\ pc' = "idle"
  /\ UNCHANGED <<cell, spillVars, stale>>

Propagate(x) ==
  /\ PropagateStep(x)
  /\ UNCHANGED driverVars

-----------------------------------------------------------------------------
\* What the program that uses the engine chooses to do next.
CallEngine ==
  \/ LoadFormula
  \/ LoadVolatile
  \/ LoadDone
  \/ \E c \in Cell, owner \in Cell : EditSpilledCell(c, owner)
  \/ \E c \in Cell : EditCell(c)
  \/ StartRecalc

\* The steps a call takes once it has begun.
EngineStep ==
  \/ \E P \in Formulas[cell] : InstallFormula(P)
  \/ \E flag \in BOOLEAN : (flag => cell \in Flaggable) /\ InstallFlag(flag)
  \/ \E S \in SUBSET Cell : InstallLiteral(S)
  \/ RemoveFormula
  \/ SeedEdit
  \/ SeedVolatile
  \/ TakeEditPlan
  \/ \E A, U, W \in SUBSET Cell : Execute(A, U, W)
  \/ Converged
  \/ DrainRedirty
  \/ TakePassPlan
  \/ \E V \in SUBSET Cell : OverCap(V)
  \/ Return
  \/ \E x \in Cell : Propagate(x)

DriverNext == CallEngine \/ EngineStep

DriverSpec == DriverInit /\ [][DriverNext]_allVars

\* An engine call is sequential code: started, its steps follow one another.
FairDriverSpec == DriverSpec /\ WF_allVars(EngineStep)

-----------------------------------------------------------------------------
(* Properties. *)

DriverTypeOK ==
  /\ TypeOK
  /\ pc \in {"load", "idle", "install", "flag", "remove", "seed", "volatile",
             "take", "execute", "drain", "retake", "done"}
  /\ cell \in Cell
  /\ redirty \subseteq Cell
  /\ unstable \subseteq Cell
  /\ refused \subseteq Cell
  /\ iters \in 0 .. Cap
  /\ stale \subseteq Cell

(* Between two calls of the engine no formula is out of date: what an edit,  *)
(* a volatile cell or a spill changed was evaluated again, and no pending    *)
(* cell was dropped on the way out of drive_recalc.                          *)
NothingStale == pc = "idle" => stale = {}

(* The engine marks every cell it rewires before it takes a plan, so the     *)
(* dirty set is closed with no exception when it does.                       *)
RewiredAreMarked ==
  pc \in {"volatile", "take", "execute", "drain", "retake", "done"} => rewired = {}

(* Over the cap there is always an anchor left to refuse: drive_recalc never *)
(* drops cells whose readers are still to be evaluated.                      *)
NeverDropsPending ==
  pc = "drain" /\ redirty # {} /\ iters >= Cap => unstable \ refused # {}

(* Every call of the engine returns: the spill-planning loop ends whatever   *)
(* the formulas evaluate to (drive_recalc's cap and refusals).               *)
CallsReturn == pc # "load" ~> pc = "idle"

(* The graph under this driver does what mark_dirty documents: each mark     *)
(* reaches all transitive dependents, and a plan holds exactly the dirty     *)
(* formulas, a circular group whole.  While propagate runs, the cells it     *)
(* has yet to reach count as dirty.                                          *)
Dirtiness == INSTANCE DirtySpec WITH
  formulas <- nodes,
  reads <- {e \in Cell \X Cell : Reads(e[1], e[2])},
  dirty <- Waiting,
  planned <- planned

DirtinessSpec == Dirtiness!Spec
-----------------------------------------------------------------------------
(* The inductive invariant behind the properties, by the phase of the call.  *)

\* Nothing is marked, and no mark is under way.
Unmarked == dirty = {} /\ edited = {} /\ stack = {}

\* Only the cell of the edit is rewired, until the edit marks it.
PhaseInv ==
  /\ pc \in {"load", "idle", "execute", "drain", "done"} => Unmarked
  /\ pc \in {"flag", "remove", "seed"} => stack = {}
  /\ pc \in {"flag", "seed"} => rewired \subseteq {cell}
  /\ pc \notin {"flag", "seed"} => rewired = {}

\* A cell that spilling changed names an anchor that may still be refused; a
\* refusal starts the count of the passes again.
PendingInv ==
  /\ pc \in {"load", "idle", "install", "flag", "retake", "done"} =>
       redirty = {} /\ unstable = {}
  /\ pc \in {"remove", "seed", "volatile", "take", "execute"} =>
       (redirty # {} => unstable # {})
  /\ pc = "execute" => unstable \cap refused = {}
  /\ pc = "drain" => iters = 0 \/ (redirty # {} => unstable \ refused # {})

\* Where the formulas that are out of date are accounted for.
StaleInv ==
  /\ pc \in {"load", "idle", "done"} => stale = {}
  /\ pc \in {"install", "flag", "retake"} => stale \subseteq Waiting
  /\ pc = "remove" => stale \subseteq dirty \cup Downstream(redirty)
  /\ pc = "seed" => stale \subseteq dirty \cup Downstream(redirty) \cup Affected({cell})
  /\ pc \in {"volatile", "take"} => stale \subseteq Waiting \cup Downstream(redirty)
  /\ pc = "execute" => stale \subseteq planned \cup Downstream(redirty)
  /\ pc = "drain" => stale \subseteq Downstream(redirty)

DriverInv == Inv /\ DriverTypeOK /\ PhaseInv /\ PendingInv /\ StaleInv
=============================================================================
