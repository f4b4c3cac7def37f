----------------------------- MODULE SpillEngine ------------------------------
(***************************************************************************)
(* The values of a workbook under recalculation: xl-engine's serial        *)
(* executor with dynamic-array spilling (lib.rs: edit, recalc,             *)
(* drive_recalc, run_cell, write_cell_result, spill_anchor, retract_spill, *)
(* refuse_spill_nonconvergence, run_cycle_member).  One step of a plan is  *)
(* one action, so every state between two cell writes is checked.          *)
(*                                                                         *)
(* The workbook is one sheet of Width x Height cells, numbered in CellId   *)
(* order; its edge is the sheet edge.  A value is a number, Blank, Absent  *)
(* (no entry in the value store), or an error.  What a formula computes is *)
(* a count of numbers in the cells it reads, or one of those cells; that   *)
(* is enough to make array sizes and contents depend on other cells.       *)
(* Plans and dirtiness are functions of the programs here: RecalcDriver    *)
(* and Schedule show that the graph computes them.  Volatile cells are     *)
(* left out; the `parallel` feature is in ParallelRecalc.                  *)
(***************************************************************************)
EXTENDS Integers, FiniteSetsExt, SequencesExt

CONSTANTS
  Width, Height,  \* the size of the sheet
  Cap,            \* SPILL_FIXPOINT_CAP
  Workbooks,      \* what load may find: [programs, typed]
  Menu,           \* [Cell -> SUBSET Program], the formulas an edit may enter
  Typable,        \* [Cell -> SUBSET Value], the literals an edit may enter
  Programs,       \* the program tables that loads and edits lead to
  FullPlanOf(_),  \* the full plan of each
  Blank, Absent, SpillError, UnsupportedError, ValueError, NoOwner, NoSnapshot

ASSUME SizeAssumption == Width \in Nat \ {0} /\ Height \in Nat \ {0}
ASSUME CapAssumption == Cap \in Nat \ {0}

Cell == 0 .. Width * Height - 1
RowOf(c) == c \div Width
ColOf(c) == c % Width

\* A formula: what it computes from the cells it names.
Op == {"none", "ref", "count", "hash", "grow", "shrink", "row", "fill",
       "lambdas", "unparsed"}
NoProgram == [op |-> "none", src |-> {}]
Program ==
  {p \in [op : Op, src : SUBSET Cell] :
     /\ p.op = "none" => p = NoProgram
     /\ p.op \in {"ref", "hash", "fill"} => p.src # {}}

Error == {SpillError, UnsupportedError, ValueError}
Value == 0 .. Width * Height \cup {Blank, Absent} \cup Error
Refusal == {"Circular", "Blocked", "OffSheet", "Lambdas", "Diverged"}

ASSUME NoOwnerAssumption == NoOwner \notin Cell

\* A cell holds a formula or a literal.
ASSUME WorkbooksAssumption ==
  \A w \in Workbooks :
    /\ w.programs \in Programs
    /\ w.typed \in [Cell -> Value]
    /\ \A c \in Cell : w.programs[c] # NoProgram => w.typed[c] = Absent

ASSUME EditsAssumption ==
  /\ Programs \subseteq [Cell -> Program]
  /\ \A c \in Cell : NoProgram \notin Menu[c] /\ Typable[c] \subseteq Value
  /\ \A t \in Programs, c \in Cell : \A p \in Menu[c] \cup {NoProgram} :
       [t EXCEPT ![c] = p] \in Programs

\* What Schedule shows of a full plan: it holds every formula once and nothing
\* else, no step comes before one it reads, and a set of cells that holds all
\* the readers of its members takes a step whole or not at all.
ASSUME PlansAssumption ==
  \A t \in Programs :
    LET formulas == {c \in Cell : t[c] # NoProgram}
        steps == FullPlanOf(t)
        readers(S) == {c \in Cell : t[c].src \cap S # {}}
    IN /\ steps \in Seq((SUBSET formulas) \ {{}})
       /\ formulas \subseteq UNION ToSet(steps)
       /\ \A i, j \in DOMAIN steps :
            /\ i # j => steps[i] \cap steps[j] = {}
            /\ readers(steps[i]) \cap steps[j] # {} => i <= j
       /\ \A S \in SUBSET Cell : readers(S) \subseteq S =>
            \A i \in DOMAIN steps : steps[i] \cap S = {} \/ steps[i] \subseteq S

VARIABLES
  engine,  \* the fields of struct Engine, see Loaded
  pc,      \* "loaded", "idle", or "run" while drive_recalc executes
  plan,    \* the components the current pass has yet to execute
  iters,   \* the passes since the last refusal
  typed,   \* history: the literal each cell holds by load or edit
  call,    \* history: the call in progress, or the last one
  before   \* history: the values before a repeated recalc or a rebuild

vars == <<engine, pc, plan, iters, typed, call, before>>

\* The engine as load leaves it: literals, and formulas with no cached value.
Loaded(programs, literals) ==
  [programs |-> programs,
   values   |-> [c \in Cell |-> IF programs[c] = NoProgram THEN literals[c] ELSE Blank],
   spills   |-> [c \in Cell |-> {}],       \* anchor -> its region; {} if none
   owner    |-> [c \in Cell |-> NoOwner],  \* spilled-into cell -> its anchor
   dynamic  |-> {},                        \* anchors flagged in the graph
   redirty  |-> {},                        \* spill_redirty
   unstable |-> {},                        \* spill_changed_anchors
   refused  |-> {},                        \* refused_spills
   diags    |-> [c \in Cell |-> IF programs[c].op = "unparsed" THEN {"Unparsed"}
                                   ELSE {}]]

Formulas(e) == {c \in Cell : e.programs[c] # NoProgram}

-----------------------------------------------------------------------------
(* Plans and dirtiness, as functions of the programs. *)

Reads(e) == UNION {{c} \X e.programs[c].src : c \in Formulas(e)}

FullPlan(e) == FullPlanOf(e.programs)

\* mark_dirty: the formulas among the seeds and everything downstream of them.
Dirtied(e, S) ==
  {c \in Formulas(e) :
     \A T \in SUBSET Cell : S \subseteq T /\ (\A r \in Reads(e) : r[2] \in T => r[1] \in T) => c \in T}

\* The steps of a plan with a dirty member, in the order of the plan.
Filtered(steps, D) ==
  LET kept[i \in 0 .. Len(steps)] ==
        IF i = 0 THEN <<>>
        ELSE IF steps[i] \cap D # {} THEN Append(kept[i - 1], steps[i]) ELSE kept[i - 1]
  IN kept[Len(steps)]

\* An incremental plan is the full plan, filtered.
PlanOf(e, D) == Filtered(FullPlan(e), D)

IsCircular(e, C) == Cardinality(C) > 1 \/ \E c \in C : c \in e.programs[c].src

-----------------------------------------------------------------------------
(* What a formula evaluates to (compute_cell): a scalar, or an array with a *)
(* value at each offset.                                                    *)

Scalar(v) == [kind |-> "scalar", value |-> v]
ArrayOf(h, w, at(_)) ==
  [kind |-> "array", h |-> h, w |-> w, at |-> [d \in (0 .. h - 1) \X (0 .. w - 1) |-> at(d)]]

Numbers(e, S) == Cardinality({x \in S : e.values[x] \in Nat})
ReadCell(e, x) == IF e.values[x] = Absent THEN Blank ELSE e.values[x]

\* The operand of x#: the region of an anchor, or else the cell itself.
SpillRange(e, x) == IF e.spills[x] = {} THEN {x} ELSE e.spills[x]

Result(e, c) ==
  LET p == e.programs[c]
      n == Numbers(e, p.src)
      x == CHOOSE y \in p.src : TRUE
  IN CASE p.op = "ref"      -> Scalar(ReadCell(e, x))
       [] p.op = "count"    -> Scalar(n)
       [] p.op = "hash"     -> Scalar(Numbers(e, SpillRange(e, x)))
       [] p.op = "grow"     -> ArrayOf(n + 1, 1, LAMBDA d : n)
       [] p.op = "shrink"   -> ArrayOf(IF n = 0 THEN 2 ELSE 1, 1, LAMBDA d : 1)
       [] p.op = "row"      -> ArrayOf(1, n + 1, LAMBDA d : d[2])
       [] p.op = "fill"     -> ArrayOf(2, 1, LAMBDA d : IF d[1] = 0 THEN ReadCell(e, x)
                                                                 ELSE Blank)
       [] p.op = "lambdas"  -> [kind |-> "lambdas"]
       [] p.op = "unparsed" -> Scalar(UnsupportedError)

-----------------------------------------------------------------------------
(* Writing results: functions from an engine to an engine. *)

\* The cells of S that anchor a still owns and may blank.
Reclaimed(e, a, S) == {x \in S \ {a} : e.owner[x] = a}

\* The cells of S whose value blanking changes.
Vacated(e, S) == {x \in S : e.values[x] # Blank}

Blanked(e, S) == [x \in Cell |-> IF x \in S THEN Blank ELSE e.values[x]]

\* retract_spill: nothing if a has no region.
Retract(e, a) ==
  LET mine == Reclaimed(e, a, e.spills[a])
  IN IF e.spills[a] = {} THEN e
     ELSE [e EXCEPT
             !.spills[a] = {},
             !.owner = [x \in Cell |-> IF x \in mine \cup {a} THEN NoOwner ELSE @[x]],
             !.values = Blanked(e, mine),
             !.redirty = @ \cup Vacated(e, mine),
             !.unstable = @ \cup {a}]

\* A result confined to the cell's own slot.
WriteAlone(e, a, v) ==
  [Retract(e, a) EXCEPT !.dynamic = @ \ {a}, !.values[a] = v]

RefuseWith(e, a, v, why) == [WriteAlone(e, a, v) EXCEPT !.diags[a] = @ \cup {why}]

Target(a, d) == a + d[1] * Width + d[2]
Footprint(a, r) == {Target(a, d) : d \in DOMAIN r.at}

\* Fault: an array that ends in the last row or column does not fit.
OffSheet_AtEdge(a, r) == RowOf(a) + r.h >= Height \/ ColOf(a) + r.w >= Width

OffSheet(a, r) == RowOf(a) + r.h > Height \/ ColOf(a) + r.w > Width

\* Fault: a blank slot of another anchor's region is free to take.
Occupied_ByValue(e, x) ==
  x \in Formulas(e) \/ e.values[x] \notin {Absent, Blank}

Occupied(e, x) ==
  \/ x \in Formulas(e)
  \/ e.owner[x] # NoOwner
  \/ e.values[x] \notin {Absent, Blank}

Obstructed(e, a, r) ==
  \E x \in Footprint(a, r) \ {a} : e.owner[x] # a /\ Occupied(e, x)

\* The slots, but the anchor's, whose value the array changes.
Rewritten(e, a, new) == {x \in DOMAIN new \ {a} : e.values[x] # new[x]}

\* spill_anchor, once nothing blocks it: vacate what fell out of the region,
\* write every element, and take the region.
SpillInto(e, a, r) ==
  LET new == [x \in Footprint(a, r) |->
                r.at[<<RowOf(x) - RowOf(a), ColOf(x) - ColOf(a)>>]]
      left == Reclaimed(e, a, e.spills[a] \ DOMAIN new)
      changed == Vacated(e, left) \cup Rewritten(e, a, new)
  IN [e EXCEPT
        !.values = [x \in Cell |-> IF x \in DOMAIN new THEN new[x] ELSE Blanked(e, left)[x]],
        !.owner = [x \in Cell |-> IF x \in DOMAIN new THEN a
                                  ELSE IF x \in left THEN NoOwner ELSE @[x]],
        !.spills[a] = DOMAIN new,
        !.redirty = @ \cup changed,
        !.unstable = IF changed # {} \/ e.spills[a] # DOMAIN new THEN @ \cup {a} ELSE @,
        !.dynamic = @ \cup {a}]

\* write_cell_result: a formula's blank result is shown as 0.
Commit(e, a, r) ==
  CASE r.kind = "scalar" -> WriteAlone(e, a, IF r.value = Blank THEN 0 ELSE r.value)
    [] r.kind = "lambdas" -> RefuseWith(e, a, ValueError, "Lambdas")
    [] r.kind = "array" ->
         CASE OffSheet(a, r) -> RefuseWith(e, a, SpillError, "OffSheet")
           [] ~OffSheet(a, r) /\ Obstructed(e, a, r) ->
                RefuseWith(e, a, SpillError, "Blocked")
           [] OTHER -> SpillInto(e, a, r)

Skipped(e, c) == c \in e.refused

\* apply_cell_result, after the cell's old diagnostics are dropped.
ApplyResult(e, c, r) ==
  Commit([e EXCEPT !.diags[c] = IF e.programs[c].op = "unparsed" THEN {"Unparsed"}
                                ELSE {}], c, r)

RunCell(e, c) == IF Skipped(e, c) THEN e ELSE ApplyResult(e, c, Result(e, c))

RunCycleMember(e, c) ==
  [WriteAlone(e, c, UnsupportedError) EXCEPT !.diags[c] = {"Circular"}]

RunStep(e, C) ==
  IF IsCircular(e, C)
  THEN FoldSet(LAMBDA c, acc : RunCycleMember(acc, c), e, C)
  ELSE RunCell(e, CHOOSE c \in C : TRUE)

-----------------------------------------------------------------------------
(* Engine::load, recalc and edit. *)

Init ==
  \E w \in Workbooks :
    /\ engine = Loaded(w.programs, w.typed)
    /\ pc = "loaded"
    /\ plan = <<>>
    /\ iters = 0
    /\ typed = w.typed
    /\ call = "load"
    /\ before = NoSnapshot

\* The values a user sees: an absent cell is a blank one.
Shown(e) == [c \in Cell |-> ReadCell(e, c)]

\* What drive_recalc resets on entry, and the plan it executes first.
Drive(e, steps) ==
  /\ engine' = [e EXCEPT !.refused = {}]
  /\ plan' = steps
  /\ iters' = 0
  /\ pc' = "run"

\* The history of a recalc.
Recorded ==
  /\ call' = CASE call = "load"    -> "recalc"
               [] call = "edit"    -> "recalc"
               [] call = "reload"  -> "rebuild"
               [] OTHER            -> "again"
  /\ before' = IF call' = "again" THEN Shown(engine)
               ELSE IF call' = "rebuild" THEN before ELSE NoSnapshot
  /\ UNCHANGED typed

Recalc ==
  /\ pc \in {"loaded", "idle"}
  /\ Drive(engine, FullPlan(engine))
  /\ Recorded

\* Fault: the owner of the cell's spill slot keeps it.
Released_Never(e, c) == e

\* The edited cell leaves the region of another anchor.
Released(e, c) == IF e.owner[c] # c THEN [e EXCEPT !.owner[c] = NoOwner] ELSE e

\* That anchor is marked dirty before the cell is rewired.
MarkedFirst(e, c) == IF e.owner[c] \notin {c, NoOwner} THEN {e.owner[c]} ELSE {}

\* edit, where e is the engine with the input installed in c.
EditTo(e, c, literal) ==
  /\ pc = "idle"
  /\ Drive([e EXCEPT !.diags[c] = {}],
           PlanOf(e, Dirtied(engine, MarkedFirst(engine, c)) \cup Dirtied(e, {c})))
  /\ typed' = [typed EXCEPT ![c] = literal]
  /\ call' = "edit"
  /\ before' = NoSnapshot

EditFormula(c, p) ==
  EditTo([Released(engine, c) EXCEPT !.programs[c] = p], c, Absent)

\* A literal retracts the cell's own region first.
EditLiteral(c, v) ==
  EditTo([WriteAlone(Released(engine, c), c, v) EXCEPT !.programs[c] = NoProgram], c, v)

\* A program that saves and loads the edited workbook starts from a new engine.
Reload ==
  /\ pc = "idle"
  /\ call = "edit"
  /\ engine' = Loaded(engine.programs, typed)
  /\ pc' = "loaded"
  /\ call' = "reload"
  /\ before' = Shown(engine)
  /\ UNCHANGED <<plan, iters, typed>>

-----------------------------------------------------------------------------
(* drive_recalc. *)

ExecuteStep ==
  /\ pc = "run"
  /\ plan # <<>>
  /\ engine' = RunStep(engine, Head(plan))
  /\ plan' = Tail(plan)
  /\ UNCHANGED <<pc, iters, typed, call, before>>

\* The end of a pass: the scratch sets are taken out of the engine.
Drained(e) == [e EXCEPT !.redirty = {}, !.unstable = {}]

PassEnds == pc = "run" /\ plan = <<>>

Converged ==
  /\ PassEnds
  /\ engine.redirty = {}
  /\ engine' = Drained(engine)
  /\ pc' = "idle"
  /\ UNCHANGED <<plan, iters, typed, call, before>>

UnderCap == iters < Cap

\* The next pass runs the readers of what changed; with none the call is over.
NextPass ==
  /\ PassEnds
  /\ engine.redirty # {}
  /\ UnderCap
  /\ engine' = Drained(engine)
  /\ iters' = iters + 1
  /\ plan' = PlanOf(engine, Dirtied(engine, engine.redirty))
  /\ pc' = IF plan' = <<>> THEN "idle" ELSE "run"
  /\ UNCHANGED <<typed, call, before>>

\* Fault: the readers of a refused anchor are not told.
RefuseAnchor_Quietly(e, a) ==
  [RefuseWith(e, a, UnsupportedError, "Diverged") EXCEPT !.refused = @ \cup {a}]

\* Fault: the refusal is not remembered.
RefuseAnchor_Forgotten(e, a) ==
  [RefuseWith(e, a, UnsupportedError, "Diverged") EXCEPT !.redirty = @ \cup {a}]

RefuseAnchor(e, a) ==
  [RefuseWith(e, a, UnsupportedError, "Diverged") EXCEPT
     !.refused = @ \cup {a}, !.redirty = @ \cup {a}]

\* refuse_spill_nonconvergence: the anchors still changing are refused and
\* the loop goes on, with the pending cells kept; with none new it ends.
OverCap ==
  LET new == engine.unstable \ engine.refused
      done == FoldSet(LAMBDA a, acc : RefuseAnchor(acc, a), Drained(engine), new)
  IN /\ PassEnds
     /\ engine.redirty # {}
     /\ ~UnderCap
     /\ engine' = [done EXCEPT !.redirty = IF new = {} THEN {} ELSE @ \cup engine.redirty]
     /\ iters' = IF new = {} THEN iters ELSE 0
     /\ pc' = IF new = {} THEN "idle" ELSE "run"
     /\ UNCHANGED <<plan, typed, call, before>>

-----------------------------------------------------------------------------
Step == ExecuteStep \/ Converged \/ NextPass \/ OverCap

Next ==
  \/ Recalc
  \/ \E c \in Cell : \E p \in Menu[c] : EditFormula(c, p)
  \/ \E c \in Cell : \E v \in Typable[c] : EditLiteral(c, v)
  \/ Reload
  \/ Step

\* drive_recalc is sequential code: begun, its steps follow one another.
Spec == Init /\ [][Next]_vars /\ WF_vars(Step)

-----------------------------------------------------------------------------
(* Properties. *)

Engine ==
  [programs : Programs,
   values : [Cell -> Value],
   spills : [Cell -> SUBSET Cell],
   owner : [Cell -> Cell \cup {NoOwner}],
   dynamic : SUBSET Cell, redirty : SUBSET Cell,
   unstable : SUBSET Cell, refused : SUBSET Cell,
   diags : [Cell -> SUBSET (Refusal \cup {"Unparsed"})]]

TypeOK ==
  /\ engine \in Engine
  /\ pc \in {"loaded", "idle", "run"}
  /\ plan \in Seq(SUBSET Cell)
  /\ iters \in 0 .. Cap
  /\ typed \in [Cell -> Value]
  /\ call \in {"load", "recalc", "again", "edit", "reload", "rebuild"}
  /\ before \in [Cell -> Value] \cup {NoSnapshot}

Anchors == {a \in Cell : engine.spills[a] # {}}

(* No value outlives the array that wrote it: a cell that no formula, no     *)
(* literal and no region accounts for is blank.                              *)
NoOrphans ==
  \A c \in Cell \ Formulas(engine) :
    engine.owner[c] = NoOwner /\ typed[c] \in {Absent, Blank} =>
      engine.values[c] \in {Absent, Blank}

(* The two spill maps describe one partition: an owned cell lies in the      *)
(* region of its anchor, an anchor is a formula that owns its own slot, no   *)
(* other owned cell is a formula, and the graph flags exactly the anchors.   *)
(* Between calls every cell of a region is owned by its anchor, so a cell    *)
(* the user took has been given up, and the cells that no region accounts    *)
(* for hold nothing an array left there (spills, spill_owner, retract_spill).*)
OwnershipExact ==
  /\ \A x \in Cell : engine.owner[x] # NoOwner => x \in engine.spills[engine.owner[x]]
  /\ \A a \in Anchors : a \in Formulas(engine) /\ engine.owner[a] = a
  /\ \A x \in Formulas(engine) : engine.owner[x] \in {x, NoOwner}
  /\ engine.dynamic = Anchors
  /\ pc = "idle" => \A a \in Anchors : \A x \in engine.spills[a] : engine.owner[x] = a
  /\ NoOrphans

(* No array ever writes over what the user typed, nor blanks it when it      *)
(* shrinks, is blocked, refused or replaced (spill_anchor, retract_spill).   *)
LiteralsSafe ==
  \A c \in Cell : typed[c] \notin {Absent, Blank} => engine.values[c] = typed[c]

(* Never silently wrong: between calls every formula shows what it evaluates *)
(* to now, an array on all the cells of its region, or else carries a        *)
(* diagnostic of the refusal, shows an error and has no region.  One that is *)
(* refused for its size alone is an array that leaves the sheet now: none    *)
(* that ends in the last row or column is turned away (spill_anchor).        *)
Agrees(a) ==
  LET r == Result(engine, a)
  IN CASE r.kind = "scalar" ->
            engine.values[a] = IF r.value = Blank THEN 0 ELSE r.value
       [] r.kind = "lambdas" -> FALSE
       [] r.kind = "array" ->
            /\ engine.spills[a] = Footprint(a, r)
            /\ \A d \in DOMAIN r.at : engine.values[Target(a, d)] = r.at[d]

LeavesSheet(a) ==
  LET r == Result(engine, a)
  IN r.kind = "array" /\ \E d \in DOMAIN r.at : RowOf(a) + d[1] >= Height \/ ColOf(a) + d[2] >= Width

FreshOrRefused ==
  pc = "idle" => \A a \in Formulas(engine) :
    IF engine.diags[a] \cap Refusal = {} THEN Agrees(a)
    ELSE /\ engine.values[a] \in Error /\ engine.spills[a] = {}
         /\ engine.diags[a] \cap Refusal = {"OffSheet"} => LeavesSheet(a)

(* Every call returns, arrays whose sizes depend on each other included.     *)
CallsReturn == pc = "run" ~> pc = "idle"

(* What the doc comment of recalc says: running it twice yields identical    *)
(* values.                                                                   *)
RecalcIsIdempotent == pc = "idle" /\ call = "again" => Shown(engine) = before

(* What the comment on drive_recalc says: an edit leaves the values that a   *)
(* full recalculation of the edited workbook, loaded anew, computes.         *)
EditMatchesRebuild == pc = "idle" /\ call = "rebuild" => Shown(engine) = before
=============================================================================
