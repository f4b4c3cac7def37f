---------------------------- MODULE ParallelRecalc ----------------------------
(***************************************************************************)
(* The `parallel` feature of xl-engine (lib.rs: parallel_unsafe,           *)
(* try_recalc_parallel, execute_parallel) over SpillEngine.  When no       *)
(* formula of the workbook may spill, a full recalculation evaluates the   *)
(* steps of the plan wave by wave.  The threads of a wave evaluate its     *)
(* cells in any order, against the values that earlier waves left; the     *)
(* results are then written one by one in plan order.  A wave with a       *)
(* circular group is run serially.  An array among the results of a wave   *)
(* sends the whole recalculation to the serial executor.                   *)
(***************************************************************************)
EXTENDS SpillEngine

CONSTANTS
  Unlisted,  \* the array operations that ARRAY_RETURNING_FNS misses
  NoStart

ArrayOp == {"grow", "shrink", "row", "fill", "lambdas"}
ASSUME UnlistedAssumption == Unlisted \subseteq ArrayOp

VARIABLES
  buckets,  \* the waves to come, each a sequence of steps in plan order
  staged,   \* the results of the present wave that are in
  start     \* history: the engine when the waves began, until they have run,
            \* or until the first serial pass in their stead has

parVars == <<buckets, staged, start>>

ParallelInit ==
  /\ Init
  /\ buckets = <<>>
  /\ staged = <<>>
  /\ start = NoStart

\* parallel_unsafe, negated: no region, no array function, no x#.
GateOpen(e) ==
  /\ \A a \in Cell : e.spills[a] = {}
  /\ \A c \in Cell : e.programs[c].op \notin (ArrayOp \ Unlisted) \cup {"hash"}

\* Fault: every step is in the first wave.
WaveOf_First(e, steps) == [i \in DOMAIN steps |-> 1]

\* plan_waves: a step comes one wave after the last of those it reads.
WaveOf(e, steps) ==
  LET readBy(i) == {j \in DOMAIN steps \ {i} :
                      \E r \in Reads(e) : r[1] \in steps[i] /\ r[2] \in steps[j]}
      wave[i \in DOMAIN steps] == Max({1} \cup {wave[j] + 1 : j \in readBy(i)})
  IN wave

\* The waves, each with its steps in the order of the plan.
Buckets(e) ==
  LET steps == FullPlan(e)
      wave == WaveOf(e, steps)
      inWave(k) == UNION {steps[i] : i \in {j \in DOMAIN steps : wave[j] = k}}
  IN [k \in 1 .. Max({0} \cup Range(wave)) |-> Filtered(steps, inWave(k))]

CellsOf(bucket) == UNION Range(bucket)

AllEval(e, bucket) == \A i \in DOMAIN bucket : ~IsCircular(e, bucket[i])

InWave == pc = "waves" /\ buckets # <<>>
InEvalWave == InWave /\ AllEval(engine, Head(buckets))

StagedAll == CellsOf(Head(buckets)) \subseteq DOMAIN staged

\* Fault: an array among the results is overlooked.
ArrayStaged_Overlooked == FALSE

ArrayStaged == \E c \in DOMAIN staged : staged[c].kind # "scalar"

RecalcParallel ==
  /\ pc \in {"loaded", "idle"}
  /\ GateOpen(engine)
  /\ engine' = [engine EXCEPT !.refused = {}]
  /\ buckets' = Buckets(engine)
  /\ start' = engine
  /\ pc' = "waves"
  /\ Recorded
  /\ UNCHANGED <<plan, iters, staged>>

\* A thread evaluates a cell of the wave.
Evaluate(c) ==
  /\ InEvalWave
  /\ c \in CellsOf(Head(buckets)) \ DOMAIN staged
  /\ staged' = [x \in DOMAIN staged \cup {c} |-> IF x = c THEN Result(engine, c) ELSE staged[x]]
  /\ UNCHANGED <<vars, buckets, start>>

\* The staged-array backstop: nothing of this wave is written.
FallBack ==
  /\ InEvalWave
  /\ StagedAll
  /\ ArrayStaged
  /\ Drive(engine, FullPlan(engine))
  /\ buckets' = <<>>
  /\ staged' = <<>>
  /\ UNCHANGED <<typed, call, before, start>>

\* The results still to write once the first of the bucket is written.
LeftStaged(bucket) == Restrict(staged, CellsOf(Tail(bucket)))

Apply ==
  /\ InEvalWave
  /\ StagedAll
  /\ ~ArrayStaged
  /\ \E c \in Head(Head(buckets)) : engine' = ApplyResult(engine, c, staged[c])
  /\ buckets' = IF Len(Head(buckets)) = 1 THEN Tail(buckets)
                ELSE [buckets EXCEPT ![1] = Tail(@)]
  /\ staged' = LeftStaged(Head(buckets))
  /\ UNCHANGED <<pc, plan, iters, typed, call, before, start>>

\* A wave with a circular group: its steps one after the other, arrays and all.
Barrier ==
  /\ InWave
  /\ ~InEvalWave
  /\ engine' = FoldLeft(RunStep, engine, Head(buckets))
  /\ buckets' = Tail(buckets)
  /\ UNCHANGED <<pc, plan, iters, typed, call, before, staged, start>>

WavesDone == pc = "waves" /\ buckets = <<>>

FinishWaves ==
  /\ WavesDone
  /\ pc' = "idle"
  /\ start' = NoStart
  /\ UNCHANGED <<engine, plan, iters, typed, call, before, buckets, staged>>

\* Everything else is serial.
SerialRecalc == ~GateOpen(engine) /\ Recalc /\ UNCHANGED parVars

Edit ==
  /\ \/ \E c \in Cell : \E p \in Menu[c] : EditFormula(c, p)
     \/ \E c \in Cell : \E v \in Typable[c] : EditLiteral(c, v)
  /\ UNCHANGED parVars

SerialStep ==
  /\ Step
  /\ start' = IF PassEnds THEN NoStart ELSE start
  /\ UNCHANGED <<buckets, staged>>

ParallelNext ==
  \/ RecalcParallel
  \/ \E c \in Cell : Evaluate(c)
  \/ FallBack
  \/ Apply
  \/ Barrier
  \/ FinishWaves
  \/ SerialRecalc
  \/ Edit
  \/ SerialStep

ParallelSpec == ParallelInit /\ [][ParallelNext]_<<vars, parVars>>

-----------------------------------------------------------------------------
(* Properties. *)

\* Results are staged for cells of the present wave only, and the waves to
\* come cover the plan's steps once each.
ParallelTypeOK ==
  /\ engine \in Engine
  /\ pc \in {"loaded", "idle", "run", "waves"}
  /\ buckets \in Seq(Seq(SUBSET Cell))
  /\ buckets # <<>> => pc = "waves"
  /\ DOMAIN staged \subseteq IF InWave THEN CellsOf(Head(buckets)) ELSE {}
  /\ \A k, l \in DOMAIN buckets : k # l => CellsOf(buckets[k]) \cap CellsOf(buckets[l]) = {}

Serial(e) == FoldLeft(RunStep, [e EXCEPT !.refused = {}], FullPlan(e))

\* An unlisted array in a wave that is run serially, where no result is scanned.
Unscanned(e) ==
  \E k \in DOMAIN Buckets(e) :
    LET B == Buckets(e)[k]
    IN ~AllEval(e, B) /\ \E c \in CellsOf(B) : e.programs[c].op \in ArrayOp

(* A result computed by a thread is still what its formula evaluates to when *)
(* its turn to be written comes, whatever results of the same wave were      *)
(* written since; the waves leave the engine as one serial pass would, to    *)
(* the last owner and diagnostic, with no spill to reconcile; and the serial *)
(* pass that replaces them leaves what it would have without the waves       *)
(* written before (try_recalc_parallel, execute_parallel).                   *)
(* Except: see OmissionIsHarmless.                                           *)
ParallelIsSerial ==
  /\ ~ArrayStaged => \A c \in DOMAIN staged : staged[c] = Result(engine, c)
  /\ start # NoStart /\ ~Unscanned(start) /\ (WavesDone \/ PassEnds) =>
       /\ engine = Serial(start)
       /\ WavesDone => engine.redirty = {} /\ engine.unstable = {}

(* What the comment on ARRAY_RETURNING_FNS says: a function that the list    *)
(* misses costs parallelism, never correctness.                              *)
OmissionIsHarmless == FreshOrRefused
=============================================================================
