-------------------------------- MODULE SccSpec -------------------------------
(***************************************************************************)
(* What a strongly-connected-components pass promises, in the words of the *)
(* header of xl-graph's scc.rs: it emits each component of the graph once, *)
(* in a reverse topological order of the condensation, that is a component *)
(* after every other component its cells lead to.                          *)
(***************************************************************************)
EXTENDS SequencesExt

CONSTANT Node

VARIABLES
  edges,    \* the graph, set once
  emitted   \* the components emitted so far, in order

vars == <<edges, emitted>>

\* The nodes of C lead to each other: no part of C is without an edge to the rest.
StronglyConnected(C) ==
  \A S \in (SUBSET C) \ {{}, C} : \E e \in edges : e[1] \in S /\ e[2] \in C \ S

Done == UNION Range(emitted)

Init ==
  /\ edges \in SUBSET (Node \X Node)
  /\ emitted = <<>>

\* What leads out of C is done, so no larger set is strongly connected either:
\* C is a component.
Emit(C) ==
  /\ C # {}
  /\ C \cap Done = {}
  /\ \A e \in edges : e[1] \in C => e[2] \in C \cup Done
  /\ StronglyConnected(C)
  /\ emitted' = Append(emitted, C)
  /\ UNCHANGED edges

Next == \E C \in SUBSET Node : Emit(C)

Spec == Init /\ [][Next]_vars /\ WF_vars(Next)
=============================================================================
