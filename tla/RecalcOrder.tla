----------------------------- MODULE RecalcOrder ------------------------------
(***************************************************************************)
(* The canonical recalculation order as a function of the graph (the       *)
(* header of xl-graph's schedule.rs): of the components whose precedents   *)
(* are all scheduled, the one with the least cell comes next.  Schedule    *)
(* computes it as the code does; SpillEngine takes its plans from here.    *)
(***************************************************************************)
EXTENDS Integers, SequencesExt

\* Which formula leads to which, as pairs, by paths through more and more of the
\* formulas; `reads` holds <<reader, cell read>> pairs.
LeadsTo(nodes, reads) ==
  LET edges == {<<e[2], e[1]>> : e \in {f \in reads : f[2] \in nodes}}
      through[N \in SUBSET nodes] ==
        IF N = {} THEN edges \cup {<<c, c>> : c \in nodes}
        ELSE LET u == CHOOSE u \in N : TRUE
                 R == through[N \ {u}]
             IN R \cup {p \in nodes \X nodes : <<p[1], u>> \in R /\ <<u, p[2]>> \in R}
  IN through[nodes]

\* The strongly connected components of the formulas.
ComponentsOf(nodes, leads) ==
  {{d \in nodes : <<c, d>> \in leads /\ <<d, c>> \in leads} : c \in nodes}

\* The plan as a sequence of components.
CanonicalPlan(nodes, reads) ==
  LET all == ComponentsOf(nodes, LeadsTo(nodes, reads))
      waitsFor(D) == {C \in all \ {D} : \E e \in reads : e[1] \in D /\ e[2] \in C}
      rest[done \in SUBSET all] ==
        LET free == {C \in all \ done : waitsFor(C) \subseteq done}
        IN IF free = {} THEN <<>>
           ELSE LET next == CHOOSE C \in free : \A D \in free : Min(C) <= Min(D)
                IN <<next>> \o rest[done \cup {next}]
  IN rest[{}]
=============================================================================
