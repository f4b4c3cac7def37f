-------------------------------- MODULE Tarjan --------------------------------
(***************************************************************************)
(* The iterative Tarjan pass of xl-graph (scc.rs, fn tarjan): the          *)
(* depth-first search is driven from an explicit stack of frames, one step *)
(* of its loop per action here.                                            *)
(*                                                                         *)
(* The nodes are the formulas, as integers: the dense indices of the code   *)
(* are their ranks, so they compare alike.  A frame                         *)
(* holds the successors its cursor has not passed yet: the adjacency lists *)
(* are sorted and free of duplicates, so the list behind the cursor is     *)
(* that set in ascending order.                                            *)
(***************************************************************************)
EXTENDS Integers, SequencesExt

CONSTANT Node  \* the formulas, finitely many natural numbers

Unvisited == -1

VARIABLES
  edges,      \* the successor lists
  index,      \* the order of discovery, Unvisited before it
  low,        \* the low-link of each node
  onStack,    \* membership of sccStack
  component,  \* the component of each node, Unvisited before it is emitted
  members,    \* the components emitted, each a set of nodes
  sccStack,   \* the nodes of components still open
  call,       \* the frames of the search: a node and its successors to visit
  counter     \* the next order of discovery

vars == <<edges, index, low, onStack, component, members, sccStack, call, counter>>

Visited(v) == index[v] # Unvisited
Succ(v) == {e[2] : e \in {f \in edges : f[1] = v}}

TypeOK ==
  /\ edges \subseteq Node \X Node
  /\ index \in [Node -> Node \cup {Unvisited}]
  /\ low \in [Node -> 0 .. Cardinality(Node)]
  /\ onStack \in [Node -> BOOLEAN]
  /\ component \in [Node -> Node \cup {Unvisited}]
  /\ members \in Seq(SUBSET Node)
  /\ sccStack \in Seq(Node)
  /\ call \in Seq([node : Node, todo : SUBSET Node])
  /\ counter \in 0 .. Cardinality(Node)

Init ==
  /\ edges \in SUBSET (Node \X Node)
  /\ index = [v \in Node |-> Unvisited]
  /\ low = [v \in Node |-> 0]
  /\ onStack = [v \in Node |-> FALSE]
  /\ component = [v \in Node |-> Unvisited]
  /\ members = <<>>
  /\ sccStack = <<>>
  /\ call = <<>>
  /\ counter = 0

\* Discover v: number it and open a frame above `frames`.
Discover(v, frames) ==
  /\ index' = [index EXCEPT ![v] = counter]
  /\ low' = [low EXCEPT ![v] = counter]
  /\ counter' = counter + 1
  /\ sccStack' = Append(sccStack, v)
  /\ onStack' = [onStack EXCEPT ![v] = TRUE]
  /\ call' = Append(frames, [node |-> v, todo |-> Succ(v)])
  /\ UNCHANGED <<edges, component, members>>

Top == Last(call)

\* The outer loop: the search restarts at the least node not visited.
StartSearch ==
  /\ call = <<>>
  /\ \E v \in Node :
       /\ index[v] = Unvisited
       /\ \A u \in Node : u < v => index[u] # Unvisited
       /\ Discover(v, call)

\* The edge leads to an open node discovered before what v reached so far.
BackEdge(v, w) == onStack[w] /\ index[w] < low[v]

\* The cursor of the top frame advances past its next successor w.
Advance(w) ==
  /\ call # <<>>
  /\ w \in Top.todo
  /\ \A u \in Top.todo : w <= u
  /\ LET v == Top.node
         rest == Append(Front(call), [Top EXCEPT !.todo = @ \ {w}])
     IN IF index[w] = Unvisited
        THEN Discover(w, rest)
        ELSE /\ low' = IF BackEdge(v, w) THEN [low EXCEPT ![v] = index[w]] ELSE low
             /\ call' = rest
             /\ UNCHANGED <<edges, index, onStack, component, members,
                            sccStack, counter>>

\* Where v lies on the stack; its component is what lies from there upwards.
Place(v) == CHOOSE i \in DOMAIN sccStack : sccStack[i] = v

PoppedFrom(v) == {sccStack[i] : i \in Place(v) .. Len(sccStack)}

NextNumber == Len(members)

OffStack(C) == [x \in Node |-> onStack[x] /\ x \notin C]

\* v is the root of a component: it is emitted and leaves the stack.
EmitComponent(v) ==
  LET C == PoppedFrom(v)
  IN /\ sccStack' = SubSeq(sccStack, 1, Place(v) - 1)
     /\ onStack' = OffStack(C)
     /\ component' = [x \in Node |-> IF x \in C THEN NextNumber ELSE component[x]]
     /\ members' = Append(members, C)

\* Fault: the parent does not learn what its child reached.
Relaxed_Never(v, frames) == low

\* The low-links once the frame of v has returned to the frames below it.
Relaxed(v, frames) ==
  IF frames # <<>> /\ low[v] < low[Last(frames).node]
  THEN [low EXCEPT ![Last(frames).node] = low[v]]
  ELSE low

\* All successors of the top frame are explored: it returns to its parent.
Retreat ==
  /\ call # <<>>
  /\ Top.todo = {}
  /\ LET v == Top.node
         rest == Front(call)
     IN /\ IF low[v] = index[v]
           THEN EmitComponent(v)
           ELSE UNCHANGED <<sccStack, onStack, component, members>>
        /\ call' = rest
        /\ low' = Relaxed(v, rest)
  /\ UNCHANGED <<edges, index, counter>>

Next == StartSearch \/ (\E w \in Node : Advance(w)) \/ Retreat

Spec == Init /\ [][Next]_vars /\ WF_vars(Next)

-----------------------------------------------------------------------------
(* Properties. *)

(* The pass emits the strongly connected components of the graph, each once  *)
(* and every one in the end, successors first.                               *)
Components == INSTANCE SccSpec WITH Node <- Node, edges <- edges, emitted <- members

EmitsComponents == Components!Spec
=============================================================================
