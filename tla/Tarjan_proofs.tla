---------------------------- MODULE Tarjan_proofs -----------------------------
(***************************************************************************)
(* The component search is correct for every graph: the iterative pass     *)
(* emits sets that are strongly connected, each node in at most one of     *)
(* them, successors before predecessors, and when it is over every node    *)
(* has been emitted.                                                       *)
(*                                                                         *)
(* No path is mentioned.  A set is strongly connected when each proper     *)
(* part of it has an edge to the rest of it; the invariant gives every     *)
(* node on the stack an edge from an older node of its subtree (so that    *)
(* the root reaches it) and traces its low-link along edges to the node    *)
(* that has it as index (so that it reaches the root).                     *)
(***************************************************************************)
EXTENDS Tarjan, SequenceTheorems, WellFoundedInduction, TLAPS

\* A frame of the search: a node and its successors to visit.
Frame == [node : Node, todo : SUBSET Node]

Emitted == UNION {members[i] : i \in DOMAIN members}

\* The nodes on the stack, and those of them whose frame is gone.
Open == {x \in Node : onStack[x]}

Black(x) == x \in Open /\ \A k \in DOMAIN call : call[k].node # x

TypeInv ==
  /\ edges \subseteq Node \X Node
  /\ index \in [Node -> Int]
  /\ low \in [Node -> Int]
  /\ onStack \in [Node -> BOOLEAN]
  /\ members \in Seq(SUBSET Node)
  /\ sccStack \in Seq(Node)
  /\ call \in Seq(Frame)
  /\ counter \in Nat

\* The stack holds open nodes in the order of their discovery; a node that was
\* discovered is open or emitted, never both.
StackInv ==
  /\ \A i, j \in DOMAIN sccStack : i < j => index[sccStack[i]] < index[sccStack[j]]
  /\ \A x \in Node : x \in Open <=> \E i \in DOMAIN sccStack : sccStack[i] = x
  /\ \A x \in Node : index[x] = Unvisited \/ (0 <= index[x] /\ index[x] < counter)
  /\ \A x \in Node : index[x] # Unvisited <=> x \in Open \/ x \in Emitted
  /\ \A x \in Node : ~(x \in Open /\ x \in Emitted)

\* The frames are a path of open nodes, from the oldest open node on.
FrameInv ==
  /\ \A k \in DOMAIN call : call[k].node \in Open
  /\ \A k \in DOMAIN call : \A w \in call[k].todo : <<call[k].node, w>> \in edges
  /\ \A j, k \in DOMAIN call : j < k => index[call[j].node] < index[call[k].node]
  /\ \A k \in DOMAIN call : k + 1 \in DOMAIN call =>
       <<call[k].node, call[k + 1].node>> \in edges
  /\ \A x \in Node : x \in Open =>
       call # <<>> /\ index[call[1].node] <= index[x]

\* The low-link of an open node is the index of an open node, its own at most;
\* it is the target of an edge or the low-link of a black child.
LowInv ==
  /\ \A x \in Node : x \in Open => low[x] <= index[x]
  /\ \A x \in Node : Black(x) => low[x] < index[x]
  /\ \A x \in Node : x \in Open => \E z \in Node : z \in Open /\ low[x] = index[z]
  /\ \A x \in Node : x \in Open =>
       \/ low[x] = index[x]
       \/ \E z \in Node : z \in Open /\ <<x, z>> \in edges /\ low[x] = index[z]
       \/ \E y \in Node : /\ Black(y) /\ <<x, y>> \in edges
                          /\ index[x] < index[y] /\ low[y] = low[x]

\* Whatever was discovered after a frame is below it: a black node has an older
\* parent there, whose low-link is no higher.
ParentInv ==
  \A x \in Node, k \in DOMAIN call :
    Black(x) /\ index[call[k].node] < index[x] =>
      \E y \in Node : /\ y \in Open /\ <<y, x>> \in edges
                      /\ index[call[k].node] <= index[y] /\ index[y] < index[x]
                      /\ low[y] <= low[x]

\* An edge of an open node leads to an emitted node, to an open one that its
\* low-link knows of, or is still to be explored.
ExploredInv ==
  \A x, w \in Node : x \in Open /\ <<x, w>> \in edges =>
    \/ w \in Emitted
    \/ w \in Open /\ low[x] <= index[w]
    \/ \E k \in DOMAIN call : call[k].node = x /\ w \in call[k].todo

\* What the search promises of the components emitted so far.
Joined(C, g) ==
  \A S \in (SUBSET C) \ {{}, C} : \E a \in S, b \in C \ S : <<a, b>> \in g

Connected(C) == Joined(C, edges)

MembersInv ==
  /\ \A i \in DOMAIN members : members[i] # {} /\ Connected(members[i])
  /\ \A i, j \in DOMAIN members : i # j => members[i] \cap members[j] = {}
  /\ \A i \in DOMAIN members : \A x \in members[i], w \in Node :
       <<x, w>> \in edges => \E j \in 1 .. i : w \in members[j]

Inv ==
  TypeInv /\ StackInv /\ FrameInv /\ LowInv /\ ParentInv /\ ExploredInv /\ MembersInv

-----------------------------------------------------------------------------
(* Lemmas on numbers and sequences. *)

\* A nonempty set of natural numbers has a least element.
LEMMA LeastNatural ==
  ASSUME NEW T, T \subseteq Nat, T # {}
  PROVE  \E m \in T : \A n \in T : m <= n
<1> DEFINE R == OpToRel(<, Nat)
<1>1. IsWellFoundedOn(R, Nat)
  BY NatLessThanWellFounded
<1>2. PICK m \in T : \A n \in T : ~ (<<n, m>> \in R)
  <2> HIDE DEF R
  <2> QED BY <1>1, WFMin
<1>3. \A n \in T : <<n, m>> \in Nat \X Nat /\ <<n, m>> \notin {ss \in Nat \X Nat : ss[1] < ss[2]}
  BY <1>2 DEF OpToRel
<1>4. \A n \in T : n \in Nat /\ m \in Nat /\ ~(n < m)
  BY <1>3
<1>5. \A n \in T : m <= n
  BY <1>4
<1> QED BY <1>5

\* Of a nonempty set of nodes, the one with the least index.
LEMMA LeastIndex ==
  ASSUME NEW S, S \subseteq Node, S # {}, NEW f \in [Node -> Int], \A x \in S : f[x] >= 0
  PROVE  \E x \in S : \A y \in S : f[x] <= f[y]
<1> DEFINE T == {f[x] : x \in S}
<1>1. T \subseteq Nat /\ T # {}
  OBVIOUS
<1>2. PICK m \in T : \A n \in T : m <= n
  BY <1>1, LeastNatural
<1>3. PICK x \in S : m = f[x]
  BY <1>2
<1> QED BY <1>2, <1>3

\* Of a nonempty set of nodes, the one with the greatest index below a bound.
LEMMA GreatestIndex ==
  ASSUME NEW S, S \subseteq Node, S # {}, NEW f \in [Node -> Int],
         NEW b \in Nat, \A x \in S : f[x] < b
  PROVE  \E x \in S : \A y \in S : f[y] <= f[x]
<1> DEFINE T == {b - f[x] : x \in S}
<1>1. T \subseteq Nat /\ T # {}
  OBVIOUS
<1>2. PICK m \in T : \A n \in T : m <= n
  BY <1>1, LeastNatural
<1>3. PICK x \in S : m = b - f[x]
  BY <1>2
<1>4. \A y \in S : b - f[x] <= b - f[y]
  BY <1>2, <1>3
<1>5. \A y \in S : f[x] \in Int /\ f[y] \in Int
  OBVIOUS
<1>6. \A y \in S : f[y] <= f[x]
  BY <1>4, <1>5
<1> QED BY <1>6

LEMMA SeqFacts ==
  ASSUME NEW S, NEW s \in Seq(S)
  PROVE  /\ Len(s) \in Nat
         /\ DOMAIN s = 1 .. Len(s)
         /\ s # <<>> <=> Len(s) # 0
         /\ \A i \in 1 .. Len(s) : s[i] \in S
BY LenProperties, EmptySeq, ElementOfSeq

LEMMA AppendFacts ==
  ASSUME NEW S, NEW s \in Seq(S), NEW e \in S
  PROVE  /\ Append(s, e) \in Seq(S)
         /\ DOMAIN Append(s, e) = 1 .. Len(s) + 1
         /\ Len(Append(s, e)) = Len(s) + 1
         /\ \A i \in 1 .. Len(s) : Append(s, e)[i] = s[i]
         /\ Append(s, e)[Len(s) + 1] = e
BY AppendProperties, LenProperties

\* The frames once the cursor of the top one has passed w.
LEMMA PassFacts ==
  ASSUME NEW s \in Seq(Frame), s # <<>>, NEW w
  PROVE  LET rest == Append(Front(s), [Last(s) EXCEPT !.todo = @ \ {w}])
         IN /\ rest \in Seq(Frame)
            /\ Len(rest) = Len(s)
            /\ DOMAIN rest = DOMAIN s
            /\ \A k \in DOMAIN s :
                 /\ rest[k].node = s[k].node
                 /\ rest[k].todo = IF k = Len(s) THEN s[k].todo \ {w} ELSE s[k].todo
<1> DEFINE top == [Last(s) EXCEPT !.todo = @ \ {w}]
           rest == Append(Front(s), top)
<1>1. Len(s) \in Nat \ {0} /\ DOMAIN s = 1 .. Len(s) /\ \A k \in 1 .. Len(s) : s[k] \in Frame
  BY EmptySeq, LenProperties, ElementOfSeq
<1>2. /\ Front(s) \in Seq(Frame)
      /\ Len(Front(s)) = Len(s) - 1
      /\ \A k \in 1 .. Len(s) - 1 : Front(s)[k] = s[k]
  BY <1>1, SubSeqProperties DEF Front
<1>3. Last(s) = s[Len(s)] /\ s[Len(s)] \in Frame
  BY <1>1 DEF Last
<1>4. top \in Frame /\ top.node = s[Len(s)].node /\ top.todo = s[Len(s)].todo \ {w}
  BY <1>3 DEF Frame
<1>5. /\ rest \in Seq(Frame)
      /\ DOMAIN rest = 1 .. Len(s)
      /\ Len(rest) = Len(s)
      /\ \A k \in 1 .. Len(s) - 1 : rest[k] = s[k]
      /\ rest[Len(s)] = top
  <2> HIDE DEF top
  <2>1. /\ rest \in Seq(Frame)
        /\ DOMAIN rest = 1 .. Len(Front(s)) + 1
        /\ Len(rest) = Len(Front(s)) + 1
        /\ \A k \in 1 .. Len(Front(s)) : rest[k] = Front(s)[k]
        /\ rest[Len(Front(s)) + 1] = top
    BY <1>2, <1>4, AppendFacts
  <2> HIDE DEF rest
  <2> QED BY <1>1, <1>2, <2>1
<1>6. ASSUME NEW k \in DOMAIN s
      PROVE  /\ rest[k].node = s[k].node
             /\ rest[k].todo = IF k = Len(s) THEN s[k].todo \ {w} ELSE s[k].todo
  <2> HIDE DEF top, rest
  <2>1. CASE k = Len(s)
    BY <2>1, <1>4, <1>5
  <2>2. CASE k # Len(s)
    BY <2>2, <1>1, <1>5
  <2> QED BY <2>1, <2>2
<1> HIDE DEF top, rest
<1>7. DOMAIN rest = DOMAIN s
  BY <1>1, <1>5
<1>8. QED
  BY <1>5, <1>6, <1>7 DEF top, rest

LEMMA SuccFacts ==
  ASSUME TypeInv, NEW v \in Node
  PROVE  /\ Succ(v) \subseteq Node
         /\ \A w \in Node : w \in Succ(v) <=> <<v, w>> \in edges
<1>1. \A e \in edges : e = <<e[1], e[2]>> /\ e[1] \in Node /\ e[2] \in Node
  BY DEF TypeInv
<1>2. \A w : w \in Succ(v) <=> \E e \in edges : e[1] = v /\ e[2] = w
  BY DEF Succ
<1>3. ASSUME NEW w, w \in Succ(v) PROVE w \in Node /\ <<v, w>> \in edges
  <2>1. PICK e \in edges : e[1] = v /\ e[2] = w
    BY <1>2, <1>3
  <2> QED BY <1>1, <2>1
<1>4. ASSUME NEW w, <<v, w>> \in edges PROVE w \in Succ(v)
  <2>1. <<v, w>>[1] = v /\ <<v, w>>[2] = w
    OBVIOUS
  <2> QED BY <1>2, <1>4, <2>1
<1> QED BY <1>3, <1>4

-----------------------------------------------------------------------------
(* Each action keeps the invariant. *)

\* Discover v above `frames`, the frames there are with v passed at most.
LEMMA DiscoverKeepsInv ==
  ASSUME NEW v \in Node, NEW frames \in Seq(Frame)
  PROVE  /\ Inv
         /\ index[v] = Unvisited
         /\ DOMAIN frames = DOMAIN call /\ Len(frames) = Len(call)
         /\ \A k \in DOMAIN call : /\ frames[k].node = call[k].node
                                   /\ frames[k].todo \subseteq call[k].todo
                                   /\ call[k].todo \subseteq frames[k].todo \cup {v}
         /\ call # <<>> => <<call[Len(call)].node, v>> \in edges
         /\ Discover(v, frames)
         => Inv'
<1>a. SUFFICES ASSUME
         Inv,
         index[v] = Unvisited,
         DOMAIN frames = DOMAIN call, Len(frames) = Len(call),
         \A k \in DOMAIN call : /\ frames[k].node = call[k].node
                                /\ frames[k].todo \subseteq call[k].todo
                                /\ call[k].todo \subseteq frames[k].todo \cup {v},
         call # <<>> => <<call[Len(call)].node, v>> \in edges,
         Discover(v, frames)
       PROVE Inv'
  OBVIOUS
<1> USE DEF Unvisited
<1>t. TypeInv /\ StackInv /\ FrameInv /\ LowInv /\ ParentInv /\ ExploredInv /\ MembersInv
  BY <1>a DEF Inv
<1>0. call \in Seq(Frame) /\ sccStack \in Seq(Node)
  BY <1>t DEF TypeInv
<1>1. PICK n \in Nat : /\ DOMAIN call = 1 .. n /\ Len(call) = n /\ (call # <<>> <=> n # 0)
                       /\ \A k \in 1 .. n : call[k] \in Frame
  BY <1>0, SeqFacts
<1>2. PICK m \in Nat : /\ DOMAIN sccStack = 1 .. m /\ Len(sccStack) = m
                       /\ \A i \in 1 .. m : sccStack[i] \in Node
  BY <1>0, SeqFacts
<1>3. counter \in Nat /\ counter' = counter + 1
  BY <1>a, <1>t DEF TypeInv, Discover
<1>4. edges' = edges /\ members' = members
  BY <1>a DEF Discover
<1>5. Emitted' = Emitted
  BY <1>4 DEF Emitted
<1>6. index \in [Node -> Int] /\ index' \in [Node -> Int] /\ index'[v] = counter
      /\ \A x \in Node : x # v => index'[x] = index[x]
  BY <1>a, <1>t, <1>3 DEF TypeInv, Discover
<1>7. low \in [Node -> Int] /\ low' \in [Node -> Int] /\ low'[v] = counter
      /\ \A x \in Node : x # v => low'[x] = low[x]
  BY <1>a, <1>t, <1>3 DEF TypeInv, Discover
<1>8. onStack' \in [Node -> BOOLEAN]
  BY <1>a, <1>t DEF TypeInv, Discover
<1>9. Open' = Open \cup {v}
  BY <1>a, <1>t DEF TypeInv, Discover, Open
<1>10. Open \subseteq Node
  BY DEF Open
<1>11. v \notin Open /\ v \notin Emitted
  BY <1>a, <1>t DEF StackInv
<1>12. \A x \in Open : x # v /\ 0 <= index[x] /\ index[x] < counter
  BY <1>t, <1>10, <1>11 DEF StackInv
<1>13. sccStack' = Append(sccStack, v)
  BY <1>a DEF Discover
<1>14. /\ sccStack' \in Seq(Node) /\ DOMAIN sccStack' = 1 .. m + 1
       /\ \A i \in 1 .. m : sccStack'[i] = sccStack[i]
       /\ sccStack'[m + 1] = v
  BY <1>0, <1>2, <1>13, AppendFacts
<1>15. [node |-> v, todo |-> Succ(v)] \in Frame
  BY <1>t, SuccFacts DEF Frame
<1>16. call' = Append(frames, [node |-> v, todo |-> Succ(v)])
  BY <1>a DEF Discover
<1>17. /\ call' \in Seq(Frame) /\ DOMAIN call' = 1 .. n + 1
       /\ call'[n + 1] = [node |-> v, todo |-> Succ(v)]
       /\ \A k \in 1 .. n : call'[k] = frames[k]
  BY <1>a, <1>1, <1>15, <1>16, AppendFacts
<1>18. call'[n + 1].node = v /\ call'[n + 1].todo = Succ(v)
  BY <1>17
<1>19. \A k \in 1 .. n : call'[k].node = call[k].node
  BY <1>a, <1>1, <1>17
<1>20. \A k \in 1 .. n : call'[k].todo \subseteq call[k].todo /\ call[k].todo \subseteq call'[k].todo \cup {v}
  BY <1>a, <1>1, <1>17
<1>21. call' # <<>>
  BY <1>17, EmptySeq, SeqFacts
<1>22. \A k \in 1 .. n : call[k].node \in Open /\ call[k].node \in Node
  BY <1>t, <1>1, <1>10 DEF FrameInv
<1>24. \A x \in Node : Black(x)' <=> Black(x)
  <2> SUFFICES ASSUME NEW x \in Node PROVE Black(x)' <=> Black(x)
    OBVIOUS
  <2>1. Black(x)' <=> x \in Open' /\ \A k \in 1 .. n + 1 : call'[k].node # x
    BY <1>17 DEF Black
  <2>2. Black(x) <=> x \in Open /\ \A k \in 1 .. n : call[k].node # x
    BY <1>1 DEF Black
  <2>3. (\A k \in 1 .. n + 1 : call'[k].node # x) <=> v # x /\ \A k \in 1 .. n : call[k].node # x
    BY <1>18, <1>19
  <2> QED BY <2>1, <2>2, <2>3, <1>9, <1>11
<1>25. TypeInv'
  <2>1. edges \subseteq Node \X Node /\ members \in Seq(SUBSET Node)
    BY <1>t DEF TypeInv
  <2>2. edges' \subseteq Node \X Node /\ members' \in Seq(SUBSET Node) /\ counter' \in Nat
    BY <2>1, <1>3, <1>4
  <2> QED BY <2>2, <1>6, <1>7, <1>8, <1>14, <1>17 DEF TypeInv
<1>26. StackInv'
  <2>0. \A i \in 1 .. m : sccStack[i] \in Open
    BY <1>t, <1>2 DEF StackInv
  <2>1. \A i, j \in 1 .. m + 1 : i < j => index'[sccStack'[i]] < index'[sccStack'[j]]
    <3>1. \A i, j \in 1 .. m : i < j => index[sccStack[i]] < index[sccStack[j]]
      BY <1>t, <1>2 DEF StackInv
    <3>2. \A i \in 1 .. m : index'[sccStack'[i]] = index[sccStack[i]] /\ index[sccStack[i]] < counter
      BY <2>0, <1>2, <1>6, <1>12, <1>14
    <3>3. index'[sccStack'[m + 1]] = counter
      BY <1>6, <1>14
    <3> QED BY <3>1, <3>2, <3>3
  <2>2. \A x \in Node : x \in Open' <=> \E i \in 1 .. m + 1 : sccStack'[i] = x
    <3>1. \A x \in Node : x \in Open <=> \E i \in 1 .. m : sccStack[i] = x
      BY <1>t, <1>2 DEF StackInv
    <3> QED BY <3>1, <1>9, <1>14
  <2>3. \A x \in Node : index'[x] = Unvisited \/ (0 <= index'[x] /\ index'[x] < counter')
    BY <1>t, <1>3, <1>6 DEF StackInv
  <2>4. \A x \in Node : index'[x] # Unvisited <=> x \in Open' \/ x \in Emitted'
    BY <1>t, <1>3, <1>5, <1>6, <1>9 DEF StackInv
  <2>5. \A x \in Node : ~(x \in Open' /\ x \in Emitted')
    BY <1>t, <1>5, <1>9, <1>11 DEF StackInv
  <2>6. DOMAIN sccStack' = 1 .. m + 1
    BY <1>14
  <2>7. \A i, j \in DOMAIN sccStack' : i < j => index'[sccStack'[i]] < index'[sccStack'[j]]
    BY <2>1, <2>6
  <2>8. \A x \in Node : x \in Open' <=> \E i \in DOMAIN sccStack' : sccStack'[i] = x
    BY <2>2, <2>6
  <2> QED BY <2>3, <2>4, <2>5, <2>7, <2>8 DEF StackInv
<1>27. FrameInv'
  <2>1. \A k \in 1 .. n + 1 : call'[k].node \in Open'
    BY <1>9, <1>18, <1>19, <1>22
  <2>2. \A k \in 1 .. n + 1 : \A w \in call'[k].todo : <<call'[k].node, w>> \in edges'
    <3>1. \A k \in 1 .. n : \A w \in call[k].todo : <<call[k].node, w>> \in edges
      BY <1>t, <1>1 DEF FrameInv
    <3>2. \A w \in Succ(v) : <<v, w>> \in edges
      BY <1>t, SuccFacts
    <3> QED BY <3>1, <3>2, <1>4, <1>18, <1>19, <1>20
  <2>3. \A j, k \in 1 .. n + 1 : j < k => index'[call'[j].node] < index'[call'[k].node]
    <3>1. \A j, k \in 1 .. n : j < k => index[call[j].node] < index[call[k].node]
      BY <1>t, <1>1 DEF FrameInv
    <3>2. \A k \in 1 .. n : index'[call'[k].node] = index[call[k].node] /\ index[call[k].node] < counter
      BY <1>6, <1>12, <1>19, <1>22
    <3>3. index'[call'[n + 1].node] = counter
      BY <1>6, <1>18
    <3> QED BY <3>1, <3>2, <3>3
  <2>4. \A k \in 1 .. n + 1 : k + 1 \in 1 .. n + 1 =>
           <<call'[k].node, call'[k + 1].node>> \in edges'
    <3>1. \A k \in 1 .. n : k + 1 \in 1 .. n => <<call[k].node, call[k + 1].node>> \in edges
      BY <1>t, <1>1 DEF FrameInv
    <3>2. n # 0 => <<call[n].node, v>> \in edges
      BY <1>a, <1>1
    <3> QED BY <3>1, <3>2, <1>4, <1>18, <1>19
  <2>5. \A x \in Node : x \in Open' => call' # <<>> /\ index'[call'[1].node] <= index'[x]
    <3>1. \A x \in Node : x \in Open => n # 0 /\ index[call[1].node] <= index[x]
      BY <1>t, <1>1 DEF FrameInv
    <3>2. CASE n = 0
      BY <3>1, <3>2, <1>3, <1>6, <1>9, <1>10, <1>18, <1>21
    <3>3. CASE n # 0
      BY <3>1, <3>3, <1>3, <1>6, <1>9, <1>10, <1>12, <1>19, <1>21, <1>22
    <3> QED BY <3>2, <3>3
  <2> QED BY <2>1, <2>2, <2>3, <2>4, <2>5, <1>17 DEF FrameInv
<1>28. LowInv'
  <2>1. \A x \in Node : x \in Open' => low'[x] <= index'[x]
    BY <1>t, <1>3, <1>6, <1>7, <1>9, <1>11 DEF LowInv
  <2>2. \A x \in Node : Black(x)' => low'[x] < index'[x]
    <3>1. \A x \in Node : Black(x) => x # v /\ low[x] < index[x]
      BY <1>t, <1>11 DEF LowInv, Black
    <3> QED BY <3>1, <1>6, <1>7, <1>24
  <2>3. \A x \in Node : x \in Open' => \E z \in Node : z \in Open' /\ low'[x] = index'[z]
    BY <1>t, <1>6, <1>7, <1>9, <1>11 DEF LowInv
  <2>4. ASSUME NEW x \in Node, x \in Open'
        PROVE  \/ low'[x] = index'[x]
               \/ \E z \in Node : z \in Open' /\ <<x, z>> \in edges' /\ low'[x] = index'[z]
               \/ \E y \in Node : /\ Black(y)' /\ <<x, y>> \in edges'
                                  /\ index'[x] < index'[y] /\ low'[y] = low'[x]
    <3>1. CASE x = v
      BY <3>1, <1>6, <1>7
    <3>2. CASE x # v
      <4>1. x \in Open /\ low'[x] = low[x] /\ index'[x] = index[x]
        BY <2>4, <3>2, <1>6, <1>7, <1>9
      <4>2. \A z \in Node : z \in Open => z \in Open' /\ index'[z] = index[z]
        BY <1>6, <1>9, <1>11
      <4>3. \A y \in Node : Black(y) => Black(y)' /\ index'[y] = index[y] /\ low'[y] = low[y]
        BY <1>6, <1>7, <1>11, <1>24 DEF Black
      <4>4. \/ low[x] = index[x]
            \/ \E z \in Node : z \in Open /\ <<x, z>> \in edges /\ low[x] = index[z]
            \/ \E y \in Node : /\ Black(y) /\ <<x, y>> \in edges
                               /\ index[x] < index[y] /\ low[y] = low[x]
        BY <4>1, <1>t DEF LowInv
      <4> HIDE DEF Black
      <4> QED BY <4>1, <4>2, <4>3, <4>4, <1>4
    <3> QED BY <3>1, <3>2
  <2> QED BY <2>1, <2>2, <2>3, <2>4 DEF LowInv
<1>29. ParentInv'
  <2> SUFFICES ASSUME NEW x \in Node, NEW k \in 1 .. n + 1, Black(x)',
                      index'[call'[k].node] < index'[x]
               PROVE  \E y \in Node : /\ y \in Open' /\ <<y, x>> \in edges'
                                      /\ index'[call'[k].node] <= index'[y] /\ index'[y] < index'[x]
                                      /\ low'[y] <= low'[x]
    BY <1>17 DEF ParentInv
  <2>1. Black(x) /\ x \in Open /\ x # v
    BY <1>11, <1>24 DEF Black
  <2>2. index'[x] = index[x] /\ low'[x] = low[x] /\ index[x] < counter
    BY <2>1, <1>6, <1>7, <1>12
  <2>3. k \in 1 .. n
    BY <2>2, <1>6, <1>3, <1>18
  <2>4. call'[k].node = call[k].node /\ index'[call'[k].node] = index[call[k].node]
    BY <2>3, <1>6, <1>12, <1>19, <1>22
  <2>5. PICK y \in Node : /\ y \in Open /\ <<y, x>> \in edges
                          /\ index[call[k].node] <= index[y] /\ index[y] < index[x]
                          /\ low[y] <= low[x]
    BY <2>1, <2>2, <2>3, <2>4, <1>t, <1>1 DEF ParentInv
  <2>6. y # v /\ index'[y] = index[y] /\ low'[y] = low[y]
    BY <2>5, <1>6, <1>7, <1>11
  <2> QED BY <2>2, <2>4, <2>5, <2>6, <1>4, <1>9
<1>30. ExploredInv'
  <2> SUFFICES ASSUME NEW x \in Node, NEW w \in Node, x \in Open', <<x, w>> \in edges'
               PROVE  \/ w \in Emitted'
                      \/ w \in Open' /\ low'[x] <= index'[w]
                      \/ \E k \in 1 .. n + 1 : call'[k].node = x /\ w \in call'[k].todo
    BY <1>17 DEF ExploredInv
  <2>1. CASE x = v
    BY <2>1, <1>t, <1>4, <1>18, SuccFacts
  <2>2. CASE x # v
    <3>1. x \in Open /\ low'[x] = low[x] /\ low[x] <= index[x] /\ index[x] < counter
      BY <2>2, <1>t, <1>7, <1>9, <1>12 DEF LowInv
    <3>2. \/ w \in Emitted
          \/ w \in Open /\ low[x] <= index[w]
          \/ \E k \in 1 .. n : call[k].node = x /\ w \in call[k].todo
      BY <3>1, <1>t, <1>1, <1>4 DEF ExploredInv
    <3>3. CASE w \in Emitted
      BY <3>3, <1>5
    <3>4. CASE w \in Open /\ low[x] <= index[w]
      BY <3>1, <3>4, <1>6, <1>9, <1>11
    <3>5. CASE w = v
      BY <3>1, <3>5, <1>3, <1>6, <1>7, <1>9
    <3>6. CASE w # v /\ \E k \in 1 .. n : call[k].node = x /\ w \in call[k].todo
      BY <3>6, <1>19, <1>20
    <3> QED BY <3>2, <3>3, <3>4, <3>5, <3>6
  <2> QED BY <2>1, <2>2
<1>31. MembersInv'
  BY <1>t, <1>4 DEF MembersInv, Connected
<1> QED BY <1>25, <1>26, <1>27, <1>28, <1>29, <1>30, <1>31 DEF Inv

\* The outer loop opens a search only when the stack is empty.
LEMMA StartKeepsInv == Inv /\ StartSearch => Inv'
<1>a. SUFFICES ASSUME Inv, StartSearch PROVE Inv'
  OBVIOUS
<1>1. call \in Seq(Frame) /\ call = <<>>
  BY <1>a DEF Inv, TypeInv, StartSearch
<1>2. PICK v \in Node : index[v] = Unvisited /\ Discover(v, call)
  BY <1>a DEF StartSearch
<1>3. DOMAIN call = {}
  BY <1>1
<1> QED BY <1>a, <1>1, <1>2, <1>3, DiscoverKeepsInv

\* The top frame passes its successor w, which is new or known.
LEMMA AdvanceKeepsInv ==
  ASSUME NEW w \in Node
  PROVE  Inv /\ Advance(w) => Inv'
<1>a. SUFFICES ASSUME Inv, Advance(w) PROVE Inv'
  OBVIOUS
<1>t. TypeInv /\ StackInv /\ FrameInv /\ LowInv /\ ParentInv /\ ExploredInv /\ MembersInv
  BY <1>a DEF Inv
<1>0. call \in Seq(Frame) /\ sccStack \in Seq(Node) /\ call # <<>>
  BY <1>a, <1>t DEF TypeInv, Advance
<1>1. PICK n \in Nat : /\ DOMAIN call = 1 .. n /\ Len(call) = n /\ n # 0
                       /\ \A k \in 1 .. n : call[k] \in Frame
  BY <1>0, SeqFacts
<1> DEFINE v == call[n].node
           rest == Append(Front(call), [Last(call) EXCEPT !.todo = @ \ {w}])
<1>2. Last(call) = call[n]
  BY <1>1 DEF Last
<1>3. v \in Node /\ w \in call[n].todo /\ <<v, w>> \in edges /\ v \in Open
  BY <1>a, <1>t, <1>1, <1>2 DEF Advance, FrameInv, Frame, Top
<1>4. /\ rest \in Seq(Frame) /\ Len(rest) = n /\ DOMAIN rest = 1 .. n
      /\ \A k \in 1 .. n : rest[k].node = call[k].node
      /\ \A k \in 1 .. n : rest[k].todo = IF k = n THEN call[k].todo \ {w} ELSE call[k].todo
  <2>1. /\ rest \in Seq(Frame) /\ Len(rest) = Len(call) /\ DOMAIN rest = DOMAIN call
        /\ \A k \in DOMAIN call :
             /\ rest[k].node = call[k].node
             /\ rest[k].todo = IF k = Len(call) THEN call[k].todo \ {w} ELSE call[k].todo
    BY <1>0, PassFacts
  <2> HIDE DEF rest
  <2> QED BY <2>1, <1>1
<1>5. CASE index[w] = Unvisited
  <2>1. Discover(w, rest)
    BY <1>a, <1>5, <1>2 DEF Advance, Top
  <2> HIDE DEF rest
  <2>2. /\ DOMAIN rest = DOMAIN call /\ Len(rest) = Len(call)
        /\ \A k \in DOMAIN call : /\ rest[k].node = call[k].node
                                  /\ rest[k].todo \subseteq call[k].todo
                                  /\ call[k].todo \subseteq rest[k].todo \cup {w}
        /\ <<call[Len(call)].node, w>> \in edges
    BY <1>1, <1>3, <1>4
  <2> QED BY <1>a, <1>4, <1>5, <2>1, <2>2, DiscoverKeepsInv
<1>6. CASE index[w] # Unvisited
  <2>1. /\ low' = IF BackEdge(v, w) THEN [low EXCEPT ![v] = index[w]] ELSE low
        /\ call' = rest
    BY <1>a, <1>6, <1>2 DEF Advance, Top
  <2>2. UNCHANGED <<edges, index, onStack, members, sccStack, counter>>
    BY <1>a, <1>6 DEF Advance
  <2>u. /\ edges' = edges /\ index' = index /\ onStack' = onStack /\ members' = members
        /\ sccStack' = sccStack /\ counter' = counter /\ Open' = Open /\ Emitted' = Emitted
    BY <2>2 DEF Open, Emitted
  <2>3. /\ call' \in Seq(Frame) /\ Len(call') = n /\ DOMAIN call' = 1 .. n
        /\ \A k \in 1 .. n : call'[k].node = call[k].node
        /\ \A k \in 1 .. n : call'[k].todo = IF k = n THEN call[k].todo \ {w} ELSE call[k].todo
    <3> HIDE DEF rest
    <3> QED BY <1>4, <2>1
  <2> HIDE DEF rest
  <2>4. index \in [Node -> Int] /\ low \in [Node -> Int] /\ Open \subseteq Node
    BY <1>t DEF TypeInv, Open
  <2>5. w \in Emitted \/ w \in Open
    BY <1>t, <1>6 DEF StackInv
  <2>6. low' \in [Node -> Int] /\ \A x \in Node : x # v => low'[x] = low[x]
    BY <2>1, <2>4, <1>3
  <2>7. low'[v] <= low[v] /\ (w \in Open => low'[v] <= index[w])
        /\ (low'[v] = low[v] \/ (w \in Open /\ low'[v] = index[w]))
    BY <2>1, <2>4, <1>3 DEF BackEdge, Open
  <2>8. \A x \in Node : Black(x)' <=> Black(x)
    BY <2>u, <2>3, <1>1 DEF Black
  <2>9. \A x \in Node : Black(x) => x # v /\ x \in Open
    BY <1>1 DEF Black
  <2>10. TypeInv'
    BY <1>t, <2>u, <2>3, <2>6 DEF TypeInv
  <2>11. StackInv'
    BY <1>t, <2>u DEF StackInv
  <2>12. FrameInv'
    <3>1. \A k \in 1 .. n : call'[k].todo \subseteq call[k].todo
      BY <2>3
    <3>2. \A k \in DOMAIN call' : call'[k].node \in Open'
      BY <1>t, <1>1, <2>u, <2>3 DEF FrameInv
    <3>3. \A k \in DOMAIN call' : \A u \in call'[k].todo : <<call'[k].node, u>> \in edges'
      BY <1>t, <1>1, <2>u, <2>3, <3>1 DEF FrameInv
    <3>4. \A j, k \in DOMAIN call' : j < k => index'[call'[j].node] < index'[call'[k].node]
      BY <1>t, <1>1, <2>u, <2>3 DEF FrameInv
    <3>5. \A k \in DOMAIN call' : k + 1 \in DOMAIN call' =>
            <<call'[k].node, call'[k + 1].node>> \in edges'
      BY <1>t, <1>1, <2>u, <2>3 DEF FrameInv
    <3>6. call' # <<>> /\ call'[1].node = call[1].node
      BY <1>1, <2>3, SeqFacts
    <3>7. \A x \in Node : x \in Open' => call' # <<>> /\ index'[call'[1].node] <= index'[x]
      BY <1>t, <2>u, <3>6 DEF FrameInv
    <3> QED BY <3>2, <3>3, <3>4, <3>5, <3>7 DEF FrameInv
  <2>13. LowInv'
    <3>1. \A x \in Node : x \in Open' => low'[x] <= index'[x]
      BY <1>t, <1>3, <2>4, <2>u, <2>6, <2>7 DEF LowInv
    <3>2. \A x \in Node : Black(x)' => low'[x] < index'[x]
      BY <1>t, <2>u, <2>6, <2>8, <2>9 DEF LowInv
    <3>3. \A x \in Node : x \in Open' => \E z \in Node : z \in Open' /\ low'[x] = index'[z]
      BY <1>t, <1>3, <2>u, <2>6, <2>7 DEF LowInv
    <3>4. ASSUME NEW x \in Node, x \in Open'
          PROVE  \/ low'[x] = index'[x]
                 \/ \E z \in Node : z \in Open' /\ <<x, z>> \in edges' /\ low'[x] = index'[z]
                 \/ \E y \in Node : /\ Black(y)' /\ <<x, y>> \in edges'
                                    /\ index'[x] < index'[y] /\ low'[y] = low'[x]
      <4>1. CASE low'[x] = low[x]
        <5>1. \/ low[x] = index[x]
              \/ \E z \in Node : z \in Open /\ <<x, z>> \in edges /\ low[x] = index[z]
              \/ \E y \in Node : /\ Black(y) /\ <<x, y>> \in edges
                                 /\ index[x] < index[y] /\ low[y] = low[x]
          BY <1>t, <2>u, <3>4 DEF LowInv
        <5> QED BY <4>1, <5>1, <2>u, <2>6, <2>8, <2>9
      <4>2. CASE low'[x] # low[x]
        <5>1. x = v /\ w \in Open /\ low'[x] = index[w]
          BY <4>2, <2>6, <2>7
        <5> QED BY <5>1, <1>3, <2>u
      <4> QED BY <4>1, <4>2
    <3> QED BY <3>1, <3>2, <3>3, <3>4 DEF LowInv
  <2>14. ParentInv'
    <3> SUFFICES ASSUME NEW x \in Node, NEW k \in 1 .. n, Black(x)',
                        index'[call'[k].node] < index'[x]
                 PROVE  \E y \in Node : /\ y \in Open' /\ <<y, x>> \in edges'
                                        /\ index'[call'[k].node] <= index'[y] /\ index'[y] < index'[x]
                                        /\ low'[y] <= low'[x]
      BY <2>3 DEF ParentInv
    <3>1. Black(x) /\ low'[x] = low[x] /\ call'[k].node = call[k].node
      BY <2>3, <2>6, <2>8, <2>9
    <3>2. PICK y \in Node : /\ y \in Open /\ <<y, x>> \in edges
                            /\ index[call[k].node] <= index[y] /\ index[y] < index[x]
                            /\ low[y] <= low[x]
      BY <3>1, <2>u, <1>t, <1>1 DEF ParentInv
    <3>3. low'[y] <= low[x]
      BY <3>2, <2>4, <2>6, <2>7, <1>3
    <3> QED BY <3>1, <3>2, <3>3, <2>u
  <2>15. ExploredInv'
    <3> SUFFICES ASSUME NEW x \in Node, NEW u \in Node, x \in Open', <<x, u>> \in edges'
                 PROVE  \/ u \in Emitted'
                        \/ u \in Open' /\ low'[x] <= index'[u]
                        \/ \E k \in 1 .. n : call'[k].node = x /\ u \in call'[k].todo
      BY <2>3 DEF ExploredInv
    <3>1. \/ u \in Emitted
          \/ u \in Open /\ low[x] <= index[u]
          \/ \E k \in 1 .. n : call[k].node = x /\ u \in call[k].todo
      BY <1>t, <1>1, <2>u DEF ExploredInv
    <3>2. CASE u \in Emitted
      BY <3>2, <2>u
    <3>3. CASE u \in Open /\ low[x] <= index[u]
      <4>1. low'[x] <= low[x]
        BY <2>4, <2>6, <2>7
      <4> QED BY <3>3, <4>1, <2>4, <2>6, <2>u
    <3>4. ASSUME NEW k \in 1 .. n, call[k].node = x, u \in call[k].todo
          PROVE  \/ u \in Emitted'
                 \/ u \in Open' /\ low'[x] <= index'[u]
                 \/ \E l \in 1 .. n : call'[l].node = x /\ u \in call'[l].todo
      <4>1. CASE k # n \/ u # w
        BY <3>4, <4>1, <2>3
      <4>2. CASE k = n /\ u = w
        BY <3>4, <4>2, <2>5, <2>7, <2>u
      <4> QED BY <4>1, <4>2
    <3> QED BY <3>1, <3>2, <3>3, <3>4
  <2>16. MembersInv'
    BY <1>t, <2>u DEF MembersInv, Connected
  <2> QED BY <2>10, <2>11, <2>12, <2>13, <2>14, <2>15, <2>16 DEF Inv
<1> QED BY <1>5, <1>6

\* The nodes that leave the stack with the root v.
Subtree(v) == {x \in Open : index[v] <= index[x]}

\* What a finished frame knows: everything above it is black, and every edge of
\* it and of them is explored.
LEMMA TopFacts ==
  ASSUME Inv, call # <<>>, Top.todo = {}
  PROVE  /\ Top.node \in Open /\ Top.node \in Node
         /\ \A x \in Subtree(Top.node) : x # Top.node => Black(x) /\ index[Top.node] < index[x]
         /\ \A x \in Subtree(Top.node), w \in Node : <<x, w>> \in edges =>
              w \in Emitted \/ (w \in Open /\ low[x] <= index[w])
<1>t. TypeInv /\ StackInv /\ FrameInv /\ ExploredInv
  BY DEF Inv
<1>0. call \in Seq(Frame) /\ call # <<>> /\ sccStack \in Seq(Node)
  BY <1>t DEF TypeInv
<1>1. PICK n \in Nat : /\ DOMAIN call = 1 .. n /\ Len(call) = n /\ n # 0
                       /\ \A k \in 1 .. n : call[k] \in Frame
  BY <1>0, SeqFacts
<1>2. PICK v \in Node : v = call[n].node
  BY <1>1 DEF Frame
<1>3. Top = call[n] /\ Top.node = v /\ call[n].todo = {}
  BY <1>1, <1>2 DEF Top, Last
<1>4. v \in Open /\ Open \subseteq Node /\ index \in [Node -> Int]
  <2>1. v \in Open
    BY <1>t, <1>1, <1>2 DEF FrameInv
  <2> QED BY <1>t, <2>1 DEF Open, TypeInv
<1>5. \A x, y \in Open : index[x] = index[y] => x = y
  <2>1. PICK m \in Nat : DOMAIN sccStack = 1 .. m
    BY <1>0, SeqFacts
  <2> SUFFICES ASSUME NEW x \in Open, NEW y \in Open, index[x] = index[y]
               PROVE  x = y
    OBVIOUS
  <2>2. PICK i \in 1 .. m : sccStack[i] = x
    BY <1>t, <1>4, <2>1 DEF StackInv
  <2>3. PICK j \in 1 .. m : sccStack[j] = y
    BY <1>t, <1>4, <2>1 DEF StackInv
  <2>4. ~(i < j) /\ ~(j < i)
    BY <1>t, <1>4, <2>1, <2>2, <2>3 DEF StackInv
  <2> QED BY <2>2, <2>3, <2>4
<1>6. \A k \in 1 .. n : index[call[k].node] <= index[v] /\ call[k].node \in Open
  <2>1. \A k \in 1 .. n : k = n \/ k < n
    OBVIOUS
  <2> QED BY <2>1, <1>t, <1>1, <1>2, <1>4 DEF FrameInv
<1>7. \A x \in Subtree(v) : x # v => index[v] < index[x] /\ \A k \in 1 .. n : call[k].node # x
  BY <1>4, <1>5, <1>6 DEF Subtree
<1>8. \A x \in Subtree(v) : x # v => Black(x)
  BY <1>1, <1>7 DEF Black, Subtree
<1>9. ASSUME NEW x \in Subtree(v), NEW w \in Node, <<x, w>> \in edges
      PROVE  w \in Emitted \/ (w \in Open /\ low[x] <= index[w])
  <2>1. ~ \E k \in 1 .. n : call[k].node = x /\ w \in call[k].todo
    <3>1. \A k \in 1 .. n : call[k].node = x => x = v
      BY <1>7
    <3>2. \A k \in 1 .. n : call[k].node = v => k = n
      <4>1. \A k \in 1 .. n : k < n => index[call[k].node] < index[v]
        BY <1>t, <1>1, <1>2 DEF FrameInv
      <4> QED BY <4>1, <1>4
    <3> QED BY <1>3, <3>1, <3>2
  <2>2. x \in Open /\ x \in Node
    BY <1>4 DEF Subtree
  <2> QED BY <2>1, <2>2, <1>1, <1>9, <1>t DEF ExploredInv
<1> QED BY <1>3, <1>4, <1>7, <1>8, <1>9

\* The root of a component: no low-link of its subtree is below its index, the
\* subtree is strongly connected, and its other edges lead to emitted nodes.
LEMMA RootFacts ==
  ASSUME Inv, call # <<>>, Top.todo = {}, low[Top.node] = index[Top.node]
  PROVE  /\ \A x \in Subtree(Top.node) : index[Top.node] <= low[x]
         /\ Connected(Subtree(Top.node))
         /\ \A x \in Subtree(Top.node), w \in Node :
              <<x, w>> \in edges => w \in Emitted \/ w \in Subtree(Top.node)
<1>t. TypeInv /\ StackInv /\ LowInv /\ ParentInv
  BY DEF Inv
<1>1. PICK v \in Node : v = Top.node
  BY TopFacts
<1> DEFINE C == Subtree(v)
<1>2. /\ v \in Open /\ Open \subseteq Node /\ C \subseteq Open
      /\ index \in [Node -> Int] /\ low \in [Node -> Int] /\ counter \in Nat
  BY <1>t, <1>1, TopFacts DEF TypeInv, Open, Subtree
<1>3. \A x \in C : x # v => Black(x) /\ index[v] < index[x]
  BY <1>1, TopFacts
<1>4. \A x \in Open : 0 <= index[x] /\ index[x] < counter
  BY <1>t, <1>2 DEF StackInv, Unvisited
<1>5. \A x \in C, w \in Node : <<x, w>> \in edges => w \in Emitted \/ (w \in Open /\ low[x] <= index[w])
  BY <1>1, TopFacts
<1>6. low[v] = index[v] /\ v \in C
  BY <1>1, <1>2 DEF Subtree
<1>7. \A x \in C : x # v => \E y \in C : /\ <<y, x>> \in edges /\ index[y] < index[x]
                                         /\ low[y] <= low[x]
  <2> SUFFICES ASSUME NEW x \in C, x # v
               PROVE  \E y \in C : /\ <<y, x>> \in edges /\ index[y] < index[x]
                                   /\ low[y] <= low[x]
    OBVIOUS
  <2>1. Black(x) /\ index[v] < index[x] /\ x \in Node
    BY <1>2, <1>3
  <2>2. \E k \in DOMAIN call : call[k].node = v
    <3>1. call \in Seq(Frame) /\ call # <<>>
      BY <1>t DEF TypeInv
    <3> QED BY <1>1, <3>1, SeqFacts DEF Top, Last
  <2>3. PICK y \in Node : /\ y \in Open /\ <<y, x>> \in edges
                          /\ index[v] <= index[y] /\ index[y] < index[x]
                          /\ low[y] <= low[x]
    BY <2>1, <2>2, <1>t DEF ParentInv
  <2> QED BY <2>3 DEF Subtree
<1>8. \A x \in C : index[v] <= low[x]
  <2> DEFINE Bad == {x \in C : ~(index[v] <= low[x])}
  <2> SUFFICES ASSUME Bad # {} PROVE FALSE
    OBVIOUS
  <2>1. Bad \subseteq Node /\ \A x \in Bad : index[x] >= 0
    BY <1>2, <1>4
  <2>2. PICK x \in Bad : \A y \in Bad : index[x] <= index[y]
    <3> HIDE DEF Bad
    <3> QED BY <1>2, <2>1, LeastIndex
  <2>3. x # v
    BY <1>2, <1>6
  <2>4. PICK y \in C : index[y] < index[x] /\ low[y] <= low[x]
    BY <1>7, <2>3
  <2>5. y \in Node /\ x \in Node /\ index[y] \in Int /\ index[x] \in Int /\ low[x] \in Int /\ low[y] \in Int
    BY <1>2
  <2>6. y \in Bad
    BY <1>2, <2>4, <2>5
  <2> QED BY <2>2, <2>4, <2>5, <2>6
<1>9. \A x \in C, w \in Node : <<x, w>> \in edges => w \in Emitted \/ w \in C
  <2> SUFFICES ASSUME NEW x \in C, NEW w \in Node, <<x, w>> \in edges, w \notin Emitted
               PROVE  w \in C
    OBVIOUS
  <2>1. w \in Open /\ low[x] <= index[w]
    BY <1>5
  <2>2. index[v] <= low[x] /\ x \in Node
    BY <1>2, <1>8
  <2> QED BY <1>2, <2>1, <2>2 DEF Subtree
<1>10. Connected(C)
  <2> SUFFICES ASSUME NEW S \in (SUBSET C) \ {{}, C},
                      \A a \in S, b \in C \ S : <<a, b>> \notin edges
               PROVE  FALSE
    <3> HIDE DEF C
    <3> QED BY DEF Connected, Joined
  <2>0. S \subseteq C /\ S # {} /\ S # C
    <3> HIDE DEF C
    <3> QED OBVIOUS
  <2>1. CASE v \in S
    <3> DEFINE Rest == C \ S
    <3>0. Rest # {} /\ Rest \subseteq C
      BY <2>0
    <3>1. Rest # {} /\ Rest \subseteq Node /\ \A x \in Rest : index[x] >= 0
      <4> HIDE DEF C, Rest
      <4> QED BY <3>0, <1>2, <1>4
    <3>2. PICK x \in Rest : \A y \in Rest : index[x] <= index[y]
      <4> HIDE DEF Rest
      <4> QED BY <1>2, <3>1, LeastIndex
    <3>3. PICK y \in C : <<y, x>> \in edges /\ index[y] < index[x]
      BY <2>1, <1>7
    <3>4. y \notin Rest
      BY <1>2, <3>2, <3>3
    <3> QED BY <3>3, <3>4
  <2>2. CASE v \notin S
    <3>1. S \subseteq Node /\ \A x \in S : index[x] >= 0
      <4> HIDE DEF C
      <4> QED BY <2>0, <1>2, <1>4
    <3>2. PICK x \in S : \A y \in S : index[x] <= index[y]
      BY <2>0, <1>2, <3>1, LeastIndex
    <3> DEFINE Same == {y \in S : low[y] = low[x]}
    <3>3. Same # {} /\ Same \subseteq Node /\ \A y \in Same : index[y] < counter
      <4> HIDE DEF C
      <4> QED BY <2>0, <1>2, <1>4
    <3>4. PICK y \in Same : \A z \in Same : index[z] <= index[y]
      <4> HIDE DEF Same
      <4> QED BY <1>2, <3>3, GreatestIndex
    <3>5. x \in C /\ y \in C /\ y \in S /\ low[y] = low[x] /\ x # v /\ y # v /\ x \in Node /\ y \in Node
      BY <1>2, <2>2
    <3>6. low[x] < index[x] /\ low[y] < index[y]
      BY <1>3, <1>t, <3>5 DEF LowInv
    <3>7. \/ \E z \in Node : z \in Open /\ <<y, z>> \in edges /\ low[y] = index[z]
          \/ \E z \in Node : /\ Black(z) /\ <<y, z>> \in edges
                             /\ index[y] < index[z] /\ low[z] = low[y]
      <4>1. y \in Open /\ low[y] # index[y]
        BY <1>2, <3>5, <3>6
      <4> QED BY <1>t, <3>5, <4>1 DEF LowInv
    <3>8. CASE \E z \in Node : z \in Open /\ <<y, z>> \in edges /\ low[y] = index[z]
      <4>1. PICK z \in Node : z \in Open /\ <<y, z>> \in edges /\ low[y] = index[z]
        BY <3>8
      <4>2. index[v] <= index[z]
        BY <4>1, <1>8, <3>5
      <4>3. z \in C
        BY <4>1, <4>2 DEF Subtree
      <4>4. index[z] < index[x]
        BY <3>5, <3>6, <4>1
      <4>5. z \notin S
        BY <1>2, <3>2, <4>1, <4>4
      <4> QED BY <3>5, <4>1, <4>3, <4>5
    <3>9. CASE \E z \in Node : /\ Black(z) /\ <<y, z>> \in edges
                               /\ index[y] < index[z] /\ low[z] = low[y]
      <4>1. PICK z \in Node : /\ Black(z) /\ <<y, z>> \in edges
                              /\ index[y] < index[z] /\ low[z] = low[y]
        BY <3>9
      <4>2. z \in Open /\ index[v] <= index[y]
        BY <3>5, <4>1 DEF Black, Subtree
      <4>3. z \in C
        BY <1>2, <3>5, <4>1, <4>2 DEF Subtree
      <4>4. z \in S
        BY <3>5, <4>1, <4>3
      <4>5. z \in Same
        BY <3>5, <4>1, <4>4
      <4> QED BY <1>2, <3>4, <3>5, <4>1, <4>5
    <3> QED BY <3>7, <3>8, <3>9
  <2> QED BY <2>1, <2>2
<1> QED BY <1>1, <1>8, <1>9, <1>10

\* What is popped for an open node v is the subtree above it.
LEMMA PoppedIsSubtree ==
  ASSUME Inv, NEW v \in Node, v \in Open
  PROVE  /\ PoppedFrom(v) = Subtree(v)
         /\ Place(v) \in DOMAIN sccStack /\ sccStack[Place(v)] = v
         /\ \A i \in DOMAIN sccStack : sccStack[i] \in Subtree(v) <=> Place(v) <= i
<1>t. TypeInv /\ StackInv
  BY DEF Inv
<1>1. sccStack \in Seq(Node) /\ index \in [Node -> Int] /\ Open \subseteq Node
  BY <1>t DEF TypeInv, Open
<1> DEFINE C == Subtree(v)
<1>4. PICK m \in Nat : /\ DOMAIN sccStack = 1 .. m /\ Len(sccStack) = m
                       /\ \A i \in 1 .. m : sccStack[i] \in Node
  BY <1>1, SeqFacts
<1>5. \A x \in Open : \E i \in 1 .. m : sccStack[i] = x
  BY <1>t, <1>1, <1>4 DEF StackInv
<1>6. \A i \in 1 .. m : sccStack[i] \in Open
  BY <1>t, <1>4 DEF StackInv
<1>7. \A i, j \in 1 .. m : i < j => index[sccStack[i]] < index[sccStack[j]]
  BY <1>t, <1>4 DEF StackInv
<1>8. PICK at \in 1 .. m : at = Place(v) /\ sccStack[at] = v
  BY <1>4, <1>5 DEF Place
<1>9. \A i \in 1 .. m : sccStack[i] \in C <=> at <= i
  <2> SUFFICES ASSUME NEW i \in 1 .. m PROVE sccStack[i] \in C <=> at <= i
    OBVIOUS
  <2>1. index[sccStack[i]] \in Int /\ index[v] \in Int
    BY <1>1, <1>4
  <2>2. i < at \/ i = at \/ at < i
    OBVIOUS
  <2> QED BY <2>1, <2>2, <1>6, <1>7, <1>8 DEF Subtree
<1>10. PoppedFrom(v) = C
  <2>1. PoppedFrom(v) = {sccStack[i] : i \in at .. m}
    BY <1>4, <1>8 DEF PoppedFrom
  <2>2. \A i \in at .. m : i \in 1 .. m
    BY <1>8
  <2>3. \A x \in C : \E i \in at .. m : sccStack[i] = x
    <3>1. C \subseteq Open
      BY DEF Subtree
    <3> HIDE DEF C
    <3> QED BY <3>1, <1>5, <1>9
  <2> HIDE DEF C
  <2> QED BY <2>1, <2>2, <2>3, <1>9
<1> QED BY <1>4, <1>8, <1>9, <1>10

\* The top frame returns to its parent, and takes its component along if it is
\* the root of one.
LEMMA RetreatKeepsInv == Inv /\ Retreat => Inv'
<1>a. SUFFICES ASSUME Inv, Retreat PROVE Inv'
  OBVIOUS
<1>t. TypeInv /\ StackInv /\ FrameInv /\ LowInv /\ ParentInv /\ ExploredInv /\ MembersInv
  BY <1>a DEF Inv
<1>0. call \in Seq(Frame) /\ sccStack \in Seq(Node) /\ call # <<>> /\ Top.todo = {}
  BY <1>a, <1>t DEF TypeInv, Retreat
<1>1. PICK n \in Nat : /\ DOMAIN call = 1 .. n /\ Len(call) = n /\ n # 0
                       /\ \A k \in 1 .. n : call[k] \in Frame
  BY <1>0, SeqFacts
<1>2. PICK v \in Node : v = call[n].node /\ v = Top.node
  BY <1>1 DEF Frame, Top, Last
<1> DEFINE rest == Front(call)
<1>3. /\ rest \in Seq(Frame) /\ Len(rest) = n - 1 /\ DOMAIN rest = 1 .. n - 1
      /\ \A k \in 1 .. n - 1 : rest[k] = call[k]
  <2>1. /\ Front(call) \in Seq(Frame)
        /\ Len(Front(call)) = n - 1
        /\ \A k \in 1 .. n - 1 : Front(call)[k] = call[k]
    BY <1>1, SubSeqProperties DEF Front
  <2> QED BY <2>1, SeqFacts
<1>4. call' = rest /\ low' = Relaxed(v, rest)
  BY <1>a, <1>2 DEF Retreat
<1>5. edges' = edges /\ index' = index /\ counter' = counter
  BY <1>a DEF Retreat
<1>6. low[v] = index[v] => EmitComponent(v)
  BY <1>a, <1>2 DEF Retreat
<1>7. low[v] # index[v] => UNCHANGED <<sccStack, onStack, component, members>>
  BY <1>a, <1>2 DEF Retreat
<1> HIDE DEF rest
<1>8. /\ call' \in Seq(Frame) /\ DOMAIN call' = 1 .. n - 1
      /\ \A k \in 1 .. n - 1 : call'[k] = call[k]
      /\ call' # <<>> <=> n - 1 # 0
  BY <1>1, <1>3, <1>4, SeqFacts
<1>9. /\ v \in Open /\ Open \subseteq Node
      /\ index \in [Node -> Int] /\ low \in [Node -> Int] /\ counter \in Nat
  <2>1. v \in Open
    BY <1>0, <1>2, <1>a, TopFacts
  <2> QED BY <2>1, <1>t DEF Open, TypeInv
<1>10. \A k \in 1 .. n - 1 : index[call[k].node] < index[v] /\ call[k].node # v
                             /\ call[k].node \in Open /\ call[k].node \in Node
  <2>0. \A k \in 1 .. n - 1 : k \in 1 .. n /\ n \in 1 .. n /\ k < n
    BY <1>1
  <2>1. \A k \in 1 .. n - 1 : index[call[k].node] < index[v] /\ call[k].node \in Open
    BY <2>0, <1>t, <1>1, <1>2 DEF FrameInv
  <2> QED BY <2>1, <1>9
<1>11. low[v] <= index[v]
  BY <1>t, <1>9 DEF LowInv
\* The parent of the frame, and what it learns.
<1>12. ASSUME n # 1
       PROVE  /\ n - 1 \in 1 .. n - 1
              /\ low' = IF low[v] < low[call[n - 1].node]
                        THEN [low EXCEPT ![call[n - 1].node] = low[v]] ELSE low
              /\ <<call[n - 1].node, v>> \in edges
  <2>1. n - 1 \in 1 .. n - 1 /\ n - 1 \in 1 .. n /\ (n - 1) + 1 \in 1 .. n
    BY <1>1, <1>12
  <2>2. rest # <<>> /\ Last(rest) = call[n - 1]
    BY <1>3, <2>1, SeqFacts DEF Last
  <2>3. <<call[n - 1].node, call[(n - 1) + 1].node>> \in edges
    BY <1>t, <1>1, <2>1 DEF FrameInv
  <2>4. low' = IF low[v] < low[call[n - 1].node]
               THEN [low EXCEPT ![call[n - 1].node] = low[v]] ELSE low
    BY <1>4, <2>2 DEF Relaxed
  <2>5. (n - 1) + 1 = n
    BY <1>1
  <2>6. <<call[n - 1].node, v>> \in edges
    BY <1>2, <2>3, <2>5
  <2> QED BY <2>1, <2>4, <2>6
<1>13. ASSUME n = 1 PROVE low' = low
  <2>1. rest = <<>>
    BY <1>3, <1>13, SeqFacts
  <2> QED BY <1>4, <2>1 DEF Relaxed
<1>14. CASE low[v] = index[v]
  <2> DEFINE C == Subtree(v)
  <2>1. low' = low
    BY <1>9, <1>10, <1>12, <1>13, <1>14, <1>t DEF LowInv
  <2>2. /\ \A x \in C : index[v] <= low[x]
        /\ Connected(C)
        /\ \A x \in C, w \in Node : <<x, w>> \in edges => w \in Emitted \/ w \in C
    BY <1>a, <1>0, <1>2, <1>14, RootFacts
  <2>3. v \in C /\ C \subseteq Open
    BY <1>9 DEF Subtree
  <2>4. PICK m \in Nat : /\ DOMAIN sccStack = 1 .. m /\ Len(sccStack) = m
                         /\ \A i \in 1 .. m : sccStack[i] \in Node
    BY <1>0, SeqFacts
  <2>5. \A x \in Open : \E i \in 1 .. m : sccStack[i] = x
    BY <1>t, <1>9, <2>4 DEF StackInv
  <2>6. \A i \in 1 .. m : sccStack[i] \in Open
    BY <1>t, <2>4 DEF StackInv
  <2>7. \A i, j \in 1 .. m : i < j => index[sccStack[i]] < index[sccStack[j]]
    BY <1>t, <2>4 DEF StackInv
  <2>8. PICK at \in 1 .. m : at = Place(v) /\ sccStack[at] = v
    BY <1>a, <1>9, <2>4, PoppedIsSubtree
  <2>9. \A i \in 1 .. m : sccStack[i] \in C <=> at <= i
    BY <1>a, <1>9, <2>4, <2>8, PoppedIsSubtree
  <2>10. PoppedFrom(v) = C
    BY <1>a, <1>9, PoppedIsSubtree
  <2>11. /\ sccStack' = SubSeq(sccStack, 1, at - 1)
         /\ onStack' = [x \in Node |-> onStack[x] /\ x \notin C]
         /\ members' = Append(members, C)
    BY <1>6, <1>14, <2>8, <2>10 DEF EmitComponent, OffStack
  <2> HIDE DEF C
  <2>12. Open' = Open \ C
    BY <2>11, <1>t DEF Open, TypeInv
  <2>13. /\ sccStack' \in Seq(Node) /\ DOMAIN sccStack' = 1 .. at - 1
         /\ \A i \in 1 .. at - 1 : sccStack'[i] = sccStack[i]
    <3>1. \A i \in 1 .. at - 1 : i \in 1 .. m
      BY <2>8
    <3>2. /\ SubSeq(sccStack, 1, at - 1) \in Seq(Node)
          /\ Len(SubSeq(sccStack, 1, at - 1)) = at - 1
          /\ \A i \in 1 .. at - 1 : SubSeq(sccStack, 1, at - 1)[i] = sccStack[i]
      BY <2>4, <2>8, <3>1, SubSeqProperties
    <3> QED BY <3>2, <2>11, SeqFacts
  <2>14. C \in SUBSET Node
    BY <1>9, <2>3
  <2>15. PICK p \in Nat : DOMAIN members = 1 .. p /\ Len(members) = p /\ members \in Seq(SUBSET Node)
    BY <1>t, SeqFacts DEF TypeInv
  <2>16. /\ members' \in Seq(SUBSET Node) /\ DOMAIN members' = 1 .. p + 1
         /\ \A i \in 1 .. p : members'[i] = members[i]
         /\ members'[p + 1] = C
    BY <2>11, <2>14, <2>15, AppendFacts
  <2>17. Emitted' = Emitted \cup C
    <3>1. \A x : x \in Emitted <=> \E i \in 1 .. p : x \in members[i]
      BY <2>15 DEF Emitted
    <3>2. \A x : x \in Emitted' <=> \E i \in 1 .. p + 1 : x \in members'[i]
      BY <2>16 DEF Emitted
    <3> QED BY <3>1, <3>2, <2>16
  <2>18. \A x \in Node : Black(x)' => Black(x) /\ x \notin C
    <3> SUFFICES ASSUME NEW x \in Node, Black(x)' PROVE Black(x) /\ x \notin C
      OBVIOUS
    <3>1. x \in Open /\ x \notin C /\ \A k \in 1 .. n - 1 : call[k].node # x
      BY <2>12, <1>8 DEF Black
    <3>2. \A k \in 1 .. n : k = n \/ k \in 1 .. n - 1
      BY <1>1
    <3>3. \A k \in 1 .. n : call[k].node # x
      BY <3>1, <3>2, <1>2, <2>3
    <3> QED BY <3>1, <3>3, <1>1 DEF Black
  <2>19. \A x \in Node : Black(x) /\ x \notin C => Black(x)'
    BY <2>12, <1>1, <1>8 DEF Black
  <2>20. \A x \in Open \ C : index[x] < index[v]
    BY <1>9 DEF Subtree, C
  <2>21. \A x \in C : index[v] <= index[x]
    BY DEF Subtree, C
  <2>22. TypeInv'
    <3>1. edges' \subseteq Node \X Node /\ counter' \in Nat /\ index' \in [Node -> Int] /\ low' \in [Node -> Int]
      BY <1>t, <1>5, <2>1 DEF TypeInv
    <3>2. onStack' \in [Node -> BOOLEAN]
      BY <2>11, <1>t DEF TypeInv
    <3> QED BY <3>1, <3>2, <1>8, <2>13, <2>16 DEF TypeInv
  <2>23. StackInv'
    <3>0. \A i \in 1 .. at - 1 : i \in 1 .. m
      BY <2>8
    <3>1. \A i, j \in DOMAIN sccStack' : i < j => index'[sccStack'[i]] < index'[sccStack'[j]]
      BY <3>0, <2>7, <2>13, <1>5
    <3>2. \A x \in Node : x \in Open' <=> \E i \in DOMAIN sccStack' : sccStack'[i] = x
      <4>1. \A i \in 1 .. m : i \in 1 .. at - 1 <=> ~(at <= i)
        BY <2>8
      <4> QED BY <3>0, <4>1, <2>5, <2>6, <2>9, <2>12, <2>13
    <3>3. \A x \in Node : index'[x] = Unvisited \/ (0 <= index'[x] /\ index'[x] < counter')
      BY <1>t, <1>5 DEF StackInv
    <3>4. \A x \in Node : index'[x] # Unvisited <=> x \in Open' \/ x \in Emitted'
      BY <1>t, <1>5, <2>3, <2>12, <2>17 DEF StackInv
    <3>5. \A x \in Node : ~(x \in Open' /\ x \in Emitted')
      BY <1>t, <2>12, <2>17 DEF StackInv
    <3> QED BY <3>1, <3>2, <3>3, <3>4, <3>5 DEF StackInv
  <2>24. FrameInv'
    <3>0. \A k \in 1 .. n - 1 : k \in 1 .. n
      BY <1>1
    <3>1. \A k \in 1 .. n - 1 : call[k].node \in Open'
      BY <1>9, <1>10, <2>12, <2>21
    <3>2. \A k \in 1 .. n - 1 : \A w \in call[k].todo : <<call[k].node, w>> \in edges
      BY <3>0, <1>t, <1>1 DEF FrameInv
    <3>3. \A j, k \in 1 .. n - 1 : j < k => index[call[j].node] < index[call[k].node]
      BY <3>0, <1>t, <1>1 DEF FrameInv
    <3>4. \A k \in 1 .. n - 1 : k + 1 \in 1 .. n - 1 => <<call[k].node, call[k + 1].node>> \in edges
      BY <3>0, <1>t, <1>1 DEF FrameInv
    <3>5. \A x \in Node : x \in Open' => n - 1 # 0 /\ index[call[1].node] <= index[x]
      <4>1. \A x \in Node : x \in Open => index[call[1].node] <= index[x]
        BY <1>t DEF FrameInv
      <4>2. \A x \in Node : x \in Open' => x \in Open /\ index[x] < index[v]
        BY <2>12, <2>20
      <4>0. n - 1 = 0 => n = 1
        BY <1>1
      <4>3. n - 1 = 0 => call[1].node = v
        BY <4>0, <1>2
      <4> QED BY <4>1, <4>2, <4>3, <1>9
    <3>6. n - 1 # 0 => call'[1] = call[1] /\ call' # <<>>
      BY <1>1, <1>8
    <3>7. \A k \in DOMAIN call' : call'[k].node \in Open'
      BY <3>1, <1>8
    <3>8. \A k \in DOMAIN call' : \A w \in call'[k].todo : <<call'[k].node, w>> \in edges'
      BY <3>2, <1>5, <1>8
    <3>9. \A j, k \in DOMAIN call' : j < k => index'[call'[j].node] < index'[call'[k].node]
      BY <3>3, <1>5, <1>8
    <3>10. \A k \in DOMAIN call' : k + 1 \in DOMAIN call' =>
             <<call'[k].node, call'[k + 1].node>> \in edges'
      BY <3>4, <1>5, <1>8
    <3>11. \A x \in Node : x \in Open' => call' # <<>> /\ index'[call'[1].node] <= index'[x]
      BY <3>5, <3>6, <1>5
    <3> QED BY <3>7, <3>8, <3>9, <3>10, <3>11 DEF FrameInv
  <2>25. LowInv'
    <3>1. \A x \in Open' : x \in Node /\ x \in Open /\ low[x] < index[v]
      BY <1>9, <1>t, <2>12, <2>20 DEF LowInv
    <3>2. \A x \in Node : x \in Open' => low'[x] <= index'[x]
      BY <1>t, <1>5, <2>1, <3>1 DEF LowInv
    <3>3. \A x \in Node : Black(x)' => low'[x] < index'[x]
      BY <1>t, <1>5, <2>1, <2>18 DEF LowInv
    <3>4. \A x \in Node : x \in Open' => \E z \in Node : z \in Open' /\ low'[x] = index'[z]
      <4> SUFFICES ASSUME NEW x \in Node, x \in Open'
                   PROVE  \E z \in Node : z \in Open' /\ low'[x] = index'[z]
        OBVIOUS
      <4>1. PICK z \in Node : z \in Open /\ low[x] = index[z]
        BY <1>t, <3>1 DEF LowInv
      <4>2. z \notin C
        BY <1>9, <3>1, <4>1, <2>21
      <4> QED BY <4>1, <4>2, <1>5, <2>1, <2>12
    <3>5. ASSUME NEW x \in Node, x \in Open'
          PROVE  \/ low'[x] = index'[x]
                 \/ \E z \in Node : z \in Open' /\ <<x, z>> \in edges' /\ low'[x] = index'[z]
                 \/ \E y \in Node : /\ Black(y)' /\ <<x, y>> \in edges'
                                    /\ index'[x] < index'[y] /\ low'[y] = low'[x]
      <4>1. \/ low[x] = index[x]
            \/ \E z \in Node : z \in Open /\ <<x, z>> \in edges /\ low[x] = index[z]
            \/ \E y \in Node : /\ Black(y) /\ <<x, y>> \in edges
                               /\ index[x] < index[y] /\ low[y] = low[x]
        BY <3>1, <3>5, <1>t DEF LowInv
      <4>2. \A z \in Node : z \in Open /\ low[x] = index[z] => z \in Open'
        BY <1>9, <3>1, <3>5, <2>12, <2>21
      <4>3. \A y \in Node : Black(y) /\ low[y] = low[x] => Black(y)'
        BY <1>9, <3>1, <3>5, <2>2, <2>19
      <4> QED BY <4>1, <4>2, <4>3, <1>5, <2>1
    <3> QED BY <3>2, <3>3, <3>4, <3>5 DEF LowInv
  <2>26. ParentInv'
    <3> SUFFICES ASSUME NEW x \in Node, NEW k \in 1 .. n - 1, Black(x)',
                        index'[call'[k].node] < index'[x]
                 PROVE  \E y \in Node : /\ y \in Open' /\ <<y, x>> \in edges'
                                        /\ index'[call'[k].node] <= index'[y] /\ index'[y] < index'[x]
                                        /\ low'[y] <= low'[x]
      BY <1>8 DEF ParentInv
    <3>1. Black(x) /\ call'[k].node = call[k].node /\ x \in Open' /\ k \in 1 .. n
      BY <1>1, <1>8, <2>18 DEF Black
    <3>2. PICK y \in Node : /\ y \in Open /\ <<y, x>> \in edges
                            /\ index[call[k].node] <= index[y] /\ index[y] < index[x]
                            /\ low[y] <= low[x]
      BY <3>1, <1>5, <1>t, <1>1 DEF ParentInv
    <3>3. index[x] < index[v]
      BY <3>1, <2>12, <2>20
    <3>4. y \notin C
      BY <1>9, <3>2, <3>3, <2>21
    <3> QED BY <3>1, <3>2, <3>4, <1>5, <2>1, <2>12
  <2>27. ExploredInv'
    <3> SUFFICES ASSUME NEW x \in Node, NEW u \in Node, x \in Open', <<x, u>> \in edges'
                 PROVE  \/ u \in Emitted'
                        \/ u \in Open' /\ low'[x] <= index'[u]
                        \/ \E k \in 1 .. n - 1 : call'[k].node = x /\ u \in call'[k].todo
      BY <1>8 DEF ExploredInv
    <3>1. \/ u \in Emitted
          \/ u \in Open /\ low[x] <= index[u]
          \/ \E k \in 1 .. n : call[k].node = x /\ u \in call[k].todo
      BY <1>t, <1>1, <1>5, <2>12 DEF ExploredInv
    <3>0. \A k \in 1 .. n : k = n \/ k \in 1 .. n - 1
      BY <1>1
    <3>2. \A k \in 1 .. n : call[k].node = x => k \in 1 .. n - 1
      BY <3>0, <1>2, <2>3, <2>12
    <3> QED BY <3>1, <3>2, <1>5, <1>8, <2>1, <2>12, <2>17
  <2>28. MembersInv'
    <3>1. \A i \in 1 .. p + 1 : i \in 1 .. p \/ i = p + 1
      BY <2>15
    <3>2. \A i \in 1 .. p : members[i] # {} /\ Connected(members[i])
      BY <1>t, <2>15 DEF MembersInv
    <3>3. \A i \in 1 .. p : members[i] \cap C = {}
      <4>1. \A i \in 1 .. p : members[i] \subseteq Emitted
        BY <2>15 DEF Emitted
      <4>2. \A x \in C : x \notin Emitted
        BY <1>t, <1>9, <2>3 DEF StackInv
      <4> QED BY <4>1, <4>2
    <3>4. \A i \in 1 .. p + 1 : members'[i] # {} /\ Connected(members'[i])
      BY <3>1, <3>2, <2>2, <2>3, <2>16
    <3>5. \A i \in DOMAIN members' : members'[i] # {} /\ Joined(members'[i], edges')
      BY <3>4, <2>16, <1>5 DEF Connected
    <3>6. \A i, j \in 1 .. p : i # j => members[i] \cap members[j] = {}
      BY <1>t, <2>15 DEF MembersInv
    <3>7. \A i, j \in DOMAIN members' : i # j => members'[i] \cap members'[j] = {}
      BY <3>1, <3>3, <3>6, <2>16
    <3>8. ASSUME NEW i \in 1 .. p, NEW x \in members[i], NEW w \in Node, <<x, w>> \in edges
          PROVE  \E j \in 1 .. i : j \in 1 .. p /\ w \in members[j]
      <4>1. \E j \in 1 .. i : w \in members[j]
        BY <3>8, <1>t, <2>15 DEF MembersInv
      <4>2. \A j \in 1 .. i : j \in 1 .. p
        BY <2>15
      <4> QED BY <4>1, <4>2
    <3>9. ASSUME NEW x \in C, NEW w \in Node, <<x, w>> \in edges
          PROVE  \E j \in 1 .. p + 1 : w \in members'[j]
      <4>1. CASE w \in C
        <5>1. p + 1 \in 1 .. p + 1
          BY <2>15
        <5> QED BY <4>1, <5>1, <2>16
      <4>2. CASE w \in Emitted
        <5>1. PICK j \in 1 .. p : w \in members[j]
          BY <4>2, <2>15 DEF Emitted
        <5>2. j \in 1 .. p + 1
          BY <2>15
        <5> QED BY <5>1, <5>2, <2>16
      <4> QED BY <4>1, <4>2, <3>9, <2>2
    <3>10. \A i \in DOMAIN members' : \A x \in members'[i], w \in Node :
             <<x, w>> \in edges' => \E j \in 1 .. i : w \in members'[j]
      <4> SUFFICES ASSUME NEW i \in 1 .. p + 1, NEW x \in members'[i], NEW w \in Node,
                          <<x, w>> \in edges
                   PROVE  \E j \in 1 .. i : w \in members'[j]
        BY <2>16, <1>5
      <4>1. CASE i \in 1 .. p
        BY <4>1, <3>8, <2>16
      <4>2. CASE i = p + 1
        BY <4>2, <3>9, <2>16
      <4> QED BY <4>1, <4>2, <3>1
    <3> QED BY <3>5, <3>7, <3>10 DEF MembersInv, Connected
  <2> QED BY <2>22, <2>23, <2>24, <2>25, <2>26, <2>27, <2>28 DEF Inv
<1>15. CASE low[v] # index[v]
  <2>1. /\ sccStack' = sccStack /\ onStack' = onStack /\ members' = members
        /\ Open' = Open /\ Emitted' = Emitted
    BY <1>7, <1>15 DEF Open, Emitted
  <2>2. low[v] < index[v]
    BY <1>9, <1>11, <1>15
  <2>3. n # 1
    <3> SUFFICES ASSUME n = 1 PROVE FALSE
      OBVIOUS
    <3>1. PICK z \in Node : z \in Open /\ low[v] = index[z]
      BY <1>t, <1>9 DEF LowInv
    <3>2. index[v] <= index[z]
      BY <3>1, <1>2, <1>t DEF FrameInv
    <3> QED BY <3>1, <3>2, <2>2, <1>9
  <2>4. PICK p \in Node : p = call[n - 1].node
    BY <1>10, <1>12, <2>3
  <2>5. /\ p \in Open /\ index[p] < index[v] /\ p # v /\ <<p, v>> \in edges
        /\ n - 1 \in 1 .. n - 1
        /\ low' = IF low[v] < low[p] THEN [low EXCEPT ![p] = low[v]] ELSE low
    BY <1>10, <1>12, <2>3, <2>4
  <2>6. /\ \A x \in Node : low'[x] <= low[x] /\ (x # p => low'[x] = low[x])
        /\ low'[p] = low[p] \/ low'[p] = low[v]
        /\ low'[p] <= low[v]
        /\ low' \in [Node -> Int]
    BY <1>9, <2>5
  <2>7. \A k \in 1 .. n : k = n \/ k \in 1 .. n - 1
    BY <1>1
  <2>70. \A k \in 1 .. n - 1 : k \in 1 .. n
    BY <1>1
  <2>8. \A x \in Node : Black(x)' <=> Black(x) \/ x = v
    <3>1. \A x \in Node : Black(x)' <=> x \in Open /\ \A k \in 1 .. n - 1 : call[k].node # x
      BY <1>8, <2>1 DEF Black
    <3>2. \A x \in Node : Black(x) <=> x \in Open /\ \A k \in 1 .. n : call[k].node # x
      BY <1>1 DEF Black
    <3> QED BY <3>1, <3>2, <2>7, <2>70, <1>2, <1>9, <1>10
  <2>9. ~ Black(p)
    BY <1>1, <2>4, <2>5, <2>70 DEF Black
  <2>10. TypeInv'
    BY <1>t, <1>5, <1>8, <2>1, <2>6 DEF TypeInv
  <2>11. StackInv'
    BY <1>t, <1>5, <2>1 DEF StackInv
  <2>12. FrameInv'
    <3>1. \A k \in DOMAIN call' : call'[k].node \in Open'
      BY <1>8, <1>10, <2>1
    <3>2. \A k \in 1 .. n - 1 : \A w \in call[k].todo : <<call[k].node, w>> \in edges
      BY <2>70, <1>t, <1>1 DEF FrameInv
    <3>3. \A j, k \in 1 .. n - 1 : j < k => index[call[j].node] < index[call[k].node]
      BY <2>70, <1>t, <1>1 DEF FrameInv
    <3>4. \A k \in 1 .. n - 1 : k + 1 \in 1 .. n - 1 => <<call[k].node, call[k + 1].node>> \in edges
      BY <2>70, <1>t, <1>1 DEF FrameInv
    <3>5. n - 1 # 0 /\ 1 \in 1 .. n - 1
      BY <1>1, <2>3
    <3>6. call' # <<>> /\ call'[1] = call[1]
      BY <1>8, <3>5
    <3>7. \A k \in DOMAIN call' : \A w \in call'[k].todo : <<call'[k].node, w>> \in edges'
      BY <3>2, <1>5, <1>8
    <3>8. \A j, k \in DOMAIN call' : j < k => index'[call'[j].node] < index'[call'[k].node]
      BY <3>3, <1>5, <1>8
    <3>9. \A k \in DOMAIN call' : k + 1 \in DOMAIN call' =>
            <<call'[k].node, call'[k + 1].node>> \in edges'
      BY <3>4, <1>5, <1>8
    <3>10. \A x \in Node : x \in Open' => call' # <<>> /\ index'[call'[1].node] <= index'[x]
      BY <3>6, <1>5, <1>t, <2>1 DEF FrameInv
    <3> QED BY <3>1, <3>7, <3>8, <3>9, <3>10 DEF FrameInv
  <2>13. LowInv'
    <3>1. \A x \in Node : x \in Open' => low'[x] <= index'[x]
      <4>1. \A x \in Node : x \in Open => low[x] <= index[x]
        BY <1>t DEF LowInv
      <4> QED BY <4>1, <1>5, <1>9, <2>1, <2>6
    <3>2. \A x \in Node : Black(x)' => low'[x] < index'[x]
      <4>1. \A x \in Node : Black(x) => low[x] < index[x]
        BY <1>t DEF LowInv
      <4> QED BY <4>1, <1>5, <2>2, <2>5, <2>6, <2>8, <2>9
    <3>3. \A x \in Node : x \in Open' => \E z \in Node : z \in Open' /\ low'[x] = index'[z]
      <4>1. \A x \in Node : x \in Open => \E z \in Node : z \in Open /\ low[x] = index[z]
        BY <1>t DEF LowInv
      <4>2. \A x \in Node : x \in Open => low'[x] = low[x] \/ low'[x] = low[v]
        BY <2>6
      <4> QED BY <4>1, <4>2, <1>5, <1>9, <2>1
    <3>4. ASSUME NEW x \in Node, x \in Open
          PROVE  \/ low'[x] = index[x]
                 \/ \E z \in Node : z \in Open /\ <<x, z>> \in edges /\ low'[x] = index[z]
                 \/ \E y \in Node : /\ Black(y)' /\ <<x, y>> \in edges
                                    /\ index[x] < index[y] /\ low'[y] = low'[x]
      <4>1. CASE low'[x] = low[x]
        <5>1. \/ low[x] = index[x]
              \/ \E z \in Node : z \in Open /\ <<x, z>> \in edges /\ low[x] = index[z]
              \/ \E y \in Node : /\ Black(y) /\ <<x, y>> \in edges
                                 /\ index[x] < index[y] /\ low[y] = low[x]
          BY <1>t, <3>4 DEF LowInv
        <5>2. \A y \in Node : Black(y) => Black(y)' /\ low'[y] = low[y]
          BY <2>6, <2>8, <2>9
        <5> QED BY <4>1, <5>1, <5>2
      <4>2. CASE low'[x] # low[x]
        <5>1. x = p /\ low'[x] = low[v]
          BY <4>2, <2>6
        <5>2. Black(v)' /\ low'[v] = low[v]
          BY <2>5, <2>6, <2>8
        <5> QED BY <5>1, <5>2, <2>5
      <4> QED BY <4>1, <4>2
    <3>5. \A x \in Node : x \in Open' =>
            \/ low'[x] = index'[x]
            \/ \E z \in Node : z \in Open' /\ <<x, z>> \in edges' /\ low'[x] = index'[z]
            \/ \E y \in Node : /\ Black(y)' /\ <<x, y>> \in edges'
                               /\ index'[x] < index'[y] /\ low'[y] = low'[x]
      BY <3>4, <1>5, <2>1
    <3> QED BY <3>1, <3>2, <3>3, <3>5 DEF LowInv
  <2>14. ParentInv'
    <3> SUFFICES ASSUME NEW x \in Node, NEW k \in 1 .. n - 1, Black(x)',
                        index[call[k].node] < index[x]
                 PROVE  \E y \in Node : /\ y \in Open /\ <<y, x>> \in edges
                                        /\ index[call[k].node] <= index[y] /\ index[y] < index[x]
                                        /\ low'[y] <= low'[x]
      BY <1>5, <1>8, <2>1 DEF ParentInv
    <3>1. CASE x = v
      <4>1. index[call[k].node] <= index[p]
        <5>1. k = n - 1 \/ k < n - 1
          BY <1>1
        <5>2. k < n - 1 => index[call[k].node] < index[call[n - 1].node]
          BY <2>5, <2>70, <1>t, <1>1 DEF FrameInv
        <5> QED BY <5>1, <5>2, <1>9, <1>10, <2>4
      <4>2. low'[v] = low[v]
        BY <2>5, <2>6
      <4> QED BY <3>1, <4>1, <4>2, <2>5, <2>6
    <3>2. CASE Black(x)
      <4>1. PICK y \in Node : /\ y \in Open /\ <<y, x>> \in edges
                              /\ index[call[k].node] <= index[y] /\ index[y] < index[x]
                              /\ low[y] <= low[x]
        BY <3>2, <2>70, <1>t, <1>1 DEF ParentInv
      <4>2. low'[x] = low[x] /\ low'[y] <= low[y] /\ low[x] \in Int /\ low[y] \in Int /\ low'[y] \in Int
        BY <3>2, <1>9, <2>6, <2>9
      <4> QED BY <4>1, <4>2
    <3> QED BY <3>1, <3>2, <2>8
  <2>15. ExploredInv'
    <3> SUFFICES ASSUME NEW x \in Node, NEW u \in Node, x \in Open, <<x, u>> \in edges
                 PROVE  \/ u \in Emitted
                        \/ u \in Open /\ low'[x] <= index[u]
                        \/ \E k \in 1 .. n - 1 : call[k].node = x /\ u \in call[k].todo
      BY <1>5, <1>8, <2>1 DEF ExploredInv
    <3>1. \/ u \in Emitted
          \/ u \in Open /\ low[x] <= index[u]
          \/ \E k \in 1 .. n : call[k].node = x /\ u \in call[k].todo
      BY <1>t, <1>1 DEF ExploredInv
    <3>2. call[n].todo = {}
      BY <1>0, <1>1 DEF Top, Last
    <3>3. \A k \in 1 .. n : u \in call[k].todo => k \in 1 .. n - 1
      BY <3>2, <2>7
    <3>4. low[x] <= index[u] => low'[x] <= index[u]
      BY <1>9, <2>6
    <3> QED BY <3>1, <3>3, <3>4
  <2>16. MembersInv'
    <3>1. \A i \in DOMAIN members : members[i] # {} /\ Connected(members[i])
      BY <1>t DEF MembersInv
    <3>3. \A i \in DOMAIN members' : members'[i] # {} /\ Joined(members'[i], edges')
      BY <3>1, <1>5, <2>1 DEF Connected
    <3>4. \A i, j \in DOMAIN members' : i # j => members'[i] \cap members'[j] = {}
      BY <1>t, <2>1 DEF MembersInv
    <3>5. \A i \in DOMAIN members' : \A x \in members'[i], w \in Node :
            <<x, w>> \in edges' => \E j \in 1 .. i : w \in members'[j]
      BY <1>t, <1>5, <2>1 DEF MembersInv
    <3> QED BY <3>3, <3>4, <3>5 DEF MembersInv, Connected
  <2> QED BY <2>10, <2>11, <2>12, <2>13, <2>14, <2>15, <2>16 DEF Inv
<1> QED BY <1>14, <1>15

-----------------------------------------------------------------------------
(* The theorems. *)

LEMMA InitInv == Init => Inv
<1>a. SUFFICES ASSUME Init PROVE Inv
  OBVIOUS
<1>1. /\ edges \in SUBSET (Node \X Node) /\ index = [v \in Node |-> Unvisited]
      /\ low = [v \in Node |-> 0] /\ onStack = [v \in Node |-> FALSE]
      /\ members = <<>> /\ sccStack = <<>> /\ call = <<>> /\ counter = 0
  BY <1>a DEF Init
<1>2. /\ members \in Seq(SUBSET Node) /\ sccStack \in Seq(Node) /\ call \in Seq(Frame)
      /\ DOMAIN members = {} /\ DOMAIN sccStack = {} /\ DOMAIN call = {}
  BY <1>1, EmptySeq
<1>3. Open = {} /\ Emitted = {}
  BY <1>1, <1>2 DEF Open, Emitted
<1>4. \A x \in Node : index[x] = Unvisited /\ ~ Black(x)
  BY <1>1, <1>3 DEF Black
<1>5. TypeInv
  BY <1>1, <1>2 DEF TypeInv, Unvisited
<1>6. StackInv
  BY <1>2, <1>3, <1>4 DEF StackInv
<1>7. FrameInv
  BY <1>2, <1>3 DEF FrameInv
<1>8. LowInv
  BY <1>3, <1>4 DEF LowInv
<1>9. ParentInv /\ ExploredInv /\ MembersInv
  BY <1>2, <1>3 DEF ParentInv, ExploredInv, MembersInv
<1> QED BY <1>5, <1>6, <1>7, <1>8, <1>9 DEF Inv

LEMMA StutterKeepsInv == Inv /\ UNCHANGED vars => Inv'
<1>a. SUFFICES ASSUME Inv, UNCHANGED vars PROVE Inv'
  OBVIOUS
<1>1. /\ edges' = edges /\ index' = index /\ low' = low /\ onStack' = onStack
      /\ members' = members /\ sccStack' = sccStack /\ call' = call /\ counter' = counter
  BY <1>a DEF vars
<1>2. /\ Open' = Open /\ Emitted' = Emitted /\ \A x : Black(x)' <=> Black(x)
  BY <1>1 DEF Open, Emitted, Black
<1>t. TypeInv /\ StackInv /\ FrameInv /\ LowInv /\ ParentInv /\ ExploredInv /\ MembersInv
  BY <1>a DEF Inv
<1>3. TypeInv' /\ StackInv' /\ FrameInv'
  BY <1>1, <1>2, <1>t DEF TypeInv, StackInv, FrameInv
<1>4. LowInv'
  BY <1>1, <1>2, <1>t DEF LowInv
<1>5. ParentInv' /\ ExploredInv'
  BY <1>1, <1>2, <1>t DEF ParentInv, ExploredInv
<1>6. MembersInv'
  BY <1>1, <1>2, <1>t DEF MembersInv, Connected
<1> QED BY <1>3, <1>4, <1>5, <1>6 DEF Inv

\* Every step of the search, of whatever kind, keeps the invariant.
LEMMA StepKeepsInv == Inv /\ [Next]_vars => Inv'
<1>a. SUFFICES ASSUME Inv, [Next]_vars PROVE Inv'
  OBVIOUS
<1>1. CASE StartSearch
  BY <1>a, <1>1, StartKeepsInv
<1>2. ASSUME NEW w \in Node, Advance(w) PROVE Inv'
  BY <1>a, <1>2, AdvanceKeepsInv
<1>3. CASE Retreat
  BY <1>a, <1>3, RetreatKeepsInv
<1>4. CASE UNCHANGED vars
  BY <1>a, <1>4, StutterKeepsInv
<1> QED BY <1>a, <1>1, <1>2, <1>3, <1>4 DEF Next

\* In every state of the search (scc.rs, fn tarjan), whatever the graph: the stack
\* is in the order of discovery, the frames are a path, the low-links are traced
\* along edges, and the components emitted are sets of nodes that are connected,
\* disjoint and closed under the edges to those emitted before.
THEOREM SearchInvariant == Spec => []Inv
BY InitInv, StepKeepsInv, PTL DEF Spec

LEMMA DoneIsEmitted == Components!Done = Emitted
BY DEF Components!Done, Components!Range, Emitted

\* A step of the search that emits a component is a step of the abstract pass.
LEMMA StepRefines ==
  ASSUME Inv, [Next]_vars
  PROVE  Components!Next \/ UNCHANGED <<edges, members>>
<1>1. CASE StartSearch
  BY <1>1 DEF StartSearch, Discover
<1>2. CASE \E w \in Node : Advance(w)
  BY <1>2 DEF Advance, Discover
<1>3. CASE UNCHANGED vars
  BY <1>3 DEF vars
<1>4. CASE Retreat /\ low[Top.node] # index[Top.node]
  BY <1>4 DEF Retreat
<1>5. CASE Retreat /\ low[Top.node] = index[Top.node]
  <2>0. call # <<>> /\ Top.todo = {} /\ edges' = edges
    BY <1>5 DEF Retreat
  <2>1. PICK v \in Node : v = Top.node /\ v \in Open
    BY <2>0, TopFacts
  <2> DEFINE C == Subtree(v)
  <2>2. /\ Connected(C)
        /\ \A x \in C, w \in Node : <<x, w>> \in edges => w \in Emitted \/ w \in C
    BY <1>5, <2>0, <2>1, RootFacts
  <2>3. index \in [Node -> Int] /\ edges \subseteq Node \X Node /\ Open \subseteq Node
    BY DEF Inv, TypeInv, Open
  <2>4. C # {} /\ C \in SUBSET Node /\ C \subseteq Open
    BY <2>1, <2>3 DEF Subtree
  <2>5. C \cap Emitted = {}
    BY <2>3, <2>4 DEF Inv, StackInv
  <2>6. PoppedFrom(v) = C
    BY <1>5, <2>1, PoppedIsSubtree
  <2>7. members' = Append(members, C)
    BY <1>5, <2>1, <2>6 DEF Retreat, EmitComponent
  <2> HIDE DEF C
  <2>8. \A e \in edges : e[1] \in C => e[2] \in C \cup Emitted
    <3> SUFFICES ASSUME NEW e \in edges, e[1] \in C PROVE e[2] \in C \cup Emitted
      OBVIOUS
    <3>1. e = <<e[1], e[2]>> /\ e[2] \in Node
      BY <2>3
    <3> QED BY <3>1, <2>2
  <2>9. Components!StronglyConnected(C)
    <3> SUFFICES ASSUME NEW S \in (SUBSET C) \ {{}, C}
                 PROVE  \E e \in edges : e[1] \in S /\ e[2] \in C \ S
      BY DEF Components!StronglyConnected
    <3>1. PICK a \in S, b \in C \ S : <<a, b>> \in edges
      BY <2>2 DEF Connected, Joined
    <3> QED BY <3>1
  <2>10. Components!Emit(C)
    BY <2>0, <2>4, <2>5, <2>7, <2>8, <2>9, DoneIsEmitted DEF Components!Emit
  <2> QED BY <2>4, <2>10 DEF Components!Next
<1> QED BY <1>1, <1>2, <1>3, <1>4, <1>5 DEF Next

\* The safety half of EmitsComponents, for every graph on any set of nodes: what
\* tarjan pushes is, each time, a strongly connected component of which nothing
\* was pushed before, after every component it leads to.
THEOREM SearchRefines == Spec => Components!Init /\ [][Components!Next]_<<edges, members>>
<1>1. Init => Components!Init
  BY DEF Init, Components!Init
<1>2. Inv /\ [Next]_vars => [Components!Next]_<<edges, members>>
  BY StepRefines
<1> QED BY <1>1, <1>2, SearchInvariant, PTL DEF Spec

\* The outer loop ends with every node visited and no frame left.
Finished == call = <<>> /\ \A v \in Node : Visited(v)

LEMMA FinishedIsComplete == Inv => (Finished => Emitted = Node)
<1> SUFFICES ASSUME Inv, Finished PROVE Emitted = Node
  OBVIOUS
<1>1. \A x \in Node : x \notin Open
  BY DEF Finished, Inv, FrameInv
<1>2. Node \subseteq Emitted
  BY <1>1 DEF Finished, Visited, Inv, StackInv
<1>3. Emitted \subseteq Node
  <2>1. members \in Seq(SUBSET Node)
    BY DEF Inv, TypeInv
  <2>2. \A i \in DOMAIN members : members[i] \subseteq Node
    BY <2>1, SeqFacts
  <2> QED BY <2>2 DEF Emitted
<1> QED BY <1>2, <1>3

\* When the search is over, every node has been emitted: no cell is left out of
\* the plan.
THEOREM NothingLeftOut == Spec => [](Finished => Emitted = Node)
BY FinishedIsComplete, SearchInvariant, PTL
=============================================================================
