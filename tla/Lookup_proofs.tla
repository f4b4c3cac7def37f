----------------------------- MODULE Lookup_proofs -----------------------------
(***************************************************************************)
(* A search finds the floor of its key, and a whole line is answered as a  *)
(* bounded range is, on lines of any length with any gaps. The bisection is*)
(* a recursion over intervals that shrink, which on data in order narrows  *)
(* down to the last cell that is not beyond the key. A walk visits every   *)
(* cell with a value, in the order of their positions: what is found among *)
(* the visited cells is found in the line, two walks stop at the same first*)
(* cell, and what two walks keep is one list, so that its total is one too.*)
(***************************************************************************)
EXTENDS Lookup, FiniteSetTheorems, WellFoundedInduction, TLAPS

-----------------------------------------------------------------------------
(* Naturals and recursion.                                                   *)

\* A set of naturals has a least member.
LEMMA LeastNatural ==
  ASSUME NEW T, T \subseteq Nat, T # {}
  PROVE  \E m \in T : \A n \in T : m <= n
<1> DEFINE R == OpToRel(<, Nat)
<1>1. IsWellFoundedOn(R, Nat)
  BY NatLessThanWellFounded
<1>2. PICK m \in T : \A n \in T : ~ (<<n, m>> \in R)
  <2> HIDE DEF R
  <2> QED BY <1>1, WFMin
<1>3. \A n \in T : <<n, m>> \in Nat \X Nat /\ <<n, m>> \notin {ss \in Nat \X Nat : ss[1] < ss[2]}
  BY <1>2 DEF OpToRel
<1>4. \A n \in T : n \in Nat /\ m \in Nat /\ ~(n < m)
  BY <1>3
<1>5. \A n \in T : m <= n
  BY <1>4
<1> QED BY <1>5

\* A set of positions has a last one.
LEMMA GreatestPosition ==
  ASSUME NEW b \in Nat, NEW S, S \subseteq 0..b, S # {}
  PROVE  \E m \in S : \A x \in S : x <= m
<1> DEFINE T == {b - x : x \in S}
<1>1. T \subseteq Nat /\ T # {}
  <2>1. \A x \in S : b - x \in Nat
    OBVIOUS
  <2> QED BY <2>1
<1>2. PICK t \in T : \A u \in T : t <= u
  <2> HIDE DEF T
  <2> QED BY <1>1, LeastNatural
<1>3. PICK m \in S : t = b - m
  OBVIOUS
<1>4. ASSUME NEW x \in S PROVE x <= m
  <2>1. b - x \in T
    OBVIOUS
  <2>2. t <= b - x
    <3> HIDE DEF T
    <3> QED BY <1>2, <2>1
  <2> QED BY <1>3, <2>2
<1> QED BY <1>4

\* Induction on the size of the elements of a set.
LEMMA SizeInduction ==
  ASSUME NEW D, NEW size \in [D -> Nat], NEW P,
         \A x \in D : (\A y \in D : size[y] < size[x] => y \in P) => x \in P
  PROVE  D \subseteq P
<1> SUFFICES ASSUME NEW z \in D, z \notin P PROVE FALSE
  OBVIOUS
<1> DEFINE T == {size[x] : x \in D \ P}
<1>1. T \subseteq Nat /\ T # {}
  OBVIOUS
<1>2. PICK m \in T : \A k \in T : m <= k
  <2> HIDE DEF T
  <2> QED BY <1>1, LeastNatural
<1>3. PICK x \in D \ P : m = size[x]
  OBVIOUS
<1>4. ASSUME NEW y \in D, size[y] < size[x], y \notin P PROVE FALSE
  <2>1. size[y] \in T
    BY <1>4
  <2>2. size[x] <= size[y]
    <3> HIDE DEF T
    <3> QED BY <1>2, <1>3, <2>1
  <2>3. size[x] \in Nat /\ size[y] \in Nat
    OBVIOUS
  <2> QED BY <1>4, <2>2, <2>3
<1> QED BY <1>3, <1>4

\* g is defined on D by recursion: base in Z, and elsewhere from prev.
Recurses(g, D, Z, base, prev, step) ==
  \A x \in D : g[x] = IF x \in Z THEN base[x] ELSE step[<<x, g[prev[x]]>>]

\* A recursion whose argument shrinks defines a function, whatever it recurs over.
LEMMA RecursionDefines ==
  ASSUME NEW D, NEW V, V # {}, NEW size \in [D -> Nat], NEW top \in Nat, \A x \in D : size[x] < top,
         NEW Z, NEW prev, \A x \in D \ Z : prev[x] \in D /\ size[prev[x]] < size[x],
         NEW base, \A x \in D \intersect Z : base[x] \in V,
         NEW step \in [D \X V -> V]
  PROVE  \E g \in [D -> V] : Recurses(g, D, Z, base, prev, step)
<1> DEFINE Unroll(g) == [x \in D |-> IF x \in Z THEN base[x] ELSE step[<<x, g[prev[x]]>>]]
           Fits(g, m) == \A x \in D : size[x] < m => g[x] = Unroll(g)[x]
           T == {m \in Nat : ~ \E g \in [D -> V] : Fits(g, m)}
<1>1. ASSUME NEW g \in [D -> V] PROVE Unroll(g) \in [D -> V]
  <2>1. \A x \in D \ Z : step[<<x, g[prev[x]]>>] \in V
    OBVIOUS
  <2> QED BY <2>1
<1>2. T = {}
  <2> SUFFICES ASSUME T # {} PROVE FALSE
    OBVIOUS
  <2>1. PICK m \in T : \A k \in T : m <= k
    <3>1. T \subseteq Nat
      OBVIOUS
    <3> HIDE DEF T
    <3> QED BY <3>1, LeastNatural
  <2>2. m \in Nat /\ ~ \E g \in [D -> V] : Fits(g, m)
    BY <2>1
  <2>3. m # 0
    <3>1. PICK v \in V : TRUE
      OBVIOUS
    <3>2. [x \in D |-> v] \in [D -> V] /\ Fits([x \in D |-> v], 0)
      OBVIOUS
    <3> HIDE DEF Fits
    <3> QED BY <2>2, <3>2
  <2>4. m - 1 \in Nat /\ ~ (m <= m - 1)
    BY <2>2, <2>3
  <2>5. PICK g \in [D -> V] : Fits(g, m - 1)
    <3>1. m - 1 \notin T
      <4> HIDE DEF T
      <4> QED BY <2>1, <2>4
    <3> HIDE DEF Fits
    <3> QED BY <2>4, <3>1
  <2> DEFINE f == Unroll(g)
  <2>6. ASSUME NEW x \in D, size[x] < m PROVE f[x] = Unroll(f)[x]
    <3>1. CASE x \in Z
      BY <3>1
    <3>2. CASE x \notin Z
      <4>1. prev[x] \in D /\ size[prev[x]] < m - 1
        <5>1. prev[x] \in D /\ size[prev[x]] < size[x]
          BY <3>2
        <5>2. size[prev[x]] \in Nat /\ size[x] \in Nat
          BY <5>1
        <5> QED BY <2>2, <2>6, <5>1, <5>2
      <4>2. f[prev[x]] = g[prev[x]]
        BY <2>5, <4>1
      <4>3. f[x] = step[<<x, g[prev[x]]>>] /\ Unroll(f)[x] = step[<<x, f[prev[x]]>>]
        BY <3>2
      <4> HIDE DEF f, Unroll
      <4> QED BY <4>2, <4>3
    <3> QED BY <3>1, <3>2
  <2>7. f \in [D -> V]
    <3> HIDE DEF Unroll
    <3> QED BY <1>1
  <2>8. Fits(f, m)
    <3> HIDE DEF Unroll, f
    <3> QED BY <2>6
  <2> HIDE DEF f, Fits
  <2> QED BY <2>2, <2>7, <2>8
<1>3. PICK g \in [D -> V] : Fits(g, top)
  <2>1. top \notin T
    <3> HIDE DEF T
    <3> QED BY <1>2
  <2> HIDE DEF Fits
  <2> QED BY <2>1
<1>4. Recurses(g, D, Z, base, prev, step)
  BY <1>3 DEF Recurses
<1> QED BY <1>4

-----------------------------------------------------------------------------
(* The order of values.                                                      *)

(* A value that orders: not blank, no error, no text that the locale ranks. *)
Plain == {v \in Value : ~IsErr(v) /\ ~IsBlank(v) /\ ~IsNonAscii(v)}

\* Where a value stands against another: -1, 0 or 1.
Against(a, b) == Compare(a, b)[2]

\* A plain value is compared as it is: by rank, then by weight.
LEMMA PlainFacts ==
  ASSUME NEW v \in Plain
  PROVE  Rank(v) \in 0..2 /\ Weight(v) \in Int /\ v # Blank /\ Morphed(v, v) = v
         /\ \A w : Morphed(v, w) = v
BY DEF Plain, Value, IsErr, IsBlank, Rank, Weight, Morphed, Blank

\* Plain values compare without an error.
LEMMA ComparePlain ==
  ASSUME NEW a \in Plain, NEW b \in Plain
  PROVE  /\ Compare(a, b) = <<"ord", Against(a, b)>> /\ ~IsErr(Compare(a, b))
         /\ Against(a, b) = IF Rank(a) # Rank(b) THEN Sign(Rank(a) - Rank(b))
                            ELSE Sign(Weight(a) - Weight(b))
<1>1. Compare(a, b) = <<"ord", IF Rank(a) # Rank(b) THEN Sign(Rank(a) - Rank(b))
                               ELSE Sign(Weight(a) - Weight(b))>>
  <2>1. Morphed(a, b) = a /\ Morphed(b, a) = b
    BY PlainFacts
  <2>2. ~IsErr(a) /\ ~IsErr(b) /\ ~IsNonAscii(a) /\ ~IsNonAscii(b)
    BY DEF Plain
  <2> QED BY <2>1, <2>2 DEF Compare
<1> QED BY <1>1 DEF Against, IsErr

\* Plain values are in a total preorder, upwards and downwards.
LEMMA OrderFacts ==
  ASSUME NEW a \in Plain, NEW b \in Plain, NEW c \in Plain, NEW way \in {1, -1}
  PROVE  /\ Against(a, b) \in {-1, 0, 1}
         /\ Against(b, a) = - Against(a, b)
         /\ Against(a, b) # way /\ Against(b, c) # way => Against(a, c) # way
         /\ Against(a, b) # way /\ Against(b, c) = - way => Against(a, c) = - way
         /\ Against(a, b) = 0 => Against(a, c) = Against(b, c) /\ Against(c, a) = Against(c, b)
<1> DEFINE By(x, y) == IF Rank(x) # Rank(y) THEN Sign(Rank(x) - Rank(y)) ELSE Sign(Weight(x) - Weight(y))
<1>1. \A x, y \in Plain : Against(x, y) = By(x, y)
  BY ComparePlain
<1>2. /\ Rank(a) \in Int /\ Rank(b) \in Int /\ Rank(c) \in Int
      /\ Weight(a) \in Int /\ Weight(b) \in Int /\ Weight(c) \in Int
  BY PlainFacts
<1>3. /\ By(a, b) \in {-1, 0, 1}
      /\ By(b, a) = - By(a, b)
      /\ By(a, b) # way /\ By(b, c) # way => By(a, c) # way
      /\ By(a, b) # way /\ By(b, c) = - way => By(a, c) = - way
      /\ By(a, b) = 0 => By(a, c) = By(b, c) /\ By(c, a) = By(c, b)
  BY <1>2 DEF Sign
<1> HIDE DEF By
<1> QED BY <1>1, <1>3

-----------------------------------------------------------------------------
(* The searches.                                                             *)

Size(n) == [r \in Intervals(n) |-> IF r[1] > r[2] THEN 0 ELSE r[2] - r[1] + 1]

\* The ends of an interval.
LEMMA IntervalBounds ==
  ASSUME NEW n \in Nat, NEW r \in Intervals(n)
  PROVE  /\ r[1] \in Int /\ r[2] \in Int /\ (r[1] > r[2] <=> ~(r[1] <= r[2]))
         /\ r[2] # 0 => r[2] \in 1..n
BY DEF Intervals

\* Both halves of an interval are intervals, and smaller.
LEMMA IntervalFacts ==
  ASSUME NEW n \in Nat
  PROVE  /\ Size(n) \in [Intervals(n) -> Nat]
         /\ <<1, n>> \in Intervals(n)
         /\ \A r \in Intervals(n) :
              /\ r = <<r[1], r[2]>> /\ r[1] \in 1..(n + 1) /\ r[2] \in 0..n /\ Size(n)[r] < n + 1
              /\ r[1] <= r[2] =>
                   LET mid == Middle(r[1], r[2])
                   IN /\ mid \in 1..n /\ r[1] <= mid /\ mid <= r[2]
                      /\ <<mid + 1, r[2]>> \in Intervals(n) /\ <<r[1], mid - 1>> \in Intervals(n)
                      /\ Size(n)[<<mid + 1, r[2]>>] < Size(n)[r]
                      /\ Size(n)[<<r[1], mid - 1>>] < Size(n)[r]
<1>1. Size(n) \in [Intervals(n) -> Nat] /\ <<1, n>> \in Intervals(n)
  BY DEF Size, Intervals
<1>2. ASSUME NEW r \in Intervals(n)
      PROVE  r = <<r[1], r[2]>> /\ r[1] \in 1..(n + 1) /\ r[2] \in 0..n /\ Size(n)[r] < n + 1
  BY DEF Size, Intervals
<1>3. ASSUME NEW r \in Intervals(n), r[1] <= r[2], NEW mid, mid = Middle(r[1], r[2])
      PROVE  /\ mid \in 1..n /\ r[1] <= mid /\ mid <= r[2]
             /\ <<mid + 1, r[2]>> \in Intervals(n) /\ <<r[1], mid - 1>> \in Intervals(n)
             /\ Size(n)[<<mid + 1, r[2]>>] < Size(n)[r]
             /\ Size(n)[<<r[1], mid - 1>>] < Size(n)[r]
  <2>1. r[1] \in 1..(n + 1) /\ r[2] \in 0..n
    BY <1>2
  <2>2. mid \in 1..n /\ r[1] <= mid /\ mid <= r[2]
    BY <1>3, <2>1 DEF Middle
  <2>3. <<mid + 1, r[2]>> \in Intervals(n) /\ <<r[1], mid - 1>> \in Intervals(n)
    BY <2>1, <2>2 DEF Intervals
  <2>4. Size(n)[r] = r[2] - r[1] + 1
    BY <1>3, <2>1 DEF Size
  <2>5. Size(n)[<<mid + 1, r[2]>>] = IF mid + 1 > r[2] THEN 0 ELSE r[2] - (mid + 1) + 1
    BY <2>3 DEF Size
  <2>6. Size(n)[<<r[1], mid - 1>>] = IF r[1] > mid - 1 THEN 0 ELSE (mid - 1) - r[1] + 1
    BY <2>3 DEF Size
  <2> QED BY <1>3, <2>1, <2>2, <2>3, <2>4, <2>5, <2>6
<1> QED BY <1>1, <1>2, <1>3

\* What a probe of a cell tells.
LEMMA CellFacts ==
  ASSUME NEW c \in Plain \union {Blank}, NEW key \in Plain
  PROVE  /\ TouchesBlank(c, key) <=> c = Blank
         /\ ~IsErr(c)
         /\ c # Blank => ~IsErr(Compare(c, key)) /\ Against(c, key) \in {-1, 0, 1}
<1>1. ~IsBlank(key) /\ (IsBlank(c) <=> c = Blank) /\ ~IsErr(c)
  BY DEF Plain, Value, IsBlank, IsErr, Blank
<1> QED BY <1>1, ComparePlain, OrderFacts DEF TouchesBlank

\* What a search among n cells may return.
Found(n) == {Nothing, Unsupported} \union {Row(i) : i \in 1..n}

\* The outcomes of a search.
LEMMA FoundFacts ==
  ASSUME NEW n \in Nat
  PROVE  /\ Nothing \in Found(n) /\ Unsupported \in Found(n)
         /\ \A i \in 1..n : Row(i) \in Found(n) /\ Row(i) # Nothing /\ Row(i) # Unsupported
         /\ Nothing # Unsupported
         /\ \A i, j \in 1..n : Row(i) = Row(j) => i = j
BY DEF Found, Row, Nothing, Unsupported, Err

\* The searches on comparable cells, where a comparison is no error.
BisectProbe(f, seq, n, key, way) ==
  /\ f \in [Intervals(n) -> Found(n)]
  /\ \A r \in Intervals(n) :
       LET mid == Middle(r[1], r[2]) IN
       f[r] = IF r[1] > r[2] THEN Nothing
              ELSE IF seq[mid] = Blank THEN Unsupported
              ELSE IF Against(seq[mid], key) = way THEN f[<<r[1], mid - 1>>]
              ELSE IF f[<<mid + 1, r[2]>>] = Nothing THEN Row(mid) ELSE f[<<mid + 1, r[2]>>]

SettleProbe(f, seq, n, key) ==
  /\ f \in [Intervals(n) -> Found(n)]
  /\ \A r \in Intervals(n) :
       LET mid == Middle(r[1], r[2]) IN
       f[r] = IF r[1] > r[2] THEN (IF r[2] = 0 THEN Nothing ELSE Row(r[2]))
              ELSE IF seq[mid] = Blank THEN Unsupported
              ELSE IF Against(seq[mid], key) = 0 THEN Row(mid)
              ELSE IF Against(seq[mid], key) = -1 THEN f[<<mid + 1, r[2]>>] ELSE f[<<r[1], mid - 1>>]

\* The recursion of Bisect is well-founded, so what it defines exists.
LEMMA BisectRecurses ==
  ASSUME NEW n \in Nat, NEW seq \in [1..n -> Plain \union {Blank}], Len(seq) = n,
         NEW key \in Plain, NEW way \in {1, -1}
  PROVE  \E f : BisectProbe(f, seq, n, key, way) /\ Bisect(seq, key, way) = f[<<1, n>>]
<1> DEFINE D == Intervals(n)
           M(r) == Middle(r[1], r[2])
           Code(f, r) == LET mid == Middle(r[1], r[2])
                             order == Compare(seq[mid], key)
                             later == f[<<mid + 1, r[2]>>]
                         IN IF r[1] > r[2] THEN Nothing
                            ELSE IF TouchesBlank(seq[mid], key) THEN Unsupported
                            ELSE IF IsErr(order) THEN order
                            ELSE IF order[2] = way THEN f[<<r[1], mid - 1>>]
                            ELSE IF later = Nothing THEN Row(mid) ELSE later
           Body(f, r) == IF r[1] > r[2] THEN Nothing
                         ELSE IF seq[M(r)] = Blank THEN Unsupported
                         ELSE IF Against(seq[M(r)], key) = way THEN f[<<r[1], M(r) - 1>>]
                         ELSE IF f[<<M(r) + 1, r[2]>>] = Nothing THEN Row(M(r)) ELSE f[<<M(r) + 1, r[2]>>]
           IsProbe(f) == f = [r \in Intervals(Len(seq)) |-> Code(f, r)]
           V == Found(n)
           Z == {r \in D : r[1] > r[2] \/ seq[M(r)] = Blank}
           base == [r \in D |-> IF r[1] > r[2] THEN Nothing ELSE Unsupported]
           prev == [r \in D |-> IF Against(seq[M(r)], key) = way THEN <<r[1], M(r) - 1>> ELSE <<M(r) + 1, r[2]>>]
           step == [x \in D \X V |->
                      IF x[1][1] > x[1][2] THEN Nothing
                      ELSE IF Against(seq[M(x[1])], key) # way /\ x[2] = Nothing THEN Row(M(x[1])) ELSE x[2]]
<1>1. ASSUME NEW f, NEW r \in D PROVE Code(f, r) = Body(f, r)
  <2>1. CASE r[1] > r[2]
    BY <2>1
  <2>2. CASE ~(r[1] > r[2])
    <3>1. r[1] <= r[2]
      BY <2>2, IntervalBounds
    <3>2. M(r) \in 1..n
      BY <3>1, IntervalFacts
    <3>3. seq[M(r)] \in Plain \union {Blank}
      BY <3>2
    <3> HIDE DEF M
    <3>4. /\ TouchesBlank(seq[M(r)], key) <=> seq[M(r)] = Blank
          /\ seq[M(r)] # Blank => ~IsErr(Compare(seq[M(r)], key))
      BY <3>3, CellFacts
    <3> QED BY <2>2, <3>4 DEF Against, M
  <2> QED BY <2>1, <2>2
<1>2. \E f \in [D -> V] : Recurses(f, D, Z, base, prev, step)
  <2>1. V # {} /\ Nothing \in V /\ Unsupported \in V
    BY FoundFacts
  <2>2. Size(n) \in [D -> Nat] /\ \A r \in D : Size(n)[r] < n + 1
    BY IntervalFacts
  <2>3. \A r \in D \ Z : prev[r] \in D /\ Size(n)[prev[r]] < Size(n)[r]
    <3> SUFFICES ASSUME NEW r \in D \ Z PROVE prev[r] \in D /\ Size(n)[prev[r]] < Size(n)[r]
      OBVIOUS
    <3>1. r[1] <= r[2]
      BY IntervalBounds
    <3>2. prev[r] = <<r[1], M(r) - 1>> \/ prev[r] = <<M(r) + 1, r[2]>>
      OBVIOUS
    <3> QED BY <3>1, <3>2, IntervalFacts
  <2>4. \A r \in D \intersect Z : base[r] \in V
    BY <2>1
  <2>5. step \in [D \X V -> V]
    <3> SUFFICES ASSUME NEW x \in D \X V, ~(x[1][1] > x[1][2]) PROVE Row(M(x[1])) \in V
      BY <2>1
    <3>1. x[1] \in D /\ x[1][1] <= x[1][2]
      BY IntervalBounds
    <3>2. M(x[1]) \in 1..n
      BY <3>1, IntervalFacts
    <3> HIDE DEF M
    <3> QED BY <3>2, FoundFacts
  <2>6. n + 1 \in Nat
    OBVIOUS
  <2> HIDE DEF D, V, Z, base, prev, step
  <2> QED BY <2>1, <2>2, <2>3, <2>4, <2>5, <2>6, RecursionDefines
<1>3. PICK f \in [D -> V] : Recurses(f, D, Z, base, prev, step)
  BY <1>2
<1>4. ASSUME NEW r \in D PROVE f[r] = Body(f, r)
  <2>1. f[r] = IF r \in Z THEN base[r] ELSE step[<<r, f[prev[r]]>>]
    BY <1>3 DEF Recurses
  <2>2. CASE r \in Z
    BY <2>1, <2>2
  <2>3. CASE r \notin Z
    <3>1. r[1] <= r[2] /\ ~(r[1] > r[2]) /\ seq[M(r)] # Blank
      BY <2>3, IntervalBounds
    <3>2. prev[r] \in D
      BY <3>1, IntervalFacts
    <3>3. <<r, f[prev[r]]>> \in D \X V
      BY <3>2
    <3>4. step[<<r, f[prev[r]]>>] =
            IF Against(seq[M(r)], key) # way /\ f[prev[r]] = Nothing THEN Row(M(r)) ELSE f[prev[r]]
      BY <3>1, <3>3
    <3> QED BY <2>1, <2>3, <3>1, <3>4
  <2> QED BY <2>2, <2>3
<1>5. IsProbe(f)
  <2>1. f = [r \in D |-> f[r]]
    OBVIOUS
  <2>2. \A r \in D : f[r] = Code(f, r)
    <3> HIDE DEF Body, Code
    <3> QED BY <1>1, <1>4
  <2> HIDE DEF Code
  <2> QED BY <2>1, <2>2
<1> DEFINE g == CHOOSE h : IsProbe(h)
<1>6. IsProbe(g)
  <2> HIDE DEF IsProbe
  <2> QED BY <1>5
<1>7. Bisect(seq, key, way) = g[<<1, n>>]
  BY DEF Bisect
<1>8. \A r \in D : g[r] = Body(g, r)
  <2>1. \A r \in D : g[r] = Code(g, r)
    <3> HIDE DEF Code, g
    <3> QED BY <1>6
  <2> HIDE DEF Code, Body, g
  <2> QED BY <1>1, <2>1
<1>9. g \in [D -> V]
  <2> DEFINE P == {r \in D : g[r] \in V}
  <2>1. \A r \in D : (\A q \in D : Size(n)[q] < Size(n)[r] => q \in P) => r \in P
    <3> SUFFICES ASSUME NEW r \in D, \A q \in D : Size(n)[q] < Size(n)[r] => g[q] \in V
                 PROVE  g[r] \in V
      OBVIOUS
    <3> HIDE DEF g
    <3>1. CASE r[1] > r[2]
      BY <1>8, <3>1, FoundFacts
    <3>2. CASE ~(r[1] > r[2])
      <4>1. r[1] <= r[2]
        BY <3>2, IntervalBounds
      <4>2. /\ <<r[1], M(r) - 1>> \in D /\ Size(n)[<<r[1], M(r) - 1>>] < Size(n)[r]
            /\ <<M(r) + 1, r[2]>> \in D /\ Size(n)[<<M(r) + 1, r[2]>>] < Size(n)[r]
            /\ M(r) \in 1..n
        BY <4>1, IntervalFacts
      <4> HIDE DEF M
      <4>3. g[<<r[1], M(r) - 1>>] \in V /\ g[<<M(r) + 1, r[2]>>] \in V
        BY <4>2
      <4>4. Row(M(r)) \in V /\ Unsupported \in V
        BY <4>2, FoundFacts
      <4>5. g[r] = Body(g, r)
        BY <1>8
      <4> HIDE DEF V, D
      <4> QED BY <3>2, <4>3, <4>4, <4>5
    <3> QED BY <3>1, <3>2
  <2>2. D \subseteq P
    <3>1. Size(n) \in [D -> Nat]
      BY IntervalFacts
    <3> HIDE DEF P, D
    <3> QED BY <2>1, <3>1, SizeInduction
  <2>3. g = [r \in D |-> g[r]]
    <3> HIDE DEF Code, g
    <3> QED BY <1>6
  <2> HIDE DEF g
  <2> QED BY <2>2, <2>3
<1> HIDE DEF g
<1> QED BY <1>7, <1>8, <1>9 DEF BisectProbe
\* The cells of a sequence that are no later than the key in the order.
Hits(seq, n, key, way) == {i \in 1..n : seq[i] # Blank /\ Against(seq[i], key) # way}

\* Blanks aside, the cells are in order.
Ordered(seq, n, way) ==
  \A i, j \in 1..n : i < j /\ seq[i] # Blank /\ seq[j] # Blank => Against(seq[i], seq[j]) # way

\* What comes before a hit is one.
LEMMA HitsBefore ==
  ASSUME NEW n \in Nat, NEW seq \in [1..n -> Plain \union {Blank}],
         NEW key \in Plain, NEW way \in {1, -1}, Ordered(seq, n, way),
         NEW i \in 1..n, seq[i] # Blank, NEW j \in Hits(seq, n, key, way), i <= j
  PROVE  i \in Hits(seq, n, key, way)
<1>1. CASE i = j
  BY <1>1
<1>2. CASE i # j
  <2>1. j \in 1..n /\ seq[j] # Blank /\ Against(seq[j], key) # way
    BY DEF Hits
  <2>2. seq[i] \in Plain /\ seq[j] \in Plain
    BY <2>1
  <2>3. i < j
    BY <1>2, <2>1
  <2>4. Against(seq[i], seq[j]) # way
    BY <2>1, <2>3 DEF Ordered
  <2>5. Against(seq[i], key) # way
    BY <2>1, <2>2, <2>4, OrderFacts
  <2> QED BY <2>5 DEF Hits
<1> QED BY <1>1, <1>2

\* On cells in order, Bisect is refused or finds the last hit.
LEMMA BisectFinds ==
  ASSUME NEW n \in Nat, NEW seq \in [1..n -> Plain \union {Blank}], Len(seq) = n,
         NEW key \in Plain, NEW way \in {1, -1}, Ordered(seq, n, way)
  PROVE  \/ Bisect(seq, key, way) = Unsupported
         \/ Bisect(seq, key, way) = Nothing /\ Hits(seq, n, key, way) = {}
         \/ \E i \in Hits(seq, n, key, way) :
              Bisect(seq, key, way) = Row(i) /\ \A j \in Hits(seq, n, key, way) : j <= i
<1> DEFINE D == Intervals(n)
           M(r) == Middle(r[1], r[2])
           H == Hits(seq, n, key, way)
<1>0. PICK f : BisectProbe(f, seq, n, key, way) /\ Bisect(seq, key, way) = f[<<1, n>>]
  BY BisectRecurses
<1>1. /\ Bisect(seq, key, way) = f[<<1, n>>]
      /\ \A r \in D : f[r] = IF r[1] > r[2] THEN Nothing
                             ELSE IF seq[M(r)] = Blank THEN Unsupported
                             ELSE IF Against(seq[M(r)], key) = way THEN f[<<r[1], M(r) - 1>>]
                             ELSE IF f[<<M(r) + 1, r[2]>>] = Nothing THEN Row(M(r)) ELSE f[<<M(r) + 1, r[2]>>]
  BY <1>0 DEF BisectProbe
<1> DEFINE In(r) == {i \in H : r[1] <= i /\ i <= r[2]}
           Good(r) == \/ f[r] = Unsupported
                      \/ f[r] = Nothing /\ In(r) = {}
                      \/ \E i \in In(r) : f[r] = Row(i) /\ \A j \in In(r) : j <= i
           P == {r \in D : Good(r)}
<1>2. ASSUME NEW r \in D, \A q \in D : Size(n)[q] < Size(n)[r] => Good(q)
      PROVE  Good(r)
  <2>0. H \subseteq 1..n
    BY DEF Hits
  <2>a. r[1] \in Int /\ r[2] \in Int
    BY IntervalBounds
  <2>1. CASE r[1] > r[2]
    <3>1. f[r] = Nothing
      BY <1>1, <2>1
    <3>2. In(r) = {}
      <4> SUFFICES ASSUME NEW i \in H, r[1] <= i, i <= r[2] PROVE FALSE
        OBVIOUS
      <4>1. i \in Int
        BY <2>0
      <4> QED BY <2>a, <2>1, <4>1
    <3> QED BY <3>1, <3>2
  <2>2. CASE ~(r[1] > r[2])
    <3> DEFINE m == M(r)
               lower == <<r[1], m - 1>>
               upper == <<m + 1, r[2]>>
    <3>1. r[1] <= r[2]
      BY <2>2, IntervalBounds
    <3>2. /\ m \in 1..n /\ r[1] <= m /\ m <= r[2]
          /\ lower \in D /\ Size(n)[lower] < Size(n)[r]
          /\ upper \in D /\ Size(n)[upper] < Size(n)[r]
      BY <3>1, IntervalFacts
    <3>3. f[r] = IF seq[m] = Blank THEN Unsupported
                 ELSE IF Against(seq[m], key) = way THEN f[lower]
                 ELSE IF f[upper] = Nothing THEN Row(m) ELSE f[upper]
      BY <1>1, <2>2
    <3>4. Good(lower) /\ Good(upper)
      <4> HIDE DEF Good, lower, upper, m
      <4> QED BY <1>2, <3>2
    <3>5. lower[1] = r[1] /\ lower[2] = m - 1 /\ upper[1] = m + 1 /\ upper[2] = r[2]
      OBVIOUS
    <3> HIDE DEF m, lower, upper
    <3>6. CASE seq[m] = Blank
      BY <3>3, <3>6
    <3>7. CASE seq[m] # Blank /\ Against(seq[m], key) = way
      <4>1. m \notin H
        BY <3>7 DEF Hits
      <4>2. \A j \in H : j < m
        <5> SUFFICES ASSUME NEW j \in H, ~(j < m) PROVE FALSE
          OBVIOUS
        <5>1. m <= j
          BY <2>0, <3>2
        <5> QED BY <3>2, <3>7, <4>1, <5>1, HitsBefore
      <4>3. In(lower) = In(r)
        <5> SUFFICES ASSUME NEW i \in H PROVE i <= lower[2] <=> i <= r[2]
          BY <3>5
        <5>1. i \in Int /\ i < m
          BY <2>0, <4>2
        <5> QED BY <2>a, <3>2, <3>5, <5>1
      <4>4. f[r] = f[lower]
        BY <3>3, <3>7
      <4> HIDE DEF In
      <4> QED BY <3>4, <4>3, <4>4
    <3>8. CASE seq[m] # Blank /\ Against(seq[m], key) # way
      <4>1. m \in H /\ m \in In(r)
        BY <3>2, <3>8 DEF Hits
      <4> HIDE DEF H
      <4>2. \A j \in In(r) : j <= m \/ j \in In(upper)
        <5> SUFFICES ASSUME NEW j \in H, j <= r[2], ~(j <= m) PROVE m + 1 <= j
          BY <3>5
        <5>1. j \in Int /\ m \in Int
          BY <2>0, <3>2
        <5> QED BY <5>1
      <4>3. In(upper) \subseteq In(r) /\ \A j \in In(upper) : j \in Int /\ m < j
        <5> SUFFICES ASSUME NEW j \in H, m + 1 <= j, j <= r[2]
                     PROVE  j \in Int /\ m < j /\ r[1] <= j
          BY <3>5
        <5>1. j \in Int
          BY <2>0
        <5> QED BY <2>a, <3>2, <5>1
      <4>4. f[r] = IF f[upper] = Nothing THEN Row(m) ELSE f[upper]
        BY <3>3, <3>8
      <4>5. \A i \in In(upper) : Row(i) # Nothing
        BY <2>0, FoundFacts
      <4>6. Unsupported # Nothing
        BY FoundFacts
      <4>7. \A j \in In(r) : j \in Int
        BY <2>0
      <4> HIDE DEF In
      <4>8. CASE f[upper] = Unsupported
        BY <4>4, <4>6, <4>8
      <4>9. CASE f[upper] = Nothing /\ In(upper) = {}
        BY <4>1, <4>2, <4>4, <4>9
      <4>10. CASE \E i \in In(upper) : f[upper] = Row(i) /\ \A j \in In(upper) : j <= i
        <5>1. PICK i \in In(upper) : f[upper] = Row(i) /\ \A j \in In(upper) : j <= i
          BY <4>10
        <5>2. f[r] = Row(i) /\ i \in In(r)
          BY <4>3, <4>4, <4>5, <5>1
        <5>3. \A j \in In(r) : j <= i
          BY <3>2, <4>2, <4>3, <4>7, <5>1
        <5> QED BY <5>2, <5>3
      <4> QED BY <3>4, <4>8, <4>9, <4>10
    <3> QED BY <3>6, <3>7, <3>8
  <2> QED BY <2>1, <2>2
<1>3. D \subseteq P
  <2>1. \A r \in D : (\A q \in D : Size(n)[q] < Size(n)[r] => q \in P) => r \in P
    <3> HIDE DEF Good, D
    <3> QED BY <1>2
  <2>2. Size(n) \in [D -> Nat]
    BY IntervalFacts
  <2> HIDE DEF P, D
  <2> QED BY <2>1, <2>2, SizeInduction
<1>4. Good(<<1, n>>)
  <2>1. <<1, n>> \in D
    BY IntervalFacts
  <2> HIDE DEF Good, D
  <2> QED BY <1>3, <2>1
<1>5. In(<<1, n>>) = H
  BY DEF Hits
<1> HIDE DEF In, H
<1>6. \/ f[<<1, n>>] = Unsupported
      \/ f[<<1, n>>] = Nothing /\ H = {}
      \/ \E i \in H : f[<<1, n>>] = Row(i) /\ \A j \in H : j <= i
  BY <1>4, <1>5
<1> QED BY <1>1, <1>6 DEF H

\* So is that of Settle.
LEMMA SettleRecurses ==
  ASSUME NEW n \in Nat, NEW seq \in [1..n -> Plain \union {Blank}], Len(seq) = n,
         NEW key \in Plain
  PROVE  \E f : SettleProbe(f, seq, n, key) /\ Settle(seq, key) = f[<<1, n>>]
<1> DEFINE D == Intervals(n)
           M(r) == Middle(r[1], r[2])
           Code(f, r) == LET mid == Middle(r[1], r[2])
                             order == Compare(seq[mid], key)
                         IN IF r[1] > r[2] THEN (IF r[2] = 0 THEN Nothing ELSE Row(r[2]))
                            ELSE IF IsErr(seq[mid]) THEN f[<<mid + 1, r[2]>>]
                            ELSE IF TouchesBlank(seq[mid], key) THEN Unsupported
                            ELSE IF IsErr(order) THEN order
                            ELSE IF order[2] = 0 THEN Row(mid)
                            ELSE IF order[2] = -1 THEN f[<<mid + 1, r[2]>>] ELSE f[<<r[1], mid - 1>>]
           Body(f, r) == IF r[1] > r[2] THEN (IF r[2] = 0 THEN Nothing ELSE Row(r[2]))
                         ELSE IF seq[M(r)] = Blank THEN Unsupported
                         ELSE IF Against(seq[M(r)], key) = 0 THEN Row(M(r))
                         ELSE IF Against(seq[M(r)], key) = -1 THEN f[<<M(r) + 1, r[2]>>] ELSE f[<<r[1], M(r) - 1>>]
           IsProbe(f) == f = [r \in Intervals(Len(seq)) |-> Code(f, r)]
           V == Found(n)
           Z == {r \in D : r[1] > r[2] \/ seq[M(r)] = Blank \/ Against(seq[M(r)], key) = 0}
           base == [r \in D |-> IF r[1] > r[2] THEN (IF r[2] = 0 THEN Nothing ELSE Row(r[2]))
                                ELSE IF seq[M(r)] = Blank THEN Unsupported ELSE Row(M(r))]
           prev == [r \in D |-> IF Against(seq[M(r)], key) = -1 THEN <<M(r) + 1, r[2]>> ELSE <<r[1], M(r) - 1>>]
           step == [x \in D \X V |-> x[2]]
<1>1. ASSUME NEW f, NEW r \in D PROVE Code(f, r) = Body(f, r)
  <2>1. CASE r[1] > r[2]
    BY <2>1
  <2>2. CASE ~(r[1] > r[2])
    <3>1. r[1] <= r[2]
      BY <2>2, IntervalBounds
    <3>2. M(r) \in 1..n
      BY <3>1, IntervalFacts
    <3>3. seq[M(r)] \in Plain \union {Blank}
      BY <3>2
    <3> HIDE DEF M
    <3>4. /\ TouchesBlank(seq[M(r)], key) <=> seq[M(r)] = Blank
          /\ ~IsErr(seq[M(r)])
          /\ seq[M(r)] # Blank => ~IsErr(Compare(seq[M(r)], key))
      BY <3>3, CellFacts
    <3> QED BY <2>2, <3>4 DEF Against, M
  <2> QED BY <2>1, <2>2
<1>2. \E f \in [D -> V] : Recurses(f, D, Z, base, prev, step)
  <2>1. V # {} /\ Nothing \in V /\ Unsupported \in V
    BY FoundFacts
  <2>2. Size(n) \in [D -> Nat] /\ \A r \in D : Size(n)[r] < n + 1
    BY IntervalFacts
  <2>3. \A r \in D \ Z : prev[r] \in D /\ Size(n)[prev[r]] < Size(n)[r]
    <3> SUFFICES ASSUME NEW r \in D \ Z PROVE prev[r] \in D /\ Size(n)[prev[r]] < Size(n)[r]
      OBVIOUS
    <3>1. r[1] <= r[2]
      BY IntervalBounds
    <3>2. prev[r] = <<r[1], M(r) - 1>> \/ prev[r] = <<M(r) + 1, r[2]>>
      OBVIOUS
    <3> QED BY <3>1, <3>2, IntervalFacts
  <2>4. \A r \in D \intersect Z : base[r] \in V
    <3> SUFFICES ASSUME NEW r \in D PROVE base[r] \in V
      OBVIOUS
    <3>1. r[2] # 0 => r[2] \in 1..n
      BY IntervalBounds
    <3>2. ~(r[1] > r[2]) => M(r) \in 1..n
      BY IntervalBounds, IntervalFacts
    <3> HIDE DEF M
    <3> QED BY <2>1, <3>1, <3>2, FoundFacts
  <2>5. step \in [D \X V -> V]
    OBVIOUS
  <2>6. n + 1 \in Nat
    OBVIOUS
  <2> HIDE DEF D, V, Z, base, prev, step
  <2> QED BY <2>1, <2>2, <2>3, <2>4, <2>5, <2>6, RecursionDefines
<1>3. PICK f \in [D -> V] : Recurses(f, D, Z, base, prev, step)
  BY <1>2
<1>4. ASSUME NEW r \in D PROVE f[r] = Body(f, r)
  <2>1. f[r] = IF r \in Z THEN base[r] ELSE step[<<r, f[prev[r]]>>]
    BY <1>3 DEF Recurses
  <2>2. CASE r \in Z
    BY <2>1, <2>2
  <2>3. CASE r \notin Z
    <3>1. r[1] <= r[2] /\ ~(r[1] > r[2]) /\ seq[M(r)] # Blank
      BY <2>3, IntervalBounds
    <3>2. prev[r] \in D
      BY <3>1, IntervalFacts
    <3>3. <<r, f[prev[r]]>> \in D \X V
      BY <3>2
    <3>4. step[<<r, f[prev[r]]>>] = f[prev[r]]
      BY <3>3
    <3> QED BY <2>1, <2>3, <3>1, <3>4
  <2> QED BY <2>2, <2>3
<1>5. IsProbe(f)
  <2>1. f = [r \in D |-> f[r]]
    OBVIOUS
  <2>2. \A r \in D : f[r] = Code(f, r)
    <3> HIDE DEF Body, Code
    <3> QED BY <1>1, <1>4
  <2> HIDE DEF Code
  <2> QED BY <2>1, <2>2
<1> DEFINE g == CHOOSE h : IsProbe(h)
<1>6. IsProbe(g)
  <2> HIDE DEF IsProbe
  <2> QED BY <1>5
<1>7. Settle(seq, key) = g[<<1, n>>]
  BY DEF Settle
<1>8. \A r \in D : g[r] = Body(g, r)
  <2>1. \A r \in D : g[r] = Code(g, r)
    <3> HIDE DEF Code, g
    <3> QED BY <1>6
  <2> HIDE DEF Code, Body, g
  <2> QED BY <1>1, <2>1
<1>9. g \in [D -> V]
  <2> DEFINE P == {r \in D : g[r] \in V}
  <2>1. \A r \in D : (\A q \in D : Size(n)[q] < Size(n)[r] => q \in P) => r \in P
    <3> SUFFICES ASSUME NEW r \in D, \A q \in D : Size(n)[q] < Size(n)[r] => g[q] \in V
                 PROVE  g[r] \in V
      OBVIOUS
    <3> HIDE DEF g
    <3>1. CASE r[1] > r[2]
      <4>1. r[2] # 0 => r[2] \in 1..n
        BY IntervalBounds
      <4> QED BY <1>8, <3>1, <4>1, FoundFacts
    <3>2. CASE ~(r[1] > r[2])
      <4>1. r[1] <= r[2]
        BY <3>2, IntervalBounds
      <4>2. /\ <<r[1], M(r) - 1>> \in D /\ Size(n)[<<r[1], M(r) - 1>>] < Size(n)[r]
            /\ <<M(r) + 1, r[2]>> \in D /\ Size(n)[<<M(r) + 1, r[2]>>] < Size(n)[r]
            /\ M(r) \in 1..n
        BY <4>1, IntervalFacts
      <4> HIDE DEF M
      <4>3. g[<<r[1], M(r) - 1>>] \in V /\ g[<<M(r) + 1, r[2]>>] \in V
        BY <4>2
      <4>4. Row(M(r)) \in V /\ Unsupported \in V
        BY <4>2, FoundFacts
      <4>5. g[r] = Body(g, r)
        BY <1>8
      <4> HIDE DEF V, D
      <4> QED BY <3>2, <4>3, <4>4, <4>5
    <3> QED BY <3>1, <3>2
  <2>2. D \subseteq P
    <3>1. Size(n) \in [D -> Nat]
      BY IntervalFacts
    <3> HIDE DEF P, D
    <3> QED BY <2>1, <3>1, SizeInduction
  <2>3. g = [r \in D |-> g[r]]
    <3> HIDE DEF Code, g
    <3> QED BY <1>6
  <2> HIDE DEF g
  <2> QED BY <2>2, <2>3
<1> HIDE DEF g
<1> QED BY <1>7, <1>8, <1>9 DEF SettleProbe

\* On cells in ascending order, Settle is refused or finds a hit that no later
\* one exceeds.
LEMMA SettleFinds ==
  ASSUME NEW n \in Nat, NEW seq \in [1..n -> Plain \union {Blank}], Len(seq) = n,
         NEW key \in Plain, Ordered(seq, n, 1)
  PROVE  \/ Settle(seq, key) = Unsupported
         \/ Settle(seq, key) = Nothing /\ Hits(seq, n, key, 1) = {}
         \/ \E i \in Hits(seq, n, key, 1) :
              /\ Settle(seq, key) = Row(i)
              /\ \A j \in Hits(seq, n, key, 1) : j <= i \/ Against(seq[i], seq[j]) = 0
<1> DEFINE D == Intervals(n)
           M(r) == Middle(r[1], r[2])
           H == Hits(seq, n, key, 1)
<1>0. PICK f : SettleProbe(f, seq, n, key) /\ Settle(seq, key) = f[<<1, n>>]
  BY SettleRecurses
<1>1. \A r \in D : f[r] = IF r[1] > r[2] THEN (IF r[2] = 0 THEN Nothing ELSE Row(r[2]))
                          ELSE IF seq[M(r)] = Blank THEN Unsupported
                          ELSE IF Against(seq[M(r)], key) = 0 THEN Row(M(r))
                          ELSE IF Against(seq[M(r)], key) = -1 THEN f[<<M(r) + 1, r[2]>>]
                          ELSE f[<<r[1], M(r) - 1>>]
  BY <1>0 DEF SettleProbe
<1> DEFINE \* What lies before an interval is less than the key, what lies behind is more.
           Less(i) == seq[i] # Blank /\ Against(seq[i], key) = -1
           More(i) == seq[i] # Blank /\ Against(seq[i], key) = 1
           Left(r) == /\ r[1] <= r[2] + 1
                      /\ r[1] # 1 => Less(r[1] - 1)
                      /\ r[2] # n => More(r[2] + 1)
           Best(x) == \/ x = Unsupported
                      \/ x = Nothing /\ H = {}
                      \/ \E i \in H : x = Row(i) /\ \A j \in H : j <= i \/ Against(seq[i], seq[j]) = 0
           P == {r \in D : Left(r) => Best(f[r])}
<1>h. H \subseteq 1..n /\ \A i \in H : seq[i] \in Plain /\ Against(seq[i], key) # 1
  BY DEF Hits
<1>2. ASSUME NEW i \in 1..n, More(i), NEW j \in H PROVE j < i
  <2> SUFFICES ASSUME i <= j PROVE FALSE
    BY <1>h
  <2>1. i \in H
    BY <1>2, HitsBefore
  <2> QED BY <1>2, <1>h, <2>1
<1>3. ASSUME NEW r \in D, Left(r), \A q \in D : Size(n)[q] < Size(n)[r] /\ Left(q) => Best(f[q])
      PROVE  Best(f[r])
  <2>1. r[1] \in 1..(n + 1) /\ r[2] \in 0..n
    BY IntervalFacts
  <2>2. CASE r[1] > r[2]
    <3>1. f[r] = IF r[2] = 0 THEN Nothing ELSE Row(r[2])
      BY <1>1, <2>2
    <3>2. r[1] = r[2] + 1
      BY <1>3, <2>1, <2>2
    <3>3. \A j \in H : j <= r[2]
      <4> SUFFICES ASSUME NEW j \in H PROVE j <= r[2]
        OBVIOUS
      <4>1. CASE r[2] = n
        BY <1>h, <4>1
      <4>2. CASE r[2] # n
        <5>1. r[2] + 1 \in 1..n /\ More(r[2] + 1)
          BY <1>3, <2>1, <4>2
        <5>2. j < r[2] + 1
          <6> HIDE DEF More, H
          <6> QED BY <1>2, <5>1
        <5> QED BY <1>h, <2>1, <5>2
      <4> QED BY <4>1, <4>2
    <3>4. CASE r[2] = 0
      <4>1. H = {}
        BY <1>h, <3>3, <3>4
      <4> QED BY <3>1, <3>4, <4>1
    <3>5. CASE r[2] # 0
      <4>1. r[2] \in 1..n /\ Less(r[2])
        BY <1>3, <2>1, <3>2, <3>5
      <4>2. r[2] \in H
        BY <4>1 DEF Hits
      <4> HIDE DEF H
      <4> QED BY <3>1, <3>3, <3>5, <4>2
    <3> QED BY <3>4, <3>5
  <2>3. CASE ~(r[1] > r[2])
    <3> DEFINE m == M(r)
               lower == <<r[1], m - 1>>
               upper == <<m + 1, r[2]>>
    <3>1. r[1] <= r[2]
      BY <2>3, IntervalBounds
    <3>2. /\ m \in 1..n /\ r[1] <= m /\ m <= r[2]
          /\ lower \in D /\ Size(n)[lower] < Size(n)[r]
          /\ upper \in D /\ Size(n)[upper] < Size(n)[r]
      BY <3>1, IntervalFacts
    <3>3. f[r] = IF seq[m] = Blank THEN Unsupported
                 ELSE IF Against(seq[m], key) = 0 THEN Row(m)
                 ELSE IF Against(seq[m], key) = -1 THEN f[upper] ELSE f[lower]
      BY <1>1, <2>3
    <3>4. lower[1] = r[1] /\ lower[2] = m - 1 /\ upper[1] = m + 1 /\ upper[2] = r[2]
      OBVIOUS
    <3> HIDE DEF m, lower, upper
    <3>5. CASE seq[m] = Blank
      BY <3>3, <3>5
    <3>6. CASE seq[m] # Blank
      <4>1. seq[m] \in Plain /\ Against(seq[m], key) \in {-1, 0, 1}
        BY <3>2, <3>6, CellFacts
      <4>2. CASE Against(seq[m], key) = 0
        <5>1. m \in H
          BY <3>2, <3>6, <4>2 DEF Hits
        <5>2. ASSUME NEW j \in H, ~(j <= m) PROVE Against(seq[m], seq[j]) = 0
          <6>1. m < j /\ j \in 1..n /\ seq[j] # Blank /\ seq[j] \in Plain /\ Against(seq[j], key) # 1
            BY <1>h, <3>2, <5>2 DEF Hits
          <6>2. Against(seq[m], seq[j]) # 1
            BY <3>2, <3>6, <6>1 DEF Ordered
          <6>3. Against(seq[j], seq[m]) = Against(seq[j], key)
            BY <4>1, <4>2, <6>1, OrderFacts
          <6>4. Against(seq[j], seq[m]) = - Against(seq[m], seq[j]) /\ Against(seq[m], seq[j]) \in {-1, 0, 1}
            BY <4>1, <6>1, OrderFacts
          <6> QED BY <6>1, <6>2, <6>3, <6>4
        <5>3. f[r] = Row(m)
          BY <3>3, <3>6, <4>2
        <5> HIDE DEF H
        <5> QED BY <5>1, <5>2, <5>3
      <4>3. CASE Against(seq[m], key) = -1
        <5>1. f[r] = f[upper]
          BY <3>3, <3>6, <4>3
        <5>2. Left(upper)
          BY <1>3, <2>1, <3>2, <3>4, <3>6, <4>3
        <5>3. Best(f[upper])
          <6> HIDE DEF Best, Left, D
          <6> QED BY <1>3, <3>2, <5>2
        <5> QED BY <5>1, <5>3
      <4>4. CASE Against(seq[m], key) = 1
        <5>1. f[r] = f[lower]
          BY <3>3, <3>6, <4>4
        <5>2. Left(lower)
          BY <1>3, <2>1, <3>2, <3>4, <3>6, <4>4
        <5>3. Best(f[lower])
          <6> HIDE DEF Best, Left, D
          <6> QED BY <1>3, <3>2, <5>2
        <5> QED BY <5>1, <5>3
      <4> QED BY <4>1, <4>2, <4>3, <4>4
    <3> QED BY <3>5, <3>6
  <2> QED BY <2>2, <2>3
<1>4. D \subseteq P
  <2>1. \A r \in D : (\A q \in D : Size(n)[q] < Size(n)[r] => q \in P) => r \in P
    <3> HIDE DEF Best, Left, D
    <3> QED BY <1>3
  <2>2. Size(n) \in [D -> Nat]
    BY IntervalFacts
  <2> HIDE DEF P, D
  <2> QED BY <2>1, <2>2, SizeInduction
<1>5. Best(f[<<1, n>>])
  <2>1. <<1, n>> \in D
    BY IntervalFacts
  <2>2. Left(<<1, n>>)
    OBVIOUS
  <2> HIDE DEF Best, Left, D
  <2> QED BY <1>4, <2>1, <2>2
<1> QED BY <1>0, <1>5

-----------------------------------------------------------------------------
(* The walks.                                                                *)

\* The lines are stored from position 0 to the last but one, and hold values.
LinesOK ==
  /\ DOMAIN keys \subseteq 0..(LastCell - 1) /\ DOMAIN results \subseteq 0..(LastCell - 1)
  /\ keys \in [DOMAIN keys -> Value]

\* Listed puts a set of positions in order.
LEMMA ListedFacts ==
  ASSUME NEW S, S \subseteq Nat, IsFiniteSet(S)
  PROVE  /\ Cardinality(S) \in Nat
         /\ Listed(S) \in [1..Cardinality(S) -> S]
         /\ \A p \in S : \E i \in 1..Cardinality(S) : Listed(S)[i] = p
         /\ \A i, j \in 1..Cardinality(S) : i < j => Listed(S)[i] < Listed(S)[j]
<1> DEFINE n == Cardinality(S)
           Under(p) == {q \in S : q < p}
           rank == [p \in S |-> Cardinality(Under(p))]
<1>1. n \in Nat
  BY FS_CardinalityType
<1>2. ASSUME NEW p \in S
      PROVE  IsFiniteSet(Under(p)) /\ rank[p] \in 0..(n - 1)
  <2>1. Under(p) \subseteq S /\ p \notin Under(p)
    OBVIOUS
  <2>2. IsFiniteSet(Under(p)) /\ Cardinality(Under(p)) <= n /\ Cardinality(Under(p)) # n
    <3> HIDE DEF Under
    <3> QED BY <2>1, FS_Subset
  <2>3. Cardinality(Under(p)) \in Nat
    BY <2>2, FS_CardinalityType
  <2> HIDE DEF Under
  <2> QED BY <1>1, <2>2, <2>3
<1>3. ASSUME NEW p \in S, NEW q \in S, p < q
      PROVE  rank[p] < rank[q]
  <2>0. \A x \in S : x \in Int /\ (x < p => x < q)
    BY <1>3
  <2>a. ~(p < p)
    BY <2>0
  <2>1. Under(p) \subseteq Under(q) /\ p \in Under(q) /\ p \notin Under(p)
    BY <1>3, <2>0, <2>a
  <2>2. IsFiniteSet(Under(q)) /\ IsFiniteSet(Under(p))
    BY <1>2
  <2>3. Cardinality(Under(p)) <= Cardinality(Under(q)) /\ Cardinality(Under(p)) # Cardinality(Under(q))
    <3> HIDE DEF Under
    <3> QED BY <2>1, <2>2, FS_Subset
  <2>4. rank[p] \in Int /\ rank[q] \in Int
    <3>1. rank[p] \in 0..(n - 1) /\ rank[q] \in 0..(n - 1)
      <4> HIDE DEF rank, n, Under
      <4> QED BY <1>2
    <3> HIDE DEF rank, n, Under
    <3> QED BY <3>1
  <2>5. rank[p] = Cardinality(Under(p)) /\ rank[q] = Cardinality(Under(q))
    OBVIOUS
  <2> HIDE DEF rank, Under
  <2> QED BY <2>3, <2>4, <2>5
<1>4. rank \in [S -> 0..(n - 1)]
  <2>1. \A p \in S : rank[p] \in 0..(n - 1)
    <3> HIDE DEF rank, n
    <3> QED BY <1>2
  <2> HIDE DEF n
  <2> QED BY <2>1
<1>5. \A p, q \in S : rank[p] = rank[q] => p = q
  <2> SUFFICES ASSUME NEW p \in S, NEW q \in S, rank[p] = rank[q], p # q PROVE FALSE
    OBVIOUS
  <2>1. p < q \/ q < p
    OBVIOUS
  <2>2. rank[p] \in Int /\ rank[q] \in Int
    <3> HIDE DEF rank
    <3> QED BY <1>1, <1>4
  <2> HIDE DEF rank
  <2> QED BY <1>3, <2>1, <2>2
<1>6. \A k \in 0..(n - 1) : \E p \in S : rank[p] = k
  <2>1. IsFiniteSet(0..(n - 1)) /\ Cardinality(0..(n - 1)) = n
    <3> HIDE DEF n
    <3> QED BY <1>1, FS_Interval
  <2>2. rank \in Injection(S, 0..(n - 1))
    <3> HIDE DEF rank, n
    <3> QED BY <1>4, <1>5 DEF Injection, IsInjective
  <2>3. rank \in Surjection(S, 0..(n - 1))
    <3> HIDE DEF rank
    <3> QED BY <2>1, <2>2, FS_Injection
  <2> HIDE DEF rank, n
  <2> QED BY <2>3 DEF Surjection
<1>7. ASSUME NEW i \in 1..n PROVE Listed(S)[i] \in S /\ rank[Listed(S)[i]] = i - 1
  <2>1. i - 1 \in 0..(n - 1)
    BY <1>1
  <2>2. PICK p \in S : rank[p] = i - 1
    BY <1>6, <2>1
  <2>3. \E q \in S : Cardinality({r \in S : r < q}) = i - 1
    BY <2>2
  <2>4. Listed(S)[i] = CHOOSE q \in S : Cardinality({r \in S : r < q}) = i - 1
    BY DEF Listed
  <2>5. Listed(S)[i] \in S /\ Cardinality({r \in S : r < Listed(S)[i]}) = i - 1
    BY <2>3, <2>4
  <2> QED BY <2>5
<1>8. Listed(S) \in [1..n -> S]
  <2> DEFINE f == [i \in 1..n |-> CHOOSE p \in S : Cardinality({q \in S : q < p}) = i - 1]
  <2>1. Listed(S) = f
    BY DEF Listed
  <2>2. \A i \in 1..n : f[i] \in S
    <3> HIDE DEF f, rank, n
    <3> QED BY <1>7, <2>1
  <2> HIDE DEF n
  <2> QED BY <2>1, <2>2
<1>9. ASSUME NEW p \in S PROVE \E i \in 1..n : Listed(S)[i] = p
  <2>1. rank[p] + 1 \in 1..n
    <3> HIDE DEF rank
    <3> QED BY <1>1, <1>4
  <2>2. Listed(S)[rank[p] + 1] \in S /\ rank[Listed(S)[rank[p] + 1]] = rank[p]
    <3>1. rank[p] \in Int
      <4> HIDE DEF rank
      <4> QED BY <1>1, <1>4
    <3>2. (rank[p] + 1) - 1 = rank[p]
      <4> HIDE DEF rank
      <4> QED BY <3>1
    <3> HIDE DEF rank, n
    <3> QED BY <1>7, <2>1, <3>2
  <2> HIDE DEF rank, n
  <2> QED BY <1>5, <2>1, <2>2
<1>10. ASSUME NEW i \in 1..n, NEW j \in 1..n, i < j PROVE Listed(S)[i] < Listed(S)[j]
  <2> DEFINE p == Listed(S)[i]  q == Listed(S)[j]
  <2>1. p \in S /\ q \in S /\ rank[p] = i - 1 /\ rank[q] = j - 1
    BY <1>7
  <2> HIDE DEF p, q
  <2> SUFFICES ASSUME ~(p < q) PROVE FALSE
    BY DEF p, q
  <2>2. p = q \/ q < p
    BY <2>1
  <2>3. rank[q] <= rank[p]
    <3> HIDE DEF rank
    <3>1. rank[p] \in Int /\ rank[q] \in Int
      BY <1>1, <1>4, <2>1
    <3> QED BY <1>3, <2>1, <2>2, <3>1
  <2> HIDE DEF rank
  <2> QED BY <1>1, <1>10, <2>1, <2>3
<1> QED BY <1>1, <1>8, <1>9, <1>10

\* A walk of n slices, the i-th at position rel[i].
WalkAt(walk, lines, ext, n, rel) ==
  /\ n \in Nat /\ rel \in [1..n -> 0..LastCell]
  /\ walk = [i \in 1..n |-> [rel |-> rel[i], cells |-> [j \in DOMAIN lines |-> Read(lines[j], rel[i])]]]
  /\ \A i, j \in 1..n : i < j => rel[i] < rel[j]
  /\ \A p \in DOMAIN keys : ext = Whole \/ p < ext => \E i \in 1..n : rel[i] = p
  /\ ext # Whole => n = ext /\ \A i \in 1..n : rel[i] = i - 1

\* A walk visits positions in order, each cell that has a value among them.
LEMMA WalkFacts ==
  ASSUME LinesOK, NEW lines, lines = <<keys>> \/ lines = <<keys, results>>,
         NEW ext \in 0..(LastCell + 1)
  PROVE  \E n, rel : WalkAt(Walk(lines, ext), lines, ext, n, rel)
<1>0. LastCell \in Nat
  BY LookupAssumption
<1> DEFINE stored == UNION {DOMAIN l : l \in Range(lines)}
           rels == IF ext = Whole THEN Listed(stored) ELSE [i \in 1..ext |-> i - 1]
<1>1. Walk(lines, ext) =
        [i \in DOMAIN rels |-> [rel |-> rels[i], cells |-> [j \in DOMAIN lines |-> Read(lines[j], rels[i])]]]
  BY DEF Walk
<1>2. CASE ext = Whole
  <2>1. DOMAIN keys \subseteq stored /\ stored \subseteq 0..(LastCell - 1)
    <3>1. CASE lines = <<keys>>
      <4>1. Range(lines) = {keys}
        BY <3>1 DEF Range
      <4> QED BY <1>0, <4>1 DEF LinesOK
    <3>2. CASE lines = <<keys, results>>
      <4>1. Range(lines) = {keys, results}
        BY <3>2 DEF Range
      <4> QED BY <1>0, <4>1 DEF LinesOK
    <3> QED BY <3>1, <3>2
  <2> HIDE DEF stored
  <2>2. IsFiniteSet(stored) /\ stored \subseteq Nat
    <3>1. IsFiniteSet(0..(LastCell - 1))
      BY <1>0, FS_Interval
    <3>2. stored \subseteq Nat
      BY <1>0, <2>1
    <3> QED BY <2>1, <3>1, <3>2, FS_Subset
  <2>3. rels = Listed(stored)
    BY <1>2
  <2>4. /\ Cardinality(stored) \in Nat
        /\ Listed(stored) \in [1..Cardinality(stored) -> stored]
        /\ \A p \in stored : \E i \in 1..Cardinality(stored) : Listed(stored)[i] = p
        /\ \A i, j \in 1..Cardinality(stored) : i < j => Listed(stored)[i] < Listed(stored)[j]
    BY <2>2, ListedFacts
  <2>5. WalkAt(Walk(lines, ext), lines, ext, Cardinality(stored), Listed(stored))
    <3>1. stored \subseteq 0..LastCell
      BY <1>0, <2>1
    <3>2. Listed(stored) \in [1..Cardinality(stored) -> 0..LastCell] /\ DOMAIN rels = 1..Cardinality(stored)
      BY <2>3, <2>4, <3>1
    <3> HIDE DEF rels
    <3> QED BY <1>0, <1>1, <1>2, <2>1, <2>3, <2>4, <3>2 DEF WalkAt
  <2> QED BY <2>5
<1>3. CASE ext # Whole
  <2> DEFINE r == [i \in 1..ext |-> i - 1]
  <2>1. rels = r /\ DOMAIN rels = 1..ext
    BY <1>3
  <2>2. ext \in Nat /\ r \in [1..ext -> 0..LastCell] /\ \A i \in 1..ext : r[i] = i - 1
    BY <1>0
  <2>3. \A i, j \in 1..ext : i < j => r[i] < r[j]
    OBVIOUS
  <2>4. ASSUME NEW p \in DOMAIN keys, p < ext PROVE \E i \in 1..ext : r[i] = p
    <3>1. p + 1 \in 1..ext /\ r[p + 1] = p
      BY <1>0, <2>4 DEF LinesOK
    <3> QED BY <3>1
  <2> HIDE DEF rels, r
  <2>5. WalkAt(Walk(lines, ext), lines, ext, ext, r)
    BY <1>1, <1>3, <2>1, <2>2, <2>3, <2>4 DEF WalkAt
  <2> QED BY <2>5
<1> QED BY <1>2, <1>3

\* In order, a cell with a value is comparable.
LEMMA FilledFacts ==
  ASSUME LinesOK, NEW way \in {1, -1}, InOrder(way)
  PROVE  /\ \A p \in Filled(keys) : keys[p] \in Plain
         /\ \A p \in DOMAIN keys : keys[p] \in Plain \union {Blank} /\ (p \in Filled(keys) <=> keys[p] # Blank)
         /\ \A p, q \in Filled(keys) : p < q => Against(keys[p], keys[q]) # way
<1>1. \A v \in Value : IsBlank(v) <=> v = Blank
  BY DEF Value, IsBlank, Blank
<1> QED BY <1>1 DEF LinesOK, InOrder, Filled, Plain, Against

\* seq holds the visited keys; e is the extent that the call names (HLOOKUP
\* walks a whole row as one that is longer than the line).
Visited(seq, lines, ext, e, n, rel) ==
  /\ lines = <<keys>> \/ lines = <<keys, results>>
  /\ ext \in 0..(LastCell + 1) /\ (e = ext \/ (e = Whole /\ ext = LastCell + 1))
  /\ WalkAt(Walk(lines, ext), lines, ext, n, rel)
  /\ seq = Firsts(Walk(lines, ext))

\* What a search of seq can hit is what is below the key in the line.
Mirrors(seq, n, rel, key, way, e) ==
  /\ n \in Nat /\ rel \in [1..n -> 0..LastCell]
  /\ \A i, j \in 1..n : i < j => rel[i] < rel[j]
  /\ seq \in [1..n -> Plain \union {Blank}] /\ Len(seq) = n
  /\ Ordered(seq, n, way)
  /\ \A i \in Hits(seq, n, key, way) : rel[i] \in Below(key, way, e) /\ seq[i] = keys[rel[i]]
  /\ \A p \in Below(key, way, e) : \E i \in Hits(seq, n, key, way) : rel[i] = p /\ seq[i] = keys[p]

\* A walk of a line in order is in order, and mirrors what is below the key.
LEMMA WalkedHits ==
  ASSUME LinesOK, NEW way \in {1, -1}, InOrder(way), NEW key \in Plain,
         NEW lines, NEW ext, NEW e, NEW n, NEW rel, NEW seq, Visited(seq, lines, ext, e, n, rel)
  PROVE  Mirrors(seq, n, rel, key, way, e)
<1> USE DEF Visited
<1>0. LastCell \in Nat
  BY LookupAssumption
<1>1. n \in Nat /\ rel \in [1..n -> 0..LastCell] /\ \A i, j \in 1..n : i < j => rel[i] < rel[j]
  BY DEF WalkAt
<1>2. seq = [i \in 1..n |-> Read(keys, rel[i])]
  <2> DEFINE walk == Walk(lines, ext)
  <2>1. walk = [i \in 1..n |-> [rel |-> rel[i], cells |-> [j \in DOMAIN lines |-> Read(lines[j], rel[i])]]]
    BY DEF WalkAt
  <2>2. 1 \in DOMAIN lines /\ lines[1] = keys
    OBVIOUS
  <2>3. seq = [i \in DOMAIN walk |-> walk[i].cells[1]]
    BY DEF Firsts
  <2> HIDE DEF walk
  <2>4. DOMAIN walk = 1..n /\ \A i \in 1..n : walk[i].cells[1] = Read(keys, rel[i])
    BY <2>1, <2>2
  <2> QED BY <2>3, <2>4
<1>3. \A i \in 1..n : seq[i] = Read(keys, rel[i])
  BY <1>2
<1>4. \A i \in 1..n : seq[i] # Blank => rel[i] \in Filled(keys) /\ seq[i] = keys[rel[i]]
  BY <1>3, FilledFacts DEF Read
<1>5. seq \in [1..n -> Plain \union {Blank}]
  <2>1. \A i \in 1..n : seq[i] \in Plain \union {Blank}
    BY <1>4, FilledFacts
  <2> QED BY <1>2, <2>1
<1>6. Len(seq) = n
  BY <1>1, <1>2
<1>7. Ordered(seq, n, way)
  <2> SUFFICES ASSUME NEW i \in 1..n, NEW j \in 1..n, i < j, seq[i] # Blank, seq[j] # Blank
               PROVE  Against(seq[i], seq[j]) # way
    BY DEF Ordered
  <2>1. rel[i] < rel[j]
    BY DEF WalkAt
  <2> QED BY <1>4, <2>1, FilledFacts
<1>8. ASSUME NEW i \in Hits(seq, n, key, way)
      PROVE  rel[i] \in Below(key, way, e) /\ seq[i] = keys[rel[i]]
  <2>1. i \in 1..n /\ seq[i] # Blank /\ Against(seq[i], key) # way
    BY DEF Hits
  <2>2. rel[i] \in Filled(keys) /\ seq[i] = keys[rel[i]]
    BY <1>4, <2>1
  <2>3. e = Whole \/ rel[i] < e
    BY <1>0, <1>1, <2>1 DEF WalkAt
  <2> QED BY <2>1, <2>2, <2>3 DEF Below, Against
<1>9. ASSUME NEW p \in Below(key, way, e)
      PROVE  \E i \in Hits(seq, n, key, way) : rel[i] = p /\ seq[i] = keys[p]
  <2>1. p \in Filled(keys) /\ p \in DOMAIN keys /\ (e = Whole \/ p < e) /\ Against(keys[p], key) # way
    BY DEF Below, Filled, Against
  <2>2. ext = Whole \/ p < ext
    BY <1>0, <2>1 DEF LinesOK, Whole
  <2>3. PICK i \in 1..n : rel[i] = p
    BY <2>1, <2>2 DEF WalkAt
  <2>4. seq[i] = keys[p] /\ keys[p] # Blank
    BY <1>3, <2>1, <2>3, FilledFacts DEF Read
  <2> QED BY <2>1, <2>3, <2>4 DEF Hits
<1> QED BY <1>1, <1>5, <1>6, <1>7, <1>8, <1>9 DEF Mirrors

\* So what a search of a walk finds is the floor of the key in the line.
LEMMA SearchesFindFloor ==
  ASSUME LinesOK, NEW way \in {1, -1}, InOrder(way), NEW key \in Plain,
         NEW lines, NEW ext, NEW e, NEW n, NEW rel, NEW seq, Visited(seq, lines, ext, e, n, rel)
  PROVE  /\ n \in Nat /\ rel \in [1..n -> 0..LastCell]
         /\ n = 0 => Below(key, way, e) = {}
         /\ \/ Bisect(seq, key, way) = Unsupported
            \/ Bisect(seq, key, way) = Nothing /\ Below(key, way, e) = {}
            \/ \E i \in 1..n : /\ Bisect(seq, key, way) = Row(i)
                              /\ rel[i] \in Below(key, way, e)
                              /\ \A p \in Below(key, way, e) : p <= rel[i]
         /\ way = 1 =>
              \/ Settle(seq, key) = Unsupported
              \/ Settle(seq, key) = Nothing /\ Below(key, way, e) = {}
              \/ \E i \in 1..n : /\ Settle(seq, key) = Row(i)
                                /\ rel[i] \in Below(key, way, e)
                                /\ \A p \in Below(key, way, e) :
                                     p <= rel[i] \/ Against(keys[rel[i]], keys[p]) = 0
<1> DEFINE H == Hits(seq, n, key, way)
           B == Below(key, way, e)
<1>0. Mirrors(seq, n, rel, key, way, e)
  BY WalkedHits
<1>1. n \in Nat /\ rel \in [1..n -> 0..LastCell] /\ \A i, j \in 1..n : i < j => rel[i] < rel[j]
  BY <1>0 DEF Mirrors
<1>2. /\ seq \in [1..n -> Plain \union {Blank}] /\ Len(seq) = n
      /\ Ordered(seq, n, way)
      /\ \A i \in H : rel[i] \in B /\ seq[i] = keys[rel[i]]
      /\ \A p \in B : \E i \in H : rel[i] = p /\ seq[i] = keys[p]
  BY <1>0 DEF Mirrors
<1>3. H \subseteq 1..n
  BY DEF Hits
<1>4. H = {} => B = {}
  BY <1>2
<1>5. ASSUME NEW i \in H, NEW j \in H, j <= i PROVE rel[j] <= rel[i]
  <2>0. LastCell \in Nat
    BY LookupAssumption
  <2>1. i \in 1..n /\ j \in 1..n /\ rel[i] \in Int /\ rel[j] \in Int
    BY <1>1, <1>3, <2>0
  <2>2. i = j \/ j < i
    BY <1>5, <2>1
  <2> QED BY <1>1, <2>1, <2>2
<1>6. \/ Bisect(seq, key, way) = Unsupported
      \/ Bisect(seq, key, way) = Nothing /\ B = {}
      \/ \E i \in 1..n : Bisect(seq, key, way) = Row(i) /\ rel[i] \in B /\ \A p \in B : p <= rel[i]
  <2>1. \/ Bisect(seq, key, way) = Unsupported
        \/ Bisect(seq, key, way) = Nothing /\ H = {}
        \/ \E i \in H : Bisect(seq, key, way) = Row(i) /\ \A j \in H : j <= i
    BY <1>1, <1>2, BisectFinds
  <2> HIDE DEF H, B
  <2>2. ASSUME NEW i \in H, \A j \in H : j <= i PROVE \A p \in B : p <= rel[i]
    BY <1>2, <1>5, <2>2
  <2> QED BY <1>2, <1>3, <1>4, <2>1, <2>2
<1>7. ASSUME way = 1
      PROVE  \/ Settle(seq, key) = Unsupported
             \/ Settle(seq, key) = Nothing /\ B = {}
             \/ \E i \in 1..n : /\ Settle(seq, key) = Row(i) /\ rel[i] \in B
                               /\ \A p \in B : p <= rel[i] \/ Against(keys[rel[i]], keys[p]) = 0
  <2>0. Ordered(seq, n, 1) /\ H = Hits(seq, n, key, 1)
    BY <1>2, <1>7
  <2>1. \/ Settle(seq, key) = Unsupported
        \/ Settle(seq, key) = Nothing /\ H = {}
        \/ \E i \in H : Settle(seq, key) = Row(i) /\ \A j \in H : j <= i \/ Against(seq[i], seq[j]) = 0
    BY <1>1, <1>2, <2>0, SettleFinds
  <2> HIDE DEF H, B
  <2>2. ASSUME NEW i \in H, \A j \in H : j <= i \/ Against(seq[i], seq[j]) = 0
        PROVE  \A p \in B : p <= rel[i] \/ Against(keys[rel[i]], keys[p]) = 0
    BY <1>2, <1>5, <2>2
  <2> QED BY <1>2, <1>3, <1>4, <2>1, <2>2
<1>8. n = 0 => B = {}
  BY <1>3, <1>4
<1> QED BY <1>1, <1>6, <1>7, <1>8

-----------------------------------------------------------------------------
(* The functions.                                                            *)

\* The best position below the key, and those that tie with it.
LEMMA BestFacts ==
  ASSUME LinesOK, NEW way \in {1, -1}, InOrder(way), NEW key \in Plain, NEW e,
         NEW p \in Below(key, way, e)
  PROVE  LET B == Below(key, way, e) IN
         /\ B # {} /\ Max(B) \in B
         /\ (\A q \in B : q <= p) => Max(B) = p
         /\ (\A q \in B : q <= p \/ Against(keys[p], keys[q]) = 0) => Compare(keys[p], keys[Max(B)])[2] = 0
<1> DEFINE B == Below(key, way, e)
<1>0. LastCell \in Nat
  BY LookupAssumption
<1>1. B \subseteq 0..LastCell /\ B \subseteq Filled(keys)
  BY <1>0 DEF Below, Filled, LinesOK
<1> HIDE DEF B
<1>2. p \in B
  BY DEF B
<1>3. PICK m \in B : \A q \in B : q <= m
  BY <1>0, <1>1, <1>2, GreatestPosition
<1>4. \A q \in B : q \in Int
  BY <1>0, <1>1
<1>5. Max(B) \in B /\ \A q \in B : q <= Max(B)
  <2>1. \E x \in B : \A q \in B : x >= q
    BY <1>3, <1>4
  <2> QED BY <1>4, <2>1 DEF Max
<1>6. (\A q \in B : q <= p) => Max(B) = p
  BY <1>2, <1>4, <1>5
<1>7. ASSUME \A q \in B : q <= p \/ Against(keys[p], keys[q]) = 0
      PROVE  Against(keys[p], keys[Max(B)]) = 0
  <2>1. CASE Max(B) <= p
    <3>1. Max(B) = p
      BY <1>2, <1>4, <1>5, <2>1
    <3>2. keys[p] \in Plain
      BY <1>1, <1>2, FilledFacts
    <3>3. Against(keys[p], keys[p]) = - Against(keys[p], keys[p]) /\ Against(keys[p], keys[p]) \in {-1, 0, 1}
      BY <3>2, OrderFacts
    <3>4. Against(keys[p], keys[p]) = 0
      BY <3>3
    <3> QED BY <3>1, <3>4
  <2>2. CASE ~(Max(B) <= p)
    BY <1>5, <1>7, <2>2
  <2> QED BY <2>1, <2>2
<1> QED BY <1>2, <1>5, <1>6, <1>7 DEF B, Against

\* What the property allows a function to return.
Allowed(key, way, e, here) == {Unsupported} \union (IF Below(key, way, e) = {} THEN {NotFound} ELSE here)
Tied(key, e) == {Read(results, p) : p \in {q \in Below(key, 1, e) :
                                             Compare(keys[q], keys[Max(Below(key, 1, e))])[2] = 0}}

\* x is what a function answers when its search has found that.
Answers(x, found, n, rel, F) ==
  /\ found = Unsupported => x = Unsupported
  /\ found = Nothing => x = NotFound
  /\ \A i \in 1..n : found = Row(i) => x = F[rel[i]]

\* A function that answers from a bisection answers from the floor.
LEMMA BisectAnswers ==
  ASSUME LinesOK, NEW way \in {1, -1}, InOrder(way), NEW key \in Plain,
         NEW lines, NEW ext, NEW e, NEW n, NEW rel, NEW seq, Visited(seq, lines, ext, e, n, rel),
         NEW F, NEW x, Answers(x, Bisect(seq, key, way), n, rel, F)
  PROVE  x \in Allowed(key, way, e, {F[Max(Below(key, way, e))]})
<1>1. \/ Bisect(seq, key, way) = Unsupported
      \/ Bisect(seq, key, way) = Nothing /\ Below(key, way, e) = {}
      \/ \E i \in 1..n : /\ Bisect(seq, key, way) = Row(i) /\ rel[i] \in Below(key, way, e)
                        /\ \A p \in Below(key, way, e) : p <= rel[i]
  BY SearchesFindFloor
<1>2. ASSUME NEW i \in 1..n, Bisect(seq, key, way) = Row(i), rel[i] \in Below(key, way, e),
             \A p \in Below(key, way, e) : p <= rel[i]
      PROVE  x \in Allowed(key, way, e, {F[Max(Below(key, way, e))]})
  <2>1. Below(key, way, e) # {} /\ Max(Below(key, way, e)) = rel[i]
    BY <1>2, BestFacts
  <2> QED BY <1>2, <2>1 DEF Allowed, Answers
<1> QED BY <1>1, <1>2 DEF Allowed, Answers

\* One that settles on a tie answers from a cell that ties with the floor.
LEMMA SettleAnswers ==
  ASSUME LinesOK, InOrder(1), NEW key \in Plain,
         NEW lines, NEW ext, NEW e, NEW n, NEW rel, NEW seq, Visited(seq, lines, ext, e, n, rel),
         NEW F, \A p \in 0..LastCell : F[p] = Read(results, p),
         NEW x, Answers(x, Settle(seq, key), n, rel, F)
  PROVE  x \in Allowed(key, 1, e, Tied(key, e))
<1> DEFINE B == Below(key, 1, e)
<1>1. /\ rel \in [1..n -> 0..LastCell]
      /\ \/ Settle(seq, key) = Unsupported
         \/ Settle(seq, key) = Nothing /\ B = {}
         \/ \E i \in 1..n : /\ Settle(seq, key) = Row(i) /\ rel[i] \in B
                           /\ \A p \in B : p <= rel[i] \/ Against(keys[rel[i]], keys[p]) = 0
  BY SearchesFindFloor
<1>2. ASSUME NEW i \in 1..n, Settle(seq, key) = Row(i), rel[i] \in B,
             \A p \in B : p <= rel[i] \/ Against(keys[rel[i]], keys[p]) = 0
      PROVE  x \in Allowed(key, 1, e, Tied(key, e))
  <2>1. B # {} /\ Compare(keys[rel[i]], keys[Max(B)])[2] = 0
    BY <1>2, BestFacts
  <2>2. x = Read(results, rel[i])
    BY <1>1, <1>2 DEF Answers
  <2> QED BY <1>2, <2>1, <2>2 DEF Allowed, Tied
<1> QED BY <1>1, <1>2 DEF Allowed, Answers

\* What a walk visits.
LEMMA SliceFacts ==
  ASSUME NEW walk, NEW lines, NEW ext, NEW n, NEW rel, WalkAt(walk, lines, ext, n, rel)
  PROVE  /\ walk = <<>> <=> n = 0
         /\ \A i \in 1..n : /\ rel[i] \in 0..LastCell /\ walk[i].rel = rel[i]
                          /\ \A j \in DOMAIN lines : walk[i].cells[j] = Read(lines[j], rel[i])
<1>1. /\ n \in Nat /\ rel \in [1..n -> 0..LastCell]
      /\ walk = [i \in 1..n |-> [rel |-> rel[i], cells |-> [j \in DOMAIN lines |-> Read(lines[j], rel[i])]]]
  BY DEF WalkAt
<1>2. walk = <<>> <=> n = 0
  <2>1. DOMAIN walk = 1..n
    BY <1>1
  <2>2. n # 0 => 1 \in DOMAIN walk
    BY <1>1, <2>1
  <2>3. n = 0 => walk = <<>>
    BY <1>1
  <2> QED BY <2>2, <2>3
<1> QED BY <1>1, <1>2

\* The verdicts of a search are told apart.
LEMMA Verdicts ==
  /\ Unsupported[1] # "row" /\ Unsupported # Nothing /\ Nothing[1] # "row"
  /\ \A i : Row(i)[1] = "row" /\ Row(i)[2] = i /\ Row(i) # Nothing
BY DEF Unsupported, Err, Nothing, Row

\* The searching functions, one by one: what each walks, and where it searches.
LEMMA MatchFloor ==
  ASSUME LinesOK, NEW way \in {1, -1}, InOrder(way), NEW key \in Plain, NEW ext \in 0..LastCell
  PROVE  Match(key, way, ext, FALSE) \in
           Allowed(key, way, ext, {Num(Max(Below(key, way, ext)) + 1)})
<1> DEFINE lines == <<keys>>
           walk == Walk(lines, ext)
           seq == Firsts(walk)
           B == Below(key, way, ext)
           F == [p \in 0..LastCell |-> Num(p + 1)]
           x == Match(key, way, ext, FALSE)
           found == Bisect(seq, key, way)
<1>0. LastCell \in Nat /\ ext \in 0..(LastCell + 1)
  BY LookupAssumption
<1>1. PICK n, rel : WalkAt(walk, lines, ext, n, rel)
  BY <1>0, WalkFacts
<1>2. Visited(seq, lines, ext, ext, n, rel)
  BY <1>0, <1>1 DEF Visited
<1>3. ~IsErr(key) /\ ~IsBlank(key)
  BY DEF Plain
<1>4. walk = <<>> => x \in Allowed(key, way, ext, {Num(Max(B) + 1)})
  <2> SUFFICES ASSUME walk = <<>> PROVE x = NotFound /\ B = {}
    BY DEF Allowed
  <2>1. n = 0
    BY <1>1, SliceFacts
  <2>2. B = {}
    <3> HIDE DEF seq, walk, lines
    <3> QED BY <1>2, <2>1, SearchesFindFloor
  <2>3. x = NotFound
    BY <1>3 DEF Match
  <2> QED BY <2>2, <2>3
<1>5. walk # <<>> => x \in Allowed(key, way, ext, {Num(Max(B) + 1)})
  <2> SUFFICES ASSUME walk # <<>> PROVE x \in Allowed(key, way, ext, {Num(Max(B) + 1)})
    OBVIOUS
  <2>1. x = CASE found[1] = "row" -> Num(walk[found[2]].rel + 1) [] found = Nothing -> NotFound [] OTHER -> found
    BY <1>3 DEF Match, Answer, MatchSearch
  <2>2. Answers(x, found, n, rel, F)
    <3> HIDE DEF x, found
    <3>1. ASSUME NEW i \in 1..n, found = Row(i) PROVE x = F[rel[i]]
      <4>1. x = Num(walk[i].rel + 1)
        BY <2>1, <3>1, Verdicts
      <4>2. walk[i].rel = rel[i] /\ rel[i] \in 0..LastCell
        <5> HIDE DEF walk, lines
        <5> QED BY <1>1, SliceFacts
      <4> QED BY <4>1, <4>2
    <3> QED BY <2>1, <3>1, Verdicts DEF Answers
  <2>3. x \in Allowed(key, way, ext, {F[Max(B)]})
    <3> HIDE DEF x, F, seq, walk, lines
    <3> QED BY <1>2, <2>2, BisectAnswers
  <2>4. B # {} => F[Max(B)] = Num(Max(B) + 1)
    <3> SUFFICES ASSUME NEW p \in B PROVE F[Max(B)] = Num(Max(B) + 1)
      OBVIOUS
    <3>1. Max(B) \in B
      BY BestFacts
    <3>2. B \subseteq 0..LastCell
      BY <1>0 DEF Below, Filled, LinesOK
    <3> HIDE DEF B
    <3> QED BY <3>1, <3>2
  <2> HIDE DEF x, F
  <2> QED BY <2>3, <2>4 DEF Allowed
<1> QED BY <1>4, <1>5

LEMMA HLookupFloor ==
  ASSUME LinesOK, InOrder(1), NEW key \in Plain, NEW ext \in 0..LastCell
  PROVE  HLookup(key, FALSE, 2, ext) \in Allowed(key, 1, ext, {Read(results, Max(Below(key, 1, ext)))})
<1> DEFINE lines == <<keys, results>>
           long == IF ext = Whole THEN LastCell + 1 ELSE ext
           walk == Walk(lines, long)
           seq == Firsts(walk)
           F == [p \in 0..LastCell |-> Read(results, p)]
           x == HLookup(key, FALSE, 2, ext)
           found == Bisect(seq, key, 1)
<1>0. LastCell \in Nat /\ long \in 0..(LastCell + 1)
  BY LookupAssumption
<1>1. PICK n, rel : WalkAt(walk, lines, long, n, rel)
  BY <1>0, WalkFacts
<1>2. Visited(seq, lines, long, ext, n, rel)
  BY <1>0, <1>1 DEF Visited
<1>3. ~IsErr(key) /\ ~IsBlank(key)
  BY DEF Plain
<1>4. x = CASE found[1] = "row" -> walk[found[2]].cells[2] [] found = Nothing -> NotFound [] OTHER -> found
  BY <1>3 DEF HLookup, Answer
<1>5. Answers(x, found, n, rel, F)
  <2> HIDE DEF x, found
  <2>1. ASSUME NEW i \in 1..n, found = Row(i) PROVE x = F[rel[i]]
    <3>1. x = walk[i].cells[2]
      BY <1>4, <2>1, Verdicts
    <3>2. walk[i].cells[2] = Read(results, rel[i]) /\ rel[i] \in 0..LastCell
      <4>1. 2 \in DOMAIN lines /\ lines[2] = results
        OBVIOUS
      <4> HIDE DEF walk, lines
      <4> QED BY <1>1, <4>1, SliceFacts
    <3> QED BY <3>1, <3>2
  <2> QED BY <1>4, <2>1, Verdicts DEF Answers
<1>6. \A p \in 0..LastCell : F[p] = Read(results, p)
  OBVIOUS
<1>7. x \in Allowed(key, 1, ext, {F[Max(Below(key, 1, ext))]})
  <2> HIDE DEF x, F, seq, walk, lines, long
  <2> QED BY <1>2, <1>5, BisectAnswers
<1> DEFINE B == Below(key, 1, ext)
<1>8. B # {} => F[Max(B)] = Read(results, Max(B))
  <2> SUFFICES ASSUME NEW p \in B PROVE F[Max(B)] = Read(results, Max(B))
    OBVIOUS
  <2>1. Max(B) \in B
    BY BestFacts
  <2>2. B \subseteq 0..LastCell
    BY <1>0 DEF Below, Filled, LinesOK
  <2> HIDE DEF B
  <2> QED BY <2>1, <2>2
<1> HIDE DEF x, F
<1>9. x \in Allowed(key, 1, ext, {Read(results, Max(B))})
  BY <1>7, <1>8 DEF Allowed
<1> QED BY <1>9 DEF x

LEMMA VLookupFloor ==
  ASSUME LinesOK, InOrder(1), NEW key \in Plain, NEW ext \in 0..LastCell, Walk(<<keys, results>>, ext) # <<>>
  PROVE  VLookup(key, FALSE, 2, ext) \in Allowed(key, 1, ext, Tied(key, ext))
<1> DEFINE lines == <<keys, results>>
           walk == Walk(lines, ext)
           seq == Firsts(walk)
           F == [p \in 0..LastCell |-> Read(results, p)]
           x == VLookup(key, FALSE, 2, ext)
           found == Settle(seq, key)
<1>0. LastCell \in Nat /\ ext \in 0..(LastCell + 1)
  BY LookupAssumption
<1>1. PICK n, rel : WalkAt(walk, lines, ext, n, rel)
  BY <1>0, WalkFacts
<1>2. Visited(seq, lines, ext, ext, n, rel)
  BY <1>0, <1>1 DEF Visited
<1>3. ~IsErr(key) /\ ~IsBlank(key)
  BY DEF Plain
<1>4. x = CASE found[1] = "row" -> walk[found[2]].cells[2] [] found = Nothing -> NotFound [] OTHER -> found
  BY <1>3 DEF VLookup, Answer
<1>5. Answers(x, found, n, rel, F)
  <2> HIDE DEF x, found
  <2>1. ASSUME NEW i \in 1..n, found = Row(i) PROVE x = F[rel[i]]
    <3>1. x = walk[i].cells[2]
      BY <1>4, <2>1, Verdicts
    <3>2. walk[i].cells[2] = Read(results, rel[i]) /\ rel[i] \in 0..LastCell
      <4>1. 2 \in DOMAIN lines /\ lines[2] = results
        OBVIOUS
      <4> HIDE DEF walk, lines
      <4> QED BY <1>1, <4>1, SliceFacts
    <3> QED BY <3>1, <3>2
  <2> QED BY <1>4, <2>1, Verdicts DEF Answers
<1>6. \A p \in 0..LastCell : F[p] = Read(results, p)
  OBVIOUS
<1> HIDE DEF x, F, seq, walk, lines
<1>7. x \in Allowed(key, 1, ext, Tied(key, ext))
  BY <1>2, <1>5, <1>6, SettleAnswers
<1> QED BY <1>7 DEF x

LEMMA LookupArrayFloor ==
  ASSUME LinesOK, InOrder(1), NEW key \in Plain, NEW ext \in 0..LastCell, ext > 1
  PROVE  LookupArray(key, ext) \in Allowed(key, 1, ext, Tied(key, ext))
<1> DEFINE lines == <<keys, results>>
           walk == Walk(lines, ext)
           seq == Firsts(walk)
           F == [p \in 0..LastCell |-> Read(results, p)]
           x == LookupArray(key, ext)
           found == Settle(seq, key)
<1>0. LastCell \in Nat /\ ext \in 0..(LastCell + 1)
  BY LookupAssumption
<1>1. PICK n, rel : WalkAt(walk, lines, ext, n, rel)
  BY <1>0, WalkFacts
<1>2. Visited(seq, lines, ext, ext, n, rel)
  BY <1>0, <1>1 DEF Visited
<1>3. ~IsErr(key) /\ ~IsBlank(key)
  BY DEF Plain
<1>4. x = CASE found[1] = "row" -> walk[found[2]].cells[2] [] found = Nothing -> NotFound [] OTHER -> found
  BY <1>3 DEF LookupArray, Answer, Whole
<1>5. Answers(x, found, n, rel, F)
  <2> HIDE DEF x, found
  <2>1. ASSUME NEW i \in 1..n, found = Row(i) PROVE x = F[rel[i]]
    <3>1. x = walk[i].cells[2]
      BY <1>4, <2>1, Verdicts
    <3>2. walk[i].cells[2] = Read(results, rel[i]) /\ rel[i] \in 0..LastCell
      <4>1. 2 \in DOMAIN lines /\ lines[2] = results
        OBVIOUS
      <4> HIDE DEF walk, lines
      <4> QED BY <1>1, <4>1, SliceFacts
    <3> QED BY <3>1, <3>2
  <2> QED BY <1>4, <2>1, Verdicts DEF Answers
<1>6. \A p \in 0..LastCell : F[p] = Read(results, p)
  OBVIOUS
<1> HIDE DEF x, F, seq, walk, lines
<1>7. x \in Allowed(key, 1, ext, Tied(key, ext))
  BY <1>2, <1>5, <1>6, SettleAnswers
<1> QED BY <1>7 DEF x

LEMMA LookupVectorFloor ==
  ASSUME LinesOK, InOrder(1), NEW key \in Plain, NEW ext \in 0..LastCell, ext # Whole
  PROVE  LookupVector(key, ext, ext) \in Allowed(key, 1, ext, Tied(key, ext))
<1> DEFINE lines == <<keys>>
           walk == Walk(lines, ext)
           seq == Firsts(walk)
           F == [p \in 0..LastCell |-> Read(results, p)]
           x == LookupVector(key, ext, ext)
           found == Settle(seq, key)
<1>0. LastCell \in Nat /\ ext \in 0..(LastCell + 1)
  BY LookupAssumption
<1>1. PICK n, rel : WalkAt(walk, lines, ext, n, rel)
  BY <1>0, WalkFacts
<1>2. Visited(seq, lines, ext, ext, n, rel)
  BY <1>0, <1>1 DEF Visited
<1>3. ~IsErr(key) /\ ~IsBlank(key)
  BY DEF Plain
<1>4. x = CASE found[1] = "row" -> IF found[2] <= ext THEN Read(results, found[2] - 1) ELSE NotFound
            [] found = Nothing -> NotFound [] OTHER -> found
  BY <1>3 DEF LookupVector, Answer
<1>5. Answers(x, found, n, rel, F)
  <2> HIDE DEF x, found
  <2>1. ASSUME NEW i \in 1..n, found = Row(i) PROVE x = F[rel[i]]
    <3>1. x = IF i <= ext THEN Read(results, i - 1) ELSE NotFound
      BY <1>4, <2>1, Verdicts
    <3>2. rel[i] \in 0..LastCell
      <4> HIDE DEF walk, lines
      <4> QED BY <1>1, SliceFacts
    <3>3. i <= ext /\ rel[i] = i - 1
      <4> HIDE DEF walk, lines
      <4> QED BY <1>0, <1>1, <2>1 DEF WalkAt
    <3> QED BY <3>1, <3>2, <3>3
  <2> QED BY <1>4, <2>1, Verdicts DEF Answers
<1>6. \A p \in 0..LastCell : F[p] = Read(results, p)
  OBVIOUS
<1> HIDE DEF x, F, seq, walk, lines
<1>7. x \in Allowed(key, 1, ext, Tied(key, ext))
  BY <1>2, <1>5, <1>6, SettleAnswers
<1> QED BY <1>7 DEF x

-----------------------------------------------------------------------------
(* The edits keep the lines, so the searches are right whatever is typed.    *)

\* An edit stores a value at a position of its line.
LEMMA LinesKept ==
  Spec => []LinesOK
<1>1. Init => LinesOK
  <2>1. DOMAIN <<>> = {}
    OBVIOUS
  <2> QED BY <2>1 DEF Init, LinesOK
<1>2. LinesOK /\ [Next]_vars => LinesOK'
  <2> SUFFICES ASSUME LinesOK, [Next]_vars PROVE LinesOK'
    OBVIOUS
  <2>1. ASSUME NEW p \in DOMAIN KeyInputs, NEW v \in KeyInputs[p], EditKey(p, v) PROVE LinesOK'
    <3>1. p \in 0..(LastCell - 1) /\ v \in Value
      BY LookupAssumption
    <3>2. results' = results /\ keys' = [q \in DOMAIN keys \union {p} |-> IF q = p THEN v ELSE keys[q]]
      BY <2>1 DEF EditKey, Store
    <3> QED BY <3>1, <3>2 DEF LinesOK
  <2>2. ASSUME NEW p \in DOMAIN ResultInputs, NEW v \in ResultInputs[p], EditResult(p, v) PROVE LinesOK'
    <3>1. p \in 0..(LastCell - 1)
      BY LookupAssumption
    <3>2. keys' = keys /\ DOMAIN results' = DOMAIN results \union {p}
      BY <2>2 DEF EditResult, Store
    <3> QED BY <3>1, <3>2 DEF LinesOK
  <2>3. CASE UNCHANGED vars
    BY <2>3 DEF vars, LinesOK
  <2> QED BY <2>1, <2>2, <2>3 DEF Next
<1> QED BY <1>1, <1>2, PTL DEF Spec

(* On sorted data, whatever gaps and cleared cells the lines have and however *)
(* long they are, MATCH, HLOOKUP, VLOOKUP and LOOKUP are refused or find the  *)
(* last cell that is not beyond the key (VLOOKUP and LOOKUP one equal to it), *)
(* and answer #N/A only when there is none (lookup.rs approx_touches_blank;   *)
(* ascending_search, descending_search, approx_search).                       *)
THEOREM SearchesFindTheFloor == Spec => []ApproximateFindsFloor
<1>1. LinesOK => ApproximateFindsFloor
  <2> SUFFICES ASSUME LinesOK, NEW way \in {1, -1}, InOrder(way), NEW ext \in 0..LastCell,
                      NEW k \in {k \in Keys : ~IsErr(k) /\ ~IsBlank(k) /\ ~IsNonAscii(k)}
               PROVE  LET below == Below(k, way, ext)
                          best == Max(below)
                          ties == {p \in below : Compare(keys[p], keys[best])[2] = 0}
                          found(here) == IF below = {} THEN {NotFound} ELSE here
                          tied == found({Read(results, p) : p \in ties})
                      IN /\ Match(k, way, ext, FALSE) \in {Unsupported} \union found({Num(best + 1)})
                         /\ way = 1 =>
                              /\ HLookup(k, FALSE, 2, ext) \in {Unsupported} \union found({Read(results, best)})
                              /\ Walk(<<keys, results>>, ext) # <<>> =>
                                   VLookup(k, FALSE, 2, ext) \in {Unsupported} \union tied
                              /\ LookupVector(k, ext, ext) \in {Unsupported} \union tied
                              /\ ext > 1 => LookupArray(k, ext) \in {Unsupported} \union tied
    BY DEF ApproximateFindsFloor
  <2>0. k \in Plain
    BY LookupAssumption DEF Plain
  <2>1. Match(k, way, ext, FALSE) \in Allowed(k, way, ext, {Num(Max(Below(k, way, ext)) + 1)})
    BY <2>0, MatchFloor
  <2>2. ASSUME way = 1
        PROVE  /\ HLookup(k, FALSE, 2, ext) \in Allowed(k, 1, ext, {Read(results, Max(Below(k, 1, ext)))})
               /\ Walk(<<keys, results>>, ext) # <<>> => VLookup(k, FALSE, 2, ext) \in Allowed(k, 1, ext, Tied(k, ext))
               /\ ext # Whole => LookupVector(k, ext, ext) \in Allowed(k, 1, ext, Tied(k, ext))
               /\ ext > 1 => LookupArray(k, ext) \in Allowed(k, 1, ext, Tied(k, ext))
    BY <2>0, <2>2, HLookupFloor, VLookupFloor, LookupVectorFloor, LookupArrayFloor
  <2>3. ext = Whole => LookupVector(k, ext, ext) = Unsupported
    BY DEF LookupVector
  <2> QED BY <2>1, <2>2, <2>3 DEF Allowed, Tied
<1> QED BY LinesKept, <1>1, PTL

-----------------------------------------------------------------------------
(* What two walks have in common.                                            *)

\* Positions in order.
Rising(n, rel) ==
  /\ n \in Nat /\ rel \in [1..n -> Nat]
  /\ \A i, j \in 1..n : i < j => rel[i] < rel[j]

\* The least of a set of naturals.
LEMMA LeastIsMin ==
  ASSUME NEW S, S \subseteq Nat, S # {}
  PROVE  Min(S) \in S /\ \A x \in S : Min(S) <= x
<1>1. PICK m \in S : \A x \in S : m <= x
  BY LeastNatural
<1> QED BY <1>1 DEF Min

\* s lists the members of S in order.
Lists(s, c, S) ==
  /\ c \in Nat /\ s \in [1..c -> S]
  /\ \A p \in S : \E i \in 1..c : s[i] = p
  /\ \A i, j \in 1..c : i < j => s[i] < s[j]

\* Two lists of one set in order are the same.
LEMMA OneOrder ==
  ASSUME NEW S, S \subseteq Nat, NEW c, NEW s, Lists(s, c, S), NEW t, Lists(t, c, S)
  PROVE  s = t
<1> USE DEF Lists
<1> DEFINE D == {i \in 1..c : s[i] # t[i]}
<1>1. SUFFICES ASSUME D # {} PROVE FALSE
  OBVIOUS
<1>2. PICK i \in D : \A j \in D : i <= j
  <2>1. D \subseteq Nat
    OBVIOUS
  <2> HIDE DEF D
  <2> QED BY <1>1, <2>1, LeastNatural
<1>3. i \in 1..c /\ s[i] # t[i] /\ \A j \in 1..c : j < i => s[j] = t[j]
  <2>1. ASSUME NEW j \in 1..c, j < i, s[j] # t[j] PROVE FALSE
    <3>1. i <= j
      BY <1>2, <2>1
    <3> QED BY <2>1, <3>1
  <2> QED BY <2>1
<1>4. PICK j \in 1..c : t[j] = s[i]
  BY <1>3
<1>5. PICK k \in 1..c : s[k] = t[i]
  BY <1>3
<1> HIDE DEF D
<1>6. s[i] \in Nat /\ t[i] \in Nat
  BY <1>3
<1>7. j > i
  <2>1. j # i
    BY <1>3, <1>4
  <2>2. ASSUME j < i PROVE FALSE
    <3>1. s[j] = s[i] /\ s[j] < s[i]
      BY <1>3, <1>4, <2>2
    <3> QED BY <1>6, <3>1
  <2> QED BY <1>3, <2>1, <2>2
<1>8. k > i
  <2>1. k # i
    BY <1>3, <1>5
  <2>2. ASSUME k < i PROVE FALSE
    <3>1. t[k] = t[i] /\ t[k] < t[i]
      BY <1>3, <1>5, <2>2
    <3> QED BY <1>6, <3>1
  <2> QED BY <1>3, <2>1, <2>2
<1>9. t[i] < s[i] /\ s[i] < t[i]
  BY <1>3, <1>4, <1>5, <1>7, <1>8
<1> QED BY <1>6, <1>9

\* The positions of a walk that f does not skip.
Marked(n, rel, f) == {p \in {rel[i] : i \in 1..n} : f[p] # Skip}

\* f along the members of T, in order.
Along(parts, T, f) == parts = [j \in 1..Cardinality(T) |-> f[Listed(T)[j]]]

\* What is kept of a walk is f along those positions, in their order.
LEMMA KeptLists ==
  ASSUME NEW n, NEW rel, Rising(n, rel), NEW f,
         NEW parts, parts = [i \in 1..n |-> f[rel[i]]]
  PROVE  /\ Marked(n, rel, f) \subseteq Nat /\ IsFiniteSet(Marked(n, rel, f))
         /\ Along(Kept(parts), Marked(n, rel, f), f)
<1> DEFINE T == Marked(n, rel, f)
           P == {i \in DOMAIN parts : parts[i] # Skip}
           s == Listed(P)
           c == Cardinality(P)
           t == [j \in 1..c |-> rel[s[j]]]
<1>1. P = {i \in 1..n : f[rel[i]] # Skip} /\ P \subseteq 1..n /\ P \subseteq Nat
  OBVIOUS
<1>2. IsFiniteSet(1..n) /\ IsFiniteSet(P)
  <2>1. IsFiniteSet(1..n)
    BY FS_Interval DEF Rising
  <2> HIDE DEF P
  <2> QED BY <1>1, <2>1, FS_Subset
<1>3. T = {rel[i] : i \in P}
  BY <1>1 DEF Marked
<1>4. /\ c \in Nat /\ s \in [1..c -> P]
      /\ \A p \in P : \E i \in 1..c : s[i] = p
      /\ \A i, j \in 1..c : i < j => s[i] < s[j]
  <2> HIDE DEF P
  <2> QED BY <1>1, <1>2, ListedFacts
<1>5. /\ T \subseteq Nat /\ IsFiniteSet(T) /\ Cardinality(T) = c
  <2> DEFINE g == [i \in P |-> rel[i]]
  <2>1. g \in Bijection(P, T)
    <3>1. g \in [P -> T]
      BY <1>3
    <3>2. \A i, j \in P : g[i] = g[j] => i = j
      <4> SUFFICES ASSUME NEW i \in P, NEW j \in P, rel[i] = rel[j], i # j PROVE FALSE
        OBVIOUS
      <4>1. i \in 1..n /\ j \in 1..n /\ (i < j \/ j < i)
        BY <1>1
      <4>2. rel[i] \in Nat /\ (rel[i] < rel[j] \/ rel[j] < rel[i])
        BY <4>1 DEF Rising
      <4> QED BY <4>2
    <3>3. \A p \in T : \E i \in P : g[i] = p
      BY <1>3
    <3> HIDE DEF g, T, P
    <3> QED BY <3>1, <3>2, <3>3 DEF Bijection, Injection, Surjection, IsInjective
  <2>2. T \subseteq Nat
    BY <1>1, <1>3 DEF Rising
  <2>3. ExistsBijection(P, T)
    BY <2>1 DEF ExistsBijection
  <2> HIDE DEF g, T, P
  <2> QED BY <1>2, <2>2, <2>3, FS_Bijection
<1>6. /\ t \in [1..c -> T]
      /\ \A p \in T : \E i \in 1..c : t[i] = p
      /\ \A i, j \in 1..c : i < j => t[i] < t[j]
  <2>1. \A j \in 1..c : s[j] \in P /\ s[j] \in 1..n
    <3> HIDE DEF s, c, P
    <3> QED BY <1>1, <1>4
  <2>2. \A j \in 1..c : t[j] \in T
    BY <1>3, <2>1
  <2>3. ASSUME NEW p \in T PROVE \E i \in 1..c : t[i] = p
    <3>1. PICK k \in P : p = rel[k]
      BY <1>3
    <3>2. PICK i \in 1..c : s[i] = k
      BY <1>4
    <3> QED BY <3>1, <3>2
  <2>4. ASSUME NEW i \in 1..c, NEW j \in 1..c, i < j PROVE t[i] < t[j]
    <3>1. s[i] < s[j] /\ s[i] \in 1..n /\ s[j] \in 1..n
      BY <1>4, <2>1, <2>4
    <3> QED BY <3>1 DEF Rising
  <2> QED BY <2>2, <2>3, <2>4
<1>7. t = Listed(T)
  <2> HIDE DEF t, c, T
  <2>1. Lists(Listed(T), c, T)
    BY <1>5, ListedFacts DEF Lists
  <2>2. Lists(t, c, T)
    BY <1>4, <1>6 DEF Lists
  <2> QED BY <1>5, <2>1, <2>2, OneOrder
<1>8. Kept(parts) = [j \in 1..c |-> f[t[j]]]
  <2>1. Kept(parts) = [j \in DOMAIN s |-> parts[s[j]]]
    BY DEF Kept
  <2>2. DOMAIN s = 1..c /\ \A j \in 1..c : s[j] \in 1..n
    <3> HIDE DEF s, c, P
    <3> QED BY <1>1, <1>4
  <2> HIDE DEF s, c, P
  <2> QED BY <2>1, <2>2
<1> HIDE DEF t, c, T
<1> QED BY <1>5, <1>7, <1>8 DEF T, Along

\* The first of the errors.
ErrsFirst(e, T, f) == e \in T /\ IsErr(f[e]) /\ \A p \in T : IsErr(f[p]) => e <= p

\* Without an error the total is none; else it is the first of them.
LEMMA NoError ==
  ASSUME NEW T, T \subseteq Nat, IsFiniteSet(T), NEW f, NEW parts, Along(parts, T, f),
         \A p \in T : ~IsErr(f[p])
  PROVE  ~IsErr(Total(parts))
<1> DEFINE c == Cardinality(T)
           s == Listed(T)
           errors == {i \in DOMAIN parts : IsErr(parts[i])}
<1>1. c \in Nat /\ s \in [1..c -> T]
  BY ListedFacts
<1>2. DOMAIN parts = 1..c /\ \A i \in 1..c : parts[i] = f[s[i]]
  BY DEF Along
<1> HIDE DEF c, s
<1>3. errors = {}
  BY <1>1, <1>2
<1> QED BY <1>3 DEF Total, Num, IsErr

LEMMA FirstError ==
  ASSUME NEW T, T \subseteq Nat, IsFiniteSet(T), NEW f, NEW parts, Along(parts, T, f),
         NEW e, ErrsFirst(e, T, f)
  PROVE  Total(parts) = f[e]
<1> DEFINE c == Cardinality(T)
           s == Listed(T)
           errors == {i \in DOMAIN parts : IsErr(parts[i])}
<1>1. /\ c \in Nat /\ s \in [1..c -> T]
      /\ \A p \in T : \E i \in 1..c : s[i] = p
      /\ \A i, j \in 1..c : i < j => s[i] < s[j]
  BY ListedFacts
<1>2. DOMAIN parts = 1..c /\ \A i \in 1..c : parts[i] = f[s[i]]
  BY DEF Along
<1> HIDE DEF c, s
<1>3. e \in T /\ IsErr(f[e]) /\ \A p \in T : IsErr(f[p]) => e <= p
  BY DEF ErrsFirst
<1>4. PICK i \in 1..c : s[i] = e
  BY <1>1, <1>3
<1>5. i \in errors /\ errors \subseteq Nat
  <2>1. \A k \in DOMAIN parts : k \in Nat
    BY <1>2
  <2> QED BY <1>2, <1>3, <1>4, <2>1
<1>6. Min(errors) \in errors /\ Min(errors) <= i
  <2> HIDE DEF errors
  <2> QED BY <1>5, LeastIsMin
<1>7. Min(errors) = i
  <2> DEFINE k == Min(errors)
  <2>1. k \in 1..c /\ IsErr(f[s[k]]) /\ s[k] \in T
    BY <1>1, <1>2, <1>6
  <2>2. e <= s[k]
    BY <1>3, <2>1
  <2> HIDE DEF k
  <2>3. k < i => s[k] < e
    BY <1>1, <1>4, <2>1
  <2>4. s[k] \in Nat /\ e \in Nat
    BY <1>3, <2>1
  <2>5. ~(k < i)
    BY <2>2, <2>3, <2>4
  <2> QED BY <1>6, <2>1, <2>5 DEF k
<1>8. Total(parts) = parts[Min(errors)]
  BY <1>5 DEF Total
<1> QED BY <1>2, <1>4, <1>7, <1>8

\* Positions in the line that miss no cell with a value.
Sweeps(n, rel) ==
  /\ Rising(n, rel) /\ rel \in [1..n -> 0..LastCell]
  /\ \A p \in Filled(keys) : \E i \in 1..n : rel[i] = p

\* The walks that the property compares do.
LEMMA WalkSweeps ==
  ASSUME LinesOK, NEW lines, lines = <<keys>> \/ lines = <<keys, results>>,
         NEW ext \in {Whole, LastCell + 1} \union Covering
  PROVE  \E n, rel : WalkAt(Walk(lines, ext), lines, ext, n, rel) /\ Sweeps(n, rel)
<1>0. LastCell \in Nat
  BY LookupAssumption
<1>1. ext \in 0..(LastCell + 1)
  BY <1>0 DEF Whole, Covering
<1>2. PICK n, rel : WalkAt(Walk(lines, ext), lines, ext, n, rel)
  BY <1>1, WalkFacts
<1>3. \A p \in Filled(keys) : p \in DOMAIN keys /\ (ext = Whole \/ p < ext)
  <2>1. \A p \in Filled(keys) : p \in DOMAIN keys /\ p \in 0..(LastCell - 1)
    BY DEF Filled, LinesOK
  <2>2. CASE ext \in Covering
    <3>1. Filled(keys) \subseteq 0..(ext - 1) /\ ext \in Nat
      BY <1>0, <2>2 DEF Covering
    <3> QED BY <2>1, <3>1
  <2> QED BY <1>0, <2>1, <2>2
<1>4. Sweeps(n, rel)
  BY <1>0, <1>2, <1>3 DEF Sweeps, Rising, WalkAt
<1> QED BY <1>2, <1>4

-----------------------------------------------------------------------------
(* The sums.                                                                 *)

\* What is kept of two walks is the same if cells without a value are skipped.
LEMMA KeptAgree ==
  ASSUME NEW n, NEW rel, Sweeps(n, rel), NEW m, NEW at, Sweeps(m, at),
         NEW f, \A p \in 0..LastCell : p \notin Filled(keys) => f[p] = Skip,
         NEW parts, parts = [i \in 1..n |-> f[rel[i]]],
         NEW others, others = [i \in 1..m |-> f[at[i]]]
  PROVE  Kept(parts) = Kept(others)
<1>1. Marked(n, rel, f) = {p \in Filled(keys) : f[p] # Skip}
  BY DEF Marked, Sweeps
<1>2. Marked(m, at, f) = {p \in Filled(keys) : f[p] # Skip}
  BY DEF Marked, Sweeps
<1>3. Marked(n, rel, f) = Marked(m, at, f)
  BY <1>1, <1>2
<1>4. Rising(n, rel) /\ Rising(m, at)
  BY DEF Sweeps
<1>5. Along(Kept(parts), Marked(n, rel, f), f) /\ Along(Kept(others), Marked(m, at, f), f)
  BY <1>4, KeptLists
<1> QED BY <1>3, <1>5 DEF Along

\* Their errors are the same if cells without a value are none.
LEMMA ErrorsAgree ==
  ASSUME NEW n, NEW rel, Sweeps(n, rel), NEW m, NEW at, Sweeps(m, at),
         NEW f, \A p \in 0..LastCell : p \notin Filled(keys) => ~IsErr(f[p]),
         NEW parts, parts = [i \in 1..n |-> f[rel[i]]],
         NEW others, others = [i \in 1..m |-> f[at[i]]],
         IsErr(Total(Kept(parts)))
  PROVE  Total(Kept(parts)) = Total(Kept(others))
<1> DEFINE T == Marked(n, rel, f)
           U == Marked(m, at, f)
           E == {p \in Filled(keys) : IsErr(f[p])}
<1>0. Rising(n, rel) /\ Rising(m, at)
  BY DEF Sweeps
<1>1. T \subseteq Nat /\ IsFiniteSet(T) /\ Along(Kept(parts), T, f)
  BY <1>0, KeptLists
<1>2. U \subseteq Nat /\ IsFiniteSet(U) /\ Along(Kept(others), U, f)
  BY <1>0, KeptLists
<1>3. \A p \in 0..LastCell : IsErr(f[p]) => f[p] # Skip
  BY DEF IsErr, Skip
<1>4. {p \in T : IsErr(f[p])} = E /\ {p \in U : IsErr(f[p])} = E
  <2>1. \A p \in T \union U : p \in 0..LastCell
    BY DEF Marked, Sweeps
  <2>2. \A p \in E : p \in T /\ p \in U
    <3> SUFFICES ASSUME NEW p \in E PROVE p \in T /\ p \in U
      OBVIOUS
    <3>1. p \in Filled(keys) /\ f[p] # Skip
      BY DEF IsErr, Skip
    <3>2. (\E i \in 1..n : rel[i] = p) /\ (\E i \in 1..m : at[i] = p)
      BY <3>1 DEF Sweeps
    <3> QED BY <3>1, <3>2 DEF Marked
  <2> HIDE DEF T, U
  <2> QED BY <2>1, <2>2
<1> HIDE DEF T, U
<1>5. E # {} /\ E \subseteq Nat
  <2>1. E = {} => \A p \in T : ~IsErr(f[p])
    BY <1>4
  <2>2. E # {}
    BY <1>1, <2>1, NoError
  <2> QED BY <1>1, <1>4, <2>2
<1>6. PICK e \in E : \A p \in E : e <= p
  <2> HIDE DEF E
  <2> QED BY <1>5, LeastNatural
<1>7. Total(Kept(parts)) = f[e]
  <2>1. ErrsFirst(e, T, f)
    BY <1>4, <1>6 DEF ErrsFirst
  <2> QED BY <1>1, <2>1, FirstError
<1>8. Total(Kept(others)) = f[e]
  <2>1. ErrsFirst(e, U, f)
    BY <1>4, <1>6 DEF ErrsFirst
  <2> QED BY <1>2, <2>1, FirstError
<1> QED BY <1>7, <1>8

-----------------------------------------------------------------------------
(* The exact searches.                                                       *)

\* The first position whose verdict in V is not that the cell differs.
Scan(n, rel, V) ==
  LET stops == {i \in 1..n : V[rel[i]] # <<"differs">>}
  IN IF stops = {} THEN Nothing ELSE StopsAt(Min(stops), V[rel[Min(stops)]])

\* Cells without a value differ, or stop the scan with a refusal.
Verdict(V) ==
  \A p \in 0..LastCell : p \notin Filled(keys) => V[p] \in {<<"differs">>, Unsupported}

\* A scan is refused or stops at the first of the cells that are to stop it.
LEMMA ScanFinds ==
  ASSUME NEW n, NEW rel, Sweeps(n, rel), NEW V, Verdict(V)
  PROVE  LET S == {p \in Filled(keys) : V[p] # <<"differs">>}
         IN \/ Scan(n, rel, V) = Unsupported
            \/ S = {} /\ Scan(n, rel, V) = Nothing
            \/ \E i \in 1..n : /\ rel[i] \in S /\ \A p \in S : rel[i] <= p
                              /\ Scan(n, rel, V) = StopsAt(i, V[rel[i]])
<1> DEFINE S == {p \in Filled(keys) : V[p] # <<"differs">>}
           stops == {i \in 1..n : V[rel[i]] # <<"differs">>}
<1>1. \A p \in S : \E i \in stops : rel[i] = p
  BY DEF Sweeps
<1>2. CASE stops = {}
  BY <1>1, <1>2 DEF Scan
<1>3. CASE stops # {}
  <2> DEFINE k == Min(stops)
  <2>1. k \in stops /\ \A i \in stops : k <= i
    <3>1. stops \subseteq Nat
      BY DEF Sweeps, Rising
    <3> HIDE DEF stops
    <3> QED BY <1>3, <3>1, LeastIsMin
  <2>2. Scan(n, rel, V) = StopsAt(k, V[rel[k]])
    BY <1>3 DEF Scan
  <2> HIDE DEF k
  <2>3. k \in 1..n /\ rel[k] \in 0..LastCell /\ V[rel[k]] # <<"differs">>
    BY <2>1 DEF Sweeps
  <2>4. CASE rel[k] \notin Filled(keys)
    <3>1. V[rel[k]] = Unsupported
      BY <2>3, <2>4 DEF Verdict
    <3> QED BY <2>2, <3>1 DEF StopsAt, Unsupported, Err, IsErr
  <2>5. CASE rel[k] \in Filled(keys)
    <3>1. rel[k] \in S
      BY <2>3, <2>5
    <3>2. ASSUME NEW p \in S PROVE rel[k] <= p
      <4>1. PICK i \in stops : rel[i] = p
        BY <1>1
      <4>2. k <= i /\ i \in 1..n
        BY <2>1
      <4>3. rel[k] \in Nat /\ rel[i] \in Nat /\ (k < i => rel[k] < rel[i])
        BY <2>3, <4>2 DEF Sweeps, Rising
      <4>4. k = i \/ k < i
        BY <2>3, <4>2 DEF Sweeps, Rising
      <4> QED BY <4>1, <4>3, <4>4
    <3> QED BY <2>2, <2>3, <3>1, <3>2
  <2> QED BY <2>4, <2>5
<1> QED BY <1>2, <1>3

\* x answers a search that has found that: with an error, #N/A, or what G has
\* for the position, unless that is refused.
Given(x, found, n, rel, G) ==
  /\ IsErr(found) => x = found
  /\ found = Nothing => x = NotFound
  /\ \A i \in 1..n : found = Row(i) => x \in {Unsupported, G[rel[i]]}

\* So the scans of two walks agree.
LEMMA ScansAgree ==
  ASSUME NEW n, NEW rel, Sweeps(n, rel), NEW m, NEW at, Sweeps(m, at), NEW V, Verdict(V), NEW G,
         NEW x, Given(x, Scan(n, rel, V), n, rel, G),
         NEW y, Given(y, Scan(m, at, V), m, at, G)
  PROVE  Agree(x, y)
<1> DEFINE S == {p \in Filled(keys) : V[p] # <<"differs">>}
           Least(p) == p \in S /\ \A q \in S : p <= q
<1>1. \/ x = Unsupported
      \/ S = {} /\ x = NotFound
      \/ \E p \in S : Least(p) /\ x \in {Unsupported, IF IsErr(V[p]) THEN V[p] ELSE G[p]}
  <2>1. IsErr(Unsupported)
    BY DEF IsErr, Unsupported, Err
  <2>2. ASSUME NEW i \in 1..n, Least(rel[i]), Scan(n, rel, V) = StopsAt(i, V[rel[i]])
        PROVE  x \in {Unsupported, IF IsErr(V[rel[i]]) THEN V[rel[i]] ELSE G[rel[i]]}
    BY <2>2 DEF StopsAt, Given
  <2> QED BY <2>1, <2>2, ScanFinds DEF Given
<1>2. \/ y = Unsupported
      \/ S = {} /\ y = NotFound
      \/ \E p \in S : Least(p) /\ y \in {Unsupported, IF IsErr(V[p]) THEN V[p] ELSE G[p]}
  <2>1. IsErr(Unsupported)
    BY DEF IsErr, Unsupported, Err
  <2>2. ASSUME NEW i \in 1..m, Least(at[i]), Scan(m, at, V) = StopsAt(i, V[at[i]])
        PROVE  y \in {Unsupported, IF IsErr(V[at[i]]) THEN V[at[i]] ELSE G[at[i]]}
    BY <2>2 DEF StopsAt, Given
  <2> QED BY <2>1, <2>2, ScanFinds DEF Given
<1>3. \A p, q : Least(p) /\ Least(q) => p = q
  <2>1. S \subseteq Nat
    <3>1. \A p \in S : \E i \in 1..n : rel[i] = p
      BY DEF Sweeps
    <3>2. \A i \in 1..n : rel[i] \in Nat
      BY DEF Sweeps, Rising
    <3> QED BY <3>1, <3>2
  <2> HIDE DEF S
  <2>2. SUFFICES ASSUME NEW p, NEW q, Least(p), Least(q) PROVE p = q
    OBVIOUS
  <2>3. p \in Nat /\ q \in Nat /\ p <= q /\ q <= p
    BY <2>1, <2>2
  <2> QED BY <2>3
<1> HIDE DEF S
<1> QED BY <1>1, <1>2, <1>3 DEF Agree

\* The searched cells of a walk.
LEMMA FirstsAre ==
  ASSUME NEW lines, lines = <<keys>> \/ lines = <<keys, results>>, NEW walk, NEW ext, NEW n, NEW rel,
         WalkAt(walk, lines, ext, n, rel)
  PROVE  Firsts(walk) = [i \in 1..n |-> Read(keys, rel[i])]
<1>1. walk = [i \in 1..n |-> [rel |-> rel[i], cells |-> [j \in DOMAIN lines |-> Read(lines[j], rel[i])]]]
  BY DEF WalkAt
<1>2. 1 \in DOMAIN lines /\ lines[1] = keys
  OBVIOUS
<1>3. DOMAIN walk = 1..n /\ \A i \in 1..n : walk[i].cells[1] = Read(keys, rel[i])
  BY <1>1, <1>2
<1> HIDE DEF WalkAt
<1> QED BY <1>3 DEF Firsts

\* What an exact search makes of each position of the line.
VerdictsOf(key) ==
  [p \in 0..LastCell |->
     IF ~HasWildcard(key) THEN ExactEq(Read(keys, p), key)
     ELSE IF Read(keys, p)[1] = "text" /\ Read(keys, p)[2] \in Glob(key[2]) THEN <<"match">> ELSE <<"differs">>]

\* A cell without a value reads as a blank.
LEMMA GapsAreBlank ==
  ASSUME LinesOK, NEW p, p \notin Filled(keys)
  PROVE  Read(keys, p) = Blank
<1>1. p \in DOMAIN keys => keys[p] \in Value /\ keys[p][1] = "blank"
  BY DEF Filled, IsBlank, LinesOK
<1>2. \A v \in Value : v[1] = "blank" => v = Blank
  BY DEF Value, Blank
<1> QED BY <1>1, <1>2 DEF Read

\* A blank differs from a key, or is refused beside it.
LEMMA BlankVerdict ==
  ASSUME LinesOK, NEW key \in Value, ~IsErr(key)
  PROVE  Verdict(VerdictsOf(key))
<1>1. ExactEq(Blank, key) \in {<<"differs">>, Unsupported}
  <2>1. CASE key = Blank
    BY <2>1 DEF ExactEq, IsBlank, Blank
  <2>2. CASE IsNonAscii(key)
    <3>1. Compare(Blank, key) = Unsupported
      BY <2>2 DEF Compare, Blank, IsErr, IsNonAscii
    <3>2. Compare(Blank, key)[1] = "err"
      BY <3>1 DEF Unsupported, Err
    <3> QED BY <2>2, <3>1, <3>2 DEF ExactEq, IsErr, IsNonAscii, IsBlank
  <2>3. CASE key # Blank /\ ~IsNonAscii(key)
    <3>1. key \in Plain
      BY <2>3 DEF Plain, Value, IsBlank, Blank, IsErr
    <3>0. \/ \E i \in Int : key = <<"num", i>>
          \/ \E t \in Nat : key = <<"text", t>>
          \/ \E b \in BOOLEAN : key = <<"bool", b>>
      BY <3>1 DEF Plain, Value, IsErr, IsBlank
    <3>2. ASSUME NEW z, z = MorphFor(key),
                 key # z
          PROVE  ExactEq(Blank, key) \in {<<"differs">>, Unsupported}
      <4>1. Rank(z) = Rank(key) /\ Weight(z) # Weight(key) /\ Weight(z) \in Int /\ Weight(key) \in Int
        <5>1. CASE \E i \in Int : key = <<"num", i>>
          BY <3>2, <5>1 DEF MorphFor, Rank, Weight, Num
        <5>2. CASE \E t \in Nat : key = <<"text", t>>
          BY <3>2, <5>2 DEF MorphFor, Rank, Weight, Text
        <5>3. CASE \E b \in BOOLEAN : key = <<"bool", b>>
          <6>1. PICK b \in BOOLEAN : key = <<"bool", b>>
            BY <5>3
          <6>2. key[1] = "bool" /\ key[2] = b
            BY <6>1
          <6>3. z = <<"bool", FALSE>>
            BY <3>2, <6>2 DEF MorphFor, Truth
          <6>4. b
            BY <3>2, <6>1, <6>3
          <6>5. z[1] = "bool" /\ ~z[2]
            BY <6>3
          <6>6. Weight(key) = 1 /\ Weight(z) = 0
            BY <6>2, <6>4, <6>5 DEF Weight
          <6>7. Rank(key) = Rank(z)
            BY <6>2, <6>5 DEF Rank
          <6> QED BY <6>6, <6>7
        <5> QED BY <3>0, <5>1, <5>2, <5>3
      <4>2. Compare(Blank, key) = <<"ord", Sign(Weight(z) - Weight(key))>>
        BY <2>3, <3>1, <3>2, <4>1, PlainFacts DEF Compare, Morphed, IsBlank, Blank, IsErr, IsNonAscii, Plain
      <4>3. Compare(Blank, key)[1] # "err" /\ Compare(Blank, key)[2] # 0
        BY <4>1, <4>2 DEF Sign
      <4> QED BY <4>3 DEF ExactEq, IsErr
    <3>3. key = MorphFor(key) => ExactEq(Blank, key) = Unsupported
      <4>1. CASE \E i \in Int : key = <<"num", i>>
        BY <4>1 DEF ExactEq, MorphFor, IsBlank, Blank, Num
      <4>2. CASE \E t \in Nat : key = <<"text", t>>
        BY <4>2 DEF ExactEq, MorphFor, IsBlank, Blank, Text
      <4>3. CASE key = MorphFor(key) /\ \E b \in BOOLEAN : key = <<"bool", b>>
        <5>1. key[1] = "bool"
          BY <4>3
        <5>2. key = <<"bool", FALSE>>
          BY <4>3, <5>1 DEF MorphFor, Truth
        <5>3. ~key[2]
          BY <5>2
        <5> QED BY <5>1, <5>3 DEF ExactEq, IsBlank, Blank
      <4> QED BY <3>0, <4>1, <4>2, <4>3
    <3> QED BY <3>2, <3>3
  <2> QED BY <2>1, <2>2, <2>3
<1>2. Blank[1] # "text"
  BY DEF Blank
<1> QED BY <1>1, <1>2, GapsAreBlank DEF Verdict, VerdictsOf

\* The searches of a walk are scans of it.
LEMMA ScansAre ==
  ASSUME NEW n, NEW rel, Sweeps(n, rel), NEW key,
         NEW seq, seq = [i \in 1..n |-> Read(keys, rel[i])]
  PROVE  /\ ExactOrGlob(seq, key) = Scan(n, rel, VerdictsOf(key))
         /\ ~HasWildcard(key) => ExactSearch(seq, key) = Scan(n, rel, VerdictsOf(key))
<1> DEFINE V == VerdictsOf(key)
           stops == {i \in 1..n : V[rel[i]] # <<"differs">>}
<1>1. DOMAIN seq = 1..n /\ \A i \in 1..n : seq[i] = Read(keys, rel[i]) /\ rel[i] \in 0..LastCell
  BY DEF Sweeps
<1>2. stops # {} => Min(stops) \in stops
  <2>1. stops \subseteq Nat
    BY DEF Sweeps, Rising
  <2> HIDE DEF stops
  <2> QED BY <2>1, LeastIsMin
<1>3. ASSUME ~HasWildcard(key) PROVE ExactScan(seq, key) = Scan(n, rel, V)
  <2>1. \A i \in 1..n : V[rel[i]] = ExactEq(seq[i], key)
    BY <1>1, <1>3 DEF VerdictsOf
  <2>2. {i \in DOMAIN seq : ExactEq(seq[i], key) # <<"differs">>} = stops
    BY <1>1, <2>1
  <2> HIDE DEF V
  <2> QED BY <1>2, <2>1, <2>2 DEF ExactScan, Scan
<1>4. ASSUME HasWildcard(key) PROVE ExactOrGlob(seq, key) = Scan(n, rel, V)
  <2>1. \A i \in 1..n : V[rel[i]] = IF seq[i][1] = "text" /\ seq[i][2] \in Glob(key[2])
                                    THEN <<"match">> ELSE <<"differs">>
    BY <1>1, <1>4 DEF VerdictsOf
  <2>2. {i \in DOMAIN seq : seq[i][1] = "text" /\ seq[i][2] \in Glob(key[2])} = stops
    BY <1>1, <2>1
  <2>3. stops # {} => V[rel[Min(stops)]] = <<"match">>
    BY <1>2, <2>1
  <2>4. Scan(n, rel, V) = IF stops = {} THEN Nothing ELSE Row(Min(stops))
    <3>1. ~IsErr(<<"match">>)
      BY DEF IsErr
    <3>2. Scan(n, rel, V) = IF stops = {} THEN Nothing ELSE StopsAt(Min(stops), V[rel[Min(stops)]])
      BY DEF Scan
    <3> HIDE DEF V, stops
    <3> QED BY <2>3, <3>1, <3>2 DEF StopsAt
  <2> HIDE DEF V
  <2> QED BY <1>4, <2>2, <2>4 DEF ExactOrGlob
<1> QED BY <1>3, <1>4 DEF ExactOrGlob, ExactSearch

\* The outcomes of a search are told apart by what is first in them.
LEMMA Outcomes ==
  /\ \A v : IsErr(v) => v[1] # "row" /\ v # Nothing
  /\ Nothing[1] # "row"
  /\ \A i : Row(i)[1] = "row" /\ Row(i)[2] = i
BY DEF IsErr, Nothing, Row

\* A function that answers what its search has found.
LEMMA AnswersGiven ==
  ASSUME NEW x, NEW found, NEW n, NEW rel, NEW G,
         found[1] # "row" => x = IF found = Nothing THEN NotFound ELSE found,
         \A i \in 1..n : found = Row(i) => x \in {Unsupported, G[rel[i]]}
  PROVE  Given(x, found, n, rel, G)
BY Outcomes DEF Given

LEMMA MatchGiven ==
  ASSUME LinesOK, NEW key, ~IsErr(key), ~HasWildcard(key), NEW onRow \in BOOLEAN,
         NEW ext \in {Whole} \union Covering,
         ~(ext = Whole /\ IsBlank(key) /\ (onRow \/ Walk(<<keys>>, ext) = <<>>)),
         NEW n, NEW rel, WalkAt(Walk(<<keys>>, ext), <<keys>>, ext, n, rel), Sweeps(n, rel)
  PROVE  Given(Match(key, 0, ext, onRow), Scan(n, rel, VerdictsOf(key)), n, rel, [p \in 0..LastCell |-> Num(p + 1)])
<1> DEFINE walk == Walk(<<keys>>, ext)
           x == Match(key, 0, ext, onRow)
           found == Scan(n, rel, VerdictsOf(key))
           G == [p \in 0..LastCell |-> Num(p + 1)]
<1>1. found = ExactSearch(Firsts(walk), key)
  BY FirstsAre, ScansAre
<1>2. walk = <<>> <=> n = 0
  BY SliceFacts
<1>3. \A i \in 1..n : walk[i].rel = rel[i] /\ rel[i] \in 0..LastCell
  BY SliceFacts
<1>4. CASE walk = <<>>
  <2>1. x = NotFound
    BY <1>4 DEF Match
  <2>2. found = Nothing
    BY <1>2, <1>4 DEF Scan
  <2>3. \A i \in 1..n : found # Row(i)
    BY <2>2, Outcomes
  <2> HIDE DEF x, found, G
  <2>4. Given(x, found, n, rel, G)
    BY <2>1, <2>2, <2>3, Outcomes, AnswersGiven
  <2> QED BY <2>4 DEF x, found, G
<1>5. CASE walk # <<>>
  <2>1. x = CASE found[1] = "row" -> (IF IsBlank(key) /\ walk[found[2]].rel # found[2] - 1 THEN Unsupported
                                      ELSE Num(walk[found[2]].rel + 1))
              [] found = Nothing -> NotFound [] OTHER -> found
    <3> HIDE DEF found
    <3> QED BY <1>1, <1>5 DEF Match, MatchSearch, Answer
  <2> HIDE DEF x, found, walk
  <2>2. ASSUME NEW i \in 1..n, found = Row(i) PROVE x \in {Unsupported, G[rel[i]]}
    BY <1>3, <2>1, <2>2, Outcomes
  <2> HIDE DEF G
  <2>3. Given(x, found, n, rel, G)
    BY <2>1, <2>2, Outcomes, AnswersGiven
  <2> QED BY <2>3 DEF x, found, G, walk
<1> QED BY <1>4, <1>5

LEMMA VLookupGiven ==
  ASSUME LinesOK, NEW key, ~IsErr(key), NEW ext \in {Whole} \union Covering,
         Walk(<<keys, results>>, ext) # <<>>,
         NEW n, NEW rel, WalkAt(Walk(<<keys, results>>, ext), <<keys, results>>, ext, n, rel), Sweeps(n, rel)
  PROVE  Given(VLookup(key, TRUE, 2, ext), Scan(n, rel, VerdictsOf(key)), n, rel,
               [p \in 0..LastCell |-> Read(results, p)])
<1> DEFINE lines == <<keys, results>>
           walk == Walk(lines, ext)
           x == VLookup(key, TRUE, 2, ext)
           found == Scan(n, rel, VerdictsOf(key))
           G == [p \in 0..LastCell |-> Read(results, p)]
<1>1. found = ExactOrGlob(Firsts(walk), key)
  BY FirstsAre, ScansAre
<1>2. \A i \in 1..n : walk[i].cells[2] = G[rel[i]]
  <2>1. 2 \in DOMAIN lines /\ lines[2] = results
    OBVIOUS
  <2> HIDE DEF walk, lines
  <2> QED BY <2>1, SliceFacts DEF walk, lines
<1>3. \/ /\ found[1] = "row"
         /\ x = walk[found[2]].cells[2] \/ x = Unsupported
      \/ found[1] # "row" /\ found = Nothing /\ x = NotFound
      \/ found[1] # "row" /\ found # Nothing /\ x = found
  <2> HIDE DEF found
  <2> QED BY <1>1, Outcomes DEF VLookup, Answer
<1> HIDE DEF x, found, walk
<1>4. ASSUME NEW i \in 1..n, found = Row(i) PROVE x \in {Unsupported, G[rel[i]]}
  BY <1>2, <1>3, <1>4, Outcomes
<1> HIDE DEF G
<1>5. Given(x, found, n, rel, G)
  BY <1>3, <1>4, Outcomes, AnswersGiven
<1> QED BY <1>5 DEF x, found, G, walk

LEMMA HLookupGiven ==
  ASSUME LinesOK, NEW key, ~IsErr(key), ~HasWildcard(key), NEW ext \in {Whole} \union Covering,
         NEW e, e = IF ext = Whole THEN LastCell + 1 ELSE ext,
         NEW n, NEW rel, WalkAt(Walk(<<keys, results>>, e), <<keys, results>>, e, n, rel), Sweeps(n, rel)
  PROVE  Given(HLookup(key, TRUE, 2, ext), Scan(n, rel, VerdictsOf(key)), n, rel,
               [p \in 0..LastCell |-> Read(results, p)])
<1> DEFINE lines == <<keys, results>>
           walk == Walk(lines, e)
           x == HLookup(key, TRUE, 2, ext)
           found == Scan(n, rel, VerdictsOf(key))
           G == [p \in 0..LastCell |-> Read(results, p)]
<1>1. found = ExactSearch(Firsts(walk), key)
  BY FirstsAre, ScansAre
<1>2. \A i \in 1..n : walk[i].cells[2] = G[rel[i]]
  <2>1. 2 \in DOMAIN lines /\ lines[2] = results
    OBVIOUS
  <2> HIDE DEF walk, lines
  <2> QED BY <2>1, SliceFacts DEF walk, lines
<1>3. x = CASE found[1] = "row" -> walk[found[2]].cells[2]
            [] found = Nothing -> NotFound [] OTHER -> found
  <2> HIDE DEF found
  <2> QED BY <1>1 DEF HLookup, Answer
<1> HIDE DEF x, found, walk
<1>4. ASSUME NEW i \in 1..n, found = Row(i) PROVE x \in {Unsupported, G[rel[i]]}
  BY <1>2, <1>3, <1>4, Outcomes
<1> HIDE DEF G
<1>5. Given(x, found, n, rel, G)
  BY <1>3, <1>4, Outcomes, AnswersGiven
<1> QED BY <1>5 DEF x, found, G, walk

\* Every exact search is refused or agrees.
LEMMA SearchesAgree ==
  ASSUME LinesOK, NEW n \in Covering, NEW key \in Value, NEW onRow \in BOOLEAN
  PROVE  /\ Agree(Match(key, 0, Whole, onRow), Match(key, 0, n, onRow))
         /\ keys # <<>> => Agree(VLookup(key, TRUE, 2, Whole), VLookup(key, TRUE, 2, n))
         /\ Agree(HLookup(key, TRUE, 2, Whole), HLookup(key, TRUE, 2, n))
<1>0. /\ LastCell \in Nat /\ n \in 1..LastCell /\ n # Whole
      /\ Whole # LastCell + 1
  BY LookupAssumption DEF Covering, Whole
<1>1. CASE IsErr(key)
  BY <1>1 DEF Match, VLookup, HLookup, Agree
<1>2. CASE ~IsErr(key)
  <2>0. Verdict(VerdictsOf(key))
    BY <1>2, BlankVerdict
  <2>1. Agree(Match(key, 0, Whole, onRow), Match(key, 0, n, onRow))
    <3>1. PICK a, rel : WalkAt(Walk(<<keys>>, Whole), <<keys>>, Whole, a, rel) /\ Sweeps(a, rel)
      BY WalkSweeps
    <3>2. PICK b, at : WalkAt(Walk(<<keys>>, n), <<keys>>, n, b, at) /\ Sweeps(b, at)
      BY WalkSweeps
    <3>3. CASE Whole = Whole /\ IsBlank(key) /\ (onRow \/ Walk(<<keys>>, Whole) = <<>>)
      BY <1>2, <3>3 DEF Match, Agree
    <3>4. CASE HasWildcard(key)
      <4>1. Walk(<<keys>>, n) # <<>>
        <5>1. b = n
          BY <1>0, <3>2 DEF WalkAt
        <5> QED BY <1>0, <3>2, <5>1, SliceFacts
      <4>2. Match(key, 0, n, onRow) = Unsupported
        BY <1>0, <1>2, <3>4, <4>1, Verdicts DEF Match, MatchSearch, ExactSearch, Answer
      <4> QED BY <4>2 DEF Agree
    <3>5. CASE ~HasWildcard(key) /\ ~(Whole = Whole /\ IsBlank(key) /\ (onRow \/ Walk(<<keys>>, Whole) = <<>>))
      <4>1. Given(Match(key, 0, Whole, onRow), Scan(a, rel, VerdictsOf(key)), a, rel,
                  [p \in 0..LastCell |-> Num(p + 1)])
        BY <1>2, <3>1, <3>5, MatchGiven
      <4>2. Given(Match(key, 0, n, onRow), Scan(b, at, VerdictsOf(key)), b, at, [p \in 0..LastCell |-> Num(p + 1)])
        BY <1>0, <1>2, <3>2, <3>5, MatchGiven
      <4> QED BY <2>0, <3>1, <3>2, <4>1, <4>2, ScansAgree
    <3> QED BY <3>3, <3>4, <3>5
  <2>2. ASSUME keys # <<>> PROVE Agree(VLookup(key, TRUE, 2, Whole), VLookup(key, TRUE, 2, n))
    <3>1. PICK a, rel : WalkAt(Walk(<<keys, results>>, Whole), <<keys, results>>, Whole, a, rel) /\ Sweeps(a, rel)
      BY WalkSweeps
    <3>2. PICK b, at : WalkAt(Walk(<<keys, results>>, n), <<keys, results>>, n, b, at) /\ Sweeps(b, at)
      BY WalkSweeps
    <3>3. Walk(<<keys, results>>, Whole) # <<>>
      <4>0. keys \in [DOMAIN keys -> Value]
        BY DEF LinesOK
      <4>1. DOMAIN keys # {}
        <5>1. DOMAIN keys = {} => keys = <<>>
          BY <4>0
        <5> QED BY <2>2, <5>1
      <4>2. a # 0
        BY <3>1, <4>1 DEF WalkAt
      <4> QED BY <3>1, <4>2, SliceFacts
    <3>4. Walk(<<keys, results>>, n) # <<>>
      <4>1. b = n
        BY <1>0, <3>2 DEF WalkAt
      <4> QED BY <1>0, <3>2, <4>1, SliceFacts
    <3>5. Given(VLookup(key, TRUE, 2, Whole), Scan(a, rel, VerdictsOf(key)), a, rel,
                [p \in 0..LastCell |-> Read(results, p)])
      BY <1>2, <3>1, <3>3, VLookupGiven
    <3>6. Given(VLookup(key, TRUE, 2, n), Scan(b, at, VerdictsOf(key)), b, at, [p \in 0..LastCell |-> Read(results, p)])
      BY <1>2, <3>2, <3>4, VLookupGiven
    <3> QED BY <2>0, <3>1, <3>2, <3>5, <3>6, ScansAgree
  <2>3. Agree(HLookup(key, TRUE, 2, Whole), HLookup(key, TRUE, 2, n))
    <3>1. PICK a, rel :
          WalkAt(Walk(<<keys, results>>, LastCell + 1), <<keys, results>>, LastCell + 1, a, rel) /\ Sweeps(a, rel)
      BY WalkSweeps
    <3>2. PICK b, at : WalkAt(Walk(<<keys, results>>, n), <<keys, results>>, n, b, at) /\ Sweeps(b, at)
      BY WalkSweeps
    <3>3. CASE HasWildcard(key)
      <4>1. HLookup(key, TRUE, 2, n) = Unsupported
        BY <1>2, <3>3, Verdicts DEF HLookup, ExactSearch, Answer
      <4> QED BY <4>1 DEF Agree
    <3>4. CASE ~HasWildcard(key)
      <4>1. Given(HLookup(key, TRUE, 2, Whole), Scan(a, rel, VerdictsOf(key)), a, rel,
                  [p \in 0..LastCell |-> Read(results, p)])
        BY <1>2, <3>1, <3>4, HLookupGiven
      <4>2. Given(HLookup(key, TRUE, 2, n), Scan(b, at, VerdictsOf(key)), b, at,
                  [p \in 0..LastCell |-> Read(results, p)])
        BY <1>0, <1>2, <3>2, <3>4, HLookupGiven
      <4> QED BY <2>0, <3>1, <3>2, <4>1, <4>2, ScansAgree
    <3> QED BY <3>3, <3>4
  <2> QED BY <2>1, <2>2, <2>3
<1> QED BY <1>1, <1>2

-----------------------------------------------------------------------------
(* The sums of two walks.                                                    *)

\* What a position adds: a refusal, what G has for it, or nothing.
PartAt(m, G) ==
  [p \in 0..LastCell |->
     IF Refuses(m, Read(keys, p)) THEN Refusal(Read(keys, p))
     ELSE IF Matches(m, Read(keys, p)) THEN G[p] ELSE Skip]

Ones == [p \in 0..LastCell |-> Num(1)]
OwnCells == [p \in 0..LastCell |-> Streamed(Read(keys, p))]
Summands == [p \in 0..LastCell |-> Streamed(Read(results, p))]

\* A cell without a value is not refused.
LEMMA GapParts ==
  ASSUME LinesOK, NEW m, NEW G, NEW p \in 0..LastCell, p \notin Filled(keys)
  PROVE  PartAt(m, G)[p] = IF Matches(m, Blank) THEN G[p] ELSE Skip
<1>1. Read(keys, p) = Blank
  BY GapsAreBlank
<1>2. ~Refuses(m, Blank)
  BY DEF Refuses, IsErr, IsNonAscii, Blank
<1> QED BY <1>1, <1>2 DEF PartAt

\* What COUNTIF, SUMIF and AVERAGEIF add up.
Counts(m, walk) == Gather(m, walk, LAMBDA slice : Num(1))
Selves(m, walk) == Gather(m, walk, LAMBDA slice : Streamed(slice.cells[1]))
Sums(m, walk) == Gather(m, walk, LAMBDA slice : Streamed(Read(results, slice.rel)))

\* What is kept of the parts of a walk.
KeptOf(m, G, n, rel) == Kept([i \in 1..n |-> PartAt(m, G)[rel[i]]])

LEMMA Gathered ==
  ASSUME NEW walk, NEW ext, NEW n, NEW rel, WalkAt(walk, <<keys>>, ext, n, rel), NEW m
  PROVE  /\ Counts(m, walk) = KeptOf(m, Ones, n, rel)
         /\ Selves(m, walk) = KeptOf(m, OwnCells, n, rel)
         /\ Sums(m, walk) = KeptOf(m, Summands, n, rel)
<1>1. \A i \in 1..n : /\ rel[i] \in 0..LastCell /\ walk[i].rel = rel[i]
                     /\ walk[i].cells[1] = Read(keys, rel[i])
  <2> DEFINE lines == <<keys>>
  <2>1. 1 \in DOMAIN lines /\ lines[1] = keys
    OBVIOUS
  <2> HIDE DEF lines
  <2> QED BY <2>1, SliceFacts DEF lines
<1>2. DOMAIN walk = 1..n
  BY DEF WalkAt
<1> QED BY <1>1, <1>2 DEF Counts, Selves, Sums, KeptOf, Gather, PartAt, Ones, OwnCells, Summands

LEMMA GathersAgree ==
  ASSUME LinesOK, NEW n \in Covering, NEW m,
         NEW whole, whole = Walk(<<keys>>, Whole), NEW own, own = Walk(<<keys>>, n)
  PROVE  /\ Selves(m, whole) = Selves(m, own)
         /\ ~Matches(m, Blank) => Counts(m, whole) = Counts(m, own) /\ Sums(m, whole) = Sums(m, own)
         /\ IsErr(Total(Counts(m, whole))) => Total(Counts(m, whole)) = Total(Counts(m, own))
<1>1. PICK a, rel : WalkAt(whole, <<keys>>, Whole, a, rel) /\ Sweeps(a, rel)
  BY WalkSweeps
<1>2. PICK b, at : WalkAt(own, <<keys>>, n, b, at) /\ Sweeps(b, at)
  BY WalkSweeps
<1>3. ASSUME NEW G, ~Matches(m, Blank) \/ \A p \in 0..LastCell : p \notin Filled(keys) => G[p] = Skip
      PROVE  KeptOf(m, G, a, rel) = KeptOf(m, G, b, at)
  <2>1. \A p \in 0..LastCell : p \notin Filled(keys) => PartAt(m, G)[p] = Skip
    BY <1>3, GapParts
  <2> DEFINE f == PartAt(m, G)
  <2> HIDE DEF f
  <2>2. Kept([i \in 1..a |-> f[rel[i]]]) = Kept([i \in 1..b |-> f[at[i]]])
    BY <1>1, <1>2, <2>1, KeptAgree DEF f
  <2> QED BY <2>2 DEF f, KeptOf
<1>4. \A p \in 0..LastCell : p \notin Filled(keys) => OwnCells[p] = Skip
  <2>1. Streamed(Blank) = Skip
    BY DEF Streamed, Blank
  <2> QED BY <2>1, GapsAreBlank DEF OwnCells
<1>5. Selves(m, whole) = Selves(m, own)
  BY <1>1, <1>2, <1>3, <1>4, Gathered
<1>6. ASSUME ~Matches(m, Blank) PROVE Counts(m, whole) = Counts(m, own) /\ Sums(m, whole) = Sums(m, own)
  BY <1>1, <1>2, <1>3, <1>6, Gathered
<1>7. ASSUME IsErr(Total(Counts(m, whole))) PROVE Total(Counts(m, whole)) = Total(Counts(m, own))
  <2> DEFINE f == PartAt(m, Ones)
  <2>1. \A p \in 0..LastCell : p \notin Filled(keys) => ~IsErr(f[p])
    <3>1. \A p \in 0..LastCell : Ones[p] = Num(1)
      BY DEF Ones
    <3>2. ~IsErr(Num(1)) /\ ~IsErr(Skip)
      BY DEF IsErr, Num, Skip
    <3> QED BY <3>1, <3>2, GapParts
  <2>2. /\ Counts(m, whole) = Kept([i \in 1..a |-> f[rel[i]]])
        /\ Counts(m, own) = Kept([i \in 1..b |-> f[at[i]]])
    <3>1. Counts(m, whole) = KeptOf(m, Ones, a, rel) /\ Counts(m, own) = KeptOf(m, Ones, b, at)
      BY <1>1, <1>2, Gathered
    <3> QED BY <3>1 DEF KeptOf
  <2> HIDE DEF f
  <2> QED BY <1>1, <1>2, <1>7, <2>1, <2>2, ErrorsAgree
<1> QED BY <1>5, <1>6, <1>7

\* A call that is refused is refused by its sum, and by its mean.
LEMMA RefusedSum == Total(<<Unsupported>>) = Unsupported /\ Mean(<<Unsupported>>) = Unsupported
<1> DEFINE parts == <<Unsupported>>
           errors == {i \in DOMAIN parts : IsErr(parts[i])}
<1>1. parts[1] = Unsupported /\ IsErr(parts[1]) /\ DOMAIN parts = {1}
  BY DEF IsErr, Unsupported, Err
<1>2. errors = {1}
  BY <1>1
<1>3. Min({1}) = 1
  BY LeastIsMin
<1>4. Total(parts) = parts[Min(errors)]
  BY <1>2 DEF Total
<1>5. Total(parts) = Unsupported
  BY <1>1, <1>2, <1>3, <1>4
<1> QED BY <1>1, <1>5 DEF Mean

\* Every count, sum and mean is refused or agrees.
LEMMA SumsAgree ==
  ASSUME LinesOK, NEW n \in Covering, NEW c
  PROVE  /\ Agree(CountIf(c, Whole), CountIf(c, n))
         /\ Agree(SumIfSelf(c, Whole), SumIfSelf(c, n))
         /\ Agree(SumIf(c, Whole, Whole), SumIf(c, n, n))
         /\ Agree(SumIf(c, n, Whole), SumIf(c, n, n))
         /\ Agree(AverageIfSelf(c, Whole), AverageIfSelf(c, n))
         /\ Agree(AverageIf(c, Whole, Whole), AverageIf(c, n, n))
         /\ Agree(AverageIf(c, n, Whole), AverageIf(c, n, n))
<1> DEFINE m == Parse(c)
           whole == Walk(<<keys>>, Whole)
           own == Walk(<<keys>>, n)
<1>0. n \in Nat /\ n # Whole
  BY LookupAssumption DEF Covering, Whole
<1>1. \A ext : CountIf(c, ext) =
        IF IsErr(m) THEN m
        ELSE IF ext = Whole /\ Matches(m, Blank) /\ ~IsErr(Total(Counts(m, Walk(<<keys>>, ext)))) THEN Unsupported
        ELSE Total(Counts(m, Walk(<<keys>>, ext)))
  BY DEF CountIf, Counts, Gather
<1>2. \A ext : SelfParts(c, ext) = IF IsErr(m) THEN <<m>> ELSE Selves(m, Walk(<<keys>>, ext))
  BY DEF SelfParts, Selves, Gather
<1>3. /\ LockstepParts(c, n, n) = IF IsErr(m) THEN <<m>> ELSE Sums(m, own)
      /\ LockstepParts(c, n, Whole) \in {<<Unsupported>>, LockstepParts(c, n, n)}
      /\ \/ LockstepParts(c, Whole, Whole) = <<Unsupported>>
         \/ LockstepParts(c, Whole, Whole) = IF IsErr(m) THEN <<m>> ELSE Sums(m, whole)
      /\ Matches(m, Blank) /\ ~IsErr(m) => LockstepParts(c, Whole, Whole) = <<Unsupported>>
  BY <1>0 DEF LockstepParts, Sums, Gather
<1>4. /\ Selves(m, whole) = Selves(m, own)
      /\ ~Matches(m, Blank) => Counts(m, whole) = Counts(m, own) /\ Sums(m, whole) = Sums(m, own)
      /\ IsErr(Total(Counts(m, whole))) => Total(Counts(m, whole)) = Total(Counts(m, own))
  BY GathersAgree
<1> HIDE DEF m, whole, own
<1>5. Agree(CountIf(c, Whole), CountIf(c, n))
  BY <1>0, <1>1, <1>4 DEF Agree, whole, own
<1>6. SelfParts(c, Whole) = SelfParts(c, n)
  BY <1>2, <1>4 DEF whole, own
<1>7. LockstepParts(c, Whole, Whole) \in {<<Unsupported>>, LockstepParts(c, n, n)}
  BY <1>3, <1>4
<1> QED BY <1>3, <1>5, <1>6, <1>7, RefusedSum DEF SumIfSelf, AverageIfSelf, SumIf, AverageIf, Agree

(* Walking only the stored cells of a whole column or row changes no answer: *)
(* each exact search, count, sum and mean is refused or agrees with any      *)
(* bounded range that covers the data, whatever gaps the lines have and      *)
(* whichever cells were cleared (func_match.rs match_used_extent,            *)
(* func_vlookup.rs, func_countif.rs, func_sumif.rs                           *)
(* sum_lockstep_used_extent).                                                *)
THEOREM WholeLinesAgree == Spec => []WholeLineAgrees
<1>1. LinesOK => WholeLineAgrees
  <2>1. Keys \subseteq Value
    BY LookupAssumption
  <2> QED BY <2>1, SearchesAgree, SumsAgree DEF WholeLineAgrees
<1> QED BY LinesKept, <1>1, PTL
=============================================================================
