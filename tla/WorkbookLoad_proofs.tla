--------------------------- MODULE WorkbookLoad_proofs ---------------------------
(***************************************************************************)
(* Proofs about WorkbookLoad, for every package and every setting of the   *)
(* caps: what is held stays within them (CapsBound), and names and         *)
(* references mean the sheets they were written for (NamesKeepSheets).     *)
(*                                                                         *)
(* The reads of a load are numbered, Turn being the next one.  The running *)
(* total lies between the sums of the least and of the most that the reads *)
(* so far can have held, which is what ties a refusal to the package's own *)
(* sizes; and the sheets loaded are, in order, the entries of <sheets>     *)
(* before at that are worksheets.                                          *)
(***************************************************************************)
EXTENDS WorkbookLoad, FiniteSetTheorems, WellFoundedInduction, TLAPS

\* The next read, or the one that is going on.
Turn ==
  IF pc \in {"sheet", "done"} THEN 4 + at
  ELSE IF pc = "styles" THEN 4
  ELSE IF pc = "count" \/ role = "workbook" THEN 1
  ELSE IF role = "rels" THEN 2
  ELSE IF role = "sharedStrings" THEN 3
  ELSE IF role = "styles" THEN 4
  ELSE 4 + at

\* The reads that are over.
Finished == IF pc = "parse" THEN Turn ELSE Turn - 1

\* Where the load is.
Places ==
  /\ package \in Packages
  /\ pc \in {"count", "open", "read", "parse", "styles", "sheet", "done", "failed"}
  /\ at \in 1 .. Len(package.sheets) + 1
  /\ pc \in {"open", "read", "parse"} =>
       /\ role \in {"workbook", "rels", "sharedStrings", "styles", "worksheet"}
       /\ role = "worksheet" => at <= Len(package.sheets)
       /\ Present(part) => part \in Sources(Turn)
  /\ pc \in {"read", "parse"} => Present(part)
  /\ pc \in {"count", "styles"} \/ (pc \in {"open", "read", "parse"} /\ role # "worksheet") => at = 1
  /\ pc = "done" => at = Len(package.sheets) + 1

\* What is held, and what the reads that are over say of the total.
Held ==
  /\ total \in Nat /\ held \in Nat
  /\ total <= MaxTotal /\ held <= MaxSingle
  /\ pc = "read" =>
       /\ held <= Part.actual
       /\ total + Part.declared <= MaxTotal
  /\ pc \notin {"read", "failed"} => held = 0
  /\ (\A p \in DOMAIN package.parts : package.parts[p].actual = package.parts[p].declared) =>
       total + held <= MaxTotal

Summed ==
  pc # "failed" =>
    /\ LeastSums[Finished] <= total /\ total <= MostSums[Finished]
    /\ \A k \in 1 .. Finished : Least(k) <= MaxSingle

\* A load that failed for a size was of a package over a limit.
Blamed ==
  /\ pc # "failed" => error = None
  /\ error \in {"part_count", "single_part", "ratio", "total"} => Excessive

\* The sheets are the worksheets among the entries so far, in their order.
Ordered ==
  /\ DOMAIN sheets = 1 .. Len(sheets) /\ Len(sheets) \in Nat
  /\ skipped \in Nat /\ skipped + Len(sheets) = at - 1
  /\ \A t \in Tabs :
       LET i == sheets[t].index + 1 IN
       /\ sheets[t].index \in Nat /\ i \in 1 .. at - 1
       /\ IsWorksheet(package.sheets[i])
       /\ sheets[t].name = package.sheets[i].name
       /\ sheets[t].from = package.rels[package.sheets[i].rid].target
  /\ \A t, u \in Tabs : sheets[t].index = sheets[u].index => t = u
  /\ \A i \in 1 .. at - 1 :
       IsWorksheet(package.sheets[i]) => \E t \in Tabs : sheets[t].index = i - 1

\* The inductive invariant.
Inv == Places /\ Held /\ Summed /\ Blamed /\ Ordered /\ (pc = "done" => engine = Loaded)

\* ---------------------------------------------------------------- arithmetic
\* A nonempty set of natural numbers has a least element.
LEMMA LeastNatural ==
  ASSUME NEW T, T \subseteq Nat, T # {}
  PROVE  \E m \in T : \A n \in T : m <= n
<1> DEFINE R == OpToRel(<, Nat)
<1>1. IsWellFoundedOn(R, Nat)
  BY NatLessThanWellFounded
<1>2. PICK m \in T : \A n \in T : ~ (<<n, m>> \in R)
  <2> HIDE DEF R
  <2> QED BY <1>1, WFMin
<1>3. \A n \in T : <<n, m>> \in Nat \X Nat /\ <<n, m>> \notin {ss \in Nat \X Nat : ss[1] < ss[2]}
  BY <1>2 DEF OpToRel
<1>4. \A n \in T : n \in Nat /\ m \in Nat /\ ~(n < m)
  BY <1>3
<1>5. \A n \in T : m <= n
  BY <1>4
<1> QED BY <1>5

\* The numbers that a finite set is mapped to have a greatest.
LEMMA GreatestNatural ==
  ASSUME NEW S, IsFiniteSet(S), S # {}, NEW f \in [S -> Nat]
  PROVE  \E x \in S : \A y \in S : f[y] <= f[x]
<1> DEFINE Tops(s) == {x \in s : \A y \in s : f[y] <= f[x]}
           Bad == {s \in SUBSET S : s # {} /\ Tops(s) = {}}
           Sizes == {Cardinality(s) : s \in Bad}
<1>1. \A s \in SUBSET S : IsFiniteSet(s) /\ Cardinality(s) \in Nat
  BY FS_Subset, FS_CardinalityType
<1>2. Bad = {}
  <2> SUFFICES ASSUME Bad # {} PROVE FALSE
    OBVIOUS
  <2>1. Sizes \subseteq Nat /\ Sizes # {}
    BY <1>1
  <2>2. PICK m \in Sizes : \A n \in Sizes : m <= n
    <3> HIDE DEF Sizes
    <3> QED BY <2>1, LeastNatural
  <2>3. PICK s \in Bad : m = Cardinality(s)
    BY <2>2
  <2>4. PICK x \in s : TRUE
    BY <2>3
  <2> DEFINE u == s \ {x}
  <2>5. u \in SUBSET S /\ Cardinality(u) = Cardinality(s) - 1 /\ Cardinality(s) \in Nat
    BY <1>1, <2>3, FS_RemoveElement
  <2>6. u \notin Bad
    <3>1. ASSUME u \in Bad PROVE FALSE
      <4>1. Cardinality(u) \in Sizes
        BY <3>1
      <4>2. m <= Cardinality(u)
        BY <2>2, <4>1
      <4> QED BY <2>3, <2>5, <4>2
    <3> QED BY <3>1
  <2>7. CASE u = {}
    <3>1. s = {x} /\ x \in S
      BY <2>3, <2>7
    <3>2. x \in Tops(s)
      BY <3>1
    <3> QED BY <2>3, <3>2
  <2>8. CASE u # {}
    <3>1. PICK y \in u : \A z \in u : f[z] <= f[y]
      BY <2>5, <2>6, <2>8
    <3>2. f[x] \in Nat /\ f[y] \in Nat /\ \A z \in s : f[z] \in Nat /\ (z = x \/ z \in u)
      BY <2>3
    <3>3. x \in Tops(s) \/ y \in Tops(s)
      BY <3>1, <3>2
    <3> QED BY <2>3, <3>3
  <2> QED BY <2>7, <2>8
<1>3. S \in SUBSET S /\ S \notin Bad
  BY <1>2
<1> QED BY <1>3

\* Sums of beginnings: each is the one before and the next size.
LEMMA SumsFacts ==
  ASSUME NEW n \in Nat, NEW w \in [1 .. n -> Nat]
  PROVE  /\ Sums(w, n)[0] = 0
         /\ \A k \in 1 .. n : Sums(w, n)[k] = Sums(w, n)[k - 1] + w[k]
         /\ \A k \in 0 .. n : Sums(w, n)[k] \in Nat
<1> DEFINE Is(f, m) == f = [k \in 0 .. m |-> IF k = 0 THEN 0 ELSE f[k - 1] + w[k]]
           Bad == {m \in 0 .. n : ~ \E f : Is(f, m)}
<1>1. Bad = {}
  <2> SUFFICES ASSUME Bad # {} PROVE FALSE
    OBVIOUS
  <2>1. Bad \subseteq Nat
    OBVIOUS
  <2>2. PICK m \in Bad : \A k \in Bad : m <= k
    <3> HIDE DEF Bad
    <3> QED BY <2>1, LeastNatural
  <2>3. m \in 0 .. n /\ ~ \E f : Is(f, m)
    BY <2>2
  <2>4. CASE m = 0
    <3> DEFINE f == [k \in 0 .. 0 |-> 0]
    <3>1. Is(f, 0)
      OBVIOUS
    <3> QED BY <2>3, <2>4, <3>1
  <2>5. CASE m # 0
    <3>1. m - 1 \in 0 .. n /\ m \in 1 .. n /\ ~(m <= m - 1)
      BY <2>3, <2>5
    <3>2. PICK f : Is(f, m - 1)
      BY <2>2, <3>1
    <3> DEFINE g == [k \in 0 .. m |-> IF k = m THEN f[m - 1] + w[m] ELSE f[k]]
    <3>3. \A k \in 0 .. m : g[k] = IF k = 0 THEN 0 ELSE g[k - 1] + w[k]
      <4>1. \A k \in 0 .. (m - 1) : f[k] = IF k = 0 THEN 0 ELSE f[k - 1] + w[k]
        BY <3>2
      <4>2. \A k \in 0 .. m : k \in 0 .. (m - 1) \/ k = m
        BY <3>1
      <4>3. \A k \in 0 .. (m - 1) : k # m /\ k \in 0 .. m /\ k - 1 # m /\ (k # 0 => k - 1 \in 0 .. m)
        BY <3>1
      <4>4. m - 1 \in 0 .. m /\ m # 0 /\ m - 1 # m /\ m \in 0 .. m
        BY <3>1
      <4>5. \A k \in 0 .. (m - 1) : g[k] = f[k]
        BY <4>3
      <4>6. g[m] = f[m - 1] + w[m] /\ g[m - 1] = f[m - 1]
        BY <4>4
      <4>7. \A k \in 0 .. (m - 1) : k # 0 => k - 1 \in 0 .. (m - 1)
        BY <3>1
      <4> HIDE DEF g
      <4> QED BY <4>1, <4>2, <4>4, <4>5, <4>6, <4>7
    <3>4. Is(g, m)
      <4>1. g = [k \in 0 .. m |-> g[k]]
        OBVIOUS
      <4> HIDE DEF g
      <4> QED BY <3>3, <4>1
    <3> QED BY <2>3, <3>4
  <2> QED BY <2>4, <2>5
<1>2. \E f : Is(f, n)
  <2>1. n \in 0 .. n
    OBVIOUS
  <2> HIDE DEF Is
  <2> QED BY <1>1, <2>1
<1>3. Sums(w, n) = CHOOSE f : Is(f, n)
  BY DEF Sums
<1> DEFINE s == Sums(w, n)
<1>4. Is(s, n)
  <2> HIDE DEF Is
  <2> QED BY <1>2, <1>3
<1>5. s[0] = 0 /\ \A k \in 1 .. n : s[k] = s[k - 1] + w[k]
  <2>1. \A k \in 0 .. n : s[k] = IF k = 0 THEN 0 ELSE s[k - 1] + w[k]
    <3> HIDE DEF s
    <3> QED BY <1>4
  <2> HIDE DEF s
  <2> QED BY <2>1
<1>6. \A k \in 0 .. n : s[k] \in Nat
  <2> DEFINE Off == {k \in 0 .. n : s[k] \notin Nat}
  <2> SUFFICES ASSUME Off # {} PROVE FALSE
    OBVIOUS
  <2>1. Off \subseteq Nat
    OBVIOUS
  <2>2. PICK k \in Off : \A j \in Off : k <= j
    <3> HIDE DEF Off
    <3> QED BY <2>1, LeastNatural
  <2>3. k \in 1 .. n /\ k - 1 \in 0 .. n /\ ~(k <= k - 1)
    <3> HIDE DEF s
    <3> QED BY <1>5, <2>2
  <2>4. s[k - 1] \in Nat
    <3> HIDE DEF s
    <3> QED BY <2>2, <2>3
  <2>5. w[k] \in Nat /\ s[k] = s[k - 1] + w[k]
    BY <1>5, <2>3
  <2> HIDE DEF s
  <2> QED BY <2>2, <2>4, <2>5
<1> QED BY <1>5, <1>6

\* ----------------------------------------------------------- what a read holds
LEMMA PackageFacts ==
  ASSUME package \in Packages
  PROVE  /\ IsFiniteSet(DOMAIN package.parts)
         /\ \A q \in DOMAIN package.parts :
              /\ package.parts[q].declared \in Nat /\ package.parts[q].packed \in Nat
              /\ package.parts[q].actual \in Nat
         /\ Len(package.sheets) \in Nat /\ DOMAIN package.sheets = 1 .. Len(package.sheets)
         /\ \A i \in DOMAIN package.names : DOMAIN package.names[i] = {"name", "scope"}
BY PackagesAssumption

LEMMA CapFacts ==
  MaxParts \in Nat /\ MaxSingle \in Nat /\ MaxTotal \in Nat /\ MaxRatio \in Nat
BY CapsAssumption

\* The sources of a read are parts that are there.
LEMMA SourcesThere == ASSUME NEW k PROVE Sources(k) \subseteq DOMAIN package.parts
<1>1. CASE k \in {1, 2}
  BY <1>1 DEF Sources
<1>2. CASE k \in {3, 4}
  BY <1>2 DEF Sources, Optional, Present
<1>3. CASE k \notin {1, 2, 3, 4}
  BY <1>3 DEF Sources
<1> QED BY <1>1, <1>2, <1>3

LEMMA ReadSizes ==
  ASSUME package \in Packages, NEW k
  PROVE  /\ Least(k) \in Nat /\ Most(k) \in Nat
         /\ Sources(k) = {} => Least(k) = 0 /\ Most(k) = 0
         /\ \A p \in Sources(k) :
              /\ p \in DOMAIN package.parts /\ Larger(p) \in Nat
              /\ Least(k) <= package.parts[p].actual
              /\ package.parts[p].actual <= Larger(p) /\ package.parts[p].declared <= Larger(p)
              /\ Larger(p) <= Most(k)
<1> DEFINE S == Sources(k)
           Actual == {package.parts[p].actual : p \in S}
           Large == {Larger(p) : p \in S}
           f == [p \in S |-> Larger(p)]
<1>1. \A p \in S :
        /\ p \in DOMAIN package.parts /\ Larger(p) \in Nat /\ package.parts[p].actual \in Nat
        /\ package.parts[p].actual <= Larger(p) /\ package.parts[p].declared <= Larger(p)
  BY SourcesThere, PackageFacts DEF Larger
<1>2. IsFiniteSet(S)
  BY SourcesThere, PackageFacts, FS_Subset
<1>3. CASE S = {}
  BY <1>3 DEF Least, Most
<1>4. CASE S # {}
  <2>1. Least(k) = Min(Actual) /\ Most(k) = Max(Large)
    BY <1>4 DEF Least, Most
  <2>2. Min(Actual) \in Actual /\ \A n \in Actual : Min(Actual) <= n
    <3>1. Actual \subseteq Nat /\ Actual # {}
      BY <1>1, <1>4
    <3>2. \E m \in Actual : \A n \in Actual : m <= n
      <4> HIDE DEF Actual
      <4> QED BY <3>1, LeastNatural
    <3> HIDE DEF Actual
    <3> QED BY <3>2 DEF Min
  <2>3. Max(Large) \in Large /\ \A n \in Large : n <= Max(Large)
    <3>1. f \in [S -> Nat]
      BY <1>1
    <3>2. \E x \in S : \A y \in S : f[y] <= f[x]
      <4> HIDE DEF f, S
      <4> QED BY <1>2, <1>4, <3>1, GreatestNatural
    <3>3. PICK x \in S : \A y \in S : Larger(y) <= Larger(x)
      BY <3>2
    <3>4. Large \subseteq Nat /\ Larger(x) \in Large /\ \A n \in Large : n <= Larger(x)
      BY <1>1, <3>3
    <3>5. \E m \in Large : \A n \in Large : m >= n
      <4> HIDE DEF Large
      <4> QED BY <3>4
    <3>6. Max(Large) \in Large /\ \A n \in Large : Max(Large) >= n
      <4> HIDE DEF Large
      <4> QED BY <3>5 DEF Max
    <3> HIDE DEF Large
    <3> QED BY <3>4, <3>6
  <2> QED BY <1>1, <1>4, <2>1, <2>2, <2>3
<1> QED BY <1>3, <1>4

\* The sums over the reads, one read at a time.
LEMMA ReadSums ==
  ASSUME package \in Packages
  PROVE  /\ LeastSums[0] = 0 /\ MostSums[0] = 0
         /\ \A k \in 1 .. Reads :
              /\ LeastSums[k] = LeastSums[k - 1] + Least(k)
              /\ MostSums[k] = MostSums[k - 1] + Most(k)
         /\ \A k \in 0 .. Reads : LeastSums[k] \in Nat /\ MostSums[k] \in Nat
<1>1. Reads \in Nat
  BY PackageFacts DEF Reads
<1> DEFINE v == [k \in 1 .. Reads |-> Least(k)]
           w == [k \in 1 .. Reads |-> Most(k)]
<1>2. v \in [1 .. Reads -> Nat] /\ w \in [1 .. Reads -> Nat]
  BY ReadSizes
<1>3. LeastSums = Sums(v, Reads) /\ MostSums = Sums(w, Reads)
  BY DEF LeastSums, MostSums
<1>4. \A k \in 1 .. Reads : v[k] = Least(k) /\ w[k] = Most(k)
  OBVIOUS
<1> HIDE DEF v, w
<1> QED BY <1>1, <1>2, <1>3, <1>4, SumsFacts

\* None of this changes while a package is being opened.
LEMMA SameReads ==
  ASSUME package' = package
  PROVE  /\ Reads' = Reads /\ LeastSums' = LeastSums /\ MostSums' = MostSums
         /\ Excessive' = Excessive
         /\ \A k : Least(k)' = Least(k) /\ Sources(k)' = Sources(k)
BY DEF Reads, LeastSums, MostSums, Least, Most, Sources, Larger, Excessive, Optional, Present,
       IsWorksheet, Implausible

\* ------------------------------------------------------------------ the steps
LEMMA InitInv == Init => Inv
<1> SUFFICES ASSUME Init PROVE Inv
  OBVIOUS
<1>1. package \in Packages /\ pc = "count" /\ at = 1 /\ total = 0 /\ held = 0 /\ error = None
      /\ sheets = <<>> /\ skipped = 0
  BY DEF Init
<1>2. Len(package.sheets) \in Nat
  BY <1>1, PackageFacts
<1>3. Places
  BY <1>1, <1>2 DEF Places
<1>4. Held
  BY <1>1, CapFacts DEF Held
<1>5. Summed
  <2>1. Finished = 0
    BY <1>1 DEF Finished, Turn
  <2> QED BY <1>1, <2>1, ReadSums DEF Summed
<1>6. Blamed
  BY <1>1, NoneAssumption DEF Blamed
<1>7. Ordered
  <2>1. Len(sheets) = 0 /\ DOMAIN sheets = 1 .. 0 /\ Tabs = {}
    BY <1>1 DEF Tabs
  <2> QED BY <1>1, <2>1 DEF Ordered
<1> QED BY <1>1, <1>3, <1>4, <1>5, <1>6, <1>7 DEF Inv

\* A load that fails keeps what it has.
LEMMA RefuseInv ==
  ASSUME Inv, NEW why, Refuse(why),
         why \in {"part_count", "single_part", "ratio", "total"} => Excessive
  PROVE  Inv'
<1>1. /\ pc' = "failed" /\ error' = why
      /\ UNCHANGED <<package, part, role, held, total, strings, at, sheets, skipped, engine>>
  BY DEF Refuse
<1>2. Places'
  BY <1>1 DEF Inv, Places
<1>3. Held'
  BY <1>1 DEF Inv, Held
<1>4. Summed'
  BY <1>1 DEF Summed
<1>5. Blamed'
  BY <1>1, SameReads DEF Blamed
<1>6. Ordered'
  BY <1>1 DEF Inv, Ordered, Tabs, IsWorksheet
<1> QED BY <1>1, <1>2, <1>3, <1>4, <1>5, <1>6 DEF Inv

\* A step that reads nothing goes on with the reads; one that it leaves out has
\* no sources.
LEMMA GoOnInv ==
  ASSUME Inv, UNCHANGED <<package, total, held, error>>, pc \notin {"read", "failed"},
         pc' \notin {"read", "failed"},
         \/ Finished' = Finished
         \/ Finished' = Finished + 1 /\ Sources(Finished + 1) = {} /\ Finished + 1 \in 1 .. Reads
  PROVE  Held' /\ Summed' /\ Blamed'
<1>1. Held'
  BY DEF Inv, Held
<1>2. Summed'
  <2>1. package \in Packages
    BY DEF Inv, Places
  <2>2. /\ LeastSums' = LeastSums /\ MostSums' = MostSums
        /\ \A k : Least(k)' = Least(k)
    BY SameReads
  <2>3. CASE Finished' = Finished
    BY <2>2, <2>3 DEF Inv, Summed
  <2>4. CASE /\ Finished' = Finished + 1 /\ Sources(Finished + 1) = {}
             /\ Finished + 1 \in 1 .. Reads
    <3> DEFINE k == Finished + 1
    <3>1. k \in 1 .. Reads /\ k \in Nat /\ k - 1 = Finished /\ Finished' = k
      <4>1. Reads \in Nat
        BY <2>1, PackageFacts DEF Reads
      <4>2. at \in Nat
        BY PackageFacts, <2>1 DEF Inv, Places
      <4>3. Finished \in Int
        BY <4>2 DEF Finished, Turn
      <4> QED BY <2>4, <4>1, <4>3
    <3>2. Least(k) = 0 /\ Most(k) = 0
      BY <2>1, <2>4, ReadSizes
    <3>3. LeastSums[k] = LeastSums[k - 1] + 0 /\ MostSums[k] = MostSums[k - 1] + 0
      BY <2>1, <3>1, <3>2, ReadSums
    <3>4. LeastSums[k - 1] \in Nat /\ MostSums[k - 1] \in Nat
      <4>1. k - 1 \in 0 .. Reads
        <5>1. Reads \in Nat
          BY <2>1, PackageFacts DEF Reads
        <5> HIDE DEF k
        <5> QED BY <3>1, <5>1
      <4> QED BY <2>1, <4>1, ReadSums
    <3>5. LeastSums[Finished] <= total /\ total <= MostSums[Finished]
          /\ \A j \in 1 .. Finished : Least(j) <= MaxSingle
      BY DEF Inv, Summed
    <3>6. \A j \in 1 .. k : j \in 1 .. Finished \/ j = k
      BY <3>1
    <3>7. total' = total
      OBVIOUS
    <3> HIDE DEF k
    <3> QED BY <2>2, <3>1, <3>2, <3>3, <3>4, <3>5, <3>6, <3>7, CapFacts DEF Summed
  <2> QED BY <2>3, <2>4
<1>3. Blamed'
  BY SameReads DEF Inv, Blamed
<1> QED BY <1>1, <1>2, <1>3

\* Sheets and entries as they were.
LEMMA SameSheets ==
  ASSUME Ordered, UNCHANGED <<package, sheets, skipped, at>>
  PROVE  Ordered'
BY DEF Ordered, Tabs, IsWorksheet

\* A read whose sources are known.
LEMMA Seeking ==
  ASSUME Inv, NEW type, NEW conventional, NEW next, NEW k \in {3, 4},
         Seek(type, conventional, next), Sources(k) = Optional(type, conventional),
         type \in {"sharedStrings", "styles"}, type = "sharedStrings" <=> k = 3,
         next = IF k = 3 THEN "styles" ELSE "sheet",
         Finished = k - 1, at = 1, pc \notin {"read", "failed"}
  PROVE  /\ Places' /\ Ordered' /\ UNCHANGED <<package, total, held, error>>
         /\ pc' \notin {"read", "failed", "done"}
         /\ \/ Finished' = Finished
            \/ /\ Finished' = Finished + 1 /\ Sources(Finished + 1) = {}
               /\ Finished + 1 \in 1 .. Reads
<1>0. package \in Packages /\ Len(package.sheets) \in Nat /\ Reads = 4 + Len(package.sheets)
  BY PackageFacts DEF Inv, Places, Reads
<1>1. CASE Optional(type, conventional) = {}
  <2>1. /\ pc' = next /\ UNCHANGED <<part, role>>
        /\ UNCHANGED <<package, held, total, at, sheets, skipped, error, engine>>
    BY <1>1 DEF Seek, Proceed
  <2>2. Finished' = k
    BY <2>1 DEF Finished, Turn
  <2>3. Places'
    BY <1>0, <2>1 DEF Inv, Places
  <2>4. Ordered'
    BY <2>1, SameSheets DEF Inv
  <2> QED BY <1>0, <1>1, <2>1, <2>2, <2>3, <2>4
<1>2. CASE Optional(type, conventional) # {}
  <2>1. /\ pc' = "open" /\ part' \in Sources(k) /\ role' = type
        /\ UNCHANGED <<package, held, total, at, sheets, skipped, error, engine>>
    BY <1>2 DEF Seek, Proceed
  <2>2. Turn' = k /\ Finished' = k - 1
    BY <2>1 DEF Finished, Turn
  <2>3. Sources(Turn)' = Sources(k)
    <3>1. \A j : Sources(j)' = Sources(j)
      BY <2>1, SameReads
    <3>2. Sources(Turn)' = Sources(k)'
      BY <2>2 DEF Sources
    <3> QED BY <3>1, <3>2
  <2>4. Places'
    BY <1>0, <2>1, <2>3 DEF Inv, Places
  <2>5. Ordered'
    BY <2>1, SameSheets DEF Inv
  <2> QED BY <2>1, <2>2, <2>4, <2>5
<1> QED BY <1>1, <1>2

LEMMA PlaceFacts ==
  ASSUME Inv
  PROVE  /\ package \in Packages /\ Len(package.sheets) \in Nat
         /\ Reads = 4 + Len(package.sheets) /\ at \in Nat /\ at >= 1
         /\ \A i \in 1 .. Len(package.sheets) :
              Sources(4 + i) =
                IF package.sheets[i].rid \in DOMAIN package.rels /\ IsWorksheet(package.sheets[i])
                THEN {package.rels[package.sheets[i].rid].target} \cap DOMAIN package.parts
                ELSE {}
<1>1. /\ package \in Packages /\ Len(package.sheets) \in Nat
      /\ Reads = 4 + Len(package.sheets) /\ at \in Nat /\ at >= 1
  BY PackageFacts DEF Inv, Places, Reads
<1>2. ASSUME NEW i \in 1 .. Len(package.sheets)
      PROVE  Sources(4 + i) =
               IF package.sheets[i].rid \in DOMAIN package.rels /\ IsWorksheet(package.sheets[i])
               THEN {package.rels[package.sheets[i].rid].target} \cap DOMAIN package.parts
               ELSE {}
  <2>1. 4 + i \notin {1, 2, 3, 4} /\ (4 + i) - 4 = i
    BY <1>1
  <2>2. Sources(4 + i) = LET entry == package.sheets[(4 + i) - 4] IN
           IF entry.rid \in DOMAIN package.rels /\ IsWorksheet(entry)
           THEN {package.rels[entry.rid].target} \cap DOMAIN package.parts
           ELSE {}
    BY <2>1 DEF Sources
  <2> QED BY <2>1, <2>2
<1> QED BY <1>1, <1>2

\* The part being opened or read.
LEMMA PartFacts ==
  ASSUME Inv, pc \in {"open", "read", "parse"}
  PROVE  /\ Turn \in 1 .. Reads
         /\ Present(part) =>
              /\ part \in Sources(Turn)
              /\ Part.declared \in Nat /\ Part.actual \in Nat
              /\ Part.declared <= Larger(part) /\ Part.actual <= Larger(part)
              /\ Larger(part) \in Nat /\ Larger(part) <= Most(Turn)
              /\ Least(Turn) <= Part.actual
              /\ Least(Turn) \in Nat /\ Most(Turn) \in Nat
<1>1. Turn \in 1 .. Reads
  <2>1. role = "worksheet" => at <= Len(package.sheets)
    BY DEF Inv, Places
  <2>2. role \in {"workbook", "rels", "sharedStrings", "styles", "worksheet"}
    BY DEF Inv, Places
  <2>3. Turn = IF role = "workbook" THEN 1 ELSE IF role = "rels" THEN 2
               ELSE IF role = "sharedStrings" THEN 3 ELSE IF role = "styles" THEN 4 ELSE 4 + at
    BY DEF Turn
  <2> QED BY <2>1, <2>2, <2>3, PlaceFacts
<1>2. ASSUME Present(part)
      PROVE  part \in Sources(Turn) /\ part \in DOMAIN package.parts
  BY <1>2, SourcesThere DEF Inv, Places, Present
<1> QED BY <1>1, <1>2, PlaceFacts, ReadSizes, PackageFacts DEF Part

LEMMA CountPartsInv == ASSUME Inv, CountParts PROVE Inv'
<1>1. CASE Cardinality(DOMAIN package.parts) > MaxParts
  BY <1>1, RefuseInv DEF CountParts, Excessive
<1>2. CASE ~(Cardinality(DOMAIN package.parts) > MaxParts)
  <2>1. /\ pc = "count" /\ pc' = "open" /\ part' = "workbook" /\ role' = "workbook"
        /\ UNCHANGED <<package, held, total, strings, at, sheets, skipped, error, engine>>
    BY <1>2 DEF CountParts
  <2>2. Finished = 0 /\ Finished' = 0 /\ Turn' = 1
    BY <2>1 DEF Finished, Turn
  <2>3. Present(part)' => (part \in Sources(Turn))'
    <3>1. Sources(Turn)' = {"workbook"} \cap DOMAIN package.parts
      BY <2>1, <2>2 DEF Sources
    <3> QED BY <2>1, <3>1 DEF Present
  <2>4. Places'
    BY <2>1, <2>3 DEF Inv, Places
  <2>5. Held' /\ Summed' /\ Blamed'
    BY <2>1, <2>2, GoOnInv
  <2>6. Ordered'
    BY <2>1, SameSheets DEF Inv
  <2> QED BY <2>1, <2>4, <2>5, <2>6 DEF Inv
<1> QED BY <1>1, <1>2

LEMMA OpenPartInv == ASSUME Inv, OpenPart PROVE Inv'
<1>0. pc = "open" /\ Turn \in 1 .. Reads /\ Finished = Turn - 1
  BY PartFacts DEF OpenPart, Finished
<1>1. CASE ~Present(part)
  BY <1>1, RefuseInv DEF OpenPart
<1>2. CASE Present(part)
  <2> USE <1>2
  <2>0. /\ part \in Sources(Turn) /\ Part.declared \in Nat /\ Part.declared <= Larger(part)
        /\ Larger(part) \in Nat /\ Larger(part) <= Most(Turn) /\ Most(Turn) \in Nat
    BY <1>0, PartFacts
  <2>1. CASE Part.declared > MaxSingle
    <3>1. Larger(part) > MaxSingle
      BY <2>0, <2>1, CapFacts
    <3>2. Excessive
      BY <1>0, <2>0, <3>1 DEF Excessive
    <3> QED BY <2>1, <3>2, RefuseInv DEF OpenPart
  <2>2. CASE ~(Part.declared > MaxSingle) /\ Implausible(Part)
    <3>1. Excessive
      BY <1>0, <2>0, <2>2 DEF Excessive, Part
    <3> QED BY <2>2, <3>1, RefuseInv DEF OpenPart
  <2>3. CASE /\ ~(Part.declared > MaxSingle) /\ ~Implausible(Part)
             /\ total + Part.declared > MaxTotal
    <3>1. MostSums[Turn] = MostSums[Turn - 1] + Most(Turn) /\ MostSums[Turn - 1] \in Nat
      <4>1. Turn - 1 \in 0 .. Reads
        BY <1>0, PlaceFacts
      <4> QED BY <1>0, <4>1, PlaceFacts, ReadSums
    <3>2. total <= MostSums[Turn - 1] /\ total \in Nat
      BY <1>0 DEF Inv, Summed, Held
    <3>3. MostSums[Turn] > MaxTotal
      BY <2>0, <2>3, <3>1, <3>2, CapFacts
    <3>4. Excessive
      BY <1>0, <3>3 DEF Excessive
    <3> QED BY <2>3, <3>4, RefuseInv DEF OpenPart
  <2>4. CASE /\ ~(Part.declared > MaxSingle) /\ ~Implausible(Part)
             /\ ~(total + Part.declared > MaxTotal)
    <3>1. /\ pc' = "read" /\ held' = 0
          /\ UNCHANGED <<package, part, role, total, strings, at, sheets, skipped, error, engine>>
      BY <2>4 DEF OpenPart
    <3>2. Turn' = Turn /\ Finished' = Finished
      BY <1>0, <3>1 DEF Turn, Finished
    <3>3. Places'
      <4>1. Sources(Turn)' = Sources(Turn)
        BY <1>0, <3>1 DEF Turn, Sources, Optional, Present, IsWorksheet
      <4> QED BY <1>0, <2>0, <3>1, <4>1 DEF Inv, Places, Present
    <3>4. Held'
      BY <2>0, <2>4, <3>1, CapFacts, PartFacts, <1>0 DEF Inv, Held, Part
    <3>5. Summed'
      BY <1>0, <3>1, <3>2, SameReads DEF Inv, Summed
    <3>6. Blamed' /\ Ordered'
      BY <1>0, <3>1, SameReads, SameSheets DEF Inv, Blamed
    <3> QED BY <3>1, <3>3, <3>4, <3>5, <3>6 DEF Inv
  <2> QED BY <2>1, <2>2, <2>3, <2>4
<1> QED BY <1>1, <1>2

LEMMA ReadChunkInv == ASSUME Inv, ReadChunk PROVE Inv'
<1>0. /\ pc = "read" /\ Turn \in 1 .. Reads /\ held < Part.actual /\ held \in Nat
      /\ Present(part)
  BY PartFacts DEF ReadChunk, Inv, Places, Held
<1>1. /\ part \in Sources(Turn) /\ Part.actual \in Nat /\ Part.actual <= Larger(part)
      /\ Larger(part) \in Nat
  BY <1>0, PartFacts
<1>2. CASE Overfull(held + 1)
  <2>1. Larger(part) > MaxSingle
    BY <1>0, <1>1, <1>2, CapFacts DEF Overfull
  <2>2. Excessive
    BY <1>0, <1>1, <2>1 DEF Excessive
  <2> QED BY <1>2, <2>2, RefuseInv DEF ReadChunk
<1>3. CASE ~Overfull(held + 1)
  <2>1. /\ held' = held + 1 /\ pc' = "read"
        /\ UNCHANGED <<package, part, role, total, strings, at, sheets, skipped, error, engine>>
    BY <1>0, <1>3 DEF ReadChunk
  <2>2. Turn' = Turn /\ Finished' = Finished
    BY <1>0, <2>1 DEF Turn, Finished
  <2>3. Places'
    <3>1. Sources(Turn)' = Sources(Turn)
      BY <1>0, <2>1 DEF Turn, Sources, Optional, Present, IsWorksheet
    <3> QED BY <1>0, <1>1, <2>1, <3>1 DEF Inv, Places, Present
  <2>4. Held'
    <3>1. Part' = Part /\ held + 1 <= Part.actual /\ held + 1 <= MaxSingle
      BY <1>0, <1>1, <1>3, <2>1, CapFacts DEF Part, Overfull
    <3>2. total + Part.declared <= MaxTotal /\ total \in Nat /\ total <= MaxTotal
      BY <1>0 DEF Inv, Held
    <3>3. (\A p \in DOMAIN package.parts : package.parts[p].actual = package.parts[p].declared)
            => total + (held + 1) <= MaxTotal
      <4>1. Part.declared \in Nat
        BY <1>0, PartFacts
      <4>2. (\A p \in DOMAIN package.parts : package.parts[p].actual = package.parts[p].declared)
              => Part.actual = Part.declared
        BY <1>0 DEF Part, Present
      <4> QED BY <1>0, <1>1, <3>1, <3>2, <4>1, <4>2, CapFacts
    <3> QED BY <1>0, <2>1, <3>1, <3>2, <3>3 DEF Held
  <2>5. Summed'
    BY <1>0, <2>1, <2>2, SameReads DEF Inv, Summed
  <2>6. Blamed' /\ Ordered'
    BY <1>0, <2>1, SameReads, SameSheets DEF Inv, Blamed
  <2> QED BY <2>1, <2>3, <2>4, <2>5, <2>6 DEF Inv
<1> QED BY <1>2, <1>3

LEMMA PartReadInv == ASSUME Inv, PartRead PROVE Inv'
<1>0. /\ pc = "read" /\ Turn \in 1 .. Reads /\ held = Part.actual /\ held \in Nat
      /\ Present(part) /\ Finished = Turn - 1 /\ total \in Nat /\ held <= MaxSingle
  BY PartFacts DEF PartRead, Inv, Places, Held, Finished
<1>1. /\ part \in Sources(Turn) /\ Part.actual \in Nat /\ Part.actual <= Larger(part)
      /\ Larger(part) \in Nat /\ Larger(part) <= Most(Turn) /\ Least(Turn) <= Part.actual
      /\ Least(Turn) \in Nat /\ Most(Turn) \in Nat
  BY <1>0, PartFacts
<1>2. /\ MostSums[Turn] = MostSums[Turn - 1] + Most(Turn) /\ MostSums[Turn - 1] \in Nat
      /\ LeastSums[Turn] = LeastSums[Turn - 1] + Least(Turn) /\ LeastSums[Turn - 1] \in Nat
  <2>1. Turn - 1 \in 0 .. Reads
    BY <1>0, PlaceFacts
  <2> QED BY <1>0, <2>1, PlaceFacts, ReadSums
<1>3. /\ LeastSums[Turn - 1] <= total /\ total <= MostSums[Turn - 1]
      /\ \A k \in 1 .. Turn - 1 : Least(k) <= MaxSingle
  BY <1>0 DEF Inv, Summed
<1>4. CASE total + held > MaxTotal
  <2>1. MostSums[Turn] > MaxTotal
    BY <1>0, <1>1, <1>2, <1>3, <1>4, CapFacts
  <2>2. Excessive
    BY <1>0, <2>1 DEF Excessive
  <2> QED BY <1>4, <2>2, RefuseInv DEF PartRead
<1>5. CASE ~(total + held > MaxTotal)
  <2>1. /\ total' = total + held /\ held' = 0 /\ pc' = "parse"
        /\ UNCHANGED <<package, part, role, strings, at, sheets, skipped, error, engine>>
    BY <1>5 DEF PartRead
  <2>2. Turn' = Turn /\ Finished' = Turn
    BY <1>0, <2>1 DEF Turn, Finished
  <2>3. Places'
    <3>1. Sources(Turn)' = Sources(Turn)
      BY <1>0, <2>1 DEF Turn, Sources, Optional, Present, IsWorksheet
    <3> QED BY <1>0, <1>1, <2>1, <3>1 DEF Inv, Places, Present
  <2>4. Held'
    BY <1>0, <1>5, <2>1, CapFacts DEF Held
  <2>5. Summed'
    <3>1. LeastSums[Turn] <= total + held /\ total + held <= MostSums[Turn]
      BY <1>0, <1>1, <1>2, <1>3
    <3>2. \A k \in 1 .. Turn : k \in 1 .. Turn - 1 \/ k = Turn
      BY <1>0, PlaceFacts
    <3>3. Least(Turn) <= MaxSingle
      BY <1>0, <1>1, CapFacts
    <3>4. \A k \in 1 .. Turn : Least(k) <= MaxSingle
      BY <1>3, <3>2, <3>3
    <3>5. LeastSums' = LeastSums /\ MostSums' = MostSums /\ \A k : Least(k)' = Least(k)
      BY <2>1, SameReads
    <3> QED BY <2>1, <2>2, <3>1, <3>4, <3>5 DEF Summed
  <2>6. Blamed' /\ Ordered'
    BY <1>0, <2>1, SameReads, SameSheets DEF Inv, Blamed
  <2> QED BY <2>1, <2>3, <2>4, <2>5, <2>6 DEF Inv
<1> QED BY <1>4, <1>5

LEMMA MalformedInv == ASSUME Inv, Malformed PROVE Inv'
BY RefuseInv DEF Malformed

LEMMA ArchiveFailsInv == ASSUME Inv, ArchiveFails PROVE Inv'
BY RefuseInv DEF ArchiveFails

LEMMA ParseWorkbookInv == ASSUME Inv, ParseWorkbook PROVE Inv'
<1>1. /\ pc = "parse" /\ role = "workbook" /\ part' = "rels" /\ role' = "rels" /\ pc' = "open"
      /\ UNCHANGED <<package, held, total, at, sheets, skipped, error, engine>>
  BY DEF ParseWorkbook, Parse, Proceed
<1>2. Finished = 1 /\ Finished' = 1 /\ Turn' = 2
  BY <1>1 DEF Finished, Turn
<1>3. Present(part)' => (part \in Sources(Turn))'
  <2>1. Sources(Turn)' = {"rels"} \cap DOMAIN package.parts
    BY <1>1, <1>2 DEF Sources
  <2> QED BY <1>1, <2>1 DEF Present
<1>4. Places'
  BY <1>1, <1>3 DEF Inv, Places
<1>5. Held' /\ Summed' /\ Blamed'
  BY <1>1, <1>2, GoOnInv
<1>6. Ordered'
  BY <1>1, SameSheets DEF Inv
<1> QED BY <1>1, <1>4, <1>5, <1>6 DEF Inv

\* The optional parts.
LEMMA SeekInv ==
  ASSUME Inv, NEW type, NEW conventional, NEW next, NEW k \in {3, 4},
         Seek(type, conventional, next), Sources(k) = Optional(type, conventional),
         type \in {"sharedStrings", "styles"}, type = "sharedStrings" <=> k = 3,
         next = IF k = 3 THEN "styles" ELSE "sheet",
         Finished = k - 1, at = 1, pc \notin {"read", "failed"}
  PROVE  Inv'
<1>1. /\ Places' /\ Ordered' /\ UNCHANGED <<package, total, held, error>>
      /\ pc' \notin {"read", "failed", "done"}
      /\ \/ Finished' = Finished
         \/ /\ Finished' = Finished + 1 /\ Sources(Finished + 1) = {}
            /\ Finished + 1 \in 1 .. Reads
  BY Seeking
<1>2. Held' /\ Summed' /\ Blamed'
  BY <1>1, GoOnInv
<1> QED BY <1>1, <1>2 DEF Inv

LEMMA ParseRelsInv == ASSUME Inv, ParseRels PROVE Inv'
<1>1. /\ pc = "parse" /\ role = "rels" /\ Seek("sharedStrings", "strings", "styles") /\ at = 1
  BY DEF ParseRels, Parse, Inv, Places
<1>2. Finished = 3 - 1 /\ Sources(3) = Optional("sharedStrings", "strings")
  BY <1>1 DEF Finished, Turn, Sources
<1> QED BY <1>1, <1>2, SeekInv

LEMMA ParseStringsInv == ASSUME Inv, ParseStrings PROVE Inv'
<1>1. /\ pc = "parse" /\ role = "sharedStrings" /\ Seek("styles", "styles", "sheet") /\ at = 1
  BY DEF ParseStrings, Parse, Inv, Places
<1>2. Finished = 4 - 1 /\ Sources(4) = Optional("styles", "styles")
  BY <1>1 DEF Finished, Turn, Sources
<1> QED BY <1>1, <1>2, SeekInv

LEMMA SkipStringsInv == ASSUME Inv, SkipStrings PROVE Inv'
<1>1. /\ pc = "styles" /\ Seek("styles", "styles", "sheet") /\ at = 1
  BY DEF SkipStrings, Inv, Places
<1>2. Finished = 4 - 1 /\ Sources(4) = Optional("styles", "styles")
  BY <1>1 DEF Finished, Turn, Sources
<1> QED BY <1>1, <1>2, SeekInv

LEMMA ParseStylesInv == ASSUME Inv, ParseStyles PROVE Inv'
<1>1. /\ pc = "parse" /\ role = "styles" /\ pc' = "sheet" /\ at = 1
      /\ UNCHANGED <<package, part, role, held, total, at, sheets, skipped, error, engine>>
  BY DEF ParseStyles, Parse, Proceed, Inv, Places
<1>2. Finished = 4 /\ Finished' = 4
  BY <1>1 DEF Finished, Turn
<1>3. Places'
  BY <1>1 DEF Inv, Places
<1>4. Held' /\ Summed' /\ Blamed'
  BY <1>1, <1>2, GoOnInv
<1>5. Ordered'
  BY <1>1, SameSheets DEF Inv
<1> QED BY <1>1, <1>3, <1>4, <1>5 DEF Inv

LEMMA NextSheetInv == ASSUME Inv, NextSheet PROVE Inv'
<1>0. /\ pc = "sheet" /\ at \in 1 .. Len(package.sheets) /\ Entry = package.sheets[at]
      /\ Finished = 3 + at /\ Finished + 1 = 4 + at /\ 4 + at \in 1 .. Reads
      /\ Sources(4 + at) = IF Entry.rid \in DOMAIN package.rels /\ IsWorksheet(Entry)
                           THEN {package.rels[Entry.rid].target} \cap DOMAIN package.parts
                           ELSE {}
  <2>1. /\ pc = "sheet" /\ at <= Len(package.sheets) /\ Entry = package.sheets[at]
        /\ Turn = 4 + at /\ Finished = (4 + at) - 1
    BY DEF NextSheet, Finished, Turn, Entry
  <2>2. at \in 1 .. Len(package.sheets) /\ Finished = 3 + at /\ Finished + 1 = 4 + at
        /\ 4 + at \in 1 .. Reads
    BY <2>1, PlaceFacts
  <2> QED BY <2>1, <2>2, PlaceFacts
<1>1. CASE Entry.rid # None /\ Entry.rid \notin DOMAIN package.rels
  BY <1>1, RefuseInv DEF NextSheet
<1>2. CASE /\ ~(Entry.rid # None /\ Entry.rid \notin DOMAIN package.rels)
           /\ IsWorksheet(Entry)
  <2>1. /\ part' = package.rels[Entry.rid].target /\ role' = "worksheet" /\ pc' = "open"
        /\ UNCHANGED <<package, held, total, strings, at, sheets, skipped, error, engine>>
    BY <1>2 DEF NextSheet
  <2>2. Turn' = 4 + at /\ Finished' = 3 + at
    BY <1>0, <2>1 DEF Turn, Finished
  <2>3. Entry.rid \in DOMAIN package.rels
    BY <1>2 DEF IsWorksheet
  <2>4. Present(part)' => (part \in Sources(Turn))'
    <3>1. \A k : Sources(k)' = Sources(k)
      BY <2>1, SameReads
    <3>2. Sources(Turn)' = Sources(4 + at)'
      BY <2>1, <2>2 DEF Sources
    <3>3. Sources(Turn)' = {part'} \cap DOMAIN package.parts
      <4>1. Sources(4 + at)' = Sources(4 + at)
        BY <2>1 DEF Sources, Optional, Present, IsWorksheet
      <4> QED BY <1>0, <1>2, <2>1, <2>3, <3>2, <4>1
    <3> QED BY <2>1, <3>3 DEF Present
  <2>5. Places'
    BY <1>0, <2>1, <2>4 DEF Inv, Places
  <2>6. Held' /\ Summed' /\ Blamed'
    BY <1>0, <2>1, <2>2, GoOnInv
  <2>7. Ordered'
    BY <2>1, SameSheets DEF Inv
  <2> QED BY <2>1, <2>5, <2>6, <2>7 DEF Inv
<1>3. CASE /\ ~(Entry.rid # None /\ Entry.rid \notin DOMAIN package.rels)
           /\ ~IsWorksheet(Entry)
  <2>1. /\ skipped' = skipped + 1 /\ at' = at + 1 /\ pc' = "sheet"
        /\ UNCHANGED <<package, part, role, held, total, strings, sheets, error, engine>>
    BY <1>0, <1>3 DEF NextSheet
  <2>2. Finished' = Finished + 1 /\ Sources(Finished + 1) = {} /\ Finished + 1 \in 1 .. Reads
    BY <1>0, <1>3, <2>1, PlaceFacts DEF Turn, Finished
  <2>3. Places'
    BY <1>0, <2>1, PlaceFacts DEF Inv, Places
  <2>4. Held' /\ Summed' /\ Blamed'
    BY <1>0, <2>1, <2>2, GoOnInv
  <2>5. Ordered'
    <3>1. Ordered
      BY DEF Inv
    <3>2. at \in Nat /\ at' - 1 = at /\ \A i \in 1 .. at : i \in 1 .. at - 1 \/ i = at
      BY <1>0, <2>1, PlaceFacts
    <3>3. ~IsWorksheet(package.sheets[at])
      BY <1>0, <1>3
    <3>4. Tabs' = Tabs
      BY <2>1 DEF Tabs
    <3>5. \A i : IsWorksheet(package.sheets[i])' = IsWorksheet(package.sheets[i])
      BY <2>1 DEF IsWorksheet
    <3>6. skipped' \in Nat /\ skipped' + Len(sheets) = at' - 1
      BY <2>1, <3>1, <3>2 DEF Ordered
    <3>7. \A t \in Tabs :
            LET i == sheets[t].index + 1 IN
            /\ sheets[t].index \in Nat /\ i \in 1 .. at
            /\ IsWorksheet(package.sheets[i])
            /\ sheets[t].name = package.sheets[i].name
            /\ sheets[t].from = package.rels[package.sheets[i].rid].target
      BY <3>1, <3>2 DEF Ordered
    <3>8. \A i \in 1 .. at :
            IsWorksheet(package.sheets[i]) => \E t \in Tabs : sheets[t].index = i - 1
      BY <3>1, <3>2, <3>3 DEF Ordered
    <3>9. /\ DOMAIN sheets = 1 .. Len(sheets) /\ Len(sheets) \in Nat
          /\ \A t, u \in Tabs : sheets[t].index = sheets[u].index => t = u
      BY <3>1 DEF Ordered
    <3> QED BY <2>1, <3>2, <3>4, <3>5, <3>6, <3>7, <3>8, <3>9 DEF Ordered, IsWorksheet
  <2> QED BY <2>1, <2>3, <2>4, <2>5 DEF Inv
<1> QED BY <1>1, <1>2, <1>3

LEMMA ParseSheetInv == ASSUME Inv, ParseSheet PROVE Inv'
<1>0. /\ pc = "parse" /\ role = "worksheet" /\ Present(part) /\ part \in Sources(4 + at)
      /\ at \in 1 .. Len(package.sheets) /\ Finished = 4 + at /\ Entry = package.sheets[at]
  BY PartFacts DEF ParseSheet, Parse, Inv, Places, Finished, Turn, Entry
<1>1. CASE Part.repeats \/ Part.strings > strings
  BY <1>1, RefuseInv DEF ParseSheet
<1>2. CASE ~(Part.repeats \/ Part.strings > strings)
  <2> DEFINE new == [name |-> Entry.name, index |-> at - 1, from |-> part]
  <2>1. /\ sheets' = Append(sheets, new) /\ at' = at + 1 /\ pc' = "sheet"
        /\ UNCHANGED <<package, part, role, held, total, strings, skipped, error, engine>>
    BY <1>2 DEF ParseSheet
  <2>2. Finished' = Finished
    BY <1>0, <2>1, PlaceFacts DEF Turn, Finished
  <2>3. Places'
    BY <1>0, <2>1, PlaceFacts DEF Inv, Places
  <2>4. Held' /\ Summed' /\ Blamed'
    BY <1>0, <2>1, <2>2, GoOnInv
  <2>5. Ordered'
    <3>1. Ordered
      BY DEF Inv
    <3>2. at \in Nat /\ at' - 1 = at /\ \A i \in 1 .. at : i \in 1 .. at - 1 \/ i = at
      BY <1>0, <2>1, PlaceFacts
    <3> DEFINE n == Len(sheets)
    <3>3. n \in Nat /\ DOMAIN sheets = 1 .. n /\ Tabs = 1 .. n
      BY <3>1 DEF Ordered, Tabs
    <3>4. /\ Len(sheets') = n + 1 /\ DOMAIN sheets' = 1 .. (n + 1) /\ Tabs' = 1 .. (n + 1)
          /\ \A t \in Tabs : sheets'[t] = sheets[t]
          /\ sheets'[n + 1] = new
      <4>1. sheets' = [t \in 1 .. (n + 1) |-> IF t <= n THEN sheets[t] ELSE new]
        BY <2>1, <3>3 DEF Append
      <4>2. sheets' \in Seq({sheets[t] : t \in 1 .. n} \cup {new})
        BY <3>3, <4>1
      <4>3. DOMAIN sheets' = 1 .. (n + 1)
        BY <4>1
      <4>4. Len(sheets') = n + 1
        BY <3>3, <4>2, <4>3
      <4> HIDE DEF new
      <4> QED BY <3>3, <4>1, <4>3, <4>4 DEF Tabs
    <3>5. \A t \in Tabs' : t \in Tabs \/ t = n + 1
      BY <3>3, <3>4
    <3>6. \A i : IsWorksheet(package.sheets[i])' = IsWorksheet(package.sheets[i])
      BY <2>1 DEF IsWorksheet
    <3>7. /\ new.index = at - 1 /\ new.index \in Nat /\ new.index + 1 = at
          /\ new.name = package.sheets[at].name
          /\ IsWorksheet(package.sheets[at])
          /\ new.from = package.rels[package.sheets[at].rid].target
      <4>1. Sources(4 + at) = IF Entry.rid \in DOMAIN package.rels /\ IsWorksheet(Entry)
                              THEN {package.rels[Entry.rid].target} \cap DOMAIN package.parts
                              ELSE {}
        BY <1>0, PlaceFacts
      <4>2. IsWorksheet(Entry) /\ part = package.rels[Entry.rid].target
        BY <1>0, <4>1
      <4>3. at - 1 \in Nat /\ (at - 1) + 1 = at
        BY <1>0, PlaceFacts
      <4> QED BY <1>0, <4>2, <4>3
    <3> HIDE DEF new, n
    <3>8. \A t \in Tabs' :
            LET i == sheets'[t].index + 1 IN
            /\ sheets'[t].index \in Nat /\ i \in 1 .. at
            /\ IsWorksheet(package.sheets[i])
            /\ sheets'[t].name = package.sheets[i].name
            /\ sheets'[t].from = package.rels[package.sheets[i].rid].target
      <4>1. ASSUME NEW t \in Tabs
            PROVE LET i == sheets[t].index + 1 IN
            /\ sheets[t].index \in Nat /\ i \in 1 .. at
            /\ IsWorksheet(package.sheets[i])
            /\ sheets[t].name = package.sheets[i].name
            /\ sheets[t].from = package.rels[package.sheets[i].rid].target
        BY <3>1, <3>2 DEF Ordered
      <4>2. at \in 1 .. at
        BY <1>0
      <4> QED BY <3>4, <3>5, <3>7, <4>1, <4>2
    <3>9. \A i \in 1 .. at :
            IsWorksheet(package.sheets[i]) => \E t \in Tabs' : sheets'[t].index = i - 1
      <4>1. \A t \in Tabs : t \in Tabs'
        BY <3>3, <3>4
      <4>2. n + 1 \in Tabs'
        BY <3>3, <3>4
      <4>3. ASSUME NEW i \in 1 .. at - 1, IsWorksheet(package.sheets[i])
            PROVE  \E t \in Tabs' : sheets'[t].index = i - 1
        <5>1. PICK t \in Tabs : sheets[t].index = i - 1
          BY <3>1, <4>3 DEF Ordered
        <5> QED BY <3>4, <4>1, <5>1
      <4>4. sheets'[n + 1].index = at - 1
        BY <3>4, <3>7
      <4> QED BY <3>2, <4>2, <4>3, <4>4
    <3>10. \A t, u \in Tabs' : sheets'[t].index = sheets'[u].index => t = u
      <4>1. \A t \in Tabs : sheets[t].index # at - 1
        BY <3>1, <3>2 DEF Ordered
      <4>2. \A t, u \in Tabs : sheets[t].index = sheets[u].index => t = u
        BY <3>1 DEF Ordered
      <4> QED BY <3>4, <3>5, <3>7, <4>1, <4>2
    <3>11. skipped' \in Nat /\ skipped' + Len(sheets') = at' - 1
      BY <2>1, <3>1, <3>2, <3>3, <3>4 DEF Ordered, n
    <3>12. Len(sheets') \in Nat /\ DOMAIN sheets' = 1 .. Len(sheets')
      BY <3>3, <3>4
    <3> QED BY <2>1, <3>2, <3>6, <3>8, <3>9, <3>10, <3>11, <3>12 DEF Ordered, IsWorksheet
  <2> QED BY <2>1, <2>3, <2>4, <2>5 DEF Inv
<1> QED BY <1>1, <1>2

LEMMA LoadInv == ASSUME Inv, Load PROVE Inv'
<1>1. /\ pc = "sheet" /\ at > Len(package.sheets) /\ engine' = Loaded /\ pc' = "done"
      /\ UNCHANGED <<package, part, role, held, total, strings, at, sheets, skipped, error>>
  BY DEF Load
<1>2. Finished' = Finished
  BY <1>1 DEF Turn, Finished
<1>3. Places'
  BY <1>1, PlaceFacts DEF Inv, Places
<1>4. Held' /\ Summed' /\ Blamed'
  BY <1>1, <1>2, GoOnInv
<1>5. Ordered'
  BY <1>1, SameSheets DEF Inv
<1>6. Loaded' = Loaded
  BY <1>1 DEF Loaded, Lower, Tabs, ScopeOf
<1> QED BY <1>1, <1>3, <1>4, <1>5, <1>6 DEF Inv

LEMMA StutterInv == ASSUME Inv, UNCHANGED vars PROVE Inv'
<1>1. UNCHANGED <<package, pc, part, role, held, total, strings, at, sheets, skipped, error, engine>>
  BY DEF vars
<1>2. Turn' = Turn /\ Finished' = Finished
  BY <1>1 DEF Turn, Finished
<1>3. Places'
  <2>1. Sources(Turn)' = Sources(Turn)
    BY <1>1, <1>2 DEF Sources, Optional, Present, IsWorksheet
  <2> QED BY <1>1, <2>1 DEF Inv, Places, Present
<1>4. Held' /\ Blamed' /\ Ordered'
  BY <1>1, SameReads, SameSheets DEF Inv, Held, Blamed, Part
<1>5. Summed'
  BY <1>1, <1>2, SameReads DEF Inv, Summed
<1>6. Loaded' = Loaded
  BY <1>1 DEF Loaded, Lower, Tabs, ScopeOf
<1> QED BY <1>1, <1>3, <1>4, <1>5, <1>6 DEF Inv

(* The inductive invariant: the running total lies between what the reads so far
   must and may have held, a refusal for a size has the package to blame, and
   the sheets are the worksheets among the entries passed. *)
THEOREM LoadInvariant == Spec => []Inv
<1>1. Init => Inv
  BY InitInv
<1>2. Inv /\ [Next]_vars => Inv'
  BY CountPartsInv, OpenPartInv, ReadChunkInv, PartReadInv, ArchiveFailsInv, MalformedInv, ParseWorkbookInv,
     ParseRelsInv, ParseStringsInv, SkipStringsInv, ParseStylesInv, NextSheetInv, ParseSheetInv,
     LoadInv, StutterInv DEF Next
<1> QED BY <1>1, <1>2, PTL DEF Spec

(* The caps hold at every moment, for every package and every setting of them;
   what loads is within them by its true sizes, and what is refused for its size
   is over one. *)
THEOREM CapsAlwaysBound == Spec => []CapsBound
<1>1. Inv => CapsBound
  <2> SUFFICES ASSUME Inv PROVE CapsBound
    OBVIOUS
  <2>1. ASSUME pc = "done"
        PROVE  LeastSums[Reads] <= MaxTotal /\ \A k \in 1 .. Reads : Least(k) <= MaxSingle
    <3>1. Finished = Reads
      BY <2>1, PlaceFacts DEF Inv, Places, Finished, Turn
    <3>2. LeastSums[Reads] \in Nat
      <4>1. Reads \in 0 .. Reads
        BY PlaceFacts
      <4> QED BY <4>1, PlaceFacts, ReadSums
    <3> QED BY <2>1, <3>1, <3>2, CapFacts DEF Inv, Summed, Held
  <2> QED BY <2>1 DEF Inv, Held, Blamed, CapsBound
<1> QED BY <1>1, LoadInvariant, PTL

\* ------------------------------------------------------------- names and sheets
\* A scope reaches the sheet at its position, and only that.
LEMMA ScopesMatch ==
  ASSUME Ordered, NEW t \in Tabs, NEW scope
  PROVE  /\ ScopeOf(scope) = Local(t) <=> scope # None /\ scope = sheets[t].index
         /\ ScopeOf(scope) = Global <=> scope = None
<1>1. \A u : Local(u) # Global /\ Local(u) # LocalUnmapped
  BY DEF Local, Global, LocalUnmapped
<1>2. Global # LocalUnmapped
  BY DEF Global, LocalUnmapped
<1>3. \A u, v : Local(u) = Local(v) => u = v
  BY DEF Local
<1>4. CASE scope = None
  BY <1>1, <1>4 DEF ScopeOf
<1>5. CASE scope # None /\ \E u \in Tabs : sheets[u].index = scope
  <2> DEFINE c == CHOOSE u \in Tabs : sheets[u].index = scope
  <2>1. ScopeOf(scope) = Local(c)
    BY <1>5 DEF ScopeOf
  <2>2. c \in Tabs /\ sheets[c].index = scope
    BY <1>5
  <2>3. c = t <=> scope = sheets[t].index
    <3> HIDE DEF c
    <3> QED BY <2>2 DEF Ordered
  <2> HIDE DEF c
  <2> QED BY <1>1, <1>3, <1>5, <2>1, <2>3
<1>6. CASE scope # None /\ ~ \E u \in Tabs : sheets[u].index = scope
  BY <1>1, <1>2, <1>6 DEF ScopeOf
<1> QED BY <1>4, <1>5, <1>6

LEMMA NamesResolve ==
  ASSUME Inv, pc = "done", NEW t \in Tabs, NEW name
  PROVE  LET Defined(scope) ==
               {i \in DOMAIN package.names :
                  Lower(package.names[i].name) = Lower(name) /\ package.names[i].scope = scope}
             First(S) == CHOOSE i \in S : \A j \in S : i <= j
         IN ResolveName(name, t) =
              IF Defined(sheets[t].index) # {} THEN First(Defined(sheets[t].index))
              ELSE IF Defined(None) # {} THEN First(Defined(None)) ELSE None
<1> DEFINE Defined(scope) ==
             {i \in DOMAIN package.names :
                Lower(package.names[i].name) = Lower(name) /\ package.names[i].scope = scope}
           Scoped(s) == {i \in DOMAIN engine.names :
                Lower(engine.names[i].name) = Lower(name) /\ engine.names[i].scope = s}
           First(S) == CHOOSE i \in S : \A j \in S : i <= j
<1>1. Ordered /\ engine = Loaded /\ sheets[t].index # None
  BY NoneAssumption DEF Inv, Ordered
<1>2. engine.names = [i \in DOMAIN package.names |->
                        [package.names[i] EXCEPT !.scope = ScopeOf(@)]]
  BY <1>1 DEF Loaded
<1>3. ASSUME NEW i \in DOMAIN package.names
      PROVE  /\ engine.names[i].name = package.names[i].name
             /\ engine.names[i].scope = ScopeOf(package.names[i].scope)
  <2>1. DOMAIN package.names[i] = {"name", "scope"}
    BY PlaceFacts, PackageFacts
  <2>2. engine.names[i] = [package.names[i] EXCEPT !.scope = ScopeOf(package.names[i].scope)]
    BY <1>2
  <2> QED BY <2>1, <2>2
<1>4. Scoped(Local(t)) = Defined(sheets[t].index)
  BY <1>1, <1>2, <1>3, ScopesMatch
<1>5. Scoped(Global) = Defined(None)
  BY <1>1, <1>2, <1>3, ScopesMatch
<1>6. ResolveName(name, t) =
        IF Scoped(Local(t)) # {} THEN First(Scoped(Local(t)))
        ELSE IF Scoped(Global) # {} THEN First(Scoped(Global)) ELSE None
  BY DEF ResolveName
<1> QED BY <1>4, <1>5, <1>6

\* A qualified reference reaches its sheet.
LEMMA ReferencesResolve ==
  ASSUME Inv, pc = "done", NEW i \in DOMAIN package.sheets,
         \A j \in DOMAIN package.sheets :
           Lower(package.sheets[j].name) = Lower(package.sheets[i].name) => j = i
  PROVE  LET entry == package.sheets[i]
             tab == ResolveSheet(entry.name)
         IN IF IsWorksheet(entry)
            THEN tab # None /\ sheets[tab].from = package.rels[entry.rid].target
            ELSE tab = None
<1> DEFINE entry == package.sheets[i]
           low == Lower(entry.name)
           tab == ResolveSheet(entry.name)
           ids == engine.sheet_ids
           Bears(t, n) == Lower(sheets[t].name) = n
<1>1. /\ Ordered /\ engine = Loaded /\ at = Len(package.sheets) + 1
      /\ DOMAIN package.sheets = 1 .. Len(package.sheets) /\ Len(package.sheets) \in Nat
      /\ Tabs \subseteq Nat
  <2>1. Ordered /\ engine = Loaded /\ at = Len(package.sheets) + 1 /\ package \in Packages
    BY DEF Inv, Places
  <2>2. DOMAIN package.sheets = 1 .. Len(package.sheets) /\ Len(package.sheets) \in Nat
    BY <2>1, PackageFacts
  <2>3. Tabs \subseteq Nat
    BY <2>1 DEF Ordered, Tabs
  <2> QED BY <2>1, <2>2, <2>3
<1>2. i \in 1 .. at - 1
  BY <1>1
<1>3. ids = [n \in {Lower(sheets[t].name) : t \in Tabs} |->
               CHOOSE t \in Tabs : Bears(t, n) /\ \A u \in Tabs : Bears(u, n) => u <= t]
  BY <1>1 DEF Loaded
<1>4. tab = IF low \in DOMAIN ids THEN ids[low] ELSE None
  BY DEF ResolveSheet
<1>5. low \in DOMAIN ids <=> \E t \in Tabs : Bears(t, low)
  BY <1>3
<1>6. ASSUME NEW t \in Tabs, Bears(t, low)
      PROVE  /\ sheets[t].index = i - 1 /\ IsWorksheet(entry)
             /\ sheets[t].from = package.rels[entry.rid].target
  <2> DEFINE j == sheets[t].index + 1
  <2>1. /\ sheets[t].index \in Nat /\ j \in 1 .. at - 1 /\ IsWorksheet(package.sheets[j])
        /\ sheets[t].name = package.sheets[j].name
        /\ sheets[t].from = package.rels[package.sheets[j].rid].target
    BY <1>1 DEF Ordered
  <2>2. j \in DOMAIN package.sheets /\ Lower(package.sheets[j].name) = low
    BY <1>1, <1>6, <2>1
  <2>3. j = i
    BY <2>2
  <2> QED BY <2>1, <2>3
<1>7. CASE IsWorksheet(entry)
  <2>1. PICK t \in Tabs : sheets[t].index = i - 1
    BY <1>1, <1>2, <1>7 DEF Ordered
  <2>2. sheets[t].index + 1 = i
    BY <1>1, <1>2, <2>1
  <2>3. Bears(t, low)
    <3>1. sheets[t].name = package.sheets[sheets[t].index + 1].name
      BY <1>1 DEF Ordered
    <3> QED BY <2>2, <3>1
  <2>4. \A u \in Tabs : Bears(u, low) => u = t
    <3>1. \A u \in Tabs : Bears(u, low) => sheets[u].index = i - 1
      BY <1>6
    <3> QED BY <1>1, <2>1, <3>1 DEF Ordered
  <2>5. t <= t
    BY <1>1
  <2>6. low \in DOMAIN ids /\ ids[low] = CHOOSE u \in Tabs :
          Bears(u, low) /\ \A v \in Tabs : Bears(v, low) => v <= u
    BY <1>3, <1>5, <2>3
  <2>7. ids[low] = t
    <3>1. Bears(t, low) /\ \A v \in Tabs : Bears(v, low) => v <= t
      BY <2>3, <2>4, <2>5
    <3>2. \A u \in Tabs : (Bears(u, low) /\ \A v \in Tabs : Bears(v, low) => v <= u) => u = t
      BY <2>4
    <3> HIDE DEF Bears, ids, low
    <3> QED BY <2>6, <3>1, <3>2
  <2>8. tab = t /\ t # None
    BY <1>1, <1>4, <2>6, <2>7, NoneAssumption
  <2>9. sheets[t].from = package.rels[entry.rid].target
    BY <1>6, <2>3
  <2> QED BY <1>7, <2>8, <2>9
<1>8. CASE ~IsWorksheet(entry)
  <2>1. tab = None
    BY <1>4, <1>5, <1>6, <1>8
  <2> QED BY <1>8, <2>1
<1> QED BY <1>7, <1>8

(* Names and references mean the sheets they were written for, for every package
   that loads, whatever its relationships, the entries skipped and the scopes. *)
THEOREM NamesKeepTheirSheets == Spec => []NamesKeepSheets
<1>1. Inv => NamesKeepSheets
  <2> SUFFICES ASSUME Inv, pc = "done" PROVE NamesKeepSheets
    BY DEF NamesKeepSheets
  <2>1. skipped + Len(sheets) = Len(package.sheets)
    <3>1. skipped + Len(sheets) = at - 1 /\ at = Len(package.sheets) + 1
      BY DEF Inv, Ordered, Places
    <3>2. Len(package.sheets) \in Nat
      BY PackageFacts DEF Inv, Places
    <3> QED BY <3>1, <3>2
  <2> QED BY <2>1, NamesResolve, ReferencesResolve DEF NamesKeepSheets
<1> QED BY <1>1, LoadInvariant, PTL
=============================================================================
