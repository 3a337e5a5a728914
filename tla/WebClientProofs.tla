-------------------------- MODULE WebClientProofs --------------------------
(***************************************************************************)
(* Theorems about the web client, for all values of the constants: the     *)
(* types of what a tab holds, and lemmas about the sequences and the sets  *)
(* that its stores and the services are built from.                        *)
(***************************************************************************)
EXTENDS WebClientInv, SequenceTheorems, FiniteSetTheorems, WellFoundedInduction,
        TLAPS

(* Sequences *)

\* A function on an initial segment is a sequence of that length.
LEMMA FunctionIsSeq ==
  ASSUME NEW S, NEW n \in Nat, NEW f \in [1..n -> S]
  PROVE  f \in Seq(S) /\ Len(f) = n /\ DOMAIN f = 1..n
BY SeqDef

\* The range of a sequence.
LEMMA SeqRange ==
  ASSUME NEW S, NEW s \in Seq(S)
  PROVE  /\ DOMAIN s = 1..Len(s) /\ Len(s) \in Nat
         /\ \A x : x \in Range(s) <=> \E i \in 1..Len(s) : s[i] = x
         /\ Range(s) \subseteq S
BY LenProperties DEF Range

\* InOrder enumerates a set of positions, each once.
LEMMA InOrderEnumerates ==
  ASSUME NEW n \in Nat, NEW at \in SUBSET (1..n)
  PROVE  /\ Cardinality(at) \in Nat
         /\ \A k \in 1..Cardinality(at) : InOrder(at)[k] \in at
         /\ \A j, k \in 1..Cardinality(at) : InOrder(at)[j] = InOrder(at)[k] => j = k
         /\ \A i \in at : \E k \in 1..Cardinality(at) : InOrder(at)[k] = i
<1> DEFINE c == Cardinality(at)
           before(i) == {j \in at : j < i}
           rank == [i \in at |-> Cardinality(before(i))]
<1>1. IsFiniteSet(at) /\ c \in Nat
  <2>1. 1 \in Int /\ n \in Int
    OBVIOUS
  <2>2. IsFiniteSet(1..n)
    BY <2>1, FS_Interval
  <2> QED BY <2>2, FS_Subset, FS_CardinalityType
<1>2. \A i \in at : IsFiniteSet(before(i)) /\ Cardinality(before(i)) \in Nat
  BY <1>1, FS_Subset, FS_CardinalityType
<1>3. ASSUME NEW i \in at PROVE Cardinality(before(i)) \in 0..(c - 1)
  <2>1. IsFiniteSet(at \ {i}) /\ Cardinality(at \ {i}) = c - 1
    BY <1>1, FS_RemoveElement
  <2>2. before(i) \in SUBSET (at \ {i})
    OBVIOUS
  <2>3. Cardinality(before(i)) <= Cardinality(at \ {i})
    BY <2>1, <2>2, FS_Subset
  <2> QED BY <1>1, <1>2, <2>1, <2>3
<1>4. ASSUME NEW i \in at, NEW j \in at, i < j PROVE Cardinality(before(i)) < Cardinality(before(j))
  <2>1. i \notin before(i) /\ before(i) \union {i} \in SUBSET before(j)
    <3>1. \A k \in at : k \in Int
      OBVIOUS
    <3>2. i \in before(j)
      BY <1>4
    <3>3. \A k \in before(i) : k \in before(j)
      BY <1>4, <3>1
    <3>4. i \notin before(i)
      BY <3>1
    <3> QED BY <3>2, <3>3, <3>4
  <2>2. Cardinality(before(i) \union {i}) = Cardinality(before(i)) + 1
    BY <1>2, <2>1, FS_AddElement
  <2>3. Cardinality(before(i) \union {i}) <= Cardinality(before(j))
    BY <1>2, <2>1, FS_Subset
  <2> HIDE DEF before
  <2> QED BY <1>2, <2>2, <2>3
<1>5. rank \in Injection(at, 0..(c - 1))
  <2> HIDE DEF before
  <2>1. rank \in [at -> 0..(c - 1)]
    BY <1>3
  <2>2. \A i, j \in at : rank[i] = rank[j] => i = j
    <3> SUFFICES ASSUME NEW i \in at, NEW j \in at, rank[i] = rank[j] PROVE i = j
      OBVIOUS
    <3>1. Cardinality(before(i)) = Cardinality(before(j))
      OBVIOUS
    <3>2. ~ (i < j) /\ ~ (j < i)
      BY <1>2, <1>4, <3>1
    <3>3. i \in Int /\ j \in Int
      OBVIOUS
    <3> QED BY <3>2, <3>3
  <2> QED BY <2>1, <2>2 DEF Injection, IsInjective
<1>6. rank \in Surjection(at, 0..(c - 1))
  <2>1. IsFiniteSet(0..(c - 1)) /\ Cardinality(0..(c - 1)) = c
    BY <1>1, FS_Interval
  <2> HIDE DEF rank
  <2> QED BY <1>5, <2>1, FS_Injection
<1>7. \A k \in 1..c : InOrder(at)[k] = CHOOSE i \in at : Cardinality(before(i)) = k - 1
  BY DEF InOrder
<1>8. ASSUME NEW k \in 1..c PROVE InOrder(at)[k] \in at /\ Cardinality(before(InOrder(at)[k])) = k - 1
  <2>1. k - 1 \in 0..(c - 1)
    BY <1>1
  <2>2. \E i \in at : rank[i] = k - 1
    BY <1>6, <2>1 DEF Surjection
  <2>3. \E i \in at : Cardinality(before(i)) = k - 1
    BY <2>2
  <2> HIDE DEF before
  <2> QED BY <1>7, <2>3
<1>9. ASSUME NEW i \in at PROVE \E k \in 1..c : InOrder(at)[k] = i
  <2>1. PICK k \in 1..c : Cardinality(before(i)) = k - 1
    <3>1. Cardinality(before(i)) + 1 \in 1..c
      BY <1>1, <1>3
    <3> HIDE DEF before
    <3> QED BY <1>2, <3>1
  <2>2. InOrder(at)[k] \in at /\ rank[InOrder(at)[k]] = rank[i]
    BY <1>8, <2>1
  <2>3. InOrder(at)[k] = i
    <3> HIDE DEF rank
    <3> QED BY <1>5, <2>2 DEF Injection, IsInjective
  <2> QED BY <2>3
<1>10. \A j, k \in 1..c : InOrder(at)[j] = InOrder(at)[k] => j = k
  <2> HIDE DEF before
  <2> QED BY <1>8
<1> HIDE DEF before
<1> QED BY <1>1, <1>8, <1>9, <1>10

\* Pick takes the elements at some positions, each once.
LEMMA PickTakes ==
  ASSUME NEW S, NEW s \in Seq(S), NEW at \in SUBSET (1..Len(s))
  PROVE  /\ Pick(s, at) \in Seq(S)
         /\ Len(Pick(s, at)) = Cardinality(at) /\ Cardinality(at) \in Nat
         /\ \A k \in 1..Cardinality(at) : /\ InOrder(at)[k] \in at
                                          /\ Pick(s, at)[k] = s[InOrder(at)[k]]
         /\ \A j, k \in 1..Cardinality(at) : InOrder(at)[j] = InOrder(at)[k] => j = k
         /\ \A i \in at : \E k \in 1..Cardinality(at) : InOrder(at)[k] = i
<1>1. Len(s) \in Nat /\ \A i \in 1..Len(s) : s[i] \in S
  BY LenProperties
<1>2. /\ Cardinality(at) \in Nat
      /\ \A k \in 1..Cardinality(at) : InOrder(at)[k] \in at
      /\ \A j, k \in 1..Cardinality(at) : InOrder(at)[j] = InOrder(at)[k] => j = k
      /\ \A i \in at : \E k \in 1..Cardinality(at) : InOrder(at)[k] = i
  BY <1>1, InOrderEnumerates
<1>3. Pick(s, at) \in [1..Cardinality(at) -> S]
  BY <1>1, <1>2 DEF Pick
<1>4. \A k \in 1..Cardinality(at) : Pick(s, at)[k] = s[InOrder(at)[k]]
  BY DEF Pick
<1> QED BY <1>2, <1>3, <1>4, FunctionIsSeq

\* Reverse has the same elements.
LEMMA ReverseTakes ==
  ASSUME NEW S, NEW s \in Seq(S)
  PROVE  /\ Reverse(s) \in Seq(S) /\ Len(Reverse(s)) = Len(s)
         /\ \A i \in 1..Len(s) : Reverse(s)[i] = s[(Len(s) - i) + 1]
<1>1. Len(s) \in Nat /\ \A i \in 1..Len(s) : s[i] \in S
  BY LenProperties
<1>2. \A i \in 1..Len(s) : (Len(s) - i) + 1 \in 1..Len(s)
  BY <1>1
<1>3. Reverse(s) \in [1..Len(s) -> S]
  BY <1>1, <1>2 DEF Reverse
<1> QED BY <1>1, <1>3, FunctionIsSeq DEF Reverse

\* RemoveAt leaves the other elements, in their order.
LEMMA RemoveAtKeeps ==
  ASSUME NEW S, NEW s \in Seq(S), NEW i \in 1..Len(s)
  PROVE  /\ RemoveAt(s, i) \in Seq(S)
         /\ Len(RemoveAt(s, i)) = Len(s) - 1
         /\ \A k \in 1..(Len(s) - 1) : RemoveAt(s, i)[k] = s[IF k < i THEN k ELSE k + 1]
<1> DEFINE l == SubSeq(s, 1, i - 1)
           r == SubSeq(s, i + 1, Len(s))
<1>1. Len(s) \in Nat /\ (\A k \in 1..Len(s) : s[k] \in S) /\ i \in Int
  BY LenProperties
<1>2. /\ l \in Seq(S) /\ Len(l) = i - 1
      /\ \A k \in 1..(i - 1) : l[k] = s[k]
  <2>1. 1 \in Int /\ i - 1 \in Int /\ \A k \in 1..(i - 1) : s[k] \in S
    BY <1>1
  <2>2. /\ l \in Seq(S)
        /\ Len(l) = IF 1 <= i - 1 THEN (i - 1) - 1 + 1 ELSE 0
        /\ \A k \in 1..((i - 1) - 1 + 1) : l[k] = s[1 + k - 1]
    BY <2>1, SubSeqProperties
  <2> HIDE DEF l
  <2> QED BY <1>1, <2>2
<1>3. /\ r \in Seq(S) /\ Len(r) = Len(s) - i
      /\ \A k \in 1..(Len(s) - i) : r[k] = s[i + k]
  <2>1. i + 1 \in Int /\ Len(s) \in Int /\ \A k \in (i + 1)..Len(s) : s[k] \in S
    BY <1>1
  <2>2. /\ r \in Seq(S)
        /\ Len(r) = IF i + 1 <= Len(s) THEN Len(s) - (i + 1) + 1 ELSE 0
        /\ \A k \in 1..(Len(s) - (i + 1) + 1) : r[k] = s[(i + 1) + k - 1]
    BY <2>1, SubSeqProperties
  <2> HIDE DEF r
  <2> QED BY <1>1, <2>2
<1>4. RemoveAt(s, i) = l \o r
  BY DEF RemoveAt
<1> HIDE DEF l, r
<1>5. /\ l \o r \in Seq(S) /\ Len(l \o r) = Len(s) - 1
      /\ \A k \in 1..(Len(s) - 1) : (l \o r)[k] = IF k <= i - 1 THEN l[k] ELSE r[k - (i - 1)]
  <2>1. /\ l \o r \in Seq(S) /\ Len(l \o r) = Len(l) + Len(r)
        /\ \A k \in 1..(Len(l) + Len(r)) : (l \o r)[k] = IF k <= Len(l) THEN l[k] ELSE r[k - Len(l)]
    BY <1>2, <1>3, ConcatProperties
  <2>2. Len(l) + Len(r) = Len(s) - 1
    BY <1>1, <1>2, <1>3
  <2> QED BY <1>2, <2>1, <2>2
<1>6. ASSUME NEW k \in 1..(Len(s) - 1)
      PROVE  (l \o r)[k] = s[IF k < i THEN k ELSE k + 1]
  <2>1. CASE k < i
    <3>1. k \in 1..(i - 1) /\ k <= i - 1
      BY <1>1, <2>1
    <3> QED BY <1>2, <1>5, <2>1, <3>1
  <2>2. CASE ~ (k < i)
    <3>1. k - (i - 1) \in 1..(Len(s) - i) /\ ~ (k <= i - 1) /\ i + (k - (i - 1)) = k + 1
      BY <1>1, <2>2
    <3> QED BY <1>3, <1>5, <2>2, <3>1
  <2> QED BY <2>1, <2>2
<1> QED BY <1>4, <1>5, <1>6
-----------------------------------------------------------------------------
(* Numbers *)

\* A set of natural numbers has a least one.
LEMMA LeastOf ==
  ASSUME NEW T, T \subseteq Nat, T # {}
  PROVE  \E x \in T : \A y \in T : x <= y
<1> DEFINE R == {ss \in Nat \X Nat : ss[1] < ss[2]}
<1>1. IsWellFoundedOn(R, Nat)
  BY NatLessThanWellFounded, Zenon DEF OpToRel
<1> HIDE DEF R
<1>2. PICK x \in T : \A y \in T : ~ (<<y, x>> \in R)
  BY <1>1, WFMin, Zenon
<1>3. \A y \in T : y < x => <<y, x>> \in R
  BY DEF R
<1>4. \A y \in T : ~ (y < x) /\ x \in Nat /\ y \in Nat
  BY <1>2, <1>3
<1>5. \A y \in T : x <= y
  BY <1>4
<1> QED BY <1>5

\* A bounded set of natural numbers has a greatest one, which Max is.
LEMMA MaxOf ==
  ASSUME NEW T, T \subseteq Nat, T # {}, NEW n \in Nat, \A x \in T : x <= n
  PROVE  Max(T) \in T /\ \A x \in T : x <= Max(T)
<1> DEFINE D == {n - x : x \in T}
<1>1. D \subseteq Nat /\ D # {}
  <2>1. \A x \in T : n - x \in Nat
    OBVIOUS
  <2>2. PICK x \in T : TRUE
    OBVIOUS
  <2>3. n - x \in D
    OBVIOUS
  <2> QED BY <2>1, <2>3
<1>2. PICK d \in D : \A e \in D : d <= e
  <2> HIDE DEF D
  <2> QED BY <1>1, LeastOf
<1>3. PICK m \in T : d = n - m
  OBVIOUS
<1>4. \A x \in T : m >= x
  <2> SUFFICES ASSUME NEW x \in T PROVE m >= x
    OBVIOUS
  <2>1. n - x \in D
    OBVIOUS
  <2>2. n - m <= n - x
    BY <1>2, <1>3, <2>1
  <2> QED BY <2>2
<1>5. Max(T) \in T /\ \A y \in T : Max(T) >= y
  BY <1>4 DEF Max
<1> QED BY <1>5

\* Max of two.
LEMMA MaxOfTwo ==
  ASSUME NEW a \in Nat, NEW b \in Nat
  PROVE  Max({a, b}) \in Nat /\ a <= Max({a, b}) /\ b <= Max({a, b}) /\ Max({a, b}) \in {a, b}
<1>1. PICK n \in Nat : a <= n /\ b <= n
  <2>1. a + b \in Nat /\ a <= a + b /\ b <= a + b
    OBVIOUS
  <2> QED BY <2>1
<1>2. {a, b} \subseteq Nat /\ {a, b} # {} /\ \A x \in {a, b} : x <= n
  BY <1>1
<1> HIDE <1>1
<1>3. Max({a, b}) \in {a, b} /\ \A x \in {a, b} : x <= Max({a, b})
  BY <1>2, MaxOf
<1> QED BY <1>3

\* Min of two.
LEMMA MinOfTwo ==
  ASSUME NEW a \in Int, NEW b \in Int
  PROVE  Min({a, b}) \in {a, b} /\ Min({a, b}) <= a /\ Min({a, b}) <= b
<1>1. \E x \in {a, b} : \A y \in {a, b} : x =< y
  <2>1. CASE a <= b
    BY <2>1
  <2>2. CASE ~ (a <= b)
    BY <2>2
  <2> QED BY <2>1, <2>2
<1> QED BY <1>1 DEF Min

\* The natural numbers in a sequence are bounded.
LEMMA SeqBounded ==
  ASSUME NEW n \in Nat, NEW f, \A i \in 1..n : f[i] \in Nat
  PROVE  \E m \in Nat : \A i \in 1..n : f[i] <= m
<1> DEFINE Bounded(k) == \E m \in Nat : \A i \in 1..k : f[i] <= m
           T == {k \in 0..n : ~ Bounded(k)}
<1> SUFFICES ASSUME ~ Bounded(n) PROVE FALSE
  OBVIOUS
<1>1. T \subseteq Nat /\ n \in T
  OBVIOUS
<1>2. PICK k \in T : \A l \in T : k <= l
  <2> HIDE DEF T
  <2> QED BY <1>1, LeastOf
<1>3. Bounded(0)
  <2>1. \A i \in 1..0 : f[i] <= 0
    OBVIOUS
  <2> QED BY <2>1
<1>4. k # 0 /\ k \in 0..n /\ ~ Bounded(k)
  BY <1>3
<1>5. k - 1 \in 0..n /\ k \in 1..n /\ k - 1 \notin T
  <2> HIDE DEF T, Bounded
  <2>1. k - 1 \in 0..n /\ k \in 1..n /\ ~ (k <= k - 1)
    BY <1>4
  <2> QED BY <1>2, <2>1
<1>6. PICK m \in Nat : \A i \in 1..(k - 1) : f[i] <= m
  BY <1>5
<1>7. f[k] \in Nat /\ m + f[k] \in Nat
  BY <1>5
<1>8. \A i \in 1..k : f[i] <= m + f[k]
  <2> SUFFICES ASSUME NEW i \in 1..k PROVE f[i] <= m + f[k]
    OBVIOUS
  <2>1. f[i] \in Nat
    BY <1>5
  <2>2. CASE i = k
    BY <1>7, <2>2
  <2>3. CASE i # k
    <3>1. i \in 1..(k - 1)
      BY <1>5, <2>3
    <3> QED BY <1>6, <1>7, <2>1, <3>1
  <2> QED BY <2>2, <2>3
<1> QED BY <1>4, <1>7, <1>8

\* What is closed downwards among 1..n is an initial segment.
LEMMA PrefixIsInterval ==
  ASSUME NEW n \in Nat, NEW P, P \subseteq 1..n, \A i \in P : \A j \in 1..i : j \in P
  PROVE  \E m \in 0..n : P = 1..m
<1> DEFINE T == {k \in Nat : k + 1 \notin P}
<1>1. T \subseteq Nat /\ n \in T
  OBVIOUS
<1>2. PICK m \in T : \A l \in T : m <= l
  <2> HIDE DEF T
  <2> QED BY <1>1, LeastOf
<1>3. m \in Nat /\ m <= n /\ m + 1 \notin P
  BY <1>1, <1>2
<1>4. \A i \in 1..m : i \in P
  <2> SUFFICES ASSUME NEW i \in 1..m, i \notin P PROVE FALSE
    OBVIOUS
  <2>1. i - 1 \in T
    BY <1>3
  <2> QED BY <1>2, <1>3, <2>1
<1>5. \A i \in P : i <= m
  <2> SUFFICES ASSUME NEW i \in P, ~ (i <= m) PROVE FALSE
    OBVIOUS
  <2>1. i \in Int /\ m + 1 \in 1..i
    BY <1>3
  <2> QED BY <1>3, <2>1
<1>6. \A i \in P : i \in 1..m
  BY <1>3, <1>5
<1>7. P = 1..m
  BY <1>4, <1>6
<1>8. m \in 0..n
  BY <1>3
<1> QED BY <1>7, <1>8

\* Division keeps the order.
LEMMA DivMono ==
  ASSUME NEW a \in Nat, NEW b \in Nat, NEW n \in Nat \ {0}, a <= b
  PROVE  a \div n <= b \div n
<1> DEFINE p == a \div n
           q == b \div n
<1>1. p \in Int /\ q \in Int /\ n * p <= a /\ b < n * q + n
  OBVIOUS
<1> HIDE DEF p, q
<1>2. ASSUME q + 1 <= p PROVE n * (q + 1) <= n * p
  BY <1>1, <1>2
<1>3. n * (q + 1) = n * q + n
  BY <1>1
<1> QED BY <1>1, <1>2, <1>3 DEF p, q
-----------------------------------------------------------------------------
(* Calls *)

Kinds == {"search", "details", "bids", "place", "create", "update", "delete"}

\* The arguments of a call of the kind, and what is no failure in its answers.
ArgsOf(kind) ==
  CASE kind = "search"  -> Params
    [] kind = "details" -> AuctionId
    [] kind = "bids"    -> AuctionId \union {None}
    [] kind = "place"   -> [auctionId : AuctionId, amount : Offer]
    [] kind = "create"  -> [item : SomeCar]
    [] kind = "update"  -> [auctionId : AuctionId, item : SomeCar, was : SomeCar,
                            typed : SUBSET Field]
    [] kind = "delete"  -> [auctionId : AuctionId \union {None}]

DataOf(kind) ==
  CASE kind = "search"  -> SomeList
    [] kind = "details" -> Row
    [] kind = "bids"    -> Seq(Bid)
    [] kind = "place"   -> Bid
    [] kind = "create"  -> AuctionId
    [] kind = "update"  -> {Done}
    [] kind = "delete"  -> {Done}

\* A call is one of the kinds, with the arguments and the answers of that kind.
LEMMA CallTypes ==
  ASSUME NEW c
  PROVE  c \in SomeCall <=>
           \E kind \in Kinds : c \in CallOf(kind, ArgsOf(kind), DataOf(kind))
<1>1. \A kind :
        /\ kind = "search" => ArgsOf(kind) = Params /\ DataOf(kind) = SomeList
        /\ kind = "details" => ArgsOf(kind) = AuctionId /\ DataOf(kind) = Row
        /\ kind = "bids" => ArgsOf(kind) = AuctionId \union {None} /\ DataOf(kind) = Seq(Bid)
        /\ kind = "place" => ArgsOf(kind) = [auctionId : AuctionId, amount : Offer] /\ DataOf(kind) = Bid
        /\ kind = "create" => ArgsOf(kind) = [item : SomeCar] /\ DataOf(kind) = AuctionId
        /\ kind = "update" => /\ ArgsOf(kind) = [auctionId : AuctionId, item : SomeCar, was : SomeCar,
                                                 typed : SUBSET Field]
                              /\ DataOf(kind) = {Done}
        /\ kind = "delete" => ArgsOf(kind) = [auctionId : AuctionId \union {None}] /\ DataOf(kind) = {Done}
  BY DEF ArgsOf, DataOf
<1>2. \A kind : kind \in Kinds <=>
        \/ kind = "search" \/ kind = "details" \/ kind = "bids" \/ kind = "place"
        \/ kind = "create" \/ kind = "update" \/ kind = "delete"
  BY DEF Kinds
<1>3. ASSUME c \in SomeCall
      PROVE  \E kind \in Kinds : c \in CallOf(kind, ArgsOf(kind), DataOf(kind))
  BY <1>1, <1>2, <1>3, Zenon DEF SomeCall
<1>4. ASSUME NEW kind \in Kinds, c \in CallOf(kind, ArgsOf(kind), DataOf(kind))
      PROVE  c \in SomeCall
  <2>1. CASE kind = "search"
    BY <1>1, <1>4, <2>1, Zenon DEF SomeCall
  <2>2. CASE kind = "details"
    BY <1>1, <1>4, <2>2, Zenon DEF SomeCall
  <2>3. CASE kind = "bids"
    BY <1>1, <1>4, <2>3, Zenon DEF SomeCall
  <2>4. CASE kind = "place"
    BY <1>1, <1>4, <2>4, Zenon DEF SomeCall
  <2>5. CASE kind = "create"
    BY <1>1, <1>4, <2>5, Zenon DEF SomeCall
  <2>6. CASE kind = "update"
    BY <1>1, <1>4, <2>6, Zenon DEF SomeCall
  <2>7. CASE kind = "delete"
    BY <1>1, <1>4, <2>7, Zenon DEF SomeCall
  <2> QED BY <1>2, <2>1, <2>2, <2>3, <2>4, <2>5, <2>6, <2>7
<1> QED BY <1>3, <1>4

\* The fields of a call, by its kind.
LEMMA CallFields ==
  ASSUME NEW c \in SomeCall
  PROVE  /\ c.kind \in Kinds
         /\ c.args \in ArgsOf(c.kind)
         /\ c.left \in {"no", "page", "queue"}
         /\ c.answer \in {None, Error, Rejected} \union DataOf(c.kind)
         /\ c = [kind |-> c.kind, args |-> c.args, left |-> c.left, answer |-> c.answer]
<1>1. PICK kind \in Kinds : c \in CallOf(kind, ArgsOf(kind), DataOf(kind))
  BY CallTypes
<1>2. /\ c.kind = kind /\ c.args \in ArgsOf(kind) /\ c.left \in {"no", "page", "queue"}
      /\ c.answer \in {None, Error, Rejected} \union DataOf(kind)
      /\ c = [kind |-> c.kind, args |-> c.args, left |-> c.left, answer |-> c.answer]
  BY <1>1 DEF CallOf
<1> QED BY <1>2

\* A record with such fields is a call.
LEMMA IsCall ==
  ASSUME NEW kind \in Kinds, NEW args \in ArgsOf(kind), NEW left \in {"no", "page", "queue"},
         NEW answer \in {None, Error, Rejected} \union DataOf(kind)
  PROVE  [kind |-> kind, args |-> args, left |-> left, answer |-> answer] \in SomeCall
<1> DEFINE c == [kind |-> kind, args |-> args, left |-> left, answer |-> answer]
<1>1. c \in CallOf(kind, ArgsOf(kind), DataOf(kind))
  BY DEF CallOf
<1> HIDE DEF c
<1>2. c \in SomeCall
  BY <1>1, CallTypes
<1> QED BY <1>2 DEF c

\* A call that is taken out of the queue.
LEMMA CallLeft ==
  ASSUME NEW c \in SomeCall, NEW left \in {"no", "page", "queue"}
  PROVE  /\ [c EXCEPT !.left = left] \in SomeCall
         /\ [c EXCEPT !.left = left].kind = c.kind
         /\ [c EXCEPT !.left = left].args = c.args
         /\ [c EXCEPT !.left = left].answer = c.answer
         /\ [c EXCEPT !.left = left].left = left
<1>1. [c EXCEPT !.left = left] = [kind |-> c.kind, args |-> c.args, left |-> left, answer |-> c.answer]
  BY CallFields
<1>2. [kind |-> c.kind, args |-> c.args, left |-> left, answer |-> c.answer] \in SomeCall
  BY CallFields, IsCall
<1> QED BY <1>1, <1>2

\* A call that is answered.
LEMMA CallAnswer ==
  ASSUME NEW c \in SomeCall, NEW answer \in {None, Error, Rejected} \union DataOf(c.kind)
  PROVE  /\ [c EXCEPT !.answer = answer] \in SomeCall
         /\ [c EXCEPT !.answer = answer].kind = c.kind
         /\ [c EXCEPT !.answer = answer].args = c.args
         /\ [c EXCEPT !.answer = answer].answer = answer
         /\ [c EXCEPT !.answer = answer].left = c.left
<1>1. [c EXCEPT !.answer = answer] = [kind |-> c.kind, args |-> c.args, left |-> c.left, answer |-> answer]
  BY CallFields
<1>2. [kind |-> c.kind, args |-> c.args, left |-> c.left, answer |-> answer] \in SomeCall
  BY CallFields, IsCall
<1> QED BY <1>1, <1>2

\* A new call.
LEMMA NewCall ==
  ASSUME NEW kind \in Kinds, NEW args \in ArgsOf(kind)
  PROVE  /\ Call(kind, args) \in SomeCall
         /\ Call(kind, args).kind = kind /\ Call(kind, args).args = args
         /\ Call(kind, args).left = "no" /\ Call(kind, args).answer = None
<1>1. [kind |-> kind, args |-> args, left |-> "no", answer |-> None] \in SomeCall
  BY IsCall
<1> QED BY <1>1 DEF Call

\* The calls in flight are the first ones.
LEMMA InFlightFirst ==
  ASSUME NEW cs \in Seq(SomeCall)
  PROVE  /\ \E m \in 0..Len(cs) : InFlight(cs) = 1..m
         /\ \A i \in InFlight(cs) : i \in 1..Len(cs)
<1>1. DOMAIN cs = 1..Len(cs) /\ Len(cs) \in Nat
  BY LenProperties
<1>2. InFlight(cs) \subseteq 1..Len(cs)
  BY <1>1 DEF InFlight
<1>3. \A i \in InFlight(cs) : \A j \in 1..i : j \in InFlight(cs)
  <2> SUFFICES ASSUME NEW i \in InFlight(cs), NEW j \in 1..i PROVE j \in InFlight(cs)
    OBVIOUS
  <2>1. i \in 1..Len(cs) /\ \A k \in 1..(i - 1) : cs[k].left # "no"
    BY <1>1 DEF InFlight
  <2>2. j \in DOMAIN cs /\ \A k \in 1..(j - 1) : k \in 1..(i - 1)
    BY <1>1, <2>1
  <2> QED BY <2>1, <2>2 DEF InFlight
<1> HIDE <1>1
<1>4. Len(cs) \in Nat
  BY <1>1
<1>5. \E m \in 0..Len(cs) : InFlight(cs) = 1..m
  BY <1>2, <1>3, <1>4, PrefixIsInterval
<1> QED BY <1>2, <1>5

\* The calls that a navigation leaves behind are calls from before, with the same
\* answers, and none of them is waited for.
LEMMA LeftFacts ==
  ASSUME NEW cs \in Seq(SomeCall), NEW ds \in {Left(cs), Detached(cs)}
  PROVE  /\ ds \in Seq(SomeCall) /\ Len(ds) \in Nat /\ Len(ds) <= Len(cs)
         /\ \A i \in 1..Len(ds) :
              /\ i \in 1..Len(cs)
              /\ ds[i].kind = cs[i].kind /\ ds[i].args = cs[i].args
              /\ ds[i].answer = cs[i].answer /\ ds[i].left # "no"
<1>1. PICK m \in 0..Len(cs) : InFlight(cs) = 1..m
  BY InFlightFirst
<1>2. Len(cs) \in Nat /\ (\A i \in 1..Len(cs) : cs[i] \in SomeCall) /\ m \in Nat
      /\ \A i \in 1..m : i \in 1..Len(cs)
  BY LenProperties
<1>3. ASSUME NEW i \in 1..m
      PROVE  /\ ds[i] \in SomeCall /\ ds[i].kind = cs[i].kind /\ ds[i].args = cs[i].args
             /\ ds[i].answer = cs[i].answer /\ ds[i].left # "no"
  <2>1. cs[i] \in SomeCall /\ cs[i].left \in {"no", "page", "queue"}
    BY <1>2, CallFields
  <2>2. ds[i] \in {[cs[i] EXCEPT !.left = "page"],
                   [cs[i] EXCEPT !.left = IF cs[i].left = "no" THEN "queue" ELSE cs[i].left]}
    BY <1>1 DEF Left, Detached
  <2>3. PICK left \in {"page", "queue"} : ds[i] = [cs[i] EXCEPT !.left = left]
    BY <2>1, <2>2
  <2>4. left \in {"no", "page", "queue"} /\ left # "no"
    OBVIOUS
  <2> DEFINE c == cs[i]
             d == [c EXCEPT !.left = left]
  <2>5. /\ d \in SomeCall /\ d.kind = c.kind /\ d.args = c.args /\ d.answer = c.answer
        /\ d.left = left
    <3> HIDE DEF c
    <3>1. c \in SomeCall
      BY <2>1 DEF c
    <3> QED BY <2>4, <3>1, CallLeft
  <2>6. ds[i] = d
    BY <2>3
  <2> HIDE DEF d
  <2> QED BY <2>4, <2>5, <2>6
<1>4. ds \in [1..m -> SomeCall]
  <2>1. ds = [i \in 1..m |-> ds[i]]
    BY <1>1 DEF Left, Detached
  <2> QED BY <1>3, <2>1
<1>5. ds \in Seq(SomeCall) /\ Len(ds) = m
  BY <1>2, <1>4, FunctionIsSeq
<1> HIDE DEF InFlight
<1>6. Len(ds) \in Nat /\ Len(ds) <= Len(cs)
  BY <1>2, <1>5
<1>7. \A i \in 1..Len(ds) : i \in 1..m
  BY <1>5
<1> QED BY <1>2, <1>3, <1>5, <1>6, <1>7

\* A sequence with one element more.
LEMMA AppendFacts ==
  ASSUME NEW S, NEW s \in Seq(S), NEW x \in S
  PROVE  /\ Append(s, x) \in Seq(S) /\ Len(s) \in Nat
         /\ Len(Append(s, x)) = Len(s) + 1
         /\ \A i \in 1..Len(s) : Append(s, x)[i] = s[i] /\ i \in 1..Len(Append(s, x))
         /\ Append(s, x)[Len(s) + 1] = x
         /\ \A i \in 1..Len(Append(s, x)) : i \in 1..Len(s) \/ i = Len(s) + 1
         /\ s \o <<x>> = Append(s, x) /\ s \o <<>> = s
<1>1. Append(s, x) \in Seq(S) /\ Len(s) \in Nat /\ Len(Append(s, x)) = Len(s) + 1
  BY AppendProperties, LenProperties
<1>2. \A i \in 1..Len(s) : Append(s, x)[i] = s[i]
  BY AppendProperties
<1>3. Append(s, x)[Len(s) + 1] = x
  OBVIOUS
<1>4. s \o <<x>> = Append(s, x) /\ s \o <<>> = s
  BY AppendIsConcat, ConcatEmptySeq
<1> QED BY <1>1, <1>2, <1>3, <1>4

-----------------------------------------------------------------------------
(* Services *)

\* An auction that can be found has a row.
LEMMA ExistsFacts ==
  ASSUME ServicesType, NEW a
  PROVE  /\ Exists(a) /\ a \in AuctionId => rows[a] \in Row /\ a # None
         /\ ~ Exists(None)
BY NoneAssumption DEF ServicesType, Exists

\* The users of the session.
LEMMA UserTypes ==
  ASSUME session \in Session
  PROVE  CurrentUser \in User \union {None} /\ Authorized \in User \union {None}
BY DEF Session, CurrentUser, Authorized

\* An auction that is asked for is a row, or an error.
LEMMA AuctionAnswer ==
  ASSUME ServicesType, NEW a \in AuctionId \union {None}
  PROVE  /\ HandleResponse(GetAuctionById(a)) \in Row \union {Error}
         /\ a = None => HandleResponse(GetAuctionById(a)) = Error
         /\ Exists(a) => HandleResponse(GetAuctionById(a)) = rows[a]
         /\ ~ Exists(a) => HandleResponse(GetAuctionById(a)) = Error
<1>1. CASE Exists(a)
  <2>1. a \in AuctionId /\ a # None /\ rows[a] \in Row
    BY <1>1, ExistsFacts
  <2> QED BY <1>1, <2>1 DEF HandleResponse, GetAuctionById, Ok, Refused
<1>2. CASE ~ Exists(a)
  BY <1>2 DEF HandleResponse, GetAuctionById, Ok, Refused
<1>3. ~ Exists(None)
  BY ExistsFacts
<1> QED BY <1>1, <1>2, <1>3

\* The next bid.
LEMMA NewBidType ==
  ASSUME ServicesType, NEW a \in AuctionId, NEW amount \in Nat
  PROVE  /\ NewBid(a, amount) \in Bid
         /\ NewBid(a, amount).id = Len(bids) + 1
         /\ Append(bids, NewBid(a, amount)) \in Seq(Bid)
         /\ Len(bids) \in Nat /\ Len(Append(bids, NewBid(a, amount))) = Len(bids) + 1
         /\ \A i \in 1..Len(bids) : Append(bids, NewBid(a, amount))[i] = bids[i]
         /\ Append(bids, NewBid(a, amount))[Len(bids) + 1] = NewBid(a, amount)
<1>1. Len(bids) \in Nat
  BY LenProperties DEF ServicesType
<1>2. StatusOf(a, amount) \in BidStatus
  BY DEF StatusOf, BidStatus
<1>3. NewBid(a, amount) \in Bid /\ NewBid(a, amount).id = Len(bids) + 1
  BY <1>1, <1>2 DEF NewBid, Bid
<1> HIDE DEF NewBid
<1> QED BY <1>1, <1>3, AppendFacts DEF ServicesType

\* The highest of the amounts of some bids in a sequence of bids, or 0.
LEMMA HighestOf ==
  ASSUME NEW s \in Seq(Bid), NEW B \in SUBSET Range(s)
  PROVE  LET T == {0} \union Amounts(B)
         IN  Max(T) \in T /\ Max(T) \in Nat /\ \A x \in T : x <= Max(T)
<1> DEFINE T == {0} \union Amounts(B)
<1>1. Len(s) \in Nat /\ \A i \in 1..Len(s) : s[i].amount \in Nat
  <2>1. \A i \in 1..Len(s) : s[i] \in Bid
    BY ElementOfSeq
  <2> QED BY <2>1, LenProperties DEF Bid
<1>2. \A b \in B : \E i \in 1..Len(s) : s[i] = b
  BY SeqRange
<1>3. PICK n \in Nat : \A i \in 1..Len(s) : s[i].amount <= n
  <2> DEFINE f == [i \in 1..Len(s) |-> s[i].amount]
  <2>1. \A i \in 1..Len(s) : f[i] \in Nat
    BY <1>1
  <2>2. \A i \in 1..Len(s) : f[i] = s[i].amount
    OBVIOUS
  <2> HIDE DEF f
  <2>3. PICK n \in Nat : \A i \in 1..Len(s) : f[i] <= n
    BY <1>1, <2>1, SeqBounded
  <2> QED BY <2>2, <2>3
<1>4. T \subseteq Nat /\ T # {} /\ \A x \in T : x <= n
  BY <1>2, <1>1, <1>3 DEF Amounts
<1> HIDE DEF T
<1>5. Max(T) \in T /\ \A x \in T : x <= Max(T)
  BY <1>4, MaxOf
<1> QED BY <1>4, <1>5 DEF T

\* What a query finds are auctions that match it.
LEMMA HitsType ==
  ASSUME NEW q \in Params
  PROVE  /\ Hits(q) \in Seq(AuctionId) /\ Len(Hits(q)) \in Nat
         /\ Len(Hits(q)) = Cardinality({i \in 1..Len(Order[q.orderBy]) : Matches(q, Order[q.orderBy][i])})
<1> DEFINE all == Order[q.orderBy]
           at == {i \in DOMAIN all : Matches(q, all[i])}
<1>1. all \in Seq(AuctionId)
  BY ParamsAssumption DEF Params
<1>2. Hits(q) = Pick(all, at)
  BY DEF Hits
<1>3. DOMAIN all = 1..Len(all) /\ at = {i \in 1..Len(all) : Matches(q, all[i])}
  BY <1>1, LenProperties
<1>4. at \in SUBSET (1..Len(all))
  BY <1>3
<1> HIDE DEF all, at
<1>5. Pick(all, at) \in Seq(AuctionId) /\ Len(Pick(all, at)) = Cardinality(at) /\ Cardinality(at) \in Nat
  BY <1>1, <1>4, PickTakes
<1> QED BY <1>2, <1>3, <1>5 DEF all

\* How many pages there are for some hits.
LEMMA PagesType ==
  ASSUME NEW n \in Nat, NEW size \in Nat \ {0}
  PROVE  (n + size - 1) \div size \in Nat
<1> DEFINE m == n + size - 1
           d == m \div size
<1>1. m \in Nat /\ 0 \in Nat /\ 0 <= m
  OBVIOUS
<1>2. d \in Int
  BY <1>1
<1> HIDE DEF m
<1>3. 0 \div size <= d
  BY <1>1, DivMono
<1>4. 0 \div size = 0
  OBVIOUS
<1> HIDE DEF d
<1>5. d \in Nat
  BY <1>2, <1>3, <1>4
<1> QED BY <1>5 DEF d, m

\* The answer to a search is a list of offered prices.
LEMMA SearchAnswer ==
  ASSUME ServicesType, NEW q \in Params, NEW hits \in Seq(AuctionId)
  PROVE  /\ SearchItems(q, hits) \in SomeList
         /\ SearchItems(q, hits).pageCount = (Len(hits) + q.pageSize - 1) \div q.pageSize
         /\ \A x \in Range(SearchItems(q, hits).results) : Offered(x)
<1> DEFINE skip == (q.pageNumber - 1) * q.pageSize
           last == Min({skip + q.pageSize, Len(hits)})
           found == SubSeq(hits, skip + 1, last)
           res == [i \in DOMAIN found |-> [id |-> found[i], currentHighBid |-> prices[found[i]]]]
           pages == (Len(hits) + q.pageSize - 1) \div q.pageSize
<1>1. q.pageNumber \in Nat \ {0} /\ q.pageSize \in Nat \ {0} /\ Len(hits) \in Nat
  BY LenProperties, ParamsAssumption DEF Params
<1>2. skip \in Nat
  <2> DEFINE n == q.pageNumber - 1
             size == q.pageSize
  <2>1. n \in Nat /\ size \in Nat
    BY <1>1
  <2> HIDE DEF n, size
  <2>2. n * size \in Nat
    BY <2>1
  <2> QED BY <2>2 DEF n, size
<1> HIDE DEF skip
<1>3. last \in Int /\ last <= Len(hits) /\ skip + 1 \in Int /\ skip + 1 >= 1
  <2>1. skip + q.pageSize \in Int /\ Len(hits) \in Int
    BY <1>1, <1>2
  <2>2. last \in {skip + q.pageSize, Len(hits)} /\ last <= Len(hits)
    BY <2>1, MinOfTwo
  <2> HIDE DEF last
  <2> QED BY <1>2, <2>1, <2>2
<1> HIDE DEF last
<1>4. \A i \in (skip + 1)..last : hits[i] \in AuctionId
  <2>1. \A i \in (skip + 1)..last : i \in 1..Len(hits)
    BY <1>1, <1>2, <1>3
  <2> QED BY <2>1, ElementOfSeq
<1>5. found \in Seq(AuctionId)
  BY <1>3, <1>4, SubSeqProperties
<1> HIDE DEF found
<1>6. DOMAIN found = 1..Len(found) /\ Len(found) \in Nat /\ \A i \in 1..Len(found) : found[i] \in AuctionId
  BY <1>5, LenProperties
<1>7. res \in [1..Len(found) -> [id : AuctionId, currentHighBid : Nat]]
  <2> SUFFICES ASSUME NEW i \in 1..Len(found)
               PROVE  [id |-> found[i], currentHighBid |-> prices[found[i]]]
                        \in [id : AuctionId, currentHighBid : Nat]
    BY <1>6
  <2>1. found[i] \in AuctionId /\ prices[found[i]] \in Nat
    BY <1>6 DEF ServicesType
  <2> QED BY <2>1
<1>8. res \in Seq([id : AuctionId, currentHighBid : Nat]) /\ Len(res) = Len(found)
  BY <1>6, <1>7, FunctionIsSeq
<1>9. \A x \in Range(res) : Offered(x)
  <2> SUFFICES ASSUME NEW x \in Range(res) PROVE Offered(x)
    OBVIOUS
  <2>1. \E i \in 1..Len(res) : res[i] = x
    <3> HIDE DEF res
    <3> QED BY <1>8, SeqRange
  <2>2. PICK i \in 1..Len(found) : x = [id |-> found[i], currentHighBid |-> prices[found[i]]]
    BY <1>6, <1>8, <2>1
  <2>3. found[i] \in AuctionId
    BY <1>6
  <2>4. x.currentHighBid \in {0} \union Amounts(PricedBids(x.id))
    BY <2>2, <2>3 DEF ServicesType
  <2> QED BY <2>4 DEF Offered
<1>10. pages \in Nat
  BY <1>1, PagesType
<1>11. SearchItems(q, hits) = [results |-> res, totalCount |-> Len(hits), pageCount |-> pages]
  BY DEF SearchItems, skip, last, found
<1> HIDE DEF res, pages
<1>12. SearchItems(q, hits) \in SomeList /\ SearchItems(q, hits).pageCount = pages
       /\ SearchItems(q, hits).results = res
  BY <1>1, <1>8, <1>10, <1>11 DEF SomeList
<1> QED BY <1>9, <1>12 DEF pages

\* The answer with the bids of an auction: all of them, each once.
LEMMA BidsAnswer ==
  ASSUME ServicesType, NEW a
  PROVE  /\ GetBidsForAuction(a).ok
         /\ GetBidsForAuction(a).data \in Seq(Bid)
         /\ Range(GetBidsForAuction(a).data) \subseteq BidsOn(a)
         /\ Distinct(GetBidsForAuction(a).data)
         /\ \A b \in Stored : b.auctionId = a => b \in Range(GetBidsForAuction(a).data)
<1> DEFINE at == {i \in DOMAIN bids : bids[i].auctionId = a}
           s == Pick(bids, at)
           r == Reverse(s)
<1>1. bids \in Seq(Bid) /\ DOMAIN bids = 1..Len(bids) /\ Len(bids) \in Nat
      /\ \A i \in 1..Len(bids) : bids[i].id = i
  BY LenProperties DEF ServicesType
<1>2. /\ at \in SUBSET (1..Len(bids)) /\ \A i \in at : bids[i].auctionId = a
      /\ \A i \in 1..Len(bids) : bids[i].auctionId = a => i \in at
  BY <1>1
<1>3. GetBidsForAuction(a).ok /\ GetBidsForAuction(a).data = r
  BY DEF GetBidsForAuction, Ok
<1> HIDE DEF at
<1>4. /\ s \in Seq(Bid) /\ Len(s) = Cardinality(at) /\ Cardinality(at) \in Nat
      /\ \A k \in 1..Cardinality(at) : InOrder(at)[k] \in at /\ s[k] = bids[InOrder(at)[k]]
      /\ \A j, k \in 1..Cardinality(at) : InOrder(at)[j] = InOrder(at)[k] => j = k
      /\ \A i \in at : \E k \in 1..Cardinality(at) : InOrder(at)[k] = i
  BY <1>1, <1>2, PickTakes
<1> DEFINE n == Len(s)
           pos(k) == InOrder(at)[k]
<1> HIDE DEF s
<1>5. /\ n \in Nat
      /\ \A k \in 1..n : /\ pos(k) \in 1..Len(bids) /\ s[k] = bids[pos(k)]
                         /\ s[k].id = pos(k) /\ s[k].auctionId = a
      /\ \A j, k \in 1..n : pos(j) = pos(k) => j = k
      /\ \A i \in at : \E k \in 1..n : pos(k) = i
  <2>1. n \in Nat /\ n = Cardinality(at)
    BY <1>4
  <2> HIDE DEF n
  <2>2. ASSUME NEW k \in 1..n
        PROVE  /\ pos(k) \in 1..Len(bids) /\ s[k] = bids[pos(k)]
               /\ s[k].id = pos(k) /\ s[k].auctionId = a
    <3>1. pos(k) \in at /\ s[k] = bids[pos(k)]
      BY <1>4, <2>1
    <3>2. pos(k) \in 1..Len(bids) /\ bids[pos(k)].auctionId = a
      BY <1>2, <3>1
    <3> HIDE DEF pos
    <3> QED BY <1>1, <3>1, <3>2
  <2>3. /\ \A j, k \in 1..n : pos(j) = pos(k) => j = k
        /\ \A i \in at : \E k \in 1..n : pos(k) = i
    BY <1>4, <2>1
  <2> QED BY <2>1, <2>2, <2>3
<1>6. /\ r \in Seq(Bid) /\ Len(r) = n
      /\ \A i \in 1..n : r[i] = s[(n - i) + 1]
  BY <1>4, ReverseTakes
<1> HIDE DEF r, n, pos
<1>7. \A i \in 1..n : (n - i) + 1 \in 1..n /\ (n - ((n - i) + 1)) + 1 = i
  BY <1>5
<1>8. Range(r) \subseteq BidsOn(a)
  <2> SUFFICES ASSUME NEW b \in Range(r) PROVE b \in Stored /\ b.auctionId = a
    BY DEF BidsOn
  <2>1. PICK i \in 1..n : r[i] = b
    BY <1>6, SeqRange
  <2>2. (n - i) + 1 \in 1..n /\ b = s[(n - i) + 1]
    BY <1>6, <1>7, <2>1
  <2>3. b.auctionId = a /\ \E k \in 1..Len(bids) : b = bids[k]
    BY <1>5, <2>2
  <2> QED BY <1>1, <2>3, SeqRange DEF Stored
<1>9. Distinct(r)
  <2>1. DOMAIN r = 1..n
    BY <1>6, LenProperties
  <2> SUFFICES ASSUME NEW j \in 1..n, NEW k \in 1..n, r[j].id = r[k].id PROVE j = k
    BY <2>1 DEF Distinct
  <2>2. /\ (n - j) + 1 \in 1..n /\ r[j] = s[(n - j) + 1]
        /\ (n - k) + 1 \in 1..n /\ r[k] = s[(n - k) + 1]
    BY <1>6, <1>7
  <2>3. s[(n - j) + 1].id = s[(n - k) + 1].id
    BY <2>2
  <2>4. pos((n - j) + 1) = pos((n - k) + 1)
    BY <1>5, <2>2, <2>3
  <2>5. (n - j) + 1 = (n - k) + 1
    BY <1>5, <2>2, <2>4
  <2> QED BY <1>5, <2>5
<1>10. \A b \in Stored : b.auctionId = a => b \in Range(r)
  <2> SUFFICES ASSUME NEW b \in Stored, b.auctionId = a PROVE b \in Range(r)
    OBVIOUS
  <2>1. PICK i \in 1..Len(bids) : bids[i] = b
    BY <1>1, SeqRange DEF Stored
  <2>2. PICK k \in 1..n : pos(k) = i
    BY <1>2, <1>5, <2>1
  <2>3. s[k] = b
    BY <1>5, <2>1, <2>2
  <2>4. PICK m \in 1..n : (n - m) + 1 = k
    BY <1>7
  <2>5. r[m] = b
    BY <1>6, <2>3, <2>4
  <2> QED BY <1>6, <2>5, SeqRange
<1> QED BY <1>3, <1>6, <1>8, <1>9, <1>10

\* What a service may make of a call, by the kind of the call: its answer, and
\* what it does to the rows and to the bids.
LEMMA ReadOutcome ==
  ASSUME ServicesType, NEW c \in SomeCall, NEW o \in Outcomes(c),
         c.kind \in {"search", "details", "bids"}
  PROVE  /\ o.rows = rows /\ o.bids = bids
         /\ HandleResponse(o.response) \in {Error} \union DataOf(c.kind)
         /\ c.kind = "search" => HandleResponse(o.response) = SearchItems(c.args, Hits(c.args))
         /\ c.kind = "bids" => HandleResponse(o.response) = GetBidsForAuction(c.args).data
<1>1. c.args \in ArgsOf(c.kind)
  BY CallFields
<1>2. CASE c.kind = "search"
  <2>1. o = Unchanged(Ok(SearchItems(c.args, Hits(c.args))))
    BY <1>2 DEF Outcomes
  <2>2. c.args \in Params /\ Hits(c.args) \in Seq(AuctionId) /\ DataOf(c.kind) = SomeList
    BY <1>1, <1>2, HitsType DEF ArgsOf, DataOf
  <2>3. SearchItems(c.args, Hits(c.args)) \in SomeList
    BY <2>2, SearchAnswer
  <2> DEFINE answer == SearchItems(c.args, Hits(c.args))
  <2> HIDE DEF answer
  <2>4. o = Unchanged(Ok(answer)) /\ answer \in SomeList
    BY <2>1, <2>3 DEF answer
  <2>5. o.rows = rows /\ o.bids = bids /\ HandleResponse(o.response) = answer
    BY <2>4 DEF Unchanged, Outcome, Ok, HandleResponse
  <2> QED BY <1>2, <2>2, <2>4, <2>5 DEF answer
<1>3. CASE c.kind = "details"
  <2>1. o = Unchanged(GetAuctionById(c.args))
    BY <1>3 DEF Outcomes
  <2>2. c.args \in AuctionId \union {None} /\ DataOf(c.kind) = Row
    BY <1>1, <1>3 DEF ArgsOf, DataOf
  <2>3. o.rows = rows /\ o.bids = bids /\ o.response = GetAuctionById(c.args)
    BY <2>1 DEF Unchanged, Outcome
  <2> QED BY <1>3, <2>2, <2>3, AuctionAnswer
<1>4. CASE c.kind = "bids"
  <2>1. o = Unchanged(GetBidsForAuction(c.args))
    BY <1>4 DEF Outcomes
  <2>2. DataOf(c.kind) = Seq(Bid)
    BY <1>4 DEF DataOf
  <2> DEFINE answer == GetBidsForAuction(c.args)
  <2>3. answer.ok /\ answer.data \in Seq(Bid)
    BY BidsAnswer
  <2> HIDE DEF answer
  <2>4. o.rows = rows /\ o.bids = bids /\ HandleResponse(o.response) = answer.data
    BY <2>1, <2>3 DEF Unchanged, Outcome, HandleResponse, answer
  <2> QED BY <1>4, <2>2, <2>3, <2>4 DEF answer
<1> QED BY <1>2, <1>3, <1>4

\* Bids are stored, or turned away.
LEMMA PlaceOutcome ==
  ASSUME ServicesType, NEW c \in SomeCall, NEW o \in Outcomes(c), c.kind = "place"
  PROVE  /\ o.rows = rows
         /\ \/ o.bids = bids /\ HandleResponse(o.response) = Error
            \/ \E a \in AuctionId, n \in Nat :
                 /\ o.bids = Append(bids, NewBid(a, n))
                 /\ HandleResponse(o.response) = NewBid(a, n)
<1>1. c.args \in [auctionId : AuctionId, amount : Offer]
  BY CallFields DEF ArgsOf
<1> DEFINE a == c.args.auctionId
           n == c.args.amount
<1>2. a \in AuctionId /\ n \in Nat
  BY <1>1, OfferAssumption
<1>3. o \in PlaceBid(a, n, Authorized)
  BY DEF Outcomes
<1> HIDE DEF a, n
<1>4. o = Unchanged(Refused) \/ o = Outcome(Ok(NewBid(a, n)), rows, Append(bids, NewBid(a, n)))
  BY <1>3 DEF PlaceBid
<1>5. CASE o = Unchanged(Refused)
  BY <1>5 DEF Unchanged, Outcome, Refused, HandleResponse
<1>6. CASE o = Outcome(Ok(NewBid(a, n)), rows, Append(bids, NewBid(a, n)))
  <2> DEFINE b == NewBid(a, n)
  <2> HIDE DEF b
  <2>1. o = Outcome(Ok(b), rows, Append(bids, b))
    BY <1>6 DEF b
  <2>2. o.rows = rows /\ o.bids = Append(bids, b) /\ HandleResponse(o.response) = b
    BY <2>1 DEF Outcome, Ok, HandleResponse
  <2> QED BY <1>2, <2>2 DEF b
<1> QED BY <1>4, <1>5, <1>6

\* A row and what may become of it: its seller and its winner stay.
SameParties(r, s) == s.seller = r.seller /\ s.winner = r.winner

\* Every auction stays, with its seller and its winner.
Grows(old, new) == \A a \in AuctionId : old[a] # None => new[a] # None /\ SameParties(old[a], new[a])

\* An auction is created for the user of the token.
LEMMA CreateOutcome ==
  ASSUME ServicesType, session \in Session, NEW c \in SomeCall, NEW o \in Outcomes(c),
         c.kind = "create"
  PROVE  /\ o.bids = bids
         /\ o.rows \in [AuctionId -> Row \union {None}] /\ Grows(rows, o.rows)
         /\ HandleResponse(o.response) \in {Error} \union AuctionId
         /\ HandleResponse(o.response) # Error => Granted(c)
         /\ \A a \in AuctionId : Exists(a) => o.rows[a] = rows[a]
<1>1. c.args \in [item : SomeCar]
  BY CallFields DEF ArgsOf
<1>2. Authorized \in User \union {None} /\ rows \in [AuctionId -> Row \union {None}]
  BY UserTypes DEF ServicesType
<1> DEFINE item == c.args.item
           who == Authorized
<1>3. item \in [Field -> Value] /\ who \in User \union {None}
  BY <1>1, <1>2 DEF SomeCar
<1>4. o \in CreateAuction(item, who)
  BY DEF Outcomes
<1> HIDE DEF item, who
<1>5. CASE who = None
  <2>1. o = Unchanged(Refused)
    BY <1>4, <1>5 DEF CreateAuction
  <2> QED BY <1>2, <2>1 DEF Unchanged, Outcome, Refused, HandleResponse, Grows, SameParties
<1>6. CASE who # None
  <2>1. PICK a \in AuctionId :
          rows[a] = None /\ o = Outcome(Ok(a), [rows EXCEPT ![a] = NewRow(item, who)], bids)
    BY <1>4, <1>6 DEF CreateAuction
  <2> DEFINE r == NewRow(item, who)
             new == [rows EXCEPT ![a] = r]
  <2>2. r \in Row
    BY <1>3, <1>6 DEF NewRow, Row
  <2> HIDE DEF r
  <2>3. new \in [AuctionId -> Row \union {None}]
    BY <1>2, <2>2
  <2>4. \A x \in AuctionId : rows[x] # None => new[x] = rows[x]
    BY <1>2, <2>1
  <2> HIDE DEF new
  <2>5. o = Outcome(Ok(a), new, bids)
    BY <2>1 DEF new, r
  <2>6. o.bids = bids /\ o.rows = new /\ HandleResponse(o.response) = a
    BY <2>5 DEF Outcome, Ok, HandleResponse
  <2>7. Granted(c)
    BY <1>6 DEF Granted, who
  <2> QED BY <2>3, <2>4, <2>6, <2>7 DEF Grows, SameParties, Exists
<1> QED BY <1>5, <1>6

\* An auction is changed or deleted for its seller: it gets another item, or is
\* deleted.
LEMMA ChangeOutcome ==
  ASSUME ServicesType, session \in Session, NEW c \in SomeCall, NEW o \in Outcomes(c),
         c.kind \in {"update", "delete"}
  PROVE  /\ o.bids = bids
         /\ o.rows \in [AuctionId -> Row \union {None}] /\ Grows(rows, o.rows)
         /\ HandleResponse(o.response) \in {Error} \union {Done}
         /\ HandleResponse(o.response) # Error => Granted(c)
         /\ \/ o.rows = rows
            \/ /\ Exists(c.args.auctionId) /\ c.args.auctionId \in AuctionId
               /\ o.rows = [rows EXCEPT ![c.args.auctionId] =
                              IF c.kind = "update" THEN [@ EXCEPT !.item = c.args.item]
                                                   ELSE [@ EXCEPT !.deleted = TRUE]]
<1> DEFINE a == c.args.auctionId
           new == IF c.kind = "update" THEN [rows[a] EXCEPT !.item = c.args.item]
                                       ELSE [rows[a] EXCEPT !.deleted = TRUE]
<1>1. rows \in [AuctionId -> Row \union {None}]
  BY DEF ServicesType
<1>2. a \in AuctionId \union {None} /\ (c.kind = "update" => c.args.item \in [Field -> Value])
  <2>1. CASE c.kind = "update"
    <3>1. c.args \in [auctionId : AuctionId, item : SomeCar, was : SomeCar, typed : SUBSET Field]
      BY <2>1, CallFields DEF ArgsOf
    <3> QED BY <2>1, <3>1 DEF SomeCar
  <2>2. CASE c.kind = "delete"
    <3>1. c.args \in [auctionId : AuctionId \union {None}]
      BY <2>2, CallFields DEF ArgsOf
    <3> QED BY <2>2, <3>1
  <2> QED BY <2>1, <2>2
<1>3. o \in ChangeAuction(a, new, Authorized, Done)
  <2>1. CASE c.kind = "update"
    BY <2>1 DEF Outcomes, UpdateAuction
  <2>2. CASE c.kind = "delete"
    BY <2>2 DEF Outcomes, DeleteAuction
  <2> QED BY <2>1, <2>2
<1>4. Exists(a) => a \in AuctionId /\ rows[a] \in Row
  BY <1>2, ExistsFacts
<1>5. Exists(a) => new \in Row /\ SameParties(rows[a], new)
  <2> HAVE Exists(a)
  <2>1. rows[a] \in [seller : User, winner : User \union {None}, item : [Field -> Value],
                     deleted : BOOLEAN]
    BY <1>4 DEF Row
  <2>2. CASE c.kind = "update"
    <3> DEFINE r == rows[a]
    <3>1. r \in [seller : User, winner : User \union {None}, item : [Field -> Value], deleted : BOOLEAN]
      BY <2>1
    <3>2. new = [r EXCEPT !.item = c.args.item] /\ c.args.item \in [Field -> Value]
      BY <1>2, <2>2
    <3> HIDE DEF r, new
    <3> QED BY <3>1, <3>2 DEF Row, SameParties, r
  <2>3. CASE c.kind = "delete"
    <3> DEFINE r == rows[a]
    <3>1. r \in [seller : User, winner : User \union {None}, item : [Field -> Value], deleted : BOOLEAN]
      BY <2>1
    <3>2. new = [r EXCEPT !.deleted = TRUE]
      BY <2>3
    <3> HIDE DEF r, new
    <3> QED BY <3>1, <3>2 DEF Row, SameParties, r
  <2> QED BY <2>2, <2>3
<1>6. o = Unchanged(Refused)
      \/ /\ Authorized # None /\ Exists(a) /\ rows[a].seller = Authorized
         /\ o = Outcome(Ok(Done), [rows EXCEPT ![a] = new], bids)
  <2> HIDE DEF new, a
  <2> QED BY <1>3 DEF ChangeAuction
<1>7. CASE o = Unchanged(Refused)
  BY <1>1, <1>7 DEF Unchanged, Outcome, Refused, HandleResponse, Grows, SameParties
<1>8. CASE /\ Authorized # None /\ Exists(a) /\ rows[a].seller = Authorized
           /\ o = Outcome(Ok(Done), [rows EXCEPT ![a] = new], bids)
  <2>1. Granted(c)
    BY <1>8 DEF Granted
  <2>2. [rows EXCEPT ![a] = new] = [rows EXCEPT ![c.args.auctionId] =
                              IF c.kind = "update" THEN [@ EXCEPT !.item = c.args.item]
                                                   ELSE [@ EXCEPT !.deleted = TRUE]]
    OBVIOUS
  <2>3. a \in AuctionId /\ new \in Row /\ SameParties(rows[a], new)
    BY <1>4, <1>5, <1>8
  <2> DEFINE after == [rows EXCEPT ![a] = new]
  <2>4. after \in [AuctionId -> Row \union {None}] /\ Grows(rows, after)
    <3> HIDE DEF new, a
    <3>1. after \in [AuctionId -> Row \union {None}]
      BY <1>1, <2>3
    <3>2. \A x \in AuctionId : after[x] = IF x = a THEN new ELSE rows[x]
      BY <1>1, <2>3
    <3>3. new # None
      BY <2>3, NoneAssumption
    <3> HIDE DEF after
    <3> QED BY <2>3, <3>1, <3>2, <3>3 DEF Grows, SameParties
  <2>5. o.bids = bids /\ o.rows = after /\ HandleResponse(o.response) = Done
    <3> HIDE DEF new, a
    <3>1. o = Outcome(Ok(Done), after, bids)
      BY <1>8
    <3> HIDE DEF after
    <3> QED BY <3>1 DEF Outcome, Ok, HandleResponse
  <2>6. o.rows = [rows EXCEPT ![c.args.auctionId] =
                              IF c.kind = "update" THEN [@ EXCEPT !.item = c.args.item]
                                                   ELSE [@ EXCEPT !.deleted = TRUE]]
    BY <2>2, <2>5
  <2>7. Exists(c.args.auctionId) /\ c.args.auctionId \in AuctionId
    BY <1>8, <2>3
  <2> HIDE DEF after, new, a
  <2> QED BY <2>1, <2>4, <2>5, <2>6, <2>7
<1> QED BY <1>6, <1>7, <1>8
-----------------------------------------------------------------------------
(* What the services do *)

\* The services go on: nothing they hold is lost.
Moves ==
  /\ ServicesType' /\ Grows(rows, rows')
  /\ Len(bids) <= Len(bids') /\ (\A i \in 1..Len(bids) : bids'[i] = bids[i])
  /\ synced \subseteq synced'

\* Services that do nothing, or not more than to go on with the clock.
LEMMA MovesQuietly ==
  ASSUME ServicesType, UNCHANGED <<rows, bids, prices, synced>>, clock' \in Nat
  PROVE  Moves
<1>1. Len(bids) \in Nat
  BY LenProperties DEF ServicesType
<1>2. \A a : PricedBids(a)' = PricedBids(a)
  BY DEF PricedBids, BidsOn, Stored
<1>3. ServicesType'
  BY <1>2 DEF ServicesType, Amounts
<1> QED BY <1>1, <1>3 DEF Moves, Grows, SameParties

\* A stored bid has its type, and its place.
LEMMA StoredFacts ==
  ASSUME ServicesType, NEW b
  PROVE  b \in Stored <=> /\ b.id \in 1..Len(bids) /\ bids[b.id] = b
                          /\ b \in Bid
<1>1. bids \in Seq(Bid) /\ (\A i \in 1..Len(bids) : bids[i].id = i) /\ DOMAIN bids = 1..Len(bids)
      /\ \A i \in 1..Len(bids) : bids[i] \in Bid
  BY SeqRange, ElementOfSeq DEF ServicesType
<1>2. b \in Stored <=> \E i \in 1..Len(bids) : bids[i] = b
  BY <1>1, SeqRange DEF Stored
<1> QED BY <1>1, <1>2

\* What was a bid's price stays one.
LEMMA PricedStay ==
  ASSUME Stored \subseteq Stored', synced \subseteq synced', NEW a,
         NEW n \in {0} \union Amounts(PricedBids(a))
  PROVE  n \in {0} \union Amounts(PricedBids(a)')
BY DEF PricedBids, BidsOn, Amounts

\* The search has another price of an auction.
LEMMA MovesByPrice ==
  ASSUME ServicesType, NEW a \in AuctionId, NEW n \in {0} \union Amounts(PricedBids(a)'),
         prices' = [prices EXCEPT ![a] = n], UNCHANGED <<clock, rows, bids>>,
         synced' \in {synced, synced \union {a}}
  PROVE  Moves
<1>1. Len(bids) \in Nat /\ Stored' = Stored
  BY LenProperties DEF ServicesType, Stored
<1>2. n \in Nat
  <2>1. \A b \in Stored : b.amount \in Nat
    BY StoredFacts DEF Bid
  <2> QED BY <1>1, <2>1 DEF PricedBids, BidsOn, Amounts
<1>3. prices' \in [AuctionId -> Nat] /\ synced' \subseteq AuctionId /\ synced \subseteq synced'
  BY <1>2 DEF ServicesType
<1>4. \A x \in AuctionId : prices'[x] \in {0} \union Amounts(PricedBids(x)')
  <2> SUFFICES ASSUME NEW x \in AuctionId, x # a
               PROVE  prices'[x] \in {0} \union Amounts(PricedBids(x)')
    BY DEF ServicesType
  <2>1. prices'[x] = prices[x] /\ prices[x] \in {0} \union Amounts(PricedBids(x))
    BY DEF ServicesType
  <2> QED BY <1>1, <1>3, <2>1, PricedStay
<1>5. ServicesType'
  BY <1>3, <1>4 DEF ServicesType, Amounts
<1> QED BY <1>1, <1>3, <1>5 DEF Moves, Grows, SameParties

\* A bid is stored.
LEMMA MovesByBid ==
  ASSUME ServicesType, NEW a \in AuctionId, NEW n \in Nat,
         bids' = Append(bids, NewBid(a, n)), UNCHANGED <<clock, rows, prices, synced>>
  PROVE  Moves
<1>1. /\ bids' \in Seq(Bid) /\ Len(bids) \in Nat /\ Len(bids') = Len(bids) + 1
      /\ \A i \in 1..Len(bids) : bids'[i] = bids[i]
      /\ bids'[Len(bids) + 1].id = Len(bids) + 1
  BY NewBidType
<1>2. \A i \in 1..Len(bids') : bids'[i].id = i
  <2> SUFFICES ASSUME NEW i \in 1..Len(bids') PROVE bids'[i].id = i
    OBVIOUS
  <2>1. i \in 1..Len(bids) \/ i = Len(bids) + 1
    BY <1>1
  <2> QED BY <1>1, <2>1 DEF ServicesType
<1>3. \A x \in AuctionId : prices[x] \in {0} \union Amounts(PricedBids(x)')
  <2>1. Stored \subseteq Stored'
    <3> SUFFICES ASSUME NEW b \in Stored PROVE b \in Stored'
      OBVIOUS
    <3>1. PICK i \in 1..Len(bids) : bids[i] = b
      BY SeqRange DEF ServicesType, Stored
    <3>2. i \in 1..Len(bids') /\ bids'[i] = b
      BY <1>1, <3>1
    <3> QED BY <1>1, <3>2, SeqRange DEF Stored
  <2> QED BY <2>1, PricedStay DEF ServicesType
<1>4. ServicesType'
  BY <1>1, <1>2, <1>3 DEF ServicesType, Amounts
<1>5. Len(bids) <= Len(bids')
  BY <1>1
<1> QED BY <1>1, <1>4, <1>5 DEF Moves, Grows, SameParties

\* Rows change, and keep their parties.
LEMMA MovesByRows ==
  ASSUME ServicesType, rows' \in [AuctionId -> Row \union {None}], Grows(rows, rows'),
         UNCHANGED <<clock, bids, prices, synced>>
  PROVE  Moves
<1>1. Len(bids) \in Nat
  BY LenProperties DEF ServicesType
<1>2. \A a : PricedBids(a)' = PricedBids(a)
  BY DEF PricedBids, BidsOn, Stored
<1>3. ServicesType'
  BY <1>2 DEF ServicesType, Amounts
<1> QED BY <1>1, <1>3 DEF Moves

\* One row changes.
LEMMA OneRow ==
  ASSUME ServicesType, NEW a \in AuctionId, NEW r \in Row, rows[a] # None, SameParties(rows[a], r),
         rows' = [rows EXCEPT ![a] = r]
  PROVE  rows' \in [AuctionId -> Row \union {None}] /\ Grows(rows, rows')
<1>1. rows \in [AuctionId -> Row \union {None}]
  BY DEF ServicesType
<1>2. \A x \in AuctionId : rows'[x] = IF x = a THEN r ELSE rows[x]
  BY <1>1
<1>3. r # None
  BY NoneAssumption
<1>4. Grows(rows, rows')
  BY <1>2, <1>3 DEF Grows, SameParties
<1> QED BY <1>1, <1>4

\* What goes on elsewhere.
LEMMA WorldMoves ==
  ASSUME ServicesType, World
  PROVE  Moves
<1>1. clock \in Nat /\ Len(bids) \in Nat
      /\ rows \in [AuctionId -> Row \union {None}]
  BY LenProperties DEF ServicesType
<1>2. CASE Tick
  <2>1. UNCHANGED <<rows, bids, prices, synced>> /\ clock' \in Nat
    BY <1>1, <1>2 DEF Tick
  <2> QED BY <2>1, MovesQuietly
<1>3. ASSUME NEW b \in Stored, SearchTakesBid(b) PROVE Moves
  <2> DEFINE a == b.auctionId
             n == b.amount
  <2>1. a \in AuctionId
    BY StoredFacts DEF Bid
  <2>2. /\ IsAccepted(b) /\ prices' = [prices EXCEPT ![a] = n]
        /\ UNCHANGED <<clock, rows, bids, synced>>
    BY <1>3 DEF SearchTakesBid
  <2>3. n \in {0} \union Amounts(PricedBids(a)')
    BY <2>2 DEF PricedBids, BidsOn, Stored, Amounts
  <2> HIDE DEF a, n
  <2> QED BY <2>1, <2>2, <2>3, MovesByPrice
<1>11. ASSUME NEW a \in AuctionId, SearchSyncs(a) PROVE Moves
  <2>1. PICK n \in {0} \union Amounts(BidsOn(a)) : prices' = [prices EXCEPT ![a] = n]
    BY <1>11 DEF SearchSyncs
  <2>2. UNCHANGED <<clock, rows, bids>> /\ synced' = synced \union {a}
    BY <1>11 DEF SearchSyncs
  <2>3. n \in {0} \union Amounts(PricedBids(a)')
    BY <2>1, <2>2 DEF PricedBids, BidsOn, Stored, Amounts
  <2> QED BY <2>1, <2>2, <2>3, MovesByPrice
<1>4. ASSUME NEW a \in AuctionId, NEW n \in Offer, OthersBid(a, n) PROVE Moves
  <2>1. n \in Nat /\ bids' = Append(bids, NewBid(a, n)) /\ UNCHANGED <<clock, rows, prices, synced>>
    BY <1>4, OfferAssumption DEF OthersBid
  <2> QED BY <2>1, MovesByBid
<1>5. ASSUME NEW a \in AuctionId, NEW f \in Field, NEW v \in Value, EditElsewhere(a, f, v) PROVE Moves
  <2> DEFINE r == rows[a]
             new == [r EXCEPT !.item[f] = v]
  <2>1. r \in [seller : User, winner : User \union {None}, item : [Field -> Value], deleted : BOOLEAN]
        /\ r # None
    BY <1>1, <1>5 DEF EditElsewhere, Exists, Row
  <2>2. new \in Row /\ SameParties(r, new)
    <3> HIDE DEF r
    <3> QED BY <2>1 DEF Row, SameParties
  <2>3. rows' = [rows EXCEPT ![a] = new] /\ UNCHANGED <<clock, bids, prices, synced>>
    BY <1>5 DEF EditElsewhere
  <2> HIDE DEF new
  <2>4. rows' \in [AuctionId -> Row \union {None}] /\ Grows(rows, rows')
    BY <2>1, <2>2, <2>3, OneRow
  <2> QED BY <2>3, <2>4, MovesByRows
<1>6. ASSUME NEW a \in AuctionId, DeleteElsewhere(a) PROVE Moves
  <2> DEFINE r == rows[a]
             new == [r EXCEPT !.deleted = TRUE]
  <2>1. r \in [seller : User, winner : User \union {None}, item : [Field -> Value], deleted : BOOLEAN]
        /\ r # None
    BY <1>1, <1>6 DEF DeleteElsewhere, Exists, Row
  <2>2. new \in Row /\ SameParties(r, new)
    <3> HIDE DEF r
    <3> QED BY <2>1 DEF Row, SameParties
  <2>3. rows' = [rows EXCEPT ![a] = new] /\ UNCHANGED <<clock, bids, prices, synced>>
    BY <1>6 DEF DeleteElsewhere
  <2> HIDE DEF new
  <2>4. rows' \in [AuctionId -> Row \union {None}] /\ Grows(rows, rows')
    BY <2>1, <2>2, <2>3, OneRow
  <2> QED BY <2>3, <2>4, MovesByRows
<1>7. ASSUME UNCHANGED serviceVars PROVE Moves
  <2>1. UNCHANGED <<rows, bids, prices, synced>> /\ clock' \in Nat
    BY <1>1, <1>7 DEF serviceVars
  <2> QED BY <2>1, MovesQuietly
<1>8. CASE TokenExpires
  BY <1>7, <1>8 DEF TokenExpires
<1>9. ASSUME NEW u \in User, SignInElsewhere(u) PROVE Moves
  BY <1>7, <1>9 DEF SignInElsewhere
<1>10. ASSUME NEW i \in DOMAIN calls, NEW answer \in {Error, Rejected}, Fail(i, answer) PROVE Moves
  BY <1>7, <1>10 DEF Fail
<1> QED BY <1>2, <1>3, <1>4, <1>5, <1>6, <1>8, <1>9, <1>10, <1>11 DEF World

\* What a request leads to.
LEMMA ServeMoves ==
  ASSUME ServicesType, TabType, NEW i, Serve(i)
  PROVE  /\ Moves
         /\ i \in 1..Len(calls) /\ calls[i] \in SomeCall /\ calls[i].answer = None
         /\ \E o \in Outcomes(calls[i]) :
              /\ HandleResponse(o.response) \in {Error} \union DataOf(calls[i].kind)
              /\ calls' = [calls EXCEPT ![i].answer = HandleResponse(o.response)]
              /\ rows' = o.rows /\ bids' = o.bids
              /\ calls[i].kind \in {"create", "update", "delete"} /\ HandleResponse(o.response) # Error
                   => Granted(calls[i])
<1>1. calls \in Seq(SomeCall) /\ session \in Session
  BY DEF TabType
<1>2. i \in 1..Len(calls) /\ calls[i] \in SomeCall /\ calls[i].answer = None
  <2>1. i \in InFlight(calls) /\ calls[i].answer = None
    BY DEF Serve
  <2>2. i \in 1..Len(calls)
    BY <1>1, <2>1, InFlightFirst
  <2> QED BY <1>1, <2>1, <2>2, ElementOfSeq
<1> DEFINE c == calls[i]
<1>3. PICK o \in Outcomes(c) :
        /\ calls' = [calls EXCEPT ![i].answer = HandleResponse(o.response)]
        /\ rows' = o.rows /\ bids' = o.bids
  BY DEF Serve
<1>4. UNCHANGED <<clock, prices, synced>>
  BY DEF Serve
<1> DEFINE Good == /\ Moves
                   /\ HandleResponse(o.response) \in {Error} \union DataOf(c.kind)
                   /\ c.kind \in {"create", "update", "delete"} /\ HandleResponse(o.response) # Error
                        => Granted(c)
<1>5. c \in SomeCall /\ c.kind \in Kinds
  BY <1>2, CallFields
<1>6. clock \in Nat
  BY DEF ServicesType
<1> HIDE DEF c
<1>7. ASSUME c.kind \in {"search", "details", "bids"} PROVE Good
  <2>1. o.rows = rows /\ o.bids = bids /\ HandleResponse(o.response) \in {Error} \union DataOf(c.kind)
    BY <1>5, <1>7, ReadOutcome
  <2>2. Moves
    BY <1>3, <1>4, <1>6, <2>1, MovesQuietly
  <2> QED BY <1>7, <2>1, <2>2
<1>8. ASSUME c.kind = "place" PROVE Good
  <2>1. /\ o.rows = rows
        /\ \/ o.bids = bids /\ HandleResponse(o.response) = Error
           \/ \E a \in AuctionId, n \in Nat :
                o.bids = Append(bids, NewBid(a, n)) /\ HandleResponse(o.response) = NewBid(a, n)
    BY <1>5, <1>8, PlaceOutcome
  <2>2. CASE o.bids = bids /\ HandleResponse(o.response) = Error
    <3>1. Moves
      BY <1>3, <1>4, <1>6, <2>1, <2>2, MovesQuietly
    <3> QED BY <1>8, <2>2, <3>1
  <2>3. ASSUME NEW a \in AuctionId, NEW n \in Nat,
               o.bids = Append(bids, NewBid(a, n)), HandleResponse(o.response) = NewBid(a, n)
        PROVE  Good
    <3>1. Moves
      BY <1>3, <1>4, <2>1, <2>3, MovesByBid
    <3>2. HandleResponse(o.response) \in DataOf(c.kind)
      BY <1>8, <2>3, NewBidType DEF DataOf
    <3> QED BY <1>8, <3>1, <3>2
  <2> QED BY <2>1, <2>2, <2>3
<1>9. ASSUME c.kind = "create" PROVE Good
  <2>1. /\ o.bids = bids /\ o.rows \in [AuctionId -> Row \union {None}] /\ Grows(rows, o.rows)
        /\ HandleResponse(o.response) \in {Error} \union AuctionId
        /\ HandleResponse(o.response) # Error => Granted(c)
    BY <1>1, <1>5, <1>9, CreateOutcome
  <2>2. Moves
    BY <1>3, <1>4, <2>1, MovesByRows
  <2> QED BY <1>9, <2>1, <2>2 DEF DataOf
<1>10. ASSUME c.kind \in {"update", "delete"} PROVE Good
  <2>1. /\ o.bids = bids /\ o.rows \in [AuctionId -> Row \union {None}] /\ Grows(rows, o.rows)
        /\ HandleResponse(o.response) \in {Error} \union {Done}
        /\ HandleResponse(o.response) # Error => Granted(c)
    BY <1>1, <1>5, <1>10, ChangeOutcome
  <2>2. Moves
    BY <1>3, <1>4, <2>1, MovesByRows
  <2>3. DataOf(c.kind) = {Done}
    BY <1>10 DEF DataOf
  <2> QED BY <2>1, <2>2, <2>3
<1>11. Good
  BY <1>5, <1>7, <1>8, <1>9, <1>10 DEF Kinds
<1> QED BY <1>2, <1>3, <1>11 DEF c
-----------------------------------------------------------------------------
(* What keeps the types of the tab *)

\* Calls have their types, and those for a toast are of auctions that there are.
CallsType(cs) ==
  cs \in Seq(SomeCall) /\ \A i \in 1..Len(cs) : cs[i].kind = "details" => rows[cs[i].args] # None

\* The operations on the queue keep that.
LEMMA CallsTypeKept ==
  ASSUME NEW cs, CallsType(cs)
  PROVE  /\ CallsType(Left(cs)) /\ CallsType(Detached(cs))
         /\ \A i \in 1..Len(cs) : CallsType(RemoveAt(cs, i))
         /\ \A c \in SomeCall : (c.kind = "details" => rows[c.args] # None) => CallsType(Append(cs, c))
<1>1. cs \in Seq(SomeCall) /\ Len(cs) \in Nat
      /\ \A i \in 1..Len(cs) : cs[i].kind = "details" => rows[cs[i].args] # None
  BY LenProperties DEF CallsType
<1>2. ASSUME NEW ds \in {Left(cs), Detached(cs)} PROVE CallsType(ds)
  <2>1. /\ ds \in Seq(SomeCall)
        /\ \A i \in 1..Len(ds) : i \in 1..Len(cs) /\ ds[i].kind = cs[i].kind /\ ds[i].args = cs[i].args
    BY <1>1, LeftFacts
  <2>2. \A i \in 1..Len(ds) : ds[i].kind = "details" => rows[ds[i].args] # None
    BY <1>1, <2>1
  <2> HIDE DEF Left, Detached
  <2> QED BY <2>1, <2>2 DEF CallsType
<1>3. ASSUME NEW i \in 1..Len(cs) PROVE CallsType(RemoveAt(cs, i))
  <2> DEFINE ds == RemoveAt(cs, i)
  <2>1. /\ ds \in Seq(SomeCall) /\ Len(ds) = Len(cs) - 1
        /\ \A k \in 1..(Len(cs) - 1) : ds[k] = cs[IF k < i THEN k ELSE k + 1]
    BY <1>1, RemoveAtKeeps
  <2> HIDE DEF ds
  <2>2. ASSUME NEW k \in 1..Len(ds) PROVE ds[k].kind = "details" => rows[ds[k].args] # None
    <3>1. (IF k < i THEN k ELSE k + 1) \in 1..Len(cs) /\ ds[k] = cs[IF k < i THEN k ELSE k + 1]
      BY <1>1, <2>1
    <3> QED BY <1>1, <3>1
  <2>3. CallsType(ds)
    BY <2>1, <2>2 DEF CallsType
  <2> QED BY <2>3 DEF ds
<1>4. ASSUME NEW c \in SomeCall, c.kind = "details" => rows[c.args] # None
      PROVE  CallsType(Append(cs, c))
  <2> DEFINE ds == Append(cs, c)
  <2>1. /\ ds \in Seq(SomeCall) /\ Len(ds) = Len(cs) + 1 /\ ds[Len(cs) + 1] = c
        /\ \A k \in 1..Len(cs) : ds[k] = cs[k]
    BY <1>1, AppendFacts
  <2> HIDE DEF ds
  <2>2. ASSUME NEW k \in 1..Len(ds) PROVE ds[k].kind = "details" => rows[ds[k].args] # None
    <3>1. k \in 1..Len(cs) \/ k = Len(cs) + 1
      BY <1>1, <2>1
    <3> QED BY <1>1, <1>4, <2>1, <3>1
  <2>3. CallsType(ds)
    BY <2>1, <2>2 DEF CallsType
  <2> QED BY <2>3 DEF ds
<1> QED BY <1>2, <1>3, <1>4

\* Short queues.
LEMMA ShortCalls ==
  /\ CallsType(<<>>)
  /\ \A c \in SomeCall : c.kind # "details" => CallsType(<<c>>)
<1>1. <<>> \in Seq(SomeCall) /\ Len(<<>>) = 0
  OBVIOUS
<1>2. ASSUME NEW c \in SomeCall, c.kind # "details" PROVE CallsType(<<c>>)
  <2>1. <<c>> \in Seq(SomeCall) /\ Len(<<c>>) = 1 /\ <<c>>[1] = c
    OBVIOUS
  <2> QED BY <1>2, <2>1 DEF CallsType
<1> QED BY <1>1, <1>2 DEF CallsType

\* A navigation with at most one call of the new page.
LEMMA ShowCalls ==
  ASSUME NEW cs, CallsType(cs), NEW c \in SomeCall, c.kind # "details",
         NEW ds \in {cs, Left(cs), Detached(cs)}
  PROVE  /\ CallsType(ds) /\ CallsType(ds \o <<c>>) /\ CallsType(ds \o <<>>)
         /\ ds \o <<c>> = Append(ds, c) /\ ds \o <<>> = ds
<1>1. CallsType(ds)
  BY CallsTypeKept
<1>2. ds \in Seq(SomeCall)
  BY <1>1 DEF CallsType
<1>3. ds \o <<c>> = Append(ds, c) /\ ds \o <<>> = ds
  BY <1>2, AppendFacts
<1>4. CallsType(Append(ds, c))
  BY <1>1, CallsTypeKept
<1> QED BY <1>1, <1>3, <1>4

\* The queue has its types.
LEMMA QueueTypes ==
  ASSUME Types
  PROVE  /\ CallsType(calls) /\ calls \in Seq(SomeCall) /\ Len(calls) \in Nat
         /\ DOMAIN calls = 1..Len(calls)
         /\ \A i \in 1..Len(calls) : calls[i] \in SomeCall
         /\ \A i \in InFlight(calls) : i \in 1..Len(calls)
<1>1. calls \in Seq(SomeCall)
  BY DEF Types, TabType
<1>2. CallsType(calls)
  BY <1>1 DEF Types, LiveType, CallsType
<1> QED BY <1>1, <1>2, LenProperties, ElementOfSeq, InFlightFirst

\* Parts of the types whose variables stay, while the services go on.  The live
\* updates, with another queue.
LEMMA LiveMoves ==
  ASSUME Types, Moves, NEW cs, CallsType(cs), calls' = cs,
         connection' \in {"off", "on", "closed"}, announced' \subseteq 1..Len(bids),
         toasts' \subseteq AuctionId \union {None}, \A a \in toasts' \ {None} : rows[a] # None
  PROVE  LiveType' /\ calls' \in Seq(SomeCall)
<1>1. Grows(rows, rows') /\ 1..Len(bids) \subseteq 1..Len(bids')
  <2>1. Len(bids) \in Nat /\ Len(bids') \in Nat
    BY LenProperties DEF Types, ServicesType, Moves
  <2> QED BY <2>1 DEF Moves
<1>2. ASSUME NEW i \in 1..Len(cs), cs[i].kind = "details" PROVE rows'[cs[i].args] # None
  <2>1. cs[i] \in SomeCall /\ rows[cs[i].args] # None
    BY <1>2, ElementOfSeq DEF CallsType
  <2>2. cs[i].args \in AuctionId
    BY <1>2, <2>1, CallFields DEF ArgsOf
  <2> QED BY <1>1, <2>1, <2>2 DEF Grows
<1>3. \A a \in toasts' \ {None} : rows'[a] # None
  BY <1>1 DEF Grows
<1>4. cs \in Seq(SomeCall)
  BY DEF CallsType
<1> QED BY <1>1, <1>2, <1>3, <1>4 DEF LiveType

\* The live updates.
LEMMA LiveKept ==
  ASSUME Types, Moves, NEW cs, CallsType(cs), calls' = cs, UNCHANGED liveVars
  PROVE  LiveType' /\ calls' \in Seq(SomeCall)
<1>1. /\ connection' \in {"off", "on", "closed"} /\ toasts' \subseteq AuctionId \union {None}
      /\ announced' \subseteq 1..Len(bids) /\ \A a \in toasts' \ {None} : rows[a] # None
  BY DEF Types, LiveType, liveVars
<1> QED BY <1>1, LiveMoves

\* The page of an auction.
LEMMA BidsKept ==
  ASSUME Types, Moves, UNCHANGED <<bidVars, page>>
  PROVE  BidsType'
<1>1. 1..Len(bids) \subseteq 1..Len(bids')
  <2>1. Len(bids) \in Nat /\ Len(bids') \in Nat
    BY LenProperties DEF Types, ServicesType, Moves
  <2> QED BY <2>1 DEF Moves
<1> QED BY <1>1 DEF Types, BidsType, bidVars, OnDetails

\* The form.
LEMMA FormsKept ==
  ASSUME Types, UNCHANGED <<form, typed, page>>
  PROVE  FormsType'
BY DEF Types, FormsType

\* The home page.
LEMMA ListKept ==
  ASSUME Types, UNCHANGED <<params, list, loading, shown>>, fresh' \in BOOLEAN
  PROVE  ListType'
BY DEF Types, ListType

\* The tab.
LEMMA TabKept ==
  ASSUME Types, UNCHANGED <<viewer, page, cached>>, session' \in Session, calls' \in Seq(SomeCall)
  PROVE  TabType'
BY DEF Types, TabType

\* Services that do nothing.
LEMMA MovesNot ==
  ASSUME ServicesType, UNCHANGED serviceVars
  PROVE  Moves
<1>1. clock \in Nat /\ UNCHANGED <<rows, bids, clock, prices, synced>>
  BY DEF ServicesType, serviceVars
<1> QED BY <1>1, MovesQuietly

\* The services and the session alone.
LEMMA WorldTypes ==
  ASSUME Types, World
  PROVE  Types'
<1>1. Moves
  BY WorldMoves DEF Types
<1>2. UNCHANGED <<params, list, loading, shown, bidVars, formVars, liveVars>> /\ fresh' \in BOOLEAN
  BY DEF World, WatchList, Types, ListType
<1>3. UNCHANGED <<viewer, page, cached>> /\ session' \in Session
  <2>1. session \in Session
    BY DEF Types, TabType
  <2>2. CASE UNCHANGED tabVars
    BY <2>1, <2>2 DEF tabVars
  <2>3. CASE TokenExpires
    <3>1. session' = [session EXCEPT !.valid = FALSE] /\ session # None
          /\ UNCHANGED <<viewer, page, cached>>
      BY <2>3 DEF TokenExpires
    <3> QED BY <2>1, <3>1 DEF Session
  <2>4. ASSUME NEW u \in User, SignInElsewhere(u)
        PROVE  UNCHANGED <<viewer, page, cached>> /\ session' \in Session
    BY <2>4 DEF SignInElsewhere, Session
  <2>5. ASSUME NEW i \in DOMAIN calls, NEW answer \in {Error, Rejected}, Fail(i, answer)
        PROVE  UNCHANGED <<viewer, page, cached>> /\ session' \in Session
    BY <2>1, <2>5 DEF Fail
  <2> QED BY <2>2, <2>3, <2>4, <2>5 DEF World
<1>4. PICK cs : CallsType(cs) /\ calls' = cs
  <2>1. CallsType(calls)
    BY QueueTypes
  <2>2. CASE UNCHANGED tabVars
    BY <2>1, <2>2 DEF tabVars
  <2>3. CASE TokenExpires
    BY <2>1, <2>3 DEF TokenExpires
  <2>4. ASSUME NEW u \in User, SignInElsewhere(u) PROVE calls' = calls
    BY <2>4 DEF SignInElsewhere
  <2>5. ASSUME NEW i \in DOMAIN calls, NEW answer \in {Error, Rejected}, Fail(i, answer)
        PROVE  CallsType([calls EXCEPT ![i].answer = answer])
               /\ calls' = [calls EXCEPT ![i].answer = answer]
    <3> DEFINE c == calls[i]
               d == [c EXCEPT !.answer = answer]
    <3>1. i \in 1..Len(calls) /\ calls \in Seq(SomeCall) /\ c \in SomeCall
      BY QueueTypes
    <3>2. d \in SomeCall /\ d.kind = c.kind /\ d.args = c.args
      <4> HIDE DEF c
      <4> QED BY <3>1, CallAnswer
    <3>3. calls' = [calls EXCEPT ![i].answer = answer]
      BY <2>5 DEF Fail
    <3>4. [calls EXCEPT ![i].answer = answer] = [calls EXCEPT ![i] = d]
      OBVIOUS
    <3> HIDE DEF d
    <3> DEFINE ds == [calls EXCEPT ![i] = d]
    <3>5. /\ ds \in Seq(SomeCall) /\ Len(ds) = Len(calls)
          /\ \A j \in 1..Len(calls) : ds[j] = IF j = i THEN d ELSE calls[j]
      BY <3>1, <3>2, ExceptSeq
    <3> HIDE DEF ds
    <3>6. CallsType(ds)
      BY <2>1, <3>2, <3>5 DEF CallsType
    <3> QED BY <3>3, <3>4, <3>6 DEF ds
  <2> QED BY <2>1, <2>2, <2>3, <2>4, <2>5 DEF World
<1>5. LiveType' /\ calls' \in Seq(SomeCall)
  BY <1>1, <1>2, <1>4, LiveKept
<1>6. TabType' /\ ListType' /\ BidsType' /\ FormsType'
  BY <1>1, <1>2, <1>3, <1>5, TabKept, ListKept, BidsKept, FormsKept DEF formVars
<1> QED BY <1>1, <1>5, <1>6 DEF Types, Moves

\* A request is handled.
LEMMA RespondTypes ==
  ASSUME Types, Respond
  PROVE  Types'
<1>1. PICK i \in DOMAIN calls :
        /\ Serve(i) /\ Watch(i) /\ WatchList
        /\ UNCHANGED <<params, list, loading, shown, bidVars, form, typed, liveVars>>
  BY DEF Respond
<1>2. PICK answer :
        /\ Moves /\ i \in 1..Len(calls) /\ calls[i] \in SomeCall
        /\ answer \in {Error} \union DataOf(calls[i].kind)
        /\ calls' = [calls EXCEPT ![i].answer = answer]
  BY <1>1, ServeMoves DEF Types
<1>3. UNCHANGED <<session, viewer, page, cached>> /\ fresh' \in BOOLEAN
  BY <1>1 DEF Serve, WatchList, Types, ListType
<1> DEFINE c == calls[i]
           d == [c EXCEPT !.answer = answer]
           ds == [calls EXCEPT ![i] = d]
<1>4. d \in SomeCall /\ d.kind = c.kind /\ d.args = c.args
  <2>1. c \in SomeCall /\ answer \in {None, Error, Rejected} \union DataOf(c.kind)
    BY <1>2
  <2> HIDE DEF c
  <2> QED BY <2>1, CallAnswer
<1>5. calls' = ds
  BY <1>2
<1> HIDE DEF d
<1>6. /\ ds \in Seq(SomeCall) /\ Len(ds) = Len(calls)
      /\ \A j \in 1..Len(calls) : ds[j] = IF j = i THEN d ELSE calls[j]
  BY <1>2, <1>4, QueueTypes, ExceptSeq
<1> HIDE DEF ds
<1>7. CallsType(ds)
  BY <1>4, <1>6, QueueTypes DEF CallsType
<1>8. LiveType' /\ calls' \in Seq(SomeCall)
  BY <1>1, <1>2, <1>5, <1>7, LiveKept
<1>9. session' \in Session
  BY <1>3 DEF Types, TabType
<1>10. TabType' /\ ListType' /\ BidsType' /\ FormsType'
  BY <1>1, <1>2, <1>3, <1>8, <1>9, TabKept, ListKept, BidsKept, FormsKept
<1> QED BY <1>2, <1>8, <1>10 DEF Types, Moves
-----------------------------------------------------------------------------
(* The home page *)

\* Records with such fields are parameters.
LEMMA ParamsRecord ==
  ASSUME NEW n \in Nat \ {0}, NEW s \in PageSizeButtons \union {DefaultPageSize},
         NEW t \in SearchText, NEW v \in SearchText, NEW o \in DOMAIN Order,
         NEW f \in FilterButtons \union {"live"}, NEW u \in User \union {None},
         NEW w \in User \union {None}
  PROVE  [pageNumber |-> n, pageSize |-> s, searchTerm |-> t, searchValue |-> v, orderBy |-> o,
          filterBy |-> f, seller |-> u, winner |-> w] \in Params
BY DEF Params

\* What the components set are parameters, as is what is sent of them.
LEMMA ParamsTypes ==
  ASSUME NEW ps \in Params
  PROVE  /\ InitialParams \in Params
         /\ Query(ps) \in Params
         /\ \A text \in SearchText : [ps EXCEPT !.searchValue = text] \in Params
         /\ \A n \in Nat \ {0} : SetParams(ps, [pageNumber |-> n]) \in Params
         /\ \A f \in FilterButtons : SetParams(ps, [filterBy |-> f]) \in Params
         /\ \A o \in OrderButtons : SetParams(ps, [orderBy |-> o]) \in Params
         /\ \A s \in PageSizeButtons : SetParams(ps, [pageSize |-> s]) \in Params
         /\ SetParams(ps, [searchTerm |-> ps.searchValue]) \in Params
         /\ \A u \in User : /\ SetParams(ps, [winner |-> u, seller |-> None]) \in Params
                            /\ SetParams(ps, [winner |-> None, seller |-> u]) \in Params
<1>1. /\ ps.pageNumber \in Nat \ {0} /\ ps.pageSize \in PageSizeButtons \union {DefaultPageSize}
      /\ ps.searchTerm \in SearchText /\ ps.searchValue \in SearchText
      /\ ps.orderBy \in DOMAIN Order /\ ps.filterBy \in FilterButtons \union {"live"}
      /\ ps.seller \in User \union {None} /\ ps.winner \in User \union {None}
  BY DEF Params
<1>2. "" \in SearchText /\ "make" \in DOMAIN Order /\ OrderButtons \subseteq DOMAIN Order
      /\ 1 \in Nat \ {0}
  <2>1. 1 # 0 /\ 1 \in Nat
    OBVIOUS
  <2> QED BY <2>1, ParamsAssumption
<1>3. InitialParams \in Params
  BY <1>2, ParamsRecord DEF InitialParams
<1>4. ASSUME NEW text \in SearchText PROVE [ps EXCEPT !.searchValue = text] \in Params
  <2> DEFINE r ==
          [pageNumber |-> ps.pageNumber, pageSize |-> ps.pageSize,
           searchTerm |-> ps.searchTerm, searchValue |-> text,
           orderBy |-> ps.orderBy, filterBy |-> ps.filterBy, seller |-> ps.seller, winner |-> ps.winner]
  <2>1. [ps EXCEPT !.searchValue = text] = r
    BY DEF Params
  <2>2. r \in Params
    BY <1>1, <1>2, ParamsRecord
  <2> HIDE DEF r
  <2> QED BY <2>1, <2>2
<1>5. Query(ps) \in Params
  BY <1>2, <1>4 DEF Query
<1>6. ASSUME NEW n \in Nat \ {0} PROVE SetParams(ps, [pageNumber |-> n]) \in Params
  <2> DEFINE r ==
          [pageNumber |-> n, pageSize |-> ps.pageSize,
           searchTerm |-> ps.searchTerm, searchValue |-> ps.searchValue,
           orderBy |-> ps.orderBy, filterBy |-> ps.filterBy, seller |-> ps.seller, winner |-> ps.winner]
  <2>1. SetParams(ps, [pageNumber |-> n]) = r
    BY DEF Params, SetParams, Query
  <2>2. r \in Params
    BY <1>1, <1>2, ParamsRecord
  <2> HIDE DEF r
  <2> QED BY <2>1, <2>2
<1>7. ASSUME NEW f \in FilterButtons PROVE SetParams(ps, [filterBy |-> f]) \in Params
  <2> DEFINE r ==
          [pageNumber |-> 1, pageSize |-> ps.pageSize,
           searchTerm |-> ps.searchTerm, searchValue |-> ps.searchValue,
           orderBy |-> ps.orderBy, filterBy |-> f, seller |-> ps.seller, winner |-> ps.winner]
  <2>1. SetParams(ps, [filterBy |-> f]) = r
    BY DEF Params, SetParams, Query
  <2>2. r \in Params
    BY <1>1, <1>2, ParamsRecord
  <2> HIDE DEF r
  <2> QED BY <2>1, <2>2
<1>8. ASSUME NEW o \in OrderButtons PROVE SetParams(ps, [orderBy |-> o]) \in Params
  <2> DEFINE r ==
          [pageNumber |-> 1, pageSize |-> ps.pageSize,
           searchTerm |-> ps.searchTerm, searchValue |-> ps.searchValue,
           orderBy |-> o, filterBy |-> ps.filterBy, seller |-> ps.seller, winner |-> ps.winner]
  <2>1. SetParams(ps, [orderBy |-> o]) = r
    BY DEF Params, SetParams, Query
  <2>2. r \in Params
    BY <1>1, <1>2, ParamsRecord
  <2> HIDE DEF r
  <2> QED BY <2>1, <2>2
<1>9. ASSUME NEW s \in PageSizeButtons PROVE SetParams(ps, [pageSize |-> s]) \in Params
  <2> DEFINE r ==
          [pageNumber |-> 1, pageSize |-> s,
           searchTerm |-> ps.searchTerm, searchValue |-> ps.searchValue,
           orderBy |-> ps.orderBy, filterBy |-> ps.filterBy, seller |-> ps.seller, winner |-> ps.winner]
  <2>1. SetParams(ps, [pageSize |-> s]) = r
    BY DEF Params, SetParams, Query
  <2>2. r \in Params
    BY <1>1, <1>2, ParamsRecord
  <2> HIDE DEF r
  <2> QED BY <2>1, <2>2
<1>10. SetParams(ps, [searchTerm |-> ps.searchValue]) \in Params
  <2> DEFINE r ==
          [pageNumber |-> 1, pageSize |-> ps.pageSize,
           searchTerm |-> ps.searchValue, searchValue |-> ps.searchValue,
           orderBy |-> ps.orderBy, filterBy |-> ps.filterBy, seller |-> ps.seller, winner |-> ps.winner]
  <2>1. SetParams(ps, [searchTerm |-> ps.searchValue]) = r
    BY DEF Params, SetParams, Query
  <2>2. r \in Params
    BY <1>1, <1>2, ParamsRecord
  <2> HIDE DEF r
  <2> QED BY <2>1, <2>2
<1>11. ASSUME NEW u \in User \union {None}, NEW w \in User \union {None} PROVE SetParams(ps, [winner |-> w, seller |-> u]) \in Params
  <2> DEFINE r ==
          [pageNumber |-> 1, pageSize |-> ps.pageSize,
           searchTerm |-> ps.searchTerm, searchValue |-> ps.searchValue,
           orderBy |-> ps.orderBy, filterBy |-> ps.filterBy, seller |-> u, winner |-> w]
  <2>1. SetParams(ps, [winner |-> w, seller |-> u]) = r
    BY DEF Params, SetParams, Query
  <2>2. r \in Params
    BY <1>1, <1>2, ParamsRecord
  <2> HIDE DEF r
  <2> QED BY <2>1, <2>2
<1> QED BY <1>3, <1>4, <1>5, <1>6, <1>7, <1>8, <1>9, <1>10, <1>11

\* The call of a search.
LEMMA SearchCallType ==
  ASSUME NEW ps \in Params
  PROVE  /\ SearchCall(ps) \in SomeCall /\ SearchCall(ps).kind = "search"
         /\ SearchCall(ps).args = Query(ps) /\ SearchCall(ps).left = "no"
         /\ SearchCall(ps).answer = None
<1>1. "search" \in Kinds /\ Query(ps) \in ArgsOf("search")
  BY ParamsTypes DEF Kinds, ArgsOf
<1> QED BY <1>1, NewCall DEF SearchCall

\* Everything but the home page and the queue.
restVars == <<serviceVars, session, viewer, cached, bidVars, formVars, liveVars>>

\* A page that is none of an auction has no form, and no bids.
LEMMA PlainPage ==
  ASSUME Types, Moves, page' \in {HomePage, CreatePage, Crashed}, UNCHANGED bidVars,
         UNCHANGED <<form, typed>>
  PROVE  BidsType' /\ FormsType' /\ page' \in SomePage
<1>1. page'.name # "details" /\ page'.name # "update"
  BY DEF HomePage, CreatePage, Crashed, Page
<1>2. 1..Len(bids) \subseteq 1..Len(bids')
  <2>1. Len(bids) \in Nat /\ Len(bids') \in Nat
    BY LenProperties DEF Types, ServicesType, Moves
  <2> QED BY <2>1 DEF Moves
<1>3. BidsType'
  BY <1>1, <1>2 DEF Types, BidsType, bidVars, OnDetails
<1>4. FormsType'
  BY <1>1 DEF Types, FormsType
<1> QED BY <1>3, <1>4 DEF SomePage

\* History: freshness is a truth value.
LEMMA FreshType ==
  ASSUME Types, NEW ps \in Params
  PROVE  Fresh(ps) \in BOOLEAN
BY DEF Fresh

\* The home page is mounted; cs is what is left of the queue.
LEMMA GoHomeTypes ==
  ASSUME Types, NEW ps \in Params, NEW cs, CallsType(cs), UNCHANGED restVars, GoHome(cs, ps)
  PROVE  Types'
<1>1. Moves
  BY MovesNot DEF Types, restVars
<1>2. UNCHANGED <<session, viewer, cached, bidVars, form, typed, liveVars>>
  BY DEF restVars, formVars
<1>3. SearchCall(ps) \in SomeCall /\ SearchCall(ps).kind # "details"
  BY SearchCallType
<1>4. /\ page' = HomePage /\ params' = ps /\ loading' = TRUE /\ fresh' = Fresh(ps)
      /\ UNCHANGED <<list, shown>>
      /\ calls' = Left(cs) \o <<SearchCall(ps)>>
  BY DEF GoHome, Show
<1>5. CallsType(Left(cs) \o <<SearchCall(ps)>>)
  BY <1>3, ShowCalls
<1>6. ListType'
  BY <1>4, FreshType DEF Types, ListType
<1>7. LiveType' /\ calls' \in Seq(SomeCall)
  BY <1>1, <1>2, <1>4, <1>5, LiveKept
<1>8. BidsType' /\ FormsType' /\ page' \in SomePage
  BY <1>1, <1>2, <1>4, PlainPage
<1>9. TabType'
  BY <1>2, <1>7, <1>8 DEF Types, TabType
<1> QED BY <1>1, <1>6, <1>7, <1>8, <1>9 DEF Types, Moves

\* The parameters are set, on the home page or on the way to it.
LEMMA SetTypes ==
  ASSUME Types, NEW ps \in Params, UNCHANGED restVars,
         SetOnHome(ps) \/ SetAndGoHome(ps) \/ GoHome(calls, ps)
  PROVE  Types'
<1>1. Moves
  BY MovesNot DEF Types, restVars
<1>2. UNCHANGED <<session, viewer, cached, bidVars, form, typed, liveVars>>
  BY DEF restVars, formVars
<1>3. /\ CallsType(calls)
      /\ SearchCall(ps) \in SomeCall /\ SearchCall(ps).kind # "details"
  BY QueueTypes, SearchCallType
<1>4. CASE SetOnHome(ps)
  <2>1. params' = ps /\ UNCHANGED <<page, list, loading, shown>>
    BY <1>4 DEF SetOnHome
  <2>2. fresh' \in BOOLEAN
    BY <1>4, FreshType DEF SetOnHome, Types, ListType
  <2>3. PICK cs : CallsType(cs) /\ calls' = cs
    <3>1. calls' = calls \/ calls' = Append(calls, SearchCall(ps))
      BY <1>4 DEF SetOnHome, Send
    <3> QED BY <1>3, <3>1, CallsTypeKept
  <2>4. ListType'
    BY <2>1, <2>2 DEF Types, ListType
  <2>5. LiveType' /\ calls' \in Seq(SomeCall)
    BY <1>1, <1>2, <2>3, LiveKept
  <2>6. session' \in Session
    BY <1>2 DEF Types, TabType
  <2>7. TabType' /\ BidsType' /\ FormsType'
    BY <1>1, <1>2, <2>1, <2>5, <2>6, TabKept, BidsKept, FormsKept
  <2> QED BY <1>1, <2>4, <2>5, <2>7 DEF Types, Moves
<1>5. CASE GoHome(calls, ps)
  BY <1>3, <1>5, GoHomeTypes
<1> QED BY <1>4, <1>5 DEF SetAndGoHome

\* The buttons of the home page and of the navigation bar.
LEMMA OnListTypes ==
  ASSUME Types, OnList
  PROVE  Types'
<1>1. UNCHANGED <<bidVars, formVars, liveVars>>
  BY DEF OnList
<1>2. params \in Params /\ viewer \in User \union {None}
  BY DEF Types, ListType, TabType
<1> DEFINE rest == UNCHANGED restVars
<1>3. ASSUME Click PROVE rest
  BY <1>1, <1>3 DEF Click, restVars
<1>4. CASE Filters
  <2>1. rest
    BY <1>3, <1>4 DEF Filters
  <2>2. \E ps \in Params : SetOnHome(ps)
    BY <1>2, <1>4, ParamsTypes DEF Filters
  <2> QED BY <2>1, <2>2, SetTypes
<1>5. CASE EmptyFilter
  <2>1. rest
    BY <1>3, <1>5 DEF EmptyFilter
  <2>2. \E ps \in Params : SetOnHome(ps)
    BY <1>2, <1>5, ParamsTypes DEF EmptyFilter
  <2> QED BY <2>1, <2>2, SetTypes
<1>6. CASE Search
  <2>1. rest
    BY <1>3, <1>6 DEF Search
  <2>2. \E ps \in Params : SetAndGoHome(ps)
    BY <1>2, <1>6, ParamsTypes DEF Search
  <2> QED BY <2>1, <2>2, SetTypes
<1>7. CASE Logo
  <2>1. rest
    BY <1>3, <1>7 DEF Logo
  <2>2. \E ps \in Params : SetAndGoHome(ps)
    BY <1>2, <1>7, ParamsTypes DEF Logo
  <2> QED BY <2>1, <2>2, SetTypes
<1>8. CASE SetWinner
  <2>1. rest
    BY <1>3, <1>8 DEF SetWinner
  <2>2. \E ps \in Params : SetAndGoHome(ps)
    BY <1>2, <1>8, ParamsTypes DEF SetWinner
  <2> QED BY <2>1, <2>2, SetTypes
<1>9. CASE SetSeller
  <2>1. rest
    BY <1>3, <1>9 DEF SetSeller
  <2>2. \E ps \in Params : SetAndGoHome(ps)
    BY <1>2, <1>9, ParamsTypes DEF SetSeller
  <2> QED BY <2>1, <2>2, SetTypes
<1>10. ASSUME NEW n \in 1..Cardinality(AuctionId), AppPagination(n) PROVE Types'
  <2>1. rest
    BY <1>3, <1>10 DEF AppPagination
  <2>2. n \in Nat \ {0}
    OBVIOUS
  <2>3. \E ps \in Params : SetOnHome(ps)
    BY <1>2, <1>10, <2>2, ParamsTypes DEF AppPagination
  <2> QED BY <2>1, <2>3, SetTypes
<1>11. ASSUME NEW text \in SearchText, TypeSearch(text) PROVE Types'
  <2>1. UNCHANGED restVars
    BY <1>3, <1>11 DEF TypeSearch
  <2>2. Moves
    BY <2>1, MovesNot DEF Types, restVars
  <2>3. params' \in Params /\ UNCHANGED <<page, calls, list, loading, shown, fresh>>
    BY <1>2, <1>11, ParamsTypes DEF TypeSearch
  <2>4. LiveType' /\ calls' \in Seq(SomeCall)
    BY <1>1, <2>2, <2>3, QueueTypes, LiveKept
  <2>5. ListType'
    BY <2>3 DEF Types, ListType
  <2>6. session' \in Session /\ UNCHANGED <<viewer, page, cached>>
    BY <2>1, <2>3 DEF Types, TabType, restVars
  <2>7. TabType' /\ BidsType' /\ FormsType'
    BY <1>1, <2>2, <2>3, <2>4, <2>6, TabKept, BidsKept, FormsKept DEF formVars
  <2> QED BY <2>2, <2>4, <2>5, <2>7 DEF Types, Moves
<1> QED BY <1>4, <1>5, <1>6, <1>7, <1>8, <1>9, <1>10, <1>11 DEF OnList
-----------------------------------------------------------------------------
(* Pages and forms *)

\* What a page holds.
LEMMA PageFacts ==
  ASSUME NEW p \in SomePage
  PROVE  /\ p.name \in {"home", "create", "crashed", "details", "update"}
         /\ p.auctionId \in AuctionId \union {None}
         /\ p.name \in {"details", "update"} =>
              /\ p.row \in Row \union {Error} /\ p.user \in User \union {None}
              /\ p.row # Error => p.auctionId \in AuctionId /\ p.row \in Row
         /\ p.name = "home" => p = HomePage
         /\ p.name = "create" => p = CreatePage
         /\ p.name = "crashed" => p = Crashed
<1>1. CASE p \in {HomePage, CreatePage, Crashed}
  BY <1>1 DEF HomePage, CreatePage, Crashed, Page
<1>2. CASE p \in [name : {"details", "update"}, auctionId : AuctionId, row : Row \union {Error},
                  user : User \union {None}]
  BY <1>2
<1>3. CASE p \in [name : {"details", "update"}, auctionId : {None}, row : {Error},
                  user : User \union {None}]
  BY <1>3
<1> QED BY <1>1, <1>2, <1>3 DEF SomePage

\* The pages of an auction, as the server renders them.
LEMMA RenderedPages ==
  ASSUME ServicesType, session \in Session, NEW a \in AuctionId \union {None}
  PROVE  /\ DetailsPage(a) \in SomePage /\ DetailsPage(a).name = "details"
         /\ UpdatePage(a) \in SomePage /\ UpdatePage(a).name = "update"
         /\ DetailsPage(a).auctionId = a /\ UpdatePage(a).auctionId = a
         /\ DetailsPage(a).row = HandleResponse(GetAuctionById(a))
         /\ UpdatePage(a).row = HandleResponse(GetAuctionById(a))
<1> DEFINE r == HandleResponse(GetAuctionById(a))
<1>1. r \in Row \union {Error} /\ (a = None => r = Error)
  BY AuctionAnswer
<1>2. CurrentUser \in User \union {None}
  BY UserTypes
<1>3. DetailsPage(a) = [name |-> "details", auctionId |-> a, row |-> r, user |-> CurrentUser]
  BY DEF DetailsPage, Page
<1>4. UpdatePage(a) = [name |-> "update", auctionId |-> a, row |-> r, user |-> None]
  BY DEF UpdatePage, Page
<1> HIDE DEF r
<1>5. ASSUME NEW p, NEW name \in {"details", "update"}, NEW u \in User \union {None},
             p = [name |-> name, auctionId |-> a, row |-> r, user |-> u]
      PROVE  p \in SomePage
  <2>1. CASE a \in AuctionId
    <3>1. p \in [name : {"details", "update"}, auctionId : AuctionId, row : Row \union {Error},
                 user : User \union {None}]
      BY <1>1, <1>5, <2>1
    <3> QED BY <3>1 DEF SomePage
  <2>2. CASE a = None
    <3>1. p \in [name : {"details", "update"}, auctionId : {None}, row : {Error},
                 user : User \union {None}]
      BY <1>1, <1>5, <2>2
    <3> QED BY <3>1 DEF SomePage
  <2> QED BY <2>1, <2>2
<1>6. DetailsPage(a) \in SomePage /\ UpdatePage(a) \in SomePage
  BY <1>2, <1>3, <1>4, <1>5
<1> QED BY <1>3, <1>4, <1>6 DEF r

\* A call is made.
LEMMA SendTypes ==
  ASSUME Types, NEW c \in SomeCall, c.kind = "details" => rows[c.args] # None, Send(c),
         UNCHANGED <<serviceVars, session, viewer, page, cached, listVars, bidVars, formVars, liveVars>>
  PROVE  Types'
<1>1. Moves
  BY MovesNot DEF Types
<1>2. CallsType(Append(calls, c)) /\ calls' = Append(calls, c)
  BY QueueTypes, CallsTypeKept DEF Send
<1>3. LiveType' /\ calls' \in Seq(SomeCall)
  BY <1>1, <1>2, LiveKept
<1>4. UNCHANGED <<params, list, loading, shown, form, typed>> /\ fresh' \in BOOLEAN /\ session' \in Session
  BY DEF listVars, formVars, Types, ListType, TabType
<1>5. TabType' /\ ListType' /\ BidsType' /\ FormsType'
  BY <1>1, <1>3, <1>4, TabKept, ListKept, BidsKept, FormsKept
<1> QED BY <1>1, <1>3, <1>5 DEF Types, Moves

\* Typing, and what the forms and the buttons send.
LEMMA OnFormsTypes ==
  ASSUME Types, OnForms
  PROVE  Types'
<1>1. UNCHANGED liveVars
  BY DEF OnForms
<1>2. page \in SomePage
  BY DEF Types, TabType
<1>3. ASSUME NEW f \in Field, NEW v \in Value, TypeField(f, v) PROVE Types'
  <2>1. UNCHANGED <<serviceVars, tabVars, listVars, bidVars>> /\ OnUpdate
        /\ form' = [form EXCEPT ![f] = v] /\ typed' = typed \union {f}
    BY <1>3 DEF TypeField
  <2>2. form \in SomeCar /\ form # None /\ page.row # Error /\ page' = page
    BY <2>1 DEF Types, FormsType, OnUpdate, tabVars
  <2>3. form' \in SomeCar
    BY <2>1, <2>2 DEF SomeCar
  <2>4. FormsType'
    BY <2>1, <2>2, <2>3 DEF Types, FormsType
  <2>5. Moves
    BY <2>1, MovesNot DEF Types
  <2>6. LiveType' /\ calls' \in Seq(SomeCall)
    BY <1>1, <2>1, <2>5, QueueTypes, LiveKept DEF tabVars
  <2>7. /\ UNCHANGED <<viewer, page, cached>> /\ session' \in Session
        /\ UNCHANGED <<params, list, loading, shown>> /\ fresh' \in BOOLEAN
    BY <2>1 DEF tabVars, listVars, Types, ListType, TabType
  <2>8. TabType' /\ ListType' /\ BidsType'
    BY <2>1, <2>5, <2>6, <2>7, TabKept, ListKept, BidsKept
  <2> QED BY <2>4, <2>5, <2>6, <2>8 DEF Types, Moves
<1>4. ASSUME Submit PROVE UNCHANGED <<serviceVars, session, viewer, page, cached, listVars, bidVars, formVars, liveVars>>
  BY <1>1, <1>4 DEF Submit
<1>5. ASSUME NEW item \in NewItem, SubmitCreate(item) PROVE Types'
  <2> DEFINE c == Call("create", [item |-> item])
  <2>1. "create" \in Kinds /\ [item |-> item] \in ArgsOf("create")
    BY NewItemAssumption DEF Kinds, ArgsOf, SomeCar
  <2>2. c \in SomeCall /\ c.kind = "create"
    BY <2>1, NewCall
  <2>3. Submit /\ Send(c)
    BY <1>5 DEF SubmitCreate
  <2> HIDE DEF c
  <2> QED BY <1>4, <2>2, <2>3, SendTypes
<1>6. CASE SubmitUpdate
  <2> DEFINE args == [auctionId |-> page.auctionId, item |-> form, was |-> page.row.item, typed |-> typed]
             c == Call("update", args)
  <2>1. form \in SomeCar /\ page.row # Error /\ page.name = "update" /\ typed \in SUBSET Field
    BY <1>6 DEF SubmitUpdate, OnUpdate, Types, FormsType
  <2>2. page.auctionId \in AuctionId /\ page.row \in Row
    BY <1>2, <2>1, PageFacts
  <2>3. page.row.item \in SomeCar
    BY <2>2 DEF Row, SomeCar
  <2>4. "update" \in Kinds /\ args \in ArgsOf("update")
    BY <2>1, <2>2, <2>3 DEF Kinds, ArgsOf
  <2>5. Submit /\ Send(c)
    BY <1>6 DEF SubmitUpdate
  <2> HIDE DEF args
  <2>6. c \in SomeCall /\ c.kind = "update"
    BY <2>4, NewCall
  <2> HIDE DEF c
  <2> QED BY <1>4, <2>5, <2>6, SendTypes
<1>7. CASE SubmitDelete
  <2> DEFINE args == [auctionId |-> IF page.row = Error THEN None ELSE page.auctionId]
             c == Call("delete", args)
  <2>1. page.auctionId \in AuctionId \union {None}
    BY <1>2, PageFacts
  <2>2. "delete" \in Kinds /\ args \in ArgsOf("delete")
    BY <2>1 DEF Kinds, ArgsOf
  <2>3. Submit /\ Send(c)
    BY <1>7 DEF SubmitDelete
  <2> HIDE DEF args
  <2>4. c \in SomeCall /\ c.kind = "delete"
    BY <2>2, NewCall
  <2> HIDE DEF c
  <2> QED BY <1>4, <2>3, <2>4, SendTypes
<1>8. ASSUME NEW n \in Offer, SubmitBid(n), UNCHANGED <<listVars, formVars>> PROVE Types'
  <2> DEFINE args == [auctionId |-> page.auctionId, amount |-> n]
             c == Call("place", args)
  <2>1. page.name = "details" /\ page.row # Error
    BY <1>8 DEF SubmitBid, BidFormShown, Types, BidsType, OnDetails
  <2>2. page.auctionId \in AuctionId
    BY <1>2, <2>1, PageFacts
  <2>3. "place" \in Kinds /\ args \in ArgsOf("place")
    BY <2>2 DEF Kinds, ArgsOf
  <2>4. Send(c) /\ UNCHANGED <<serviceVars, session, viewer, page, cached, bidVars>>
    BY <1>8 DEF SubmitBid
  <2> HIDE DEF args
  <2>5. c \in SomeCall /\ c.kind = "place"
    BY <2>3, NewCall
  <2> HIDE DEF c
  <2> QED BY <1>1, <1>8, <2>4, <2>5, SendTypes
<1> QED BY <1>3, <1>5, <1>6, <1>7, <1>8 DEF OnForms

\* The call that fetches the bids of a page.
LEMMA BidsCallType ==
  ASSUME NEW p \in SomePage
  PROVE  /\ BidsCall(p) \in SomeCall /\ BidsCall(p).kind = "bids"
         /\ BidsCall(p).args = IF p.row = Error THEN None ELSE p.auctionId
         /\ BidsCall(p).left = "no" /\ BidsCall(p).answer = None
<1>1. "bids" \in Kinds /\ (IF p.row = Error THEN None ELSE p.auctionId) \in ArgsOf("bids")
  BY PageFacts DEF Kinds, ArgsOf
<1> QED BY <1>1, NewCall DEF BidsCall

\* A page of an auction is shown.
LEMMA VisitTypes ==
  ASSUME Types, Moves, NEW cs, CallsType(cs), NEW a \in AuctionId \union {None},
         NEW kept, kept \subseteq SomePage, VisitDetails(cs, a, kept)
  PROVE  /\ page' \in SomePage /\ cached' \subseteq SomePage /\ CallsType(calls') /\ BidsType'
         /\ page'.name = "details" /\ page'.auctionId = a
<1>1. PICK p \in Renderings(DetailsPage(a), kept) : GoToDetails(cs, p) /\ cached' = Keeping(p, kept)
  BY DEF VisitDetails
<1>2. ServicesType /\ session \in Session
  BY DEF Types, TabType
<1>3. p \in SomePage /\ p.name = "details" /\ p.auctionId = a
  BY <1>1, <1>2, RenderedPages DEF Renderings, Same
<1>4. cached' \subseteq SomePage
  BY <1>1, <1>3 DEF Keeping
<1>5. PICK fetch \in BOOLEAN, ds \in {Left(cs), Detached(cs)} :
        /\ page' = p
        /\ calls' = ds \o (IF fetch THEN <<BidsCall(p)>> ELSE <<>>)
        /\ open' = OpenOn(fetch, p.row, p.auctionId)
        /\ bidsLoading' \in BOOLEAN
        /\ UNCHANGED <<bidList, bidsOf, missed>>
  <2> DEFINE remount == ~ Same(p, page)
             fetch == remount \/ BidsCall(p) # BidsCall(page)
  <2>1. /\ page' = p
        /\ calls' = (IF remount THEN Left(cs) ELSE Detached(cs)) \o (IF fetch THEN <<BidsCall(p)>> ELSE <<>>)
        /\ open' = OpenOn(fetch, p.row, p.auctionId)
        /\ bidsLoading' = (remount \/ bidsLoading)
        /\ UNCHANGED <<bidList, bidsOf, missed>>
    BY <1>1 DEF GoToDetails
  <2>2. fetch \in BOOLEAN /\ remount \in BOOLEAN /\ bidsLoading \in BOOLEAN
    BY DEF Types, BidsType
  <2> HIDE DEF fetch, remount
  <2> QED BY <2>1, <2>2
<1>6. CallsType(calls')
  <2>1. BidsCall(p) \in SomeCall /\ BidsCall(p).kind # "details"
    BY <1>3, BidsCallType
  <2>2. CallsType(ds \o <<BidsCall(p)>>) /\ CallsType(ds \o <<>>)
    BY <2>1, ShowCalls
  <2> QED BY <1>5, <2>2
<1>7. open' \in BOOLEAN /\ (open' => p.row # Error)
  BY <1>5 DEF OpenOn, Types, BidsType
<1>8. 1..Len(bids) \subseteq 1..Len(bids')
  <2>1. Len(bids) \in Nat /\ Len(bids') \in Nat
    BY LenProperties DEF Types, ServicesType, Moves
  <2> QED BY <2>1 DEF Moves
<1>9. BidsType'
  BY <1>5, <1>7, <1>8 DEF Types, BidsType, OnDetails
<1> QED BY <1>3, <1>4, <1>5, <1>6, <1>9

\* Ways to the page of an auction.
LEMMA OpenTypes ==
  ASSUME Types, NEW a \in AuctionId \union {None}, VisitDetails(calls, a, cached),
         UNCHANGED <<serviceVars, session, viewer, listVars, formVars, liveVars>>
  PROVE  Types'
<1>1. Moves
  BY MovesNot DEF Types
<1>2. cached \subseteq SomePage /\ CallsType(calls)
  BY QueueTypes DEF Types, TabType
<1>3. /\ page' \in SomePage /\ cached' \subseteq SomePage /\ CallsType(calls') /\ BidsType'
      /\ page'.name = "details"
  BY <1>1, <1>2, VisitTypes
<1>4. LiveType' /\ calls' \in Seq(SomeCall)
  BY <1>1, <1>3, LiveKept
<1>5. ListType'
  BY ListKept DEF listVars, Types, ListType
<1>6. TabType'
  BY <1>3, <1>4 DEF Types, TabType
<1>7. FormsType'
  BY <1>3 DEF Types, FormsType, formVars
<1> QED BY <1>1, <1>3, <1>4, <1>5, <1>6, <1>7 DEF Types, Moves

\* The empty list is one.
LEMMA EmptyListType == EmptyList \in SomeList
<1>1. <<>> \in Seq([id : AuctionId, currentHighBid : Nat]) /\ 0 \in Nat
  OBVIOUS
<1> QED BY <1>1 DEF EmptyList, SomeList

\* Everything is loaded anew.
LEMMA LoadTypes ==
  ASSUME Types, NEW p \in SomePage, NEW u \in User \union {None}, Load(p, u), session' \in Session
  PROVE  Types'
<1>1. Moves /\ UNCHANGED serviceVars
  BY MovesNot DEF Types, Load
<1>2. /\ page' = p /\ viewer' = u /\ calls' = MountCalls(p) /\ cached' = {}
      /\ params' = InitialParams /\ list' = EmptyList /\ loading' = TRUE /\ fresh' = TRUE
      /\ shown' = [query |-> Query(InitialParams), by |-> "nobody"]
      /\ bidList' = <<>> /\ bidsLoading' = TRUE /\ bidsOf' = None /\ missed' = {}
      /\ open' = (p.name = "details" => OpenOn(TRUE, p.row, p.auctionId))
      /\ Reset(IF p.name = "update" THEN p.row ELSE Error)
      /\ connection' = "off" /\ toasts' = {} /\ announced' = announced
  BY DEF Load
<1>3. InitialParams \in Params /\ Query(InitialParams) \in Params
  <2>1. params \in Params
    BY DEF Types, ListType
  <2>2. InitialParams \in Params
    BY <2>1, ParamsTypes
  <2> QED BY <2>2, ParamsTypes
<1>4. CallsType(calls')
  <2>1. SearchCall(InitialParams) \in SomeCall /\ SearchCall(InitialParams).kind # "details"
    BY <1>3, SearchCallType
  <2>2. BidsCall(p) \in SomeCall /\ BidsCall(p).kind # "details"
    BY BidsCallType
  <2>3. calls' \in {<<SearchCall(InitialParams)>>, <<BidsCall(p)>>, <<>>}
    BY <1>2 DEF MountCalls
  <2> QED BY <2>1, <2>2, <2>3, ShortCalls
<1>5. calls' \in Seq(SomeCall) /\ \A i \in 1..Len(calls') : calls'[i].kind = "details" => rows'[calls'[i].args] # None
  <2>1. rows' = rows
    BY <1>1 DEF serviceVars
  <2> QED BY <1>4, <2>1 DEF CallsType
<1>6. LiveType'
  <2>1. announced' \subseteq 1..Len(bids')
    BY <1>1, <1>2 DEF serviceVars, Types, LiveType
  <2> QED BY <1>2, <1>5, <2>1 DEF LiveType
<1>7. ListType'
  BY <1>2, <1>3, EmptyListType DEF ListType
<1>8. TabType'
  BY <1>2, <1>5 DEF TabType
<1>9. open' \in BOOLEAN /\ (OnDetails' /\ open' => page'.row # Error)
  BY <1>2 DEF OpenOn, OnDetails
<1>10. BidsType'
  <2>1. <<>> \in Seq(Bid)
    OBVIOUS
  <2> QED BY <1>2, <1>9, <2>1 DEF BidsType
<1>11. FormsType'
  <2> DEFINE row == IF p.name = "update" THEN p.row ELSE Error
  <2>1. row \in Row \union {Error} /\ (row # Error => p.name = "update" /\ p.row # Error)
    BY PageFacts
  <2>2. form' = (IF row = Error THEN None ELSE row.item) /\ typed' = {}
    BY <1>2 DEF Reset
  <2>3. row # Error => row.item \in SomeCar
    BY <2>1 DEF Row, SomeCar
  <2> HIDE DEF row
  <2> QED BY <1>2, <2>1, <2>2, <2>3 DEF FormsType
<1> QED BY <1>1, <1>6, <1>7, <1>8, <1>10, <1>11 DEF Types, Moves

\* The ways between the pages.
LEMMA NavigateTypes ==
  ASSUME Types, Navigate
  PROVE  Types'
<1>1. page \in SomePage /\ cached \subseteq SomePage /\ session \in Session /\ viewer \in User \union {None}
      /\ ServicesType
  BY DEF Types, TabType
<1>2. ASSUME NEW a \in AuctionId, OpenAuction(a) PROVE Types'
  <2>1. VisitDetails(calls, a, cached)
        /\ UNCHANGED <<serviceVars, session, viewer, listVars, formVars, liveVars>>
    BY <1>2 DEF OpenAuction, Visit
  <2> QED BY <2>1, OpenTypes
<1>3. ASSUME NEW a \in toasts, OpenToast(a) PROVE Types'
  <2>1. VisitDetails(calls, a, cached)
        /\ UNCHANGED <<serviceVars, session, viewer, listVars, formVars, liveVars>>
    BY <1>3 DEF OpenToast, Visit
  <2>2. a \in AuctionId \union {None}
    BY DEF Types, LiveType
  <2> QED BY <2>1, <2>2, OpenTypes
<1>4. CASE OpenUpdate
  <2> DEFINE a == IF page.row = Error THEN None ELSE page.auctionId
  <2>1. a \in AuctionId \union {None}
    BY <1>1, PageFacts
  <2>2. VisitUpdate(a) /\ UNCHANGED <<serviceVars, session, viewer, listVars, liveVars, bidVars, done>>
    BY <1>4 DEF OpenUpdate, Visit
  <2> HIDE DEF a
  <2>3. PICK p \in Renderings(UpdatePage(a), cached) :
          Show(calls, p, <<>>) /\ Reset(p.row) /\ cached' = Keeping(p, cached)
    BY <2>2 DEF VisitUpdate
  <2>4. p \in SomePage /\ p.name = "update"
    BY <1>1, <2>1, <2>3, RenderedPages DEF Renderings, Same
  <2>5. cached' \subseteq SomePage
    BY <1>1, <2>3, <2>4 DEF Keeping
  <2>6. Moves
    BY <2>2, MovesNot DEF Types
  <2>7. page' = p /\ calls' = Left(calls) \o <<>>
    BY <2>3 DEF Show
  <2>8. CallsType(Left(calls) \o <<>>)
    <3>1. CallsType(Left(calls))
      BY QueueTypes, CallsTypeKept
    <3>2. Left(calls) \o <<>> = Left(calls)
      BY <3>1, ConcatEmptySeq DEF CallsType
    <3> QED BY <3>1, <3>2
  <2>9. LiveType' /\ calls' \in Seq(SomeCall)
    BY <2>2, <2>6, <2>7, <2>8, LiveKept
  <2>10. ListType'
    BY <2>2, ListKept DEF listVars, Types, ListType
  <2>11. TabType'
    BY <1>1, <2>2, <2>4, <2>5, <2>7, <2>9 DEF TabType
  <2>12. BidsType'
    <3>1. 1..Len(bids) \subseteq 1..Len(bids')
      BY <2>2 DEF serviceVars
    <3> QED BY <2>2, <2>4, <2>7, <3>1 DEF Types, BidsType, OnDetails, bidVars
  <2>13. FormsType'
    <3>1. form' = (IF p.row = Error THEN None ELSE p.row.item) /\ typed' = {}
      BY <2>3 DEF Reset
    <3>2. p.row # Error => p.row.item \in SomeCar
      BY <2>4, PageFacts DEF Row, SomeCar
    <3> QED BY <2>7, <3>1, <3>2 DEF FormsType
  <2> QED BY <2>6, <2>9, <2>10, <2>11, <2>12, <2>13 DEF Types, Moves
<1>5. CASE OpenCreate
  <2>1. /\ Show(calls, CreatePage, <<>>)
        /\ UNCHANGED <<serviceVars, session, viewer, listVars, liveVars, cached, bidVars, formVars>>
    BY <1>5 DEF OpenCreate, Visit
  <2>2. Moves
    BY <2>1, MovesNot DEF Types
  <2>3. page' = CreatePage /\ calls' = Left(calls) \o <<>>
    BY <2>1 DEF Show
  <2>4. CallsType(Left(calls) \o <<>>)
    <3>1. CallsType(Left(calls))
      BY QueueTypes, CallsTypeKept
    <3>2. Left(calls) \o <<>> = Left(calls)
      BY <3>1, ConcatEmptySeq DEF CallsType
    <3> QED BY <3>1, <3>2
  <2>5. LiveType' /\ calls' \in Seq(SomeCall)
    BY <2>1, <2>2, <2>3, <2>4, LiveKept
  <2>6. ListType'
    BY <2>1, ListKept DEF listVars, Types, ListType
  <2>7. BidsType' /\ FormsType' /\ page' \in SomePage
    BY <2>1, <2>2, <2>3, PlainPage DEF formVars
  <2>8. TabType'
    BY <1>1, <2>1, <2>5, <2>7 DEF TabType
  <2> QED BY <2>2, <2>5, <2>6, <2>7, <2>8 DEF Types, Moves
<1>6. HomePage \in SomePage
  BY DEF SomePage
<1>7. CASE Reload
  <2>1. page.auctionId \in AuctionId \union {None}
    BY <1>1, PageFacts
  <2>2. DetailsPage(page.auctionId) \in SomePage /\ UpdatePage(page.auctionId) \in SomePage
    BY <1>1, <2>1, RenderedPages
  <2>3. CurrentUser \in User \union {None}
    BY <1>1, UserTypes
  <2>4. PICK p \in SomePage : Load(p, CurrentUser) /\ session' = session
    BY <1>1, <1>6, <1>7, <2>2 DEF Reload
  <2> QED BY <1>1, <2>3, <2>4, LoadTypes
<1>8. ASSUME NEW u \in User, SignIn(u) PROVE Types'
  <2>1. session' \in Session /\ Load(HomePage, u)
    BY <1>8 DEF SignIn, Session
  <2> QED BY <1>6, <2>1, LoadTypes
<1>9. CASE SignOut
  <2>1. session' \in Session /\ Load(HomePage, None)
    BY <1>9 DEF SignOut, Session
  <2>2. None \in User \union {None}
    OBVIOUS
  <2> QED BY <1>6, <2>1, <2>2, LoadTypes
<1> QED BY <1>2, <1>3, <1>4, <1>5, <1>7, <1>8, <1>9 DEF Navigate
-----------------------------------------------------------------------------
(* Answers *)

\* An answer that has come, and what remains of the queue.
LEMMA AnsweredFacts ==
  ASSUME Types, NEW i, NEW kind, Answered(i, kind)
  PROVE  /\ i \in 1..Len(calls) /\ calls[i] \in SomeCall /\ calls[i].kind = kind
         /\ calls[i].args \in ArgsOf(kind) /\ calls[i].left \in {"no", "page", "queue"}
         /\ ~ Failed(calls[i].answer) => calls[i].answer \in DataOf(kind)
         /\ CallsType(RemoveAt(calls, i))
<1>1. i \in InFlight(calls) /\ calls[i].kind = kind /\ calls[i].answer # None
  BY DEF Answered
<1>2. i \in 1..Len(calls) /\ calls[i] \in SomeCall /\ CallsType(calls)
  BY <1>1, QueueTypes
<1> QED BY <1>1, <1>2, CallFields, CallsTypeKept DEF Failed

\* The store of the auctions.
LEMMA ReceiveSearchTypes ==
  ASSUME Types, NEW i, ReceiveSearch(i), UNCHANGED <<bidVars, formVars, liveVars>>
  PROVE  Types'
<1> DEFINE c == calls[i]
<1>1. Answered(i, "search") /\ UNCHANGED <<params, fresh, serviceVars, budget, session, viewer, cached>>
  BY DEF ReceiveSearch
<1>2. /\ c.args \in Params /\ (~ Failed(c.answer) => c.answer \in SomeList)
      /\ CallsType(RemoveAt(calls, i))
  BY <1>1, AnsweredFacts DEF ArgsOf, DataOf
<1>3. /\ loading' \in BOOLEAN /\ list' \in SomeList \union {NoList}
      /\ shown' \in [query : Params, by : {"page", "left", "nobody"}]
  <2>1. CASE c.answer = Rejected
    <3>1. UNCHANGED <<list, loading>> /\ shown' \in {shown, [shown EXCEPT !.by = "nobody"]}
      BY <2>1 DEF ReceiveSearch
    <3> QED BY <3>1 DEF Types, ListType
  <2>2. CASE c.answer # Rejected
    <3>1. /\ list' = SetData(c.answer)
          /\ shown' = [query |-> c.args, by |-> IF c.left = "no" THEN "page" ELSE "left"]
          /\ loading' = (loading /\ c.left = "page")
      BY <2>2 DEF ReceiveSearch
    <3>2. SetData(c.answer) \in SomeList \union {NoList}
      BY <1>2, <2>2 DEF SetData, Failed
    <3> QED BY <1>2, <3>1, <3>2 DEF Types, ListType
  <2> QED BY <2>1, <2>2
<1>4. Moves
  BY <1>1, MovesNot DEF Types
<1>5. UNCHANGED <<form, typed>> /\ session' \in Session
  BY <1>1 DEF formVars, Types, TabType
<1>6. ListType'
  BY <1>1, <1>3 DEF Types, ListType
<1>7. (page' = Crashed /\ calls' = <<>>) \/ (page' = page /\ calls' = RemoveAt(calls, i))
  <2> DEFINE crash == OnHome /\ ~ loading' /\ list' = NoList
  <2>1. IF crash THEN page' = Crashed /\ calls' = <<>>
                 ELSE page' = page /\ calls' = RemoveAt(calls, i)
    BY Zenon DEF ReceiveSearch
  <2> HIDE DEF crash
  <2> QED BY <2>1, Zenon
<1>8. CASE page' = Crashed /\ calls' = <<>>
  <2>1. LiveType' /\ calls' \in Seq(SomeCall)
    BY <1>4, <1>8, ShortCalls, LiveKept
  <2>2. BidsType' /\ FormsType' /\ page' \in SomePage
    BY <1>4, <1>5, <1>8, PlainPage
  <2>3. TabType'
    BY <1>1, <1>5, <2>1, <2>2 DEF Types, TabType
  <2> QED BY <1>4, <1>6, <2>1, <2>2, <2>3 DEF Types, Moves
<1>9. CASE page' = page /\ calls' = RemoveAt(calls, i)
  <2>1. LiveType' /\ calls' \in Seq(SomeCall)
    BY <1>2, <1>4, <1>9, LiveKept
  <2>2. TabType' /\ BidsType' /\ FormsType'
    BY <1>1, <1>4, <1>5, <1>9, <2>1, TabKept, BidsKept, FormsKept
  <2> QED BY <1>4, <1>6, <2>1, <2>2 DEF Types, Moves
<1> QED BY <1>7, <1>8, <1>9

\* An answer, or a notification, that changes nothing but the page of an auction.
LEMMA ListedTypes ==
  ASSUME Types, NEW cs, CallsType(cs), calls' = cs,
         UNCHANGED <<serviceVars, session, viewer, page, cached, listVars, formVars, liveVars>>,
         bidList' \in Seq(Bid), bidsLoading' \in BOOLEAN, open' \in BOOLEAN, open' => open,
         bidsOf' \in AuctionId \union {None}, missed' \subseteq missed
  PROVE  Types'
<1>1. Moves
  BY MovesNot DEF Types
<1>2. LiveType' /\ calls' \in Seq(SomeCall)
  BY <1>1, LiveKept
<1>3. UNCHANGED <<params, list, loading, shown, form, typed>> /\ fresh' \in BOOLEAN /\ session' \in Session
  BY DEF listVars, formVars, Types, ListType, TabType
<1>4. TabType' /\ ListType' /\ FormsType'
  BY <1>1, <1>2, <1>3, TabKept, ListKept, FormsKept
<1>5. BidsType'
  BY DEF Types, BidsType, OnDetails, serviceVars
<1> QED BY <1>1, <1>2, <1>4, <1>5 DEF Types, Moves

\* A bid in front of a list of bids.
LEMMA AddBidType ==
  ASSUME NEW bs \in Seq(Bid), NEW b \in Bid
  PROVE  /\ <<b>> \o bs \in Seq(Bid) /\ AddBid(bs, b) \in Seq(Bid) /\ Len(bs) \in Nat
         /\ Len(<<b>> \o bs) = Len(bs) + 1
         /\ (<<b>> \o bs)[1] = b
         /\ \A k \in 1..(Len(bs) + 1) : k # 1 => k - 1 \in 1..Len(bs) /\ (<<b>> \o bs)[k] = bs[k - 1]
<1>1. <<b>> \in Seq(Bid) /\ Len(<<b>>) = 1 /\ <<b>>[1] = b /\ Len(bs) \in Nat
  BY LenProperties
<1> DEFINE one == <<b>>
<1>2. one \in Seq(Bid) /\ Len(one) = 1 /\ one[1] = b
  BY <1>1
<1> HIDE DEF one
<1>3. /\ one \o bs \in Seq(Bid) /\ Len(one \o bs) = Len(one) + Len(bs)
      /\ \A k \in 1..(Len(one) + Len(bs)) :
           (one \o bs)[k] = IF k <= Len(one) THEN one[k] ELSE bs[k - Len(one)]
  BY <1>2, ConcatProperties
<1>4. Len(one \o bs) = Len(bs) + 1 /\ (one \o bs)[1] = b
  <2>1. 1 \in 1..(Len(one) + Len(bs)) /\ 1 <= Len(one)
    BY <1>1, <1>2
  <2> QED BY <1>1, <1>2, <1>3, <2>1
<1>5. \A k \in 1..(Len(bs) + 1) : k # 1 => k - 1 \in 1..Len(bs) /\ (one \o bs)[k] = bs[k - 1]
  BY <1>1, <1>2, <1>3
<1>6. AddBid(bs, b) \in {bs, one \o bs}
  BY DEF AddBid, one
<1> QED BY <1>1, <1>3, <1>4, <1>5, <1>6 DEF one

\* The store of the bids.
LEMMA ReceiveBidsTypes ==
  ASSUME Types, NEW i, ReceiveBids(i) \/ ReceivePlaced(i), UNCHANGED <<listVars, formVars, liveVars>>
  PROVE  Types'
<1> DEFINE c == calls[i]
<1>1. UNCHANGED <<serviceVars, session, viewer, page, cached>> /\ calls' = RemoveAt(calls, i)
  BY DEF ReceiveBids, ReceivePlaced
<1>2. open' \in BOOLEAN /\ (open' => open)
  BY DEF ReceiveBids, ReceivePlaced, Rerender, Types, BidsType
<1>3. bidList \in Seq(Bid) /\ bidsLoading \in BOOLEAN /\ bidsOf \in AuctionId \union {None}
  BY DEF Types, BidsType
<1>4. CASE ReceiveBids(i)
  <2>1. Answered(i, "bids")
    BY <1>4 DEF ReceiveBids
  <2>2. /\ c.args \in AuctionId \union {None} /\ (~ Failed(c.answer) => c.answer \in Seq(Bid))
        /\ CallsType(RemoveAt(calls, i))
    BY <2>1, AnsweredFacts DEF ArgsOf, DataOf
  <2>3. /\ bidsLoading' = (bidsLoading /\ c.left = "page")
        /\ \/ Failed(c.answer) /\ UNCHANGED <<bidList, bidsOf, missed>>
           \/ /\ ~ Failed(c.answer)
              /\ bidList' = c.answer
              /\ bidsOf' = c.args
              /\ missed' = IF Fetching(c.args, calls') THEN missed ELSE missed \ Ids(c.answer)
    BY <1>4 DEF ReceiveBids
  <2>4. /\ bidList' \in Seq(Bid) /\ bidsLoading' \in BOOLEAN
        /\ bidsOf' \in AuctionId \union {None} /\ missed' \subseteq missed
    BY <1>3, <2>2, <2>3
  <2> QED BY <1>1, <1>2, <2>2, <2>4, ListedTypes
<1>5. CASE ReceivePlaced(i)
  <2>1. Answered(i, "place")
    BY <1>5 DEF ReceivePlaced
  <2>2. (~ Failed(c.answer) => c.answer \in Bid) /\ CallsType(RemoveAt(calls, i))
    BY <2>1, AnsweredFacts DEF DataOf
  <2>3. bidList' = (IF Failed(c.answer) THEN bidList ELSE AddBid(bidList, c.answer))
        /\ UNCHANGED <<bidsLoading, bidsOf, missed>>
    BY <1>5 DEF ReceivePlaced
  <2>4. bidList' \in Seq(Bid)
    BY <1>3, <2>2, <2>3, AddBidType
  <2> QED BY <1>1, <1>2, <1>3, <2>2, <2>3, <2>4, ListedTypes
<1> QED BY <1>4, <1>5

\* The form closes.
LEMMA CloseFormTypes ==
  ASSUME Types, CloseForm
  PROVE  Types'
<1>1. /\ UNCHANGED <<serviceVars, tabVars, bidList, bidsLoading, bidsOf, missed, listVars, formVars, liveVars>>
      /\ open /\ open' = FALSE
  BY DEF CloseForm, CountdownCompletes
<1>2. CallsType(calls) /\ calls' = calls /\ UNCHANGED <<session, viewer, page, cached>>
  BY <1>1, QueueTypes DEF tabVars
<1>3. bidList' \in Seq(Bid) /\ bidsLoading' \in BOOLEAN /\ bidsOf' \in AuctionId \union {None}
  BY <1>1 DEF Types, BidsType
<1> QED BY <1>1, <1>2, <1>3, ListedTypes

\* The user is told, and stays; or the page of an auction is shown.
LEMMA AnswerShown ==
  ASSUME Types, NEW cs, CallsType(cs), UNCHANGED <<serviceVars, session, done>>,
         viewer' \in User \union {None}, connection' \in {"off", "on", "closed"},
         UNCHANGED <<toasts, announced>>,
         \/ Toast(cs)
         \/ \E a \in AuctionId, kept \in SUBSET SomePage : LeaveFor(a, cs, kept)
  PROVE  Types'
<1>1. Moves
  BY MovesNot DEF Types
<1>2. /\ toasts' \subseteq AuctionId \union {None} /\ announced' \subseteq 1..Len(bids)
      /\ \A a \in toasts' \ {None} : rows[a] # None
  BY DEF Types, LiveType
<1>3. CASE Toast(cs)
  <2>1. calls' = cs /\ UNCHANGED <<page, cached, listVars, bidVars, form, typed>>
    BY <1>3 DEF Toast
  <2>2. LiveType' /\ calls' \in Seq(SomeCall)
    BY <1>1, <1>2, <2>1, LiveMoves
  <2>3. TabType'
    BY <2>1, <2>2 DEF Types, TabType
  <2>4. ListType' /\ BidsType' /\ FormsType'
    BY <1>1, <2>1, ListKept, BidsKept, FormsKept DEF listVars, Types, ListType
  <2> QED BY <1>1, <2>2, <2>3, <2>4 DEF Types, Moves
<1>4. ASSUME NEW a \in AuctionId, NEW kept \in SUBSET SomePage, LeaveFor(a, cs, kept)
      PROVE  Types'
  <2>1. VisitDetails(cs, a, kept) /\ UNCHANGED <<listVars, form, typed>>
    BY <1>4 DEF LeaveFor
  <2>2. /\ page' \in SomePage /\ cached' \subseteq SomePage /\ CallsType(calls') /\ BidsType'
        /\ page'.name = "details"
    BY <1>1, <1>4, <2>1, VisitTypes
  <2>3. LiveType' /\ calls' \in Seq(SomeCall)
    BY <1>1, <1>2, <2>2, LiveMoves
  <2>4. TabType'
    BY <2>2, <2>3 DEF Types, TabType
  <2>5. ListType'
    BY <2>1, ListKept DEF listVars, Types, ListType
  <2>6. FormsType'
    BY <2>1, <2>2 DEF Types, FormsType
  <2> QED BY <1>1, <2>2, <2>3, <2>4, <2>5, <2>6 DEF Types, Moves
<1> QED BY <1>3, <1>4

\* An auction was created, or not.
LEMMA ReceiveCreatedTypes ==
  ASSUME Types, NEW i, ReceiveCreated(i), UNCHANGED liveVars
  PROVE  Types'
<1> DEFINE c == calls[i]
<1>1. /\ Answered(i, "create") /\ UNCHANGED <<serviceVars, session, viewer, done>>
      /\ IF Failed(c.answer) THEN Toast(RemoveAt(calls, i))
                             ELSE LeaveFor(c.answer, RemoveAt(calls, i), cached)
  BY DEF ReceiveCreated
<1>2. (~ Failed(c.answer) => c.answer \in AuctionId) /\ CallsType(RemoveAt(calls, i))
  BY <1>1, AnsweredFacts DEF DataOf
<1>3. /\ cached \in SUBSET SomePage /\ viewer' \in User \union {None}
      /\ connection' \in {"off", "on", "closed"} /\ UNCHANGED <<toasts, announced>>
  BY <1>1 DEF Types, TabType, LiveType, liveVars
<1> HIDE DEF c
<1> QED BY <1>1, <1>2, <1>3, AnswerShown

\* An update was done, or not.
LEMMA ReceiveUpdatedTypes ==
  ASSUME Types, NEW i, ReceiveUpdated(i), connection' \in {"off", "on", "closed"},
         UNCHANGED <<toasts, announced>>
  PROVE  Types'
<1> DEFINE c == calls[i]
           rest == RemoveAt(calls, i)
           anew == c.left = "no" /\ c.answer # Rejected
<1>1. /\ Answered(i, "update") /\ UNCHANGED <<serviceVars, session, done>>
      /\ AfterUpdate(c, rest, anew)
      /\ viewer' = IF anew THEN CurrentUser ELSE viewer
  BY DEF ReceiveUpdated
<1>2. CallsType(rest) /\ c.args.auctionId \in AuctionId
  BY <1>1, AnsweredFacts DEF ArgsOf
<1>3. /\ cached \in SUBSET SomePage /\ viewer' \in User \union {None} /\ page \in SomePage
      /\ session \in Session
  BY <1>1, UserTypes DEF Types, TabType
<1>4. Kept(anew) \in SUBSET SomePage
  BY <1>3 DEF Kept
<1>5. \/ LeaveFor(c.args.auctionId, rest, Kept(anew))
      \/ Toast(rest)
      \/ /\ calls' = rest
         /\ page' = UpdatePage(page.auctionId)
         /\ Reset(UpdatePage(page.auctionId).row)
         /\ cached' = Kept(anew)
         /\ UNCHANGED <<listVars, bidVars>>
  BY <1>1, Zenon DEF AfterUpdate
<1> HIDE DEF c, rest, anew
<1>6. CASE LeaveFor(c.args.auctionId, rest, Kept(anew)) \/ Toast(rest)
  BY <1>1, <1>2, <1>3, <1>4, <1>6, AnswerShown
<1>7. CASE /\ calls' = rest
           /\ page' = UpdatePage(page.auctionId)
           /\ Reset(UpdatePage(page.auctionId).row)
           /\ cached' = Kept(anew)
           /\ UNCHANGED <<listVars, bidVars>>
  <2>1. Moves
    BY <1>1, MovesNot DEF Types
  <2>2. page' \in SomePage /\ page'.name = "update"
    BY <1>3, <1>7, PageFacts, RenderedPages DEF Types
  <2>3. page'.row # Error => page'.row \in Row
    BY <2>2, PageFacts
  <2>4. FormsType'
    <3>1. form' = (IF page'.row = Error THEN None ELSE page'.row.item) /\ typed' = {}
      BY <1>7 DEF Reset
    <3>2. (page'.row # Error => page'.row.item \in SomeCar) /\ SomeCar = [Field -> Value]
      BY <2>3 DEF Row, SomeCar
    <3> QED BY <3>1, <3>2 DEF FormsType
  <2>5. UNCHANGED <<open, bidsLoading, bidList, bidsOf, missed, params, list, loading, shown, fresh>>
    BY <1>7 DEF bidVars, listVars
  <2>6. BidsType'
    <3>1. missed \subseteq 1..Len(bids')
      BY <1>1 DEF Types, BidsType, serviceVars
    <3> QED BY <2>2, <2>5, <3>1 DEF Types, BidsType, OnDetails
  <2>7. LiveType' /\ calls' \in Seq(SomeCall)
    <3>1. /\ announced' \subseteq 1..Len(bids)
          /\ toasts' \subseteq AuctionId \union {None} /\ \A a \in toasts' \ {None} : rows[a] # None
      BY DEF Types, LiveType
    <3> QED BY <1>2, <1>7, <2>1, <3>1, LiveMoves
  <2>8. TabType'
    BY <1>1, <1>3, <1>4, <1>7, <2>2, <2>7 DEF Types, TabType
  <2>9. ListType'
    BY <2>5 DEF Types, ListType
  <2> QED BY <2>1, <2>4, <2>6, <2>7, <2>8, <2>9 DEF Types, Moves
<1> QED BY <1>5, <1>6, <1>7

\* An auction was deleted, or not.
LEMMA ReceiveDeletedTypes ==
  ASSUME Types, NEW i, ReceiveDeleted(i), UNCHANGED liveVars
  PROVE  Types'
<1> DEFINE rest == RemoveAt(calls, i)
<1>1. /\ Answered(i, "delete") /\ UNCHANGED <<serviceVars, session, viewer, done>>
      /\ \/ Toast(rest)
         \/ GoHomeAgain(rest) /\ UNCHANGED <<cached, bidVars, form, typed>>
         \/ GoHome(rest, params) /\ UNCHANGED <<cached, bidVars, form, typed>>
  BY Zenon DEF ReceiveDeleted
<1>2. CallsType(rest)
  BY <1>1, AnsweredFacts
<1>3. /\ viewer' \in User \union {None} /\ params \in Params
      /\ connection' \in {"off", "on", "closed"} /\ UNCHANGED <<toasts, announced>>
  BY <1>1 DEF Types, TabType, ListType, LiveType, liveVars
<1> HIDE DEF rest
<1>4. CASE Toast(rest)
  BY <1>1, <1>2, <1>3, <1>4, AnswerShown
<1>5. CASE GoHomeAgain(rest) /\ UNCHANGED <<cached, bidVars, form, typed>>
  <2>1. Moves
    BY <1>1, MovesNot DEF Types
  <2>2. /\ calls' = Detached(rest) /\ shown' = [shown EXCEPT !.by = "nobody"]
        /\ UNCHANGED <<page, params, list, loading, fresh>>
    BY <1>5 DEF GoHomeAgain
  <2>3. LiveType' /\ calls' \in Seq(SomeCall)
    BY <1>2, <2>1, <2>2, CallsTypeKept, LiveKept
  <2>4. TabType' /\ BidsType' /\ FormsType'
    <3>1. UNCHANGED <<viewer, page, cached, bidVars, form, typed>> /\ session' \in Session
      BY <1>1, <1>5, <2>2 DEF Types, TabType
    <3> QED BY <2>1, <2>3, <3>1, TabKept, BidsKept, FormsKept
  <2>5. ListType'
    BY <2>2 DEF Types, ListType
  <2> QED BY <2>1, <2>3, <2>4, <2>5 DEF Types, Moves
<1>6. CASE GoHome(rest, params) /\ UNCHANGED <<cached, bidVars, form, typed>>
  <2>1. UNCHANGED restVars
    BY <1>1, <1>6 DEF restVars, formVars
  <2> QED BY <1>2, <1>3, <1>6, <2>1, GoHomeTypes
<1> QED BY <1>1, <1>4, <1>5, <1>6

\* What the hub changes: toasts, and the calls that are waited for.
LEMMA ToastTypes ==
  ASSUME Types, NEW cs, CallsType(cs), calls' = cs, connection' \in {"off", "on", "closed"},
         UNCHANGED <<serviceVars, session, viewer, page, cached, listVars, bidVars, formVars, announced>>,
         toasts' \subseteq AuctionId \union {None}, \A a \in toasts' \ {None} : rows[a] # None
  PROVE  Types'
<1>1. Moves
  BY MovesNot DEF Types
<1>2. LiveType' /\ calls' \in Seq(SomeCall)
  <2>1. announced' \subseteq 1..Len(bids)
    BY DEF Types, LiveType
  <2> QED BY <1>1, <2>1, LiveMoves
<1>3. TabType' /\ BidsType' /\ FormsType' /\ ListType'
  <2>1. /\ UNCHANGED <<viewer, page, cached, bidVars, form, typed, params, list, loading, shown>>
        /\ session' \in Session /\ fresh' \in BOOLEAN
    BY DEF formVars, listVars, Types, TabType, ListType
  <2> QED BY <1>1, <1>2, <2>1, TabKept, BidsKept, FormsKept, ListKept
<1> QED BY <1>1, <1>2, <1>3 DEF Types, Moves

\* The auction that has finished was read, or not.
LEMMA ReceiveDetailsTypes ==
  ASSUME Types, NEW i, ReceiveDetails(i)
  PROVE  Types'
<1> DEFINE c == calls[i]
<1>1. /\ Answered(i, "details") /\ calls' = RemoveAt(calls, i)
      /\ UNCHANGED <<serviceVars, session, viewer, page, cached, listVars, bidVars, formVars,
                     connection, announced>>
      /\ toasts' \in {toasts, toasts \union {None}, toasts \union {c.args}}
  BY DEF ReceiveDetails
<1>2. /\ i \in 1..Len(calls) /\ c.kind = "details" /\ c.args \in AuctionId
      /\ CallsType(RemoveAt(calls, i))
  BY <1>1, AnsweredFacts DEF ArgsOf
<1>3. rows[c.args] # None /\ toasts \subseteq AuctionId \union {None}
      /\ (\A a \in toasts \ {None} : rows[a] # None) /\ connection \in {"off", "on", "closed"}
  BY <1>2 DEF Types, LiveType
<1> HIDE DEF c
<1>4. toasts' \subseteq AuctionId \union {None} /\ \A a \in toasts' \ {None} : rows[a] # None
  BY <1>1, <1>2, <1>3
<1> QED BY <1>1, <1>2, <1>3, <1>4, ToastTypes

\* An answer leaves every variable its type.
LEMMA ReceiveTypes ==
  ASSUME Types, Receive
  PROVE  Types'
<1>1. PICK i \in DOMAIN calls :
        \/ ReceiveSearch(i) /\ UNCHANGED <<bidVars, formVars, liveVars>>
        \/ ReceiveBids(i) /\ UNCHANGED <<listVars, formVars, liveVars>>
        \/ ReceivePlaced(i) /\ UNCHANGED <<listVars, formVars, liveVars>>
        \/ (ReceiveCreated(i) \/ ReceiveDeleted(i)) /\ UNCHANGED liveVars
        \/ /\ ReceiveUpdated(i)
           /\ connection' = IF viewer' # viewer THEN "closed" ELSE connection
           /\ UNCHANGED <<toasts, announced>>
        \/ ReceiveDetails(i)
  BY DEF Receive
<1>2. connection \in {"off", "on", "closed"}
  BY DEF Types, LiveType
<1>3. CASE ReceiveSearch(i) /\ UNCHANGED <<bidVars, formVars, liveVars>>
  BY <1>3, ReceiveSearchTypes
<1>4. CASE (ReceiveBids(i) \/ ReceivePlaced(i)) /\ UNCHANGED <<listVars, formVars, liveVars>>
  BY <1>4, ReceiveBidsTypes
<1>5. CASE (ReceiveCreated(i) \/ ReceiveDeleted(i)) /\ UNCHANGED liveVars
  BY <1>5, ReceiveCreatedTypes, ReceiveDeletedTypes
<1>6. CASE /\ ReceiveUpdated(i)
           /\ connection' = IF viewer' # viewer THEN "closed" ELSE connection
           /\ UNCHANGED <<toasts, announced>>
  <2>1. connection' \in {"off", "on", "closed"}
    BY <1>2, <1>6
  <2> QED BY <1>6, <2>1, ReceiveUpdatedTypes
<1>7. CASE ReceiveDetails(i)
  BY <1>7, ReceiveDetailsTypes
<1> QED BY <1>1, <1>3, <1>4, <1>5, <1>6, <1>7

\* The price of a notified bid.
LEMMA SetPriceType ==
  ASSUME NEW l \in SomeList, NEW b \in Bid
  PROVE  /\ [l EXCEPT !.results = SetCurrentPrice(@, b)] \in SomeList
         /\ \A x \in Range([l EXCEPT !.results = SetCurrentPrice(@, b)].results) :
              x \in Range(l.results) \/ (x.id = b.auctionId /\ x.currentHighBid = b.amount)
<1> DEFINE Card == [id : AuctionId, currentHighBid : Nat]
           s == l.results
           t == [i \in DOMAIN s |-> IF s[i].id = b.auctionId THEN [s[i] EXCEPT !.currentHighBid = b.amount]
                                    ELSE s[i]]
<1>1. s \in Seq(Card) /\ b.auctionId \in AuctionId /\ b.amount \in Nat
  BY DEF SomeList, Bid
<1>2. DOMAIN s = 1..Len(s) /\ Len(s) \in Nat /\ (\A i \in 1..Len(s) : s[i] \in Card)
      /\ \A x : x \in Range(s) <=> \E i \in 1..Len(s) : s[i] = x
  BY <1>1, SeqRange
<1> HIDE DEF s
<1>3. ASSUME NEW i \in 1..Len(s)
      PROVE  t[i] \in Card /\ (t[i] = s[i] \/ (t[i].id = b.auctionId /\ t[i].currentHighBid = b.amount))
  <2>1. s[i] \in Card /\ t[i] = IF s[i].id = b.auctionId THEN [s[i] EXCEPT !.currentHighBid = b.amount]
                                ELSE s[i]
    BY <1>2
  <2> QED BY <1>1, <2>1
<1>4. t \in [1..Len(s) -> Card]
  BY <1>2, <1>3
<1>5. t \in Seq(Card) /\ Len(t) = Len(s)
  BY <1>2, <1>4, FunctionIsSeq
<1>6. [l EXCEPT !.results = SetCurrentPrice(@, b)] = [l EXCEPT !.results = t]
  BY DEF SetCurrentPrice, s
<1> HIDE DEF t
<1>7. [l EXCEPT !.results = t] \in SomeList /\ [l EXCEPT !.results = t].results = t
  BY <1>5 DEF SomeList
<1>8. \A x \in Range(t) : x \in Range(s) \/ (x.id = b.auctionId /\ x.currentHighBid = b.amount)
  <2> SUFFICES ASSUME NEW x \in Range(t)
               PROVE  x \in Range(s) \/ (x.id = b.auctionId /\ x.currentHighBid = b.amount)
    OBVIOUS
  <2>1. PICK i \in 1..Len(s) : t[i] = x
    BY <1>5, SeqRange
  <2> QED BY <1>2, <1>3, <2>1
<1> QED BY <1>6, <1>7, <1>8 DEF s

\* What a notification does.
LEMMA PlacedFacts ==
  ASSUME Types, NEW b \in Stored, BidPlaced(b)
  PROVE  /\ b \in Bid /\ b.id \in 1..Len(bids)
         /\ UNCHANGED <<serviceVars, tabVars, params, loading, shown, fresh, bidsLoading, bidsOf,
                        formVars, connection, toasts>>
         /\ announced' = announced \union {b.id}
         /\ \/ missed' = missed \union {b.id}
            \/ missed' = missed /\ bidList' = AddBid(bidList, b) /\ ~ Fetching(b.auctionId, calls)
         /\ bidList' \in {bidList, AddBid(bidList, b)}
         /\ \/ list' = list
            \/ /\ IsAccepted(b) /\ list # NoList
               /\ list' = [list EXCEPT !.results = SetCurrentPrice(@, b)]
         /\ open' = open \/ open' = (open /\ (OnDetails => Live(page.auctionId)))
<1> DEFINE throws == IsAccepted(b) /\ list = NoList
           inVain == ~ Listening \/ throws \/ Fetching(b.auctionId, calls)
<1>1. b \in Bid /\ b.id \in 1..Len(bids)
  BY StoredFacts DEF Types
<1>2. /\ announced' = announced \union {b.id}
      /\ missed' = IF inVain THEN missed \union {b.id} ELSE missed
      /\ IF Listening /\ ~ throws
         THEN NoteBid(b) /\ Rerender
         ELSE UNCHANGED <<list, bidList, open>>
      /\ UNCHANGED <<serviceVars, tabVars, params, loading, shown, fresh, bidsLoading, bidsOf,
                     formVars, connection, toasts>>
  BY Zenon DEF BidPlaced
<1>3. CASE Listening /\ ~ throws
  <2>1. NoteBid(b) /\ Rerender
    BY <1>2, <1>3
  <2>2. /\ list' = IF IsAccepted(b) THEN [list EXCEPT !.results = SetCurrentPrice(@, b)] ELSE list
        /\ bidList' = AddBid(bidList, b)
        /\ open' = (open /\ (OnDetails => Live(page.auctionId)))
    BY <2>1, Zenon DEF NoteBid, Rerender
  <2>3. \/ missed' = missed \union {b.id}
        \/ missed' = missed /\ ~ Fetching(b.auctionId, calls)
    BY <1>2, Zenon
  <2>4. list' = list \/ (IsAccepted(b) /\ list # NoList /\
                         list' = [list EXCEPT !.results = SetCurrentPrice(@, b)])
    BY <1>3, <2>2
  <2> HIDE DEF throws, inVain
  <2> QED BY <1>1, <1>2, <2>2, <2>3, <2>4
<1>4. CASE ~ (Listening /\ ~ throws)
  <2>1. missed' = missed \union {b.id} /\ UNCHANGED <<list, bidList, open>>
    BY <1>2, <1>4, Zenon
  <2> HIDE DEF throws, inVain
  <2> QED BY <1>1, <1>2, <2>1
<1> QED BY <1>3, <1>4

\* A notified bid leaves every variable its type.
LEMMA BidPlacedTypes ==
  ASSUME Types, NEW b \in Stored, BidPlaced(b)
  PROVE  Types'
<1>1. /\ b \in Bid /\ b.id \in 1..Len(bids)
      /\ UNCHANGED <<serviceVars, tabVars, params, loading, shown, fresh, bidsLoading, bidsOf,
                     formVars, connection, toasts>>
      /\ announced' = announced \union {b.id}
      /\ missed' \subseteq missed \union {b.id}
      /\ bidList' \in {bidList, AddBid(bidList, b)}
      /\ \/ list' = list
         \/ list # NoList /\ list' = [list EXCEPT !.results = SetCurrentPrice(@, b)]
      /\ open' = open \/ open' = (open /\ (OnDetails => Live(page.auctionId)))
  BY PlacedFacts
<1>2. Moves
  BY <1>1, MovesNot DEF Types
<1>3. ListType'
  <2>1. list' \in SomeList \union {NoList}
    <3>1. list \in SomeList \union {NoList}
      BY DEF Types, ListType
    <3>2. CASE list' = list
      BY <3>1, <3>2
    <3>3. CASE list # NoList /\ list' = [list EXCEPT !.results = SetCurrentPrice(@, b)]
      BY <1>1, <3>1, <3>3, SetPriceType
    <3> QED BY <1>1, <3>2, <3>3
  <2>2. UNCHANGED <<params, loading, shown, fresh>> /\ ListType
    BY <1>1 DEF Types
  <2> QED BY <2>1, <2>2 DEF ListType
<1>4. BidsType'
  <2>1. bidList' \in Seq(Bid)
    <3>1. bidList \in Seq(Bid)
      BY DEF Types, BidsType
    <3>2. AddBid(bidList, b) \in Seq(Bid)
      BY <1>1, <3>1, AddBidType
    <3> QED BY <1>1, <3>1, <3>2
  <2>2. open' \in BOOLEAN /\ (open' => open)
    <3>1. open \in BOOLEAN
      BY DEF Types, BidsType
    <3>2. CASE open' = open
      BY <3>1, <3>2
    <3>3. CASE open' = (open /\ (OnDetails => Live(page.auctionId)))
      BY <3>3, Zenon
    <3> QED BY <1>1, <3>2, <3>3
  <2>3. missed' \subseteq 1..Len(bids') /\ UNCHANGED <<page, bidsLoading, bidsOf>>
    BY <1>1 DEF Types, BidsType, serviceVars, tabVars
  <2> QED BY <2>1, <2>2, <2>3 DEF Types, BidsType, OnDetails
<1>5. LiveType' /\ calls' \in Seq(SomeCall)
  <2>1. /\ announced' \subseteq 1..Len(bids) /\ connection' \in {"off", "on", "closed"}
        /\ toasts' \subseteq AuctionId \union {None} /\ \A a \in toasts' \ {None} : rows[a] # None
        /\ calls' = calls
    BY <1>1 DEF Types, LiveType, tabVars
  <2> QED BY <1>2, <2>1, QueueTypes, LiveMoves
<1>6. TabType' /\ FormsType'
  <2>1. UNCHANGED <<viewer, page, cached, form, typed>> /\ session' \in Session
    BY <1>1 DEF tabVars, formVars, Types, TabType
  <2> QED BY <1>2, <1>5, <2>1, TabKept, FormsKept
<1> QED BY <1>2, <1>3, <1>4, <1>5, <1>6 DEF Types, Moves

\* The hub leaves every variable its type.
LEMMA NotifyTypes ==
  ASSUME Types, Notify
  PROVE  Types'
<1>1. CASE Connect \/ Disconnect
  <2>1. /\ UNCHANGED <<serviceVars, tabVars, listVars, bidVars, formVars, toasts, announced>>
        /\ connection' \in {"off", "on", "closed"}
    BY <1>1 DEF Connect, Disconnect
  <2>2. CallsType(calls) /\ calls' = calls /\ UNCHANGED <<session, viewer, page, cached>>
    BY <2>1, QueueTypes DEF tabVars
  <2>3. toasts' \subseteq AuctionId \union {None} /\ \A a \in toasts' \ {None} : rows[a] # None
    BY <2>1 DEF Types, LiveType
  <2> QED BY <2>1, <2>2, <2>3, ToastTypes
<1>2. ASSUME NEW b \in Stored, BidPlaced(b) PROVE Types'
  BY <1>2, BidPlacedTypes
<1>3. ASSUME NEW a \in AuctionId, AuctionCreated(a) PROVE Types'
  <2>1. /\ UNCHANGED <<serviceVars, session, viewer, page, cached, listVars, bidVars, formVars,
                       connection, announced>>
        /\ rows[a] # None /\ toasts' \in {toasts, toasts \union {a}} /\ calls' = calls
    BY <1>3 DEF AuctionCreated, Announce
  <2>2. /\ toasts' \subseteq AuctionId \union {None} /\ (\A x \in toasts' \ {None} : rows[x] # None)
        /\ connection' \in {"off", "on", "closed"}
    BY <2>1 DEF Types, LiveType
  <2> QED BY <2>1, <2>2, QueueTypes, ToastTypes
<1>4. ASSUME NEW a \in AuctionId, AuctionFinished(a) PROVE Types'
  <2>1. /\ UNCHANGED <<serviceVars, session, viewer, page, cached, listVars, bidVars, formVars,
                       connection, announced, toasts>>
        /\ rows[a] # None /\ Send(Call("details", a))
    BY <1>4 DEF AuctionFinished, Announce
  <2>2. Call("details", a) \in SomeCall /\ Call("details", a).args = a
    BY NewCall DEF Kinds, ArgsOf
  <2>3. UNCHANGED liveVars
    BY <2>1 DEF liveVars
  <2> HIDE DEF Call
  <2> QED BY <2>1, <2>2, <2>3, SendTypes
<1> QED BY <1>1, <1>2, <1>3, <1>4 DEF Notify

\* Every step leaves every variable its type.
LEMMA TypesStep ==
  ASSUME Types, [Next]_vars
  PROVE  Types'
<1>1. CASE UNCHANGED vars
  <2>1. UNCHANGED <<serviceVars, session, viewer, page, cached, listVars, bidVars, formVars,
                    connection, announced, toasts>> /\ calls' = calls
    BY <1>1 DEF vars, clientVars, tabVars, liveVars
  <2>2. /\ connection' \in {"off", "on", "closed"} /\ toasts' \subseteq AuctionId \union {None}
        /\ \A a \in toasts' \ {None} : rows[a] # None
    BY <2>1 DEF Types, LiveType
  <2> QED BY <2>1, <2>2, QueueTypes, ToastTypes
<1>2. CASE Next
  BY <1>2, WorldTypes, RespondTypes, OnListTypes, OnFormsTypes, ReceiveTypes, CloseFormTypes,
     NavigateTypes, NotifyTypes DEF Next
<1> QED BY <1>1, <1>2

\* The start.
LEMMA TypesInit ==
  ASSUME Init
  PROVE  Types /\ calls = <<SearchCall(InitialParams)>>
<1>1. /\ clock = 0 /\ rows = Listing /\ bids = <<>>
      /\ prices = [a \in AuctionId |-> 0] /\ synced = {}
      /\ params = InitialParams /\ list = EmptyList /\ loading = TRUE /\ fresh = TRUE
      /\ shown = [query |-> Query(InitialParams), by |-> "nobody"]
      /\ bidList = <<>> /\ open = TRUE /\ bidsLoading = TRUE /\ bidsOf = None /\ missed = {}
      /\ form = None /\ typed = {}
      /\ session \in Sessions /\ viewer = CurrentUser /\ page = HomePage /\ cached = {}
      /\ calls = MountCalls(HomePage)
      /\ connection = "off" /\ toasts = {} /\ announced = {}
  BY DEF Init, ServicesInit, ListInit, BidsInit, FormsInit
<1>2. ServicesType
  <2>1. bids \in Seq(Bid) /\ Len(bids) = 0
    BY <1>1, EmptySeq
  <2> QED BY <1>1, <2>1, ListingAssumption DEF ServicesType
<1>3. HomePage.name = "home" /\ HomePage \in SomePage
  BY DEF HomePage, Page, SomePage
<1>4. InitialParams \in Params /\ Query(InitialParams) \in Params
  <2>1. InitialParams \in Params
    <3>1. "" \in SearchText /\ "make" \in DOMAIN Order
      BY Zenon, ParamsAssumption
    <3>2. 1 \in Nat /\ 1 # 0
      OBVIOUS
    <3> QED BY <3>1, <3>2, ParamsRecord DEF InitialParams
  <2> QED BY <2>1, ParamsTypes
<1>5. calls = <<SearchCall(InitialParams)>>
  BY <1>1, <1>3 DEF MountCalls
<1>6. calls \in Seq(SomeCall) /\ \A i \in 1..Len(calls) : calls[i].kind = "details" => rows[calls[i].args] # None
  <2>1. SearchCall(InitialParams) \in SomeCall /\ SearchCall(InitialParams).kind # "details"
    BY <1>4, SearchCallType
  <2> QED BY <1>5, <2>1, ShortCalls DEF CallsType
<1>7. session \in Session /\ viewer \in User \union {None}
  BY <1>1, ScenarioAssumption, UserTypes
<1>8. TabType
  BY <1>1, <1>3, <1>6, <1>7 DEF TabType
<1>9. ListType
  <2>1. shown \in [query : Params, by : {"page", "left", "nobody"}]
    BY <1>1, <1>4
  <2> QED BY <1>1, <1>4, <2>1, EmptyListType DEF ListType
<1>10. BidsType
  BY <1>1, <1>3, EmptySeq DEF BidsType, OnDetails
<1>11. FormsType /\ LiveType
  BY <1>1, <1>6 DEF FormsType, LiveType
<1> QED BY <1>2, <1>5, <1>8, <1>9, <1>10, <1>11 DEF Types

\* Every variable has its type, always.
THEOREM TypesAlways == Spec => []Types
<1>1. Init => Types
  BY TypesInit
<1>2. Types /\ [Next]_vars => Types'
  BY TypesStep
<1> QED BY <1>1, <1>2, PTL DEF Spec
=============================================================================
