--------------------------- MODULE RetrievalProofs ---------------------------
(***************************************************************************)
(* What search() and retrieve() return, for any number of tasks, any       *)
(* providers, queries, responses and failures: hits merged by the priority *)
(* of their providers, found under the controls of their query, and a      *)
(* record for each of them.                                                *)
(***************************************************************************)
EXTENDS Retrieval, SequenceTheorems, NaturalsInduction, WellFoundedInduction, TLAPS

(* Induction: a set that has 0 and is closed under successor has every number. *)

Below == OpToRel(<, Nat)
LEMMA BelowWellFounded == IsWellFoundedOn(Below, Nat)
BY NatLessThanWellFounded DEF Below

LEMMA Induction ==
  ASSUME NEW T, 0 \in T, \A n \in Nat : n \in T => n + 1 \in T
  PROVE  Nat \subseteq T
<1> DEFINE M == Nat \ T
<1>1. SUFFICES ASSUME M # {} PROVE FALSE
  OBVIOUS
<1>2. PICK x \in M : \A y \in M : ~(<<y, x>> \in Below)
  <2> HIDE DEF M
  <2>1. M \subseteq Nat
    BY DEF M
  <2>2. QED BY <1>1, <2>1, BelowWellFounded, WFMin
<1>3. x \in Nat /\ x # 0 /\ x - 1 \in Nat
  OBVIOUS
<1>4. <<x - 1, x>> \in Below
  BY <1>3 DEF Below, OpToRel
<1>5. x - 1 \in T
  BY <1>2, <1>3, <1>4
<1>6. QED BY <1>3, <1>5

LEMMA Least ==
  ASSUME NEW M, M \subseteq Nat, M # {}
  PROVE  \E x \in M : \A y \in M : x <= y
<1>1. PICK x \in M : \A y \in M : ~(<<y, x>> \in Below)
  BY BelowWellFounded, WFMin
<1>2. \A y \in M : ~(y < x)
  BY <1>1 DEF Below, OpToRel
<1>3. QED BY <1>2

-----------------------------------------------------------------------------
(* Pick(s, K) has the elements of s at the positions in K, in their order. *)

\* What the recursive function of Pick is to be.
Recursion(s, K, f) ==
  [n \in 0..Len(s) |-> IF n = 0 THEN <<>> ELSE IF n \in K THEN Append(f[n - 1], s[n]) ELSE f[n - 1]]

\* g says where the elements of r, picked from the first n of s, come from.
Places(g, r, s, K, n) ==
  /\ g \in [DOMAIN r -> (1..n) \cap K]
  /\ \A i \in DOMAIN r : r[i] = s[g[i]]
  /\ \A i, j \in DOMAIN r : i < j => g[i] < g[j]
  /\ \A m \in (1..n) \cap K : \E i \in DOMAIN r : g[i] = m

LEMMA PickExists ==
  ASSUME NEW S, NEW s \in Seq(S), NEW K
  PROVE  \E f \in [0..Len(s) -> Seq(S)] : f = Recursion(s, K, f)
<1> DEFINE Upto(n) == \E g \in [0..n -> Seq(S)] : \A k \in 0..n :
                        g[k] = IF k = 0 THEN <<>>
                               ELSE IF k \in K THEN Append(g[k - 1], s[k]) ELSE g[k - 1]
           T == {n \in Nat : n <= Len(s) => Upto(n)}
<1>0. Len(s) \in Nat
  OBVIOUS
<1>1. Upto(0)
  <2> DEFINE g == [k \in 0..0 |-> <<>>]
  <2>1. g \in [0..0 -> Seq(S)]
    OBVIOUS
  <2>2. \A k \in 0..0 : k = 0 /\ g[k] = <<>>
    OBVIOUS
  <2> HIDE DEF g
  <2>3. QED BY <2>1, <2>2
<1>2. ASSUME NEW n \in Nat, n + 1 <= Len(s), Upto(n) PROVE Upto(n + 1)
  <2>1. PICK g \in [0..n -> Seq(S)] : \A k \in 0..n :
          g[k] = IF k = 0 THEN <<>>
                 ELSE IF k \in K THEN Append(g[k - 1], s[k]) ELSE g[k - 1]
    BY <1>2
  <2> DEFINE e == IF n + 1 \in K THEN Append(g[n], s[n + 1]) ELSE g[n]
             h == [k \in 0..(n + 1) |-> IF k = n + 1 THEN e ELSE g[k]]
  <2>2. e \in Seq(S)
    <3>1. s[n + 1] \in S /\ g[n] \in Seq(S)
      BY <1>0, <1>2, ElementOfSeq
    <3>2. QED BY <3>1
  <2> HIDE DEF e
  <2>3. h \in [0..(n + 1) -> Seq(S)]
    BY <2>2
  <2>4. ASSUME NEW k \in 0..(n + 1)
        PROVE  h[k] = IF k = 0 THEN <<>>
                      ELSE IF k \in K THEN Append(h[k - 1], s[k]) ELSE h[k - 1]
    <3>1. CASE k = n + 1
      <4>1. h[k] = e /\ h[k - 1] = g[n] /\ k # 0
        BY <3>1
      <4>2. QED BY <3>1, <4>1 DEF e
    <3>2. CASE k \in 0..n
      <4>1. h[k] = g[k] /\ (k # 0 => h[k - 1] = g[k - 1])
        BY <3>2
      <4>2. QED BY <2>1, <3>2, <4>1
    <3>3. QED BY <3>1, <3>2
  <2> HIDE DEF h
  <2>5. QED BY <2>3, <2>4
<1> HIDE DEF Upto
<1>3. Nat \subseteq T
  <2>1. 0 \in T
    BY <1>1
  <2>2. ASSUME NEW n \in Nat, n \in T PROVE n + 1 \in T
    BY <1>0, <1>2, <2>2
  <2> HIDE DEF T
  <2>3. QED BY <2>1, <2>2, Induction
<1>4. Upto(Len(s))
  BY <1>0, <1>3
<1>5. PICK g \in [0..Len(s) -> Seq(S)] : \A k \in 0..Len(s) :
        g[k] = IF k = 0 THEN <<>>
               ELSE IF k \in K THEN Append(g[k - 1], s[k]) ELSE g[k - 1]
  BY <1>4 DEF Upto
<1>6. g = Recursion(s, K, g)
  BY <1>5 DEF Recursion
<1>7. QED BY <1>6

LEMMA Picked ==
  ASSUME NEW S, NEW s \in Seq(S), NEW K
  PROVE  /\ Pick(s, K) \in Seq(S)
         /\ \E g : Places(g, Pick(s, K), s, K, Len(s))
<1>0. Len(s) \in Nat
  OBVIOUS
<1>1. PICK f : f = Recursion(s, K, f) /\ Pick(s, K) = f[Len(s)]
  <2>1. \E f : f = Recursion(s, K, f)
    BY PickExists
  <2>2. QED BY <2>1 DEF Pick, Recursion
<1>2. f[0] = <<>> /\ \A n \in Nat : n + 1 <= Len(s) =>
        f[n + 1] = IF n + 1 \in K THEN Append(f[n], s[n + 1]) ELSE f[n]
  <2>1. \A k \in 0..Len(s) : f[k] = IF k = 0 THEN <<>>
          ELSE IF k \in K THEN Append(f[k - 1], s[k]) ELSE f[k - 1]
    BY <1>1 DEF Recursion
  <2>2. 0 \in 0..Len(s)
    BY <1>0
  <2>3. \A n \in Nat : n + 1 <= Len(s) => n + 1 \in 0..Len(s) /\ n + 1 # 0 /\ (n + 1) - 1 = n
    BY <1>0
  <2>4. QED BY <2>1, <2>2, <2>3
<1> DEFINE Good(n) == f[n] \in Seq(S) /\ \E g : Places(g, f[n], s, K, n)
           T == {n \in Nat : n <= Len(s) => Good(n)}
<1>3. Good(0)
  <2>1. Places(<<>>, <<>>, s, K, 0)
    BY DEF Places
  <2>2. QED BY <1>2, <2>1
<1>4. ASSUME NEW n \in Nat, n + 1 <= Len(s), Good(n) PROVE Good(n + 1)
  <2>1. PICK g : Places(g, f[n], s, K, n)
    BY <1>4
  <2>2. CASE n + 1 \in K
    <3> DEFINE r == f[n]
               q == Append(r, s[n + 1])
               h == [i \in DOMAIN q |-> IF i = Len(r) + 1 THEN n + 1 ELSE g[i]]
    <3>1. f[n + 1] = q
      BY <1>2, <1>4, <2>2
    <3>2. s[n + 1] \in S /\ r \in Seq(S)
      BY <1>0, <1>4, ElementOfSeq
    <3>3. /\ q \in Seq(S) /\ DOMAIN q = 1..(Len(r) + 1) /\ DOMAIN r = 1..Len(r) /\ Len(r) \in Nat
          /\ \A i \in 1..Len(r) : q[i] = r[i]
          /\ q[Len(r) + 1] = s[n + 1]
      BY <3>2
    <3> HIDE DEF r, q
    <3>4. /\ \A i \in 1..Len(r) : g[i] \in (1..n) \cap K /\ r[i] = s[g[i]]
          /\ \A i, j \in 1..Len(r) : i < j => g[i] < g[j]
          /\ \A m \in (1..n) \cap K : \E i \in 1..Len(r) : g[i] = m
      BY <2>1, <3>3 DEF Places, r
    <3>5. h[Len(r) + 1] = n + 1 /\ \A i \in 1..Len(r) : h[i] = g[i]
      BY <3>3
    <3>6. h \in [DOMAIN q -> (1..(n + 1)) \cap K]
      BY <2>2, <3>3, <3>4
    <3>7. \A i \in DOMAIN q : q[i] = s[h[i]]
      BY <3>3, <3>4, <3>5
    <3>8. \A i, j \in DOMAIN q : i < j => h[i] < h[j]
      <4> SUFFICES ASSUME NEW i \in DOMAIN q, NEW j \in DOMAIN q, i < j PROVE h[i] < h[j]
        OBVIOUS
      <4>1. i \in 1..Len(r)
        BY <3>3
      <4>2. CASE j = Len(r) + 1
        BY <3>4, <3>5, <4>1, <4>2
      <4>3. CASE j \in 1..Len(r)
        BY <3>4, <3>5, <4>1, <4>3
      <4>4. QED BY <3>3, <4>2, <4>3
    <3>9. \A m \in (1..(n + 1)) \cap K : \E i \in DOMAIN q : h[i] = m
      <4> SUFFICES ASSUME NEW m \in (1..(n + 1)) \cap K PROVE \E i \in DOMAIN q : h[i] = m
        OBVIOUS
      <4>1. CASE m = n + 1
        BY <3>3, <3>5, <4>1
      <4>2. CASE m \in 1..n
        <5>1. PICK i \in 1..Len(r) : g[i] = m
          BY <3>4, <4>2
        <5>2. i \in DOMAIN q
          BY <3>3
        <5>3. QED BY <3>5, <5>1, <5>2
      <4>3. QED BY <4>1, <4>2
    <3> HIDE DEF h
    <3>10. Places(h, q, s, K, n + 1)
      BY <3>6, <3>7, <3>8, <3>9 DEF Places
    <3>11. QED BY <3>1, <3>3, <3>10
  <2>3. CASE n + 1 \notin K
    <3>1. f[n + 1] = f[n] /\ (1..(n + 1)) \cap K = (1..n) \cap K
      BY <1>2, <1>4, <2>3
    <3>2. Places(g, f[n + 1], s, K, n + 1)
      BY <2>1, <3>1 DEF Places
    <3>3. QED BY <1>4, <3>1, <3>2
  <2>4. QED BY <2>2, <2>3
<1> HIDE DEF Good
<1>5. Nat \subseteq T
  <2>1. 0 \in T
    BY <1>3
  <2>2. ASSUME NEW n \in Nat, n \in T PROVE n + 1 \in T
    BY <1>0, <1>4, <2>2
  <2> HIDE DEF T
  <2>3. QED BY <2>1, <2>2, Induction
<1>6. Good(Len(s))
  BY <1>0, <1>5
<1>7. QED BY <1>1, <1>6 DEF Good

\* An element picked comes from a place of its own, later for a later one; and
\* nothing is left out.
LEMMA PickPlaces ==
  ASSUME NEW S, NEW s \in Seq(S), NEW K
  PROVE  /\ Pick(s, K) \in Seq(S)
         /\ \E g \in [DOMAIN Pick(s, K) -> (DOMAIN s) \cap K] :
              /\ \A i \in DOMAIN Pick(s, K) : Pick(s, K)[i] = s[g[i]]
              /\ \A i, j \in DOMAIN Pick(s, K) : i < j => g[i] < g[j]
              /\ \A m \in (DOMAIN s) \cap K : \E i \in DOMAIN Pick(s, K) : g[i] = m
<1>1. DOMAIN s = 1..Len(s)
  OBVIOUS
<1>2. Pick(s, K) \in Seq(S) /\ \E g : Places(g, Pick(s, K), s, K, Len(s))
  BY Picked
<1>3. PICK g : Places(g, Pick(s, K), s, K, Len(s))
  BY <1>2
<1>4. /\ g \in [DOMAIN Pick(s, K) -> (DOMAIN s) \cap K]
      /\ \A i \in DOMAIN Pick(s, K) : Pick(s, K)[i] = s[g[i]]
      /\ \A i, j \in DOMAIN Pick(s, K) : i < j => g[i] < g[j]
      /\ \A m \in (DOMAIN s) \cap K : \E i \in DOMAIN Pick(s, K) : g[i] = m
  BY <1>1, <1>3 DEF Places
<1>5. QED BY <1>2, <1>4

-----------------------------------------------------------------------------
(* What an adapter makes of a response. *)

LEMMA FirstKPrefix ==
  ASSUME NEW S, NEW s \in Seq(S)
  PROVE  /\ FirstK(s) \in Seq(S)
         /\ Len(FirstK(s)) = IF Len(s) < TopK THEN Len(s) ELSE TopK
         /\ DOMAIN FirstK(s) \subseteq DOMAIN s
         /\ \A i \in DOMAIN FirstK(s) : FirstK(s)[i] = s[i]
<1> DEFINE n == IF Len(s) < TopK THEN Len(s) ELSE TopK
<1>1. n \in Nat /\ n <= Len(s) /\ Len(s) \in Nat
  BY AdaptersAssumption
<1>2. \A i \in 1..n : s[i] \in S
  BY <1>1, ElementOfSeq
<1> HIDE DEF n
<1>3. /\ SubSeq(s, 1, n) \in Seq(S) /\ Len(SubSeq(s, 1, n)) = n
      /\ \A i \in 1..n : SubSeq(s, 1, n)[i] = s[i]
  BY <1>1, <1>2, SubSeqProperties
<1>4. FirstK(s) = SubSeq(s, 1, n)
  BY DEF FirstK, n
<1>5. DOMAIN FirstK(s) = 1..n /\ DOMAIN s = 1..Len(s)
  BY <1>3, <1>4
<1>6. QED BY <1>1, <1>3, <1>4, <1>5 DEF n

Choice == [item : Item, rank : 1..TopK]

LEMMA RankedItems ==
  ASSUME NEW s \in Seq(Item), Len(s) <= TopK
  PROVE  /\ Ranked(s) \in Seq(Choice) /\ DOMAIN Ranked(s) = DOMAIN s
         /\ \A n \in DOMAIN s : Ranked(s)[n].rank = n
<1>1. Len(s) \in Nat /\ DOMAIN s = 1..Len(s) /\ \A n \in 1..Len(s) : s[n] \in Item
  BY ElementOfSeq
<1>2. \A n \in 1..Len(s) : [item |-> s[n], rank |-> n] \in Choice
  BY <1>1, AdaptersAssumption DEF Choice
<1>3. Ranked(s) \in [1..Len(s) -> Choice]
  BY <1>1, <1>2 DEF Ranked
<1>4. QED BY <1>1, <1>3 DEF Ranked

\* The ranks of what is chosen increase, and stay within top_k.
LEMMA ChosenRanked ==
  ASSUME NEW p, NEW q, NEW items \in Seq(Item)
  PROVE  /\ Chosen(p, q, items) \in Seq(Choice)
         /\ \A i, j \in DOMAIN Chosen(p, q, items) :
              i < j => Chosen(p, q, items)[i].rank < Chosen(p, q, items)[j].rank
<1>1. CASE Adapter[p].slices
  <2> DEFINE s == FirstK(items)
             r == Ranked(s)
             K == {n \in DOMAIN s : ~Skipped(p, q, s[n])}
             c == Pick(r, K)
  <2>1. s \in Seq(Item) /\ Len(s) <= TopK
    BY AdaptersAssumption, FirstKPrefix
  <2> HIDE DEF s
  <2>2. r \in Seq(Choice) /\ \A n \in DOMAIN r : r[n].rank = n
    BY <2>1, RankedItems
  <2> HIDE DEF r, K
  <2>3. c \in Seq(Choice)
    BY <2>2, PickPlaces
  <2>4. PICK g \in [DOMAIN c -> (DOMAIN r) \cap K] :
          /\ \A i \in DOMAIN c : c[i] = r[g[i]]
          /\ \A i, j \in DOMAIN c : i < j => g[i] < g[j]
    BY <2>2, PickPlaces
  <2> HIDE DEF c
  <2>5. \A i \in DOMAIN c : c[i].rank = g[i]
    BY <2>2, <2>4
  <2>6. \A i, j \in DOMAIN c : i < j => c[i].rank < c[j].rank
    BY <2>4, <2>5
  <2>7. Chosen(p, q, items) = c
    BY <1>1 DEF Chosen, c, r, s, K
  <2>8. QED BY <2>3, <2>6, <2>7
<1>2. CASE ~Adapter[p].slices
  <2> DEFINE s == FirstK(Kept(p, q, items))
  <2>1. Kept(p, q, items) \in Seq(Item)
    BY PickPlaces DEF Kept
  <2>2. s \in Seq(Item) /\ Len(s) <= TopK
    BY <2>1, AdaptersAssumption, FirstKPrefix
  <2>3. Chosen(p, q, items) = Ranked(s)
    BY <1>2 DEF Chosen
  <2> HIDE DEF s
  <2>4. QED BY <2>2, <2>3, RankedItems
<1>3. QED BY <1>1, <1>2

Unkeyed == {"locale", "instruction"}

\* The hits of provider p for the controls c, or for others with the same key.
Answers(hs, p, c) ==
  /\ hs \in Seq(Hit)
  /\ \A i \in DOMAIN hs : /\ hs[i].by = p
                          /\ hs[i].asked \ Unkeyed = (c \cap Adapter[p].sends) \ Unkeyed
  /\ \A i, j \in DOMAIN hs : i < j => hs[i].rank < hs[j].rank

LEMMA HitsAnswer ==
  ASSUME NEW p \in Providers, NEW q \in Queries, NEW r \in Responses
  PROVE  Answers(HitsOf(p, q, r), p, q.controls)
<1>1. r.items \in Seq(Item) /\ q.controls \subseteq Controls
  BY RetrievalAssumption DEF Response, ValidQuery
<1>2. CASE r.body # "list"
  BY <1>2 DEF HitsOf, Answers
<1>3. CASE r.body = "list"
  <2> DEFINE c == Chosen(p, q, r.items)
             a == q.controls \cap Adapter[p].sends
             h(n) == [url |-> c[n].item.url, by |-> p, rank |-> c[n].rank, asked |-> a]
             hs == [n \in DOMAIN c |-> h(n)]
  <2>1. c \in Seq(Choice) /\ \A i, j \in DOMAIN c : i < j => c[i].rank < c[j].rank
    BY <1>1, ChosenRanked
  <2>2. a \subseteq Controls
    BY <1>1
  <2>3. HitsOf(p, q, r) = hs
    BY <1>3 DEF HitsOf
  <2> HIDE DEF c, a
  <2>4. Len(c) \in Nat /\ DOMAIN c = 1..Len(c) /\ \A n \in 1..Len(c) : c[n] \in Choice
    BY <2>1, ElementOfSeq
  <2>5. \A n \in 1..Len(c) : h(n) \in Hit
    BY <2>2, <2>4 DEF Choice, Item, Hit
  <2>6. hs \in Seq(Hit) /\ DOMAIN hs = DOMAIN c
    BY <2>4, <2>5
  <2>7. \A i \in DOMAIN c : hs[i].by = p /\ hs[i].asked = a /\ hs[i].rank = c[i].rank
    OBVIOUS
  <2> HIDE DEF hs
  <2>8. QED BY <2>1, <2>3, <2>6, <2>7 DEF Answers, a
<1>4. QED BY <1>2, <1>3

-----------------------------------------------------------------------------
(* Gathering the hits of a query. *)

\* The place of provider p in query q: Rank, of the query alone.
Place(q, p) == CHOOSE i \in DOMAIN q.providers : q.providers[i] = p

\* How many providers of q have been dealt with when td is left.
Done(q, td) == Len(q.providers) - Len(td)

\* What is left of the providers of a query is the end of their list.
Queued(q, td) ==
  /\ td \in Seq(Providers) /\ Len(td) <= Len(q.providers)
  /\ \A i \in DOMAIN td : td[i] = q.providers[Done(q, td) + i]

\* Hits in the order of the providers, and each provider's in its own.
Sorted(q, hs) ==
  \A i, j \in DOMAIN hs : i < j =>
    /\ Place(q, hs[i].by) <= Place(q, hs[j].by)
    /\ hs[i].by = hs[j].by => hs[i].rank < hs[j].rank

Fits(q, hs) ==
  \A i \in DOMAIN hs :
    hs[i].asked \ Unkeyed = (q.controls \cap Adapter[hs[i].by].sends) \ Unkeyed

\* The hits combined so far are sorted, fit, and are of providers dealt with.
Gathered(q, td, c) ==
  /\ c \in Seq(Hit) /\ Sorted(q, c) /\ Fits(q, c)
  /\ \A i \in DOMAIN c : Place(q, c[i].by) \in 1..Done(q, td)

LEMMA QueryFacts ==
  ASSUME NEW q \in Queries
  PROVE  /\ q.providers \in Seq(Providers) /\ q.providers # <<>>
         /\ Len(q.providers) \in Nat /\ DOMAIN q.providers = 1..Len(q.providers)
         /\ \A i \in DOMAIN q.providers : Place(q, q.providers[i]) = i
<1>1. /\ q.providers \in Seq(Providers) /\ q.providers # <<>>
      /\ \A i, j \in DOMAIN q.providers : q.providers[i] = q.providers[j] => i = j
  BY RetrievalAssumption DEF IsInjective
<1>2. \A i \in DOMAIN q.providers : Place(q, q.providers[i]) = i
  BY <1>1 DEF Place
<1>3. QED BY <1>1, <1>2

LEMMA HeadPlace ==
  ASSUME NEW q \in Queries, NEW td, Queued(q, td), td # <<>>
  PROVE  /\ Head(td) \in Providers /\ Head(td) \in Range(q.providers)
         /\ Done(q, td) \in Nat /\ Done(q, Tail(td)) = Done(q, td) + 1
         /\ Place(q, Head(td)) = Done(q, td) + 1
         /\ Queued(q, Tail(td))
<1>1. /\ td \in Seq(Providers) /\ Len(td) \in Nat \ {0} /\ DOMAIN td = 1..Len(td)
      /\ Len(td) <= Len(q.providers)
      /\ \A i \in 1..Len(td) : td[i] = q.providers[Done(q, td) + i]
  BY EmptySeq DEF Queued
<1>2. /\ Head(td) \in Providers /\ Head(td) = td[1] /\ Tail(td) \in Seq(Providers)
      /\ Len(Tail(td)) = Len(td) - 1 /\ DOMAIN Tail(td) = 1..(Len(td) - 1)
      /\ \A i \in 1..(Len(td) - 1) : Tail(td)[i] = td[i + 1]
  BY <1>1, HeadTailProperties
<1>3. Done(q, td) \in Nat /\ Done(q, td) + 1 \in DOMAIN q.providers
  BY <1>1, QueryFacts DEF Done
<1>4. Done(q, Tail(td)) = Done(q, td) + 1
  BY <1>1, <1>2, QueryFacts DEF Done
<1>5. Head(td) = q.providers[Done(q, td) + 1]
  BY <1>1, <1>2
<1>6. Place(q, Head(td)) = Done(q, td) + 1
  BY <1>3, <1>5, QueryFacts
<1>7. Head(td) \in Range(q.providers)
  BY <1>3, <1>5 DEF Range
<1>8. \A i \in 1..(Len(td) - 1) : Tail(td)[i] = q.providers[Done(q, Tail(td)) + i]
  <2> SUFFICES ASSUME NEW i \in 1..(Len(td) - 1)
               PROVE  Tail(td)[i] = q.providers[Done(q, Tail(td)) + i]
    OBVIOUS
  <2>1. i + 1 \in 1..Len(td) /\ Done(q, Tail(td)) + i = Done(q, td) + (i + 1)
    BY <1>1, <1>3, <1>4
  <2>2. QED BY <1>1, <1>2, <2>1
<1>9. Queued(q, Tail(td))
  BY <1>1, <1>2, <1>8 DEF Queued
<1>10. QED BY <1>2, <1>3, <1>4, <1>6, <1>7, <1>9

\* Taking the hits of the provider in turn keeps them in order.
LEMMA TakeHits ==
  ASSUME NEW q \in Queries, NEW td, Queued(q, td), td # <<>>,
         NEW c, Gathered(q, td, c), NEW hs, Answers(hs, Head(td), q.controls)
  PROVE  Gathered(q, Tail(td), c \o hs)
<1> DEFINE d == Done(q, td)
           e == c \o hs
<1>1. d \in Nat /\ Done(q, Tail(td)) = d + 1 /\ Place(q, Head(td)) = d + 1
  BY HeadPlace
<1> HIDE DEF d
<1>2. c \in Seq(Hit) /\ hs \in Seq(Hit)
  BY DEF Gathered, Answers
<1>3. /\ e \in Seq(Hit) /\ Len(c) \in Nat /\ Len(hs) \in Nat
      /\ DOMAIN c = 1..Len(c) /\ DOMAIN hs = 1..Len(hs) /\ DOMAIN e = 1..(Len(c) + Len(hs))
      /\ \A i \in 1..Len(c) : e[i] = c[i]
      /\ \A i \in (Len(c) + 1)..(Len(c) + Len(hs)) : i - Len(c) \in DOMAIN hs /\ e[i] = hs[i - Len(c)]
  BY <1>2, ConcatProperties
<1> HIDE DEF e
<1>4. \A i \in 1..Len(c) :
        /\ Place(q, e[i].by) \in 1..d
        /\ e[i].asked \ Unkeyed = (q.controls \cap Adapter[e[i].by].sends) \ Unkeyed
  BY <1>3 DEF Gathered, Fits, d
<1>5. \A i \in (Len(c) + 1)..(Len(c) + Len(hs)) :
        /\ Place(q, e[i].by) = d + 1 /\ e[i].by = Head(td)
        /\ e[i].asked \ Unkeyed = (q.controls \cap Adapter[e[i].by].sends) \ Unkeyed
  BY <1>1, <1>3 DEF Answers
<1>6. DOMAIN e = (1..Len(c)) \cup ((Len(c) + 1)..(Len(c) + Len(hs)))
  BY <1>3
<1>7. Fits(q, e)
  BY <1>4, <1>5, <1>6 DEF Fits
<1>8. \A i \in DOMAIN e : Place(q, e[i].by) \in 1..(d + 1)
  BY <1>1, <1>4, <1>5, <1>6
<1>9. Sorted(q, e)
  <2> SUFFICES ASSUME NEW i \in DOMAIN e, NEW j \in DOMAIN e, i < j
               PROVE  /\ Place(q, e[i].by) <= Place(q, e[j].by)
                      /\ e[i].by = e[j].by => e[i].rank < e[j].rank
    BY DEF Sorted
  <2>1. CASE i \in 1..Len(c) /\ j \in 1..Len(c)
    BY <1>3, <2>1 DEF Gathered, Sorted
  <2>2. CASE i \in 1..Len(c) /\ j \notin 1..Len(c)
    <3>1. Place(q, e[i].by) \in 1..d /\ Place(q, e[j].by) = d + 1
      BY <1>4, <1>5, <1>6, <2>2
    <3>2. QED BY <1>1, <3>1
  <2>3. CASE i \notin 1..Len(c)
    <3>1. /\ i \in (Len(c) + 1)..(Len(c) + Len(hs)) /\ j \in (Len(c) + 1)..(Len(c) + Len(hs))
      BY <1>3, <1>6, <2>3
    <3>2. Place(q, e[i].by) = d + 1 /\ Place(q, e[j].by) = d + 1
      BY <1>5, <3>1
    <3>3. e[i].rank < e[j].rank
      BY <1>3, <3>1 DEF Answers
    <3>4. QED BY <1>1, <3>2, <3>3
  <2>4. QED BY <2>1, <2>2, <2>3
<1>10. QED BY <1>1, <1>3, <1>7, <1>8, <1>9 DEF Gathered, e

\* Of sorted hits, the first of each URL is of the first provider that offered it.
LEMMA DedupFirst ==
  ASSUME NEW q, NEW c \in Seq(Hit), Sorted(q, c)
  PROVE  LET d == Dedup(c) IN
         /\ d \in Seq(Hit) /\ Sorted(q, d) /\ Urlset(d) = Urlset(c)
         /\ \A i, j \in DOMAIN d : i < j => d[i].url # d[j].url
         /\ \A i \in DOMAIN d, j \in DOMAIN c : c[j].url = d[i].url =>
              c[j] = d[i] \/ Place(q, d[i].by) <= Place(q, c[j].by)
<1> DEFINE d == Dedup(c)
           K == {i \in DOMAIN c : \A j \in DOMAIN c : c[j].url = c[i].url => i <= j}
<1>0. DOMAIN c = 1..Len(c) /\ Len(c) \in Nat
  OBVIOUS
<1>1. d = Pick(c, K)
  BY DEF Dedup
<1> HIDE DEF K
<1>2. d \in Seq(Hit)
  BY <1>1, PickPlaces
<1>3. PICK g \in [DOMAIN d -> (DOMAIN c) \cap K] :
        /\ \A i \in DOMAIN d : d[i] = c[g[i]]
        /\ \A i, j \in DOMAIN d : i < j => g[i] < g[j]
        /\ \A m \in (DOMAIN c) \cap K : \E i \in DOMAIN d : g[i] = m
  BY <1>1, PickPlaces
<1> HIDE DEF d
<1>4. \A i \in DOMAIN d : /\ g[i] \in DOMAIN c /\ g[i] \in Nat /\ d[i] = c[g[i]]
                          /\ \A j \in DOMAIN c : c[j].url = d[i].url => g[i] <= j
  BY <1>0, <1>3 DEF K
<1>5. Sorted(q, d)
  BY <1>3, <1>4 DEF Sorted
<1>6. \A i, j \in DOMAIN d : i < j => d[i].url # d[j].url
  <2> SUFFICES ASSUME NEW i \in DOMAIN d, NEW j \in DOMAIN d, i < j, d[i].url = d[j].url
               PROVE  FALSE
    OBVIOUS
  <2>1. g[i] < g[j] /\ g[j] <= g[i]
    BY <1>3, <1>4
  <2>2. QED BY <1>4, <2>1
<1>7. \A i \in DOMAIN d, j \in DOMAIN c : c[j].url = d[i].url =>
        c[j] = d[i] \/ Place(q, d[i].by) <= Place(q, c[j].by)
  <2> SUFFICES ASSUME NEW i \in DOMAIN d, NEW j \in DOMAIN c, c[j].url = d[i].url
               PROVE  c[j] = d[i] \/ Place(q, d[i].by) <= Place(q, c[j].by)
    OBVIOUS
  <2>1. g[i] \in DOMAIN c /\ d[i] = c[g[i]] /\ (g[i] = j \/ g[i] < j)
    BY <1>0, <1>4
  <2>2. QED BY <2>1 DEF Sorted
<1>8. Urlset(d) = Urlset(c)
  <2>1. Urlset(d) \subseteq Urlset(c)
    BY <1>4 DEF Urlset
  <2>2. ASSUME NEW j \in DOMAIN c PROVE c[j].url \in Urlset(d)
    <3> DEFINE M == {k \in DOMAIN c : c[k].url = c[j].url}
    <3>1. M \subseteq Nat /\ M # {}
      BY <1>0
    <3>2. PICK k \in M : \A m \in M : k <= m
      BY <3>1, Least
    <3>3. k \in DOMAIN c /\ c[k].url = c[j].url /\ k \in K
      BY <3>2 DEF K
    <3>4. PICK i \in DOMAIN d : g[i] = k
      BY <1>3, <3>3
    <3>5. QED BY <1>4, <3>3, <3>4 DEF Urlset
  <2>3. Urlset(c) \subseteq Urlset(d)
    BY <2>2 DEF Urlset
  <2>4. QED BY <2>1, <2>3
<1>9. QED BY <1>2, <1>5, <1>6, <1>7, <1>8 DEF d

\* What MergedByPriority says of a query, its combined hits and its result.
Merged(q, c, r) ==
  /\ Len(r) <= TopK
  /\ Len(r) < TopK => Urlset(r) = Urlset(c)
  /\ \A i, j \in DOMAIN r : i < j =>
       /\ r[i].url # r[j].url /\ Place(q, r[i].by) <= Place(q, r[j].by)
       /\ r[i].by = r[j].by => r[i].rank < r[j].rank
  /\ \A i \in DOMAIN r, j \in DOMAIN c :
       c[j].url = r[i].url => Place(q, r[i].by) <= Place(q, c[j].by)

LEMMA MergeFirst ==
  ASSUME NEW q, NEW td, NEW c, Gathered(q, td, c), Done(q, td) \in Nat
  PROVE  FirstK(Dedup(c)) \in Seq(Hit) /\ Merged(q, c, FirstK(Dedup(c)))
<1> DEFINE d == Dedup(c)
           r == FirstK(d)
<1>1. c \in Seq(Hit) /\ Sorted(q, c) /\ \A i \in DOMAIN c : Place(q, c[i].by) \in Nat
  BY DEF Gathered
<1>2. /\ d \in Seq(Hit) /\ Sorted(q, d) /\ Urlset(d) = Urlset(c)
      /\ \A i, j \in DOMAIN d : i < j => d[i].url # d[j].url
      /\ \A i \in DOMAIN d, j \in DOMAIN c : c[j].url = d[i].url =>
           c[j] = d[i] \/ Place(q, d[i].by) <= Place(q, c[j].by)
  BY <1>1, DedupFirst
<1> HIDE DEF d
<1>3. /\ r \in Seq(Hit) /\ DOMAIN r \subseteq DOMAIN d /\ Len(r) <= TopK
      /\ \A i \in DOMAIN r : r[i] = d[i]
      /\ Len(r) < TopK => DOMAIN r = DOMAIN d
  <2>1. /\ r \in Seq(Hit) /\ DOMAIN r \subseteq DOMAIN d
        /\ Len(r) = IF Len(d) < TopK THEN Len(d) ELSE TopK
        /\ \A i \in DOMAIN r : r[i] = d[i]
    BY <1>2, FirstKPrefix
  <2>2. /\ Len(d) \in Nat /\ Len(r) \in Nat /\ TopK \in Nat
        /\ DOMAIN d = 1..Len(d) /\ DOMAIN r = 1..Len(r)
    BY <1>2, <2>1, AdaptersAssumption, LenProperties
  <2> HIDE DEF r
  <2>3. Len(r) <= TopK /\ (Len(r) < TopK => Len(r) = Len(d))
    <3>1. CASE Len(d) < TopK
      <4>1. Len(r) = Len(d)
        BY <2>1, <3>1
      <4>2. QED BY <2>2, <3>1, <4>1
    <3>2. CASE ~(Len(d) < TopK)
      <4>1. Len(r) = TopK
        BY <2>1, <3>2
      <4>2. TopK \in Nat
        BY AdaptersAssumption
      <4>3. TopK <= TopK /\ ~(TopK < TopK)
        BY <4>2
      <4>4. QED BY <4>1, <4>3
    <3>3. QED BY <3>1, <3>2
  <2>4. QED BY <2>1, <2>2, <2>3
<1> HIDE DEF r
<1>4. Len(r) < TopK => Urlset(r) = Urlset(c)
  <2>1. Len(r) < TopK => Urlset(r) = Urlset(d)
    BY <1>3 DEF Urlset
  <2>2. QED BY <1>2, <2>1
<1>5. \A i, j \in DOMAIN r : i < j =>
       /\ r[i].url # r[j].url /\ Place(q, r[i].by) <= Place(q, r[j].by)
       /\ r[i].by = r[j].by => r[i].rank < r[j].rank
  BY <1>2, <1>3 DEF Sorted
<1>6. \A i \in DOMAIN r, j \in DOMAIN c :
       c[j].url = r[i].url => Place(q, r[i].by) <= Place(q, c[j].by)
  BY <1>1, <1>2, <1>3
<1>7. QED BY <1>3, <1>4, <1>5, <1>6 DEF Merged, r, d

-----------------------------------------------------------------------------
(* The inductive invariant. *)

Label   == {"idle", "search", "asked", "retrieve", "fetch"}
Outcome == {"none", "hits", "batch", "unavailable", "no_results",
            "runtime_error", "raised", "cancelled"}

\* The records are about the hits they stand for.
Accounted(q, r, recs, o) ==
  /\ Len(recs) <= Len(r)
  /\ \A i \in DOMAIN recs : /\ recs[i].url = r[i].url
                            /\ recs[i].kind = "error" => q.partial
  /\ o = "batch" => Len(recs) = Len(r)

\* A task at l in query q, with providers td left, hits c combined, providers ms
\* missing, result r, records recs and outcome o.
Job(l, q, td, c, ms, r, recs, o) ==
  /\ l \in Label /\ q \in Queries /\ ms \in SUBSET Providers
  /\ r \in Seq(Hit) /\ recs \in Seq(Record) /\ o \in Outcome
  /\ Queued(q, td) /\ Gathered(q, td, c)
  /\ l = "asked" => td # <<>>
  /\ l \in {"search", "asked"} => r = <<>> /\ recs = <<>>
  /\ l # "idle" => o = "none"
  /\ l = "fetch" => Len(recs) < Len(r)
  /\ r # <<>> /\ q.op # "tool" => Merged(q, c, r)
  /\ Accounted(q, r, recs, o)

JobOf(t) == Job(pc[t], query[t], todo[t], combined[t], missing[t], result[t], records[t], outcome[t])

\* The hits in the search cache answer their key.
CachesFit ==
  /\ searchCache \in [Keys -> Seq(Hit)] /\ fetchCache \subseteq Urls
  /\ \A k \in Keys : Answers(searchCache[k], k[1], k[2])

Inv == TypeOK /\ CachesFit /\ \A t \in Tasks : JobOf(t)

-----------------------------------------------------------------------------
LEMMA KeyFacts ==
  ASSUME NEW q \in Queries, NEW p \in Range(q.providers)
  PROVE  Key(p, q) \in Keys /\ Key(p, q)[1] = p /\ Key(p, q)[2] = q.controls \ Unkeyed
<1>1. Key(p, q) \in {Key(x, q) : x \in Range(q.providers)}
  OBVIOUS
<1>2. Key(p, q) \in Keys
  BY <1>1 DEF Keys
<1>3. QED BY <1>2 DEF Key, Unkeyed

LEMMA KeyedAnswers ==
  ASSUME NEW hs, NEW p, NEW c
  PROVE  Answers(hs, p, c) <=> Answers(hs, p, c \ Unkeyed)
BY DEF Answers

LEMMA NoAnswers == ASSUME NEW p, NEW c PROVE Answers(<<>>, p, c)
BY DEF Answers

LEMMA NothingGathered ==
  ASSUME NEW q \in Queries
  PROVE  /\ Queued(q, <<>>) /\ Queued(q, q.providers)
         /\ Gathered(q, <<>>, <<>>) /\ Gathered(q, q.providers, <<>>)
         /\ \A r \in Seq(Hit), o \in Outcome : (o = "batch" => r = <<>>) => Accounted(q, r, <<>>, o)
<1>1. Queued(q, <<>>)
  BY QueryFacts DEF Queued
<1>2. Queued(q, q.providers)
  BY QueryFacts DEF Queued, Done
<1>3. Gathered(q, <<>>, <<>>) /\ Gathered(q, q.providers, <<>>)
  BY DEF Gathered, Sorted, Fits
<1>4. ASSUME NEW r \in Seq(Hit), NEW o \in Outcome, o = "batch" => r = <<>>
      PROVE  Accounted(q, r, <<>>, o)
  BY <1>4 DEF Accounted
<1>5. QED BY <1>1, <1>2, <1>3, <1>4

LEMMA AddRecord ==
  ASSUME NEW q, NEW r \in Seq(Hit), NEW recs \in Seq(Record), Accounted(q, r, recs, "none"),
         Len(recs) < Len(r), NEW k \in {"fetched", "cached", "error"}, k = "error" => q.partial,
         NEW new, new = Append(recs, [url |-> r[Len(recs) + 1].url, kind |-> k])
  PROVE  new \in Seq(Record) /\ Accounted(q, r, new, "none")
<1> DEFINE e == [url |-> r[Len(recs) + 1].url, kind |-> k]
<1>0. new = Append(recs, e)
  OBVIOUS
<1>1. Len(recs) \in Nat /\ Len(r) \in Nat /\ DOMAIN recs = 1..Len(recs)
  OBVIOUS
<1>2. r[Len(recs) + 1] \in Hit
  BY <1>1, ElementOfSeq
<1>3. e \in Record /\ e.url = r[Len(recs) + 1].url /\ e.kind = k
  BY <1>2 DEF Hit, Record
<1> HIDE DEF e
<1>4. /\ new \in Seq(Record) /\ Len(new) = Len(recs) + 1 /\ DOMAIN new = 1..(Len(recs) + 1)
      /\ \A i \in 1..Len(recs) : new[i] = recs[i]
      /\ new[Len(recs) + 1] = e
  BY <1>0, <1>3, AppendProperties
<1>5. \A i \in DOMAIN new : new[i].url = r[i].url /\ (new[i].kind = "error" => q.partial)
  <2> SUFFICES ASSUME NEW i \in DOMAIN new
               PROVE  new[i].url = r[i].url /\ (new[i].kind = "error" => q.partial)
    OBVIOUS
  <2>1. CASE i = Len(recs) + 1
    BY <1>3, <1>4, <2>1
  <2>2. CASE i \in 1..Len(recs)
    BY <1>1, <1>4, <2>2 DEF Accounted
  <2>3. QED BY <1>1, <1>4, <2>1, <2>2
<1>6. Accounted(q, r, new, "none")
  BY <1>1, <1>4, <1>5 DEF Accounted
<1>7. QED BY <1>4, <1>6

\* A step of one task.
LEMMA OneTask ==
  ASSUME Inv, NEW t \in Tasks,
         pc' = [pc EXCEPT ![t] = pc'[t]], query' = [query EXCEPT ![t] = query'[t]],
         todo' = [todo EXCEPT ![t] = todo'[t]], combined' = [combined EXCEPT ![t] = combined'[t]],
         missing' = [missing EXCEPT ![t] = missing'[t]], result' = [result EXCEPT ![t] = result'[t]],
         records' = [records EXCEPT ![t] = records'[t]], outcome' = [outcome EXCEPT ![t] = outcome'[t]],
         JobOf(t)', CachesFit', calls' \in 0..MaxCalls
  PROVE  Inv'
<1>1. TypeOK
  BY DEF Inv
<1>2. /\ pc'[t] \in Label /\ query'[t] \in Queries /\ missing'[t] \in SUBSET Providers
      /\ result'[t] \in Seq(Hit) /\ records'[t] \in Seq(Record) /\ outcome'[t] \in Outcome
      /\ todo'[t] \in Seq(Providers) /\ combined'[t] \in Seq(Hit)
  BY DEF JobOf, Job, Queued, Gathered
<1>3. /\ pc' \in [Tasks -> Label] /\ query' \in [Tasks -> Queries]
      /\ missing' \in [Tasks -> SUBSET Providers] /\ result' \in [Tasks -> Seq(Hit)]
  BY <1>1, <1>2 DEF TypeOK, Label
<1>4. /\ records' \in [Tasks -> Seq(Record)] /\ outcome' \in [Tasks -> Outcome]
      /\ todo' \in [Tasks -> Seq(Providers)] /\ combined' \in [Tasks -> Seq(Hit)]
  BY <1>1, <1>2 DEF TypeOK, Outcome
<1>5. TypeOK'
  BY <1>3, <1>4 DEF TypeOK, CachesFit, Label, Outcome
<1>6. ASSUME NEW b \in Tasks, b # t PROVE JobOf(b)'
  <2>1. /\ pc'[b] = pc[b] /\ query'[b] = query[b] /\ todo'[b] = todo[b] /\ combined'[b] = combined[b]
        /\ missing'[b] = missing[b] /\ result'[b] = result[b] /\ records'[b] = records[b]
        /\ outcome'[b] = outcome[b]
    BY <1>1, <1>6 DEF TypeOK
  <2>2. QED BY <2>1 DEF Inv, JobOf
<1>7. QED BY <1>5, <1>6 DEF Inv

LEMMA InitInv == Init => Inv
<1> SUFFICES ASSUME Init PROVE Inv
  OBVIOUS
<1> DEFINE q0 == CHOOSE q \in Queries : TRUE
<1>1. q0 \in Queries
  BY RetrievalAssumption
<1> HIDE DEF q0
<1>2. CachesFit
  BY NoAnswers DEF Init, CachesFit
<1>3. ASSUME NEW t \in Tasks PROVE JobOf(t)
  <2>1. Queued(q0, <<>>) /\ Gathered(q0, <<>>, <<>>)
    BY <1>1, NothingGathered
  <2>2. Accounted(q0, <<>>, <<>>, "none")
    BY DEF Accounted
  <2>3. Job("idle", q0, <<>>, <<>>, {}, <<>>, <<>>, "none")
    BY <1>1, <2>1, <2>2 DEF Job, Label, Outcome
  <2>4. QED BY <2>3 DEF Init, JobOf, q0
<1>4. TypeOK
  <2>1. /\ pc \in [Tasks -> Label] /\ query \in [Tasks -> Queries]
        /\ missing \in [Tasks -> SUBSET Providers] /\ outcome \in [Tasks -> Outcome]
    BY <1>1 DEF Init, Label, Outcome, q0
  <2>2. /\ todo \in [Tasks -> Seq(Providers)] /\ combined \in [Tasks -> Seq(Hit)]
        /\ result \in [Tasks -> Seq(Hit)] /\ records \in [Tasks -> Seq(Record)]
    BY DEF Init
  <2>3. calls \in 0..MaxCalls
    BY RetrievalAssumption DEF Init
  <2>4. QED BY <1>2, <2>1, <2>2, <2>3 DEF TypeOK, CachesFit, Label, Outcome
<1>5. QED BY <1>2, <1>3, <1>4 DEF Inv

-----------------------------------------------------------------------------
(* The steps of search(). *)

LEMMA StartStep ==
  ASSUME Inv, NEW t \in Tasks, NEW q \in Queries, StartCall(t, q)
  PROVE  Inv'
<1>1. TypeOK
  BY DEF Inv
<1>2. /\ pc' = [pc EXCEPT ![t] = pc'[t]] /\ query' = [query EXCEPT ![t] = query'[t]]
      /\ todo' = [todo EXCEPT ![t] = todo'[t]] /\ combined' = [combined EXCEPT ![t] = combined'[t]]
      /\ missing' = [missing EXCEPT ![t] = missing'[t]] /\ result' = [result EXCEPT ![t] = result'[t]]
      /\ records' = [records EXCEPT ![t] = records'[t]] /\ outcome' = [outcome EXCEPT ![t] = outcome'[t]]
  BY <1>1 DEF TypeOK, StartCall, Goto
<1>3. /\ pc'[t] \in {"asked", "search"} /\ query'[t] = q /\ todo'[t] = q.providers
      /\ combined'[t] = <<>> /\ missing'[t] = {} /\ result'[t] = <<>> /\ records'[t] = <<>>
      /\ outcome'[t] = "none"
  BY <1>1 DEF TypeOK, StartCall, Goto
<1>4. Queued(q, q.providers) /\ Gathered(q, q.providers, <<>>) /\ q.providers # <<>>
  BY NothingGathered, QueryFacts
<1>5. Accounted(q, <<>>, <<>>, "none")
  BY DEF Accounted
<1>6. JobOf(t)'
  BY <1>3, <1>4, <1>5 DEF JobOf, Job, Label, Outcome
<1>7. CachesFit' /\ calls' \in 0..MaxCalls
  BY <1>1, RetrievalAssumption DEF Inv, CachesFit, StartCall, caches, TypeOK
<1>8. QED BY <1>2, <1>6, <1>7, OneTask

\* The provider in turn, and the slot of its answer.
LEMMA Turn ==
  ASSUME Inv, NEW t \in Tasks, todo[t] # <<>>
  PROVE  /\ query[t] \in Queries /\ Queued(query[t], todo[t])
         /\ Gathered(query[t], todo[t], combined[t])
         /\ Provider(t) = Head(todo[t]) /\ Provider(t) \in Providers
         /\ Queued(query[t], Tail(todo[t]))
         /\ Slot(t) \in Keys /\ Slot(t)[1] = Provider(t) /\ Slot(t)[2] = query[t].controls \ Unkeyed
<1>1. query[t] \in Queries /\ Queued(query[t], todo[t]) /\ Gathered(query[t], todo[t], combined[t])
  BY DEF Inv, JobOf, Job
<1>2. /\ Head(todo[t]) \in Providers /\ Head(todo[t]) \in Range(query[t].providers)
      /\ Queued(query[t], Tail(todo[t]))
  BY <1>1, HeadPlace
<1>3. QED BY <1>1, <1>2, KeyFacts DEF Provider, Slot

\* Hits of the provider in turn are taken, before anything is merged.
LEMMA TakeStep ==
  ASSUME Inv, NEW t \in Tasks, pc[t] \in {"search", "asked"}, todo[t] # <<>>,
         NEW hs, Answers(hs, Provider(t), query[t].controls), Take(t, hs),
         pc' = [pc EXCEPT ![t] = "search"],
         missing' = [missing EXCEPT ![t] = missing'[t]], missing'[t] \in SUBSET Providers,
         UNCHANGED <<query, result, records, outcome, calls>>, CachesFit'
  PROVE  Inv'
<1>1. TypeOK
  BY DEF Inv
<1>2. /\ query' = [query EXCEPT ![t] = query'[t]] /\ result' = [result EXCEPT ![t] = result'[t]]
      /\ records' = [records EXCEPT ![t] = records'[t]] /\ outcome' = [outcome EXCEPT ![t] = outcome'[t]]
      /\ pc' = [pc EXCEPT ![t] = pc'[t]]
  BY <1>1 DEF TypeOK
<1>3. /\ todo' = [todo EXCEPT ![t] = todo'[t]] /\ combined' = [combined EXCEPT ![t] = combined'[t]]
      /\ todo'[t] = Tail(todo[t]) /\ combined'[t] = combined[t] \o hs
  BY <1>1 DEF TypeOK, Take
<1>4. /\ pc'[t] = "search" /\ query'[t] = query[t] /\ result'[t] = result[t]
      /\ records'[t] = records[t] /\ outcome'[t] = outcome[t]
  BY <1>1 DEF TypeOK
<1>5. JobOf(t)
  BY DEF Inv
<1>6. Queued(query[t], Tail(todo[t])) /\ Gathered(query[t], Tail(todo[t]), combined[t] \o hs)
  BY Turn, TakeHits
<1>7. JobOf(t)'
  BY <1>3, <1>4, <1>5, <1>6 DEF JobOf, Job, Label
<1>8. calls' \in 0..MaxCalls
  BY <1>1 DEF TypeOK
<1>9. QED BY <1>2, <1>3, <1>7, <1>8, OneTask

LEMMA CachedStep ==
  ASSUME Inv, NEW t \in Tasks, SearchCached(t)
  PROVE  Inv'
<1>0. TypeOK /\ CachesFit
  BY DEF Inv
<1>1. todo[t] # <<>> /\ pc[t] = "search" /\ Take(t, searchCache[Slot(t)])
  BY DEF SearchCached, UseCached
<1>2. Answers(searchCache[Slot(t)], Provider(t), query[t].controls)
  BY <1>0, <1>1, Turn, KeyedAnswers DEF CachesFit
<1>3. /\ pc' = [pc EXCEPT ![t] = "search"] /\ missing' = [missing EXCEPT ![t] = missing'[t]]
      /\ missing'[t] \in SUBSET Providers /\ UNCHANGED <<query, result, records, outcome, calls>>
      /\ CachesFit'
  BY <1>0, <1>1 DEF TypeOK, SearchCached, CachesFit, caches
<1>4. QED BY <1>1, <1>2, <1>3, TakeStep

LEMMA NoAdapterStep ==
  ASSUME Inv, NEW t \in Tasks, NoAdapter(t)
  PROVE  Inv'
<1>0. TypeOK /\ CachesFit
  BY DEF Inv
<1>1. todo[t] # <<>> /\ pc[t] = "search" /\ Take(t, <<>>)
  BY DEF NoAdapter, Uncached
<1>2. /\ pc' = [pc EXCEPT ![t] = "search"] /\ missing' = [missing EXCEPT ![t] = missing'[t]]
      /\ missing'[t] \in SUBSET Providers /\ UNCHANGED <<query, result, records, outcome, calls>>
      /\ CachesFit'
  BY <1>0, <1>1, Turn DEF TypeOK, NoAdapter, CachesFit, caches
<1>3. QED BY <1>1, <1>2, NoAnswers, TakeStep

LEMMA StoreFits ==
  ASSUME Inv, NEW t \in Tasks, todo[t] # <<>>, NEW hs,
         Answers(hs, Provider(t), query[t].controls),
         Store(t, hs) \/ UNCHANGED searchCache, UNCHANGED fetchCache
  PROVE  CachesFit'
<1>1. CachesFit
  BY DEF Inv
<1>2. CASE UNCHANGED searchCache
  BY <1>1, <1>2 DEF CachesFit
<1>3. CASE searchCache' = [searchCache EXCEPT ![Slot(t)] = hs]
  <2>1. hs \in Seq(Hit) /\ Answers(hs, Slot(t)[1], Slot(t)[2])
    BY Turn, KeyedAnswers DEF Answers
  <2>2. \A k \in Keys : searchCache'[k] = IF k = Slot(t) THEN hs ELSE searchCache[k]
    BY <1>1, <1>3 DEF CachesFit
  <2>3. searchCache' \in [Keys -> Seq(Hit)]
    BY <1>1, <1>3, <2>1 DEF CachesFit
  <2>4. QED BY <1>1, <2>1, <2>2, <2>3 DEF CachesFit
<1>4. QED BY <1>2, <1>3 DEF Store

\* What an adapter answers a task.
LEMMA AnswerFits ==
  ASSUME Inv, NEW t \in Tasks, pc[t] = "asked", NEW r \in Responses
  PROVE  todo[t] # <<>> /\ Answers(Answer(t, r), Provider(t), query[t].controls)
<1>1. todo[t] # <<>>
  BY DEF Inv, JobOf, Job
<1>2. QED BY <1>1, Turn, HitsAnswer DEF Answer

LEMMA AnswersStep ==
  ASSUME Inv, NEW t \in Tasks, NEW r \in Responses, ProviderAnswers(t, r)
  PROVE  Inv'
<1>0. TypeOK
  BY DEF Inv
<1>1. pc[t] = "asked" /\ Take(t, Answer(t, r)) /\ Store(t, Answer(t, r)) /\ UNCHANGED fetchCache
  BY DEF ProviderAnswers, Asking
<1>2. todo[t] # <<>> /\ Answers(Answer(t, r), Provider(t), query[t].controls)
  BY <1>1, AnswerFits
<1>3. CachesFit'
  BY <1>1, <1>2, StoreFits
<1>4. /\ pc' = [pc EXCEPT ![t] = "search"] /\ missing' = [missing EXCEPT ![t] = missing'[t]]
      /\ missing'[t] \in SUBSET Providers /\ UNCHANGED <<query, result, records, outcome, calls>>
  BY <1>0 DEF TypeOK, ProviderAnswers, Goto
<1>5. QED BY <1>1, <1>2, <1>3, <1>4, TakeStep

LEMMA FailsStep ==
  ASSUME Inv, NEW t \in Tasks, NEW r \in Responses, ProviderFails(t, r)
  PROVE  Inv'
<1>0. TypeOK /\ CachesFit
  BY DEF Inv
<1>1. pc[t] = "asked" /\ Take(t, <<>>)
  BY DEF ProviderFails, Asking
<1>2. todo[t] # <<>>
  BY <1>1, AnswerFits
<1>3. /\ pc' = [pc EXCEPT ![t] = "search"] /\ missing' = [missing EXCEPT ![t] = missing'[t]]
      /\ missing'[t] \in SUBSET Providers /\ UNCHANGED <<query, result, records, outcome, calls>>
      /\ CachesFit'
  BY <1>0 DEF TypeOK, ProviderFails, Goto, CachesFit, caches
<1>4. QED BY <1>1, <1>2, <1>3, NoAnswers, TakeStep

\* A step that leaves the query of the task and what it has gathered alone.
LEMMA StayStep ==
  ASSUME Inv, NEW t \in Tasks, UNCHANGED <<query, todo, combined, missing, calls>>,
         pc' = [pc EXCEPT ![t] = pc'[t]], outcome' = [outcome EXCEPT ![t] = outcome'[t]],
         result' = [result EXCEPT ![t] = result'[t]], records' = [records EXCEPT ![t] = records'[t]],
         Job(pc'[t], query[t], todo[t], combined[t], missing[t], result'[t], records'[t], outcome'[t]),
         CachesFit'
  PROVE  Inv'
<1>1. TypeOK
  BY DEF Inv
<1>2. /\ query' = [query EXCEPT ![t] = query'[t]] /\ todo' = [todo EXCEPT ![t] = todo'[t]]
      /\ combined' = [combined EXCEPT ![t] = combined'[t]]
      /\ missing' = [missing EXCEPT ![t] = missing'[t]] /\ calls' \in 0..MaxCalls
  BY <1>1 DEF TypeOK
<1>3. JobOf(t)'
  BY DEF JobOf
<1>4. QED BY <1>2, <1>3, OneTask

\* A call may end anywhere, with any outcome but a batch.
LEMMA StopStep ==
  ASSUME Inv, NEW t \in Tasks, NEW o \in Outcome, o # "batch", End(t, o),
         UNCHANGED <<query, todo, combined, missing, calls, result, records>>, CachesFit'
  PROVE  Inv'
<1>1. TypeOK /\ JobOf(t)
  BY DEF Inv
<1>2. /\ pc' = [pc EXCEPT ![t] = pc'[t]] /\ outcome' = [outcome EXCEPT ![t] = outcome'[t]]
      /\ result' = [result EXCEPT ![t] = result'[t]] /\ records' = [records EXCEPT ![t] = records'[t]]
      /\ pc'[t] = "idle" /\ outcome'[t] = o /\ result'[t] = result[t] /\ records'[t] = records[t]
  BY <1>1 DEF TypeOK, End, Goto
<1>3. Job(pc'[t], query[t], todo[t], combined[t], missing[t], result'[t], records'[t], outcome'[t])
  BY <1>1, <1>2 DEF JobOf, Job, Label, Accounted
<1>4. QED BY <1>2, <1>3, StayStep

LEMMA CachesStay == ASSUME Inv, UNCHANGED caches PROVE CachesFit'
BY DEF Inv, CachesFit, caches

LEMMA AskStep ==
  ASSUME Inv, NEW t \in Tasks, Ask(t)
  PROVE  Inv'
<1>1. TypeOK /\ JobOf(t) /\ CachesFit'
  BY CachesStay DEF Inv, Ask
<1>2. /\ pc' = [pc EXCEPT ![t] = pc'[t]] /\ outcome' = [outcome EXCEPT ![t] = outcome'[t]]
      /\ result' = [result EXCEPT ![t] = result'[t]] /\ records' = [records EXCEPT ![t] = records'[t]]
      /\ pc[t] = "search" /\ todo[t] # <<>> /\ pc'[t] = "asked"
      /\ outcome'[t] = outcome[t] /\ result'[t] = result[t] /\ records'[t] = records[t]
      /\ UNCHANGED <<query, todo, combined, missing, calls>>
  BY <1>1 DEF TypeOK, Ask, Uncached, Goto
<1>3. Job(pc'[t], query[t], todo[t], combined[t], missing[t], result'[t], records'[t], outcome'[t])
  BY <1>1, <1>2 DEF JobOf, Job, Label
<1>4. QED BY <1>1, <1>2, <1>3, StayStep

\* An entry that is gone leaves the others what they are.
LEMMA ForgetsSlot ==
  ASSUME Inv, NEW k, searchCache' = [searchCache EXCEPT ![k] = <<>>], UNCHANGED fetchCache
  PROVE  CachesFit'
<1>1. CachesFit
  BY DEF Inv
<1>0. searchCache \in [Keys -> Seq(Hit)] /\ <<>> \in Seq(Hit)
  BY <1>1 DEF CachesFit
<1>2. searchCache' \in [Keys -> Seq(Hit)]
  BY <1>0
<1>3. \A m \in Keys : searchCache'[m] = IF m = k THEN <<>> ELSE searchCache[m]
  BY <1>1 DEF CachesFit
<1>4. QED BY <1>1, <1>2, <1>3, NoAnswers DEF CachesFit

LEMMA BreaksStep ==
  ASSUME Inv, NEW t \in Tasks, NEW r \in Responses,
         ProviderBreaks(t, r) \/ StorageBreaks(t, r) \/ ToolFails(t, r) \/ Cancel(t)
  PROVE  Inv'
<1>1. /\ UNCHANGED <<query, todo, combined, missing, calls, result, records, fetchCache>>
      /\ \E o \in Outcome : o # "batch" /\ End(t, o)
  BY DEF ProviderBreaks, StorageBreaks, ToolFails, Cancel, caches, Outcome
<1>2. CachesFit'
  <2>1. CASE StorageBreaks(t, r)
    <3>1. /\ pc[t] = "asked" /\ todo[t] # <<>>
          /\ Answers(Answer(t, r), Provider(t), query[t].controls)
      BY <2>1, AnswerFits DEF StorageBreaks, Asking
    <3>2. CASE UNCHANGED searchCache
      BY <1>1, <3>2, CachesStay DEF caches
    <3>3. CASE Store(t, Answer(t, r))
      BY <1>1, <3>1, <3>3, StoreFits
    <3>4. CASE Spoil(t)
      BY <1>1, <3>4, ForgetsSlot DEF Spoil
    <3>5. QED BY <2>1, <3>2, <3>3, <3>4 DEF StorageBreaks
  <2>2. CASE ~StorageBreaks(t, r)
    BY <2>2, CachesStay DEF ProviderBreaks, ToolFails, Cancel
  <2>3. QED BY <2>1, <2>2
<1>3. QED BY <1>1, <1>2, StopStep

LEMMA ToolStep ==
  ASSUME Inv, NEW t \in Tasks, NEW r \in Responses, ToolAnswers(t, r)
  PROVE  Inv'
<1>1. TypeOK /\ JobOf(t) /\ CachesFit'
  BY CachesStay DEF Inv, ToolAnswers
<1>2. /\ pc' = [pc EXCEPT ![t] = pc'[t]] /\ outcome' = [outcome EXCEPT ![t] = outcome'[t]]
      /\ result' = [result EXCEPT ![t] = result'[t]] /\ records' = [records EXCEPT ![t] = records'[t]]
      /\ pc[t] = "asked" /\ query[t].op = "tool" /\ pc'[t] = "idle"
      /\ outcome'[t] = "hits" /\ result'[t] = Answer(t, r) /\ records'[t] = records[t]
      /\ UNCHANGED <<query, todo, combined, missing, calls>>
  BY <1>1 DEF TypeOK, ToolAnswers, ToolRuns, End, Goto
<1>3. Answer(t, r) \in Seq(Hit) /\ records[t] = <<>>
  BY <1>1, <1>2, AnswerFits DEF Answers, JobOf, Job
<1>4. Accounted(query[t], Answer(t, r), <<>>, "hits")
  BY <1>3 DEF Accounted
<1>5. Job(pc'[t], query[t], todo[t], combined[t], missing[t], result'[t], records'[t], outcome'[t])
  BY <1>1, <1>2, <1>3, <1>4 DEF JobOf, Job, Label, Outcome
<1>6. QED BY <1>1, <1>2, <1>5, StayStep

LEMMA MergeStep ==
  ASSUME Inv, NEW t \in Tasks, Merge(t)
  PROVE  Inv'
<1>1. TypeOK /\ JobOf(t) /\ CachesFit'
  BY CachesStay DEF Inv, Merge
<1>2. CASE combined[t] = <<>>
  <2>1. /\ UNCHANGED <<query, todo, combined, missing, calls, result, records>>
        /\ \E o \in Outcome : o # "batch" /\ End(t, o)
    BY <1>2 DEF Merge, Outcome
  <2>2. QED BY <1>1, <2>1, StopStep
<1>3. CASE combined[t] # <<>>
  <2> DEFINE m == FirstK(Dedup(combined[t]))
  <2>1. /\ pc' = [pc EXCEPT ![t] = pc'[t]] /\ outcome' = [outcome EXCEPT ![t] = outcome'[t]]
        /\ result' = [result EXCEPT ![t] = result'[t]] /\ records' = [records EXCEPT ![t] = records'[t]]
        /\ pc[t] = "search" /\ result'[t] = m /\ records'[t] = records[t]
        /\ \/ pc'[t] = "idle" /\ outcome'[t] = "hits"
           \/ pc'[t] = "retrieve" /\ outcome'[t] = outcome[t]
        /\ UNCHANGED <<query, todo, combined, missing, calls>>
    BY <1>1, <1>3 DEF TypeOK, Merge, End, Goto
  <2>2. /\ query[t] \in Queries /\ Gathered(query[t], todo[t], combined[t])
        /\ Queued(query[t], todo[t]) /\ records[t] = <<>> /\ outcome[t] = "none"
    BY <1>1, <2>1 DEF JobOf, Job
  <2>3. Done(query[t], todo[t]) \in Nat
    BY <2>2, QueryFacts DEF Queued, Done
  <2>4. m \in Seq(Hit) /\ Merged(query[t], combined[t], m)
    BY <2>2, <2>3, MergeFirst
  <2> HIDE DEF m
  <2>5. Accounted(query[t], m, <<>>, "hits") /\ Accounted(query[t], m, <<>>, "none")
    BY <2>4 DEF Accounted
  <2>6. Job(pc'[t], query[t], todo[t], combined[t], missing[t], result'[t], records'[t], outcome'[t])
    BY <1>1, <2>1, <2>2, <2>4, <2>5 DEF JobOf, Job, Label, Outcome
  <2>7. QED BY <1>1, <2>1, <2>6, StayStep
<1>4. QED BY <1>2, <1>3

-----------------------------------------------------------------------------
(* The steps of retrieve(). *)

\* A task in retrieve() has something to fetch next.
LEMMA NextHit ==
  ASSUME Inv, NEW t \in Tasks, Len(records[t]) < Len(result[t])
  PROVE  NextUrl(t) \in Urls \cup {NoUrl}
<1>1. result[t] \in Seq(Hit) /\ records[t] \in Seq(Record)
  BY DEF Inv, JobOf, Job
<1>2. Len(records[t]) + 1 \in 1..Len(result[t])
  BY <1>1
<1>3. result[t][Len(records[t]) + 1] \in Hit
  BY <1>1, <1>2, ElementOfSeq
<1>4. QED BY <1>3 DEF NextUrl, Hit

\* A record is added, and the task goes on to the next hit.
LEMMA AddStep ==
  ASSUME Inv, NEW t \in Tasks, pc[t] \in {"retrieve", "fetch"}, Len(records[t]) < Len(result[t]),
         NEW k \in {"fetched", "cached", "error"}, k = "error" => query[t].partial,
         Add(t, NextUrl(t), k), pc' = [pc EXCEPT ![t] = "retrieve"],
         UNCHANGED <<query, todo, combined, missing, result, outcome, calls>>, CachesFit'
  PROVE  Inv'
<1>1. TypeOK /\ JobOf(t)
  BY DEF Inv
<1>2. /\ pc' = [pc EXCEPT ![t] = pc'[t]] /\ outcome' = [outcome EXCEPT ![t] = outcome'[t]]
      /\ result' = [result EXCEPT ![t] = result'[t]] /\ records' = [records EXCEPT ![t] = records'[t]]
      /\ pc'[t] = "retrieve" /\ outcome'[t] = outcome[t] /\ result'[t] = result[t]
      /\ records'[t] = Append(records[t], [url |-> result[t][Len(records[t]) + 1].url, kind |-> k])
  BY <1>1 DEF TypeOK, Add, NextUrl
<1>3. /\ result[t] \in Seq(Hit) /\ records[t] \in Seq(Record) /\ outcome[t] = "none"
      /\ Accounted(query[t], result[t], records[t], "none")
  BY <1>1 DEF JobOf, Job
<1>4. records'[t] \in Seq(Record) /\ Accounted(query[t], result[t], records'[t], "none")
  <2> DEFINE new == Append(records[t], [url |-> result[t][Len(records[t]) + 1].url, kind |-> k])
  <2>1. Len(records[t]) < Len(result[t]) /\ (k = "error" => query[t].partial) /\ records'[t] = new
    BY <1>2
  <2>2. new \in Seq(Record) /\ Accounted(query[t], result[t], new, "none")
    BY ONLY <1>3, <2>1, AddRecord, k \in {"fetched", "cached", "error"}
  <2>3. QED BY <1>3, <2>1, <2>2
<1>5. Job(pc'[t], query[t], todo[t], combined[t], missing[t], result'[t], records'[t], outcome'[t])
  BY <1>1, <1>2, <1>3, <1>4 DEF JobOf, Job, Label
<1>6. QED BY <1>2, <1>5, StayStep

LEMMA FetchStep ==
  ASSUME Inv, NEW t \in Tasks,
         \/ FetchCached(t) \/ Fetch(t) \/ Fetched(t) \/ FetchFails(t)
         \/ FetchCacheBreaks(t) \/ FetchStoreBreaks(t) \/ Return(t)
  PROVE  Inv'
<1>0. TypeOK /\ JobOf(t) /\ CachesFit
  BY DEF Inv
<1>1. CASE FetchCached(t)
  <2>1. /\ pc[t] = "retrieve" /\ Len(records[t]) < Len(result[t]) /\ Add(t, NextUrl(t), "cached")
        /\ pc' = [pc EXCEPT ![t] = "retrieve"] /\ CachesFit'
        /\ UNCHANGED <<query, todo, combined, missing, result, outcome, calls>>
    BY <1>0, <1>1, CachesStay DEF FetchCached, More, TypeOK
  <2>2. QED BY <2>1, AddStep
<1>2. CASE Fetch(t)
  <2>1. /\ pc' = [pc EXCEPT ![t] = pc'[t]] /\ outcome' = [outcome EXCEPT ![t] = outcome'[t]]
        /\ result' = [result EXCEPT ![t] = result'[t]] /\ records' = [records EXCEPT ![t] = records'[t]]
        /\ pc[t] = "retrieve" /\ Len(records[t]) < Len(result[t]) /\ pc'[t] = "fetch"
        /\ outcome'[t] = outcome[t] /\ result'[t] = result[t] /\ records'[t] = records[t]
        /\ UNCHANGED <<query, todo, combined, missing, calls>> /\ CachesFit'
    BY <1>0, <1>2, CachesStay DEF TypeOK, Fetch, More, Goto
  <2>2. Job(pc'[t], query[t], todo[t], combined[t], missing[t], result'[t], records'[t], outcome'[t])
    BY <1>0, <2>1 DEF JobOf, Job, Label
  <2>3. QED BY <2>1, <2>2, StayStep
<1>3. CASE Fetched(t)
  <2>1. pc[t] = "fetch" /\ Len(records[t]) < Len(result[t])
    BY <1>0, <1>3 DEF Fetched, JobOf, Job
  <2>2. NextUrl(t) \in Urls
    BY <1>3, <2>1, NextHit DEF Fetched
  <2>3. CachesFit'
    BY <1>0, <1>3, <2>2 DEF CachesFit, Fetched
  <2>4. /\ Add(t, NextUrl(t), "fetched") /\ pc' = [pc EXCEPT ![t] = "retrieve"]
        /\ UNCHANGED <<query, todo, combined, missing, result, outcome, calls>>
    BY <1>3 DEF Fetched, Goto
  <2>5. QED BY <2>1, <2>3, <2>4, AddStep
<1>4. CASE FetchFails(t) \/ FetchCacheBreaks(t) \/ FetchStoreBreaks(t)
  <2>0. CachesFit'
    <3>1. CASE UNCHANGED caches
      BY <3>1, CachesStay
    <3>2. CASE FetchStoreBreaks(t)
      <4>1. pc[t] = "fetch" /\ Len(records[t]) < Len(result[t])
        BY <1>0, <3>2 DEF FetchStoreBreaks, JobOf, Job
      <4>2. NextUrl(t) \in Urls
        BY <3>2, <4>1, NextHit DEF FetchStoreBreaks
      <4>3. QED BY <1>0, <3>2, <4>2 DEF CachesFit, FetchStoreBreaks
    <3>3. QED BY <1>4, <3>1, <3>2 DEF FetchFails, FetchCacheBreaks
  <2>1. /\ pc[t] \in {"retrieve", "fetch"} /\ Len(records[t]) < Len(result[t])
        /\ UNCHANGED <<query, todo, combined, missing, result, calls>> /\ Failed(t)
    BY <1>0, <1>4 DEF FetchFails, FetchCacheBreaks, FetchStoreBreaks, More, JobOf, Job
  <2>2. CASE query[t].partial
    <3>1. Add(t, NextUrl(t), "error") /\ pc' = [pc EXCEPT ![t] = "retrieve"] /\ UNCHANGED outcome
      BY <2>1, <2>2 DEF Failed, Goto
    <3>2. QED BY <2>0, <2>1, <2>2, <3>1, AddStep
  <2>3. CASE ~query[t].partial
    <3>1. /\ pc' = [pc EXCEPT ![t] = pc'[t]] /\ outcome' = [outcome EXCEPT ![t] = outcome'[t]]
          /\ result' = [result EXCEPT ![t] = result'[t]] /\ records' = [records EXCEPT ![t] = records'[t]]
          /\ pc'[t] = "idle" /\ outcome'[t] = "raised" /\ result'[t] = result[t] /\ records'[t] = <<>>
      BY <1>0, <2>1, <2>3 DEF TypeOK, Failed, End, Goto
    <3>2. result[t] \in Seq(Hit)
      BY <1>0 DEF JobOf, Job
    <3>3. Accounted(query[t], result[t], <<>>, "raised")
      BY <3>2 DEF Accounted
    <3>4. Job(pc'[t], query[t], todo[t], combined[t], missing[t], result'[t], records'[t], outcome'[t])
      BY <1>0, <3>1, <3>3 DEF JobOf, Job, Label, Outcome
    <3>5. QED BY <2>0, <2>1, <3>1, <3>4, StayStep
  <2>4. QED BY <2>2, <2>3
<1>5. CASE Return(t)
  <2>1. /\ pc' = [pc EXCEPT ![t] = pc'[t]] /\ outcome' = [outcome EXCEPT ![t] = outcome'[t]]
        /\ result' = [result EXCEPT ![t] = result'[t]] /\ records' = [records EXCEPT ![t] = records'[t]]
        /\ pc[t] = "retrieve" /\ Len(records[t]) = Len(result[t]) /\ pc'[t] = "idle"
        /\ outcome'[t] = "batch" /\ result'[t] = result[t] /\ records'[t] = records[t]
        /\ UNCHANGED <<query, todo, combined, missing, calls>> /\ CachesFit'
    BY <1>0, <1>5, CachesStay DEF TypeOK, Return, End, Goto
  <2>2. Job(pc'[t], query[t], todo[t], combined[t], missing[t], result'[t], records'[t], outcome'[t])
    BY <1>0, <2>1 DEF JobOf, Job, Label, Outcome, Accounted
  <2>3. QED BY <2>1, <2>2, StayStep
<1>6. QED BY <1>1, <1>2, <1>3, <1>4, <1>5

LEMMA ForgetStep ==
  ASSUME Inv, Forget
  PROVE  Inv'
<1>1. UNCHANGED <<pc, query, todo, combined, missing, result, records, outcome, calls>>
  BY DEF Forget
<1>2. CachesFit'
  <2>1. CASE UNCHANGED searchCache /\ fetchCache' \subseteq fetchCache
    BY <2>1 DEF Inv, CachesFit
  <2>2. CASE UNCHANGED fetchCache /\ \E k \in Keys : searchCache' = [searchCache EXCEPT ![k] = <<>>]
    <3>1. PICK k \in Keys : searchCache' = [searchCache EXCEPT ![k] = <<>>]
      BY <2>2
    <3>2. QED BY <2>2, <3>1, ForgetsSlot
  <2>3. QED BY <2>1, <2>2 DEF Forget
<1>3. TypeOK'
  BY <1>1, <1>2 DEF Inv, TypeOK, CachesFit
<1>4. QED BY <1>1, <1>2, <1>3 DEF Inv, JobOf

LEMMA NextInv == Inv /\ [Next]_vars => Inv'
<1> SUFFICES ASSUME Inv, [Next]_vars PROVE Inv'
  OBVIOUS
<1>1. ASSUME NEW t \in Tasks, NEW q \in Queries, StartCall(t, q) PROVE Inv'
  BY <1>1, StartStep
<1>2. ASSUME NEW t \in Tasks, Step(t) PROVE Inv'
  <2>1. ASSUME NEW r \in Responses,
               \/ ProviderAnswers(t, r) \/ ProviderFails(t, r) \/ ProviderBreaks(t, r)
               \/ StorageBreaks(t, r) \/ ToolAnswers(t, r) \/ ToolFails(t, r)
        PROVE  Inv'
    BY <2>1, AnswersStep, FailsStep, BreaksStep, ToolStep
  <2>2. ASSUME CacheBreaks(t) PROVE Inv'
    <3>1. /\ UNCHANGED <<query, todo, combined, missing, calls, result, records>> /\ CachesFit'
          /\ End(t, "raised")
      BY <2>2, CachesStay DEF CacheBreaks
    <3>2. QED BY <3>1, StopStep DEF Outcome
  <2>3. QED BY <1>2, <2>1, <2>2, CachedStep, NoAdapterStep, AskStep, MergeStep, FetchStep DEF Step
<1>3. ASSUME NEW t \in Tasks, Cancel(t) PROVE Inv'
  <2>1. /\ UNCHANGED <<query, todo, combined, missing, calls, result, records>> /\ CachesFit'
        /\ End(t, "cancelled")
    BY <1>3, CachesStay DEF Cancel
  <2>2. QED BY <2>1, StopStep DEF Outcome
<1>4. CASE UNCHANGED vars
  BY <1>4 DEF Inv, TypeOK, CachesFit, JobOf, vars, caches
<1>5. QED BY <1>1, <1>2, <1>3, <1>4, ForgetStep DEF Next

\* The inductive invariant of search() and retrieve(): types; the hits in the
\* search cache answer their key; and what a task has gathered is in order.
THEOREM Invariance == Spec => []Inv
<1>1. Inv /\ [Next]_vars => Inv'
  BY NextInv
<1>2. QED BY InitInv, <1>1, PTL DEF Spec

\* Every variable of the client keeps its type, for any tasks, providers,
\* queries and responses.
THEOREM TypeCorrect == Spec => []TypeOK
<1>1. Inv => TypeOK
  BY DEF Inv
<1>2. QED BY Invariance, <1>1, PTL

\* The result of search() lists each URL once, under the first provider of the
\* query that offered it, in the order of the providers, and leaves none out
\* below top_k, whether hits came from a cache or an adapter.
THEOREM HitsAreMergedByPriority == Spec => []MergedByPriority
<1>1. Inv => MergedByPriority
  <2> SUFFICES ASSUME Inv, NEW t \in Tasks, result[t] # <<>>, query[t].op # "tool"
               PROVE  /\ Len(result[t]) <= TopK
                      /\ Len(result[t]) < TopK => Urlset(result[t]) = Urlset(combined[t])
                      /\ \A i, j \in DOMAIN result[t] : i < j =>
                           /\ result[t][i].url # result[t][j].url
                           /\ Rank(t, result[t][i].by) <= Rank(t, result[t][j].by)
                           /\ result[t][i].by = result[t][j].by => result[t][i].rank < result[t][j].rank
                      /\ \A i \in DOMAIN result[t], j \in DOMAIN combined[t] :
                           combined[t][j].url = result[t][i].url =>
                             Rank(t, result[t][i].by) <= Rank(t, combined[t][j].by)
    BY DEF MergedByPriority
  <2>1. Merged(query[t], combined[t], result[t])
    BY DEF Inv, JobOf, Job
  <2>2. \A p : Rank(t, p) = Place(query[t], p)
    BY DEF Rank, Place
  <2>3. QED BY <2>1, <2>2 DEF Merged
<1>2. QED BY Invariance, <1>1, PTL

\* retrieve() accounts for every hit: the i-th record is about the i-th hit, a
\* returned batch has one for each, and only a partial batch has failures.
THEOREM BatchesAccountForHits == Spec => []BatchAccountsForHits
<1>1. Inv => BatchAccountsForHits
  BY DEF Inv, JobOf, Job, Accounted, BatchAccountsForHits
<1>2. QED BY Invariance, <1>1, PTL

\* A hit was found under the controls of the query it is given for, as far as
\* its provider honours them, also when another task's query brought it.
THEOREM HitsFit == Spec => []HitsFitTheControls
<1>1. Inv => HitsFitTheControls
  BY DEF Inv, JobOf, Job, Gathered, Fits, Unkeyed, HitsFitTheControls
<1>2. QED BY Invariance, <1>1, PTL

\* A late, empty, failed or cancelled answer takes nothing out of the caches: an
\* entry that is not forgotten is lost only to the failing write of a task that
\* was storing under its key, whose call says that it failed.
THEOREM CachesAreKept == Spec => LateAnswersKeepCaches
<1> DEFINE Blamed(k) == \E t \in Tasks : Asking(t) /\ Slot(t) = k /\ outcome'[t] = "runtime_error"
           Missed(u) == \E t \in Tasks : pc[t] = "fetch" /\ NextUrl(t) = u /\ Failed(t)
<1>1. Inv /\ [Next]_vars =>
        (~Forget => /\ \A k \in Keys : searchCache[k] # <<>> /\ searchCache'[k] = <<>> => Blamed(k)
                    /\ \A u \in fetchCache \ fetchCache' : Missed(u))
  <2> SUFFICES ASSUME Inv, [Next]_vars, ~Forget
               PROVE  /\ \A k \in Keys : searchCache[k] # <<>> /\ searchCache'[k] = <<>> => Blamed(k)
                      /\ \A u \in fetchCache \ fetchCache' : Missed(u)
    OBVIOUS
  <2>1. CASE UNCHANGED caches
    BY <2>1 DEF caches
  <2>2. ASSUME NEW t \in Tasks, Fetched(t) PROVE fetchCache \subseteq fetchCache' /\ UNCHANGED searchCache
    BY <2>2 DEF Fetched
  <2>3. ASSUME NEW t \in Tasks, FetchStoreBreaks(t)
        PROVE  UNCHANGED searchCache /\ \A u \in fetchCache \ fetchCache' : Missed(u)
    BY <2>3 DEF FetchStoreBreaks
  <2>4. ASSUME NEW hs, hs # <<>>, NEW t \in Tasks, Store(t, hs), NEW k \in Keys, searchCache[k] # <<>>
        PROVE  searchCache'[k] # <<>>
    BY <2>4 DEF Inv, CachesFit, Store
  <2>5. ASSUME NEW t \in Tasks, NEW r \in Responses, ProviderAnswers(t, r)
        PROVE  /\ UNCHANGED fetchCache
               /\ UNCHANGED searchCache \/ (Answer(t, r) # <<>> /\ Store(t, Answer(t, r)))
    BY <2>5 DEF ProviderAnswers, Store
  <2>6. ASSUME NEW t \in Tasks, NEW r \in Responses, StorageBreaks(t, r), NEW k \in Keys,
               searchCache[k] # <<>>, searchCache'[k] = <<>>
        PROVE  Blamed(k)
    <3>1. \/ UNCHANGED searchCache \/ (Answer(t, r) # <<>> /\ Store(t, Answer(t, r)))
          \/ Spoil(t) /\ Asking(t) /\ End(t, "runtime_error")
      BY <2>6 DEF StorageBreaks, Store
    <3>2. Spoil(t) /\ Asking(t) /\ End(t, "runtime_error")
      BY <2>4, <2>6, <3>1
    <3>3. Slot(t) = k
      BY <2>6, <3>2 DEF Spoil, Inv, CachesFit
    <3>4. outcome'[t] = "runtime_error"
      BY <3>2 DEF End, Inv, TypeOK
    <3>5. QED BY <3>2, <3>3, <3>4
  <2>7. ASSUME NEW t \in Tasks, NEW r \in Responses, StorageBreaks(t, r)
        PROVE  UNCHANGED fetchCache
    BY <2>7 DEF StorageBreaks
  <2>8. \/ UNCHANGED caches \/ \E t \in Tasks : Fetched(t) \/ FetchStoreBreaks(t)
        \/ \E t \in Tasks, r \in Responses : ProviderAnswers(t, r) \/ StorageBreaks(t, r)
    BY DEF Next, Step, StartCall, SearchCached, CacheBreaks, NoAdapter, Ask, Merge, ProviderFails,
           ProviderBreaks, ToolAnswers, ToolFails, FetchCached, Fetch, FetchFails, FetchCacheBreaks,
           Return, Cancel, vars
  <2> HIDE DEF Blamed, Missed
  <2>9. QED BY <2>1, <2>2, <2>3, <2>4, <2>5, <2>6, <2>7, <2>8
<1>2. QED BY Invariance, <1>1, PTL DEF Spec, LateAnswersKeepCaches

=============================================================================
