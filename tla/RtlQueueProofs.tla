--------------------------- MODULE RtlQueueProofs ---------------------------
(***************************************************************************)
(* What the operations of a queue do to the set of nodes linked into it,   *)
(* and the least of a set of numbers, which searches rest on.              *)
(***************************************************************************)
EXTENDS RtlQueue, SequenceTheorems, WellFoundedInduction, TLAPS

(* The smallest number of a set, without an induction principle.           *)
LEMMA LeastElement ==
  ASSUME NEW S \in SUBSET Nat, S # {}
  PROVE  \E n \in S : \A m \in S : n <= m
<1>1. PICK n \in S : \A m \in S : ~(<< m, n >> \in OpToRel(<, Nat))
  BY NatLessThanWellFounded, WFMin
<1>2. \A m \in S : ~(m < n)
  BY <1>1, Zenon DEF OpToRel
<1> QED BY <1>2

(* Removing a position keeps the other elements, in their order.           *)
LEMMA RemoveAtProperties ==
  ASSUME NEW Item, NEW s \in Seq(Item), NEW k \in 1 .. Len(s)
  PROVE  /\ RemoveAt(s, k) \in Seq(Item)
         /\ Len(RemoveAt(s, k)) = Len(s) - 1
         /\ \A j \in 1 .. Len(s) - 1 :
              RemoveAt(s, k)[j] = IF j < k THEN s[j] ELSE s[j + 1]
<1> DEFINE u == SubSeq(s, 1, k - 1)
           v == SubSeq(s, k + 1, Len(s))
<1>1. Len(s) \in Nat /\ \A j \in 1 .. Len(s) : s[j] \in Item
  BY LenProperties, ElementOfSeq
<1>2. /\ u \in Seq(Item)
      /\ Len(u) = k - 1
      /\ \A j \in 1 .. k - 1 : u[j] = s[j]
  <2>1. \A j \in 1 .. k - 1 : s[j] \in Item
    BY <1>1
  <2>2. /\ u \in Seq(Item)
        /\ Len(u) = IF 1 <= k - 1 THEN k - 1 - 1 + 1 ELSE 0
        /\ \A j \in 1 .. k - 1 - 1 + 1 : u[j] = s[1 + j - 1]
    BY <2>1, SubSeqProperties
  <2>3. \A j \in 1 .. k - 1 : j \in 1 .. k - 1 - 1 + 1 /\ 1 + j - 1 = j
    BY <1>1
  <2> QED BY <2>2, <2>3, <1>1
<1>3. /\ v \in Seq(Item)
      /\ Len(v) = Len(s) - k
      /\ \A j \in 1 .. Len(s) - k : v[j] = s[k + j]
  <2>1. \A j \in k + 1 .. Len(s) : s[j] \in Item
    BY <1>1
  <2>2. /\ v \in Seq(Item)
        /\ Len(v) = IF k + 1 <= Len(s) THEN Len(s) - (k + 1) + 1 ELSE 0
        /\ \A j \in 1 .. Len(s) - (k + 1) + 1 : v[j] = s[k + 1 + j - 1]
    BY <2>1, <1>1, SubSeqProperties
  <2>3. \A j \in 1 .. Len(s) - k :
          j \in 1 .. Len(s) - (k + 1) + 1 /\ k + 1 + j - 1 = k + j
    BY <1>1
  <2> QED BY <2>2, <2>3, <1>1
<1> HIDE DEF u, v
<1>4. /\ u \o v \in Seq(Item)
      /\ Len(u \o v) = Len(u) + Len(v)
      /\ \A j \in 1 .. Len(u) + Len(v) :
           (u \o v)[j] = IF j <= Len(u) THEN u[j] ELSE v[j - Len(u)]
  BY <1>2, <1>3, ConcatProperties
<1>5. \A j \in 1 .. Len(s) - 1 :
        (u \o v)[j] = IF j < k THEN s[j] ELSE s[j + 1]
  <2> TAKE j \in 1 .. Len(s) - 1
  <2>1. (u \o v)[j] = IF j <= k - 1 THEN u[j] ELSE v[j - (k - 1)]
    BY <1>1, <1>2, <1>3, <1>4
  <2>2. CASE j < k
    BY <2>1, <2>2, <1>1, <1>2
  <2>3. CASE ~(j < k)
    <3>1. j - (k - 1) \in 1 .. Len(s) - k /\ k + (j - (k - 1)) = j + 1
      BY <2>3, <1>1
    <3> QED BY <2>1, <2>3, <3>1, <1>1, <1>3
  <2> QED BY <2>2, <2>3
<1>6. RemoveAt(s, k) = u \o v
  BY DEF RemoveAt, u, v
<1>7. Len(u \o v) = Len(s) - 1
  BY <1>1, <1>2, <1>3, <1>4
<1> QED BY <1>4, <1>5, <1>6, <1>7, Zenon

(* Inserting at a position keeps the elements that there were, in order.   *)
LEMMA InsertAtProperties ==
  ASSUME NEW Item, NEW s \in Seq(Item), NEW k \in 1 .. Len(s) + 1, NEW x \in Item
  PROVE  /\ InsertAt(s, k, x) \in Seq(Item)
         /\ Len(InsertAt(s, k, x)) = Len(s) + 1
         /\ \A j \in 1 .. Len(s) + 1 :
              InsertAt(s, k, x)[j] = IF j < k THEN s[j]
                                     ELSE IF j = k THEN x ELSE s[j - 1]
<1> DEFINE u == SubSeq(s, 1, k - 1)
           v == SubSeq(s, k, Len(s))
<1>1. Len(s) \in Nat /\ \A j \in 1 .. Len(s) : s[j] \in Item
  BY LenProperties, ElementOfSeq
<1>2. /\ u \in Seq(Item)
      /\ Len(u) = k - 1
      /\ \A j \in 1 .. k - 1 : u[j] = s[j]
  <2>1. \A j \in 1 .. k - 1 : s[j] \in Item
    BY <1>1
  <2>2. /\ u \in Seq(Item)
        /\ Len(u) = IF 1 <= k - 1 THEN k - 1 - 1 + 1 ELSE 0
        /\ \A j \in 1 .. k - 1 - 1 + 1 : u[j] = s[1 + j - 1]
    BY <2>1, SubSeqProperties
  <2>3. \A j \in 1 .. k - 1 : j \in 1 .. k - 1 - 1 + 1 /\ 1 + j - 1 = j
    BY <1>1
  <2> QED BY <2>2, <2>3, <1>1
<1>3. /\ v \in Seq(Item)
      /\ Len(v) = Len(s) - k + 1
      /\ \A j \in 1 .. Len(s) - k + 1 : v[j] = s[k + j - 1]
  <2>1. \A j \in k .. Len(s) : s[j] \in Item
    BY <1>1
  <2>2. /\ v \in Seq(Item)
        /\ Len(v) = IF k <= Len(s) THEN Len(s) - k + 1 ELSE 0
        /\ \A j \in 1 .. Len(s) - k + 1 : v[j] = s[k + j - 1]
    BY <2>1, <1>1, SubSeqProperties
  <2> QED BY <2>2, <1>1
<1> DEFINE w == << x >>
<1>4. w \in Seq(Item) /\ Len(w) = 1 /\ w[1] = x
  OBVIOUS
<1> HIDE DEF u, v, w
<1>5. /\ u \o w \in Seq(Item)
      /\ Len(u \o w) = k
      /\ \A j \in 1 .. k : (u \o w)[j] = IF j < k THEN s[j] ELSE x
  <2>1. /\ u \o w \in Seq(Item)
        /\ Len(u \o w) = Len(u) + Len(w)
        /\ \A j \in 1 .. Len(u) + Len(w) :
             (u \o w)[j] = IF j <= Len(u) THEN u[j] ELSE w[j - Len(u)]
    BY <1>2, <1>4, ConcatProperties
  <2>2. \A j \in 1 .. k : (u \o w)[j] = IF j < k THEN u[j] ELSE w[1]
    <3> TAKE j \in 1 .. k
    <3>1. (u \o w)[j] = IF j <= k - 1 THEN u[j] ELSE w[j - (k - 1)]
      BY <2>1, <1>2, <1>4
    <3>2. CASE j < k
      BY <3>1, <3>2
    <3>3. CASE j = k
      <4>1. j - (k - 1) = 1 /\ ~(j <= k - 1)
        BY <3>3
      <4> QED BY <3>1, <3>3, <4>1
    <3>4. j < k \/ j = k
      BY <1>1
    <3> QED BY <3>2, <3>3, <3>4
  <2> QED BY <2>1, <2>2, <1>2, <1>4
<1> DEFINE y == u \o w
<1> HIDE DEF y
<1>6. /\ y \o v \in Seq(Item)
      /\ Len(y \o v) = Len(y) + Len(v)
      /\ \A j \in 1 .. Len(y) + Len(v) :
           (y \o v)[j] = IF j <= Len(y) THEN y[j] ELSE v[j - Len(y)]
  <2>1. y \in Seq(Item) /\ v \in Seq(Item)
    BY <1>5, <1>3 DEF y
  <2> QED BY <2>1, ConcatProperties
<1>7. \A j \in 1 .. Len(s) + 1 :
        (y \o v)[j] = IF j < k THEN s[j] ELSE IF j = k THEN x ELSE s[j - 1]
  <2> TAKE j \in 1 .. Len(s) + 1
  <2>1. Len(y) = k
    BY <1>5 DEF y
  <2>2. (y \o v)[j] = IF j <= k THEN y[j] ELSE v[j - k]
    BY <1>1, <1>3, <1>6, <2>1
  <2>3. CASE j <= k
    <3>1. j \in 1 .. k
      BY <2>3
    <3>2. y[j] = IF j < k THEN s[j] ELSE x
      BY <3>1, <1>5 DEF y
    <3> QED BY <2>2, <2>3, <3>2
  <2>4. CASE ~(j <= k)
    <3>1. j - k \in 1 .. Len(s) - k + 1 /\ k + (j - k) - 1 = j - 1
      BY <2>4, <1>1
    <3> QED BY <2>2, <2>4, <3>1, <1>1, <1>3
  <2> QED BY <2>3, <2>4
<1>8. InsertAt(s, k, x) = y \o v
  BY DEF InsertAt, y, u, v, w
<1>9. Len(y \o v) = Len(s) + 1
  <2>1. Len(y) = k
    BY <1>5 DEF y
  <2> QED BY <2>1, <1>1, <1>3, <1>6
<1> QED BY <1>6, <1>7, <1>8, <1>9, Zenon

(* rtl_queue_remove unlinks the item and nothing else.                     *)
LEMMA UnlinkProperties ==
  ASSUME NEW Item, NEW s \in Seq(Item), NEW i \in Item, IsInjective(s)
  PROVE  /\ Unlink(s, i) \in Seq(Item)
         /\ IsInjective(Unlink(s, i))
         /\ \A j \in Item :
              Linked(Unlink(s, i), j) <=> Linked(s, j) /\ j # i
<1>1. CASE ~Linked(s, i)
  BY <1>1 DEF Unlink, Linked
<1>2. CASE Linked(s, i)
  <2> DEFINE k == CHOOSE n \in 1 .. Len(s) : s[n] = i
             t == RemoveAt(s, k)
  <2>1. k \in 1 .. Len(s) /\ s[k] = i
    BY <1>2 DEF Linked
  <2>2. Unlink(s, i) = t
    BY <1>2 DEF Unlink
  <2> HIDE DEF k
  <2>3. /\ t \in Seq(Item)
        /\ Len(t) = Len(s) - 1
        /\ \A j \in 1 .. Len(s) - 1 : t[j] = IF j < k THEN s[j] ELSE s[j + 1]
    BY <2>1, RemoveAtProperties
  <2> HIDE DEF t
  <2>4. Len(s) \in Nat /\ DOMAIN s = 1 .. Len(s) /\ DOMAIN t = 1 .. Len(t)
    BY <2>3, LenProperties
  <2>5. \A m, n \in 1 .. Len(s) : s[m] = s[n] => m = n
    BY <2>4 DEF IsInjective
  <2>6. IsInjective(t)
    <3> SUFFICES ASSUME NEW m \in 1 .. Len(t), NEW n \in 1 .. Len(t),
                        t[m] = t[n]
                 PROVE  m = n
      BY <2>4 DEF IsInjective
    <3>1. /\ m \in 1 .. Len(s) /\ m + 1 \in 1 .. Len(s)
          /\ n \in 1 .. Len(s) /\ n + 1 \in 1 .. Len(s)
      BY <2>3, <2>4
    <3>2. (IF m < k THEN s[m] ELSE s[m + 1]) = (IF n < k THEN s[n] ELSE s[n + 1])
      BY <2>3
    <3> QED BY <3>1, <3>2, <2>1, <2>4, <2>5
  <2>7. ASSUME NEW j \in Item
        PROVE  Linked(t, j) <=> Linked(s, j) /\ j # i
    <3>1. ASSUME Linked(t, j) PROVE Linked(s, j) /\ j # i
      <4>1. PICK m \in 1 .. Len(t) : t[m] = j
        BY <3>1 DEF Linked
      <4>2. PICK n \in 1 .. Len(s) : n # k /\ s[n] = j
        <5>1. CASE m < k
          BY <5>1, <4>1, <2>1, <2>3, <2>4
        <5>2. CASE ~(m < k)
          BY <5>2, <4>1, <2>1, <2>3, <2>4
        <5> QED BY <5>1, <5>2
      <4> QED BY <4>2, <2>1, <2>5 DEF Linked
    <3>2. ASSUME Linked(s, j), j # i PROVE Linked(t, j)
      <4>1. PICK n \in 1 .. Len(s) : s[n] = j
        BY <3>2 DEF Linked
      <4>2. n # k
        BY <4>1, <3>2, <2>1
      <4>3. CASE n < k
        <5>1. n \in 1 .. Len(s) - 1 /\ t[n] = s[n]
          BY <4>3, <2>1, <2>3, <2>4
        <5> QED BY <5>1, <4>1, <2>3 DEF Linked
      <4>4. CASE n > k
        <5>1. n - 1 \in 1 .. Len(s) - 1 /\ ~(n - 1 < k) /\ n - 1 + 1 = n
          BY <4>4, <2>1, <2>4
        <5>2. t[n - 1] = s[n]
          BY <5>1, <2>3
        <5> QED BY <5>1, <5>2, <4>1, <2>3 DEF Linked
      <4> QED BY <4>2, <4>3, <4>4, <2>1, <2>4
    <3> QED BY <3>1, <3>2
  <2> QED BY <2>2, <2>3, <2>6, <2>7
<1> QED BY <1>1, <1>2

(* A queue is shorter by one if the item was in it.                        *)
LEMMA UnlinkLength ==
  ASSUME NEW Item, NEW s \in Seq(Item), NEW i \in Item
  PROVE  Len(Unlink(s, i)) = IF Linked(s, i) THEN Len(s) - 1 ELSE Len(s)
<1>1. CASE ~Linked(s, i)
  BY <1>1 DEF Unlink
<1>2. CASE Linked(s, i)
  <2> DEFINE k == CHOOSE n \in 1 .. Len(s) : s[n] = i
  <2>1. k \in 1 .. Len(s)
    BY <1>2 DEF Linked
  <2>2. Unlink(s, i) = RemoveAt(s, k)
    BY <1>2 DEF Unlink
  <2> HIDE DEF k
  <2> QED BY <1>2, <2>1, <2>2, RemoveAtProperties
<1> QED BY <1>1, <1>2

(* rtl_enqueue links the item, at the end.                                 *)
LEMMA AppendLinks ==
  ASSUME NEW Item, NEW s \in Seq(Item), NEW i \in Item
  PROVE  /\ Append(s, i) \in Seq(Item)
         /\ Append(s, i) # << >>
         /\ \A j \in Item : Linked(Append(s, i), j) <=> Linked(s, j) \/ j = i
         /\ IsInjective(s) /\ ~Linked(s, i) => IsInjective(Append(s, i))
<1> DEFINE t == Append(s, i)
<1>1. /\ t \in Seq(Item) /\ t # << >>
      /\ Len(t) = Len(s) + 1
      /\ \A k \in 1 .. Len(s) : t[k] = s[k]
      /\ t[Len(s) + 1] = i
  BY AppendProperties
<1> HIDE DEF t
<1>2. Len(s) \in Nat /\ DOMAIN s = 1 .. Len(s) /\ DOMAIN t = 1 .. Len(t)
  BY <1>1, LenProperties
<1>3. \A j \in Item : Linked(t, j) <=> Linked(s, j) \/ j = i
  BY <1>1, <1>2 DEF Linked
<1>4. IsInjective(s) /\ ~Linked(s, i) => IsInjective(t)
  BY <1>1, <1>2 DEF IsInjective, Linked
<1> QED BY <1>1, <1>3, <1>4 DEF t

(* Unlinking several items unlinks them and nothing else.                  *)
LEMMA UnlinkAllProperties ==
  ASSUME NEW Item, NEW s \in Seq(Item), NEW S, IsInjective(s)
  PROVE  /\ UnlinkAll(s, S) \in Seq(Item)
         /\ IsInjective(UnlinkAll(s, S))
         /\ \A j \in Item :
              Linked(UnlinkAll(s, S), j) <=> Linked(s, j) /\ j \notin S
<1> DEFINE N == Len(s)
           Step(x, k) == IF s[k] \in S THEN x ELSE Append(x, s[k])
           Scan(n, g) == /\ g \in [0 .. n -> Seq(Item)]
                         /\ g[0] = << >>
                         /\ \A k \in 1 .. n : g[k] = Step(g[k - 1], k)
<1>1. /\ N \in Nat /\ DOMAIN s = 1 .. N
      /\ \A k \in 1 .. N : s[k] \in Item
      /\ \A j, k \in 1 .. N : s[j] = s[k] => j = k
  BY LenProperties, ElementOfSeq DEF IsInjective
<1> HIDE DEF N
<1>2. \A x \in Seq(Item), k \in 1 .. N : Step(x, k) \in Seq(Item)
  BY <1>1, AppendProperties
<1> HIDE DEF Step, Scan
<1>3. \A n \in 0 .. N : \E g : Scan(n, g)
  <2> DEFINE Bad == {n \in 0 .. N : ~\E g : Scan(n, g)}
  <2> SUFFICES ASSUME Bad # {} PROVE FALSE
    OBVIOUS
  <2>1. PICK n \in Bad : \A m \in Bad : n <= m
    <3>1. Bad \in SUBSET Nat
      BY <1>1
    <3> HIDE DEF Bad
    <3> QED BY <3>1, LeastElement
  <2>2. n # 0
    <3>1. Scan(0, [k \in 0 .. 0 |-> << >>])
      BY EmptySeq DEF Scan
    <3> QED BY <3>1
  <2>3. n \in 1 .. N /\ n - 1 \in 0 .. N /\ n - 1 \notin Bad
    BY <2>1, <2>2, <1>1
  <2>4. PICK g : Scan(n - 1, g)
    BY <2>3
  <2> DEFINE h == [k \in 0 .. n |-> IF k = n THEN Step(g[n - 1], n) ELSE g[k]]
  <2>5. Step(g[n - 1], n) \in Seq(Item)
    BY <2>3, <2>4, <1>2 DEF Scan
  <2>6. /\ g \in [0 .. n - 1 -> Seq(Item)] /\ g[0] = << >>
        /\ \A k \in 1 .. n - 1 : g[k] = Step(g[k - 1], k)
    BY <2>4 DEF Scan
  <2>7. /\ n \in Nat /\ 0 \in 0 .. n /\ 0 # n
        /\ \A k \in 0 .. n : k # n => k \in 0 .. n - 1
        /\ \A k \in 1 .. n : /\ k \in 0 .. n /\ k - 1 \in 0 .. n /\ k - 1 # n
                            /\ k # n => k \in 1 .. n - 1
    BY <2>3, <1>1
  <2>8. h \in [0 .. n -> Seq(Item)] /\ h[0] = << >>
    BY <2>5, <2>6, <2>7
  <2>9. ASSUME NEW k \in 1 .. n PROVE h[k] = Step(h[k - 1], k)
    BY <2>6, <2>7
  <2>10. Scan(n, h)
    BY <2>8, <2>9 DEF Scan
  <2> QED BY <2>1, <2>10
<1>4. PICK g : Scan(N, g)
  BY <1>1, <1>3
<1> DEFINE body(f) == [k \in 0 .. N |->
                         IF k = 0 THEN << >>
                         ELSE IF s[k] \in S THEN f[k - 1]
                              ELSE Append(f[k - 1], s[k])]
           rest == CHOOSE f : f = body(f)
<1>5. g = body(g)
  <2>1. ASSUME NEW k \in 0 .. N PROVE g[k] = body(g)[k]
    <3>1. CASE k = 0
      BY <1>4, <3>1 DEF Scan
    <3>2. CASE k # 0
      <4>1. k \in 1 .. N
        BY <1>1, <3>2
      <4>2. g[k] = Step(g[k - 1], k)
        BY <1>4, <4>1 DEF Scan
      <4> QED BY <3>2, <4>2 DEF Step
    <3> QED BY <3>1, <3>2
  <2> QED BY <2>1, <1>4 DEF Scan
<1>6. rest = body(rest)
  BY <1>5
<1>7. UnlinkAll(s, S) = rest[N]
  BY DEF UnlinkAll, N
<1> HIDE DEF rest
<1>8. /\ rest[0] = << >>
      /\ \A k \in 1 .. N : rest[k] = Step(rest[k - 1], k)
  <2>1. \A k \in 0 .. N : body(rest)[k] =
          IF k = 0 THEN << >>
          ELSE IF s[k] \in S THEN rest[k - 1] ELSE Append(rest[k - 1], s[k])
    OBVIOUS
  <2> HIDE DEF body
  <2>2. \A k \in 0 .. N : rest[k] =
          IF k = 0 THEN << >>
          ELSE IF s[k] \in S THEN rest[k - 1] ELSE Append(rest[k - 1], s[k])
    BY <1>6, <2>1
  <2> QED BY <2>2, <1>1 DEF Step
<1> HIDE DEF body
<1> DEFINE Left(n) ==
             /\ rest[n] \in Seq(Item)
             /\ IsInjective(rest[n])
             /\ \A j \in Item : Linked(rest[n], j) <=>
                                  j \notin S /\ \E k \in 1 .. n : s[k] = j
<1> HIDE DEF Left
<1>9. \A n \in 0 .. N : Left(n)
  <2> DEFINE Bad == {n \in 0 .. N : ~Left(n)}
  <2> SUFFICES ASSUME Bad # {} PROVE FALSE
    OBVIOUS
  <2>1. PICK n \in Bad : \A m \in Bad : n <= m
    <3>1. Bad \in SUBSET Nat
      BY <1>1
    <3> HIDE DEF Bad
    <3> QED BY <3>1, LeastElement
  <2>2. n # 0
    <3>1. Left(0)
      BY <1>8, EmptySeq DEF Left, IsInjective, Linked
    <3> QED BY <3>1
  <2>3. n \in 1 .. N /\ n - 1 \in 0 .. N /\ Left(n - 1)
    BY <2>1, <2>2, <1>1
  <2>4. /\ s[n] \in Item /\ rest[n] = Step(rest[n - 1], n)
        /\ \A k \in 1 .. n : k \in 1 .. n - 1 \/ k = n
        /\ \A k \in 1 .. n - 1 : k \in 1 .. n /\ s[k] # s[n]
    BY <2>3, <1>1, <1>8
  <2>5. CASE s[n] \in S
    BY <2>1, <2>3, <2>4, <2>5 DEF Left, Step
  <2>6. CASE s[n] \notin S
    <3>1. rest[n] = Append(rest[n - 1], s[n])
      BY <2>4, <2>6 DEF Step
    <3>2. ~Linked(rest[n - 1], s[n])
      BY <2>3, <2>4 DEF Left
    <3>3. /\ Append(rest[n - 1], s[n]) \in Seq(Item)
          /\ IsInjective(Append(rest[n - 1], s[n]))
          /\ \A j \in Item : Linked(Append(rest[n - 1], s[n]), j) <=>
                               Linked(rest[n - 1], j) \/ j = s[n]
      BY <2>3, <2>4, <3>2, AppendLinks DEF Left
    <3>4. Left(n)
      BY <2>3, <2>4, <2>6, <3>1, <3>3 DEF Left
    <3> QED BY <2>1, <3>4
  <2> QED BY <2>5, <2>6
<1>10. Left(N)
  BY <1>1, <1>9
<1>11. \A j \in Item : Linked(s, j) <=> \E k \in 1 .. N : s[k] = j
  BY DEF Linked, N
<1> QED BY <1>7, <1>10, <1>11 DEF Left

(* A queue is empty exactly when nothing is linked into it; otherwise its  *)
(* first node is an item.                                                  *)
LEMMA EmptyQueue ==
  ASSUME NEW Item, NEW s \in Seq(Item)
  PROVE  /\ s = << >> <=> \A j \in Item : ~Linked(s, j)
         /\ s # << >> => Head(s) \in Item /\ Linked(s, Head(s))
<1>1. Len(s) \in Nat /\ \A k \in 1 .. Len(s) : s[k] \in Item
  BY LenProperties, ElementOfSeq
<1>2. s # << >> => Head(s) = s[1] /\ Len(s) # 0
  BY EmptySeq
<1>3. s = << >> => Len(s) = 0
  BY EmptySeq
<1> QED BY <1>1, <1>2, <1>3 DEF Linked

(* The first node leaves the list.                                         *)
LEMMA TailLinks ==
  ASSUME NEW Item, NEW s \in Seq(Item), s # << >>, IsInjective(s)
  PROVE  /\ Head(s) \in Item /\ Linked(s, Head(s))
         /\ Tail(s) \in Seq(Item) /\ IsInjective(Tail(s))
         /\ \A j \in Item : Linked(Tail(s), j) <=> Linked(s, j) /\ j # Head(s)
<1> DEFINE t == Tail(s)
<1>1. /\ Head(s) \in Item /\ t \in Seq(Item) /\ Len(t) = Len(s) - 1
      /\ \A i \in 1 .. Len(t) : t[i] = s[i + 1]
  BY HeadTailProperties
<1>2. Len(s) \in Nat \ {0} /\ DOMAIN s = 1 .. Len(s) /\ DOMAIN t = 1 .. Len(t)
  BY <1>1, LenProperties, EmptySeq
<1>3. Head(s) = s[1]
  BY <1>2
<1>4. \A i, j \in 1 .. Len(s) : s[i] = s[j] => i = j
  BY <1>2 DEF IsInjective
<1> HIDE DEF t
<1>5. IsInjective(t)
  <2>1. ASSUME NEW i \in 1 .. Len(t), NEW j \in 1 .. Len(t), t[i] = t[j]
        PROVE  i = j
    <3>1. i + 1 \in 1 .. Len(s) /\ j + 1 \in 1 .. Len(s)
      BY <1>1, <1>2
    <3>2. i + 1 = j + 1
      BY <1>1, <1>4, <2>1, <3>1
    <3> QED BY <1>2, <3>2
  <2> QED BY <1>2, <2>1 DEF IsInjective
<1>6. ASSUME NEW j \in Item
      PROVE  Linked(t, j) <=> Linked(s, j) /\ j # Head(s)
  <2>1. ASSUME NEW i \in 1 .. Len(t), t[i] = j
        PROVE  Linked(s, j) /\ j # Head(s)
    <3>1. i + 1 \in 1 .. Len(s) /\ s[i + 1] = j /\ 1 \in 1 .. Len(s) /\ i + 1 # 1
      BY <1>1, <1>2, <2>1
    <3> QED BY <1>3, <1>4, <3>1 DEF Linked
  <2>2. ASSUME NEW i \in 1 .. Len(s), s[i] = j, j # Head(s)
        PROVE  Linked(t, j)
    <3>1. i - 1 \in 1 .. Len(t) /\ (i - 1) + 1 = i
      BY <1>1, <1>2, <1>3, <2>2
    <3>2. t[i - 1] = j
      BY <1>1, <2>2, <3>1
    <3> QED BY <3>1, <3>2 DEF Linked
  <2> QED BY <2>1, <2>2 DEF Linked
<1>7. Linked(s, Head(s))
  BY <1>2, <1>3 DEF Linked
<1> QED BY <1>1, <1>5, <1>6, <1>7 DEF t
=============================================================================
