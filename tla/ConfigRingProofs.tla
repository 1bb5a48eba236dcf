-------------------------- MODULE ConfigRingProofs --------------------------
(***************************************************************************)
(* Proofs about ConfigRing, for any set of stations, positions and bounds. *)
(***************************************************************************)
EXTENDS ConfigRing, SequenceTheorems, WellFoundedInduction, TLAPS

-----------------------------------------------------------------------------
(* Numbers: induction stated with sets, and remainders near zero.          *)

Below == {ss \in Nat \X Nat : ss[1] < ss[2]}

(* There is no endless descent in the natural numbers.                     *)
LEMMA BelowWellFounded == IsWellFoundedOn(Below, Nat)
BY NatLessThanWellFounded DEF OpToRel, Below

(* A set of natural numbers that is not empty has a least element.         *)
LEMMA LeastNat ==
  ASSUME NEW T \in SUBSET Nat, T # {}
  PROVE  \E n \in T : \A k \in T : n <= k
<1>1. PICK n \in T : \A k \in T : ~(<<k, n>> \in Below)
  BY BelowWellFounded, WFMin, Zenon
<1>2. \A k \in T : ~(k < n)
  <2> TAKE k \in T
  <2>1. k \in Nat /\ n \in Nat
    OBVIOUS
  <2>2. <<k, n>> \in Nat \X Nat
    BY <2>1
  <2>3. ~(<<k, n>> \in Below)
    BY <1>1
  <2>4. <<k, n>>[1] = k /\ <<k, n>>[2] = n
    OBVIOUS
  <2> QED BY <2>2, <2>3, <2>4, Zenon DEF Below
<1>3. \A k \in T : n <= k
  BY <1>2
<1> QED BY <1>3

(* Induction: a set that has 0 and with n also n + 1 has every number.     *)
LEMMA SetInduction ==
  ASSUME NEW S \in SUBSET Nat, 0 \in S, \A n \in S : n + 1 \in S
  PROVE  S = Nat
<1> SUFFICES ASSUME S # Nat PROVE FALSE
  OBVIOUS
<1> DEFINE T == Nat \ S
<1>1. PICK n \in T : \A k \in T : n <= k
  BY LeastNat, T # {}, T \in SUBSET Nat
<1>2. n # 0 /\ n \in Nat
  OBVIOUS
<1>3. n - 1 \in Nat
  BY <1>2
<1>4. n - 1 \in S
  BY <1>1, <1>3
<1> QED BY <1>4, <1>2

(* The functions that list a, step[a], step[step[a]] and so on to the nth. *)
Iterates(A, a, step, n) ==
  {f \in [0..n -> A] : f[0] = a /\ \A k \in 1..n : f[k] = step[f[k - 1]]}

(* There is one: what is left to show of a function defined by recursion   *)
(* is that it lists these.                                                 *)
LEMMA Iteration ==
  ASSUME NEW A, NEW a \in A, NEW step \in [A -> A], NEW n \in Nat
  PROVE  Iterates(A, a, step, n) # {}
<1> DEFINE Good(i, f) == f[0] = a /\ \A k \in 1..i : f[k] = step[f[k - 1]]
           S == {i \in Nat : \E f \in [0..i -> A] : Good(i, f)}
<1>1. 0 \in S
  <2> DEFINE f == [k \in 0..0 |-> a]
  <2>1. f \in [0..0 -> A] /\ Good(0, f)
    OBVIOUS
  <2> HIDE DEF f, Good
  <2> QED BY <2>1
<1>2. \A i \in S : i + 1 \in S
  <2> TAKE i \in S
  <2>1. PICK f \in [0..i -> A] : Good(i, f)
    OBVIOUS
  <2> DEFINE g == [k \in 0..(i + 1) |-> IF k = i + 1 THEN step[f[i]] ELSE f[k]]
  <2>2. i \in Nat /\ i + 1 \in Nat
    OBVIOUS
  <2>3. f[i] \in A
    BY <2>2
  <2>4. g \in [0..(i + 1) -> A]
    <3>1. \A k \in 0..(i + 1) : k # i + 1 => k \in 0..i
      BY <2>2
    <3> QED BY <2>3, <3>1
  <2>5. \A k \in 0..i : g[k] = f[k]
    BY <2>2
  <2>6. g[i + 1] = step[g[i]]
    BY <2>2, <2>5
  <2>7. Good(i + 1, g)
    <3> SUFFICES ASSUME NEW k \in 1..(i + 1)
                 PROVE  g[0] = a /\ g[k] = step[g[k - 1]]
      BY <2>2, <2>5, <2>1
    <3>1. CASE k = i + 1
      BY <3>1, <2>1, <2>2, <2>5, <2>6
    <3>2. CASE k # i + 1
      <4>1. k \in 1..i /\ k \in 0..i /\ k - 1 \in 0..i /\ 0 \in 0..i
        BY <3>2, <2>2
      <4> QED BY <4>1, <2>1, <2>5
    <3> QED BY <3>1, <3>2
  <2> HIDE DEF g, Good
  <2> QED BY <2>2, <2>4, <2>7
<1>3. n \in S
  <2> HIDE DEF S
  <2>1. S \in SUBSET Nat
    BY DEF S
  <2> QED BY <1>1, <1>2, <2>1, SetInduction
<1> QED BY <1>3 DEF Iterates

(* Up to one turn before the first and after the last, going round n       *)
(* places is adding or subtracting n.                                      *)
LEMMA Turn ==
  ASSUME NEW n \in Nat, n > 0, NEW x \in (-n)..(2 * n - 1)
  PROVE  x % n = IF x < 0 THEN x + n ELSE IF x < n THEN x ELSE x - n
<1>1. \A q \in Int, r \in 0..(n - 1) : (n * q + r) % n = r
  OBVIOUS
<1>2. CASE x < 0
  <2>1. x = n * (-1) + (x + n) /\ x + n \in 0..(n - 1)
    BY <1>2
  <2>2. (n * (-1) + (x + n)) % n = x + n
    BY <1>1, <2>1
  <2> QED BY <1>2, <2>1, <2>2
<1>3. CASE x \in 0..(n - 1)
  BY <1>3
<1>4. CASE x >= n
  <2>1. x = n * 1 + (x - n) /\ x - n \in 0..(n - 1)
    BY <1>4
  <2>2. (n * 1 + (x - n)) % n = x - n
    BY <1>1, <2>1
  <2> QED BY <1>4, <2>1, <2>2
<1> QED BY <1>2, <1>3, <1>4

-----------------------------------------------------------------------------
(* Sequences: what inserting and removing one element does.                *)

(* Inserting e before index k shifts the elements from k on by one.        *)
LEMMA InsertAtProperties ==
  ASSUME NEW S, NEW r \in Seq(S), NEW e \in S, NEW k \in 1..(Len(r) + 1)
  PROVE  /\ InsertAt(r, k, e) \in Seq(S)
         /\ Len(InsertAt(r, k, e)) = Len(r) + 1
         /\ \A j \in 1..(Len(r) + 1) :
              InsertAt(r, k, e)[j] =
                IF j < k THEN r[j] ELSE IF j = k THEN e ELSE r[j - 1]
<1> DEFINE a == SubSeq(r, 1, k - 1)
           b == SubSeq(r, k, Len(r))
<1>1. a \in Seq(S) /\ Len(a) = k - 1 /\ \A j \in 1..(k - 1) : a[j] = r[j]
  BY SubSeqProperties
<1>2. b \in Seq(S) /\ Len(b) = Len(r) + 1 - k
      /\ \A j \in 1..(Len(r) + 1 - k) : b[j] = r[k + j - 1]
  BY SubSeqProperties
<1>3. InsertAt(r, k, e) = (a \o <<e>>) \o b
  BY DEF InsertAt
<1> HIDE DEF a, b
<1> DEFINE c == a \o <<e>>
<1>4. <<e>> \in Seq(S) /\ Len(<<e>>) = 1 /\ <<e>>[1] = e
  OBVIOUS
<1>5. /\ c \in Seq(S) /\ Len(c) = k
      /\ \A j \in 1..k : c[j] = IF j < k THEN r[j] ELSE e
  BY <1>1, <1>4, ConcatProperties
<1> HIDE DEF c
<1>6. /\ c \o b \in Seq(S) /\ Len(c \o b) = Len(r) + 1
      /\ \A j \in 1..(Len(r) + 1) :
           (c \o b)[j] = IF j <= k THEN c[j] ELSE b[j - k]
  BY <1>2, <1>5, ConcatProperties
<1>7. \A j \in 1..(Len(r) + 1) : j > k => b[j - k] = r[j - 1]
  BY <1>2
<1> QED BY <1>3, <1>5, <1>6, <1>7 DEF c

(* The same about stations.                                                *)
LEMMA StationInsertAt ==
  ASSUME NEW r \in Seq(Station), NEW s \in Station, NEW k \in 1..(Len(r) + 1)
  PROVE  /\ Len(InsertAt(r, k, s)) = Len(r) + 1
         /\ \A j \in 1..(Len(r) + 1) :
              InsertAt(r, k, s)[j] = IF j < k THEN r[j] ELSE IF j = k THEN s ELSE r[j - 1]
BY InsertAtProperties

(* Removing the element at index k shifts the ones after it back by one.   *)
LEMMA RemoveAtProperties ==
  ASSUME NEW S, NEW r \in Seq(S), NEW k \in 1..Len(r)
  PROVE  /\ RemoveAt(r, k) \in Seq(S)
         /\ Len(RemoveAt(r, k)) = Len(r) - 1
         /\ \A j \in 1..(Len(r) - 1) :
              RemoveAt(r, k)[j] = IF j < k THEN r[j] ELSE r[j + 1]
<1> DEFINE a == SubSeq(r, 1, k - 1)
           b == SubSeq(r, k + 1, Len(r))
<1>1. a \in Seq(S) /\ Len(a) = k - 1 /\ \A j \in 1..(k - 1) : a[j] = r[j]
  BY SubSeqProperties
<1>2. b \in Seq(S) /\ Len(b) = Len(r) - k
      /\ \A j \in 1..(Len(r) - k) : b[j] = r[k + j]
  BY SubSeqProperties
<1>3. RemoveAt(r, k) = a \o b
  BY DEF RemoveAt
<1> HIDE DEF a, b
<1> DEFINE c == a \o b
<1>4. /\ c \in Seq(S) /\ Len(c) = Len(a) + Len(b)
      /\ \A j \in 1..(Len(a) + Len(b)) :
           c[j] = IF j <= Len(a) THEN a[j] ELSE b[j - Len(a)]
  BY <1>1, <1>2, ConcatProperties
<1> HIDE DEF c
<1>5. Len(a) = k - 1 /\ Len(b) = Len(r) - k /\ Len(r) \in Nat
  BY <1>1, <1>2
<1>6. Len(c) = Len(r) - 1
  BY <1>4, <1>5
<1>7. ASSUME NEW j \in 1..(Len(r) - 1)
      PROVE  c[j] = IF j < k THEN r[j] ELSE r[j + 1]
  <2>1. c[j] = IF j < k THEN a[j] ELSE b[j - (k - 1)]
    BY <1>4, <1>5
  <2>2. j >= k => b[j - (k - 1)] = r[j + 1]
    BY <1>2, <1>5
  <2> QED BY <1>1, <2>1, <2>2
<1> QED BY <1>3, <1>4, <1>6, <1>7 DEF c

(* The elements of a sequence after an insertion.                          *)
LEMMA InsertAtSet ==
  ASSUME NEW S, NEW r \in Seq(S), NEW e \in S, NEW k \in 1..(Len(r) + 1)
  PROVE  ToSet(InsertAt(r, k, e)) = ToSet(r) \cup {e}
<1> DEFINE t == InsertAt(r, k, e)
<1>1. /\ Len(t) = Len(r) + 1 /\ t \in Seq(S)
      /\ \A j \in 1..(Len(r) + 1) :
           t[j] = IF j < k THEN r[j] ELSE IF j = k THEN e ELSE r[j - 1]
  BY InsertAtProperties
<1> HIDE DEF t
<1>2. ASSUME NEW x \in ToSet(r) PROVE x \in ToSet(t)
  <2>1. PICK j \in 1..Len(r) : x = r[j]
    BY DEF ToSet
  <2>2. CASE j < k
    <3>1. j \in 1..Len(t) /\ t[j] = x
      BY <2>1, <2>2, <1>1
    <3> QED BY <3>1, <1>1 DEF ToSet
  <2>3. CASE j >= k
    <3>1. j + 1 \in 1..Len(t) /\ t[j + 1] = x
      BY <2>1, <2>3, <1>1
    <3>2. PICK i \in 1..Len(t) : t[i] = x
      BY <3>1
    <3> QED BY <3>2, <1>1 DEF ToSet
  <2> QED BY <2>1, <2>2, <2>3
<1>3. e \in ToSet(t)
  BY <1>1 DEF ToSet
<1>4. ASSUME NEW x \in ToSet(t) PROVE x \in ToSet(r) \cup {e}
  <2>1. PICK j \in 1..(Len(r) + 1) : x = t[j]
    BY <1>1 DEF ToSet
  <2> QED BY <2>1, <1>1 DEF ToSet
<1> QED BY <1>2, <1>3, <1>4 DEF t

(* The elements of a sequence without repetition after a removal.          *)
LEMMA RemoveAtSet ==
  ASSUME NEW S, NEW r \in Seq(S), NEW k \in 1..Len(r),
         \A i, j \in 1..Len(r) : i # j => r[i] # r[j]
  PROVE  ToSet(RemoveAt(r, k)) = ToSet(r) \ {r[k]}
<1> DEFINE t == RemoveAt(r, k)
<1>1. /\ Len(t) = Len(r) - 1 /\ t \in Seq(S)
      /\ \A j \in 1..(Len(r) - 1) : t[j] = IF j < k THEN r[j] ELSE r[j + 1]
  BY RemoveAtProperties
<1> HIDE DEF t
<1>2. ASSUME NEW x \in ToSet(r) \ {r[k]} PROVE x \in ToSet(t)
  <2>1. PICK j \in 1..Len(r) : x = r[j]
    BY DEF ToSet
  <2>2. CASE j < k
    <3>1. j \in 1..Len(t) /\ t[j] = x
      BY <2>1, <2>2, <1>1
    <3> QED BY <3>1, <1>1 DEF ToSet
  <2>3. CASE j > k
    <3>1. t[j - 1] = x /\ j - 1 \in 1..Len(t)
      BY <2>1, <2>3, <1>1
    <3> QED BY <3>1, <1>1 DEF ToSet
  <2> QED BY <2>1, <2>2, <2>3
<1>3. ASSUME NEW x \in ToSet(t) PROVE x \in ToSet(r) \ {r[k]}
  <2>1. PICK j \in 1..(Len(r) - 1) : x = t[j]
    BY <1>1 DEF ToSet
  <2>2. PICK i \in 1..Len(r) : i # k /\ x = r[i]
    BY <2>1, <1>1
  <2> QED BY <2>2 DEF ToSet
<1> QED BY <1>2, <1>3 DEF t

-----------------------------------------------------------------------------
(* Order: the walk of insert and a removal keep the positions increasing.  *)

(* A station linked in where the walk of insert stops keeps the ring       *)
(* sorted.                                                                 *)
LEMMA InsertKeepsSorted ==
  ASSUME NEW r \in Seq(Station), NEW q \in [Station -> Nat], NEW s \in Station,
         NEW k \in 1..(Len(r) + 1), Sorted(r, q), WalkStops(r, q, q[s], k)
  PROVE  Sorted(InsertAt(r, k, s), q)
<1>a. /\ Len(InsertAt(r, k, s)) = Len(r) + 1
      /\ \A j \in 1..(Len(r) + 1) :
           InsertAt(r, k, s)[j] = IF j < k THEN r[j] ELSE IF j = k THEN s ELSE r[j - 1]
  BY StationInsertAt
<1> DEFINE t == InsertAt(r, k, s)
<1>b. /\ Len(t) = Len(r) + 1
      /\ \A j \in 1..(Len(r) + 1) :
           t[j] = IF j < k THEN r[j] ELSE IF j = k THEN s ELSE r[j - 1]
  BY <1>a
<1> HIDE DEF t
<1>1. /\ Len(t) = Len(r) + 1 /\ Len(r) \in Nat
      /\ \A j \in 1..(Len(r) + 1) :
           t[j] = IF j < k THEN r[j] ELSE IF j = k THEN s ELSE r[j - 1]
  BY <1>b
<1>2. \A j \in 1..Len(r) : r[j] \in Station /\ q[r[j]] \in Nat
  OBVIOUS
<1>3. \A j \in 1..Len(r) : j < k => q[r[j]] < q[s]
  BY DEF WalkStops
<1>4. \A j \in 1..Len(r) : j >= k => q[s] < q[r[j]]
  <2> SUFFICES ASSUME NEW j \in 1..Len(r), j >= k PROVE q[s] < q[r[j]]
    OBVIOUS
  <2>1. k \in 1..Len(r) /\ q[s] < q[r[k]]
    BY <1>1 DEF WalkStops
  <2>2. j = k \/ q[r[k]] < q[r[j]]
    BY <2>1, <1>1 DEF Sorted
  <2> QED BY <2>1, <2>2, <1>2
<1>5. ASSUME NEW i \in 1..Len(t), NEW j \in 1..Len(t), i < j
      PROVE  q[t[i]] < q[t[j]]
  <2>1. CASE j < k
    <3>1. i \in 1..Len(r) /\ j \in 1..Len(r) /\ t[i] = r[i] /\ t[j] = r[j]
      BY <2>1, <1>1, <1>5
    <3> QED BY <3>1, <1>5 DEF Sorted
  <2>2. CASE j = k
    <3>1. i \in 1..Len(r) /\ t[i] = r[i] /\ t[j] = s
      BY <2>2, <1>1, <1>5
    <3> QED BY <3>1, <2>2, <1>3, <1>5
  <2>3. CASE j > k
    <3>1. j - 1 \in 1..Len(r) /\ t[j] = r[j - 1]
      BY <2>3, <1>1
    <3>2. CASE i = k
      BY <3>1, <3>2, <2>3, <1>1, <1>4
    <3>3. CASE i < k
      <4>1. i \in 1..Len(r) /\ t[i] = r[i] /\ i < j - 1
        BY <3>3, <2>3, <1>1
      <4> QED BY <4>1, <3>1 DEF Sorted
    <3>4. CASE i > k
      <4>1. i - 1 \in 1..Len(r) /\ t[i] = r[i - 1] /\ i - 1 < j - 1
        BY <3>4, <1>1, <1>5
      <4> QED BY <4>1, <3>1 DEF Sorted
    <3> QED BY <3>2, <3>3, <3>4
  <2> QED BY <2>1, <2>2, <2>3
<1> QED BY <1>5 DEF Sorted, t

(* Ripping a station out keeps the others sorted.                          *)
LEMMA RemoveKeepsSorted ==
  ASSUME NEW r \in Seq(Station), NEW q, NEW k \in 1..Len(r), Sorted(r, q)
  PROVE  Sorted(RemoveAt(r, k), q)
<1> DEFINE t == RemoveAt(r, k)
<1>0. Len(r) \in Nat
  OBVIOUS
<1>0a. /\ Len(t) = Len(r) - 1
       /\ \A j \in 1..(Len(r) - 1) : t[j] = IF j < k THEN r[j] ELSE r[j + 1]
  BY RemoveAtProperties
<1> HIDE DEF t
<1>1. /\ Len(t) = Len(r) - 1 /\ Len(r) \in Nat
      /\ \A j \in 1..(Len(r) - 1) : t[j] = IF j < k THEN r[j] ELSE r[j + 1]
  BY <1>0, <1>0a
<1>2. ASSUME NEW i \in 1..Len(t), NEW j \in 1..Len(t), i < j
      PROVE  q[t[i]] < q[t[j]]
  <2>1. PICK a, b \in 1..Len(r) : a < b /\ t[i] = r[a] /\ t[j] = r[b]
    <3>1. CASE j < k
      <4>1. i \in 1..Len(r) /\ j \in 1..Len(r) /\ t[i] = r[i] /\ t[j] = r[j]
        BY <3>1, <1>1, <1>2
      <4> QED BY <4>1, <1>2
    <3>2. CASE i < k /\ j >= k
      <4>1. i \in 1..Len(r) /\ j + 1 \in 1..Len(r) /\ i < j + 1
            /\ t[i] = r[i] /\ t[j] = r[j + 1]
        BY <3>2, <1>1, <1>2
      <4> QED BY <4>1
    <3>3. CASE i >= k
      <4>1. i + 1 \in 1..Len(r) /\ j + 1 \in 1..Len(r) /\ i + 1 < j + 1
            /\ t[i] = r[i + 1] /\ t[j] = r[j + 1]
        BY <3>3, <1>1, <1>2
      <4> QED BY <4>1
    <3> QED BY <3>1, <3>2, <3>3, <1>1
  <2> QED BY <2>1 DEF Sorted
<1> QED BY <1>2 DEF Sorted, t

(* Positions that increase strictly are different, and so are the stations *)
(* that have them.                                                         *)
LEMMA SortedIsInjective ==
  ASSUME NEW r \in Seq(Station), NEW q \in [Station -> Nat], Sorted(r, q)
  PROVE  \A i, j \in 1..Len(r) : i # j => q[r[i]] # q[r[j]] /\ r[i] # r[j]
<1> SUFFICES ASSUME NEW i \in 1..Len(r), NEW j \in 1..Len(r), i # j
             PROVE  q[r[i]] # q[r[j]] /\ r[i] # r[j]
  OBVIOUS
<1>1. q[r[i]] \in Nat /\ q[r[j]] \in Nat
  OBVIOUS
<1>2. q[r[i]] < q[r[j]] \/ q[r[j]] < q[r[i]]
  BY DEF Sorted
<1> QED BY <1>1, <1>2

(* The order depends only on the positions of the stations in the sequence. *)
LEMMA SortedFrame ==
  ASSUME NEW r, NEW q, NEW q2, Sorted(r, q),
         \A j \in 1..Len(r) : q2[r[j]] = q[r[j]]
  PROVE  Sorted(r, q2)
BY DEF Sorted

-----------------------------------------------------------------------------
(* The ring of a state that satisfies the inductive invariant.             *)

(* IndexOf finds a station that is on the ring.                            *)
LEMMA IndexOfOnRing ==
  ASSUME IInv, NEW s \in OnRing
  PROVE  IndexOf(s) \in 1..Len(ring) /\ ring[IndexOf(s)] = s
<1>1. ring \in Seq(Station)
  BY DEF IInv, TypeOK
<1>2. \E k \in 1..Len(ring) : ring[k] = s
  BY <1>1 DEF OnRing, ToSet
<1> QED BY <1>2 DEF IndexOf

(* Going round from a station on the ring ends on the ring.                *)
LEMMA AroundOnRing ==
  ASSUME IInv, NEW k \in 1..Len(ring), NEW hops \in Int
  PROVE  Around(k, hops) \in OnRing
<1>1. ring \in Seq(Station) /\ Len(ring) \in Nat /\ Len(ring) > 0
  BY DEF IInv, TypeOK
<1>2. (k - 1 + hops) % Len(ring) \in 0..(Len(ring) - 1)
  BY <1>1
<1>3. ((k - 1 + hops) % Len(ring)) + 1 \in 1..Len(ring)
  BY <1>1, <1>2
<1> QED BY <1>1, <1>3 DEF Around, OnRing, ToSet

(* A call that leaves the ring, the positions and the counters alone keeps *)
(* the invariant if it leaves the current station and the flags on the     *)
(* ring.                                                                   *)
LEMMA RingFixed ==
  ASSUME IInv, UNCHANGED <<ring, circular, pos, counters>>,
         CurrentOnRing', last_device' \in Nat,
         active' \subseteq OnRing, devices' \subseteq OnRing, commtype' \subseteq OnRing,
         status' \in {"live", "fault", "hung"} \/ status' = status
  PROVE  IInv'
<1>1. current' \in Station \cup {NoStation}
  BY DEF IInv, TypeOK, CurrentOnRing, OnRing, ToSet
<1>2. TypeOK'
  BY <1>1 DEF IInv, TypeOK, OnRing, counters
<1>3. RingSorted' /\ (status' = "none" => ring' = <<>>)
  BY DEF IInv, RingSorted, Sorted
<1> QED BY <1>2, <1>3 DEF IInv

(* A wild pointer changes nothing the invariant speaks of.                 *)
LEMMA FaultKeeps == ASSUME IInv, Fault PROVE IInv'
<1>1. CurrentOnRing'
  BY DEF IInv, CurrentOnRing, Fault, OnRing
<1>2. last_device' \in Nat /\ active' \subseteq OnRing /\ devices' \subseteq OnRing
      /\ commtype' \subseteq OnRing
  BY DEF IInv, TypeOK, Fault, stationVars
<1> QED BY <1>1, <1>2, RingFixed DEF Fault, stationVars

(* A step that changes nothing keeps the invariant.                        *)
LEMMA StutterKeeps == ASSUME IInv, UNCHANGED vars PROVE IInv'
BY DEF IInv, vars, stationVars, counters, TypeOK, RingSorted, Sorted,
       CurrentOnRing, OnRing

(* Choosing a station that is on the ring.                                 *)
LEMMA SetCurrentKeeps ==
  ASSUME IInv, Live, NEW s \in OnRing, SetCurrent(s)
  PROVE  IInv'
<1>1. ring # <<>>
  BY DEF OnRing, ToSet
<1>2. CurrentOnRing'
  BY <1>1 DEF CurrentOnRing, SetCurrent, OnRing
<1>3. CurrentId \in Nat
  BY DEF IInv, TypeOK, CurrentOnRing, CurrentId
<1>4. last_device' \in Nat
  BY <1>3 DEF SetCurrent, IInv, TypeOK
<1>5. active' \subseteq OnRing /\ devices' \subseteq OnRing /\ commtype' \subseteq OnRing
  BY DEF IInv, TypeOK, SetCurrent, stationVars
<1> QED BY <1>2, <1>4, <1>5, RingFixed DEF SetCurrent, stationVars

LEMMA ConfigSetKeeps ==
  ASSUME IInv, NEW p, config_set(p)
  PROVE  IInv'
<1>1. ASSUME NEW k \in 1..Len(ring), SetCurrent(ring[k])
      PROVE  IInv'
  <2>1. ring[k] \in OnRing
    BY DEF IInv, TypeOK, OnRing, ToSet
  <2> QED BY <1>1, <2>1, SetCurrentKeeps DEF config_set
<1> QED BY <1>1, FaultKeeps, StutterKeeps DEF config_set

LEMMA BrowseKeeps ==
  ASSUME IInv, NEW dir \in {-1, 1}, Browse(dir)
  PROVE  IInv'
<1>1. CurrentId \in Nat /\ CurrentOnRing
  BY DEF IInv, TypeOK, CurrentOnRing, CurrentId
<1>2. ASSUME Live, current # NoStation, NEW hops \in 1..Len(ring),
             current' = Around(IndexOf(current), dir * hops),
             last_device' = CurrentId,
             UNCHANGED <<ring, circular, stationVars, counters, status>>
      PROVE  IInv'
  <2>1. ring \in Seq(Station) /\ ring # <<>>
    BY <1>1, <1>2 DEF IInv, TypeOK, CurrentOnRing
  <2>2. current \in OnRing
    BY <1>1, <2>1 DEF CurrentOnRing
  <2>3. dir * hops \in Int
    BY <2>1
  <2>4. current' \in OnRing
    BY <1>2, <2>2, <2>3, IndexOfOnRing, AroundOnRing
  <2>5. CurrentOnRing'
    BY <1>2, <2>1, <2>4 DEF CurrentOnRing, OnRing
  <2> QED BY <1>1, <1>2, <2>5, RingFixed DEF IInv, TypeOK, stationVars
<1>3. ASSUME Live, current = NoStation, last_device' = 0,
             UNCHANGED <<ring, circular, stationVars, current, counters, status>>
      PROVE  IInv'
  <2>1. CurrentOnRing'
    BY <1>1, <1>3 DEF CurrentOnRing, OnRing
  <2> QED BY <1>3, <2>1, RingFixed DEF IInv, TypeOK, stationVars
<1> QED BY <1>2, <1>3, FaultKeeps DEF Browse

-----------------------------------------------------------------------------
(* The calls that change the ring.                                         *)

LEMMA NewManagerKeeps ==
  ASSUME IInv, status = "none", NewManager
  PROVE  IInv'
<1>1. ring = <<>> /\ pos \in [Station -> Nat]
  BY DEF IInv, TypeOK, NewManager
<1>2. ASSUME NEW s \in Station, ring' = <<s>>, circular' = FALSE,
             pos' = [pos EXCEPT ![s] = 0], active' = {s}, current' = s,
             devices' \in {{}, {s}}, commtype' \in {{}, {s}}
      PROVE  IInv'
  <2>1. OnRing' = {s}
    BY <1>2 DEF OnRing, ToSet
  <2>2. TypeOK'
    <3>1. ring' \in Seq(Station) /\ Len(ring') = 1 /\ pos' \in [Station -> Nat]
      BY <1>1, <1>2
    <3>2. /\ active' \subseteq OnRing' /\ devices' \subseteq OnRing'
          /\ commtype' \subseteq OnRing'
      BY <1>2, <2>1
    <3>3. /\ last_device' \in Nat /\ num_configs' \in Nat /\ max_position' \in Nat
          /\ status' = "live"
      BY DEF NewManager
    <3> QED BY <1>2, <3>1, <3>2, <3>3 DEF TypeOK
  <2>3. RingSorted'
    BY <1>2 DEF RingSorted, Sorted
  <2>4. CurrentOnRing'
    BY <1>2, <2>1 DEF CurrentOnRing
  <2> QED BY <2>2, <2>3, <2>4 DEF IInv, NewManager
<1>3. ASSUME current' = NoStation, UNCHANGED <<ring, circular, stationVars>>
      PROVE  IInv'
  <2>1. TypeOK' /\ CurrentOnRing'
    BY <1>1, <1>3 DEF IInv, TypeOK, CurrentOnRing, OnRing, ToSet, stationVars, NewManager
  <2>2. RingSorted' /\ (status' = "none" => ring' = <<>>)
    BY <1>1, <1>3 DEF RingSorted, Sorted
  <2> QED BY <2>1, <2>2 DEF IInv
<1> QED BY <1>2, <1>3 DEF NewManager

LEMMA ConfigDeleteKeeps ==
  ASSUME IInv, config_delete
  PROVE  IInv'
BY DEF IInv, config_delete, TypeOK, RingSorted, Sorted, CurrentOnRing,
       OnRing, ToSet

LEMMA ConfigAddKeeps ==
  ASSUME IInv, NEW p \in Nat, NEW named, config_add(p, named)
  PROVE  IInv'
<1> DEFINE target == IF FreePos(p) THEN p ELSE NextPos
<1>1. CASE Fault
  BY <1>1, FaultKeeps
<1>2. CASE ~Fault
  <2>1. PICK s \in Station \ OnRing, k \in 1..(Len(ring) + 1) :
          /\ WalkStops(ring, pos, target, k)
          /\ ring' = InsertAt(ring, k, s)
          /\ pos' = [pos EXCEPT ![s] = target]
          /\ active' = active \cup {s}
          /\ current' = s
    BY <1>2 DEF config_add
  <2>2. /\ ~Detached /\ Live /\ CountInsert(target)
        /\ UNCHANGED <<circular, devices, commtype, last_device, status>>
    BY <1>2 DEF config_add
  <2>3. ring \in Seq(Station) /\ pos \in [Station -> Nat] /\ Sorted(ring, pos)
        /\ num_configs \in Nat /\ max_position \in Nat
    BY DEF IInv, TypeOK, RingSorted
  <2>4. target \in Nat
    BY <2>3 DEF NextPos
  <2> HIDE DEF target
  <2>5. /\ pos' \in [Station -> Nat] /\ pos'[s] = target
        /\ \A j \in 1..Len(ring) : ring[j] # s /\ pos'[ring[j]] = pos[ring[j]]
    BY <2>1, <2>3, <2>4 DEF OnRing, ToSet
  <2>6. Sorted(ring, pos') /\ WalkStops(ring, pos', pos'[s], k)
    <3>1. Sorted(ring, pos')
      BY <2>3, <2>5, SortedFrame
    <3>2. WalkStops(ring, pos', pos'[s], k)
      BY <2>1, <2>3, <2>5 DEF WalkStops
    <3> QED BY <3>1, <3>2
  <2>7. RingSorted'
    BY <2>1, <2>3, <2>5, <2>6, InsertKeepsSorted DEF RingSorted
  <2>8. OnRing' = OnRing \cup {s} /\ ring' \in Seq(Station) /\ Len(ring') = Len(ring) + 1
    BY <2>1, <2>3, InsertAtSet, InsertAtProperties DEF OnRing
  <2>9. num_configs' \in Nat /\ max_position' \in Nat
    BY <2>2, <2>3, <2>4 DEF CountInsert, MaxOf
  <2>10. CurrentOnRing'
    <3>1. ring' # <<>> /\ s \in OnRing'
      BY <2>3, <2>8
    <3> QED BY <2>1, <3>1 DEF CurrentOnRing
  <2>11. circular
    <3>1. CASE ring = <<>>
      BY <3>1, <2>3 DEF IInv, TypeOK
    <3>2. CASE ring # <<>>
      BY <3>2, <2>2 DEF Detached
    <3> QED BY <3>1, <3>2
  <2>12. TypeOK'
    <3>1. active' \subseteq OnRing' /\ devices' \subseteq OnRing' /\ commtype' \subseteq OnRing'
      BY <2>1, <2>2, <2>8 DEF IInv, TypeOK
    <3> QED BY <2>1, <2>2, <2>3, <2>5, <2>8, <2>9, <2>11, <3>1 DEF IInv, TypeOK
  <2> QED BY <2>2, <2>7, <2>10, <2>12 DEF IInv, Live
<1> QED BY <1>1, <1>2

(* A sorted sequence of stations.                                          *)
Chain(r, q) == r \in Seq(Station) /\ Sorted(r, q)

(* Ripping a station out of a chain leaves a chain without it.             *)
LEMMA RipOutChain ==
  ASSUME NEW q \in [Station -> Nat], NEW r, Chain(r, q), NEW k \in 1..Len(r)
  PROVE  /\ Chain(RemoveAt(r, k), q)
         /\ Len(RemoveAt(r, k)) = Len(r) - 1
         /\ ToSet(RemoveAt(r, k)) = ToSet(r) \ {r[k]}
<1>1. r \in Seq(Station) /\ Sorted(r, q)
  BY DEF Chain
<1>2. \A i, j \in 1..Len(r) : i # j => r[i] # r[j]
  BY <1>1, SortedIsInjective
<1>3. RemoveAt(r, k) \in Seq(Station) /\ Len(RemoveAt(r, k)) = Len(r) - 1
  BY <1>1, RemoveAtProperties
<1>4. Sorted(RemoveAt(r, k), q)
  BY <1>1, RemoveKeepsSorted
<1>5. ToSet(RemoveAt(r, k)) = ToSet(r) \ {r[k]}
  BY <1>1, <1>2, RemoveAtSet
<1> QED BY <1>3, <1>4, <1>5 DEF Chain

(* Linking a station in where the walk stops gives a chain with it.        *)
LEMMA LinkInChain ==
  ASSUME NEW q \in [Station -> Nat], NEW r, Chain(r, q), NEW s \in Station,
         NEW k \in 1..(Len(r) + 1), WalkStops(r, q, q[s], k)
  PROVE  /\ Chain(InsertAt(r, k, s), q)
         /\ Len(InsertAt(r, k, s)) = Len(r) + 1
         /\ ToSet(InsertAt(r, k, s)) = ToSet(r) \cup {s}
<1>1. r \in Seq(Station) /\ Sorted(r, q)
  BY DEF Chain
<1>2. InsertAt(r, k, s) \in Seq(Station) /\ Len(InsertAt(r, k, s)) = Len(r) + 1
  BY <1>1, InsertAtProperties
<1>3. Sorted(InsertAt(r, k, s), q)
  BY <1>1, InsertKeepsSorted
<1>4. ToSet(InsertAt(r, k, s)) = ToSet(r) \cup {s}
  BY <1>1, InsertAtSet
<1> QED BY <1>2, <1>3, <1>4 DEF Chain

(* A chain stays one when only stations off it are renumbered.             *)
LEMMA ChainFrame ==
  ASSUME NEW q \in [Station -> Nat], NEW q2 \in [Station -> Nat], NEW r, Chain(r, q),
         \A x \in ToSet(r) : q2[x] = q[x]
  PROVE  Chain(r, q2)
<1>1. r \in Seq(Station) /\ Sorted(r, q)
  BY DEF Chain
<1>2. \A j \in 1..Len(r) : q2[r[j]] = q[r[j]]
  BY <1>1 DEF ToSet
<1> QED BY <1>1, <1>2 DEF Chain, Sorted

(* The ring of a good state is a chain, and a next state whose ring is a   *)
(* chain is good again.                                                    *)
LEMMA RingIsChain ==
  ASSUME IInv
  PROVE  /\ Chain(ring, pos)
         /\ pos \in [Station -> Nat] /\ max_position \in Nat /\ num_configs \in Nat
BY DEF IInv, TypeOK, RingSorted, Chain

LEMMA ChainIsGood ==
  ASSUME IInv, Live, circular, UNCHANGED <<circular, last_device, status>>,
         pos' \in [Station -> Nat], max_position' \in Nat, num_configs' \in Nat,
         Chain(ring', pos'),
         active' \subseteq OnRing', devices' \subseteq OnRing', commtype' \subseteq OnRing',
         CurrentOnRing'
  PROVE  IInv'
<1>1. ring' \in Seq(Station) /\ RingSorted'
  BY DEF Chain, RingSorted
<1>2. current' \in Station \cup {NoStation}
  BY <1>1 DEF CurrentOnRing, OnRing, ToSet
<1>3. TypeOK'
  BY <1>1, <1>2 DEF IInv, TypeOK, OnRing
<1> QED BY <1>1, <1>3 DEF IInv, Live

LEMMA ConfigRemoveKeeps ==
  ASSUME IInv, config_remove
  PROVE  IInv'
<1>1. CASE Fault
  BY <1>1, FaultKeeps
<1>2. CASE ~Fault
  <2> DEFINE k == IndexOf(current)
  <2>1. /\ Live /\ current # NoStation /\ circular
        /\ ring' = RemoveAt(ring, k)
        /\ current' = IF Len(ring) = 1 THEN NoStation ELSE Around(k, 1)
        /\ pos' = [pos EXCEPT ![current] = 0]
        /\ active' = active \ {current}
        /\ devices' = devices \ {current}
        /\ commtype' = commtype \ {current}
        /\ UNCHANGED <<circular, last_device, counters, status>>
    BY <1>2 DEF config_remove
  <2>2. current \in OnRing
    BY <2>1 DEF IInv, CurrentOnRing
  <2>3. k \in 1..Len(ring) /\ ring[k] = current
    BY <2>2, IndexOfOnRing
  <2> HIDE DEF k
  <2>4. /\ Chain(ring, pos)
        /\ pos \in [Station -> Nat] /\ max_position \in Nat /\ num_configs \in Nat
    BY RingIsChain
  <2>5. /\ Chain(ring', pos) /\ Len(ring') = Len(ring) - 1
        /\ OnRing' = OnRing \ {current}
    BY <2>1, <2>3, <2>4, RipOutChain DEF OnRing
  <2>6. pos' \in [Station -> Nat] /\ \A x \in OnRing' : pos'[x] = pos[x]
    <3>1. pos' \in [Station -> Nat]
      BY <2>1, <2>4
    <3>2. OnRing \subseteq Station
      BY <2>4 DEF Chain, OnRing, ToSet
    <3>3. \A x \in OnRing \ {current} : pos'[x] = pos[x]
      BY <2>1, <2>4, <3>2
    <3> QED BY <2>5, <3>1, <3>3
  <2>7. Chain(ring', pos')
    <3>1. \A x \in ToSet(ring') : pos'[x] = pos[x]
      BY <2>6 DEF OnRing
    <3> QED BY <2>4, <2>5, <2>6, <3>1, ChainFrame
  <2>8. ring \in Seq(Station) /\ ring' \in Seq(Station) /\ Len(ring) \in Nat
    BY <2>4, <2>5 DEF Chain
  <2>9. CurrentOnRing'
    <3>1. CASE Len(ring) = 1
      BY <3>1, <2>1, <2>5, <2>8 DEF CurrentOnRing
    <3>2. CASE Len(ring) # 1
      <4>1. Len(ring) > 1
        <5>1. Len(ring) \in Nat
          BY <2>8
        <5>2. k \in 1..Len(ring)
          BY <2>3
        <5>3. \A n \in Nat : \A i \in 1..n : n # 1 => n > 1
          OBVIOUS
        <5> QED BY <3>2, <5>1, <5>2, <5>3
      <4>2. current' = ring[IF k = Len(ring) THEN 1 ELSE k + 1]
        <5>1. k - 1 + 1 = k
          BY <2>3, <2>8
        <5>2. k % Len(ring) = IF k = Len(ring) THEN 0 ELSE k
          BY <4>1, <2>3, <2>8
        <5> QED BY <5>1, <5>2, <3>2, <2>1 DEF Around
      <4>3. PICK i \in 1..Len(ring) : i # k /\ current' = ring[i]
        BY <4>1, <4>2, <2>3, <2>8
      <4>4. ring[i] # ring[k] /\ ring[i] \in OnRing
        <5>1. Sorted(ring, pos)
          BY <2>4 DEF Chain
        <5>2. ring[i] # ring[k]
          BY <5>1, <2>3, <2>4, <2>8, <4>3, SortedIsInjective
        <5>3. ring[i] \in OnRing
          BY <2>8 DEF OnRing, ToSet
        <5> QED BY <5>2, <5>3
      <4>5. current' \in OnRing' /\ ring' # <<>>
        BY <4>1, <4>3, <4>4, <2>3, <2>5, <2>8
      <4> QED BY <4>5 DEF CurrentOnRing
    <3> QED BY <3>1, <3>2
  <2>10. /\ active' \subseteq OnRing' /\ devices' \subseteq OnRing'
         /\ commtype' \subseteq OnRing'
    BY <2>1, <2>5 DEF IInv, TypeOK
  <2>11. num_configs' \in Nat /\ max_position' \in Nat
    BY <2>1, <2>4 DEF counters
  <2> QED BY <2>1, <2>6, <2>7, <2>9, <2>10, <2>11, ChainIsGood
<1> QED BY <1>1, <1>2

LEMMA RemapFreeKeeps ==
  ASSUME IInv, Live, circular, current # NoStation, NEW p \in Nat, RemapFree(p),
         UNCHANGED <<circular, active, devices, commtype, current, last_device, status>>
  PROVE  IInv'
<1> DEFINE c    == IndexOf(current)
           rest == RemoveAt(ring, c)
<1>1. current \in OnRing
  BY DEF IInv, CurrentOnRing
<1>2. c \in 1..Len(ring) /\ ring[c] = current
  BY <1>1, IndexOfOnRing
<1>3. PICK k \in 1..(Len(rest) + 1) :
        WalkStops(rest, pos', p, k) /\ ring' = InsertAt(rest, k, current)
  BY DEF RemapFree
<1>4. pos' = [pos EXCEPT ![current] = p] /\ CountInsert(p)
  BY DEF RemapFree
<1> HIDE DEF c
<1>5. /\ Chain(ring, pos)
      /\ pos \in [Station -> Nat] /\ max_position \in Nat /\ num_configs \in Nat
  BY RingIsChain
<1>6. /\ Chain(rest, pos) /\ Len(rest) = Len(ring) - 1
      /\ ToSet(rest) = OnRing \ {current}
  BY <1>2, <1>5, RipOutChain DEF OnRing
<1> HIDE DEF rest
<1>7. num_configs' \in Nat /\ max_position' \in Nat
  BY <1>4, <1>5 DEF CountInsert, MaxOf
<1>8. current \in Station /\ OnRing \subseteq Station
  BY <1>1, <1>5 DEF Chain, OnRing, ToSet
<1>9. /\ pos' \in [Station -> Nat] /\ pos'[current] = p
      /\ \A x \in ToSet(rest) : pos'[x] = pos[x]
  BY <1>4, <1>5, <1>6, <1>8
<1>10. Chain(rest, pos')
  BY <1>5, <1>6, <1>9, ChainFrame
<1>11. /\ Chain(ring', pos') /\ Len(ring') = Len(rest) + 1
       /\ OnRing' = ToSet(rest) \cup {current}
  BY <1>3, <1>8, <1>9, <1>10, LinkInChain DEF OnRing
<1>12. OnRing' = OnRing
  BY <1>1, <1>6, <1>11
<1>13. CurrentOnRing' /\ active' \subseteq OnRing' /\ devices' \subseteq OnRing'
       /\ commtype' \subseteq OnRing'
  <2>1. ring' # <<>>
    BY <1>1, <1>12 DEF OnRing, ToSet
  <2> QED BY <1>1, <1>12, <2>1 DEF CurrentOnRing, IInv, TypeOK
<1> QED BY <1>7, <1>9, <1>11, <1>13, ChainIsGood

LEMMA RemapSwapKeeps ==
  ASSUME IInv, Live, circular, current # NoStation, NEW p \in Nat, p # pos[current],
         RemapSwap(p),
         UNCHANGED <<circular, active, devices, commtype, current, last_device, status>>
  PROVE  IInv'
<1> DEFINE less1(o) == RemoveAt(ring, o)
           less2(o) == RemoveAt(less1(o),
                         CHOOSE k \in 1..Len(less1(o)) : less1(o)[k] = current)
<1>1. PICK o \in 1..Len(ring) :
        /\ pos[ring[o]] = p
        /\ pos' = [pos EXCEPT ![ring[o]] = pos[current], ![current] = p]
        /\ \E j \in 1..(Len(less2(o)) + 1) :
             /\ WalkStops(less2(o), pos', pos[current], j)
             /\ \E k \in 1..(Len(InsertAt(less2(o), j, ring[o])) + 1) :
                  /\ WalkStops(InsertAt(less2(o), j, ring[o]), pos', p, k)
                  /\ ring' = InsertAt(InsertAt(less2(o), j, ring[o]), k, current)
        /\ num_configs' = num_configs + 2
        /\ max_position' = MaxOf(max_position, MaxOf(p, pos[current]))
  BY DEF RemapSwap
<1> DEFINE old == ring[o]
           r1  == less1(o)
           r2  == less2(o)
<1>2. PICK j \in 1..(Len(r2) + 1) :
        /\ WalkStops(r2, pos', pos[current], j)
        /\ \E k \in 1..(Len(InsertAt(r2, j, old)) + 1) :
             /\ WalkStops(InsertAt(r2, j, old), pos', p, k)
             /\ ring' = InsertAt(InsertAt(r2, j, old), k, current)
  BY <1>1
<1> DEFINE r3 == InsertAt(r2, j, old)
<1>3. PICK k \in 1..(Len(r3) + 1) :
        WalkStops(r3, pos', p, k) /\ ring' = InsertAt(r3, k, current)
  BY <1>2
<1>4. /\ Chain(ring, pos)
      /\ pos \in [Station -> Nat] /\ max_position \in Nat /\ num_configs \in Nat
  BY RingIsChain
<1>5. current \in OnRing
  BY DEF IInv, CurrentOnRing
<1>6. /\ OnRing \subseteq Station /\ old \in OnRing /\ old # current
      /\ pos[current] \in Nat /\ current \in Station
  BY <1>1, <1>4, <1>5 DEF Chain, OnRing, ToSet
<1>7. /\ Chain(r1, pos) /\ Len(r1) = Len(ring) - 1
      /\ ToSet(r1) = OnRing \ {old}
  BY <1>1, <1>4, RipOutChain DEF OnRing
<1> DEFINE c == CHOOSE k1 \in 1..Len(r1) : r1[k1] = current
<1>8. c \in 1..Len(r1) /\ r1[c] = current
  <2>1. current \in ToSet(r1)
    BY <1>5, <1>6, <1>7
  <2>2. r1 \in Seq(Station)
    BY <1>7 DEF Chain
  <2> HIDE DEF r1
  <2>3. \E k1 \in 1..Len(r1) : r1[k1] = current
    BY <2>1, <2>2 DEF ToSet
  <2> QED BY <2>3
<1>9. r2 = RemoveAt(r1, c)
  OBVIOUS
<1> HIDE DEF r1, r2, c, less1, less2
<1>10. /\ Chain(r2, pos) /\ Len(r2) = Len(r1) - 1
       /\ ToSet(r2) = OnRing \ {old, current}
  <2>1. /\ Chain(r2, pos) /\ Len(r2) = Len(r1) - 1
        /\ ToSet(r2) = ToSet(r1) \ {current}
    <3>1. Chain(r1, pos) /\ pos \in [Station -> Nat]
      BY <1>4, <1>7
    <3>2. /\ Chain(RemoveAt(r1, c), pos)
          /\ Len(RemoveAt(r1, c)) = Len(r1) - 1
          /\ ToSet(RemoveAt(r1, c)) = ToSet(r1) \ {r1[c]}
      BY <3>1, <1>8, RipOutChain
    <3> QED BY <3>2, <1>8, <1>9
  <2> QED BY <1>7, <2>1
<1>11. num_configs' \in Nat /\ max_position' \in Nat
  BY <1>1, <1>4, <1>6 DEF MaxOf
<1> HIDE DEF old
<1>12. /\ pos' \in [Station -> Nat] /\ pos'[old] = pos[current] /\ pos'[current] = p
       /\ \A x \in ToSet(r2) : pos'[x] = pos[x]
  BY <1>1, <1>4, <1>6, <1>10 DEF old
<1>13. Chain(r2, pos')
  BY <1>4, <1>10, <1>12, ChainFrame
<1>14. /\ Chain(r3, pos') /\ Len(r3) = Len(r2) + 1
       /\ ToSet(r3) = ToSet(r2) \cup {old}
  BY <1>2, <1>6, <1>12, <1>13, LinkInChain
<1> HIDE DEF r3
<1>15. /\ Chain(ring', pos') /\ Len(ring') = Len(r3) + 1
       /\ OnRing' = ToSet(r3) \cup {current}
  BY <1>3, <1>6, <1>12, <1>14, LinkInChain DEF OnRing
<1>16. OnRing' = OnRing
  BY <1>5, <1>6, <1>10, <1>14, <1>15
<1>17. CurrentOnRing' /\ active' \subseteq OnRing' /\ devices' \subseteq OnRing'
       /\ commtype' \subseteq OnRing'
  <2>1. ring' # <<>>
    BY <1>5, <1>16 DEF OnRing, ToSet
  <2> QED BY <1>5, <1>16, <2>1 DEF CurrentOnRing, IInv, TypeOK
<1> QED BY <1>11, <1>12, <1>15, <1>17, ChainIsGood

LEMMA ConfigRemapKeeps ==
  ASSUME IInv, NEW p \in Nat, config_remap(p)
  PROVE  IInv'
BY FaultKeeps, RemapFreeKeeps, RemapSwapKeeps DEF config_remap

-----------------------------------------------------------------------------
(* The theorems.                                                           *)

(* Every call keeps the inductive invariant.                               *)
LEMMA NextKeeps == ASSUME IInv, [Next]_vars PROVE IInv'
<1>1. \A p \in Positions : p \in Nat
  BY PositionsAssumption
<1>2. CASE config_set_by_name
  BY <1>2, SetCurrentKeeps, FaultKeeps, StutterKeeps DEF config_set_by_name
<1>3. CASE config_inc \/ config_dec
  BY <1>3, BrowseKeeps DEF config_inc, config_dec
<1>4. ASSUME NEW on \in BOOLEAN, config_set_current_active(on)
      PROVE  IInv'
  <2>1. current \in OnRing /\ active \subseteq OnRing
    BY <1>4 DEF config_set_current_active, IInv, TypeOK, CurrentOnRing
  <2>2. active' \subseteq OnRing /\ CurrentOnRing'
    BY <1>4, <2>1 DEF config_set_current_active, IInv, CurrentOnRing, OnRing
  <2> QED BY <1>4, <2>2, RingFixed DEF config_set_current_active, IInv, TypeOK, counters
<1>5. CASE config_activate_all_channels
  <2>1. CurrentOnRing'
    BY <1>5 DEF config_activate_all_channels, IInv, CurrentOnRing, OnRing
  <2> QED BY <1>5, <2>1, RingFixed DEF config_activate_all_channels, IInv, TypeOK, counters
<1>6. CASE config_add_devlist
  <2>1. current \in OnRing
    BY <1>6 DEF config_add_devlist, IInv, CurrentOnRing
  <2>2. devices' \subseteq OnRing /\ CurrentOnRing'
    BY <1>6, <2>1 DEF config_add_devlist, IInv, TypeOK, CurrentOnRing, OnRing
  <2> QED BY <1>6, <2>2, RingFixed DEF config_add_devlist, IInv, TypeOK, counters
<1>7. CASE config_add_commlist
  <2>1. CASE ~Fault
    <3>1. current \in OnRing
      BY <1>7 DEF config_add_commlist, IInv, CurrentOnRing
    <3>2. commtype' \subseteq OnRing /\ CurrentOnRing'
      BY <1>7, <2>1, <3>1 DEF config_add_commlist, IInv, TypeOK, CurrentOnRing, OnRing
    <3> QED BY <1>7, <2>1, <3>2, RingFixed DEF config_add_commlist, IInv, TypeOK, counters
  <2> QED BY <2>1, FaultKeeps
<1>8. CASE config_writeconfig
  <2>1. CASE ~Fault /\ ~UNCHANGED vars
    <3>1. CurrentOnRing'
      BY <1>8, <2>1 DEF config_writeconfig, IInv, CurrentOnRing, OnRing
    <3> QED BY <1>8, <2>1, <3>1, RingFixed
            DEF config_writeconfig, IInv, TypeOK, stationVars, counters
  <2> QED BY <2>1, FaultKeeps, StutterKeeps
<1>9. CASE config_prev
  BY <1>9, ConfigSetKeeps DEF config_prev
<1>10. CASE UNCHANGED vars
  BY <1>10, StutterKeeps
<1>11. CASE config_new
  BY <1>11, NewManagerKeeps, FaultKeeps DEF config_new
<1> QED BY <1>1, <1>2, <1>3, <1>4, <1>5, <1>6, <1>7, <1>8, <1>9, <1>10, <1>11,
           ConfigDeleteKeeps, ConfigSetKeeps, ConfigAddKeeps,
           ConfigRemoveKeeps, ConfigRemapKeeps DEF Next

(* The inductive invariant holds from the first state on.                  *)
LEMMA Inductive == Spec => []IInv
<1>1. Init => IInv
  BY DEF Init, IInv, TypeOK, RingSorted, Sorted, CurrentOnRing, OnRing, ToSet
<1> QED BY <1>1, NextKeeps, PTL DEF Spec

(* The state of the manager always has its type, and flags are kept only   *)
(* for stations on the ring (acq_config.c, every call).                    *)
THEOREM TypeCorrect == Spec => []TypeOK
<1>1. IInv => TypeOK
  BY DEF IInv
<1> QED BY <1>1, Inductive, PTL

(* The ring of acq_config.c is always sorted by strictly increasing        *)
(* position, whatever calls are made, on any number of stations.           *)
THEOREM RingAlwaysSorted == Spec => []RingSorted
<1>1. IInv => RingSorted
  BY DEF IInv
<1> QED BY <1>1, Inductive, PTL

(* mgr->current never dangles: it is NULL or a station on the ring.        *)
THEOREM CurrentNeverDangles == Spec => []CurrentOnRing
<1>1. IInv => CurrentOnRing
  BY DEF IInv
<1> QED BY <1>1, Inductive, PTL

(* A call that leaves the positions alone moves no station.                *)
LEMMA SamePositions == ASSUME UNCHANGED pos PROVE MovesOnlyByRemap
BY DEF MovesOnlyByRemap

(* Every call moves at most the current station and one that takes the     *)
(* place it leaves.                                                        *)
LEMMA NextMoves == ASSUME IInv, [Next]_vars PROVE [MovesOnlyByRemap]_vars
<1>1. CASE config_new
  <2>1. OnRing = {}
    BY <1>1 DEF config_new, IInv, OnRing, ToSet
  <2> QED BY <2>1 DEF MovesOnlyByRemap
<1>2. CASE config_delete
  <2>1. OnRing' = {}
    BY <1>2 DEF config_delete, OnRing, ToSet
  <2> QED BY <2>1 DEF MovesOnlyByRemap
<1>3. ASSUME NEW p \in Positions, NEW named \in BOOLEAN, config_add(p, named)
      PROVE  MovesOnlyByRemap
  <2>1. CASE Fault
    BY <2>1, SamePositions DEF Fault, stationVars
  <2>2. CASE ~Fault
    <3>1. PICK s \in Station \ OnRing :
            \A x \in Station : x # s => pos'[x] = pos[x]
      BY <1>3, <2>2 DEF config_add, IInv, TypeOK
    <3>2. OnRing \subseteq Station
      BY DEF IInv, TypeOK, OnRing, ToSet
    <3>3. \A x \in OnRing : pos'[x] = pos[x]
      BY <3>1, <3>2
    <3> QED BY <3>3 DEF MovesOnlyByRemap
  <2> QED BY <2>1, <2>2
<1>4. CASE config_remove
  <2>1. CASE Fault
    BY <2>1, SamePositions DEF Fault, stationVars
  <2>2. CASE ~Fault
    <3>1. /\ current # NoStation
          /\ ring' = RemoveAt(ring, IndexOf(current))
          /\ pos' = [pos EXCEPT ![current] = 0]
      BY <1>4, <2>2 DEF config_remove
    <3>2. current \in OnRing
      BY <3>1 DEF IInv, CurrentOnRing
    <3>3. IndexOf(current) \in 1..Len(ring) /\ ring[IndexOf(current)] = current
      BY <3>2, IndexOfOnRing
    <3>4. ToSet(RemoveAt(ring, IndexOf(current))) = ToSet(ring) \ {ring[IndexOf(current)]}
      BY <3>3, RingIsChain, RipOutChain
    <3>5. current \notin OnRing'
      BY <3>1, <3>3, <3>4 DEF OnRing
    <3>6. OnRing \subseteq Station /\ pos \in [Station -> Nat]
      BY DEF IInv, TypeOK, OnRing, ToSet
    <3>7. \A x \in OnRing \cap OnRing' : pos'[x] = pos[x]
      BY <3>1, <3>5, <3>6
    <3> QED BY <3>7 DEF MovesOnlyByRemap
  <2> QED BY <2>1, <2>2
<1>5. ASSUME NEW p \in Positions, config_remap(p)
      PROVE  MovesOnlyByRemap
  <2>1. OnRing \subseteq Station /\ pos \in [Station -> Nat]
        /\ (current # NoStation => current \in OnRing)
    BY DEF IInv, TypeOK, CurrentOnRing, OnRing, ToSet
  <2>2. CASE Fault
    BY <2>2, SamePositions DEF Fault, stationVars
  <2>3. ASSUME RemapFree(p), current # NoStation, UNCHANGED current
        PROVE  MovesOnlyByRemap
    <3>1. pos' = [pos EXCEPT ![current] = p]
      BY <2>3 DEF RemapFree
    <3>2. \A x \in OnRing : x # current => pos'[x] = pos[x]
      BY <2>1, <3>1
    <3> QED BY <2>3, <3>2 DEF MovesOnlyByRemap
  <2>4. ASSUME RemapSwap(p), current # NoStation, UNCHANGED current
        PROVE  MovesOnlyByRemap
    <3>1. PICK o \in 1..Len(ring) :
            /\ pos[ring[o]] = p
            /\ pos' = [pos EXCEPT ![ring[o]] = pos[current], ![current] = p]
      BY <2>4 DEF RemapSwap
    <3>2. \A x \in OnRing : x # current /\ x # ring[o] => pos'[x] = pos[x]
      BY <2>1, <3>1
    <3>3. pos'[current] = p
      BY <2>1, <2>4, <3>1
    <3>4. ring[o] \in OnRing /\ (ring[o] # current => pos'[ring[o]] = pos[current])
      BY <2>1, <3>1 DEF IInv, TypeOK, OnRing, ToSet
    <3> QED BY <2>4, <3>1, <3>2, <3>3, <3>4 DEF MovesOnlyByRemap
  <2> QED BY <1>5, <2>2, <2>3, <2>4 DEF config_remap
<1>6. ASSUME NEW p, config_set(p)
      PROVE  MovesOnlyByRemap
  BY <1>6, SamePositions DEF config_set, SetCurrent, Fault, stationVars, vars
<1>7. CASE config_set_by_name \/ config_inc \/ config_dec \/ config_writeconfig
  BY <1>7, SamePositions DEF config_set_by_name, SetCurrent, config_inc, config_dec,
     Browse, config_writeconfig, Fault, stationVars, vars
<1>8. CASE config_activate_all_channels \/ config_add_devlist \/ config_add_commlist
           \/ \E on \in BOOLEAN : config_set_current_active(on)
  BY <1>8, SamePositions DEF config_activate_all_channels, config_add_devlist,
     config_add_commlist, config_set_current_active, Fault, stationVars
<1> QED BY <1>1, <1>2, <1>3, <1>4, <1>5, <1>6, <1>7, <1>8 DEF Next, config_prev

(* Stations move only by a remap, and a remap that meets another station   *)
(* exchanges the two (config_remap), for any number of stations.           *)
THEOREM StationsMoveOnlyByRemap == Spec => StationsMove
BY Inductive, NextMoves, PTL DEF Spec, StationsMove
-----------------------------------------------------------------------------
(* Scanning the ring with config_inc.                                      *)

(* The index reached from index k by following next at most a whole turn.  *)
Onward(k, hops) == IF k + hops <= Len(ring) THEN k + hops ELSE k + hops - Len(ring)

LEMMA AroundOnward ==
  ASSUME IInv, NEW k \in 1..Len(ring), NEW hops \in 0..Len(ring)
  PROVE  /\ Onward(k, hops) \in 1..Len(ring)
         /\ Around(k, hops) = ring[Onward(k, hops)]
         /\ Around(k, hops) \in OnRing
         /\ IndexOf(Around(k, hops)) = Onward(k, hops)
<1>1. ring \in Seq(Station) /\ Len(ring) \in Nat /\ Len(ring) > 0
      /\ pos \in [Station -> Nat] /\ Sorted(ring, pos)
  BY DEF IInv, TypeOK, RingSorted
<1>2. Onward(k, hops) \in 1..Len(ring)
  BY <1>1 DEF Onward
<1>3. (k - 1 + hops) % Len(ring) = Onward(k, hops) - 1
  <2> DEFINE len == Len(ring)
             x   == k - 1 + hops
  <2>1. x \in (-len)..(2 * len - 1) /\ x \in Int /\ ~(x < 0)
    BY <1>1
  <2>2. x % len = IF x < 0 THEN x + len ELSE IF x < len THEN x ELSE x - len
    <3> HIDE DEF x, len
    <3>1. len \in Nat /\ len > 0
      BY <1>1 DEF len
    <3> QED BY <2>1, <3>1, Turn
  <2> QED BY <1>1, <2>1, <2>2 DEF Onward
<1>4. Around(k, hops) = ring[Onward(k, hops)]
  BY <1>1, <1>2, <1>3 DEF Around
<1>5. Around(k, hops) \in OnRing
  BY <1>1, <1>2, <1>4 DEF OnRing, ToSet
<1>6. /\ IndexOf(Around(k, hops)) \in 1..Len(ring)
      /\ ring[IndexOf(Around(k, hops))] = ring[Onward(k, hops)]
  BY <1>4, <1>5, IndexOfOnRing
<1> QED BY <1>1, <1>2, <1>4, <1>5, <1>6, SortedIsInjective

(* From any station config_inc goes to the first active one it meets, or   *)
(* after a whole turn back to that station.                                *)
LEMMA BrowseFromStops ==
  ASSUME IInv, NEW s \in OnRing
  PROVE  \E hops \in 1..Len(ring) :
           /\ BrowseStops(IndexOf(s), 1, hops)
           /\ BrowseFrom(1, s) = Around(IndexOf(s), hops)
<1> DEFINE k == IndexOf(s)
           T == {h \in 1..Len(ring) : Around(k, 1 * h) \in active \/ h = Len(ring)}
<1>1. ring \in Seq(Station) /\ Len(ring) \in Nat /\ k \in 1..Len(ring)
  BY IndexOfOnRing DEF IInv, TypeOK
<1>2. T \in SUBSET Nat /\ Len(ring) \in T
  BY <1>1
<1>3. PICK b \in T : \A h \in T : b <= h
  BY <1>2, LeastNat
<1>4. b \in 1..Len(ring) /\ BrowseStops(k, 1, b)
  <2>1. \A h \in 1..(b - 1) : h \in 1..Len(ring) /\ h \notin T
    BY <1>1, <1>3
  <2> QED BY <1>3, <2>1 DEF BrowseStops
<1> DEFINE c == CHOOSE h \in 1..Len(ring) : BrowseStops(k, 1, h)
<1>5. c \in 1..Len(ring) /\ BrowseStops(k, 1, c)
  BY <1>4
<1>6. BrowseFrom(1, s) = Around(k, 1 * c)
  BY DEF BrowseFrom
<1>7. 1 * c = c
  BY <1>1, <1>5
<1> QED BY <1>5, <1>6, <1>7

(* Scan is the iteration of config_inc from the current station.           *)
LEMMA ScanIterates ==
  ASSUME IInv, ring # <<>>
  PROVE  /\ Scan[0] = current
         /\ \A n \in 1..Len(ring) : Scan[n] = BrowseFrom(1, Scan[n - 1])
<1> DEFINE step == [s \in OnRing |-> BrowseFrom(1, s)]
           Body(f) == [n \in 0..Len(ring) |->
                         IF n = 0 THEN current ELSE BrowseFrom(1, f[n - 1])]
<1>1. Len(ring) \in Nat /\ current \in OnRing
  BY DEF IInv, TypeOK, CurrentOnRing
<1>2. step \in [OnRing -> OnRing]
  <2> SUFFICES ASSUME NEW s \in OnRing PROVE BrowseFrom(1, s) \in OnRing
    OBVIOUS
  <2>1. PICK hops \in 1..Len(ring) : BrowseFrom(1, s) = Around(IndexOf(s), hops)
    BY BrowseFromStops
  <2> QED BY <2>1, <1>1, IndexOfOnRing, AroundOnward
<1>3. PICK f \in [0..Len(ring) -> OnRing] :
        f[0] = current /\ \A n \in 1..Len(ring) : f[n] = step[f[n - 1]]
  <2> DEFINE A == OnRing
             len == Len(ring)
  <2>1. current \in A /\ len \in Nat /\ step \in [A -> A]
    BY <1>1, <1>2
  <2> HIDE DEF step, A, len
  <2>2. Iterates(A, current, step, len) # {}
    BY <2>1, Iteration
  <2> QED BY <2>2 DEF A, len, Iterates
<1>4. f = Body(f)
  <2>1. \A n \in 0..Len(ring) : n # 0 => n \in 1..Len(ring) /\ n - 1 \in 0..Len(ring)
    BY <1>1
  <2>2. \A n \in 0..Len(ring) : f[n] = IF n = 0 THEN current ELSE BrowseFrom(1, f[n - 1])
    BY <2>1, <1>3
  <2> QED BY <2>2
<1>5. Scan = CHOOSE g : g = Body(g)
  BY DEF Scan
<1>6. Scan = Body(Scan)
  <2> HIDE DEF Body
  <2> QED BY <1>4, <1>5
<1>7. \A n \in 0..Len(ring) :
        Scan[n] = IF n = 0 THEN current ELSE BrowseFrom(1, Scan[n - 1])
  BY <1>6
<1> QED BY <1>1, <1>7

(* As long as an active station s has not been met, it is fewer steps of   *)
(* next ahead after every call.                                            *)
LEMMA ScanMeets ==
  ASSUME IInv, ring # <<>>, NEW s \in active
  PROVE  \E n \in 0..Len(ring) : Scan[n] = s
<1> DEFINE len == Len(ring)
           Ahead(n) == \E h \in 0..(len - 1 - n) :
                         Scan[n] \in OnRing /\ Around(IndexOf(Scan[n]), h) = s
           S == {n \in Nat : n <= len => Ahead(n)}
<1> SUFFICES ASSUME \A n \in 0..len : Scan[n] # s PROVE FALSE
  OBVIOUS
<1>1. ring \in Seq(Station) /\ len \in Nat /\ len > 0 /\ current \in OnRing /\ s \in OnRing
  BY DEF IInv, TypeOK, CurrentOnRing
<1>2. Ahead(0)
  <2> DEFINE k == IndexOf(current)
             j == IndexOf(s)
             h == IF j >= k THEN j - k ELSE j - k + len
  <2>1. k \in 1..len /\ j \in 1..len /\ ring[j] = s
    BY <1>1, IndexOfOnRing
  <2>2. h \in 0..(len - 1) /\ h \in 0..len /\ Onward(k, h) = j
    BY <1>1, <2>1 DEF Onward
  <2> HIDE DEF k, j, h
  <2>3. Around(k, h) = s
    BY <2>1, <2>2, AroundOnward
  <2>4. Scan[0] = current
    BY ScanIterates
  <2>5. 0..(len - 1 - 0) = 0..(len - 1)
    BY <1>1
  <2> QED BY <1>1, <2>2, <2>3, <2>4, <2>5 DEF k
<1>3. ASSUME NEW n \in Nat, n < len, Ahead(n) PROVE Ahead(n + 1)
  <2> DEFINE k == IndexOf(Scan[n])
  <2>1. PICK h \in 0..(len - 1 - n) : Around(k, h) = s
    BY <1>3
  <2>2. Scan[n] \in OnRing /\ k \in 1..len /\ ring[k] = Scan[n]
    BY <1>3, IndexOfOnRing
  <2>3. h \in 0..len /\ h # 0
    <3>1. h \in 0..len /\ 0 \in 0..len /\ n \in 0..len
      BY <1>1, <1>3, <2>1
    <3>2. Onward(k, 0) = k
      BY <1>1, <2>2 DEF Onward
    <3>3. Around(k, 0) = Scan[n]
      BY <2>2, <3>1, <3>2, AroundOnward
    <3> QED BY <2>1, <3>1, <3>3
  <2>4. PICK b \in 1..len : BrowseStops(k, 1, b) /\ BrowseFrom(1, Scan[n]) = Around(k, b)
    BY <2>2, BrowseFromStops
  <2>5. b <= h
    <3>1. b > h => h \in 1..(b - 1) /\ 1 * h = h
      BY <1>1, <2>1, <2>3, <2>4
    <3> QED BY <2>1, <2>3, <2>4, <3>1 DEF BrowseStops
  <2>6. Scan[n + 1] = Around(k, b)
    <3>1. n + 1 \in 1..len /\ (n + 1) - 1 = n
      BY <1>1, <1>3
    <3> QED BY <2>4, <3>1, ScanIterates
  <2> HIDE DEF k
  <2>7. b \in 0..len /\ h - b \in 0..len /\ h - b \in 0..(len - 1 - (n + 1))
    BY <1>1, <1>3, <2>1, <2>3, <2>4, <2>5
  <2>8. /\ Scan[n + 1] \in OnRing
        /\ IndexOf(Scan[n + 1]) = Onward(k, b) /\ Onward(k, b) \in 1..len
    BY <2>2, <2>6, <2>7, AroundOnward
  <2>9. Onward(Onward(k, b), h - b) = Onward(k, h)
    BY <1>1, <2>1, <2>2, <2>3, <2>4, <2>5 DEF Onward
  <2>10. Around(IndexOf(Scan[n + 1]), h - b) = s
    <3>1. Around(Onward(k, b), h - b) = ring[Onward(Onward(k, b), h - b)]
      BY <2>7, <2>8, AroundOnward
    <3>2. Around(k, h) = ring[Onward(k, h)]
      BY <2>2, <2>3, AroundOnward
    <3> QED BY <2>1, <2>8, <2>9, <3>1, <3>2
  <2> QED BY <2>7, <2>8, <2>10
<1> HIDE DEF Ahead
<1>4. S = Nat
  <2>1. 0 \in S /\ S \in SUBSET Nat
    BY <1>2
  <2>2. \A n \in S : n + 1 \in S
    <3> TAKE n \in S
    <3>1. n + 1 <= len => n < len /\ n <= len
      BY <1>1
    <3>2. n + 1 <= len => Ahead(n + 1)
      BY <1>3, <3>1
    <3> QED BY <3>2
  <2> HIDE DEF S
  <2> QED BY <2>1, <2>2, SetInduction
<1>5. Ahead(len)
  BY <1>1, <1>4
<1>6. 0..(len - 1 - len) = {}
  BY <1>1
<1> QED BY <1>5, <1>6 DEF Ahead

LEMMA ScanFromInvariant == ASSUME IInv PROVE ScanCoversActive
<1> SUFFICES ASSUME Live, circular, ring # <<>>, NEW s \in active
             PROVE  \E n \in 0..Len(ring) : s = Scan[n]
  BY DEF ScanCoversActive
<1> QED BY ScanMeets

(* Going round with config_inc meets every active station of the ring      *)
(* within one call per station, on a ring of any length (acq_config.c,     *)
(* config_inc).                                                            *)
THEOREM ScanAlwaysCovers == Spec => []ScanCoversActive
BY ScanFromInvariant, Inductive, PTL
-----------------------------------------------------------------------------
(* Browsing back with config_dec.                                          *)

(* The index reached from index k by d links, along next or along prev, of *)
(* at most a whole turn.                                                   *)
Reached(k, d) == IF k + d < 1 THEN k + d + Len(ring)
                 ELSE IF k + d <= Len(ring) THEN k + d ELSE k + d - Len(ring)

LEMMA AroundReached ==
  ASSUME IInv, NEW k \in 1..Len(ring), NEW d \in (-Len(ring))..Len(ring)
  PROVE  /\ Reached(k, d) \in 1..Len(ring)
         /\ Around(k, d) = ring[Reached(k, d)]
         /\ Around(k, d) \in OnRing
         /\ IndexOf(Around(k, d)) = Reached(k, d)
<1>1. ring \in Seq(Station) /\ Len(ring) \in Nat /\ Len(ring) > 0
      /\ pos \in [Station -> Nat] /\ Sorted(ring, pos)
  BY DEF IInv, TypeOK, RingSorted
<1>2. Reached(k, d) \in 1..Len(ring)
  BY <1>1 DEF Reached
<1>3. (k - 1 + d) % Len(ring) = Reached(k, d) - 1
  <2> DEFINE len == Len(ring)
             x   == k - 1 + d
  <2>1. x \in (-len)..(2 * len - 1) /\ x \in Int
    BY <1>1
  <2>2. x % len = IF x < 0 THEN x + len ELSE IF x < len THEN x ELSE x - len
    <3> HIDE DEF x, len
    <3>1. len \in Nat /\ len > 0
      BY <1>1 DEF len
    <3> QED BY <2>1, <3>1, Turn
  <2>3. Reached(k, d) - 1 = IF x < 0 THEN x + len ELSE IF x < len THEN x ELSE x - len
    <3>1. k \in Int /\ d \in Int /\ len \in Int
      BY <1>1
    <3> HIDE DEF len
    <3> QED BY <3>1 DEF Reached, len
  <2> HIDE DEF len
  <2> QED BY <2>2, <2>3 DEF len, x
<1>4. Around(k, d) = ring[Reached(k, d)]
  BY <1>1, <1>2, <1>3 DEF Around
<1>5. Around(k, d) \in OnRing
  BY <1>1, <1>2, <1>4 DEF OnRing, ToSet
<1>6. /\ IndexOf(Around(k, d)) \in 1..Len(ring)
      /\ ring[IndexOf(Around(k, d))] = ring[Reached(k, d)]
  BY <1>4, <1>5, IndexOfOnRing
<1> QED BY <1>1, <1>2, <1>4, <1>5, <1>6, SortedIsInjective

(* The loop of config_inc and config_dec stops, and at one place only.     *)
LEMMA BrowseStopsOnce ==
  ASSUME IInv, NEW s \in OnRing, NEW dir \in {-1, 1}
  PROVE  \E a \in 1..Len(ring) :
           /\ BrowseStops(IndexOf(s), dir, a)
           /\ BrowseFrom(dir, s) = Around(IndexOf(s), dir * a)
           /\ \A b \in 1..Len(ring) : BrowseStops(IndexOf(s), dir, b) => b = a
<1> DEFINE k == IndexOf(s)
           T == {h \in 1..Len(ring) : Around(k, dir * h) \in active \/ h = Len(ring)}
<1>1. ring \in Seq(Station) /\ Len(ring) \in Nat /\ k \in 1..Len(ring)
  BY IndexOfOnRing DEF IInv, TypeOK
<1>2. T \in SUBSET Nat /\ Len(ring) \in T
  BY <1>1
<1>3. PICK n \in T : \A h \in T : n <= h
  BY <1>2, LeastNat
<1>4. n \in 1..Len(ring) /\ BrowseStops(k, dir, n)
  <2>1. \A h \in 1..(n - 1) : h \in 1..Len(ring) /\ h \notin T
    BY <1>1, <1>3
  <2> QED BY <1>3, <2>1 DEF BrowseStops
<1>5. ASSUME NEW b \in 1..Len(ring), BrowseStops(k, dir, b),
             NEW c \in 1..Len(ring), BrowseStops(k, dir, c), b < c
      PROVE  FALSE
  <2>1. b \in 1..(c - 1) /\ b # Len(ring)
    BY <1>1, <1>5
  <2> QED BY <1>5, <2>1 DEF BrowseStops
<1> DEFINE a == CHOOSE h \in 1..Len(ring) : BrowseStops(k, dir, h)
<1>6. a \in 1..Len(ring) /\ BrowseStops(k, dir, a)
  BY <1>4
<1>7. BrowseFrom(dir, s) = Around(k, dir * a)
  BY DEF BrowseFrom
<1> HIDE DEF a
<1>8. ASSUME NEW b \in 1..Len(ring), BrowseStops(k, dir, b) PROVE b = a
  <2>1. ~(a < b) /\ ~(b < a)
    BY <1>5, <1>6, <1>8
  <2> QED BY <1>1, <1>6, <2>1
<1> QED BY <1>6, <1>7, <1>8

(* Going x links and then y more is going x + y links.                     *)
LEMMA ReachedTwice ==
  ASSUME NEW len \in Nat, len = Len(ring), NEW k \in 1..len, NEW x \in (-len)..len,
         NEW y \in (-len)..len, x + y \in (-len)..len
  PROVE  Reached(Reached(k, x), y) = Reached(k, x + y)
<1> DEFINE One(i, d) == IF i + d < 1 THEN i + d + len
                        ELSE IF i + d <= len THEN i + d ELSE i + d - len
<1>1. One(One(k, x), y) = One(k, x + y)
  OBVIOUS
<1> QED BY <1>1 DEF Reached

(* Going a links and then h of them back is going a - h links.             *)
LEMMA ReachedBack ==
  ASSUME Len(ring) \in Nat, NEW k \in 1..Len(ring), NEW dir \in {-1, 1},
         NEW a \in 1..Len(ring), NEW h \in 0..a
  PROVE  /\ dir * a \in (-Len(ring))..Len(ring)
         /\ (-dir) * h \in (-Len(ring))..Len(ring)
         /\ dir * (a - h) \in (-Len(ring))..Len(ring)
         /\ Reached(Reached(k, dir * a), (-dir) * h) = Reached(k, dir * (a - h))
<1> DEFINE x == dir * a
           y == (-dir) * h
           z == dir * (a - h)
<1>1. \/ x = a /\ y = -h /\ z = a - h
      \/ x = -a /\ y = h /\ z = h - a
  <2>1. CASE dir = 1
    BY <2>1
  <2>2. CASE dir = -1
    <3>1. (-dir) * h = h /\ dir * a = -a /\ dir * (a - h) = -(a - h)
      BY <2>2
    <3> QED BY <3>1
  <2> QED BY <2>1, <2>2
<1> HIDE DEF x, y, z
<1>2. /\ x \in (-Len(ring))..Len(ring) /\ y \in (-Len(ring))..Len(ring)
      /\ z \in (-Len(ring))..Len(ring) /\ z = x + y
  BY <1>1
<1>3. Reached(Reached(k, x), y) = Reached(k, z)
  BY <1>2, ReachedTwice
<1> QED BY <1>2, <1>3 DEF x, y, z

LEMMA BrowseReturnsFromInvariant == ASSUME IInv PROVE BrowseReturns
<1> SUFFICES ASSUME current \in active, NEW dir \in {-1, 1}
             PROVE  BrowseFrom(-dir, BrowseFrom(dir, current)) = current
  BY DEF BrowseReturns
<1> DEFINE k == IndexOf(current)
           t == BrowseFrom(dir, current)
           j == IndexOf(t)
<1>1. Len(ring) \in Nat /\ current \in OnRing /\ -dir \in {-1, 1}
  BY DEF IInv, TypeOK
<1>2. k \in 1..Len(ring) /\ ring[k] = current
  BY <1>1, IndexOfOnRing
<1>3. PICK a \in 1..Len(ring) : BrowseStops(k, dir, a) /\ t = Around(k, dir * a)
  BY <1>1, BrowseStopsOnce
<1>4. dir * a \in (-Len(ring))..Len(ring)
  BY <1>1, <1>2, <1>3, ReachedBack, 0 \in 0..a
<1> HIDE DEF k, t
<1>5. t \in OnRing /\ j = Reached(k, dir * a) /\ j \in 1..Len(ring)
  BY <1>2, <1>3, <1>4, AroundReached
<1> HIDE DEF j
<1>6. \A h \in 0..a : Around(j, (-dir) * h) = Around(k, dir * (a - h))
  <2> TAKE h \in 0..a
  <2>1. /\ (-dir) * h \in (-Len(ring))..Len(ring)
        /\ dir * (a - h) \in (-Len(ring))..Len(ring)
        /\ Reached(j, (-dir) * h) = Reached(k, dir * (a - h))
    BY <1>1, <1>2, <1>5, ReachedBack
  <2>2. Around(j, (-dir) * h) = ring[Reached(j, (-dir) * h)]
    BY <1>5, <2>1, AroundReached
  <2>3. Around(k, dir * (a - h)) = ring[Reached(k, dir * (a - h))]
    BY <1>2, <2>1, AroundReached
  <2> QED BY <2>1, <2>2, <2>3
<1>7. Around(j, (-dir) * a) = current
  <2>1. a \in 0..a /\ dir * (a - a) = 0 /\ 0 \in (-Len(ring))..Len(ring)
    BY <1>1
  <2>2. Around(k, 0) = ring[Reached(k, 0)] /\ Reached(k, 0) = k
    BY <1>1, <1>2, <2>1, AroundReached DEF Reached
  <2> QED BY <1>2, <1>6, <2>1, <2>2
<1>8. BrowseStops(j, -dir, a)
  <2>1. ASSUME NEW h \in 1..(a - 1) PROVE Around(j, (-dir) * h) \notin active
    <3>1. h \in 0..a /\ a - h \in 1..(a - 1)
      BY <1>1
    <3> QED BY <1>3, <1>6, <3>1 DEF BrowseStops
  <2> QED BY <1>7, <2>1 DEF BrowseStops
<1>9. BrowseFrom(-dir, t) = Around(j, (-dir) * a)
  BY <1>1, <1>5, <1>8, BrowseStopsOnce DEF j
<1> QED BY <1>7, <1>9 DEF t

(* On a ring of any length, with any stations inactive, config_dec brings  *)
(* a user back to where config_inc took him from, and the other way round. *)
THEOREM BrowseAlwaysReturns == Spec => []BrowseReturns
BY BrowseReturnsFromInvariant, Inductive, PTL
=============================================================================
