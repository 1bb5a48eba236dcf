-------------------------- MODULE ConfigLinksProofs -------------------------
(***************************************************************************)
(* Proofs about ConfigLinks: the pointers of acq_config.c always form the  *)
(* ring they should, and every call on them is the call of the same name   *)
(* in ConfigRing, for any finite set of stations.                          *)
(***************************************************************************)
EXTENDS ConfigLinks, FiniteSetTheorems, SequenceTheorems, TLAPS

(* What is proved about ConfigRing, for the ring the pointers make. *)
RingProofs == INSTANCE ConfigRingProofs WITH
  ring         <- RingOf(m),
  circular     <- m.first = NoStation \/ m.next[m.first] # NoStation,
  pos          <- m.pos,
  active       <- m.active,
  devices      <- m.devices,
  commtype     <- m.commtype,
  current      <- m.current,
  last_device  <- m.last_device,
  num_configs  <- m.num_configs,
  max_position <- m.max_position,
  status       <- m.status

-----------------------------------------------------------------------------
(* The shape of the pointers.                                              *)

(* The indices after and before k on a ring of n stations.                 *)
After(n, k)  == IF k = n THEN 1 ELSE k + 1
Before(n, k) == IF k = 1 THEN n ELSE k - 1

Distinct(r) == \A i, j \in 1..Len(r) : i # j => r[i] # r[j]

(* next leads round the stations of r and prev the other way.              *)
Linked(next, prev, r) ==
  \A k \in 1..Len(r) : /\ next[r[k]] = r[After(Len(r), k)]
                       /\ prev[r[k]] = r[Before(Len(r), k)]

(* The pointers close the ring r, from first.                              *)
Closed(h, r) ==
  /\ r \in Seq(Station)
  /\ Distinct(r)
  /\ h.first = IF r = <<>> THEN NoStation ELSE r[1]
  /\ Linked(h.next, h.prev, r)

(* One station, as config_new leaves it: its links are NULL.               *)
Lone(h, r) ==
  /\ r = <<h.first>>
  /\ h.first \in Station
  /\ h.next[h.first] = NoStation
  /\ h.prev[h.first] = NoStation

Shape(h, r) == Closed(h, r) \/ Lone(h, r)

(* A ring is not longer than there are stations.                           *)
LEMMA RingFits ==
  ASSUME NEW r \in Seq(Station), Distinct(r)
  PROVE  Cardinality(Station) \in Nat /\ Len(r) <= Cardinality(Station)
<1>1. r \in [1..Len(r) -> Station] /\ Len(r) \in Nat
  OBVIOUS
<1>2. r \in Injection(1..Len(r), Station)
  BY <1>1 DEF Injection, IsInjective, Distinct
<1>3. Cardinality(1..Len(r)) <= Cardinality(Station)
  BY <1>2, StationAssumption, FS_Injection
<1>4. Cardinality(1..Len(r)) = Len(r)
  <2>1. ASSUME NEW n \in Nat PROVE Cardinality(1..n) = n
    <3>1. Cardinality(1..n) = IF 1 > n THEN 0 ELSE n - 1 + 1
      BY FS_Interval
    <3> QED BY <3>1
  <2> QED BY <1>1, <2>1
<1>5. Cardinality(Station) \in Nat
  BY StationAssumption, FS_CardinalityType
<1> QED BY <1>3, <1>4, <1>5

-----------------------------------------------------------------------------
(* Walks.                                                                  *)

(* Following a link does what it says.                                     *)
LEMMA FollowingSteps ==
  ASSUME NEW link \in [Station -> Ptr], NEW p \in Ptr, NEW n \in Nat
  PROVE  /\ Following(link, p, n)[0] = p
         /\ \A k \in 1..n :
              Following(link, p, n)[k] =
                IF Following(link, p, n)[k - 1] = NoStation THEN NoStation
                ELSE link[Following(link, p, n)[k - 1]]
<1> DEFINE step == [q \in Ptr |-> IF q = NoStation THEN NoStation ELSE link[q]]
           Body(g) == [k \in 0..n |->
                         IF k = 0 THEN p
                         ELSE IF g[k - 1] = NoStation THEN NoStation ELSE link[g[k - 1]]]
           at == Following(link, p, n)
<1>1. step \in [Ptr -> Ptr]
  BY DEF Ptr
<1>2. PICK f \in [0..n -> Ptr] : f[0] = p /\ \A k \in 1..n : f[k] = step[f[k - 1]]
  <2> HIDE DEF step
  <2>1. RingProofs!Iterates(Ptr, p, step, n) # {}
    BY <1>1, NoStationAssumption, PositionsAssumption, BoundsAssumption,
       RingProofs!Iteration
  <2> QED BY <2>1 DEF RingProofs!Iterates
<1>3. f = Body(f)
  <2>1. \A k \in 0..n : k # 0 => k \in 1..n /\ k - 1 \in 0..n
    OBVIOUS
  <2>2. \A k \in 0..n :
          f[k] = IF k = 0 THEN p
                 ELSE IF f[k - 1] = NoStation THEN NoStation ELSE link[f[k - 1]]
    BY <2>1, <1>2
  <2> QED BY <2>2
<1>4. at = CHOOSE g : g = Body(g)
  BY DEF Following
<1>5. at = Body(at)
  <2> HIDE DEF Body, at
  <2> QED BY <1>3, <1>4
<1> HIDE DEF at
<1>6. \A k \in 0..n :
        at[k] = IF k = 0 THEN p
                ELSE IF at[k - 1] = NoStation THEN NoStation ELSE link[at[k - 1]]
  BY <1>5
<1>7. at[0] = p /\ \A k \in 1..n :
        at[k] = IF at[k - 1] = NoStation THEN NoStation ELSE link[at[k - 1]]
  BY <1>6
<1> QED BY <1>7 DEF at

(* A path of stations along a link is what following the link meets.       *)
LEMMA FollowingPath ==
  ASSUME NEW link \in [Station -> Ptr], NEW n \in Nat, NEW len \in 0..n,
         NEW path \in [0..len -> Station],
         \A k \in 1..len : link[path[k - 1]] = path[k]
  PROVE  \A k \in 0..len : Following(link, path[0], n)[k] = path[k]
<1> DEFINE at == Following(link, path[0], n)
           S  == {k \in Nat : k <= len => at[k] = path[k]}
<1>1. /\ at[0] = path[0]
      /\ \A k \in 1..n :
           at[k] = IF at[k - 1] = NoStation THEN NoStation ELSE link[at[k - 1]]
  <2>1. path[0] \in Ptr
    BY DEF Ptr
  <2> QED BY <2>1, FollowingSteps
<1> HIDE DEF at
<1>2. 0 \in S /\ S \in SUBSET Nat
  BY <1>1
<1>3. \A k \in S : k + 1 \in S
  <2> SUFFICES ASSUME NEW k \in S, k + 1 <= len PROVE at[k + 1] = path[k + 1]
    OBVIOUS
  <2>1. k + 1 \in 1..n /\ k + 1 \in 1..len /\ k \in 0..len /\ (k + 1) - 1 = k
    OBVIOUS
  <2>2. at[k] = path[k] /\ path[k] \in Station
    BY <2>1
  <2>3. at[k + 1] = link[path[k]]
    BY <1>1, <2>1, <2>2, NoStationAssumption
  <2> QED BY <2>1, <2>3
<1> HIDE DEF S
<1>4. S = Nat
  BY <1>2, <1>3, NoStationAssumption, PositionsAssumption, BoundsAssumption,
     RingProofs!SetInduction
<1> QED BY <1>4 DEF S, at
(* Following next from first goes round the ring.                          *)
LEMMA MetClosed ==
  ASSUME NEW h \in Manager, NEW r, Closed(h, r), r # <<>>
  PROVE  /\ Cardinality(Station) \in Nat
         /\ Len(r) \in 1..Cardinality(Station)
         /\ \A k \in 0..(Len(r) - 1) : Met(h)[k] = r[k + 1]
         /\ Met(h)[Len(r)] = r[1]
<1> DEFINE len  == Len(r)
           path == [k \in 0..len |-> IF k = len THEN r[1] ELSE r[k + 1]]
<1>1. r \in Seq(Station) /\ len \in Nat /\ len >= 1 /\ h.first = r[1]
      /\ Cardinality(Station) \in Nat /\ len <= Cardinality(Station)
      /\ \A k \in 1..len : r[k] \in Station /\ h.next[r[k]] = r[After(len, k)]
  BY RingFits DEF Closed, Linked
<1>2. path \in [0..len -> Station] /\ path[0] = r[1]
  BY <1>1
<1>3. \A k \in 1..len : h.next[path[k - 1]] = path[k]
  <2> SUFFICES ASSUME NEW k \in 1..len PROVE h.next[path[k - 1]] = path[k]
    OBVIOUS
  <2>1. path[k - 1] = r[k]
    BY <1>1
  <2>2. path[k] = r[After(len, k)]
    BY <1>1 DEF After
  <2> QED BY <1>1, <2>1, <2>2
<1>4. h.next \in [Station -> Ptr]
  BY DEF Manager
<1> HIDE DEF path
<1>5. \A k \in 0..len : Met(h)[k] = path[k]
  <2> DEFINE n    == Cardinality(Station)
             link == h.next
  <2>1. link \in [Station -> Ptr] /\ n \in Nat /\ len \in 0..n
        /\ \A k \in 1..len : link[path[k - 1]] = path[k]
    BY <1>1, <1>3, <1>4
  <2> HIDE DEF n, link, len
  <2>2. \A k \in 0..len : Following(link, path[0], n)[k] = path[k]
    BY <1>2, <2>1, FollowingPath
  <2> QED BY <1>1, <1>2, <2>2 DEF Met, n, link
<1> QED BY <1>1, <1>5 DEF path

(* The walk over a closed ring ends at the first station it was to stop    *)
(* in, or goes all the way round.                                          *)
LEMMA WalkClosed ==
  ASSUME NEW h \in Manager, NEW r, Closed(h, r), r # <<>>, NEW stops
  PROVE  \/ \E k \in 1..Len(r) : /\ r[k] \in stops
                                 /\ \A j \in 1..(k - 1) : r[j] \notin stops
                                 /\ Walk(h, stops) = [rp |-> r[k], how |-> "found"]
         \/ /\ \A k \in 1..Len(r) : r[k] \notin stops
            /\ Walk(h, stops) = [rp |-> r[1], how |-> "back"]
<1> DEFINE at == Met(h)
           n  == Cardinality(Station)
           len == Len(r)
           Back(k) == k > 0 /\ at[k] = h.first
           Ends(k) == Back(k) \/ at[k] = NoStation \/ at[k] \in stops
           e == CHOOSE i \in 0..n : Ends(i) /\ \A j \in 0..(i - 1) : ~Ends(j)
<1>1. /\ n \in Nat /\ len \in 1..n
      /\ \A k \in 0..(len - 1) : at[k] = r[k + 1]
      /\ at[len] = r[1]
  BY MetClosed
<1>2. /\ h.first = r[1]
      /\ \A k \in 1..len : r[k] \in Station /\ r[k] # NoStation /\ (k # 1 => r[k] # r[1])
  BY <1>1, NoStationAssumption DEF Closed, Distinct
<1>3. Walk(h, stops) =
        [rp |-> at[e],
         how |-> IF Back(e) THEN "back" ELSE IF at[e] = NoStation THEN "null" ELSE "found"]
  BY DEF Walk
<1>4. \A k \in 0..(len - 1) : ~Back(k) /\ (Ends(k) <=> r[k + 1] \in stops)
  <2> TAKE k \in 0..(len - 1)
  <2>1. k + 1 \in 1..len /\ at[k] = r[k + 1] /\ (k > 0 => k + 1 # 1)
    BY <1>1
  <2> QED BY <1>2, <2>1
<1>5. Back(len) /\ Ends(len)
  BY <1>1, <1>2
<1>6. ASSUME NEW i \in 0..n, Ends(i), \A j \in 0..(i - 1) : ~Ends(j)
      PROVE  e = i
  <2> HIDE DEF Ends
  <2>1. e \in 0..n /\ Ends(e) /\ \A j \in 0..(e - 1) : ~Ends(j)
    BY <1>6
  <2>2. ~(e < i) /\ ~(i < e)
    BY <1>1, <1>6, <2>1
  <2> QED BY <1>1, <2>1, <2>2
<1> HIDE DEF at, e
<1>7. CASE \A k \in 1..len : r[k] \notin stops
  <2>1. \A j \in 0..(len - 1) : ~Ends(j)
    <3> SUFFICES ASSUME NEW j \in 0..(len - 1) PROVE ~Ends(j)
      OBVIOUS
    <3>1. j + 1 \in 1..len
      BY <1>1
    <3> QED BY <1>4, <1>7, <3>1
  <2>2. e = len
    <3> HIDE DEF Ends
    <3> QED BY <1>1, <1>5, <1>6, <2>1
  <2> QED BY <1>1, <1>2, <1>3, <1>5, <1>7, <2>2
<1>8. ASSUME NEW k0 \in 1..len, r[k0] \in stops
      PROVE  \E k \in 1..len : /\ r[k] \in stops
                               /\ \A j \in 1..(k - 1) : r[j] \notin stops
                               /\ Walk(h, stops) = [rp |-> r[k], how |-> "found"]
  <2> DEFINE T == {k \in 1..len : r[k] \in stops}
  <2>1. T \in SUBSET Nat /\ T # {}
    BY <1>1, <1>8
  <2>2. PICK k \in T : \A j \in T : k <= j
    BY <2>1, NoStationAssumption, PositionsAssumption, BoundsAssumption,
       RingProofs!LeastNat
  <2>3. k \in 1..len /\ r[k] \in stops /\ \A j \in 1..(k - 1) : r[j] \notin stops
    <3>1. \A j \in 1..(k - 1) : j \in 1..len /\ ~(k <= j)
      BY <1>1, <2>2
    <3> QED BY <2>2, <3>1
  <2> HIDE DEF T
  <2>4. k - 1 \in 0..(len - 1) /\ k - 1 \in 0..n /\ (k - 1) + 1 = k
    BY <1>1, <2>3
  <2>5. Ends(k - 1) /\ ~Back(k - 1) /\ at[k - 1] = r[k]
    BY <1>1, <1>4, <2>3, <2>4
  <2>6. \A j \in 0..((k - 1) - 1) : ~Ends(j)
    <3> SUFFICES ASSUME NEW j \in 0..((k - 1) - 1) PROVE ~Ends(j)
      OBVIOUS
    <3>1. j \in 0..(len - 1) /\ j + 1 \in 1..(k - 1)
      BY <1>1, <2>3
    <3> QED BY <1>4, <2>3, <3>1
  <2>7. e = k - 1
    <3> HIDE DEF Ends
    <3> QED BY <1>6, <2>4, <2>5, <2>6
  <2> QED BY <1>2, <1>3, <2>3, <2>5, <2>7
<1> QED BY <1>7, <1>8
(* Following next from a station as config_new leaves it meets NULL.       *)
LEMMA MetLone ==
  ASSUME NEW h \in Manager, NEW r, Lone(h, r)
  PROVE  /\ Cardinality(Station) \in Nat /\ Cardinality(Station) >= 1
         /\ Met(h)[0] = h.first
         /\ Met(h)[1] = NoStation
<1> DEFINE at == Met(h)
           n  == Cardinality(Station)
<1>1. r \in Seq(Station) /\ Len(r) = 1 /\ Distinct(r)
  BY DEF Lone, Distinct
<1>2. n \in Nat /\ n >= 1
  BY <1>1, RingFits
<1>3. h.next \in [Station -> Ptr] /\ h.first \in Ptr
  BY DEF Manager
<1>4. /\ at[0] = h.first
      /\ \A k \in 1..n : at[k] = IF at[k - 1] = NoStation THEN NoStation ELSE h.next[at[k - 1]]
  BY <1>2, <1>3, FollowingSteps DEF Met
<1>5. 1 \in 1..n /\ 1 - 1 = 0
  BY <1>2
<1> HIDE DEF at
<1>6. at[1] = NoStation
  BY <1>4, <1>5, NoStationAssumption DEF Lone
<1> QED BY <1>2, <1>4, <1>6 DEF at

(* The walk over such a station ends there or at NULL.                     *)
LEMMA WalkLone ==
  ASSUME NEW h \in Manager, NEW r, Lone(h, r), NEW stops
  PROVE  /\ h.first \in stops => Walk(h, stops) = [rp |-> h.first, how |-> "found"]
         /\ NoStation \notin stops /\ h.first \notin stops =>
              Walk(h, stops) = [rp |-> NoStation, how |-> "null"]
<1> DEFINE at == Met(h)
           n  == Cardinality(Station)
           Back(k) == k > 0 /\ at[k] = h.first
           Ends(k) == Back(k) \/ at[k] = NoStation \/ at[k] \in stops
           e == CHOOSE i \in 0..n : Ends(i) /\ \A j \in 0..(i - 1) : ~Ends(j)
<1>1. /\ n \in Nat /\ n >= 1 /\ at[0] = h.first /\ at[1] = NoStation
      /\ h.first \in Station /\ h.first # NoStation
  BY MetLone, NoStationAssumption DEF Lone
<1>2. Walk(h, stops) =
        [rp |-> at[e],
         how |-> IF Back(e) THEN "back" ELSE IF at[e] = NoStation THEN "null" ELSE "found"]
  BY DEF Walk
<1> HIDE DEF at
<1>3. Ends(1) /\ (Ends(0) <=> h.first \in stops) /\ ~Back(0) /\ ~Back(1)
  BY <1>1
<1>4. ASSUME NEW i \in 0..n, Ends(i), \A j \in 0..(i - 1) : ~Ends(j)
      PROVE  e = i
  <2> HIDE DEF Ends
  <2>1. e \in 0..n /\ Ends(e) /\ \A j \in 0..(e - 1) : ~Ends(j)
    BY <1>4
  <2>2. ~(e < i) /\ ~(i < e)
    BY <1>1, <1>4, <2>1
  <2> QED BY <1>1, <2>1, <2>2
<1> HIDE DEF e
<1>5. ASSUME h.first \in stops
      PROVE  Walk(h, stops) = [rp |-> h.first, how |-> "found"]
  <2>1. e = 0
    <3>1. 0 \in 0..n /\ \A j \in 0..(0 - 1) : FALSE
      BY <1>1
    <3> HIDE DEF Ends
    <3> QED BY <1>3, <1>4, <1>5, <3>1
  <2> QED BY <1>1, <1>2, <1>3, <2>1
<1>6. ASSUME h.first \notin stops
      PROVE  Walk(h, stops) = [rp |-> NoStation, how |-> "null"]
  <2>1. e = 1
    <3>1. 1 \in 0..n /\ \A j \in 0..(1 - 1) : j = 0
      BY <1>1
    <3> HIDE DEF Ends
    <3> QED BY <1>3, <1>4, <1>6, <3>1
  <2> QED BY <1>1, <1>2, <1>3, <2>1
<1> QED BY <1>5, <1>6

(* Reading the stations off in next order gives the ring the pointers make. *)
LEMMA RingOfShape ==
  ASSUME NEW h \in Manager, NEW r, Shape(h, r)
  PROVE  RingOf(h) = r
<1> DEFINE at == Met(h)
           n  == Cardinality(Station)
           Stop(k) == at[k] \in {h.first, NoStation}
           e  == CHOOSE k \in 1..n : Stop(k) /\ \A j \in 1..(k - 1) : at[j] \notin {h.first, NoStation}
<1>1. RingOf(h) = IF h.first = NoStation THEN <<>> ELSE [k \in 1..e |-> at[k - 1]]
  BY DEF RingOf
<1>2. CASE r = <<>>
  BY <1>1, <1>2, NoStationAssumption DEF Shape, Closed, Lone
<1>3. ASSUME n \in Nat, NEW i \in 1..n, Stop(i), \A j \in 1..(i - 1) : ~Stop(j)
      PROVE  e = i
  <2>1. e \in 1..n /\ Stop(e) /\ \A j \in 1..(e - 1) : ~Stop(j)
    BY <1>3
  <2> HIDE DEF Stop, e
  <2>2. ~(e < i) /\ ~(i < e)
    BY <1>3, <2>1
  <2> QED BY <1>3, <2>1, <2>2
<1> HIDE DEF e
<1>4. CASE Closed(h, r) /\ r # <<>>
  <2> DEFINE len == Len(r)
  <2>1. /\ n \in Nat /\ len \in 1..n /\ r \in Seq(Station)
        /\ \A k \in 0..(len - 1) : at[k] = r[k + 1]
        /\ at[len] = r[1] /\ h.first = r[1] /\ h.first # NoStation
        /\ \A k \in 1..len : r[k] # NoStation /\ (k # 1 => r[k] # r[1])
    BY <1>4, MetClosed, NoStationAssumption DEF Closed, Distinct
  <2> HIDE DEF at
  <2>2. \A j \in 1..(len - 1) : ~Stop(j)
    <3> SUFFICES ASSUME NEW j \in 1..(len - 1) PROVE ~Stop(j)
      OBVIOUS
    <3>1. j + 1 \in 1..len /\ j \in 0..(len - 1) /\ j + 1 # 1
      BY <2>1
    <3> QED BY <2>1, <3>1
  <2>3. e = len
    <3>1. Stop(len)
      BY <2>1
    <3> HIDE DEF Stop
    <3> QED BY <1>3, <2>1, <2>2, <3>1
  <2>4. RingOf(h) = [k \in 1..len |-> r[k]]
    <3>1. \A k \in 1..len : at[k - 1] = r[k]
      <4> TAKE k \in 1..len
      <4>1. k - 1 \in 0..(len - 1) /\ (k - 1) + 1 = k
        BY <2>1
      <4> QED BY <2>1, <4>1
    <3> QED BY <1>1, <2>1, <2>3, <3>1
  <2> QED BY <2>1, <2>4
<1>5. CASE Lone(h, r)
  <2>1. /\ n \in Nat /\ n >= 1 /\ at[0] = h.first /\ at[1] = NoStation
        /\ h.first # NoStation /\ r = <<h.first>>
    BY <1>5, MetLone, NoStationAssumption DEF Lone
  <2> HIDE DEF at
  <2>2. e = 1
    <3>1. Stop(1) /\ 1 \in 1..n /\ \A j \in 1..(1 - 1) : FALSE
      BY <2>1
    <3> HIDE DEF Stop
    <3> QED BY <1>3, <2>1, <3>1
  <2>3. RingOf(h) = [k \in 1..1 |-> at[k - 1]]
    BY <1>1, <2>1, <2>2
  <2>4. \A k \in 1..1 : at[k - 1] = h.first
    BY <2>1
  <2> QED BY <2>1, <2>3, <2>4
<1> QED BY <1>2, <1>4, <1>5 DEF Shape
-----------------------------------------------------------------------------
(* Linking in and out.                                                     *)

(* What ConfigRing's insertion does to a sequence of stations.             *)
LEMMA InsertedAt ==
  ASSUME NEW r \in Seq(Station), NEW i \in Station, NEW k \in 1..(Len(r) + 1)
  PROVE  /\ Ring!InsertAt(r, k, i) \in Seq(Station)
         /\ Len(Ring!InsertAt(r, k, i)) = Len(r) + 1
         /\ \A j \in 1..(Len(r) + 1) :
              Ring!InsertAt(r, k, i)[j] =
                IF j < k THEN r[j] ELSE IF j = k THEN i ELSE r[j - 1]
         /\ Ring!ToSet(Ring!InsertAt(r, k, i)) = Ring!ToSet(r) \cup {i}
<1>1. /\ Ring!InsertAt(r, k, i) = RingProofs!InsertAt(r, k, i)
      /\ \A s : Ring!ToSet(s) = RingProofs!ToSet(s)
  BY DEF Ring!InsertAt, RingProofs!InsertAt, Ring!ToSet, RingProofs!ToSet
<1> QED BY <1>1, NoStationAssumption, PositionsAssumption, BoundsAssumption,
           RingProofs!InsertAtProperties, RingProofs!InsertAtSet
(* insert: linking i in before index k, or after the last station, closes  *)
(* the longer ring.                                                        *)
LEMMA LinkingIn ==
  ASSUME NEW next \in [Station -> Ptr], NEW prev \in [Station -> Ptr],
         NEW r \in Seq(Station), Distinct(r), Linked(next, prev, r), r # <<>>,
         NEW i \in Station, \A j \in 1..Len(r) : r[j] # i,
         NEW k \in 1..(Len(r) + 1),
         NEW rp, rp = r[IF k = Len(r) + 1 THEN 1 ELSE k]
  PROVE  /\ Distinct(Ring!InsertAt(r, k, i))
         /\ Linked([next EXCEPT ![i] = rp, ![prev[rp]] = i],
                   [prev EXCEPT ![i] = prev[rp], ![rp] = i],
                   Ring!InsertAt(r, k, i))
<1> DEFINE len == Len(r)
           t   == Ring!InsertAt(r, k, i)
           b   == IF k = 1 THEN len ELSE k - 1
           a   == IF k = len + 1 THEN 1 ELSE k
           nx  == [next EXCEPT ![i] = rp, ![prev[rp]] = i]
           pv  == [prev EXCEPT ![i] = prev[rp], ![rp] = i]
<1>1. /\ len \in Nat /\ len >= 1 /\ t \in Seq(Station) /\ Len(t) = len + 1
      /\ \A j \in 1..(len + 1) : t[j] = IF j < k THEN r[j] ELSE IF j = k THEN i ELSE r[j - 1]
      /\ \A j \in 1..len : r[j] \in Station
  BY InsertedAt
<1>2. a \in 1..len /\ b \in 1..len /\ rp = r[a] /\ prev[rp] = r[b]
  BY <1>1 DEF Linked, Before
<1> HIDE DEF t
<1>3. Distinct(t)
  <2> SUFFICES ASSUME NEW x \in 1..(len + 1), NEW y \in 1..(len + 1), x < y
               PROVE  t[x] # t[y]
    BY <1>1 DEF Distinct
  <2> DEFINE u(z) == IF z < k THEN z ELSE z - 1
  <2>1. \A z \in 1..(len + 1) : z # k => u(z) \in 1..len /\ t[z] = r[u(z)]
    BY <1>1
  <2>2. t[k] = i
    BY <1>1
  <2>3. CASE x # k /\ y # k
    <3>1. u(x) # u(y)
      BY <1>1, <2>3
    <3> HIDE DEF u
    <3> QED BY <2>1, <2>3, <3>1 DEF Distinct
  <2>4. CASE x = k
    <3>1. y # k
      BY <1>1, <2>4
    <3> HIDE DEF u
    <3> QED BY <2>1, <2>2, <2>4, <3>1
  <2>5. CASE y = k
    <3>1. x # k
      BY <1>1, <2>5
    <3> HIDE DEF u
    <3> QED BY <2>1, <2>2, <2>5, <3>1
  <2> QED BY <2>3, <2>4, <2>5
<1>4. /\ nx[i] = rp /\ nx[r[b]] = i
      /\ \A j \in 1..len : j # b => nx[r[j]] = next[r[j]]
      /\ pv[i] = r[b] /\ pv[r[a]] = i
      /\ \A j \in 1..len : j # a => pv[r[j]] = prev[r[j]]
  <2>1. \A j \in 1..len : (j # b => r[j] # r[b]) /\ (j # a => r[j] # r[a]) /\ r[j] # i
    BY <1>1, <1>2 DEF Distinct
  <2>2. r[a] # i /\ r[b] # i
    BY <1>2
  <2>3. nx = [next EXCEPT ![i] = r[a], ![r[b]] = i] /\ pv = [prev EXCEPT ![i] = r[b], ![r[a]] = i]
    BY <1>2
  <2>4. r[a] \in Station /\ r[b] \in Station
    BY <1>1, <1>2
  <2> HIDE DEF nx, pv, a, b
  <2> QED BY <1>1, <1>2, <2>1, <2>2, <2>3, <2>4
<1>5. \A j \in 1..len : next[r[j]] = r[After(len, j)] /\ prev[r[j]] = r[Before(len, j)]
  BY DEF Linked
<1> HIDE DEF nx, pv
<1>6. ASSUME NEW j \in 1..(len + 1)
      PROVE  nx[t[j]] = t[After(len + 1, j)]
  <2>1. CASE j = k
    BY <1>1, <1>2, <1>4, <2>1 DEF After
  <2>2. CASE j < k
    <3>1. CASE j = k - 1
      BY <1>1, <1>4, <2>2, <3>1 DEF After
    <3>2. CASE j # k - 1
      <4>1. j \in 1..len /\ j # b /\ t[j] = r[j]
        BY <1>1, <2>2, <3>2
      <4>2. After(len, j) = j + 1 /\ After(len + 1, j) = j + 1 /\ t[j + 1] = r[j + 1]
        BY <1>1, <2>2, <3>2 DEF After
      <4> QED BY <1>4, <1>5, <4>1, <4>2
    <3> QED BY <3>1, <3>2
  <2>3. CASE j > k
    <3>1. t[j] = r[j - 1] /\ j - 1 \in 1..len
      BY <1>1, <2>3
    <3>2. CASE j - 1 = b
      BY <1>1, <1>4, <2>3, <3>1, <3>2 DEF After
    <3>3. CASE j - 1 # b
      <4>1. nx[t[j]] = r[After(len, j - 1)]
        BY <1>4, <1>5, <3>1, <3>3
      <4>2. CASE j = len + 1
        <5>1. After(len, j - 1) = 1 /\ After(len + 1, j) = 1 /\ k # 1
          BY <1>1, <2>3, <3>1, <3>3, <4>2 DEF After
        <5> QED BY <1>1, <4>1, <5>1
      <4>3. CASE j # len + 1
        <5>1. After(len, j - 1) = j /\ After(len + 1, j) = j + 1 /\ t[j + 1] = r[j]
          BY <1>1, <2>3, <4>3 DEF After
        <5> QED BY <4>1, <5>1
      <4> QED BY <4>2, <4>3
    <3> QED BY <3>2, <3>3
  <2> QED BY <1>1, <2>1, <2>2, <2>3
<1>7. ASSUME NEW j \in 1..(len + 1)
      PROVE  pv[t[j]] = t[Before(len + 1, j)]
  <2>1. CASE j = k
    BY <1>1, <1>2, <1>4, <2>1 DEF Before
  <2>2. CASE j < k
    <3>1. t[j] = r[j] /\ j \in 1..len
      BY <1>1, <2>2
    <3>2. CASE j = a
      <4>1. j = 1 /\ k = len + 1 /\ Before(len + 1, j) = len + 1
        BY <1>1, <2>2, <3>2 DEF Before
      <4> QED BY <1>1, <1>4, <3>1, <3>2, <4>1
    <3>3. CASE j # a
      <4>1. pv[t[j]] = r[Before(len, j)]
        BY <1>4, <1>5, <3>1, <3>3
      <4>2. CASE j = 1
        <5>1. Before(len, j) = len /\ Before(len + 1, j) = len + 1 /\ t[len + 1] = r[len]
          BY <1>1, <2>2, <3>3, <4>2 DEF Before
        <5> QED BY <4>1, <5>1
      <4>3. CASE j # 1
        <5>1. Before(len, j) = j - 1 /\ Before(len + 1, j) = j - 1 /\ t[j - 1] = r[j - 1]
          BY <1>1, <2>2, <4>3 DEF Before
        <5> QED BY <4>1, <5>1
      <4> QED BY <4>2, <4>3
    <3> QED BY <3>2, <3>3
  <2>3. CASE j > k
    <3>1. t[j] = r[j - 1] /\ j - 1 \in 1..len /\ Before(len + 1, j) = j - 1
      BY <1>1, <2>3 DEF Before
    <3>2. CASE j - 1 = k
      BY <1>1, <1>4, <2>3, <3>1, <3>2
    <3>3. CASE j - 1 # k
      <4>1. pv[t[j]] = r[Before(len, j - 1)]
        BY <1>1, <1>4, <1>5, <2>3, <3>1, <3>3
      <4>2. Before(len, j - 1) = j - 2 /\ t[j - 1] = r[j - 2]
        BY <1>1, <2>3, <3>3 DEF Before
      <4> QED BY <3>1, <4>1, <4>2
    <3> QED BY <3>2, <3>3
  <2> QED BY <1>1, <2>1, <2>2, <2>3
<1>8. Linked(nx, pv, t)
  BY <1>1, <1>6, <1>7 DEF Linked
<1> QED BY <1>3, <1>8 DEF t, nx, pv
(* What its removal does.                                                  *)
LEMMA RemovedAt ==
  ASSUME NEW r \in Seq(Station), NEW k \in 1..Len(r)
  PROVE  /\ Ring!RemoveAt(r, k) \in Seq(Station)
         /\ Len(Ring!RemoveAt(r, k)) = Len(r) - 1
         /\ \A j \in 1..(Len(r) - 1) :
              Ring!RemoveAt(r, k)[j] = IF j < k THEN r[j] ELSE r[j + 1]
         /\ Distinct(r) =>
              Ring!ToSet(Ring!RemoveAt(r, k)) = Ring!ToSet(r) \ {r[k]}
<1>0. /\ Ring!RemoveAt(r, k) = RingProofs!RemoveAt(r, k)
      /\ \A s : Ring!ToSet(s) = RingProofs!ToSet(s)
  BY DEF Ring!RemoveAt, RingProofs!RemoveAt, Ring!ToSet, RingProofs!ToSet
<1>1. Distinct(r) =>
        Ring!ToSet(Ring!RemoveAt(r, k)) = Ring!ToSet(r) \ {r[k]}
  <2> SUFFICES ASSUME Distinct(r)
               PROVE  Ring!ToSet(Ring!RemoveAt(r, k)) = Ring!ToSet(r) \ {r[k]}
    OBVIOUS
  <2>1. \A i, j \in 1..Len(r) : i # j => r[i] # r[j]
    BY DEF Distinct
  <2> QED BY <1>0, <2>1, NoStationAssumption, PositionsAssumption, BoundsAssumption,
             RingProofs!RemoveAtSet
<1> QED BY <1>0, <1>1, NoStationAssumption, PositionsAssumption, BoundsAssumption,
           RingProofs!RemoveAtProperties

(* ripout: joining the neighbours of r[k] closes the ring without it.      *)
LEMMA LinkingOut ==
  ASSUME NEW next \in [Station -> Ptr], NEW prev \in [Station -> Ptr],
         NEW r \in Seq(Station), Distinct(r), Linked(next, prev, r),
         NEW k \in 1..Len(r)
  PROVE  /\ Distinct(Ring!RemoveAt(r, k))
         /\ Linked([next EXCEPT ![prev[r[k]]] = next[r[k]]],
                   [prev EXCEPT ![next[r[k]]] = prev[r[k]]],
                   Ring!RemoveAt(r, k))
<1> DEFINE len == Len(r)
           t   == Ring!RemoveAt(r, k)
           a   == After(len, k)
           b   == Before(len, k)
           u(z) == IF z < k THEN z ELSE z + 1
           nx  == [next EXCEPT ![prev[r[k]]] = next[r[k]]]
           pv  == [prev EXCEPT ![next[r[k]]] = prev[r[k]]]
<1>1. /\ len \in Nat /\ len >= 1 /\ t \in Seq(Station) /\ Len(t) = len - 1
      /\ \A j \in 1..(len - 1) : t[j] = r[u(j)] /\ u(j) \in 1..len /\ u(j) # k
      /\ \A j \in 1..len : r[j] \in Station
  BY RemovedAt
<1> HIDE DEF t
<1>2. a \in 1..len /\ b \in 1..len /\ next[r[k]] = r[a] /\ prev[r[k]] = r[b]
  BY <1>1 DEF Linked, After, Before
<1>3. Distinct(t)
  <2> SUFFICES ASSUME NEW x \in 1..(len - 1), NEW y \in 1..(len - 1), x # y
               PROVE  t[x] # t[y]
    BY <1>1 DEF Distinct
  <2>1. u(x) # u(y)
    BY <1>1
  <2> HIDE DEF u
  <2> QED BY <1>1, <2>1 DEF Distinct
<1>4. /\ nx[r[b]] = r[a] /\ \A j \in 1..len : j # b => nx[r[j]] = next[r[j]]
      /\ pv[r[a]] = r[b] /\ \A j \in 1..len : j # a => pv[r[j]] = prev[r[j]]
  <2>1. \A j \in 1..len : (j # b => r[j] # r[b]) /\ (j # a => r[j] # r[a])
    BY <1>2 DEF Distinct
  <2>2. nx = [next EXCEPT ![r[b]] = r[a]] /\ pv = [prev EXCEPT ![r[a]] = r[b]]
    BY <1>2
  <2> HIDE DEF nx, pv, a, b
  <2> QED BY <1>1, <1>2, <2>1, <2>2
<1>5. \A j \in 1..len : next[r[j]] = r[After(len, j)] /\ prev[r[j]] = r[Before(len, j)]
  BY DEF Linked
<1> HIDE DEF nx, pv
<1>6. ASSUME NEW j \in 1..(len - 1)
      PROVE  nx[t[j]] = t[After(len - 1, j)]
  <2>0. After(len - 1, j) \in 1..(len - 1)
    BY <1>1 DEF After
  <2>1. t[j] = r[u(j)] /\ t[After(len - 1, j)] = r[u(After(len - 1, j))]
    BY <1>1, <2>0
  <2>2. CASE u(j) = b
    <3>1. u(After(len - 1, j)) = a
      BY <1>1, <2>2 DEF After, Before
    <3> HIDE DEF u, a, b
    <3> QED BY <1>4, <2>1, <2>2, <3>1
  <2>3. CASE u(j) # b
    <3>1. u(After(len - 1, j)) = After(len, u(j)) /\ u(j) \in 1..len
      BY <1>1, <2>3 DEF After, Before
    <3> HIDE DEF u, a, b
    <3> QED BY <1>4, <1>5, <2>1, <2>3, <3>1
  <2> QED BY <2>2, <2>3
<1>7. ASSUME NEW j \in 1..(len - 1)
      PROVE  pv[t[j]] = t[Before(len - 1, j)]
  <2>0. Before(len - 1, j) \in 1..(len - 1)
    BY <1>1 DEF Before
  <2>1. t[j] = r[u(j)] /\ t[Before(len - 1, j)] = r[u(Before(len - 1, j))]
    BY <1>1, <2>0
  <2>2. CASE u(j) = a
    <3>1. u(Before(len - 1, j)) = b
      BY <1>1, <2>2 DEF After, Before
    <3> HIDE DEF u, a, b
    <3> QED BY <1>4, <2>1, <2>2, <3>1
  <2>3. CASE u(j) # a
    <3>1. u(Before(len - 1, j)) = Before(len, u(j)) /\ u(j) \in 1..len
      BY <1>1, <2>3 DEF After, Before
    <3> HIDE DEF u, a, b
    <3> QED BY <1>4, <1>5, <2>1, <2>3, <3>1
  <2> QED BY <2>2, <2>3
<1>8. Linked(nx, pv, t)
  BY <1>1, <1>6, <1>7 DEF Linked
<1> QED BY <1>3, <1>8 DEF t, nx, pv
-----------------------------------------------------------------------------
(* insert and ripout on the manager.                                       *)

(* The fields that insert and ripout leave alone.                          *)
SameRest(g, h) ==
  /\ g.status = h.status /\ g.last_device = h.last_device
  /\ g.heap = h.heap /\ g.pos = h.pos
  /\ g.active = h.active /\ g.devices = h.devices /\ g.commtype = h.commtype

LEMMA CountedFields ==
  ASSUME NEW h \in Manager, NEW i \in Station
  PROVE  /\ Counted(h, i) \in Manager
         /\ SameRest(Counted(h, i), h)
         /\ Counted(h, i).num_configs = h.num_configs + 1
         /\ Counted(h, i).max_position = MaxOf(h.max_position, h.pos[i])
         /\ Counted(h, i).first = h.first /\ Counted(h, i).current = h.current
         /\ Counted(h, i).next = h.next /\ Counted(h, i).prev = h.prev
<1>1. /\ h.num_configs + 1 \in Nat
      /\ MaxOf(h.max_position, h.pos[i]) \in Nat
  BY DEF Manager, MaxOf
<1> DEFINE n == h.num_configs + 1
           x == MaxOf(h.max_position, h.pos[i])
           c == [h EXCEPT !.num_configs = n, !.max_position = x]
<1>2. Counted(h, i) = c
  BY DEF Counted
<1> HIDE DEF n, x
<1>3. c \in Manager
  BY <1>1 DEF Manager, n, x
<1>4. SameRest(c, h)
  BY DEF Manager, SameRest
<1>5. c.num_configs = n /\ c.max_position = x /\ c.first = h.first
      /\ c.current = h.current /\ c.next = h.next /\ c.prev = h.prev
  BY DEF Manager
<1> QED BY <1>2, <1>3, <1>4, <1>5 DEF n, x

LEMMA AloneFields ==
  ASSUME NEW h \in Manager, NEW i \in Station
  PROVE  /\ Alone(h, i) \in Manager
         /\ SameRest(Alone(h, i), h)
         /\ Alone(h, i).num_configs = h.num_configs
         /\ Alone(h, i).max_position = h.max_position
         /\ Alone(h, i).first = i /\ Alone(h, i).current = i
         /\ Alone(h, i).next = [h.next EXCEPT ![i] = i]
         /\ Alone(h, i).prev = [h.prev EXCEPT ![i] = i]
<1> DEFINE nx == [h.next EXCEPT ![i] = i]
           pv == [h.prev EXCEPT ![i] = i]
           c  == [h EXCEPT !.first = i, !.next = nx, !.prev = pv, !.current = i]
<1>1. nx \in [Station -> Ptr] /\ pv \in [Station -> Ptr] /\ i \in Ptr
  BY DEF Manager, Ptr
<1>2. Alone(h, i) = c
  BY DEF Alone
<1> HIDE DEF nx, pv
<1>3. c \in Manager
  BY <1>1 DEF Manager
<1>4. SameRest(c, h)
  BY DEF Manager, SameRest
<1>5. c.num_configs = h.num_configs /\ c.max_position = h.max_position
      /\ c.first = i /\ c.current = i /\ c.next = nx /\ c.prev = pv
  BY DEF Manager
<1> QED BY <1>2, <1>3, <1>4, <1>5 DEF nx, pv

LEMMA LinkInFields ==
  ASSUME NEW h \in Manager, NEW i \in Station, NEW rp \in Station, h.prev[rp] \in Station
  PROVE  /\ LinkIn(h, i, rp) \in Manager
         /\ SameRest(LinkIn(h, i, rp), h)
         /\ LinkIn(h, i, rp).num_configs = h.num_configs
         /\ LinkIn(h, i, rp).max_position = h.max_position
         /\ LinkIn(h, i, rp).first =
              IF rp = h.first /\ h.pos[i] < h.pos[h.first] THEN i ELSE h.first
         /\ LinkIn(h, i, rp).current = i
         /\ LinkIn(h, i, rp).next = [h.next EXCEPT ![i] = rp, ![h.prev[rp]] = i]
         /\ LinkIn(h, i, rp).prev = [h.prev EXCEPT ![i] = h.prev[rp], ![rp] = i]
<1> DEFINE nx == [h.next EXCEPT ![i] = rp, ![h.prev[rp]] = i]
           pv == [h.prev EXCEPT ![i] = h.prev[rp], ![rp] = i]
           f  == IF rp = h.first /\ h.pos[i] < h.pos[h.first] THEN i ELSE h.first
           c  == [h EXCEPT !.next = nx, !.prev = pv, !.first = f, !.current = i]
<1>1. nx \in [Station -> Ptr] /\ pv \in [Station -> Ptr] /\ i \in Ptr
  BY DEF Manager, Ptr
<1>2. f \in Ptr
  BY DEF Manager, Ptr
<1>3. LinkIn(h, i, rp) = c
  BY DEF LinkIn
<1> HIDE DEF nx, pv, f
<1>4. c \in Manager
  BY <1>1, <1>2 DEF Manager
<1>5. SameRest(c, h)
  BY DEF Manager, SameRest
<1>6. c.num_configs = h.num_configs /\ c.max_position = h.max_position
      /\ c.first = f /\ c.current = i /\ c.next = nx /\ c.prev = pv
  BY DEF Manager
<1> QED BY <1>3, <1>4, <1>5, <1>6 DEF nx, pv, f

(* insert puts a station with a position of its own where ConfigRing does. *)
LEMMA InsertCloses ==
  ASSUME NEW h \in Manager, NEW r, Closed(h, r), NEW i \in Station,
         \A j \in 1..Len(r) : r[j] # i /\ h.pos[r[j]] # h.pos[i]
  PROVE  /\ Insert(h, i) \in Manager
         /\ SameRest(Insert(h, i), h)
         /\ Insert(h, i).current = i
         /\ Insert(h, i).num_configs = h.num_configs + 1
         /\ Insert(h, i).max_position = MaxOf(h.max_position, h.pos[i])
         /\ \E k \in 1..(Len(r) + 1) :
              /\ Ring!WalkStops(r, h.pos, h.pos[i], k)
              /\ Closed(Insert(h, i), Ring!InsertAt(r, k, i))
<1> DEFINE c     == Counted(h, i)
           stops == {s \in Station : c.pos[s] >= c.pos[i]}
           w     == Walk(c, stops)
<1>1. /\ c \in Manager /\ SameRest(c, h)
      /\ c.num_configs = h.num_configs + 1
      /\ c.max_position = MaxOf(h.max_position, h.pos[i])
      /\ c.first = h.first /\ c.next = h.next /\ c.prev = h.prev
  BY CountedFields
<1>2. c.pos = h.pos /\ h.pos \in [Station -> Nat]
  BY <1>1 DEF SameRest, Manager
<1>3. Closed(c, r)
  BY <1>1 DEF Closed
<1>4. Insert(h, i) =
        IF c.first = NoStation THEN Alone(c, i)
        ELSE IF w.how = "found" /\ c.pos[w.rp] = c.pos[i] THEN c
        ELSE IF w.how = "null" \/ c.prev[w.rp] = NoStation THEN Wild(c)
        ELSE LinkIn(c, i, w.rp)
  BY DEF Insert
<1> HIDE DEF c
<1>5. r \in Seq(Station) /\ Len(r) \in Nat /\ Distinct(r)
      /\ \A j \in 1..Len(r) : r[j] \in Station
  BY DEF Closed
<1>6. CASE r = <<>>
  <2>1. Insert(h, i) = Alone(c, i)
    BY <1>3, <1>4, <1>6 DEF Closed
  <2>2. Ring!InsertAt(r, 1, i) \in Seq(Station) /\ Len(Ring!InsertAt(r, 1, i)) = 1
        /\ Ring!InsertAt(r, 1, i)[1] = i
    <3> DEFINE one == 1
               t   == Ring!InsertAt(r, one, i)
    <3>1. Len(r) = 0 /\ one = 1
      BY <1>6
    <3>0. one \in 1..(Len(r) + 1)
      BY <3>1
    <3> HIDE DEF one
    <3>2. t \in Seq(Station) /\ Len(t) = Len(r) + 1
          /\ \A j \in 1..(Len(r) + 1) : t[j] = IF j < one THEN r[j] ELSE IF j = one THEN i ELSE r[j - 1]
      <4>1. r \in Seq(Station)
        BY <1>5
      <4> QED BY <3>0, <4>1, InsertedAt
    <3> HIDE DEF t
    <3>3. t[1] = i
      BY <3>0, <3>1, <3>2
    <3> QED BY <3>1, <3>2, <3>3 DEF t, one
  <2>3. Closed(Alone(c, i), Ring!InsertAt(r, 1, i))
    <3> DEFINE t == Ring!InsertAt(r, 1, i)
               g == Alone(c, i)
    <3>0. g.first = i /\ g.next = [c.next EXCEPT ![i] = i] /\ g.prev = [c.prev EXCEPT ![i] = i]
      BY <1>1, AloneFields
    <3>1. g.first = i /\ g.next[i] = i /\ g.prev[i] = i
      <4>1. c.next \in [Station -> Ptr] /\ c.prev \in [Station -> Ptr]
        BY <1>1 DEF Manager
      <4> HIDE DEF g
      <4> QED BY <3>0, <4>1
    <3>2. t \in Seq(Station) /\ Len(t) = 1 /\ t[1] = i /\ t # <<>>
      BY <2>2
    <3> HIDE DEF t, g
    <3>3. Distinct(t)
      BY <3>2 DEF Distinct
    <3>4. Linked(g.next, g.prev, t)
      BY <3>1, <3>2 DEF Linked, After, Before
    <3> QED BY <3>1, <3>2, <3>3, <3>4 DEF Closed, t, g
  <2>4. Ring!WalkStops(r, h.pos, h.pos[i], 1) /\ 1 \in 1..(Len(r) + 1)
    BY <1>5, <1>6 DEF Ring!WalkStops
  <2>5. Alone(c, i) \in Manager /\ SameRest(Alone(c, i), c) /\ Alone(c, i).current = i
        /\ Alone(c, i).num_configs = c.num_configs
        /\ Alone(c, i).max_position = c.max_position
    BY <1>1, AloneFields
  <2>6. SameRest(Alone(c, i), h)
    BY <1>1, <2>5 DEF SameRest
  <2> HIDE DEF stops, w
  <2> QED BY <1>1, <2>1, <2>3, <2>4, <2>5, <2>6
<1>7. ASSUME r # <<>>, NEW k \in 1..(Len(r) + 1),
             w.rp = r[IF k = Len(r) + 1 THEN 1 ELSE k], w.how # "null",
             \A j \in 1..(k - 1) : r[j] \notin stops,
             k <= Len(r) => r[k] \in stops
      PROVE  /\ Insert(h, i) = LinkIn(c, i, w.rp)
             /\ w.rp \in Station /\ c.prev[w.rp] \in Station
             /\ Ring!WalkStops(r, h.pos, h.pos[i], k)
             /\ Closed(Insert(h, i), Ring!InsertAt(r, k, i))
  <2> DEFINE a == IF k = Len(r) + 1 THEN 1 ELSE k
             g == LinkIn(c, i, w.rp)
             t == Ring!InsertAt(r, k, i)
  <2> HIDE DEF w
  <2>1. Len(r) >= 1 /\ a \in 1..Len(r) /\ w.rp = r[a]
    BY <1>5, <1>7
  <2>2. c.prev[w.rp] = r[Before(Len(r), a)] /\ Before(Len(r), a) \in 1..Len(r)
        /\ c.first = r[1]
    BY <1>3, <1>7, <2>1 DEF Closed, Linked, Before
  <2>3. w.rp \in Station /\ c.prev[w.rp] \in Station /\ c.first # NoStation
        /\ c.prev[w.rp] # NoStation
    BY <1>5, <2>1, <2>2, NoStationAssumption
  <2>4. c.pos[w.rp] # c.pos[i]
    BY <1>2, <2>1
  <2>5. Insert(h, i) = g
    BY <1>4, <1>7, <2>3, <2>4
  <2>51. /\ g \in Manager /\ SameRest(g, c)
         /\ g.first = IF w.rp = c.first /\ c.pos[i] < c.pos[c.first] THEN i ELSE c.first
         /\ g.next = [c.next EXCEPT ![i] = w.rp, ![c.prev[w.rp]] = i]
         /\ g.prev = [c.prev EXCEPT ![i] = c.prev[w.rp], ![w.rp] = i]
    <3> DEFINE rp == w.rp
    <3>1. rp \in Station /\ c.prev[rp] \in Station
      BY <2>3
    <3> HIDE DEF rp
    <3>2. /\ LinkIn(c, i, rp) \in Manager /\ SameRest(LinkIn(c, i, rp), c)
          /\ LinkIn(c, i, rp).first = IF rp = c.first /\ c.pos[i] < c.pos[c.first] THEN i ELSE c.first
          /\ LinkIn(c, i, rp).next = [c.next EXCEPT ![i] = rp, ![c.prev[rp]] = i]
          /\ LinkIn(c, i, rp).prev = [c.prev EXCEPT ![i] = c.prev[rp], ![rp] = i]
      BY <1>1, <3>1, LinkInFields
    <3> QED BY <3>2 DEF rp
  <2>6. Ring!WalkStops(r, h.pos, h.pos[i], k)
    <3>1. \A j \in 1..(k - 1) : j \in 1..Len(r) /\ r[j] \in Station
      BY <1>5
    <3>2. \A j \in 1..(k - 1) : h.pos[r[j]] < h.pos[i]
      <4> HIDE DEF stops, a, g, t
      <4> TAKE j \in 1..(k - 1)
      <4>1. r[j] \in Station /\ j \in 1..Len(r)
        BY <3>1
      <4>2. r[j] \notin stops
        BY <1>7
      <4>3. ~(c.pos[r[j]] >= c.pos[i])
        BY <4>1, <4>2 DEF stops
      <4> HIDE DEF c
      <4>4. h.pos[r[j]] \in Nat /\ h.pos[i] \in Nat
        BY <1>2, <4>1
      <4>5. ~(h.pos[r[j]] >= h.pos[i])
        BY <1>2, <4>3
      <4> QED BY <4>4, <4>5
    <3>3. k <= Len(r) => h.pos[r[k]] > h.pos[i]
      BY <1>2, <1>5, <1>7
    <3> QED BY <3>2, <3>3 DEF Ring!WalkStops
  <2>7. g.first = IF k = 1 THEN i ELSE r[1]
    <3>1. g.first = IF w.rp = c.first /\ c.pos[i] < c.pos[c.first] THEN i ELSE c.first
      BY <2>51
    <3> HIDE DEF g
    <3>2. CASE k = 1
      <4>1. w.rp = r[1] /\ h.pos[r[1]] > h.pos[i]
        BY <1>5, <2>1, <2>6, <3>2 DEF Ring!WalkStops
      <4> QED BY <1>2, <2>1, <2>2, <3>1, <3>2, <4>1
    <3>3. CASE k = Len(r) + 1
      <4>1. h.pos[r[1]] < h.pos[i] /\ k # 1
        BY <1>5, <2>1, <2>6, <3>3 DEF Ring!WalkStops
      <4>2. ~(h.pos[i] < h.pos[r[1]])
        BY <1>2, <1>5, <2>1, <4>1
      <4> QED BY <1>2, <2>2, <3>1, <4>1, <4>2
    <3>4. CASE k # 1 /\ k # Len(r) + 1
      <4>1. w.rp # r[1]
        BY <1>5, <2>1, <3>4 DEF Distinct
      <4> QED BY <2>2, <3>1, <3>4, <4>1
    <3> QED BY <3>2, <3>3, <3>4
  <2>8. t \in Seq(Station) /\ t # <<>> /\ t[1] = IF k = 1 THEN i ELSE r[1]
    <3>1. t \in Seq(Station) /\ Len(t) = Len(r) + 1
          /\ \A j \in 1..(Len(r) + 1) : t[j] = IF j < k THEN r[j] ELSE IF j = k THEN i ELSE r[j - 1]
      BY <1>5, InsertedAt
    <3> HIDE DEF t
    <3> QED BY <1>5, <3>1
  <2>9. Distinct(t) /\ Linked(g.next, g.prev, t)
    <3> DEFINE next == c.next
               prev == c.prev
               rp   == w.rp
    <3>1. next \in [Station -> Ptr] /\ prev \in [Station -> Ptr] /\ Linked(next, prev, r)
          /\ rp = r[IF k = Len(r) + 1 THEN 1 ELSE k]
      BY <1>1, <1>3, <1>7 DEF Manager, Closed
    <3>2. g.next = [next EXCEPT ![i] = rp, ![prev[rp]] = i]
          /\ g.prev = [prev EXCEPT ![i] = prev[rp], ![rp] = i]
      BY <2>51
    <3> DEFINE gn == g.next
               gp == g.prev
    <3>3. gn = [next EXCEPT ![i] = rp, ![prev[rp]] = i]
          /\ gp = [prev EXCEPT ![i] = prev[rp], ![rp] = i]
      BY <3>2
    <3>4. Distinct(r) /\ r \in Seq(Station) /\ r # <<>>
          /\ \A j \in 1..Len(r) : r[j] # i
      BY <1>5, <1>7
    <3> HIDE DEF next, prev, rp, g, gn, gp
    <3>5. /\ Distinct(Ring!InsertAt(r, k, i))
          /\ Linked([next EXCEPT ![i] = rp, ![prev[rp]] = i],
                    [prev EXCEPT ![i] = prev[rp], ![rp] = i],
                    Ring!InsertAt(r, k, i))
      BY <3>1, <3>4, LinkingIn
    <3> QED BY <3>3, <3>5 DEF gn, gp
  <2> HIDE DEF g, t
  <2>10. Closed(g, t)
    BY <2>7, <2>8, <2>9 DEF Closed
  <2> QED BY <2>3, <2>5, <2>6, <2>10 DEF g, t
<1>8. ASSUME Insert(h, i) = LinkIn(c, i, w.rp), w.rp \in Station, c.prev[w.rp] \in Station
      PROVE  /\ Insert(h, i) \in Manager /\ SameRest(Insert(h, i), h)
             /\ Insert(h, i).current = i
             /\ Insert(h, i).num_configs = h.num_configs + 1
             /\ Insert(h, i).max_position = MaxOf(h.max_position, h.pos[i])
  <2> DEFINE rp == w.rp
  <2>1. rp \in Station /\ c.prev[rp] \in Station /\ Insert(h, i) = LinkIn(c, i, rp)
    BY <1>8
  <2> HIDE DEF rp, w
  <2>2. LinkIn(c, i, rp) \in Manager /\ SameRest(LinkIn(c, i, rp), c)
        /\ LinkIn(c, i, rp).current = i
        /\ LinkIn(c, i, rp).num_configs = c.num_configs
        /\ LinkIn(c, i, rp).max_position = c.max_position
    <3>1. c \in Manager
      BY <1>1
    <3>2. rp \in Station /\ c.prev[rp] \in Station
      BY <2>1
    <3> DEFINE g == LinkIn(c, i, rp)
    <3>3. /\ g \in Manager /\ SameRest(g, c)
          /\ g.num_configs = c.num_configs
          /\ g.max_position = c.max_position
          /\ g.first = IF rp = c.first /\ c.pos[i] < c.pos[c.first] THEN i ELSE c.first
          /\ g.current = i
          /\ g.next = [c.next EXCEPT ![i] = rp, ![c.prev[rp]] = i]
          /\ g.prev = [c.prev EXCEPT ![i] = c.prev[rp], ![rp] = i]
      BY <3>1, <3>2, LinkInFields
    <3> QED BY <3>3
  <2>3. SameRest(LinkIn(c, i, rp), h)
    BY <1>1, <2>2 DEF SameRest
  <2> QED BY <1>1, <2>1, <2>2, <2>3
<1>9. CASE r # <<>>
  <2>1. \/ \E k \in 1..Len(r) : /\ r[k] \in stops
                                /\ \A j \in 1..(k - 1) : r[j] \notin stops
                                /\ w = [rp |-> r[k], how |-> "found"]
        \/ /\ \A k \in 1..Len(r) : r[k] \notin stops
           /\ w = [rp |-> r[1], how |-> "back"]
    BY <1>1, <1>3, <1>9, WalkClosed
  <2> HIDE DEF stops, w
  <2>2. \E k \in 1..(Len(r) + 1) :
          /\ w.rp = r[IF k = Len(r) + 1 THEN 1 ELSE k] /\ w.how # "null"
          /\ \A j \in 1..(k - 1) : r[j] \notin stops
          /\ k <= Len(r) => r[k] \in stops
    <3>1. CASE \E k \in 1..Len(r) : /\ r[k] \in stops
                                    /\ \A j \in 1..(k - 1) : r[j] \notin stops
                                    /\ w = [rp |-> r[k], how |-> "found"]
      BY <1>5, <3>1
    <3>2. CASE /\ \A k \in 1..Len(r) : r[k] \notin stops
               /\ w = [rp |-> r[1], how |-> "back"]
      <4>1. Len(r) + 1 \in 1..(Len(r) + 1) /\ (Len(r) + 1) - 1 = Len(r) /\ ~(Len(r) + 1 <= Len(r))
        BY <1>5
      <4> QED BY <3>2, <4>1
    <3> QED BY <2>1, <3>1, <3>2
  <2> QED BY <1>7, <1>8, <1>9, <2>2
<1> QED BY <1>6, <1>9
(* g is h with the neighbours x and y of rp joined. *)
IsJoined(g, h, rp, x, y) ==
  /\ g \in Manager
  /\ SameRest(g, h)
  /\ g.num_configs = h.num_configs /\ g.max_position = h.max_position
  /\ g.first = IF rp = h.first THEN x ELSE h.first
  /\ g.current = IF rp = h.current THEN x ELSE h.current
  /\ g.next = [h.next EXCEPT ![y] = x] /\ g.prev = [h.prev EXCEPT ![x] = y]

LEMMA JoinedFields ==
  ASSUME NEW h \in Manager, NEW rp \in Station, NEW x \in Station, NEW y \in Station
  PROVE  IsJoined(Joined(h, rp, x, y), h, rp, x, y)
<1> DEFINE nx == [h.next EXCEPT ![y] = x]
           pv == [h.prev EXCEPT ![x] = y]
           f  == IF rp = h.first THEN x ELSE h.first
           u  == IF rp = h.current THEN x ELSE h.current
           c  == [h EXCEPT !.prev = pv, !.next = nx, !.first = f, !.current = u]
<1>1. nx \in [Station -> Ptr] /\ pv \in [Station -> Ptr]
  BY DEF Manager, Ptr
<1>2. f \in Ptr /\ u \in Ptr
  BY DEF Manager, Ptr
<1>3. Joined(h, rp, x, y) = c
  BY DEF Joined
<1> HIDE DEF nx, pv, f, u
<1>4. c \in Manager
  BY <1>1, <1>2 DEF Manager
<1>5. SameRest(c, h)
  BY DEF Manager, SameRest
<1>6. c.num_configs = h.num_configs /\ c.max_position = h.max_position
      /\ c.first = f /\ c.current = u /\ c.next = nx /\ c.prev = pv
  BY DEF Manager
<1> QED BY <1>3, <1>4, <1>5, <1>6 DEF nx, pv, f, u, IsJoined

LEMMA EmptiedFields ==
  ASSUME NEW h \in Manager, NEW g, g = [h EXCEPT !.first = NoStation, !.current = NoStation]
  PROVE  /\ g \in Manager /\ SameRest(g, h)
         /\ g.num_configs = h.num_configs /\ g.max_position = h.max_position
         /\ g.first = NoStation /\ g.current = NoStation
         /\ g.next = h.next /\ g.prev = h.prev
<1>1. NoStation \in Ptr
  BY DEF Ptr
<1>2. g \in Manager
  BY <1>1 DEF Manager
<1>3. SameRest(g, h)
  BY DEF Manager, SameRest
<1> QED BY <1>2, <1>3 DEF Manager

(* ripout and config_remove take the station at index k off the ring.      *)
LEMMA UnlinkCloses ==
  ASSUME NEW h \in Manager, NEW r, Closed(h, r), NEW k \in 1..Len(r)
  PROVE  /\ Unlink(h, r[k]) \in Manager
         /\ SameRest(Unlink(h, r[k]), h)
         /\ Unlink(h, r[k]).num_configs = h.num_configs
         /\ Unlink(h, r[k]).max_position = h.max_position
         /\ Unlink(h, r[k]).current =
              IF Len(r) = 1 THEN NoStation
              ELSE IF r[k] = h.current THEN r[After(Len(r), k)] ELSE h.current
         /\ Closed(Unlink(h, r[k]), Ring!RemoveAt(r, k))
<1> DEFINE rp == r[k]
           x  == h.next[rp]
           y  == h.prev[rp]
           c  == Joined(h, rp, x, y)
           g  == Unlink(h, rp)
           t  == Ring!RemoveAt(r, k)
           a  == After(Len(r), k)
           b  == Before(Len(r), k)
<1>1. /\ r \in Seq(Station) /\ Len(r) \in Nat /\ Len(r) >= 1 /\ Distinct(r) /\ r # <<>>
      /\ \A j \in 1..Len(r) : r[j] \in Station
      /\ Linked(h.next, h.prev, r) /\ h.first = r[1]
  BY DEF Closed
<1>2. a \in 1..Len(r) /\ b \in 1..Len(r) /\ x = r[a] /\ y = r[b]
  BY <1>1 DEF Linked, After, Before
<1>3. rp \in Station /\ x \in Station /\ y \in Station /\ NoStation \notin {x, y}
  <2> HIDE DEF x, y, a, b
  <2> QED BY <1>1, <1>2, NoStationAssumption
<1>4. rp = x <=> Len(r) = 1
  <2>1. a = k <=> Len(r) = 1
    <3>1. CASE k = Len(r)
      BY <1>1, <3>1 DEF After
    <3>2. CASE k # Len(r)
      BY <1>1, <3>2 DEF After
    <3> QED BY <3>1, <3>2
  <2> HIDE DEF x, y, a, b
  <2> QED BY <1>1, <1>2, <2>1 DEF Distinct
<1>5. g = IF rp = x THEN [c EXCEPT !.first = NoStation, !.current = NoStation] ELSE c
  BY <1>3 DEF Unlink
<1>6. /\ t \in Seq(Station) /\ Len(t) = Len(r) - 1
      /\ \A j \in 1..(Len(r) - 1) : t[j] = IF j < k THEN r[j] ELSE r[j + 1]
  BY <1>1, RemovedAt
<1> HIDE DEF rp, x, y, t
<1>7. /\ c \in Manager /\ SameRest(c, h)
      /\ c.num_configs = h.num_configs /\ c.max_position = h.max_position
      /\ c.first = IF rp = h.first THEN x ELSE h.first
      /\ c.current = IF rp = h.current THEN x ELSE h.current
      /\ c.next = [h.next EXCEPT ![y] = x] /\ c.prev = [h.prev EXCEPT ![x] = y]
  <2>1. rp \in Station /\ x \in Station /\ y \in Station
    BY <1>3
  <2>2. IsJoined(c, h, rp, x, y)
    BY <2>1, JoinedFields
  <2> HIDE DEF c
  <2> QED BY <2>2 DEF IsJoined
<1> HIDE DEF c, g
<1>8. CASE Len(r) = 1
  <2>1. g = [c EXCEPT !.first = NoStation, !.current = NoStation]
    BY <1>4, <1>5, <1>8
  <2>2. /\ g \in Manager /\ SameRest(g, c)
        /\ g.num_configs = c.num_configs /\ g.max_position = c.max_position
        /\ g.first = NoStation /\ g.current = NoStation
    BY <1>7, <2>1, EmptiedFields
  <2>3. t = <<>>
    BY <1>6, <1>8
  <2>4. Closed(g, t)
    BY <2>2, <2>3 DEF Closed, Distinct, Linked
  <2>5. SameRest(g, h)
    BY <1>7, <2>2 DEF SameRest
  <2> QED BY <1>7, <1>8, <2>2, <2>4, <2>5 DEF rp, t, g
<1>9. CASE Len(r) # 1
  <2>1. g = c
    BY <1>4, <1>5, <1>9
  <2>2. Distinct(t) /\ Linked(c.next, c.prev, t)
    <3> DEFINE next == h.next
               prev == h.prev
    <3>1. next \in [Station -> Ptr] /\ prev \in [Station -> Ptr]
          /\ Linked(next, prev, r) /\ Distinct(r) /\ r \in Seq(Station)
      BY <1>1 DEF Manager
    <3>2. c.next = [next EXCEPT ![prev[r[k]]] = next[r[k]]]
          /\ c.prev = [prev EXCEPT ![next[r[k]]] = prev[r[k]]]
      BY <1>7 DEF x, y, rp
    <3> HIDE DEF next, prev
    <3>3. /\ Distinct(Ring!RemoveAt(r, k))
          /\ Linked([next EXCEPT ![prev[r[k]]] = next[r[k]]],
                    [prev EXCEPT ![next[r[k]]] = prev[r[k]]],
                    Ring!RemoveAt(r, k))
      BY <3>1, LinkingOut
    <3> QED BY <3>2, <3>3 DEF t
  <2>3. t # <<>> /\ c.first = t[1]
    <3>1. t # <<>> /\ t[1] = IF 1 < k THEN r[1] ELSE r[2]
      BY <1>1, <1>6, <1>9
    <3>2. rp = h.first <=> k = 1
      BY <1>1 DEF Distinct, rp
    <3>3. k = 1 => x = r[2]
      BY <1>1, <1>2, <1>9 DEF After
    <3> QED BY <1>1, <1>7, <3>1, <3>2, <3>3
  <2>4. Closed(g, t)
    BY <1>6, <2>1, <2>2, <2>3 DEF Closed
  <2>5. g.current = IF r[k] = h.current THEN r[a] ELSE h.current
    BY <1>2, <1>7, <2>1 DEF rp
  <2> QED BY <1>7, <1>9, <2>1, <2>4, <2>5 DEF rp, t, g
<1> QED BY <1>8, <1>9

LEMMA FreeFields ==
  ASSUME NEW h \in Manager, NEW i \in Station
  PROVE  /\ Free(h, i) \in Manager
         /\ Free(h, i).status = h.status /\ Free(h, i).last_device = h.last_device
         /\ Free(h, i).num_configs = h.num_configs
         /\ Free(h, i).max_position = h.max_position
         /\ Free(h, i).first = h.first /\ Free(h, i).current = h.current
         /\ Free(h, i).heap = h.heap \ {i}
         /\ Free(h, i).pos = [h.pos EXCEPT ![i] = 0]
         /\ Free(h, i).next = [h.next EXCEPT ![i] = NoStation]
         /\ Free(h, i).prev = [h.prev EXCEPT ![i] = NoStation]
         /\ Free(h, i).active = h.active \ {i}
         /\ Free(h, i).devices = h.devices \ {i}
         /\ Free(h, i).commtype = h.commtype \ {i}
<1> DEFINE hp == h.heap \ {i}
           ps == [h.pos EXCEPT ![i] = 0]
           nx == [h.next EXCEPT ![i] = NoStation]
           pv == [h.prev EXCEPT ![i] = NoStation]
           ac == h.active \ {i}
           dv == h.devices \ {i}
           ct == h.commtype \ {i}
           c  == [h EXCEPT !.heap = hp, !.pos = ps, !.next = nx, !.prev = pv,
                           !.active = ac, !.devices = dv, !.commtype = ct]
<1>1. /\ hp \in SUBSET Station /\ ac \in SUBSET Station
      /\ dv \in SUBSET Station /\ ct \in SUBSET Station
  BY DEF Manager
<1>2. ps \in [Station -> Nat]
  BY DEF Manager
<1>3. nx \in [Station -> Ptr] /\ pv \in [Station -> Ptr]
  BY DEF Manager, Ptr
<1>4. Free(h, i) = c
  BY DEF Free, Manager
<1> HIDE DEF hp, ps, nx, pv, ac, dv, ct
<1>5. c \in Manager
  BY <1>1, <1>2, <1>3 DEF Manager
<1>6. /\ c.status = h.status /\ c.last_device = h.last_device
      /\ c.num_configs = h.num_configs /\ c.max_position = h.max_position
      /\ c.first = h.first /\ c.current = h.current
  BY DEF Manager
<1>7. /\ c.heap = hp /\ c.pos = ps /\ c.next = nx /\ c.prev = pv
      /\ c.active = ac /\ c.devices = dv /\ c.commtype = ct
  BY DEF Manager
<1> QED BY <1>4, <1>5, <1>6, <1>7 DEF hp, ps, nx, pv, ac, dv, ct

(* A station that is not on the ring can be freed under it.                *)
LEMMA FreeCloses ==
  ASSUME NEW h \in Manager, NEW r, Closed(h, r), NEW i \in Station,
         \A j \in 1..Len(r) : r[j] # i
  PROVE  Closed(Free(h, i), r)
<1> DEFINE g == Free(h, i)
<1>1. /\ g.first = h.first
      /\ g.next = [h.next EXCEPT ![i] = NoStation]
      /\ g.prev = [h.prev EXCEPT ![i] = NoStation]
  BY FreeFields
<1>2. h.next \in [Station -> Ptr] /\ h.prev \in [Station -> Ptr]
  BY DEF Manager
<1> HIDE DEF g
<1>3. Linked(g.next, g.prev, r)
  <2>1. \A j \in 1..Len(r) : r[j] \in Station /\ r[j] # i
    BY DEF Closed
  <2>2. \A j \in 1..Len(r) : g.next[r[j]] = h.next[r[j]] /\ g.prev[r[j]] = h.prev[r[j]]
    BY <1>1, <1>2, <2>1
  <2> QED BY <2>2 DEF Closed, Linked
<1>4. Closed(g, r)
  BY <1>1, <1>3 DEF Closed
<1> QED BY <1>4 DEF g
-----------------------------------------------------------------------------
(* The invariant.                                                          *)

Circular(h) == h.first = NoStation \/ h.next[h.first] # NoStation

(* The pointers make a ring or one unlinked station, and every station     *)
(* allocated is on it.  An unlinked station is as config_new left it, at   *)
(* position 0, so browsing from it writes nothing before it faults; and    *)
(* between managers there is nothing.                                      *)
Good(h) ==
  /\ h \in Manager
  /\ Shape(h, RingOf(h))
  /\ h.heap = Ring!ToSet(RingOf(h))
  /\ Lone(h, RingOf(h)) => h.last_device = 0 /\ h.pos[h.first] = 0
  /\ h.status = "none" => h = NoManager

(* What is inductive: the ring that the pointers make has the invariant of *)
(* ConfigRing too.                                                         *)
LInv == Good(m) /\ Ring!IInv

(* What the shape says of first and of the links.                          *)
LEMMA ShapeFacts ==
  ASSUME NEW h \in Manager, NEW r, Shape(h, r)
  PROVE  /\ r \in Seq(Station) /\ Len(r) \in Nat /\ Distinct(r)
         /\ \A k \in 1..Len(r) : r[k] \in Station
         /\ h.first = NoStation <=> r = <<>>
         /\ Circular(h) <=> Closed(h, r)
         /\ ~Circular(h) <=> Lone(h, r)
         /\ Lone(h, r) => Len(r) = 1 /\ r[1] = h.first /\ r # <<>>
<1>1. CASE Closed(h, r)
  <2>1. r \in Seq(Station) /\ Len(r) \in Nat /\ Distinct(r)
        /\ \A k \in 1..Len(r) : r[k] \in Station
    BY <1>1 DEF Closed
  <2>2. CASE r = <<>>
    BY <1>1, <2>1, <2>2, NoStationAssumption DEF Closed, Lone, Circular
  <2>3. CASE r # <<>>
    <3>0. Len(r) >= 1
      BY <2>1, <2>3
    <3>1. h.first = r[1] /\ r[1] \in Station /\ After(Len(r), 1) \in 1..Len(r)
      <4>1. h.first = r[1]
        BY <1>1, <2>3 DEF Closed
      <4>2. 1 \in 1..Len(r)
        BY <2>1, <3>0
      <4>3. After(Len(r), 1) \in 1..Len(r)
        <5> DEFINE n == Len(r)
        <5>1. n \in Nat /\ n >= 1
          BY <2>1, <3>0
        <5> HIDE DEF n
        <5>2. After(n, 1) \in 1..n
          BY <5>1 DEF After
        <5> QED BY <5>2 DEF n
      <4> QED BY <2>1, <4>1, <4>2, <4>3
    <3>2. h.next[r[1]] = r[After(Len(r), 1)]
      BY <1>1, <3>0, <3>1 DEF Closed, Linked
    <3>3. h.first # NoStation /\ h.next[h.first] \in Station /\ h.next[h.first] # NoStation
      BY <2>1, <3>1, <3>2, NoStationAssumption
    <3> QED BY <1>1, <2>1, <2>3, <3>3 DEF Lone, Circular
  <2> QED BY <2>2, <2>3
<1>2. CASE Lone(h, r)
  <2>1. r = <<h.first>> /\ h.first \in Station /\ h.first # NoStation
        /\ h.next[h.first] = NoStation
    BY <1>2, NoStationAssumption DEF Lone
  <2>2. ~Closed(h, r)
    <3> SUFFICES ASSUME Closed(h, r) PROVE FALSE
      OBVIOUS
    <3>1. 1 \in 1..Len(r) /\ After(Len(r), 1) = 1 /\ r[1] = h.first
      BY <2>1 DEF After
    <3>2. h.next[r[1]] = r[1]
      BY <3>1 DEF Closed, Linked
    <3> QED BY <2>1, <3>1, <3>2
  <2> QED BY <1>2, <2>1, <2>2 DEF Circular, Distinct
<1> QED BY <1>1, <1>2 DEF Shape

(* How a walk over either shape ends.                                      *)
LEMMA WalkShape ==
  ASSUME NEW h \in Manager, NEW r, Shape(h, r), r # <<>>,
         NEW stops, NoStation \notin stops
  PROVE  \/ \E k \in 1..Len(r) : /\ r[k] \in stops
                                 /\ Walk(h, stops) = [rp |-> r[k], how |-> "found"]
         \/ /\ Closed(h, r)
            /\ \A k \in 1..Len(r) : r[k] \notin stops
            /\ Walk(h, stops) = [rp |-> r[1], how |-> "back"]
         \/ /\ Lone(h, r)
            /\ \A k \in 1..Len(r) : r[k] \notin stops
            /\ Walk(h, stops) = [rp |-> NoStation, how |-> "null"]
<1>1. CASE Closed(h, r)
  BY <1>1, WalkClosed
<1>2. CASE Lone(h, r)
  <2>1. Len(r) = 1 /\ r[1] = h.first
    BY <1>2 DEF Lone
  <2>2. /\ h.first \in stops => Walk(h, stops) = [rp |-> h.first, how |-> "found"]
        /\ h.first \notin stops => Walk(h, stops) = [rp |-> NoStation, how |-> "null"]
    BY <1>2, WalkLone
  <2> HIDE DEF Walk
  <2>3. CASE h.first \in stops
    <3>1. 1 \in 1..Len(r) /\ r[1] \in stops /\ Walk(h, stops) = [rp |-> r[1], how |-> "found"]
      BY <2>1, <2>2, <2>3
    <3> QED BY <3>1
  <2>4. CASE h.first \notin stops
    <3>1. \A k \in 1..Len(r) : r[k] \notin stops
      BY <2>1, <2>4
    <3> QED BY <1>2, <2>2, <2>4, <3>1
  <2> QED BY <2>3, <2>4
<1> QED BY <1>1, <1>2 DEF Shape

(* The shape and the ring depend on first and the links alone.             *)
LEMMA SameShape ==
  ASSUME NEW h \in Manager, NEW g \in Manager, NEW r, Shape(h, r),
         g.first = h.first, g.next = h.next, g.prev = h.prev
  PROVE  /\ Shape(g, r) /\ RingOf(g) = r
         /\ Closed(h, r) <=> Closed(g, r)
         /\ Lone(h, r) <=> Lone(g, r)
         /\ Circular(g) <=> Circular(h)
<1>1. (Closed(h, r) <=> Closed(g, r)) /\ (Lone(h, r) <=> Lone(g, r))
  BY DEF Closed, Lone
<1>2. Shape(g, r)
  BY <1>1 DEF Shape
<1> QED BY <1>1, <1>2, RingOfShape DEF Circular

(* isFreePos says what it does in ConfigRing, and a ring that is not       *)
(* closed is asked no further.                                             *)
LEMMA FreePosMaps ==
  ASSUME LInv, NEW p
  PROVE  /\ isFreePos(m, p) =>
              /\ \A k \in 1..Len(RingOf(m)) : m.pos[RingOf(m)[k]] # p
              /\ Closed(m, RingOf(m))
         /\ ~isFreePos(m, p) =>
              /\ RingOf(m) # <<>>
              /\ \/ Lone(m, RingOf(m))
                 \/ \E k \in 1..Len(RingOf(m)) : m.pos[RingOf(m)[k]] = p
<1> DEFINE r == RingOf(m)
           stops == {s \in Station : m.pos[s] = p}
<1>1. m \in Manager /\ Shape(m, r) /\ NoStation \notin stops
  BY NoStationAssumption DEF LInv, Good
<1>2. /\ m.first = NoStation <=> r = <<>>
      /\ \A k \in 1..Len(r) : r[k] \in Station
      /\ Circular(m) <=> Closed(m, r)
  BY <1>1, ShapeFacts
<1>3. isFreePos(m, p) <=> r = <<>> \/ Walk(m, stops).how = "back"
  BY <1>2 DEF isFreePos, AtPos
<1>4. \A k \in 1..Len(r) : r[k] \in stops <=> m.pos[r[k]] = p
  BY <1>2
<1> HIDE DEF r, stops
<1>5. CASE r = <<>>
  BY <1>2, <1>3, <1>5 DEF r, Circular
<1>6. CASE r # <<>>
  <2>1. \/ \E k \in 1..Len(r) : /\ r[k] \in stops
                                /\ Walk(m, stops) = [rp |-> r[k], how |-> "found"]
        \/ /\ Closed(m, r)
           /\ \A k \in 1..Len(r) : r[k] \notin stops
           /\ Walk(m, stops) = [rp |-> r[1], how |-> "back"]
        \/ /\ Lone(m, r)
           /\ \A k \in 1..Len(r) : r[k] \notin stops
           /\ Walk(m, stops) = [rp |-> NoStation, how |-> "null"]
    BY <1>1, <1>6, WalkShape
  <2> QED BY <1>3, <1>4, <1>6, <2>1 DEF r
<1> QED BY <1>5, <1>6
-----------------------------------------------------------------------------
(* Every call on the pointers is the call on the ring.                     *)

(* A call that leaves the links, the positions and the heap alone keeps    *)
(* the ring; it has only to leave an unlinked station's last_device at 0.  *)
LEMMA LinksKept ==
  ASSUME LInv, m' \in Manager,
         m'.first = m.first, m'.next = m.next, m'.prev = m.prev,
         m'.heap = m.heap, m'.pos = m.pos, m'.status # "none",
         Lone(m, RingOf(m)) => m'.last_device = 0
  PROVE  /\ Good(m)'
         /\ RingOf(m)' = RingOf(m)
         /\ Circular(m)' = Circular(m)
<1> DEFINE r == RingOf(m)
           g == m'
<1>1. m \in Manager /\ g \in Manager /\ Shape(m, r) /\ m.heap = Ring!ToSet(r)
      /\ (Lone(m, r) => m.pos[m.first] = 0)
  BY DEF LInv, Good
<1>2. g.first = m.first /\ g.next = m.next /\ g.prev = m.prev
  OBVIOUS
<1> HIDE DEF r, g
<1>3. Shape(g, r) /\ RingOf(g) = r /\ (Lone(m, r) <=> Lone(g, r)) /\ (Circular(g) <=> Circular(m))
  BY <1>1, <1>2, SameShape
<1>4. Good(g)
  BY <1>1, <1>2, <1>3 DEF Good, r, g
<1>5. Circular(m)' = Circular(m)
  BY <1>2 DEF g, Circular
<1> QED BY <1>3, <1>4, <1>5 DEF r, g

(* The stations of an unlinked ring: the one that is current.              *)
LEMMA LoneFacts ==
  ASSUME LInv, Lone(m, RingOf(m))
  PROVE  /\ ~Circular(m) /\ RingOf(m) = <<m.first>> /\ RingOf(m) # <<>>
         /\ Len(RingOf(m)) = 1 /\ RingOf(m)[1] = m.first
         /\ m.current = m.first /\ m.first \in Station /\ m.first # NoStation
         /\ m.last_device = 0 /\ m.pos[m.first] = 0
<1>1. m \in Manager /\ Shape(m, RingOf(m)) /\ m.last_device = 0 /\ m.pos[m.first] = 0
  BY DEF LInv, Good
<1>2. RingOf(m) = <<m.first>> /\ m.first \in Station
  BY DEF Lone
<1>3. ~Circular(m)
  BY <1>1, ShapeFacts
<1>4. m.current \in Ring!ToSet(RingOf(m))
  BY <1>2 DEF LInv, Ring!IInv, Ring!CurrentOnRing, Ring!OnRing
<1>5. m.current = m.first
  <2> DEFINE r == RingOf(m)
  <2>1. r \in Seq(Station) /\ Len(r) = 1 /\ r[1] = m.first
    BY <1>2
  <2> HIDE DEF r
  <2>2. \A s \in Ring!ToSet(r) : s = r[1]
    BY <2>1 DEF Ring!ToSet
  <2> QED BY <1>4, <2>1, <2>2 DEF r
<1> QED BY <1>1, <1>2, <1>3, <1>5, NoStationAssumption

LEMMA FaultMaps ==
  ASSUME LInv, m' = Wild(m)
  PROVE  Ring!Fault /\ Good(m)'
<1>1. m \in Manager
  BY DEF LInv, Good
<1>2. /\ m' \in Manager /\ m'.status = "fault"
      /\ m'.first = m.first /\ m'.next = m.next /\ m'.prev = m.prev
      /\ m'.heap = m.heap /\ m'.pos = m.pos /\ m'.current = m.current
      /\ m'.active = m.active /\ m'.devices = m.devices /\ m'.commtype = m.commtype
      /\ m'.last_device = m.last_device /\ m'.num_configs = m.num_configs
      /\ m'.max_position = m.max_position
  BY <1>1 DEF Wild, Manager
<1>3. Lone(m, RingOf(m)) => m.last_device = 0
  BY DEF LInv, Good
<1>4. Good(m)' /\ RingOf(m)' = RingOf(m) /\ Circular(m)' = Circular(m)
  BY <1>2, <1>3, LinksKept
<1> QED BY <1>2, <1>4 DEF Ring!Fault, Ring!stationVars, Ring!counters, Circular

LEMMA StutterMaps ==
  ASSUME LInv, m' = m
  PROVE  UNCHANGED Ring!vars /\ Good(m)'
BY DEF Ring!vars, Ring!stationVars, LInv, Good

LEMMA SetCurrentMaps ==
  ASSUME LInv, Live, NEW s \in Ring!ToSet(RingOf(m)), m' = SetCurrent(s)
  PROVE  Ring!SetCurrent(s) /\ Good(m)'
<1>1. m \in Manager /\ Shape(m, RingOf(m)) /\ m.status # "none"
  BY DEF LInv, Good, Live
<1>2. s \in Station
  BY <1>1, ShapeFacts DEF Ring!ToSet
<1>3. CurrentId \in Nat /\ CurrentId = Ring!CurrentId
  BY <1>1 DEF CurrentId, Ring!CurrentId, Manager, Ptr
<1>4. /\ m' \in Manager /\ m'.status = m.status /\ m'.current = s
      /\ m'.first = m.first /\ m'.next = m.next /\ m'.prev = m.prev
      /\ m'.heap = m.heap /\ m'.pos = m.pos
      /\ m'.active = m.active /\ m'.devices = m.devices /\ m'.commtype = m.commtype
      /\ m'.last_device = IF s = m.current THEN m.last_device ELSE CurrentId
      /\ m'.num_configs = m.num_configs /\ m'.max_position = m.max_position
  <2>1. s \in Ptr
    BY <1>2 DEF Ptr
  <2>2. CASE s = m.current
    BY <1>1, <2>2 DEF SetCurrent
  <2>3. CASE s # m.current
    <3> DEFINE l == CurrentId
    <3>1. m' = [m EXCEPT !.last_device = l, !.current = s] /\ l \in Nat
      BY <1>3, <2>3 DEF SetCurrent
    <3> HIDE DEF l
    <3>2. m' \in Manager /\ m'.current = s /\ m'.last_device = l
      BY <1>1, <2>1, <3>1 DEF Manager
    <3>3. /\ m'.status = m.status
          /\ m'.first = m.first /\ m'.next = m.next /\ m'.prev = m.prev
          /\ m'.heap = m.heap /\ m'.pos = m.pos
          /\ m'.active = m.active /\ m'.devices = m.devices /\ m'.commtype = m.commtype
          /\ m'.num_configs = m.num_configs /\ m'.max_position = m.max_position
      BY <1>1, <3>1 DEF Manager
    <3> QED BY <2>3, <3>2, <3>3 DEF l
  <2> QED BY <2>2, <2>3
<1>5. Lone(m, RingOf(m)) => m'.last_device = 0
  <2> SUFFICES ASSUME Lone(m, RingOf(m)) PROVE m'.last_device = 0
    OBVIOUS
  <2>1. m.current = m.first /\ m.first # NoStation /\ m.last_device = 0 /\ m.pos[m.first] = 0
    BY LoneFacts
  <2> QED BY <1>4, <2>1 DEF CurrentId
<1>6. Good(m)' /\ RingOf(m)' = RingOf(m) /\ Circular(m)' = Circular(m)
  BY <1>1, <1>4, <1>5, LinksKept
<1> QED BY <1>3, <1>4, <1>6 DEF Ring!SetCurrent, Ring!stationVars, Ring!counters, Circular
(* The walk of config_set and config_set_by_name for the stations stops.   *)
LEMMA ChooseMaps ==
  ASSUME LInv, Live, NEW stops, NoStation \notin stops,
         m' = IF m.first = NoStation \/ Walk(m, stops).how = "back" THEN m
              ELSE IF Walk(m, stops).how = "null" THEN Wild(m)
              ELSE SetCurrent(Walk(m, stops).rp)
  PROVE  /\ Good(m)'
         /\ \/ \E k \in 1..Len(RingOf(m)) :
                 RingOf(m)[k] \in stops /\ Ring!SetCurrent(RingOf(m)[k])
            \/ /\ \A k \in 1..Len(RingOf(m)) : RingOf(m)[k] \notin stops
               /\ Ring!Detached /\ Ring!Fault
            \/ /\ \A k \in 1..Len(RingOf(m)) : RingOf(m)[k] \notin stops
               /\ ~Ring!Detached /\ UNCHANGED Ring!vars
<1> DEFINE r == RingOf(m)
           w == Walk(m, stops)
<1>1. m \in Manager /\ Shape(m, r)
  BY DEF LInv, Good
<1>2. /\ m.first = NoStation <=> r = <<>>
      /\ Len(r) \in Nat
      /\ Circular(m) <=> Closed(m, r)
      /\ ~Circular(m) <=> Lone(m, r)
  BY <1>1, ShapeFacts
<1>3. Ring!Detached <=> r # <<>> /\ ~Circular(m)
  BY DEF Ring!Detached, Circular
<1>4. CASE r = <<>>
  <2>1. m' = m
    BY <1>2, <1>4
  <2>2. \A k \in 1..Len(RingOf(m)) : RingOf(m)[k] \notin stops
    BY <1>2, <1>4
  <2>3. UNCHANGED Ring!vars /\ Good(m)'
    BY <2>1, StutterMaps
  <2> QED BY <1>3, <1>4, <2>2, <2>3
<1>5. CASE r # <<>>
  <2>1. m.first # NoStation
    BY <1>2, <1>5
  <2> HIDE DEF r, w
  <2>2. CASE \E k \in 1..Len(r) : r[k] \in stops /\ w = [rp |-> r[k], how |-> "found"]
    <3>1. PICK k \in 1..Len(r) : r[k] \in stops /\ w = [rp |-> r[k], how |-> "found"]
      BY <2>2
    <3>2. m' = SetCurrent(r[k])
      BY <2>1, <3>1 DEF w
    <3>3. r[k] \in Ring!ToSet(r)
      BY <1>2 DEF Ring!ToSet
    <3>4. Ring!SetCurrent(r[k]) /\ Good(m)'
      <4> DEFINE s == r[k]
      <4>1. s \in Ring!ToSet(RingOf(m)) /\ m' = SetCurrent(s)
        BY <3>2, <3>3 DEF r
      <4> HIDE DEF s
      <4>2. Ring!SetCurrent(s) /\ Good(m)'
        BY <4>1, SetCurrentMaps
      <4> QED BY <4>2 DEF s
    <3> QED BY <3>1, <3>4 DEF r
  <2>3. CASE /\ Closed(m, r)
             /\ \A k \in 1..Len(r) : r[k] \notin stops
             /\ w = [rp |-> r[1], how |-> "back"]
    <3>1. m' = m
      BY <2>3 DEF w
    <3>2. UNCHANGED Ring!vars /\ Good(m)'
      BY <3>1, StutterMaps
    <3> QED BY <1>2, <1>3, <2>3, <3>2 DEF r
  <2>4. CASE /\ Lone(m, r)
             /\ \A k \in 1..Len(r) : r[k] \notin stops
             /\ w = [rp |-> NoStation, how |-> "null"]
    <3>1. m' = Wild(m)
      BY <2>1, <2>4 DEF w
    <3>2. Ring!Fault /\ Good(m)'
      BY <3>1, FaultMaps
    <3> QED BY <1>2, <1>3, <1>5, <2>4, <3>2 DEF r
  <2> QED BY <1>1, <1>5, <2>2, <2>3, <2>4, WalkShape DEF w
<1> QED BY <1>4, <1>5

LEMMA ConfigSetMaps ==
  ASSUME LInv, NEW p, config_set(p)
  PROVE  Ring!config_set(p) /\ Good(m)'
<1> DEFINE stops == {s \in Station : m.pos[s] = p}
<1>1. Live /\ NoStation \notin stops
      /\ m' = IF m.first = NoStation \/ Walk(m, stops).how = "back" THEN m
              ELSE IF Walk(m, stops).how = "null" THEN Wild(m)
              ELSE SetCurrent(Walk(m, stops).rp)
  BY NoStationAssumption DEF config_set, AtPos
<1>2. \A k \in 1..Len(RingOf(m)) : RingOf(m)[k] \in stops <=> m.pos[RingOf(m)[k]] = p
  <2>1. m \in Manager /\ Shape(m, RingOf(m))
    BY DEF LInv, Good
  <2> QED BY <2>1, ShapeFacts
<1> HIDE DEF stops
<1>3. /\ Good(m)'
      /\ \/ \E k \in 1..Len(RingOf(m)) :
              RingOf(m)[k] \in stops /\ Ring!SetCurrent(RingOf(m)[k])
         \/ /\ \A k \in 1..Len(RingOf(m)) : RingOf(m)[k] \notin stops
            /\ Ring!Detached /\ Ring!Fault
         \/ /\ \A k \in 1..Len(RingOf(m)) : RingOf(m)[k] \notin stops
            /\ ~Ring!Detached /\ UNCHANGED Ring!vars
  BY <1>1, ChooseMaps
<1> QED BY <1>1, <1>2, <1>3 DEF Ring!config_set, Ring!FreePos, Ring!Live, Live

LEMMA ConfigSetByNameMaps ==
  ASSUME LInv, NEW named \in SUBSET Station, config_set_by_name(named)
  PROVE  Ring!config_set_by_name /\ Good(m)'
<1>1. Live /\ NoStation \notin named
      /\ m' = IF m.first = NoStation \/ Walk(m, named).how = "back" THEN m
              ELSE IF Walk(m, named).how = "null" THEN Wild(m)
              ELSE SetCurrent(Walk(m, named).rp)
  BY NoStationAssumption DEF config_set_by_name
<1>2. Good(m)' /\ \/ \E k \in 1..Len(RingOf(m)) : Ring!SetCurrent(RingOf(m)[k])
                  \/ Ring!Detached /\ Ring!Fault
                  \/ ~Ring!Detached /\ UNCHANGED Ring!vars
  BY <1>1, ChooseMaps
<1>3. \A k \in 1..Len(RingOf(m)) : RingOf(m)[k] \in Ring!OnRing
  BY DEF Ring!OnRing, Ring!ToSet
<1> QED BY <1>1, <1>2, <1>3 DEF Ring!config_set_by_name, Ring!Live, Live
(* The calls that only turn a flag of the stations.                        *)
LEMMA SetActiveMaps ==
  ASSUME LInv, NEW on \in BOOLEAN, config_set_current_active(on)
  PROVE  Ring!config_set_current_active(on) /\ Good(m)'
<1> DEFINE ac == IF on THEN m.active \cup {m.current} ELSE m.active \ {m.current}
<1>1. m \in Manager /\ m.status = "live" /\ m.current # NoStation
      /\ (Lone(m, RingOf(m)) => m.last_device = 0)
  BY DEF LInv, Good, config_set_current_active, Live
<1>2. m' = [m EXCEPT !.active = ac] /\ ac \in SUBSET Station
  BY <1>1 DEF config_set_current_active, Manager, Ptr
<1> HIDE DEF ac
<1>3. m' \in Manager /\ m'.active = ac
  BY <1>1, <1>2 DEF Manager
<1>4. /\ m'.status = m.status /\ m'.current = m.current
      /\ m'.first = m.first /\ m'.next = m.next /\ m'.prev = m.prev
      /\ m'.heap = m.heap /\ m'.pos = m.pos
      /\ m'.devices = m.devices /\ m'.commtype = m.commtype
      /\ m'.last_device = m.last_device
      /\ m'.num_configs = m.num_configs /\ m'.max_position = m.max_position
  BY <1>1, <1>2 DEF Manager
<1>5. Good(m)' /\ RingOf(m)' = RingOf(m) /\ Circular(m)' = Circular(m)
  BY <1>1, <1>3, <1>4, LinksKept
<1> QED BY <1>1, <1>3, <1>4, <1>5
        DEF Ring!config_set_current_active, Ring!Live, Ring!counters, Circular, ac

LEMMA ActivateAllMaps ==
  ASSUME LInv, config_activate_all_channels
  PROVE  Ring!config_activate_all_channels /\ Good(m)'
<1> DEFINE ac == Ring!ToSet(RingOf(m))
<1>1. m \in Manager /\ m.status = "live" /\ (Lone(m, RingOf(m)) => m.last_device = 0)
      /\ ac = m.heap
  BY DEF LInv, Good, config_activate_all_channels, Live
<1>2. ToSet(RingOf(m)) = ac
  BY DEF ToSet, Ring!ToSet
<1>3. m.active \subseteq ac
  BY DEF LInv, Ring!IInv, Ring!TypeOK, Ring!OnRing
<1>4. m' = [m EXCEPT !.active = ac] /\ ac \in SUBSET Station
  <2>1. m.active \cup ac = ac
    BY <1>3
  <2>2. m' = [m EXCEPT !.active = m.active \cup ac]
    BY <1>2 DEF config_activate_all_channels
  <2> QED BY <1>1, <2>1, <2>2 DEF Manager
<1> HIDE DEF ac
<1>5. m' \in Manager /\ m'.active = ac
  BY <1>1, <1>4 DEF Manager
<1>6. /\ m'.status = m.status /\ m'.current = m.current
      /\ m'.first = m.first /\ m'.next = m.next /\ m'.prev = m.prev
      /\ m'.heap = m.heap /\ m'.pos = m.pos
      /\ m'.devices = m.devices /\ m'.commtype = m.commtype
      /\ m'.last_device = m.last_device
      /\ m'.num_configs = m.num_configs /\ m'.max_position = m.max_position
  BY <1>1, <1>4 DEF Manager
<1>7. Good(m)' /\ RingOf(m)' = RingOf(m) /\ Circular(m)' = Circular(m)
  BY <1>1, <1>5, <1>6, LinksKept
<1> QED BY <1>1, <1>5, <1>6, <1>7
        DEF Ring!config_activate_all_channels, Ring!OnRing, Ring!Live, Ring!counters,
            Circular, ac

LEMMA AddDevlistMaps ==
  ASSUME LInv, config_add_devlist
  PROVE  Ring!config_add_devlist /\ Good(m)'
<1> DEFINE dv == m.devices \cup {m.current}
<1>1. m \in Manager /\ m.status = "live" /\ m.current # NoStation
      /\ (Lone(m, RingOf(m)) => m.last_device = 0)
  BY DEF LInv, Good, config_add_devlist, Live
<1>2. m' = [m EXCEPT !.devices = dv] /\ dv \in SUBSET Station
  BY <1>1 DEF config_add_devlist, Manager, Ptr
<1> HIDE DEF dv
<1>3. m' \in Manager /\ m'.devices = dv
  BY <1>1, <1>2 DEF Manager
<1>4. /\ m'.status = m.status /\ m'.current = m.current
      /\ m'.first = m.first /\ m'.next = m.next /\ m'.prev = m.prev
      /\ m'.heap = m.heap /\ m'.pos = m.pos
      /\ m'.active = m.active /\ m'.commtype = m.commtype
      /\ m'.last_device = m.last_device
      /\ m'.num_configs = m.num_configs /\ m'.max_position = m.max_position
  BY <1>1, <1>2 DEF Manager
<1>5. Good(m)' /\ RingOf(m)' = RingOf(m) /\ Circular(m)' = Circular(m)
  BY <1>1, <1>3, <1>4, LinksKept
<1> QED BY <1>1, <1>3, <1>4, <1>5
        DEF Ring!config_add_devlist, Ring!Live, Ring!counters, Circular, dv

LEMMA AddCommlistMaps ==
  ASSUME LInv, config_add_commlist
  PROVE  Ring!config_add_commlist /\ Good(m)'
<1> DEFINE ct == m.commtype \cup {m.current}
<1>1. m \in Manager /\ m.status = "live" /\ m.current # NoStation
      /\ (Lone(m, RingOf(m)) => m.last_device = 0)
  BY DEF LInv, Good, config_add_commlist, Live
<1>2. CASE m.current \in m.commtype /\ m' = Wild(m)
  BY <1>1, <1>2, FaultMaps DEF Ring!config_add_commlist, Ring!Live
<1>3. CASE m' = [m EXCEPT !.commtype = ct]
  <2>1. ct \in SUBSET Station
    BY <1>1 DEF Manager, Ptr
  <2> HIDE DEF ct
  <2>2. m' \in Manager /\ m'.commtype = ct
    BY <1>1, <1>3, <2>1 DEF Manager
  <2>3. /\ m'.status = m.status /\ m'.current = m.current
        /\ m'.first = m.first /\ m'.next = m.next /\ m'.prev = m.prev
        /\ m'.heap = m.heap /\ m'.pos = m.pos
        /\ m'.active = m.active /\ m'.devices = m.devices
        /\ m'.last_device = m.last_device
        /\ m'.num_configs = m.num_configs /\ m'.max_position = m.max_position
    BY <1>1, <1>3 DEF Manager
  <2>4. Good(m)' /\ RingOf(m)' = RingOf(m) /\ Circular(m)' = Circular(m)
    BY <1>1, <2>2, <2>3, LinksKept
  <2> QED BY <1>1, <2>2, <2>3, <2>4
          DEF Ring!config_add_commlist, Ring!Live, Ring!counters, Circular, ct
<1>4. m' = [m EXCEPT !.commtype = ct] \/ (m.current \in m.commtype /\ m' = Wild(m))
  BY DEF config_add_commlist
<1> QED BY <1>2, <1>3, <1>4

(* A ring that is not closed has a NULL next, so the walk of               *)
(* config_writeconfig ends; on a closed ring it does not.                  *)
LEMMA WriteConfigMaps ==
  ASSUME LInv, config_writeconfig
  PROVE  Ring!config_writeconfig /\ Good(m)'
<1> DEFINE r  == RingOf(m)
           on == Ring!ToSet(RingOf(m))
<1>1. m \in Manager /\ Shape(m, r) /\ m.status = "live" /\ m.first # NoStation
      /\ (Lone(m, r) => m.last_device = 0)
  BY DEF LInv, Good, config_writeconfig, Live
<1>2. r # <<>> /\ (~Circular(m) <=> Lone(m, r))
  BY <1>1, ShapeFacts
<1>3. ToSet(RingOf(m)) = on
  BY DEF ToSet, Ring!ToSet
<1>4. \/ m' = m
      \/ ~(on \subseteq m.devices \cap m.commtype) /\ m' = Wild(m)
      \/ /\ on \subseteq m.devices \cap m.commtype
         /\ NoStation \notin {m.next[s] : s \in on}
         /\ m' = [m EXCEPT !.status = "hung"]
  BY <1>3 DEF config_writeconfig
<1>5. CASE m' = m
  BY <1>1, <1>2, <1>5, StutterMaps DEF Ring!config_writeconfig, Ring!Live
<1>6. CASE ~(on \subseteq m.devices \cap m.commtype) /\ m' = Wild(m)
  BY <1>1, <1>2, <1>6, FaultMaps DEF Ring!config_writeconfig, Ring!Live, Ring!OnRing
<1>7. CASE /\ on \subseteq m.devices \cap m.commtype
           /\ NoStation \notin {m.next[s] : s \in on}
           /\ m' = [m EXCEPT !.status = "hung"]
  <2>1. Circular(m)
    <3> SUFFICES ASSUME Lone(m, r) PROVE FALSE
      BY <1>2
    <3>1. Len(r) = 1 /\ r[1] = m.first
      BY DEF Lone
    <3> HIDE DEF r
    <3>2. m.first \in on
      <4>1. 1 \in DOMAIN r
        <5>1. r \in Seq(Station)
          BY <1>1, ShapeFacts
        <5> QED BY <3>1, <5>1
      <4> QED BY <3>1, <4>1 DEF Ring!ToSet, r
    <3> QED BY <1>7, <3>2 DEF Lone
  <2>2. m' \in Manager /\ m'.status = "hung"
    BY <1>1, <1>7 DEF Manager
  <2>3. /\ m'.current = m.current
        /\ m'.first = m.first /\ m'.next = m.next /\ m'.prev = m.prev
        /\ m'.heap = m.heap /\ m'.pos = m.pos
        /\ m'.active = m.active /\ m'.devices = m.devices /\ m'.commtype = m.commtype
        /\ m'.last_device = m.last_device
        /\ m'.num_configs = m.num_configs /\ m'.max_position = m.max_position
    BY <1>1, <1>7 DEF Manager
  <2>4. Good(m)' /\ RingOf(m)' = RingOf(m) /\ Circular(m)' = Circular(m)
    BY <1>1, <2>2, <2>3, LinksKept
  <2>5. on \subseteq m.devices \cap m.commtype
    BY <1>7
  <2> QED BY <1>1, <1>2, <2>1, <2>2, <2>3, <2>4, <2>5
          DEF Ring!config_writeconfig, Ring!Live, Ring!OnRing, Ring!counters,
              Ring!stationVars, Circular
<1> QED BY <1>4, <1>5, <1>6, <1>7
LEMMA NoManagerFacts ==
  /\ NoManager \in Manager /\ Closed(NoManager, <<>>) /\ RingOf(NoManager) = <<>>
  /\ Good(NoManager)
<1>1. NoManager \in Manager
  BY DEF NoManager, Manager, Ptr
<1>2. NoManager.first = NoStation /\ NoManager.heap = {}
  BY DEF NoManager
<1>3. Closed(NoManager, <<>>)
  BY <1>2 DEF Closed, Distinct, Linked
<1>4. RingOf(NoManager) = <<>>
  BY <1>1, <1>3, RingOfShape DEF Shape
<1>5. Ring!ToSet(<<>>) = {}
  BY DEF Ring!ToSet
<1>6. ~Lone(NoManager, <<>>)
  BY <1>2, NoStationAssumption DEF Lone
<1> QED BY <1>1, <1>2, <1>3, <1>4, <1>5, <1>6 DEF Good, Shape

LEMMA ConfigNewMaps ==
  ASSUME LInv, config_new
  PROVE  Ring!config_new /\ Good(m)'
<1>1. m.status = "none" /\ m = NoManager
  BY DEF LInv, Good, config_new
<1>2. RingOf(m) = <<>> /\ Good(m) /\ m \in Manager
  BY <1>1, NoManagerFacts
<1>3. CASE m' = Wild(m)
  BY <1>1, <1>3, FaultMaps DEF Ring!config_new
<1>4. CASE m' = [NoManager EXCEPT !.status = "live"]
  <2>1. m' \in Manager /\ m'.status = "live"
    BY <1>1, <1>2, <1>4 DEF Manager
  <2>2. /\ m'.current = m.current
        /\ m'.first = m.first /\ m'.next = m.next /\ m'.prev = m.prev
        /\ m'.heap = m.heap /\ m'.pos = m.pos
        /\ m'.active = m.active /\ m'.devices = m.devices /\ m'.commtype = m.commtype
        /\ m'.last_device = m.last_device
        /\ m'.num_configs = m.num_configs /\ m'.max_position = m.max_position
    BY <1>1, <1>2, <1>4 DEF Manager
  <2>3. m.last_device = 0 /\ m.num_configs = 0 /\ m.max_position = 0 /\ m.current = NoStation
    BY <1>1 DEF NoManager
  <2>4. Good(m)' /\ RingOf(m)' = RingOf(m) /\ Circular(m)' = Circular(m)
    BY <2>1, <2>2, <2>3, LinksKept
  <2> QED BY <1>1, <2>1, <2>2, <2>3, <2>4
          DEF Ring!config_new, Ring!NewManager, Ring!stationVars, Circular
<1>5. ASSUME NEW s \in Station, NEW dv, NEW ct,
             (dv = {s} /\ ct = {s}) \/ (dv \in {{}, {s}} /\ ct = {}),
             m' = [status |-> "live", first |-> s, current |-> s,
                   last_device |-> 0, num_configs |-> 0, max_position |-> 0, heap |-> {s},
                   next |-> [x \in Station |-> NoStation],
                   prev |-> [x \in Station |-> NoStation],
                   pos |-> [x \in Station |-> 0],
                   active |-> {s}, devices |-> dv, commtype |-> ct]
      PROVE  Ring!config_new /\ Good(m)'
  <2>1. dv \in SUBSET Station /\ ct \in SUBSET Station
    BY <1>5
  <2>2. m' = [status |-> "live", first |-> s, current |-> s,
              last_device |-> 0, num_configs |-> 0, max_position |-> 0, heap |-> {s},
              next |-> [x \in Station |-> NoStation], prev |-> [x \in Station |-> NoStation],
              pos |-> [x \in Station |-> 0],
              active |-> {s}, devices |-> dv, commtype |-> ct]
    BY <1>5
  <2>3. m' \in Manager
    BY <2>1, <2>2 DEF Manager, Ptr
  <2>4. /\ m'.status = "live" /\ m'.first = s /\ m'.current = s
        /\ m'.last_device = 0 /\ m'.num_configs = 0 /\ m'.max_position = 0
        /\ m'.heap = {s} /\ m'.active = {s} /\ m'.devices = dv /\ m'.commtype = ct
    BY <2>2
  <2>5. m'.next[s] = NoStation /\ m'.prev[s] = NoStation /\ m'.pos[s] = 0
        /\ m'.pos = [x \in Station |-> 0]
    BY <2>2
  <2>6. Lone(m', <<s>>)
    BY <2>4, <2>5 DEF Lone
  <2>7. RingOf(m') = <<s>> /\ Shape(m', <<s>>)
    BY <2>3, <2>6, RingOfShape DEF Shape
  <2>8. Ring!ToSet(<<s>>) = {s}
    BY DEF Ring!ToSet
  <2>9. Good(m)'
    BY <2>3, <2>4, <2>5, <2>7, <2>8 DEF Good
  <2>10. ~Circular(m')
    BY <2>4, <2>5, NoStationAssumption DEF Circular
  <2>11. m'.pos = [m.pos EXCEPT ![s] = 0]
    BY <1>1, <2>5 DEF NoManager
  <2> HIDE DEF NoManager
  <2>12. Ring!NewManager
    BY <1>5, <2>4, <2>7, <2>10, <2>11 DEF Ring!NewManager, Circular
  <2> QED BY <1>1, <2>9, <2>12 DEF Ring!config_new
<1>6. ASSUME NEW s \in Station,
             LET one == [NoManager EXCEPT !.status = "live", !.heap = {s}, !.first = s,
                                          !.current = s, !.active = {s}]
             IN  \/ m' = [one EXCEPT !.devices = {s}, !.commtype = {s}]
                 \/ \E d \in {{}, {s}} : m' = [one EXCEPT !.devices = d]
      PROVE  Ring!config_new /\ Good(m)'
  <2>1. CASE m' = [NoManager EXCEPT !.status = "live", !.heap = {s}, !.first = s,
                                    !.current = s, !.active = {s},
                                    !.devices = {s}, !.commtype = {s}]
    <3>1. m' = [status |-> "live", first |-> s, current |-> s,
                last_device |-> 0, num_configs |-> 0, max_position |-> 0, heap |-> {s},
                next |-> [x \in Station |-> NoStation],
                prev |-> [x \in Station |-> NoStation],
                pos |-> [x \in Station |-> 0],
                active |-> {s}, devices |-> {s}, commtype |-> {s}]
      BY <2>1 DEF NoManager
    <3> QED BY <1>5, <3>1
  <2>2. ASSUME NEW d \in {{}, {s}},
               m' = [NoManager EXCEPT !.status = "live", !.heap = {s}, !.first = s,
                                      !.current = s, !.active = {s}, !.devices = d]
        PROVE  Ring!config_new /\ Good(m)'
    <3>1. m' = [status |-> "live", first |-> s, current |-> s,
                last_device |-> 0, num_configs |-> 0, max_position |-> 0, heap |-> {s},
                next |-> [x \in Station |-> NoStation],
                prev |-> [x \in Station |-> NoStation],
                pos |-> [x \in Station |-> 0],
                active |-> {s}, devices |-> d, commtype |-> {}]
      BY <2>2 DEF NoManager
    <3> QED BY <1>5, <3>1
  <2> QED BY <1>6, <2>1, <2>2
<1> QED BY <1>3, <1>4, <1>6 DEF config_new

LEMMA ConfigDeleteMaps ==
  ASSUME LInv, config_delete
  PROVE  Ring!config_delete /\ Good(m)'
<1>1. m' = NoManager /\ m.status = "live"
  BY DEF config_delete, Live
<1>2. RingOf(m)' = <<>> /\ Good(m)'
  BY <1>1, NoManagerFacts
<1> QED BY <1>1, <1>2 DEF Ring!config_delete, Ring!Live, NoManager
(* The index j hops from index c on a ring of n stations, along next for   *)
(* dir = 1 and along prev for dir = -1.                                    *)
Hop(n, c, dir, j) == ((c - 1 + dir * j) % n) + 1

(* The hops from c go round once. *)
HopsRound(n, c, dir) ==
  /\ Hop(n, c, dir, 0) = c /\ Hop(n, c, dir, n) = c
  /\ \A j \in 0..n : Hop(n, c, dir, j) \in 1..n
  /\ \A j \in 1..(n - 1) : Hop(n, c, dir, j) # c
  /\ \A j \in 1..n :
       Hop(n, c, dir, j) = IF dir = 1 THEN After(n, Hop(n, c, dir, j - 1))
                           ELSE Before(n, Hop(n, c, dir, j - 1))

LEMMA HopFacts ==
  ASSUME NEW n \in Nat, n >= 1, NEW c \in 1..n, NEW dir \in {1, -1}
  PROVE  HopsRound(n, c, dir)
<1> DEFINE x(j) == c - 1 + dir * j
<1>1. ASSUME NEW j \in 0..n
      PROVE  /\ x(j) = IF dir = 1 THEN c - 1 + j ELSE c - 1 - j
             /\ Hop(n, c, dir, j) = (IF x(j) < 0 THEN x(j) + n
                                     ELSE IF x(j) < n THEN x(j) ELSE x(j) - n) + 1
  <2>1. x(j) = IF dir = 1 THEN c - 1 + j ELSE c - 1 - j
    <3>1. CASE dir = 1
      BY <3>1
    <3>2. CASE dir = -1
      BY <3>2
    <3> QED BY <3>1, <3>2
  <2>2. x(j) \in (-n)..(2 * n - 1)
    BY <2>1
  <2> DEFINE y == x(j)
  <2> HIDE DEF x
  <2>3. y \in (-n)..(2 * n - 1) /\ n > 0
    BY <2>2
  <2> HIDE DEF y
  <2>4. y % n = IF y < 0 THEN y + n ELSE IF y < n THEN y ELSE y - n
    BY <2>3, RingProofs!Turn, NoStationAssumption, PositionsAssumption, BoundsAssumption
  <2> QED BY <2>1, <2>4 DEF Hop, x, y
<1> DEFINE v(j) == Hop(n, c, dir, j)
<1>2. \A j \in 0..n :
        v(j) = IF dir = 1 THEN (IF c + j <= n THEN c + j ELSE c + j - n)
               ELSE (IF c - j >= 1 THEN c - j ELSE c - j + n)
  <2> TAKE j \in 0..n
  <2>1. /\ x(j) = IF dir = 1 THEN c - 1 + j ELSE c - 1 - j
        /\ v(j) = (IF x(j) < 0 THEN x(j) + n ELSE IF x(j) < n THEN x(j) ELSE x(j) - n) + 1
    BY <1>1
  <2> HIDE DEF x, v
  <2>2. CASE dir = 1
    BY <2>1, <2>2
  <2>3. CASE dir = -1
    BY <2>1, <2>3
  <2> QED BY <2>2, <2>3
<1> HIDE DEF v
<1>3. v(0) = c /\ v(n) = c
  <2>1. 0 \in 0..n /\ n \in 0..n
    OBVIOUS
  <2> QED BY <1>2, <2>1
<1>4. \A j \in 0..n : v(j) \in 1..n
  BY <1>2
<1>5. \A j \in 1..(n - 1) : v(j) # c
  <2> TAKE j \in 1..(n - 1)
  <2>1. j \in 0..n
    OBVIOUS
  <2> QED BY <1>2, <2>1
<1>6. \A j \in 1..n : v(j) = IF dir = 1 THEN After(n, v(j - 1)) ELSE Before(n, v(j - 1))
  <2> TAKE j \in 1..n
  <2>1. j \in 0..n /\ j - 1 \in 0..n
    OBVIOUS
  <2>2. CASE dir = 1
    <3>1. v(j) = IF c + j <= n THEN c + j ELSE c + j - n
      BY <1>2, <2>1, <2>2
    <3>2. v(j - 1) = IF c + (j - 1) <= n THEN c + (j - 1) ELSE c + (j - 1) - n
      BY <1>2, <2>1, <2>2
    <3> QED BY <2>2, <3>1, <3>2 DEF After
  <2>3. CASE dir = -1
    <3>1. v(j) = IF c - j >= 1 THEN c - j ELSE c - j + n
      BY <1>2, <2>1, <2>3
    <3>2. v(j - 1) = IF c - (j - 1) >= 1 THEN c - (j - 1) ELSE c - (j - 1) + n
      BY <1>2, <2>1, <2>3
    <3> QED BY <2>3, <3>1, <3>2 DEF Before
  <2> QED BY <2>2, <2>3
<1> QED BY <1>3, <1>4, <1>5, <1>6 DEF HopsRound, v

(* Following next or prev from a station of a closed ring goes round it.   *)
LEMMA GoingRound ==
  ASSUME NEW h \in Manager, NEW r, Closed(h, r), r # <<>>,
         NEW dir \in {1, -1}, NEW c \in 1..Len(r)
  PROVE  /\ Cardinality(Station) \in Nat
         /\ Len(r) \in 1..Cardinality(Station)
         /\ \A j \in 0..Len(r) :
              Following(IF dir = 1 THEN h.next ELSE h.prev, r[c], Cardinality(Station))[j]
                = r[Hop(Len(r), c, dir, j)]
<1> DEFINE n    == Cardinality(Station)
           len  == Len(r)
           link == IF dir = 1 THEN h.next ELSE h.prev
           v(j) == Hop(len, c, dir, j)
           path == [j \in 0..len |-> r[v(j)]]
<1>1. /\ r \in Seq(Station) /\ len \in Nat /\ len >= 1 /\ n \in Nat /\ len <= n
      /\ \A k \in 1..len : r[k] \in Station
      /\ Linked(h.next, h.prev, r)
  BY RingFits DEF Closed
<1>2. /\ v(0) = c /\ \A j \in 0..len : v(j) \in 1..len
      /\ \A j \in 1..len : v(j) = IF dir = 1 THEN After(len, v(j - 1)) ELSE Before(len, v(j - 1))
  <2> HIDE DEF len
  <2>1. len \in Nat /\ len >= 1 /\ c \in 1..len
    BY <1>1 DEF len
  <2>2. HopsRound(len, c, dir)
    BY <2>1, HopFacts
  <2> QED BY <2>2 DEF HopsRound
<1> HIDE DEF v
<1>3. path \in [0..len -> Station] /\ path[0] = r[c]
  BY <1>1, <1>2
<1>4. link \in [Station -> Ptr]
  BY DEF Manager
<1>5. \A k \in 1..len : link[r[k]] = r[IF dir = 1 THEN After(len, k) ELSE Before(len, k)]
  BY DEF Closed, Linked
<1> HIDE DEF link
<1>6. \A j \in 1..len : link[path[j - 1]] = path[j]
  <2> TAKE j \in 1..len
  <2>1. j \in 0..len /\ j - 1 \in 0..len
    BY <1>1
  <2>2. path[j] = r[v(j)] /\ path[j - 1] = r[v(j - 1)] /\ v(j - 1) \in 1..len
    BY <1>2, <2>1
  <2> QED BY <1>2, <1>5, <2>2
<1>7. len \in 0..n
  BY <1>1
<1> HIDE DEF n, len, path
<1>8. \A j \in 0..len : Following(link, path[0], n)[j] = path[j]
  BY <1>1, <1>3, <1>4, <1>6, <1>7, FollowingPath
<1>9. \A j \in 0..len : path[j] = r[v(j)]
  BY DEF path
<1>10. \A j \in 0..len : Following(link, r[c], n)[j] = r[v(j)]
  BY <1>3, <1>8, <1>9
<1> QED BY <1>1, <1>10 DEF n, len, link, v
(* config_inc and config_dec: the walk stops where ConfigRing's does.      *)
LEMMA BrowseMaps ==
  ASSUME LInv, NEW dir \in {1, -1}, Browse(IF dir = 1 THEN m.next ELSE m.prev)
  PROVE  Ring!Browse(dir) /\ Good(m)'
<1> DEFINE link == IF dir = 1 THEN m.next ELSE m.prev
           N    == Cardinality(Station)
           h    == [m EXCEPT !.last_device = CurrentId]
           at   == Following(link, m.current, N)
           Ends(k) == at[k] \in m.active \cup {NoStation, m.current}
           e    == CHOOSE i \in 1..N : Ends(i) /\ \A j \in 1..(i - 1) : ~Ends(j)
           r    == RingOf(m)
<1>1. m \in Manager /\ Shape(m, r) /\ m.status = "live"
  BY DEF LInv, Good, Browse, Live
<1>2. m' = IF m.current = NoStation THEN h
           ELSE IF at[e] = NoStation THEN Wild(h)
           ELSE [h EXCEPT !.current = at[e]]
  BY DEF Browse
<1>3. /\ m.first = NoStation <=> r = <<>>
      /\ r \in Seq(Station) /\ Len(r) \in Nat /\ Distinct(r)
      /\ \A k \in 1..Len(r) : r[k] \in Station
      /\ Circular(m) <=> Closed(m, r)
      /\ ~Circular(m) <=> Lone(m, r)
  BY <1>1, ShapeFacts
<1>4. IF r = <<>> THEN m.current = NoStation ELSE m.current \in Ring!ToSet(r)
  BY DEF LInv, Ring!IInv, Ring!CurrentOnRing, Ring!OnRing
<1>5. CurrentId \in Nat /\ CurrentId = Ring!CurrentId
  BY <1>1 DEF CurrentId, Ring!CurrentId, Manager, Ptr
<1>6. /\ h \in Manager /\ h.last_device = CurrentId
      /\ h.status = m.status /\ h.current = m.current
      /\ h.first = m.first /\ h.next = m.next /\ h.prev = m.prev
      /\ h.heap = m.heap /\ h.pos = m.pos
      /\ h.active = m.active /\ h.devices = m.devices /\ h.commtype = m.commtype
      /\ h.num_configs = m.num_configs /\ h.max_position = m.max_position
  <2> DEFINE l == CurrentId
  <2>1. l \in Nat /\ h = [m EXCEPT !.last_device = l]
    BY <1>5
  <2> HIDE DEF l, h
  <2>2. h \in Manager /\ h.last_device = l
    BY <1>1, <2>1 DEF Manager
  <2>3. /\ h.status = m.status /\ h.current = m.current
        /\ h.first = m.first /\ h.next = m.next /\ h.prev = m.prev
        /\ h.heap = m.heap /\ h.pos = m.pos
        /\ h.active = m.active /\ h.devices = m.devices /\ h.commtype = m.commtype
        /\ h.num_configs = m.num_configs /\ h.max_position = m.max_position
    BY <1>1, <2>1 DEF Manager
  <2> QED BY <2>2, <2>3 DEF l
<1>7. link \in [Station -> Ptr]
  BY <1>1 DEF Manager
<1>8. N \in Nat
  BY StationAssumption, FS_CardinalityType
<1>9. CASE r = <<>>
  <2>1. m.current = NoStation /\ CurrentId = 0 /\ ~Lone(m, RingOf(m))
    BY <1>4, <1>9 DEF CurrentId, Lone
  <2>2. m' = h
    BY <1>2, <2>1
  <2> HIDE DEF h
  <2>3. Good(m)' /\ RingOf(m)' = RingOf(m) /\ Circular(m)' = Circular(m)
    BY <1>1, <1>6, <2>1, <2>2, LinksKept
  <2> QED BY <1>1, <1>6, <2>1, <2>2, <2>3
          DEF Ring!Browse, Ring!Live, Ring!stationVars, Ring!counters, Circular
<1>10. CASE Lone(m, r)
  <2>1. /\ m.current = m.first /\ m.current \in Station /\ m.current # NoStation
        /\ m.last_device = 0 /\ CurrentId = 0 /\ r # <<>>
    BY <1>10, LoneFacts DEF CurrentId
  <2>2. link[m.current] = NoStation
    BY <1>10, <2>1 DEF Lone
  <2>3. 1 \in 1..N /\ 1 - 1 = 0
    <3>1. N >= 1
      BY <1>1, <1>10, MetLone
    <3> QED BY <1>8, <3>1
  <2>4. at[1] = NoStation
    <3>1. at[0] = m.current
          /\ \A k \in 1..N : at[k] = IF at[k - 1] = NoStation THEN NoStation ELSE link[at[k - 1]]
      <4> HIDE DEF link
      <4>1. m.current \in Ptr
        BY <1>1 DEF Manager
      <4> QED BY <1>7, <1>8, <4>1, FollowingSteps
    <3> HIDE DEF at
    <3> QED BY <2>1, <2>2, <2>3, <3>1
  <2>5. e = 1
    <3>1. Ends(1)
      BY <2>4
    <3> HIDE DEF Ends
    <3>2. e \in 1..N /\ Ends(e) /\ \A j \in 1..(e - 1) : ~Ends(j)
      <4>1. \A j \in 1..(1 - 1) : FALSE
        OBVIOUS
      <4> QED BY <2>3, <3>1, <4>1
    <3> HIDE DEF e
    <3> QED BY <1>8, <3>1, <3>2
  <2>6. m' = Wild(h)
    BY <1>2, <2>1, <2>4, <2>5
  <2>7. h = m
    <3>1. h = [m EXCEPT !.last_device = m.last_device]
      BY <2>1
    <3> QED BY <1>1, <3>1 DEF Manager
  <2>8. m' = Wild(m)
    BY <2>6, <2>7
  <2>9. Ring!Fault /\ Good(m)'
    BY <2>8, FaultMaps
  <2> QED BY <1>1, <1>3, <1>10, <2>1, <2>9
          DEF Ring!Browse, Ring!Live, Ring!Detached, Circular
<1>11. CASE Closed(m, r) /\ r # <<>>
  <2> DEFINE len  == Len(r)
             c    == Ring!IndexOf(m.current)
             v(j) == Hop(len, c, dir, j)
  <2>1. c \in 1..len /\ r[c] = m.current
    <3>1. \E k \in 1..len : r[k] = m.current
      BY <1>3, <1>4, <1>11 DEF Ring!ToSet
    <3> QED BY <3>1 DEF Ring!IndexOf
  <2>2. m.current \in Station /\ m.current # NoStation
    BY <1>3, <2>1, NoStationAssumption
  <2> HIDE DEF c, v, link
  <2>3. len \in 1..N /\ \A j \in 0..len : at[j] = r[v(j)]
    <3>1. /\ Len(r) \in 1..Cardinality(Station)
          /\ \A j \in 0..Len(r) :
               Following(IF dir = 1 THEN m.next ELSE m.prev, r[c], Cardinality(Station))[j]
                 = r[Hop(Len(r), c, dir, j)]
      <4> HIDE DEF r
      <4> QED BY <1>1, <1>11, <2>1, GoingRound
    <3> QED BY <2>1, <3>1 DEF link, v
  <2>4. /\ v(len) = c /\ \A j \in 0..len : v(j) \in 1..len
        /\ \A j \in 1..(len - 1) : v(j) # c
    <3> HIDE DEF len
    <3>1. len \in Nat /\ len >= 1 /\ c \in 1..len
      BY <1>3, <2>1, <2>3 DEF len
    <3>2. HopsRound(len, c, dir)
      BY <3>1, HopFacts
    <3> QED BY <3>2 DEF HopsRound, v
  <2> HIDE DEF at
  <2>5. \A j \in 1..len : Ends(j) <=> r[v(j)] \in m.active \/ j = len
    <3> TAKE j \in 1..len
    <3>1. j \in 0..len /\ at[j] = r[v(j)] /\ v(j) \in 1..len /\ r[v(j)] # NoStation
      BY <1>3, <2>3, <2>4, NoStationAssumption
    <3>2. r[v(j)] = m.current <=> j = len
      <4>1. r[v(j)] = m.current <=> v(j) = c
        BY <1>3, <2>1, <3>1 DEF Distinct
      <4>2. v(j) = c <=> j = len
        BY <2>3, <2>4
      <4> QED BY <4>1, <4>2
    <3> QED BY <3>1, <3>2
  <2> HIDE DEF Ends
  <2>6. e \in 1..len /\ Ends(e) /\ \A j \in 1..(e - 1) : ~Ends(j)
    <3> DEFINE T == {j \in 1..len : Ends(j)}
    <3>1. len \in T /\ T \in SUBSET Nat
      BY <2>3, <2>5
    <3>2. PICK k \in T : \A j \in T : k <= j
      BY <3>1, NoStationAssumption, PositionsAssumption, BoundsAssumption,
         RingProofs!LeastNat
    <3>3. k \in 1..N /\ k \in 1..len /\ Ends(k) /\ \A j \in 1..(k - 1) : ~Ends(j)
      <4>1. len \in Nat /\ len <= N /\ k \in 1..len /\ Ends(k)
        BY <1>8, <2>3, <3>2
      <4> HIDE DEF len, N
      <4>2. \A j \in 1..(k - 1) : j \in 1..len /\ ~(k <= j)
        BY <4>1
      <4>3. \A j \in 1..(k - 1) : ~Ends(j)
        BY <3>2, <4>2
      <4> QED BY <1>8, <4>1, <4>3
    <3>4. e \in 1..N /\ Ends(e) /\ \A j \in 1..(e - 1) : ~Ends(j)
      BY <3>3
    <3> HIDE DEF e
    <3>5. ~(k < e)
      BY <1>8, <3>3, <3>4
    <3> QED BY <1>8, <2>3, <3>3, <3>4, <3>5
  <2> HIDE DEF e
  <2>7. at[e] = r[v(e)] /\ v(e) \in 1..len /\ r[v(e)] \in Station /\ r[v(e)] # NoStation
    BY <1>3, <2>3, <2>4, <2>6, NoStationAssumption
  <2>8. m' = [h EXCEPT !.current = r[v(e)]]
    BY <1>2, <2>2, <2>7
  <2>9. Ring!BrowseStops(c, dir, e) /\ Ring!Around(c, dir * e) = r[v(e)] /\ e \in 1..len
    <3>1. \A j : Ring!Around(c, dir * j) = r[v(j)]
      BY DEF Ring!Around, v, Hop
    <3>2. r[v(e)] \in m.active \/ e = len
      BY <2>5, <2>6
    <3>3. \A j \in 1..(e - 1) : r[v(j)] \notin m.active
      <4>1. \A j \in 1..(e - 1) : j \in 1..len
        BY <2>3, <2>6
      <4> QED BY <2>5, <2>6, <4>1
    <3> QED BY <2>6, <3>1, <3>2, <3>3 DEF Ring!BrowseStops
  <2> DEFINE s == r[v(e)]
  <2>10. s \in Ptr /\ m' = [h EXCEPT !.current = s]
    BY <2>7, <2>8 DEF Ptr
  <2> HIDE DEF s, h
  <2>11. m' \in Manager /\ m'.current = s
    BY <1>6, <2>10 DEF Manager
  <2>12. /\ m'.status = m.status /\ m'.last_device = CurrentId
         /\ m'.first = m.first /\ m'.next = m.next /\ m'.prev = m.prev
         /\ m'.heap = m.heap /\ m'.pos = m.pos
         /\ m'.active = m.active /\ m'.devices = m.devices /\ m'.commtype = m.commtype
         /\ m'.num_configs = m.num_configs /\ m'.max_position = m.max_position
    BY <1>6, <2>10 DEF Manager
  <2>13. ~Lone(m, RingOf(m)) /\ Circular(m)
    BY <1>3, <1>11
  <2>14. Good(m)' /\ RingOf(m)' = RingOf(m) /\ Circular(m)' = Circular(m)
    BY <1>1, <2>11, <2>12, <2>13, LinksKept
  <2> QED BY <1>1, <1>5, <2>2, <2>9, <2>11, <2>12, <2>13, <2>14
          DEF Ring!Browse, Ring!Live, Ring!stationVars, Ring!counters, Circular, s, c
<1> QED BY <1>1, <1>9, <1>10, <1>11 DEF Shape
(* What a closed manager is, if its heap is its ring.                      *)
LEMMA ClosedIsGood ==
  ASSUME NEW g \in Manager, NEW t, Closed(g, t), g.heap = Ring!ToSet(t), g.status = "live"
  PROVE  Good(g) /\ RingOf(g) = t /\ Circular(g)
<1>1. Shape(g, t)
  BY DEF Shape
<1>2. RingOf(g) = t
  BY <1>1, RingOfShape
<1>3. Circular(g) /\ ~Lone(g, t)
  BY <1>1, ShapeFacts
<1> QED BY <1>1, <1>2, <1>3 DEF Good

(* When config_add follows a NULL pointer, and the position it gives away. *)
AddFaults(h, p, named) ==
  \/ ~named /\ h.current \in h.devices
  \/ h.first # NoStation /\ AtPos(h, p).how = "null"
  \/ ~isFreePos(h, p) /\ h.prev[h.first] = NoStation

AddPosition(h, p) == IF ~isFreePos(h, p) THEN getNextPos(h) ELSE p

(* The position that config_add gives away is the one ConfigRing gives, it *)
(* is free, and the pointers config_add follows are NULL where ConfigRing  *)
(* has the fault.                                                          *)
LEMMA AddTarget ==
  ASSUME LInv, NEW p \in Nat, NEW named \in BOOLEAN
  PROVE  /\ AddFaults(m, p, named) <=> Ring!Detached \/ (~named /\ m.current \in m.devices)
         /\ ~AddFaults(m, p, named) =>
              /\ AddPosition(m, p) = IF Ring!FreePos(p) THEN p ELSE Ring!NextPos
              /\ AddPosition(m, p) \in Nat
              /\ Closed(m, RingOf(m))
              /\ \A j \in 1..Len(RingOf(m)) : m.pos[RingOf(m)[j]] # AddPosition(m, p)
<1> DEFINE r      == RingOf(m)
           used   == ~isFreePos(m, p)
           wild   == AddFaults(m, p, named)
           q      == AddPosition(m, p)
           target == IF Ring!FreePos(p) THEN p ELSE Ring!NextPos
<1>0. /\ used = ~isFreePos(m, p)
      /\ wild = (\/ ~named /\ m.current \in m.devices
                 \/ m.first # NoStation /\ AtPos(m, p).how = "null"
                 \/ used /\ m.prev[m.first] = NoStation)
      /\ q = IF used THEN getNextPos(m) ELSE p
      /\ target = IF Ring!FreePos(p) THEN p ELSE Ring!NextPos
  BY DEF AddFaults, AddPosition
<1> SUFFICES /\ wild <=> Ring!Detached \/ (~named /\ m.current \in m.devices)
             /\ ~wild => /\ q = target /\ q \in Nat
                         /\ Closed(m, r)
                         /\ \A j \in 1..Len(r) : m.pos[r[j]] # q
  OBVIOUS
<1> HIDE DEF used, wild, q, target
<1> USE <1>0
<1>1. m \in Manager /\ Shape(m, r)
  BY DEF LInv, Good
<1>2. /\ m.first = NoStation <=> r = <<>>
      /\ r \in Seq(Station) /\ Len(r) \in Nat /\ Distinct(r)
      /\ \A k \in 1..Len(r) : r[k] \in Station
      /\ Circular(m) <=> Closed(m, r)
      /\ ~Circular(m) <=> Lone(m, r)
  BY <1>1, ShapeFacts
<1>3. Ring!Detached <=> Lone(m, r)
  BY <1>2, LoneFacts DEF Ring!Detached, Circular
<1>4. /\ ~used => Ring!FreePos(p) /\ Closed(m, r)
      /\ used => r # <<>> /\ (Lone(m, r) \/ ~Ring!FreePos(p))
  BY FreePosMaps DEF Ring!FreePos
<1>5. CASE Lone(m, r)
  <2>1. used /\ m.first # NoStation /\ m.prev[m.first] = NoStation
    <3>1. ~Closed(m, r)
      BY <1>2, <1>5
    <3> QED BY <1>4, <1>5, <3>1, NoStationAssumption DEF Lone
  <2>2. wild
    BY <2>1
  <2> QED BY <1>3, <1>5, <2>2
<1>6. CASE Closed(m, r)
  <2>1. r # <<>> => /\ Len(r) >= 1 /\ m.prev[m.first] = r[Len(r)]
                    /\ r[Len(r)] \in Station /\ r[Len(r)] # NoStation
    <3> SUFFICES ASSUME r # <<>>
                 PROVE  /\ Len(r) >= 1 /\ m.prev[m.first] = r[Len(r)]
                        /\ r[Len(r)] \in Station /\ r[Len(r)] # NoStation
      OBVIOUS
    <3> HIDE DEF r
    <3>1. Len(r) >= 1 /\ 1 \in 1..Len(r) /\ Len(r) \in 1..Len(r)
      BY <1>2
    <3>2. m.prev[r[1]] = r[Len(r)] /\ m.first = r[1]
      BY <1>6, <3>1 DEF Closed, Linked, Before
    <3> QED BY <1>2, <3>1, <3>2, NoStationAssumption
  <2>2. m.first # NoStation => AtPos(m, p).how # "null"
    <3> DEFINE stops == {s \in Station : m.pos[s] = p}
    <3> SUFFICES ASSUME m.first # NoStation PROVE Walk(m, stops).how # "null"
      BY DEF AtPos
    <3>1. NoStation \notin stops /\ r # <<>>
      BY <1>2, NoStationAssumption
    <3> HIDE DEF stops, r
    <3>2. \/ \E k \in 1..Len(r) : /\ r[k] \in stops
                                  /\ \A j \in 1..(k - 1) : r[j] \notin stops
                                  /\ Walk(m, stops) = [rp |-> r[k], how |-> "found"]
          \/ /\ \A k \in 1..Len(r) : r[k] \notin stops
             /\ Walk(m, stops) = [rp |-> r[1], how |-> "back"]
      BY <1>1, <1>6, <3>1, WalkClosed
    <3> QED BY <3>2
  <2>3. ~Lone(m, r)
    BY <1>2, <1>6
  <2>4. wild <=> ~named /\ m.current \in m.devices
    <3>1. used => m.prev[m.first] # NoStation
      BY <1>4, <2>1
    <3> QED BY <2>2, <3>1
  <2>5. q = target
    <3>1. used <=> ~Ring!FreePos(p)
      BY <1>4, <2>3
    <3>2. used => getNextPos(m) = Ring!NextPos
      <4> SUFFICES ASSUME used PROVE getNextPos(m) = Ring!NextPos
        OBVIOUS
      <4>1. r # <<>> /\ m.prev[m.first] = r[Len(r)]
        BY <1>4, <2>1
      <4> QED BY <4>1 DEF getNextPos, Ring!NextPos
    <3> QED BY <3>1, <3>2
  <2>6. q \in Nat /\ \A j \in 1..Len(r) : m.pos[r[j]] # q
    <3>1. CASE ~used
      BY <1>4, <3>1 DEF Ring!FreePos
    <3>2. CASE used
      <4>1. q = m.pos[r[Len(r)]] + 1 /\ Len(r) >= 1 /\ r[Len(r)] \in Station
        BY <1>4, <2>1, <3>2 DEF getNextPos
      <4>2. m.pos \in [Station -> Nat]
        BY <1>1 DEF Manager
      <4>3. \A j, k \in 1..Len(r) : j < k => m.pos[r[j]] < m.pos[r[k]]
        BY DEF LInv, Ring!IInv, Ring!RingSorted, Ring!Sorted
      <4> HIDE DEF r
      <4>4. ASSUME NEW j \in 1..Len(r) PROVE m.pos[r[j]] # q
        <5>1. r[j] \in Station /\ Len(r) \in 1..Len(r)
          BY <1>2, <4>1
        <5>2. m.pos[r[j]] \in Nat /\ m.pos[r[Len(r)]] \in Nat
          BY <4>1, <4>2, <5>1
        <5>3. j = Len(r) \/ m.pos[r[j]] < m.pos[r[Len(r)]]
          BY <1>2, <4>3, <5>1
        <5> QED BY <4>1, <5>2, <5>3
      <4>5. q \in Nat
        BY <4>1, <4>2
      <4> QED BY <4>4, <4>5
    <3> QED BY <3>1, <3>2
  <2> QED BY <1>3, <1>6, <2>3, <2>4, <2>5, <2>6
<1> QED BY <1>1, <1>5, <1>6 DEF Shape

(* The station that config_add allocates, before insert. *)
Allocated(h, i, q) ==
  [h EXCEPT !.heap = @ \cup {i}, !.active = @ \cup {i}, !.pos[i] = q]

LEMMA AllocatedFields ==
  ASSUME NEW h \in Manager, NEW i \in Station, NEW q \in Nat, NEW g, g = Allocated(h, i, q)
  PROVE  /\ g \in Manager /\ g.status = h.status /\ g.first = h.first
         /\ g.current = h.current /\ g.last_device = h.last_device
         /\ g.num_configs = h.num_configs /\ g.max_position = h.max_position
         /\ g.heap = h.heap \cup {i} /\ g.active = h.active \cup {i}
         /\ g.pos = [h.pos EXCEPT ![i] = q] /\ g.next = h.next /\ g.prev = h.prev
         /\ g.devices = h.devices /\ g.commtype = h.commtype
<1> DEFINE hp == h.heap \cup {i}
           ac == h.active \cup {i}
           ps == [h.pos EXCEPT ![i] = q]
<1>1. hp \in SUBSET Station /\ ac \in SUBSET Station /\ ps \in [Station -> Nat]
  BY DEF Manager
<1>2. g = [h EXCEPT !.heap = hp, !.active = ac, !.pos = ps]
  BY DEF Allocated, Manager
<1> HIDE DEF hp, ac, ps
<1>3. g \in Manager
  BY <1>1, <1>2 DEF Manager
<1>4. /\ g.status = h.status /\ g.first = h.first
      /\ g.current = h.current /\ g.last_device = h.last_device
      /\ g.num_configs = h.num_configs /\ g.max_position = h.max_position
      /\ g.next = h.next /\ g.prev = h.prev
      /\ g.devices = h.devices /\ g.commtype = h.commtype
      /\ g.heap = hp /\ g.active = ac /\ g.pos = ps
  BY <1>2 DEF Manager
<1> QED BY <1>3, <1>4 DEF hp, ac, ps

LEMMA ConfigAddMaps ==
  ASSUME LInv, NEW p \in Nat, NEW named \in BOOLEAN, config_add(p, named)
  PROVE  Ring!config_add(p, named) /\ Good(m)'
<1> DEFINE r      == RingOf(m)
           wild   == AddFaults(m, p, named)
           q      == AddPosition(m, p)
           target == IF Ring!FreePos(p) THEN p ELSE Ring!NextPos
<1>1. /\ Live
      /\ \/ wild /\ m' = Wild(m)
         \/ /\ ~wild /\ q <= MaxPosition /\ m.num_configs < MaxConfigs
            /\ \E i \in Station \ m.heap : m' = Insert(Allocated(m, i, q), i)
  BY DEF config_add, Allocated, AddFaults, AddPosition
<1>2. /\ wild <=> Ring!Detached \/ (~named /\ m.current \in m.devices)
      /\ ~wild => /\ q = target /\ q \in Nat
                  /\ Closed(m, RingOf(m))
                  /\ \A j \in 1..Len(RingOf(m)) : m.pos[RingOf(m)[j]] # q
  BY AddTarget
<1>3. m \in Manager /\ m.heap = Ring!ToSet(r) /\ Ring!Live /\ m.status = "live"
  BY <1>1 DEF LInv, Good, Live, Ring!Live
<1> HIDE DEF wild, q
<1>4. CASE wild /\ m' = Wild(m)
  BY <1>2, <1>3, <1>4, FaultMaps DEF Ring!config_add
<1>5. ASSUME ~wild, q <= MaxPosition, m.num_configs < MaxConfigs,
             NEW i \in Station \ m.heap, m' = Insert(Allocated(m, i, q), i)
      PROVE  Ring!config_add(p, named) /\ Good(m)'
  <2> DEFINE h == Allocated(m, i, q)
  <2>0. q \in Nat /\ q = target /\ Closed(m, r) /\ \A j \in 1..Len(r) : m.pos[r[j]] # q
    BY <1>2, <1>5
  <2>1. /\ h \in Manager /\ h.status = m.status /\ h.first = m.first
        /\ h.current = m.current /\ h.last_device = m.last_device
        /\ h.num_configs = m.num_configs /\ h.max_position = m.max_position
        /\ h.heap = m.heap \cup {i} /\ h.active = m.active \cup {i}
        /\ h.pos = [m.pos EXCEPT ![i] = q] /\ h.next = m.next /\ h.prev = m.prev
        /\ h.devices = m.devices /\ h.commtype = m.commtype
    <3>1. h = Allocated(m, i, q)
      OBVIOUS
    <3> HIDE DEF h
    <3> QED BY <1>3, <2>0, <3>1, AllocatedFields
  <2> HIDE DEF h, target
  <2>2. r \in Seq(Station) /\ Len(r) \in Nat
    BY <2>0 DEF Closed
  <2> HIDE DEF r
  <2>3. m' = Insert(h, i)
    BY <1>5 DEF h
  <2>4. \A j \in 1..Len(r) : r[j] # i /\ r[j] \in Station
    BY <1>3, <1>5, <2>2 DEF Ring!ToSet
  <2>5. m.pos \in [Station -> Nat]
    BY <1>3 DEF Manager
  <2>6. h.pos[i] = q /\ \A j \in 1..Len(r) : h.pos[r[j]] = m.pos[r[j]]
    BY <2>1, <2>4, <2>5
  <2>7. Closed(h, r)
    BY <2>0, <2>1 DEF Closed
  <2>8. \A j \in 1..Len(r) : r[j] # i /\ h.pos[r[j]] # h.pos[i]
    BY <2>0, <2>4, <2>6
  <2>9. /\ Insert(h, i) \in Manager
        /\ SameRest(Insert(h, i), h)
        /\ Insert(h, i).current = i
        /\ Insert(h, i).num_configs = h.num_configs + 1
        /\ Insert(h, i).max_position = MaxOf(h.max_position, h.pos[i])
        /\ \E k \in 1..(Len(r) + 1) :
             /\ Ring!WalkStops(r, h.pos, h.pos[i], k)
             /\ Closed(Insert(h, i), Ring!InsertAt(r, k, i))
    BY <2>1, <2>7, <2>8, InsertCloses
  <2>10. PICK k \in 1..(Len(r) + 1) : /\ Ring!WalkStops(r, h.pos, q, k)
                                      /\ Closed(m', Ring!InsertAt(r, k, i))
    BY <2>3, <2>6, <2>9
  <2>11. Ring!WalkStops(r, m.pos, q, k)
    <3>1. \A j \in 1..(k - 1) : j \in 1..Len(r)
      BY <2>2
    <3> QED BY <2>2, <2>6, <2>10, <3>1 DEF Ring!WalkStops
  <2> DEFINE t == Ring!InsertAt(r, k, i)
             g == m'
  <2>12. Ring!ToSet(t) = Ring!ToSet(r) \cup {i}
    BY <2>2, InsertedAt
  <2>13. /\ g \in Manager /\ Closed(g, t) /\ g.status = "live"
         /\ g.heap = m.heap \cup {i} /\ g.active = m.active \cup {i}
         /\ g.pos = [m.pos EXCEPT ![i] = q] /\ g.current = i
         /\ g.devices = m.devices /\ g.commtype = m.commtype
         /\ g.last_device = m.last_device
         /\ g.num_configs = m.num_configs + 1
         /\ g.max_position = MaxOf(m.max_position, q)
    BY <1>3, <2>1, <2>3, <2>6, <2>9, <2>10 DEF SameRest
  <2> HIDE DEF t
  <2>14. g.heap = Ring!ToSet(t)
    BY <1>3, <2>12, <2>13 DEF r
  <2>15. Good(g) /\ RingOf(g) = t /\ Circular(g)
    <3> HIDE DEF g
    <3> QED BY <2>13, <2>14, ClosedIsGood
  <2>16. Circular(m) /\ RingOf(m) = r
    <3>1. Shape(m, r)
      BY <2>0 DEF Shape
    <3> QED BY <1>3, <2>0, <3>1, ShapeFacts DEF r
  <2>17. ~(Ring!Detached \/ (~named /\ m.current \in m.devices))
    BY <1>2, <1>5
  <2>18. Ring!CountInsert(q)
    BY <1>5, <2>13 DEF Ring!CountInsert, Ring!MaxOf, MaxOf
  <2>19. UNCHANGED <<Circular(m), m.devices, m.commtype, m.last_device, m.status>>
    BY <1>3, <2>13, <2>15, <2>16 DEF Circular
  <2>20. i \in Station \ Ring!OnRing
    BY <1>3, <1>5 DEF Ring!OnRing, r
  <2>21. \E s \in Station \ Ring!OnRing, x \in 1..(Len(RingOf(m)) + 1) :
             /\ Ring!WalkStops(RingOf(m), m.pos, q, x)
             /\ RingOf(m)' = Ring!InsertAt(RingOf(m), x, s)
             /\ m.pos' = [m.pos EXCEPT ![s] = q]
             /\ m.active' = m.active \cup {s}
             /\ m.current' = s
    BY <2>10, <2>11, <2>13, <2>15, <2>16, <2>20 DEF t
  <2> QED BY <1>3, <1>5, <2>0, <2>15, <2>17, <2>18, <2>19, <2>21
          DEF Ring!config_add, Circular, target
<1> QED BY <1>1, <1>4, <1>5
(* The current station of a manager that has one is on its ring.           *)
LEMMA CurrentIndex ==
  ASSUME LInv, m.current # NoStation
  PROVE  /\ RingOf(m) # <<>> /\ m.first # NoStation /\ m.current \in Station
         /\ Ring!IndexOf(m.current) \in 1..Len(RingOf(m))
         /\ RingOf(m)[Ring!IndexOf(m.current)] = m.current
<1> DEFINE r == RingOf(m)
<1>1. m \in Manager /\ Shape(m, r)
  BY DEF LInv, Good
<1>2. /\ m.first = NoStation <=> r = <<>>
      /\ r \in Seq(Station) /\ Len(r) \in Nat
      /\ \A k \in 1..Len(r) : r[k] \in Station
  BY <1>1, ShapeFacts
<1>3. r # <<>> /\ m.current \in Ring!ToSet(r)
  BY DEF LInv, Ring!IInv, Ring!CurrentOnRing, Ring!OnRing
<1>4. \E k \in 1..Len(r) : r[k] = m.current
  BY <1>2, <1>3 DEF Ring!ToSet
<1>5. Ring!IndexOf(m.current) \in 1..Len(r) /\ r[Ring!IndexOf(m.current)] = m.current
  BY <1>4 DEF Ring!IndexOf
<1> QED BY <1>2, <1>3, <1>5

LEMMA AroundNext ==
  ASSUME NEW n \in Nat, n >= 1, NEW c \in 1..n
  PROVE  ((c - 1 + 1) % n) + 1 = After(n, c)
<1> DEFINE dir == 1
<1>1. dir \in {1, -1} /\ dir = 1
  OBVIOUS
<1> HIDE DEF dir
<1>2. HopsRound(n, c, dir)
  BY <1>1, HopFacts
<1>3. 1 \in 1..n /\ 1 - 1 = 0 /\ c - 1 + 1 * 1 = c - 1 + 1
  OBVIOUS
<1>4. Hop(n, c, 1, 1) = After(n, Hop(n, c, 1, 0)) /\ Hop(n, c, 1, 0) = c
  BY <1>1, <1>2, <1>3 DEF HopsRound
<1> QED BY <1>3, <1>4 DEF Hop

(* Unlinking a station whose links are NULL follows them.                  *)
LEMMA UnlinkLone ==
  ASSUME LInv, Lone(m, RingOf(m))
  PROVE  Unlink(m, m.current) = Wild(m)
<1>1. m.current = m.first
  BY LoneFacts
<1>2. m.next[m.current] = NoStation
  BY <1>1 DEF Lone
<1> QED BY <1>2 DEF Unlink

LEMMA ConfigRemoveMaps ==
  ASSUME LInv, config_remove
  PROVE  Ring!config_remove /\ Good(m)'
<1> DEFINE r == RingOf(m)
           c == Ring!IndexOf(m.current)
           h == Unlink(m, m.current)
<1>1. /\ m \in Manager /\ Shape(m, r) /\ m.status = "live" /\ m.current # NoStation
      /\ m.heap = Ring!ToSet(r)
      /\ m' = IF h.status = "fault" THEN h ELSE Free(h, m.current)
  BY DEF LInv, Good, config_remove, Live
<1>2. r # <<>> /\ m.current \in Station /\ c \in 1..Len(r) /\ r[c] = m.current
  BY <1>1, CurrentIndex
<1>3. /\ r \in Seq(Station) /\ Len(r) \in Nat
      /\ Circular(m) <=> Closed(m, r)
      /\ ~Circular(m) <=> Lone(m, r)
  BY <1>1, ShapeFacts
<1>4. CASE Lone(m, r)
  <2>1. h = Wild(m)
    BY <1>4, UnlinkLone
  <2>2. h.status = "fault"
    BY <1>1, <2>1 DEF Wild, Manager
  <2>3. m' = Wild(m)
    BY <1>1, <2>1, <2>2
  <2>4. Ring!Fault /\ Good(m)'
    BY <2>3, FaultMaps
  <2> QED BY <1>1, <1>2, <1>3, <1>4, <2>4
          DEF Ring!config_remove, Ring!Live, Ring!Detached, Circular
<1>5. CASE Closed(m, r)
  <2> DEFINE t == Ring!RemoveAt(r, c)
             i == m.current
             g == Free(h, i)
  <2> HIDE DEF r, c
  <2>1. /\ h \in Manager /\ SameRest(h, m)
        /\ h.num_configs = m.num_configs /\ h.max_position = m.max_position
        /\ h.current = IF Len(r) = 1 THEN NoStation
                       ELSE IF r[c] = m.current THEN r[After(Len(r), c)] ELSE m.current
        /\ Closed(h, t)
    <3>1. Unlink(m, r[c]) = h
      BY <1>2
    <3> HIDE DEF h
    <3> QED BY <1>1, <1>2, <1>5, <3>1, UnlinkCloses
  <2>2. h.status = "live" /\ m' = g
    BY <1>1, <2>1 DEF SameRest
  <2>3. /\ t \in Seq(Station) /\ Ring!ToSet(t) = Ring!ToSet(r) \ {i}
    BY <1>2, <1>3, <1>5, RemovedAt DEF Closed
  <2> HIDE DEF h, i, t
  <2>4. \A j \in 1..Len(t) : t[j] # i
    BY <2>3 DEF Ring!ToSet
  <2>5. i \in Station
    BY <1>2 DEF i
  <2>6. /\ g \in Manager
        /\ g.status = h.status /\ g.last_device = h.last_device
        /\ g.num_configs = h.num_configs
        /\ g.max_position = h.max_position
        /\ g.first = h.first /\ g.current = h.current
        /\ g.heap = h.heap \ {i}
        /\ g.pos = [h.pos EXCEPT ![i] = 0]
        /\ g.active = h.active \ {i}
        /\ g.devices = h.devices \ {i}
        /\ g.commtype = h.commtype \ {i}
    BY <2>1, <2>5, FreeFields
  <2>7. Closed(g, t)
    BY <2>1, <2>4, <2>5, FreeCloses
  <2> HIDE DEF g
  <2>8. /\ g.status = "live" /\ g.last_device = m.last_device
        /\ g.num_configs = m.num_configs /\ g.max_position = m.max_position
        /\ g.heap = m.heap \ {i} /\ g.pos = [m.pos EXCEPT ![i] = 0]
        /\ g.active = m.active \ {i} /\ g.devices = m.devices \ {i}
        /\ g.commtype = m.commtype \ {i}
    BY <2>1, <2>2, <2>6 DEF SameRest
  <2>9. g.heap = Ring!ToSet(t)
    BY <1>1, <2>3, <2>8
  <2>10. Good(g) /\ RingOf(g) = t /\ Circular(g)
    BY <2>6, <2>7, <2>8, <2>9, ClosedIsGood
  <2>11. g.current = IF Len(r) = 1 THEN NoStation ELSE Ring!Around(c, 1)
    <3>1. ((c - 1 + 1) % Len(r)) + 1 = After(Len(r), c)
      <4> DEFINE n == Len(r)
      <4>1. n \in Nat /\ n >= 1 /\ c \in 1..n
        BY <1>2, <1>3
      <4> HIDE DEF n
      <4>2. ((c - 1 + 1) % n) + 1 = After(n, c)
        BY <4>1, AroundNext
      <4> QED BY <4>2 DEF n
    <3>2. Ring!Around(c, 1) = r[After(Len(r), c)]
      BY <3>1 DEF Ring!Around, r
    <3> QED BY <1>2, <2>1, <2>6, <3>2
  <2>12. Circular(m)
    BY <1>3, <1>5
  <2>13. m' = g /\ RingOf(m)' = Ring!RemoveAt(RingOf(m), Ring!IndexOf(m.current))
         /\ Good(m)' /\ Circular(m)'
    BY <2>2, <2>10 DEF t, r, c
  <2> QED BY <1>1, <2>8, <2>11, <2>12, <2>13
          DEF Ring!config_remove, Ring!Live, Ring!counters, Circular, r, c, i
<1> QED BY <1>1, <1>4, <1>5 DEF Shape
LEMMA PosFields ==
  ASSUME NEW h \in Manager, NEW ps \in [Station -> Nat], NEW g, g = [h EXCEPT !.pos = ps]
  PROVE  /\ g \in Manager /\ g.status = h.status /\ g.first = h.first
         /\ g.current = h.current /\ g.last_device = h.last_device
         /\ g.num_configs = h.num_configs /\ g.max_position = h.max_position
         /\ g.heap = h.heap /\ g.active = h.active
         /\ g.pos = ps /\ g.next = h.next /\ g.prev = h.prev
         /\ g.devices = h.devices /\ g.commtype = h.commtype
<1>1. g \in Manager
  BY DEF Manager
<1> QED BY <1>1 DEF Manager

LEMMA DistinctPositions ==
  ASSUME LInv, NEW j \in 1..Len(RingOf(m)), NEW k \in 1..Len(RingOf(m)), j # k
  PROVE  m.pos[RingOf(m)[j]] # m.pos[RingOf(m)[k]]
<1> DEFINE r == RingOf(m)
<1>1. m \in Manager /\ Shape(m, r)
  BY DEF LInv, Good
<1>2. \A x \in 1..Len(r) : m.pos[r[x]] \in Nat
  <2>1. \A x \in 1..Len(r) : r[x] \in Station
    BY <1>1, ShapeFacts
  <2>2. m.pos \in [Station -> Nat]
    BY <1>1 DEF Manager
  <2> HIDE DEF r
  <2> QED BY <2>1, <2>2
<1>3. \A x, y \in 1..Len(r) : x < y => m.pos[r[x]] < m.pos[r[y]]
  BY DEF LInv, Ring!IInv, Ring!RingSorted, Ring!Sorted
<1>4. Len(r) \in Nat
  BY <1>1, ShapeFacts
<1> HIDE DEF r
<1>5. j \in 1..Len(r) /\ k \in 1..Len(r)
  BY DEF r
<1>6. j < k \/ k < j
  BY <1>4, <1>5
<1>7. m.pos[r[j]] # m.pos[r[k]]
  BY <1>2, <1>3, <1>5, <1>6
<1> QED BY <1>7 DEF r

(* What taking a station off a ring leaves on it.                          *)
LEMMA RemovedStations ==
  ASSUME NEW r \in Seq(Station), Distinct(r), NEW k \in 1..Len(r)
  PROVE  /\ \A j \in 1..Len(Ring!RemoveAt(r, k)) :
              \E x \in 1..Len(r) : x # k /\ Ring!RemoveAt(r, k)[j] = r[x]
         /\ \A x \in 1..Len(r) : x # k =>
              \E j \in 1..Len(Ring!RemoveAt(r, k)) : Ring!RemoveAt(r, k)[j] = r[x]
<1> DEFINE t == Ring!RemoveAt(r, k)
<1>1. t \in Seq(Station) /\ Ring!ToSet(t) = Ring!ToSet(r) \ {r[k]}
  BY RemovedAt
<1> HIDE DEF t
<1>2. ASSUME NEW j \in 1..Len(t)
      PROVE  \E x \in 1..Len(r) : x # k /\ t[j] = r[x]
  <2>1. t[j] \in Ring!ToSet(t)
    BY <1>1 DEF Ring!ToSet
  <2>2. t[j] \in Ring!ToSet(r) /\ t[j] # r[k]
    BY <1>1, <2>1
  <2>3. PICK x \in 1..Len(r) : t[j] = r[x]
    BY <2>2 DEF Ring!ToSet
  <2> QED BY <2>2, <2>3
<1>3. ASSUME NEW x \in 1..Len(r), x # k
      PROVE  \E j \in 1..Len(t) : t[j] = r[x]
  <2>1. r[x] # r[k] /\ r[x] \in Ring!ToSet(r)
    BY <1>3 DEF Distinct, Ring!ToSet
  <2>2. r[x] \in Ring!ToSet(t)
    BY <1>1, <2>1
  <2> QED BY <1>1, <2>2 DEF Ring!ToSet
<1> QED BY <1>2, <1>3 DEF t

(* config_remap to a free position.                                        *)
LEMMA RemapFreeMaps ==
  ASSUME LInv, Live, m.current # NoStation, NEW p \in Nat, Closed(m, RingOf(m)),
         \A k \in 1..Len(RingOf(m)) : m.pos[RingOf(m)[k]] # p,
         m.num_configs < MaxConfigs,
         m' = Insert([Unlink(m, m.current) EXCEPT !.pos[m.current] = p], m.current)
  PROVE  /\ Good(m)' /\ Circular(m)' /\ Ring!RemapFree(p)
         /\ m'.active = m.active /\ m'.devices = m.devices /\ m'.commtype = m.commtype
         /\ m'.current = m.current /\ m'.last_device = m.last_device
         /\ m'.status = m.status
<1> DEFINE r    == RingOf(m)
           c    == Ring!IndexOf(m.current)
           i    == m.current
           u    == Unlink(m, i)
           rest == Ring!RemoveAt(r, c)
           ps   == [m.pos EXCEPT ![i] = p]
           h    == [u EXCEPT !.pos[i] = p]
           g    == m'
<1>1. /\ m \in Manager /\ m.status = "live" /\ m.heap = Ring!ToSet(r)
      /\ m.pos \in [Station -> Nat] /\ r \in Seq(Station) /\ Distinct(r)
  BY DEF LInv, Good, Live, Closed, Manager
<1>2. r # <<>> /\ i \in Station /\ c \in 1..Len(r) /\ r[c] = i
  BY CurrentIndex
<1> HIDE DEF r, c
<1>3. Closed(m, r) /\ \A k \in 1..Len(r) : m.pos[r[k]] # p
  BY DEF r
<1>4. /\ u \in Manager /\ SameRest(u, m)
      /\ u.num_configs = m.num_configs /\ u.max_position = m.max_position
      /\ Closed(u, rest)
  <2>1. Unlink(m, r[c]) = u
    BY <1>2
  <2> HIDE DEF u
  <2> QED BY <1>1, <1>2, <1>3, <2>1, UnlinkCloses
<1>5. /\ rest \in Seq(Station) /\ Ring!ToSet(rest) = Ring!ToSet(r) \ {i}
  BY <1>1, <1>2, RemovedAt
<1>6. \A j \in 1..Len(rest) : \E x \in 1..Len(r) : x # c /\ rest[j] = r[x]
  BY <1>1, <1>2, RemovedStations
<1> HIDE DEF i, rest, u, g
<1>7. ps \in [Station -> Nat] /\ ps[i] = p
      /\ \A s \in Station : s # i => ps[s] = m.pos[s]
  BY <1>1, <1>2
<1> HIDE DEF ps
<1>8. h = [u EXCEPT !.pos = ps]
  BY <1>4 DEF SameRest, Manager, ps
<1> HIDE DEF h
<1>9. /\ h \in Manager /\ h.status = u.status /\ h.first = u.first
      /\ h.last_device = u.last_device
      /\ h.num_configs = u.num_configs /\ h.max_position = u.max_position
      /\ h.heap = u.heap /\ h.active = u.active
      /\ h.pos = ps /\ h.next = u.next /\ h.prev = u.prev
      /\ h.devices = u.devices /\ h.commtype = u.commtype
  BY <1>4, <1>7, <1>8, PosFields
<1>10. Closed(h, rest)
  BY <1>4, <1>9 DEF Closed
<1>11. \A j \in 1..Len(rest) : rest[j] # i /\ h.pos[rest[j]] # h.pos[i]
  <2> TAKE j \in 1..Len(rest)
  <2>1. PICK x \in 1..Len(r) : x # c /\ rest[j] = r[x]
    BY <1>6
  <2>2. rest[j] # i /\ rest[j] \in Station
    BY <1>1, <1>2, <2>1 DEF Distinct
  <2> QED BY <1>3, <1>7, <1>9, <2>1, <2>2
<1>12. g = Insert(h, i)
  BY DEF g, h, u, i
<1>13. /\ Insert(h, i) \in Manager
       /\ SameRest(Insert(h, i), h)
       /\ Insert(h, i).current = i
       /\ Insert(h, i).num_configs = h.num_configs + 1
       /\ Insert(h, i).max_position = MaxOf(h.max_position, h.pos[i])
       /\ \E k \in 1..(Len(rest) + 1) :
            /\ Ring!WalkStops(rest, h.pos, h.pos[i], k)
            /\ Closed(Insert(h, i), Ring!InsertAt(rest, k, i))
  BY <1>2, <1>9, <1>10, <1>11, InsertCloses DEF i
<1>14. PICK k \in 1..(Len(rest) + 1) :
         Ring!WalkStops(rest, ps, p, k) /\ Closed(g, Ring!InsertAt(rest, k, i))
  BY <1>7, <1>9, <1>12, <1>13
<1> DEFINE t == Ring!InsertAt(rest, k, i)
<1>15. /\ g \in Manager /\ g.status = "live" /\ g.heap = m.heap /\ g.pos = ps
       /\ g.active = m.active /\ g.devices = m.devices /\ g.commtype = m.commtype
       /\ g.current = i /\ g.last_device = m.last_device
       /\ g.num_configs = m.num_configs + 1 /\ g.max_position = MaxOf(m.max_position, p)
  BY <1>1, <1>4, <1>7, <1>9, <1>12, <1>13 DEF SameRest
<1>16. Ring!ToSet(t) = Ring!ToSet(r)
  <2>1. i \in Station /\ i \in Ring!ToSet(r)
    BY <1>1, <1>2 DEF Ring!ToSet, i
  <2>2. Ring!ToSet(t) = Ring!ToSet(rest) \cup {i}
    BY <1>5, <2>1, InsertedAt
  <2> QED BY <1>5, <2>1, <2>2
<1> HIDE DEF t
<1>17. Good(g) /\ RingOf(g) = t /\ Circular(g)
  BY <1>1, <1>14, <1>15, <1>16, ClosedIsGood DEF t
<1>18. Ring!CountInsert(p)
  BY <1>15 DEF Ring!CountInsert, Ring!MaxOf, MaxOf, g
<1>19. RingOf(m)' = t /\ m.pos' = ps /\ Good(m)' /\ Circular(m)'
  BY <1>15, <1>17 DEF g
<1>20. Ring!FreePos(p)
  BY <1>3 DEF Ring!FreePos, r
<1>21. /\ m.pos' = [m.pos EXCEPT ![m.current] = p]
       /\ RingOf(m)' = Ring!InsertAt(Ring!RemoveAt(RingOf(m), Ring!IndexOf(m.current)), k, m.current)
       /\ k \in 1..(Len(Ring!RemoveAt(RingOf(m), Ring!IndexOf(m.current))) + 1)
       /\ Ring!WalkStops(Ring!RemoveAt(RingOf(m), Ring!IndexOf(m.current)), m.pos', p, k)
  BY <1>14, <1>19 DEF ps, t, rest, r, c, i
<1>22. Ring!RemapFree(p)
  BY <1>18, <1>20, <1>21 DEF Ring!RemapFree
<1> QED BY <1>1, <1>15, <1>19, <1>22 DEF g, i
(* The stations after an insertion.                                        *)
LEMMA InsertedStations ==
  ASSUME NEW r \in Seq(Station), NEW i \in Station, NEW k \in 1..(Len(r) + 1)
  PROVE  \A j \in 1..Len(Ring!InsertAt(r, k, i)) :
           \/ Ring!InsertAt(r, k, i)[j] = i
           \/ \E x \in 1..Len(r) : Ring!InsertAt(r, k, i)[j] = r[x]
<1> DEFINE t == Ring!InsertAt(r, k, i)
<1>1. t \in Seq(Station) /\ Ring!ToSet(t) = Ring!ToSet(r) \cup {i}
  BY InsertedAt
<1> HIDE DEF t
<1>2. ASSUME NEW j \in 1..Len(t), t[j] # i
      PROVE  \E x \in 1..Len(r) : t[j] = r[x]
  <2>1. t[j] \in Ring!ToSet(t)
    BY <1>1 DEF Ring!ToSet
  <2>2. t[j] \in Ring!ToSet(r)
    BY <1>1, <1>2, <2>1
  <2> QED BY <2>2 DEF Ring!ToSet
<1> QED BY <1>2 DEF t

(* config_remap to a position in use: the station there and the current    *)
(* one are both unlinked, exchange positions and are both inserted again.  *)
LEMMA RemapSwapMaps ==
  ASSUME LInv, Live, m.current # NoStation, NEW p \in Nat, Closed(m, RingOf(m)),
         p # m.pos[m.current],
         NEW o \in 1..Len(RingOf(m)), m.pos[RingOf(m)[o]] = p,
         m.num_configs + 1 < MaxConfigs,
         NEW h, h = Unlink(Unlink(m, RingOf(m)[o]), m.current),
         NEW both, both = [h EXCEPT !.pos[RingOf(m)[o]] = h.pos[m.current],
                                    !.pos[m.current] = p],
         m' = Insert(Insert(both, RingOf(m)[o]), m.current)
  PROVE  /\ Good(m)' /\ Circular(m)' /\ Ring!RemapSwap(p)
         /\ m'.active = m.active /\ m'.devices = m.devices /\ m'.commtype = m.commtype
         /\ m'.current = m.current /\ m'.last_device = m.last_device
         /\ m'.status = m.status
<1> DEFINE r     == RingOf(m)
           c     == Ring!IndexOf(m.current)
           i     == m.current
           old   == r[o]
           less1 == Ring!RemoveAt(r, o)
           x     == CHOOSE k \in 1..Len(less1) : less1[k] = m.current
           less2 == Ring!RemoveAt(less1, x)
           u     == Unlink(m, old)
           ps    == [m.pos EXCEPT ![old] = m.pos[i], ![i] = p]
           g1    == Insert(both, old)
           g     == m'
<1>1. /\ m \in Manager /\ m.status = "live" /\ m.heap = Ring!ToSet(r)
      /\ m.pos \in [Station -> Nat] /\ r \in Seq(Station) /\ Distinct(r)
  BY DEF LInv, Good, Live, Closed, Manager
<1>2. r # <<>> /\ i \in Station /\ c \in 1..Len(r) /\ r[c] = i
  BY CurrentIndex
<1>3. \A j, k \in 1..Len(r) : j # k => m.pos[r[j]] # m.pos[r[k]]
  BY DistinctPositions
<1> HIDE DEF r, c
<1>4. Closed(m, r) /\ o \in 1..Len(r) /\ m.pos[old] = p /\ old \in Station /\ old # i
      /\ o # c /\ p # m.pos[i]
  BY <1>1, <1>2 DEF r
<1>5. /\ u \in Manager /\ SameRest(u, m)
      /\ u.num_configs = m.num_configs /\ u.max_position = m.max_position
      /\ Closed(u, less1)
  BY <1>1, <1>4, UnlinkCloses
<1>6. /\ less1 \in Seq(Station) /\ Ring!ToSet(less1) = Ring!ToSet(r) \ {old}
      /\ Distinct(less1)
  BY <1>1, <1>4, <1>5, RemovedAt DEF Closed
<1>7. /\ \A j \in 1..Len(less1) : \E y \in 1..Len(r) : y # o /\ less1[j] = r[y]
      /\ \A y \in 1..Len(r) : y # o => \E j \in 1..Len(less1) : less1[j] = r[y]
  BY <1>1, <1>4, RemovedStations
<1> HIDE DEF less1, u
<1>8. x \in 1..Len(less1) /\ less1[x] = i
  <2>1. \E k \in 1..Len(less1) : less1[k] = i
    BY <1>2, <1>4, <1>7
  <2> QED BY <2>1
<1> HIDE DEF x
<1>9. /\ h \in Manager /\ SameRest(h, u)
      /\ h.num_configs = u.num_configs /\ h.max_position = u.max_position
      /\ Closed(h, less2)
  <2>1. Unlink(u, less1[x]) = h
    BY <1>8 DEF u, r
  <2> QED BY <1>5, <1>6, <1>8, <2>1, UnlinkCloses
<1>10. /\ less2 \in Seq(Station) /\ Ring!ToSet(less2) = Ring!ToSet(less1) \ {i}
  BY <1>6, <1>8, RemovedAt
<1>11. \A j \in 1..Len(less2) : \E y \in 1..Len(less1) : y # x /\ less2[j] = less1[y]
  BY <1>6, <1>8, RemovedStations
<1> HIDE DEF less2
(* What is left on the ring stands where neither of the two does.          *)
<1>12. \A j \in 1..Len(less2) : \E z \in 1..Len(r) : z # o /\ z # c /\ less2[j] = r[z]
  <2> TAKE j \in 1..Len(less2)
  <2>1. PICK y \in 1..Len(less1) : y # x /\ less2[j] = less1[y]
    BY <1>11
  <2>2. PICK z \in 1..Len(r) : z # o /\ less1[y] = r[z]
    BY <1>7
  <2>3. less1[y] # i
    BY <1>6, <1>8, <2>1 DEF Distinct
  <2> QED BY <1>2, <2>1, <2>2, <2>3
<1>13. ps \in [Station -> Nat] /\ ps[old] = m.pos[i] /\ ps[i] = p
       /\ \A s \in Station : s # i /\ s # old => ps[s] = m.pos[s]
  BY <1>1, <1>2, <1>4
<1>14. both = [h EXCEPT !.pos = ps]
  <2>1. h.pos = m.pos
    BY <1>5, <1>9 DEF SameRest
  <2>2. both = [h EXCEPT !.pos[old] = h.pos[i], !.pos[i] = p]
    BY DEF r
  <2> HIDE DEF old, i
  <2> QED BY <1>9, <2>1, <2>2 DEF Manager
<1> HIDE DEF ps, i, old
<1>15. /\ both \in Manager /\ both.status = h.status /\ both.first = h.first
       /\ both.last_device = h.last_device
       /\ both.num_configs = h.num_configs /\ both.max_position = h.max_position
       /\ both.heap = h.heap /\ both.active = h.active
       /\ both.pos = ps /\ both.next = h.next /\ both.prev = h.prev
       /\ both.devices = h.devices /\ both.commtype = h.commtype
  <2>1. ASSUME NEW b, b = [h EXCEPT !.pos = ps]
        PROVE  /\ b \in Manager /\ b.status = h.status /\ b.first = h.first
               /\ b.current = h.current /\ b.last_device = h.last_device
               /\ b.num_configs = h.num_configs /\ b.max_position = h.max_position
               /\ b.heap = h.heap /\ b.active = h.active
               /\ b.pos = ps /\ b.next = h.next /\ b.prev = h.prev
               /\ b.devices = h.devices /\ b.commtype = h.commtype
    BY <1>9, <1>13, <2>1, PosFields
  <2> QED BY <1>14, <2>1
<1>16. Closed(both, less2)
  BY <1>9, <1>15 DEF Closed
<1>17. \A j \in 1..Len(less2) :
         /\ less2[j] \in Station /\ less2[j] # i /\ less2[j] # old
         /\ ps[less2[j]] # m.pos[i] /\ ps[less2[j]] # p
  <2> TAKE j \in 1..Len(less2)
  <2>1. PICK z \in 1..Len(r) : z # o /\ z # c /\ less2[j] = r[z]
    BY <1>12
  <2>2. r[z] \in Station /\ r[z] # i /\ r[z] # old
    BY <1>1, <1>2, <1>4, <2>1 DEF Distinct, old
  <2>3. ps[r[z]] = m.pos[r[z]]
    BY <1>13, <2>2
  <2>4. m.pos[r[z]] # m.pos[i] /\ m.pos[r[z]] # p
    BY <1>2, <1>3, <1>4, <2>1 DEF old
  <2> QED BY <2>1, <2>2, <2>3, <2>4
<1>18. \A j \in 1..Len(less2) : less2[j] # old /\ both.pos[less2[j]] # both.pos[old]
  BY <1>13, <1>15, <1>17
<1>19. /\ g1 \in Manager
       /\ SameRest(g1, both)
       /\ g1.num_configs = both.num_configs + 1
       /\ g1.max_position = MaxOf(both.max_position, both.pos[old])
       /\ \E k \in 1..(Len(less2) + 1) :
            /\ Ring!WalkStops(less2, both.pos, both.pos[old], k)
            /\ Closed(g1, Ring!InsertAt(less2, k, old))
  <2>1. /\ Insert(both, old) \in Manager
        /\ SameRest(Insert(both, old), both)
        /\ Insert(both, old).current = old
        /\ Insert(both, old).num_configs = both.num_configs + 1
        /\ Insert(both, old).max_position = MaxOf(both.max_position, both.pos[old])
        /\ \E k \in 1..(Len(less2) + 1) :
             /\ Ring!WalkStops(less2, both.pos, both.pos[old], k)
             /\ Closed(Insert(both, old), Ring!InsertAt(less2, k, old))
    BY <1>4, <1>15, <1>16, <1>18, InsertCloses
  <2> QED BY <2>1
<1>20. PICK j1 \in 1..(Len(less2) + 1) : /\ Ring!WalkStops(less2, ps, m.pos[i], j1)
                                         /\ Closed(g1, Ring!InsertAt(less2, j1, old))
  BY <1>13, <1>15, <1>19
<1> DEFINE with1 == Ring!InsertAt(less2, j1, old)
<1>21. with1 \in Seq(Station) /\ Ring!ToSet(with1) = Ring!ToSet(less2) \cup {old}
  BY <1>4, <1>10, InsertedAt
<1>22. \A j \in 1..Len(with1) : with1[j] = old \/ \E y \in 1..Len(less2) : with1[j] = less2[y]
  BY <1>4, <1>10, InsertedStations
<1> HIDE DEF with1, g1, g
<1>23. g1.pos = ps
  BY <1>15, <1>19 DEF SameRest
<1>24. \A j \in 1..Len(with1) : with1[j] # i /\ g1.pos[with1[j]] # g1.pos[i]
  <2> TAKE j \in 1..Len(with1)
  <2>1. CASE with1[j] = old
    BY <1>4, <1>13, <1>23, <2>1
  <2>2. CASE \E y \in 1..Len(less2) : with1[j] = less2[y]
    BY <1>13, <1>17, <1>23, <2>2
  <2> QED BY <1>22, <2>1, <2>2
<1>25. g = Insert(g1, i)
  BY DEF g, g1, i, old, r
<1>26. /\ Insert(g1, i) \in Manager
       /\ SameRest(Insert(g1, i), g1)
       /\ Insert(g1, i).current = i
       /\ Insert(g1, i).num_configs = g1.num_configs + 1
       /\ Insert(g1, i).max_position = MaxOf(g1.max_position, g1.pos[i])
       /\ \E k \in 1..(Len(with1) + 1) :
            /\ Ring!WalkStops(with1, g1.pos, g1.pos[i], k)
            /\ Closed(Insert(g1, i), Ring!InsertAt(with1, k, i))
  <2>1. Closed(g1, with1) /\ i \in Station
    BY <1>2, <1>20 DEF with1, i
  <2> QED BY <1>19, <1>24, <2>1, InsertCloses
<1>27. PICK k1 \in 1..(Len(with1) + 1) : /\ Ring!WalkStops(with1, ps, p, k1)
                                         /\ Closed(g, Ring!InsertAt(with1, k1, i))
  BY <1>13, <1>23, <1>25, <1>26
<1> DEFINE t == Ring!InsertAt(with1, k1, i)
<1>28. /\ g \in Manager /\ g.status = "live" /\ g.heap = m.heap /\ g.pos = ps
       /\ g.active = m.active /\ g.devices = m.devices /\ g.commtype = m.commtype
       /\ g.current = i /\ g.last_device = m.last_device
  BY <1>1, <1>5, <1>9, <1>15, <1>19, <1>25, <1>26 DEF SameRest
<1>29. g.num_configs = m.num_configs + 2
       /\ g.max_position = MaxOf(m.max_position, MaxOf(p, m.pos[i]))
  <2>1. g.num_configs = (m.num_configs + 1) + 1
    BY <1>5, <1>9, <1>15, <1>19, <1>25, <1>26
  <2>2. g.max_position = MaxOf(MaxOf(m.max_position, m.pos[i]), p)
    BY <1>5, <1>9, <1>13, <1>15, <1>19, <1>23, <1>25, <1>26
  <2>3. m.num_configs \in Nat /\ m.max_position \in Nat /\ m.pos[i] \in Nat
    BY <1>1, <1>2 DEF Manager, i
  <2> QED BY <2>1, <2>2, <2>3 DEF MaxOf
<1>30. Ring!ToSet(t) = Ring!ToSet(r)
  <2>0. r[c] \in Ring!ToSet(r) /\ r[o] \in Ring!ToSet(r)
    <3>1. c \in 1..Len(r) /\ o \in 1..Len(r) /\ r \in Seq(Station)
      BY <1>1, <1>2, <1>4
    <3> QED BY <3>1 DEF Ring!ToSet
  <2>1. i \in Station /\ i \in Ring!ToSet(r) /\ old \in Ring!ToSet(r)
    <3>1. r[c] = i /\ i \in Station
      BY <1>2 DEF i
    <3> QED BY <2>0, <3>1 DEF old
  <2>2. Ring!ToSet(t) = Ring!ToSet(with1) \cup {i}
    BY <1>21, <2>1, InsertedAt
  <2> QED BY <1>6, <1>10, <1>21, <2>1, <2>2
<1> HIDE DEF t
<1>31. Good(g) /\ RingOf(g) = t /\ Circular(g)
  BY <1>1, <1>27, <1>28, <1>30, ClosedIsGood DEF t
<1>32. RingOf(m)' = t /\ m.pos' = ps /\ Good(m)' /\ Circular(m)'
       /\ m.num_configs' = m.num_configs + 2
       /\ m.max_position' = Ring!MaxOf(m.max_position, Ring!MaxOf(p, m.pos[m.current]))
  BY <1>28, <1>29, <1>31 DEF g, i, Ring!MaxOf, MaxOf
<1>33. Ring!RemapSwap(p)
  <2>1. o \in 1..Len(RingOf(m))
    OBVIOUS
  <2> SUFFICES /\ m.pos[RingOf(m)[o]] = p
               /\ m.pos' = [m.pos EXCEPT ![RingOf(m)[o]] = m.pos[m.current], ![m.current] = p]
               /\ \E j \in 1..(Len(less2) + 1) :
                    /\ Ring!WalkStops(less2, m.pos', m.pos[m.current], j)
                    /\ \E k \in 1..(Len(Ring!InsertAt(less2, j, old)) + 1) :
                         /\ Ring!WalkStops(Ring!InsertAt(less2, j, old), m.pos', p, k)
                         /\ RingOf(m)' = Ring!InsertAt(Ring!InsertAt(less2, j, old), k, m.current)
               /\ m.num_configs + 1 < MaxConfigs
               /\ m.num_configs' = m.num_configs + 2
               /\ m.max_position' = Ring!MaxOf(m.max_position, Ring!MaxOf(p, m.pos[m.current]))
    BY <2>1 DEF Ring!RemapSwap, less2, x, less1, old, r
  <2>2. m.pos' = [m.pos EXCEPT ![RingOf(m)[o]] = m.pos[m.current], ![m.current] = p]
    BY <1>32 DEF ps, old, i, r
  <2>3. /\ Ring!WalkStops(less2, m.pos', m.pos[m.current], j1)
        /\ Ring!WalkStops(Ring!InsertAt(less2, j1, old), m.pos', p, k1)
        /\ RingOf(m)' = Ring!InsertAt(Ring!InsertAt(less2, j1, old), k1, m.current)
        /\ k1 \in 1..(Len(Ring!InsertAt(less2, j1, old)) + 1)
    BY <1>20, <1>27, <1>32 DEF t, with1, i
  <2> QED BY <1>32, <2>2, <2>3
<1> QED BY <1>1, <1>28, <1>32, <1>33 DEF g, i
LEMMA ConfigRemapMaps ==
  ASSUME LInv, NEW p \in Nat, config_remap(p)
  PROVE  Ring!config_remap(p) /\ Good(m)'
<1> DEFINE r     == RingOf(m)
           i     == m.current
           stops == {s \in Station : m.pos[s] = p}
           w     == AtPos(m, p)
<1>1. m \in Manager /\ Shape(m, r) /\ Live /\ m.status = "live" /\ i # NoStation /\ p # m.pos[i]
  BY DEF LInv, Good, config_remap, Live
<1>2. r # <<>> /\ m.first # NoStation
  BY <1>1, CurrentIndex
<1>3. /\ \A k \in 1..Len(r) : r[k] \in Station
      /\ Circular(m) <=> Closed(m, r)
      /\ ~Circular(m) <=> Lone(m, r)
  BY <1>1, ShapeFacts
<1>4. NoStation \notin stops /\ w = Walk(m, stops)
      /\ \A k \in 1..Len(r) : r[k] \in stops <=> m.pos[r[k]] = p
  BY <1>3, NoStationAssumption DEF AtPos
<1> HIDE DEF stops, r, w
<1>5. \/ \E k \in 1..Len(r) : /\ r[k] \in stops
                              /\ w = [rp |-> r[k], how |-> "found"]
      \/ /\ Closed(m, r)
         /\ \A k \in 1..Len(r) : r[k] \notin stops
         /\ w = [rp |-> r[1], how |-> "back"]
      \/ /\ Lone(m, r)
         /\ \A k \in 1..Len(r) : r[k] \notin stops
         /\ w = [rp |-> NoStation, how |-> "null"]
  BY <1>1, <1>2, <1>4, WalkShape
<1>6. /\ isFreePos(m, p) =>
           Closed(m, r) /\ \A k \in 1..Len(r) : m.pos[r[k]] # p
  BY FreePosMaps DEF r
<1>7. CASE w.how = "null" /\ m' = Wild(m)
  <2>1. Lone(m, r)
    BY <1>5, <1>7
  <2>2. Ring!Fault /\ Good(m)'
    BY <1>7, FaultMaps
  <2> QED BY <1>1, <1>2, <1>3, <2>1, <2>2
          DEF Ring!config_remap, Ring!Live, Ring!Detached, Circular, r
<1>8. CASE /\ isFreePos(m, p) /\ m.num_configs < MaxConfigs
           /\ m' = Insert([Unlink(m, i) EXCEPT !.pos[i] = p], i)
  <2>1. /\ Good(m)' /\ Circular(m)' /\ Ring!RemapFree(p)
        /\ m'.active = m.active /\ m'.devices = m.devices /\ m'.commtype = m.commtype
        /\ m'.current = m.current /\ m'.last_device = m.last_device
        /\ m'.status = m.status
    BY <1>1, <1>6, <1>8, RemapFreeMaps DEF r
  <2>2. Circular(m)
    BY <1>3, <1>6, <1>8
  <2> QED BY <1>1, <2>1, <2>2 DEF Ring!config_remap, Ring!Live, Circular
<1>9. CASE /\ w.how = "found" /\ m.num_configs + 1 < MaxConfigs
           /\ \E h : /\ h = Unlink(Unlink(m, w.rp), i)
                     /\ m' = Insert(Insert([h EXCEPT !.pos[w.rp] = h.pos[i], !.pos[i] = p], w.rp), i)
  <2>1. PICK o \in 1..Len(r) : r[o] \in stops /\ w = [rp |-> r[o], how |-> "found"]
    BY <1>5, <1>9
  <2>2. m.pos[r[o]] = p /\ w.rp = r[o]
    BY <1>4, <2>1
  <2>3. Closed(m, r)
    <3> SUFFICES ASSUME Lone(m, r) PROVE FALSE
      BY <1>1 DEF Shape
    <3>1. Len(r) = 1 /\ r[1] = m.current
      BY LoneFacts DEF r
    <3>2. o = 1
      BY <3>1
    <3> QED BY <1>1, <2>2, <3>1, <3>2
  <2>4. PICK h : /\ h = Unlink(Unlink(m, w.rp), i)
                 /\ m' = Insert(Insert([h EXCEPT !.pos[w.rp] = h.pos[i], !.pos[i] = p], w.rp), i)
    BY <1>9
  <2> DEFINE both == [h EXCEPT !.pos[r[o]] = h.pos[i], !.pos[i] = p]
  <2>5. h = Unlink(Unlink(m, r[o]), i) /\ m' = Insert(Insert(both, r[o]), i)
    BY <2>2, <2>4
  <2>6. both = [h EXCEPT !.pos[r[o]] = h.pos[i], !.pos[i] = p]
    OBVIOUS
  <2> HIDE DEF both
  <2>7. /\ Good(m)' /\ Circular(m)' /\ Ring!RemapSwap(p)
        /\ m'.active = m.active /\ m'.devices = m.devices /\ m'.commtype = m.commtype
        /\ m'.current = m.current /\ m'.last_device = m.last_device
        /\ m'.status = m.status
    BY <1>1, <1>9, <2>2, <2>3, <2>5, <2>6, RemapSwapMaps DEF r
  <2>8. Circular(m)
    BY <1>3, <2>3
  <2> QED BY <1>1, <2>7, <2>8 DEF Ring!config_remap, Ring!Live, Circular
<1> QED BY <1>7, <1>8, <1>9 DEF config_remap, w

-----------------------------------------------------------------------------
(* The specification.                                                      *)

LEMMA NextMaps ==
  ASSUME LInv, [Next]_m
  PROVE  Good(m)' /\ [Ring!Next]_(Ring!vars)
<1>1. \A p \in Positions : p \in Nat
  BY PositionsAssumption
<1>2. CASE config_new
  BY <1>2, ConfigNewMaps DEF Ring!Next
<1>3. CASE config_delete
  BY <1>3, ConfigDeleteMaps DEF Ring!Next
<1>4. ASSUME NEW p \in Positions, config_set(p)
      PROVE  Good(m)' /\ Ring!Next
  BY <1>4, ConfigSetMaps DEF Ring!Next
<1>5. ASSUME NEW named \in SUBSET Station, config_set_by_name(named)
      PROVE  Good(m)' /\ Ring!Next
  BY <1>5, ConfigSetByNameMaps DEF Ring!Next
<1>6. CASE config_prev
  BY <1>6, ConfigSetMaps DEF Ring!Next, config_prev, Ring!config_prev
<1>7. CASE config_inc
  <2>1. Ring!Browse(1) /\ Good(m)'
    <3> DEFINE dir == 1
    <3>1. dir \in {1, -1} /\ Browse(IF dir = 1 THEN m.next ELSE m.prev)
      BY <1>7 DEF config_inc
    <3> HIDE DEF dir
    <3>2. Ring!Browse(dir) /\ Good(m)'
      BY <3>1, BrowseMaps
    <3> QED BY <3>2 DEF dir
  <2> QED BY <2>1 DEF Ring!Next, Ring!config_inc
<1>8. CASE config_dec
  <2>1. Ring!Browse(-1) /\ Good(m)'
    <3> DEFINE dir == -1
    <3>1. dir \in {1, -1} /\ Browse(IF dir = 1 THEN m.next ELSE m.prev)
      BY <1>8 DEF config_dec
    <3> HIDE DEF dir
    <3>2. Ring!Browse(dir) /\ Good(m)'
      BY <3>1, BrowseMaps
    <3> QED BY <3>2 DEF dir
  <2> QED BY <2>1 DEF Ring!Next, Ring!config_dec
<1>9. ASSUME NEW on \in BOOLEAN, config_set_current_active(on)
      PROVE  Good(m)' /\ Ring!Next
  BY <1>9, SetActiveMaps DEF Ring!Next
<1>10. CASE config_activate_all_channels
  BY <1>10, ActivateAllMaps DEF Ring!Next
<1>11. CASE config_add_devlist
  BY <1>11, AddDevlistMaps DEF Ring!Next
<1>12. CASE config_add_commlist
  BY <1>12, AddCommlistMaps DEF Ring!Next
<1>13. ASSUME NEW p \in Positions, NEW named \in BOOLEAN, config_add(p, named)
       PROVE  Good(m)' /\ Ring!Next
  BY <1>1, <1>13, ConfigAddMaps DEF Ring!Next
<1>14. CASE config_remove
  BY <1>14, ConfigRemoveMaps DEF Ring!Next
<1>15. ASSUME NEW p \in Positions, config_remap(p)
       PROVE  Good(m)' /\ Ring!Next
  BY <1>1, <1>15, ConfigRemapMaps DEF Ring!Next
<1>16. CASE config_writeconfig
  BY <1>16, WriteConfigMaps DEF Ring!Next
<1>17. CASE UNCHANGED m
  BY <1>17, StutterMaps
<1> QED BY <1>2, <1>3, <1>4, <1>5, <1>6, <1>7, <1>8, <1>9, <1>10, <1>11, <1>12,
           <1>13, <1>14, <1>15, <1>16, <1>17 DEF Next

(* What ConfigRingProofs proves of a step holds of every call on the       *)
(* pointers.                                                               *)
LEMMA RingSteps ==
  ASSUME LInv, [Next]_m
  PROVE  RingProofs!IInv /\ [RingProofs!Next]_(RingProofs!vars)
<1>1. Good(m)' /\ [Ring!Next]_(Ring!vars)
  BY NextMaps
<1>2. RingProofs!IInv
  BY DEF LInv, Ring!IInv, Ring!TypeOK, Ring!RingSorted, Ring!Sorted, Ring!CurrentOnRing,
         Ring!OnRing, Ring!ToSet,
         RingProofs!IInv, RingProofs!TypeOK, RingProofs!RingSorted, RingProofs!Sorted,
         RingProofs!CurrentOnRing, RingProofs!OnRing, RingProofs!ToSet
<1>3. [RingProofs!Next]_(RingProofs!vars)
  BY <1>1, Zenon
     DEF Ring!Live, Ring!OnRing, Ring!Detached, Ring!IndexOf, Ring!FreePos, Ring!NextPos,
         Ring!CurrentId, Ring!Around, Ring!WalkStops, Ring!MaxOf, Ring!Fault,
         Ring!NewManager, Ring!config_new, Ring!config_delete, Ring!SetCurrent,
         Ring!config_set, Ring!config_set_by_name, Ring!config_prev, Ring!BrowseStops,
         Ring!Browse, Ring!config_inc, Ring!config_dec, Ring!config_set_current_active,
         Ring!config_activate_all_channels, Ring!config_add_devlist,
         Ring!config_add_commlist, Ring!CountInsert, Ring!config_add, Ring!config_remove,
         Ring!RemapFree, Ring!RemapSwap, Ring!config_remap, Ring!config_writeconfig,
         Ring!Next, Ring!vars, Ring!stationVars, Ring!counters, Ring!ToSet,
         Ring!InsertAt, Ring!RemoveAt,
         RingProofs!Live, RingProofs!OnRing, RingProofs!Detached, RingProofs!IndexOf,
         RingProofs!FreePos, RingProofs!NextPos, RingProofs!CurrentId, RingProofs!Around,
         RingProofs!WalkStops, RingProofs!MaxOf, RingProofs!Fault, RingProofs!NewManager,
         RingProofs!config_new, RingProofs!config_delete, RingProofs!SetCurrent,
         RingProofs!config_set, RingProofs!config_set_by_name, RingProofs!config_prev,
         RingProofs!BrowseStops, RingProofs!Browse, RingProofs!config_inc,
         RingProofs!config_dec, RingProofs!config_set_current_active,
         RingProofs!config_activate_all_channels, RingProofs!config_add_devlist,
         RingProofs!config_add_commlist, RingProofs!CountInsert, RingProofs!config_add,
         RingProofs!config_remove, RingProofs!RemapFree, RingProofs!RemapSwap,
         RingProofs!config_remap, RingProofs!config_writeconfig, RingProofs!Next,
         RingProofs!vars, RingProofs!stationVars, RingProofs!counters, RingProofs!ToSet,
         RingProofs!InsertAt, RingProofs!RemoveAt
<1> QED BY <1>2, <1>3

(* Every call of the ring keeps its invariant, so every call on the        *)
(* pointers does.                                                          *)
LEMMA NextKeeps == ASSUME LInv, [Next]_m PROVE LInv'
<1>1. Good(m)'
  BY NextMaps
<1>2. RingProofs!IInv /\ [RingProofs!Next]_(RingProofs!vars)
  BY RingSteps
<1>3. RingProofs!IInv'
  BY <1>2, NoStationAssumption, PositionsAssumption, BoundsAssumption,
     RingProofs!NextKeeps
<1>4. Ring!IInv'
  BY <1>3
     DEF Ring!IInv, Ring!TypeOK, Ring!RingSorted, Ring!Sorted, Ring!CurrentOnRing,
         Ring!OnRing, Ring!ToSet,
         RingProofs!IInv, RingProofs!TypeOK, RingProofs!RingSorted, RingProofs!Sorted,
         RingProofs!CurrentOnRing, RingProofs!OnRing, RingProofs!ToSet
<1> QED BY <1>1, <1>4 DEF LInv

LEMMA InitMaps == Init => Ring!Init
<1> SUFFICES ASSUME Init PROVE Ring!Init
  OBVIOUS
<1>1. m = NoManager /\ RingOf(m) = <<>>
  BY NoManagerFacts DEF Init
<1> QED BY <1>1 DEF Ring!Init, NoManager

LEMMA Inductive == Spec => []LInv
<1>1. Init => LInv
  <2> SUFFICES ASSUME Init PROVE LInv
    OBVIOUS
  <2>1. Good(m)
    BY NoManagerFacts DEF Init
  <2>2. Ring!Init
    BY InitMaps
  <2>3. Ring!IInv
    BY <2>2 DEF Ring!Init, Ring!IInv, Ring!TypeOK, Ring!RingSorted, Ring!Sorted,
                Ring!CurrentOnRing, Ring!OnRing, Ring!ToSet
  <2> QED BY <2>1, <2>3 DEF LInv
<1>2. LInv /\ [Next]_m => LInv'
  BY NextKeeps
<1> QED BY <1>1, <1>2, PTL DEF Spec

(* No call of acq_config.c leaves a pointer that is followed to a station  *)
(* that has been freed: first, current and the links of every allocated    *)
(* station are NULL or allocated stations.                                 *)
THEOREM PointersSound == Spec => []TypeOK
<1>1. ASSUME LInv PROVE TypeOK
  <2> DEFINE r == RingOf(m)
  <2>1. m \in Manager /\ Shape(m, r) /\ m.heap = Ring!ToSet(r)
    BY <1>1 DEF LInv, Good
  <2>2. m.current \in m.heap \cup {NoStation}
    BY <1>1, <2>1 DEF LInv, Ring!IInv, Ring!CurrentOnRing, Ring!OnRing
  <2> HIDE DEF r
  <2>3. r \in Seq(Station) /\ Len(r) \in Nat /\ \A k \in 1..Len(r) : r[k] \in Station
    BY <2>1, ShapeFacts
  <2>4. m.heap = {r[k] : k \in 1..Len(r)}
    BY <2>1, <2>3 DEF Ring!ToSet
  <2>5. CASE Closed(m, r)
    <3>1. m.first \in m.heap \cup {NoStation}
      <4>1. CASE r = <<>>
        BY <2>5, <4>1 DEF Closed
      <4>2. CASE r # <<>>
        <5>1. 1 \in 1..Len(r) /\ m.first = r[1]
          BY <2>3, <2>5, <4>2 DEF Closed
        <5> QED BY <2>4, <5>1
      <4> QED BY <4>1, <4>2
    <3>2. \A k \in 1..Len(r) : m.next[r[k]] \in m.heap /\ m.prev[r[k]] \in m.heap
      <4> SUFFICES ASSUME NEW k \in 1..Len(r)
                   PROVE  m.next[r[k]] \in m.heap /\ m.prev[r[k]] \in m.heap
        OBVIOUS
      <4> DEFINE a == After(Len(r), k)
                 b == Before(Len(r), k)
      <4>1. a \in 1..Len(r) /\ b \in 1..Len(r)
        BY <2>3 DEF After, Before
      <4>2. m.next[r[k]] = r[a] /\ m.prev[r[k]] = r[b]
        BY <2>5 DEF Closed, Linked
      <4> HIDE DEF a, b
      <4> QED BY <2>4, <4>1, <4>2
    <3>3. \A s \in m.heap : {m.next[s], m.prev[s]} \subseteq m.heap \cup {NoStation}
      BY <2>4, <3>2
    <3> QED BY <2>1, <2>2, <3>1, <3>3 DEF TypeOK
  <2>6. CASE Lone(m, r)
    <3>1. Len(r) = 1 /\ r[1] = m.first
      BY <2>6 DEF Lone
    <3>2. m.heap = {m.first}
      BY <2>4, <3>1
    <3> QED BY <2>1, <2>2, <2>6, <3>2 DEF TypeOK, Lone
  <2> QED BY <2>1, <2>5, <2>6 DEF Shape
<1> QED BY <1>1, Inductive, PTL

(* On a closed ring next and prev stay inverse to each other at every      *)
(* station, through every insert and ripout.                               *)
THEOREM LinksAlwaysAgree == Spec => []LinksAgree
<1>1. ASSUME LInv PROVE LinksAgree
  <2> DEFINE r == RingOf(m)
  <2>1. m \in Manager /\ Shape(m, r)
    BY <1>1 DEF LInv, Good
  <2> SUFFICES ASSUME NEW s \in ToSet(r), m.next[s] # NoStation
               PROVE  m.prev[m.next[s]] = s /\ m.next[m.prev[s]] = s
    BY DEF LinksAgree
  <2> HIDE DEF r
  <2>2. r \in Seq(Station) /\ Len(r) \in Nat
    BY <2>1, ShapeFacts
  <2>3. PICK k \in 1..Len(r) : s = r[k]
    BY <2>2 DEF ToSet
  <2>4. Closed(m, r)
    <3> SUFFICES ASSUME Lone(m, r) PROVE FALSE
      BY <2>1 DEF Shape
    <3>1. Len(r) = 1 /\ r[1] = m.first /\ m.next[m.first] = NoStation
      BY DEF Lone
    <3> QED BY <2>3, <3>1
  <2> DEFINE n == Len(r)
             a == After(n, k)
             b == Before(n, k)
  <2>5. a \in 1..n /\ b \in 1..n /\ Before(n, a) = k /\ After(n, b) = k
    BY <2>2 DEF After, Before
  <2>6. \A j \in 1..n : m.next[r[j]] = r[After(n, j)] /\ m.prev[r[j]] = r[Before(n, j)]
    BY <2>4 DEF Closed, Linked
  <2> HIDE DEF n
  <2>7. k \in 1..n
    BY <2>3 DEF n
  <2>8. m.next[s] = r[a] /\ m.prev[s] = r[b]
    BY <2>3, <2>6, <2>7
  <2> HIDE DEF a, b
  <2> QED BY <2>3, <2>5, <2>6, <2>8
<1> QED BY <1>1, Inductive, PTL

(* Every station that config_new or config_add allocated and config_remove *)
(* has not freed is reached from first.                                    *)
THEOREM NoneEverLost == Spec => []NoneLost
<1>1. ASSUME LInv PROVE NoneLost
  <2>1. m.heap = Ring!ToSet(RingOf(m))
    BY <1>1 DEF LInv, Good
  <2> QED BY <2>1 DEF NoneLost, Ring!ToSet, ToSet
<1> QED BY <1>1, Inductive, PTL

(* The pointers of acq_config.c implement the ring of ConfigRing: every    *)
(* call on them is the call of the same name on the sequence of stations   *)
(* that next leads through from first, or changes nothing there.           *)
THEOREM LinksImplementRing == Spec => ImplementsRing
<1>1. LInv /\ [Next]_m => [Ring!Next]_(Ring!vars)
  BY NextMaps
<1> QED BY <1>1, InitMaps, Inductive, PTL DEF Spec, ImplementsRing, Ring!Spec

(* What ConfigRing promises holds of the pointers: read off in next order  *)
(* the positions increase, current is on the ring, config_inc, which       *)
(* follows next, meets every active station, and config_dec, which follows *)
(* prev, takes it back.                                                    *)
THEOREM LinksKeepRingPromises ==
  Spec => [](Ring!RingSorted /\ Ring!CurrentOnRing /\ Ring!ScanCoversActive /\ Ring!BrowseReturns)
<1>1. ASSUME LInv
      PROVE  Ring!RingSorted /\ Ring!CurrentOnRing /\ Ring!ScanCoversActive /\ Ring!BrowseReturns
  <2>1. Ring!RingSorted /\ Ring!CurrentOnRing
    BY <1>1 DEF LInv, Ring!IInv
  <2>2. RingProofs!IInv
    BY <1>1 DEF LInv, Ring!IInv, Ring!TypeOK, Ring!RingSorted, Ring!Sorted,
         Ring!CurrentOnRing, Ring!OnRing, Ring!ToSet,
         RingProofs!IInv, RingProofs!TypeOK, RingProofs!RingSorted, RingProofs!Sorted,
         RingProofs!CurrentOnRing, RingProofs!OnRing, RingProofs!ToSet
  <2>3. RingProofs!ScanCoversActive
    BY <2>2, NoStationAssumption, PositionsAssumption, BoundsAssumption,
       RingProofs!ScanFromInvariant
  <2>4. Ring!ScanCoversActive
    BY <2>3, Zenon
       DEF Ring!ScanCoversActive, Ring!Scan, Ring!BrowseFrom, Ring!BrowseStops, Ring!Around,
           Ring!IndexOf, Ring!Live,
           RingProofs!ScanCoversActive, RingProofs!Scan, RingProofs!BrowseFrom,
           RingProofs!BrowseStops, RingProofs!Around, RingProofs!IndexOf, RingProofs!Live
  <2>5. RingProofs!BrowseReturns
    BY <2>2, NoStationAssumption, PositionsAssumption, BoundsAssumption,
       RingProofs!BrowseReturnsFromInvariant
  <2>6. Ring!BrowseReturns
    BY <2>5, Zenon
       DEF Ring!BrowseReturns, Ring!BrowseFrom, Ring!BrowseStops, Ring!Around,
           Ring!IndexOf, Ring!Live,
           RingProofs!BrowseReturns, RingProofs!BrowseFrom,
           RingProofs!BrowseStops, RingProofs!Around, RingProofs!IndexOf, RingProofs!Live
  <2> QED BY <2>1, <2>4, <2>6
<1> QED BY <1>1, Inductive, PTL

(* No call on the pointers moves a station but a remap, which may exchange *)
(* the current one with one other.                                         *)
THEOREM LinksMoveOnlyByRemap == Spec => Ring!StationsMove
<1>1. ASSUME LInv, [Next]_m PROVE [Ring!MovesOnlyByRemap]_(Ring!vars)
  <2>1. RingProofs!IInv /\ [RingProofs!Next]_(RingProofs!vars)
    BY <1>1, RingSteps
  <2>2. [RingProofs!MovesOnlyByRemap]_(RingProofs!vars)
    BY <2>1, NoStationAssumption, PositionsAssumption, BoundsAssumption,
       RingProofs!NextMoves
  <2> QED BY <2>2, Zenon
          DEF Ring!MovesOnlyByRemap, Ring!OnRing, Ring!ToSet, Ring!vars, Ring!stationVars,
              Ring!counters,
              RingProofs!MovesOnlyByRemap, RingProofs!OnRing, RingProofs!ToSet,
              RingProofs!vars, RingProofs!stationVars, RingProofs!counters
<1> QED BY <1>1, Inductive, PTL DEF Spec, Ring!StationsMove
=============================================================================
