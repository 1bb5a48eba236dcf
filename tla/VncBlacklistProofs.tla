------------------------- MODULE VncBlacklistProofs -------------------------
(* Proofs about VncBlacklist: for any machines, filters and settings, and  *)
(* any Hold and Limit.  First the entries, to which the order of the list, *)
(* which decides how far VerifyHost walks, does not matter; then the list; *)
(* and last the filter, for every string that it may be.                   *)
EXTENDS VncBlacklist, SequenceTheorems, WellFoundedInduction, TLAPS

Entries == [blocked : BOOLEAN, count : 0..Limit + 1, left : -1..Hold, listed : BOOLEAN]

EntriesOK ==
  /\ entry \in [Host -> Entries]
  /\ fails \in [Host -> 0..Enough] /\ streak \in [Host -> 0..Enough]
  /\ quietFor \in [Host -> 0..Hold + 1] /\ blockedFor \in [Host -> 0..Hold + 1]

(* What an entry counts, the machine has failed; a block is as old as its  *)
(* last failure.                                                           *)
Earned(e, f, b) ==
  /\ e.listed => f >= e.count + 1
  /\ e.listed /\ e.blocked => e.count = Limit + 1 /\ e.left = Hold - b

(* A streak that goes on is in the entry, which is not timed out before.   *)
Counted(e, s, q) ==
  s > 0 /\ q <= Hold =>
    /\ e.listed
    /\ e.count + 1 >= s
    /\ e.blocked \/ e.left >= Hold - q

(* The inductive invariant. *)
IInv ==
  /\ EntriesOK
  /\ \A h \in Host : Earned(entry[h], fails[h], blockedFor[h])
  /\ \A h \in Host : Counted(entry[h], streak[h], quietFor[h])

-----------------------------------------------------------------------------
LEMMA CappedType ==
  ASSUME NEW n \in Nat, NEW max \in Nat
  PROVE  /\ Capped(n, max) \in 0..max
         /\ n <= max => Capped(n, max) = n
         /\ n > max => Capped(n, max) = max
BY DEF Capped

(* What becomes of the fields of an entry. *)
LEMMA FieldsType ==
  ASSUME NEW e \in Entries
  PROVE  e.blocked \in BOOLEAN /\ e.count \in 0..Limit + 1 /\ e.left \in -1..Hold /\ e.listed \in BOOLEAN
BY DEF Entries

LEMMA Unblocking ==
  ASSUME NEW e \in Entries, NEW no
  PROVE  [e EXCEPT !.blocked = no] =
         [blocked |-> no, count |-> e.count, left |-> e.left, listed |-> e.listed]
BY SMTT(60) DEF Entries

LEMMA AgedBlocked ==
  ASSUME NEW e \in Entries, e.left < 0, e.blocked
  PROVE  Aged(e) = [blocked |-> FALSE, count |-> e.count, left |-> Hold, listed |-> e.listed]
<1>1. PICK no : no = FALSE
  OBVIOUS
<1>2. Aged(e) = [[e EXCEPT !.blocked = no] EXCEPT !.left = Hold]
  <2>1. Aged(e) = [e EXCEPT !.blocked = FALSE, !.left = Hold]
    BY FieldsType DEF Aged
  <2>2. [e EXCEPT !.blocked = FALSE, !.left = Hold] =
        [[e EXCEPT !.blocked = FALSE] EXCEPT !.left = Hold]
    OBVIOUS
  <2> QED BY <1>1, <2>1, <2>2
<1>3. [e EXCEPT !.blocked = no] =
      [blocked |-> no, count |-> e.count, left |-> e.left, listed |-> e.listed]
  BY Unblocking
<1>4. Aged(e) = [blocked |-> no, count |-> e.count, left |-> Hold, listed |-> e.listed]
  BY <1>2, <1>3
<1> QED BY <1>1, <1>4

LEMMA FailureOpen ==
  ASSUME NEW e \in Entries, e.listed, ~e.blocked
  PROVE  Failure(e) = [blocked |-> e.count + 1 > Limit, count |-> Capped(e.count + 1, Limit + 1),
                       left |-> Hold, listed |-> e.listed]
BY FieldsType DEF Failure, Entries

LEMMA OneLess ==
  ASSUME NEW e \in Entries
  PROVE  [e EXCEPT !.left = @ - 1] =
         [blocked |-> e.blocked, count |-> e.count, left |-> e.left - 1, listed |-> e.listed]
BY FieldsType DEF Entries

LEMMA NoEntryType == NoEntry \in Entries
BY HoldAssumption, LimitAssumption DEF NoEntry, Entries

(* VerifyHost lets an entry time out, or leaves it. *)
LEMMA AgedKeeps ==
  ASSUME NEW e \in Entries, e.listed,
         NEW f \in 0..Enough, NEW b \in 0..Hold + 1, Earned(e, f, b),
         NEW s \in 0..Enough, NEW q \in 0..Hold + 1, Counted(e, s, q)
  PROVE  Aged(e) \in Entries /\ Earned(Aged(e), f, b) /\ Counted(Aged(e), s, q)
<1> USE HoldAssumption, LimitAssumption
<1>1. CASE e.left >= 0
  BY <1>1 DEF Aged
<1>2. CASE e.left < 0 /\ e.blocked
  <2> DEFINE a == [blocked |-> FALSE, count |-> e.count, left |-> Hold, listed |-> e.listed]
  <2>1. Aged(e) = a
    BY <1>2, AgedBlocked
  <2>2. a \in Entries /\ a.left = Hold /\ ~a.blocked /\ a.listed /\ a.count = e.count
    BY FieldsType DEF Entries
  <2>3. e.count + 1 >= s
    BY <1>2 DEF Earned, Entries, Enough
  <2> HIDE DEF a
  <2> QED BY <2>1, <2>2, <2>3 DEF Earned, Counted
<1>3. CASE e.left < 0 /\ ~e.blocked
  <2>1. Aged(e) = NoEntry
    BY <1>3 DEF Aged, Entries
  <2>2. s = 0 \/ q > Hold
    BY <1>3 DEF Counted, Entries
  <2> QED BY <2>1, <2>2, NoEntryType DEF NoEntry, Earned, Counted
<1> QED BY <1>1, <1>2, <1>3 DEF Entries

(* A failure is counted by the entry unless the machine is blocked.        *)
LEMMA FailureKeeps ==
  ASSUME NEW e \in Entries,
         NEW f \in 0..Enough, NEW b \in 0..Hold + 1, Earned(e, f, b),
         NEW s \in 0..Enough, NEW q \in 0..Hold + 1, Counted(e, s, q),
         NEW f2, f2 = Capped(f + 1, Enough),
         NEW s2, s2 = IF q <= Hold THEN Capped(s + 1, Enough) ELSE 1,
         NEW b2, b2 = IF ~(e.listed /\ e.blocked) /\ Failure(e).blocked THEN 0 ELSE b
  PROVE  /\ Failure(e) \in Entries
         /\ Earned(Failure(e), f2, b2) /\ Counted(Failure(e), s2, 0)
         /\ s2 = Enough => Failure(e).listed /\ Failure(e).blocked
<1> USE HoldAssumption, LimitAssumption
<1>1. /\ f2 \in 0..Enough /\ (f < Enough => f2 = f + 1) /\ (f = Enough => f2 = f)
      /\ s2 \in 1..Enough /\ (s2 <= s + 1 \/ s2 = 1)
      /\ q > Hold => s2 = 1
  BY DEF Capped, Enough
<1>2. CASE ~e.listed
  <2>1. Failure(e) = [blocked |-> FALSE, count |-> 0, left |-> Hold, listed |-> TRUE]
    BY <1>2 DEF Failure
  <2>2. b2 = b
    BY <1>2, <2>1
  <2>3. s2 = 1
    BY <1>1, <1>2 DEF Counted
  <2> QED BY <1>1, <2>1, <2>2, <2>3 DEF Entries, Earned, Counted, Enough
<1>3. CASE e.listed /\ e.blocked
  <2>1. Failure(e) = e /\ b2 = b
    BY <1>3 DEF Failure
  <2> QED BY <1>1, <1>3, <2>1 DEF Entries, Earned, Counted, Enough
<1>4. CASE e.listed /\ ~e.blocked
  <2> DEFINE a == [blocked |-> e.count + 1 > Limit, count |-> Capped(e.count + 1, Limit + 1),
                   left |-> Hold, listed |-> e.listed]
  <2>1. Failure(e) = a
    BY <1>4, FailureOpen
  <2>2. /\ Capped(e.count + 1, Limit + 1) \in 0..Limit + 1
        /\ e.count <= Limit => Capped(e.count + 1, Limit + 1) = e.count + 1
        /\ e.count = Limit + 1 => Capped(e.count + 1, Limit + 1) = Limit + 1
    BY DEF Entries, Capped
  <2>3. /\ a \in Entries /\ a.left = Hold /\ a.listed
        /\ a.blocked <=> e.count >= Limit
        /\ e.count <= Limit => a.count = e.count + 1
        /\ e.count = Limit + 1 => a.count = Limit + 1
    <3>1. /\ a.left = Hold /\ a.listed = e.listed /\ a.count = Capped(e.count + 1, Limit + 1)
          /\ a.blocked = (e.count + 1 > Limit)
      OBVIOUS
    <3>2. a \in Entries
      BY <2>2, FieldsType DEF Entries
    <3> HIDE DEF a
    <3> QED BY <1>4, <2>2, <3>1, <3>2, FieldsType
  <2>4. b2 = IF a.blocked THEN 0 ELSE b
    BY <1>4, <2>1
  <2>5. e.count + 1 >= s2 - 1
    BY <1>1 DEF Counted, Entries
  <2> HIDE DEF a
  <2> QED BY <1>1, <1>4, <2>1, <2>3, <2>4, <2>5 DEF Entries, Earned, Counted, Enough
<1> QED BY <1>2, <1>3, <1>4

-----------------------------------------------------------------------------
LEMMA InitHolds == Init => IInv
BY HoldAssumption, LimitAssumption, NoEntryType
   DEF Init, IInv, EntriesOK, Earned, Counted, NoEntry, Enough

LEMMA VerifyKeeps ==
  ASSUME IInv, NEW h \in Host, VerifyHost(h)
  PROVE  IInv'
<1>1. \A x \in Host : entry'[x] \in {entry[x], Aged(entry[x])} /\
                      (entry'[x] # entry[x] => entry[x].listed)
  BY DEF VerifyHost, Listed
<1>2. \A x \in Host : /\ entry'[x] \in Entries
                      /\ Earned(entry'[x], fails[x], blockedFor[x])
                      /\ Counted(entry'[x], streak[x], quietFor[x])
  <2> TAKE x \in Host
  <2>1. CASE entry'[x] = entry[x]
    BY <2>1 DEF IInv, EntriesOK
  <2>2. CASE entry'[x] # entry[x]
    BY <1>1, <2>2, AgedKeeps DEF IInv, EntriesOK
  <2> QED BY <2>1, <2>2
<1>3. entry' = [x \in Host |-> entry'[x]]
  BY DEF VerifyHost
<1> QED BY <1>2, <1>3 DEF IInv, EntriesOK, VerifyHost

LEMMA FailureStep ==
  ASSUME IInv, NEW h \in Host, AddAuthHostsBlacklist(h)
  PROVE  IInv' /\ (streak'[h] = Enough => Blocked(h)')
<1> USE HoldAssumption, LimitAssumption
<1> DEFINE e == entry[h]
           f2 == Capped(fails[h] + 1, Enough)
           s2 == IF quietFor[h] <= Hold THEN Capped(streak[h] + 1, Enough) ELSE 1
           b2 == IF ~(e.listed /\ e.blocked) /\ Failure(e).blocked THEN 0 ELSE blockedFor[h]
<1>1. /\ Failure(e) \in Entries
      /\ Earned(Failure(e), f2, b2) /\ Counted(Failure(e), s2, 0)
      /\ s2 = Enough => Failure(e).listed /\ Failure(e).blocked
  BY FailureKeeps DEF IInv, EntriesOK
<1>2. f2 \in 0..Enough /\ s2 \in 0..Enough /\ b2 \in 0..Hold + 1
  BY DEF IInv, EntriesOK, Capped, Enough
<1>3. /\ entry' = [entry EXCEPT ![h] = Failure(e)]
      /\ fails' = [fails EXCEPT ![h] = f2]
      /\ streak' = [streak EXCEPT ![h] = s2]
      /\ quietFor' = [quietFor EXCEPT ![h] = 0]
  BY DEF AddAuthHostsBlacklist
<1>4. blockedFor' = [blockedFor EXCEPT ![h] = b2]
  BY <1>3 DEF AddAuthHostsBlacklist, Blocked, IInv, EntriesOK
<1> HIDE DEF e, f2, s2, b2
<1>5. EntriesOK'
  BY <1>1, <1>2, <1>3, <1>4 DEF IInv, EntriesOK
<1>6. \A x \in Host : /\ Earned(entry[x], fails[x], blockedFor[x])'
                      /\ Counted(entry[x], streak[x], quietFor[x])'
  BY <1>1, <1>3, <1>4 DEF IInv, EntriesOK
<1>7. entry'[h] = Failure(e) /\ streak'[h] = s2
  BY <1>3 DEF IInv, EntriesOK
<1> QED BY <1>1, <1>5, <1>6, <1>7 DEF IInv, Blocked

LEMMA PassKeeps ==
  ASSUME IInv, NEW h \in Host, RemAuthHostsBlacklist(h)
  PROVE  IInv'
BY HoldAssumption, LimitAssumption, NoEntryType
   DEF RemAuthHostsBlacklist, IInv, EntriesOK, Earned, Counted, NoEntry, Enough

(* A second takes one from every entry that has not timed out. *)
LEMMA TickKeeps ==
  ASSUME IInv, Tick
  PROVE  IInv'
<1> USE HoldAssumption, LimitAssumption
<1>1. \A h \in Host :
        /\ entry'[h] = IF entry[h].left >= 0 THEN [entry[h] EXCEPT !.left = @ - 1] ELSE entry[h]
        /\ quietFor'[h] = Capped(quietFor[h] + 1, Hold + 1)
        /\ blockedFor'[h] = Capped(blockedFor[h] + 1, Hold + 1)
  BY DEF Tick
<1>2. \A h \in Host : /\ entry'[h] \in Entries
                      /\ quietFor'[h] \in 0..Hold + 1 /\ blockedFor'[h] \in 0..Hold + 1
                      /\ Earned(entry'[h], fails[h], blockedFor'[h])
                      /\ Counted(entry'[h], streak[h], quietFor'[h])
  <2> TAKE h \in Host
  <2> DEFINE e == entry[h]
             a == entry'[h]
  <2>1. /\ e \in Entries /\ quietFor[h] \in 0..Hold + 1 /\ blockedFor[h] \in 0..Hold + 1
        /\ fails[h] \in 0..Enough /\ streak[h] \in 0..Enough
        /\ Earned(e, fails[h], blockedFor[h]) /\ Counted(e, streak[h], quietFor[h])
    BY DEF IInv, EntriesOK
  <2>2. /\ a \in Entries /\ a.listed = e.listed /\ a.blocked = e.blocked /\ a.count = e.count
        /\ e.left >= 0 => a.left = e.left - 1
        /\ e.left < 0 => a.left = e.left
    <3>1. CASE e.left >= 0
      <4>1. e.left - 1 \in -1..Hold
        BY <2>1, <3>1, FieldsType
      <4>2. a = [blocked |-> e.blocked, count |-> e.count, left |-> e.left - 1, listed |-> e.listed]
        BY <1>1, <2>1, <3>1, OneLess
      <4> QED BY <2>1, <3>1, <4>1, <4>2, FieldsType DEF Entries
    <3>2. CASE ~(e.left >= 0)
      BY <1>1, <2>1, <3>2
    <3> QED BY <3>1, <3>2
  <2>3. /\ quietFor'[h] \in 0..Hold + 1 /\ blockedFor'[h] \in 0..Hold + 1
        /\ quietFor[h] <= Hold => quietFor'[h] = quietFor[h] + 1
        /\ quietFor[h] > Hold => quietFor'[h] = Hold + 1
        /\ blockedFor[h] <= Hold => blockedFor'[h] = blockedFor[h] + 1
        /\ blockedFor[h] > Hold => blockedFor'[h] = Hold + 1
    <3>1. /\ quietFor'[h] = Capped(quietFor[h] + 1, Hold + 1)
          /\ blockedFor'[h] = Capped(blockedFor[h] + 1, Hold + 1)
      BY <1>1
    <3>2. \A n \in 0..Hold + 1 : /\ Capped(n + 1, Hold + 1) \in 0..Hold + 1
                                 /\ n <= Hold => Capped(n + 1, Hold + 1) = n + 1
                                 /\ n > Hold => Capped(n + 1, Hold + 1) = Hold + 1
      BY DEF Capped
    <3> QED BY <2>1, <3>1, <3>2
  <2> HIDE DEF e, a
  <2>4. Earned(a, fails[h], blockedFor'[h])
    BY <2>1, <2>2, <2>3 DEF Earned, Entries, Enough
  <2>5. Counted(a, streak[h], quietFor'[h])
    BY <2>1, <2>2, <2>3 DEF Counted, Entries, Enough
  <2> QED BY <2>2, <2>3, <2>4, <2>5 DEF a
<1>3. /\ entry' = [h \in Host |-> entry'[h]]
      /\ quietFor' = [h \in Host |-> quietFor'[h]]
      /\ blockedFor' = [h \in Host |-> blockedFor'[h]]
  BY DEF Tick
<1> QED BY <1>2, <1>3 DEF IInv, EntriesOK, Tick

LEMMA NextKeeps == IInv /\ [Next]_vars => IInv'
<1> SUFFICES ASSUME IInv, [Next]_vars PROVE IInv'
  OBVIOUS
<1>1. CASE \E h \in Host : VerifyHost(h)
  BY <1>1, VerifyKeeps
<1>2. CASE \E h \in Host : AddAuthHostsBlacklist(h)
  BY <1>2, FailureStep
<1>3. CASE \E h \in Host : RemAuthHostsBlacklist(h)
  BY <1>3, PassKeeps
<1>4. CASE Tick
  BY <1>4, TickKeeps
<1>5. CASE UNCHANGED <<entry, fails, streak, quietFor, blockedFor>>
  BY <1>5 DEF IInv, EntriesOK
<1>6. \/ \E h \in Host : GivesUp(h)
      \/ \E s \in AuthHosts : SetAuthHosts(s)
      \/ \E q \in Settings : SetQuerySetting(q)
      \/ UNCHANGED vars
      => UNCHANGED <<entry, fails, streak, quietFor, blockedFor>>
  BY DEF GivesUp, SetAuthHosts, SetQuerySetting, vars
<1> QED BY <1>1, <1>2, <1>3, <1>4, <1>5, <1>6 DEF Next

LEMMA Inductive == Spec => []IInv
BY InitHolds, NextKeeps, PTL DEF Spec

-----------------------------------------------------------------------------
(* No machine is blocked for less than Limit + 2 failures since it last    *)
(* passed, nor longer for what its other clients do meanwhile; for every   *)
(* Limit and Hold, and however the calls of clients interleave.            *)
THEOREM NoUnearnedBlock == Spec => []BlocksAreEarned
<1>1. IInv => BlocksAreEarned
  <2> SUFFICES ASSUME IInv, NEW h \in Host, Blocked(h)
               PROVE  fails[h] = Enough /\ entry[h].left = Hold - blockedFor[h]
    BY DEF BlocksAreEarned
  <2>1. fails[h] \in 0..Enough /\ Earned(entry[h], fails[h], blockedFor[h])
    BY DEF IInv, EntriesOK
  <2>2. fails[h] >= Limit + 2 /\ entry[h].left = Hold - blockedFor[h]
    BY <2>1, LimitAssumption DEF Earned, Blocked
  <2> QED BY <2>1, <2>2, LimitAssumption DEF Enough
<1> QED BY <1>1, Inductive, PTL

(* No machine gets around its block by what it does between two failures   *)
(* that are no more than Hold seconds apart: connecting, giving up, or     *)
(* letting VerifyHost age the list.                                        *)
THEOREM NoStreakEscapes == Spec => StreakBlocks
<1>1. IInv /\ [Next]_vars =>
        [\A h \in Host : AddAuthHostsBlacklist(h) /\ streak'[h] = Enough => Blocked(h)']_vars
  BY FailureStep
<1> QED BY <1>1, Inductive, PTL DEF Spec, StreakBlocks
-----------------------------------------------------------------------------
(* Recursion over a sequence.                                              *)

Below == {ss \in Nat \X Nat : ss[1] < ss[2]}

(* Induction over the natural numbers, stated with a set: what has 0 and   *)
(* with n also n + 1 has every number, as it has no least exception.       *)
LEMMA SetInduction ==
  ASSUME NEW S \in SUBSET Nat, 0 \in S, \A n \in S : n + 1 \in S
  PROVE  S = Nat
<1> SUFFICES ASSUME S # Nat PROVE FALSE
  OBVIOUS
<1> DEFINE T == Nat \ S
<1>1. IsWellFoundedOn(Below, Nat)
  BY NatLessThanWellFounded DEF OpToRel, Below
<1>2. T # {} /\ T \in SUBSET Nat
  OBVIOUS
<1>3. PICK n \in T : \A k \in T : ~(<<k, n>> \in Below)
  <2> HIDE DEF T
  <2> QED BY <1>1, <1>2, WFMin, Zenon
<1>4. n # 0 /\ n \in Nat /\ n - 1 \in Nat /\ (n - 1) + 1 = n
  OBVIOUS
<1>5. n - 1 \in S
  <2> SUFFICES ASSUME n - 1 \in T PROVE FALSE
    BY <1>4
  <2>1. <<n - 1, n>> \in Nat \X Nat /\ <<n - 1, n>>[1] = n - 1 /\ <<n - 1, n>>[2] = n
    BY <1>4
  <2>2. <<n - 1, n>>[1] < <<n - 1, n>>[2]
    BY <1>4, <2>1
  <2>3. <<n - 1, n>> \in Below
    BY <2>1, <2>2, Zenon DEF Below
  <2> QED BY <1>3, <2>3
<1> QED BY <1>4, <1>5

(* The functions that begin with a and go on by step.                      *)
Runs(A, a, step, n) ==
  {f \in [0..n -> A] : f[0] = a /\ \A k \in 1..n : f[k] = step[k][f[k - 1]]}

(* There is one: a function defined by that recursion is one of them.      *)
LEMMA Recursion ==
  ASSUME NEW A, NEW a \in A, NEW n \in Nat, NEW step \in [1..n -> [A -> A]]
  PROVE  Runs(A, a, step, n) # {}
<1> DEFINE Some(i) == \E f \in [0..i -> A] :
                        f[0] = a /\ \A k \in 1..i : f[k] = step[k][f[k - 1]]
           S == {i \in Nat : i <= n => Some(i)}
<1>1. Some(0)
  <2> DEFINE f == [k \in 0..0 |-> a]
  <2>1. f \in [0..0 -> A] /\ f[0] = a /\ \A k \in 1..0 : f[k] = step[k][f[k - 1]]
    OBVIOUS
  <2> HIDE DEF f
  <2> QED BY <2>1
<1>2. ASSUME NEW i \in Nat, i + 1 <= n, Some(i) PROVE Some(i + 1)
  <2>1. PICK f \in [0..i -> A] : f[0] = a /\ \A k \in 1..i : f[k] = step[k][f[k - 1]]
    BY <1>2
  <2> DEFINE next == step[i + 1][f[i]]
             g == [k \in 0..(i + 1) |-> IF k = i + 1 THEN next ELSE f[k]]
  <2>2. i + 1 \in Nat /\ i + 1 \in 1..n /\ (i + 1) - 1 = i /\ i \in 0..i
    BY <1>2
  <2>3. next \in A
    <3>1. f[i] \in A /\ step[i + 1] \in [A -> A]
      BY <2>2
    <3> QED BY <3>1
  <2>4. g \in [0..(i + 1) -> A]
    <3>1. \A k \in 0..(i + 1) : k # i + 1 => k \in 0..i
      BY <2>2
    <3> HIDE DEF next
    <3> QED BY <2>3, <3>1
  <2>5. (\A k \in 0..i : g[k] = f[k]) /\ g[i + 1] = next
    <3> HIDE DEF next
    <3> QED BY <2>2
  <2> HIDE DEF g
  <2>6. g[i + 1] = step[i + 1][g[i]]
    BY <2>2, <2>5
  <2>7. \A k \in 1..(i + 1) : g[k] = step[k][g[k - 1]]
    <3> SUFFICES ASSUME NEW k \in 1..(i + 1) PROVE g[k] = step[k][g[k - 1]]
      OBVIOUS
    <3>1. CASE k = i + 1
      BY <3>1, <2>2, <2>6
    <3>2. CASE k # i + 1
      <4>1. k \in 1..i /\ k \in 0..i /\ k - 1 \in 0..i
        BY <3>2, <2>2
      <4> QED BY <4>1, <2>1, <2>5
    <3> QED BY <3>1, <3>2
  <2>8. g[0] = a
    BY <2>1, <2>5
  <2> QED BY <2>4, <2>7, <2>8
<1> HIDE DEF Some
<1>3. 0 \in S /\ S \in SUBSET Nat /\ \A i \in S : i + 1 \in S
  <2>1. 0 \in S /\ S \in SUBSET Nat
    BY <1>1
  <2>2. \A i \in S : i + 1 \in S
    <3> SUFFICES ASSUME NEW i \in Nat, i <= n => Some(i), i + 1 <= n PROVE Some(i + 1)
      OBVIOUS
    <3> QED BY <1>2
  <2> QED BY <2>1, <2>2
<1> HIDE DEF S
<1>4. S = Nat
  BY <1>3, SetInduction
<1>5. Some(n)
  BY <1>4 DEF S
<1> QED BY <1>5 DEF Some, Runs

-----------------------------------------------------------------------------
(* The list.                                                               *)

(* Taking machines off a list leaves the others, once each.                *)
LEMMA AmongList ==
  ASSUME NEW r \in Seq(Host), IsInjective(r), NEW hosts
  PROVE  /\ Among(hosts, r) \in Seq(Host)
         /\ IsInjective(Among(hosts, r))
         /\ \A h : Contains(Among(hosts, r), h) <=> Contains(r, h) /\ h \in hosts
<1> DEFINE n == Len(r)
           A == Seq(Host)
           Step(i, q) == IF r[i] \in hosts THEN Append(q, r[i]) ELSE q
           Body(f) == [i \in 0..n |-> IF i = 0 THEN <<>>
                                      ELSE IF r[i] \in hosts THEN Append(f[i - 1], r[i])
                                      ELSE f[i - 1]]
           kept == CHOOSE f : f = Body(f)
           step == [i \in 1..n |-> [q \in A |-> Step(i, q)]]
<1>1. n \in Nat /\ <<>> \in A /\ \A i \in 1..n : r[i] \in Host
  OBVIOUS
<1>2. step \in [1..n -> [A -> A]]
  <2>1. \A i \in 1..n, q \in A : Step(i, q) \in A
    BY <1>1
  <2> HIDE DEF Step, A, n
  <2> QED BY <2>1
<1>3. PICK f \in Runs(A, <<>>, step, n) : TRUE
  <2> HIDE DEF step, A, n
  <2> QED BY <1>1, <1>2, Recursion
<1>4. f = Body(f)
  <2>1. f \in [0..n -> A] /\ f[0] = <<>> /\ \A k \in 1..n : f[k] = step[k][f[k - 1]]
    <3> HIDE DEF step, A, n
    <3> QED BY <1>3 DEF Runs
  <2>2. \A k \in 1..n : f[k - 1] \in A
    <3>1. \A k \in 1..n : k - 1 \in 0..n
      BY <1>1
    <3> HIDE DEF step, A, n
    <3> QED BY <2>1, <3>1
  <2>3. \A k \in 1..n : f[k] = Step(k, f[k - 1])
    <3> HIDE DEF A, n, Step
    <3> QED BY <2>1, <2>2
  <2>4. \A k \in 0..n : k # 0 => k \in 1..n
    BY <1>1
  <2> HIDE DEF step, A, n
  <2>5. f = [k \in 0..n |-> f[k]]
    BY <2>1
  <2>6. \A k \in 0..n : f[k] = IF k = 0 THEN <<>>
                               ELSE IF r[k] \in hosts THEN Append(f[k - 1], r[k]) ELSE f[k - 1]
    BY <2>1, <2>3, <2>4
  <2> QED BY <2>5, <2>6
<1>5. kept = Body(kept)
  <2> HIDE DEF Body
  <2> QED BY <1>4
<1>6. Among(hosts, r) = kept[n]
  BY DEF Among
<1> HIDE DEF kept
<1>7. kept[0] = <<>> /\ \A k \in 1..n :
        kept[k] = IF r[k] \in hosts THEN Append(kept[k - 1], r[k]) ELSE kept[k - 1]
  <2>1. \A k \in 0..n : kept[k] = IF k = 0 THEN <<>>
                                  ELSE IF r[k] \in hosts THEN Append(kept[k - 1], r[k])
                                  ELSE kept[k - 1]
    BY <1>5
  <2> QED BY <1>1, <2>1
<1> DEFINE Holds(i) ==
             /\ kept[i] \in Seq(Host)
             /\ IsInjective(kept[i])
             /\ \A h : Contains(kept[i], h) <=> h \in hosts /\ \E j \in 1..i : r[j] = h
           S == {i \in Nat : i <= n => Holds(i)}
<1>8. Holds(0)
  <2>1. kept[0] = <<>>
    BY <1>7
  <2>2. <<>> \in Seq(Host) /\ Len(<<>>) = 0
    OBVIOUS
  <2> QED BY <2>1, <2>2 DEF IsInjective, Contains
<1>9. ASSUME NEW i \in Nat, i + 1 <= n, Holds(i)
      PROVE  Holds(i + 1)
  <2> DEFINE q == kept[i]
             c == r[i + 1]
  <2>1. /\ i + 1 \in 1..n /\ (i + 1) - 1 = i /\ c \in Host /\ q \in Seq(Host)
        /\ kept[i + 1] = IF c \in hosts THEN Append(q, c) ELSE q
    BY <1>1, <1>7, <1>9
  <2>2. \A h : (\E j \in 1..(i + 1) : r[j] = h) <=> (\E j \in 1..i : r[j] = h) \/ h = c
    BY <2>1
  <2>3. CASE c \notin hosts
    <3>1. kept[i + 1] = q
      BY <2>1, <2>3
    <3> QED BY <1>9, <2>2, <2>3, <3>1
  <2>4. CASE c \in hosts
    <3> DEFINE t == Append(q, c)
    <3>1. kept[i + 1] = t
      BY <2>1, <2>4
    <3>2. ~Contains(q, c)
      <4> SUFFICES ASSUME NEW j \in 1..i, r[j] = c PROVE FALSE
        BY <1>9
      <4>1. j \in DOMAIN r /\ i + 1 \in DOMAIN r /\ j # i + 1
        BY <1>1, <2>1
      <4> QED BY <4>1 DEF IsInjective
    <3> HIDE DEF q, c
    <3>3. /\ t \in Seq(Host) /\ Len(t) = Len(q) + 1 /\ Len(q) \in Nat
          /\ \A j \in 1..Len(q) : t[j] = q[j]
          /\ t[Len(q) + 1] = c
      BY <2>1
    <3> HIDE DEF t
    <3>4. \A h : Contains(t, h) <=> Contains(q, h) \/ h = c
      <4>1. \A j \in 1..Len(t) : j \in 1..Len(q) \/ j = Len(q) + 1
        BY <3>3
      <4>2. \A j \in 1..Len(q) : j \in 1..Len(t)
        BY <3>3
      <4>3. Len(q) + 1 \in 1..Len(t)
        BY <3>3
      <4> QED BY <3>3, <4>1, <4>2, <4>3 DEF Contains
    <3>5. IsInjective(t)
      <4>1. \A j \in 1..Len(q) : q[j] # c
        BY <3>2 DEF Contains
      <4>2. \A j, k \in 1..Len(q) : q[j] = q[k] => j = k
        BY <1>9, <2>1 DEF IsInjective, q
      <4>3. DOMAIN t = 1..(Len(q) + 1)
        BY <3>3
      <4> QED BY <3>3, <4>1, <4>2, <4>3 DEF IsInjective
    <3>6. \A h : Contains(q, h) <=> h \in hosts /\ \E j \in 1..i : r[j] = h
      BY <1>9 DEF q
    <3> QED BY <2>2, <2>4, <3>1, <3>3, <3>4, <3>5, <3>6
  <2> QED BY <2>3, <2>4
<1>10. n \in S
  <2> HIDE DEF Holds, n
  <2>1. 0 \in S /\ S \in SUBSET Nat
    BY <1>8
  <2>2. \A i \in S : i + 1 \in S
    BY <1>1, <1>9
  <2> HIDE DEF S
  <2>3. S = Nat
    BY <2>1, <2>2, SetInduction
  <2> QED BY <1>1, <2>3
<1>11. Holds(n)
  <2> HIDE DEF Holds, n
  <2> QED BY <1>1, <1>10
<1> HIDE DEF n
<1>12. \A h : Contains(r, h) <=> \E j \in 1..n : r[j] = h
  BY DEF Contains, n
<1> QED BY <1>6, <1>11, <1>12

(* What TypeOK says of the list and of who is being let in; the entries    *)
(* are in EntriesOK.                                                       *)
ListOK ==
  /\ order \in Seq(Host) /\ IsInjective(order)
  /\ \A h \in Host : Listed(h) <=> Contains(order, h)

SettingsOK ==
  /\ auth_hosts \in AuthHosts \cup {<<>>}
  /\ setting \in Settings
  /\ trying \in [Host -> 0..MaxTrying]

(* Unlinking what is no longer listed, when nothing new is.                *)
LEMMA Unlinking ==
  ASSUME IInv, ListOK, order' = Linked(entry'),
         \A h \in Host : entry'[h].listed => entry[h].listed
  PROVE  ListOK'
<1> DEFINE hosts == {h \in Host : entry'[h].listed}
<1>1. order' = Among(hosts, order)
  BY DEF Linked
<1> HIDE DEF hosts
<1>2. /\ order' \in Seq(Host) /\ IsInjective(order')
      /\ \A h : Contains(order', h) <=> Contains(order, h) /\ h \in hosts
  BY <1>1, AmongList DEF ListOK
<1>3. \A h \in Host : entry'[h].listed <=> Contains(order', h)
  BY <1>2 DEF ListOK, Listed, hosts
<1> QED BY <1>2, <1>3 DEF ListOK, Listed

(* A new entry goes to the front.                                          *)
LEMMA Fronting ==
  ASSUME NEW q \in Seq(Host), IsInjective(q), NEW h \in Host, ~Contains(q, h)
  PROVE  /\ <<h>> \o q \in Seq(Host) /\ IsInjective(<<h>> \o q)
         /\ \A x : Contains(<<h>> \o q, x) <=> x = h \/ Contains(q, x)
<1> DEFINE t == <<h>> \o q
           n == Len(q)
<1>1. /\ t \in Seq(Host) /\ n \in Nat /\ Len(t) = n + 1 /\ t[1] = h
      /\ \A j \in 1..n : t[j + 1] = q[j]
  OBVIOUS
<1>2. DOMAIN q = 1..n
  OBVIOUS
<1>3. (\A j \in 1..n : q[j] # h) /\ \A x : Contains(q, x) <=> \E j \in 1..n : q[j] = x
  BY DEF Contains
<1>4. \A j, k \in 1..n : q[j] = q[k] => j = k
  BY <1>2 DEF IsInjective
<1>5. \A x : Contains(t, x) <=> \E j \in 1..Len(t) : t[j] = x
  BY DEF Contains
<1> HIDE DEF t, n
<1>6. DOMAIN t = 1..(n + 1)
  BY <1>1
<1>7. \A j \in 1..(n + 1) : j = 1 \/ (j - 1 \in 1..n /\ t[j] = q[j - 1])
  <2> TAKE j \in 1..(n + 1)
  <2>1. CASE j # 1
    <3>1. j - 1 \in 1..n /\ (j - 1) + 1 = j
      BY <1>1, <2>1
    <3> QED BY <1>1, <3>1
  <2> QED BY <2>1
<1>8. IsInjective(t)
  <2> SUFFICES ASSUME NEW j \in 1..(n + 1), NEW k \in 1..(n + 1), t[j] = t[k] PROVE j = k
    BY <1>6 DEF IsInjective
  <2>1. CASE j = 1 /\ k = 1
    BY <2>1
  <2>2. CASE j # 1 /\ k # 1
    <3>1. q[j - 1] = q[k - 1] /\ j - 1 \in 1..n /\ k - 1 \in 1..n
      BY <1>7, <2>2
    <3>2. j - 1 = k - 1
      BY <1>4, <3>1
    <3> QED BY <1>1, <3>2
  <2>3. CASE (j = 1 /\ k # 1) \/ (j # 1 /\ k = 1)
    BY <1>1, <1>3, <1>7, <2>3
  <2> QED BY <2>1, <2>2, <2>3
<1>9. \A x : Contains(t, x) <=> x = h \/ Contains(q, x)
  <2> TAKE x
  <2>1. 1 \in 1..(n + 1) /\ \A j \in 1..n : j + 1 \in 1..(n + 1)
    BY <1>1
  <2> QED BY <1>1, <1>3, <1>5, <1>7, <2>1
<1> QED BY <1>1, <1>8, <1>9 DEF t

LEMMA ListKeeps ==
  ASSUME IInv, ListOK, [Next]_vars
  PROVE  ListOK'
<1> USE HoldAssumption, LimitAssumption
<1>1. ASSUME NEW h \in Host, VerifyHost(h) PROVE ListOK'
  <2>1. \A x \in Host : entry'[x] = entry[x] \/ entry'[x] = Aged(entry[x])
    BY <1>1 DEF VerifyHost
  <2>2. \A e \in Entries : Aged(e).listed => e.listed
    <3> SUFFICES ASSUME NEW e \in Entries, ~e.listed, Aged(e).listed PROVE FALSE
      OBVIOUS
    <3>1. CASE e.left < 0 /\ e.blocked
      BY <3>1, AgedBlocked
    <3>2. CASE ~(e.left < 0 /\ e.blocked)
      BY <3>2, FieldsType DEF Aged, NoEntry
    <3> QED BY <3>1, <3>2
  <2>3. \A x \in Host : entry'[x].listed => entry[x].listed
    BY <2>1, <2>2 DEF IInv, EntriesOK
  <2> QED BY <1>1, <2>3, Unlinking DEF VerifyHost
<1>2. ASSUME NEW h \in Host, RemAuthHostsBlacklist(h) PROVE ListOK'
  <2>1. \A x \in Host : entry'[x] = IF x = h THEN NoEntry ELSE entry[x]
    BY <1>2 DEF RemAuthHostsBlacklist, IInv, EntriesOK
  <2>2. \A x \in Host : entry'[x].listed => entry[x].listed
    BY <2>1 DEF NoEntry
  <2> QED BY <1>2, <2>2, Unlinking DEF RemAuthHostsBlacklist
<1>3. ASSUME NEW h \in Host, AddAuthHostsBlacklist(h) PROVE ListOK'
  <2>1. \A x \in Host : entry'[x] = IF x = h THEN Failure(entry[h]) ELSE entry[x]
    BY <1>3 DEF AddAuthHostsBlacklist, IInv, EntriesOK
  <2>2. Failure(entry[h]).listed
    <3>1. entry[h] \in Entries
      BY DEF IInv, EntriesOK
    <3>2. CASE entry[h].listed /\ ~entry[h].blocked
      BY <3>1, <3>2, FailureOpen
    <3>3. CASE ~(entry[h].listed /\ ~entry[h].blocked)
      BY <3>1, <3>3 DEF Failure
    <3> QED BY <3>2, <3>3
  <2>3. \A x \in Host : entry'[x].listed <=> x = h \/ entry[x].listed
    BY <2>1, <2>2
  <2>4. CASE Listed(h)
    <3>1. order' = order
      BY <1>3, <2>4 DEF AddAuthHostsBlacklist
    <3> QED BY <2>3, <2>4, <3>1 DEF ListOK, Listed
  <2>5. CASE ~Listed(h)
    <3>1. order' = <<h>> \o order /\ ~Contains(order, h)
      BY <1>3, <2>5 DEF AddAuthHostsBlacklist, ListOK
    <3>2. /\ order' \in Seq(Host) /\ IsInjective(order')
          /\ \A x : Contains(order', x) <=> x = h \/ Contains(order, x)
      BY <3>1, Fronting DEF ListOK
    <3> QED BY <2>3, <3>2 DEF ListOK, Listed
  <2> QED BY <2>4, <2>5
<1>4. CASE Tick
  <2>1. \A h \in Host : entry'[h].listed = entry[h].listed
    BY <1>4, OneLess DEF Tick, IInv, EntriesOK
  <2> QED BY <1>4, <2>1 DEF Tick, ListOK, Listed
<1>5. CASE UNCHANGED <<entry, order>>
  BY <1>5 DEF ListOK, Listed
<1>6. \/ \E h \in Host : GivesUp(h)
      \/ \E s \in AuthHosts : SetAuthHosts(s)
      \/ \E q \in Settings : SetQuerySetting(q)
      \/ UNCHANGED vars
      => UNCHANGED <<entry, order>>
  BY DEF GivesUp, SetAuthHosts, SetQuerySetting, vars
<1> QED BY <1>1, <1>2, <1>3, <1>4, <1>5, <1>6 DEF Next

LEMMA SettingsKeep ==
  ASSUME SettingsOK, [Next]_vars
  PROVE  SettingsOK'
<1> USE TryingAssumption
<1>1. CASE UNCHANGED <<auth_hosts, setting>>
  <2>1. ASSUME NEW h \in Host, trying' = [trying EXCEPT ![h] = trying[h] + 1], trying[h] < MaxTrying
        PROVE  SettingsOK'
    BY <1>1, <2>1 DEF SettingsOK
  <2>2. ASSUME NEW h \in Host, trying' = [trying EXCEPT ![h] = trying[h] - 1], trying[h] > 0
        PROVE  SettingsOK'
    BY <1>1, <2>2 DEF SettingsOK
  <2>3. CASE UNCHANGED trying
    BY <1>1, <2>3 DEF SettingsOK
  <2>4. \/ UNCHANGED trying
        \/ \E h \in Host : trying' = [trying EXCEPT ![h] = trying[h] + 1] /\ trying[h] < MaxTrying
        \/ \E h \in Host : trying' = [trying EXCEPT ![h] = trying[h] - 1] /\ trying[h] > 0
    BY DEF Next, vars, VerifyHost, AddAuthHostsBlacklist, RemAuthHostsBlacklist, GivesUp,
           SetAuthHosts, SetQuerySetting, Tick, SettingsOK
  <2> QED BY <2>1, <2>2, <2>3, <2>4
<1>2. ASSUME NEW s \in AuthHosts, SetAuthHosts(s) PROVE SettingsOK'
  BY <1>2 DEF SetAuthHosts, SettingsOK
<1>3. ASSUME NEW q \in Settings, SetQuerySetting(q) PROVE SettingsOK'
  BY <1>3 DEF SetQuerySetting, SettingsOK
<1>4. \/ UNCHANGED <<auth_hosts, setting>>
      \/ \E s \in AuthHosts : SetAuthHosts(s)
      \/ \E q \in Settings : SetQuerySetting(q)
  BY DEF Next, vars, VerifyHost, AddAuthHostsBlacklist, RemAuthHostsBlacklist, GivesUp, Tick
<1> QED BY <1>1, <1>2, <1>3, <1>4

LEMMA AlwaysListed == Spec => [](ListOK /\ SettingsOK)
<1>1. Init => ListOK /\ SettingsOK
  <2> SUFFICES ASSUME Init PROVE ListOK /\ SettingsOK
    OBVIOUS
  <2>1. order = <<>> /\ \A h \in Host : ~entry[h].listed
    BY DEF Init, NoEntry
  <2>2. ListOK
    BY <2>1 DEF ListOK, Listed, IsInjective, Contains
  <2> QED BY <2>2, TryingAssumption DEF Init, SettingsOK
<1>2. IInv /\ ListOK /\ SettingsOK /\ [Next]_vars => (ListOK /\ SettingsOK)'
  BY ListKeeps, SettingsKeep
<1> QED BY <1>1, <1>2, Inductive, PTL DEF Spec

(* The blacklist names each machine that has an entry once: unlinking an   *)
(* entry at the front, in the middle or at the end, by VerifyHost and by   *)
(* RemAuthHostsBlacklist, loses no other.                                  *)
THEOREM TypeCorrect == Spec => []TypeOK
<1>1. IInv /\ ListOK /\ SettingsOK => TypeOK
  BY DEF IInv, EntriesOK, Entries, ListOK, SettingsOK, TypeOK
<1> QED BY <1>1, Inductive, AlwaysListed, PTL
-----------------------------------------------------------------------------
(* The filter.                                                             *)

Signs == {"+", "-", "?"}

Modes == [mode : {"sign", "pattern", "delimiter"}, type : 0..2, from : Nat, verdict : 0..2]

Start == [mode |-> "sign", type |-> Reject, from |-> 0, verdict |-> Accept]

LEMMA PrefixByCharacter ==
  ASSUME NEW C, NEW p \in Seq(C), NEW h \in Seq(C)
  PROVE  IsPrefix(p, h) <=> Len(p) <= Len(h) /\ \A j \in 1..Len(p) : p[j] = h[j]
<1>1. Len(p) \in Nat /\ Len(h) \in Nat
  OBVIOUS
<1>2. SUFFICES ASSUME Len(p) <= Len(h)
               PROVE  SubSeq(p, 1, Len(p)) = SubSeq(h, 1, Len(p)) <=>
                      \A j \in 1..Len(p) : p[j] = h[j]
  BY DEF IsPrefix
<1> DEFINE n == Len(p)
           a == SubSeq(p, 1, n)
           b == SubSeq(h, 1, n)
<1>3. (\A j \in 1..n : p[j] \in C) /\ (\A j \in 1..n : h[j] \in C) /\ n \in Nat
  BY <1>1, <1>2
<1> HIDE DEF n
<1>4. /\ a \in Seq(C) /\ Len(a) = n
      /\ \A j \in 1..n : a[j] = p[j]
  <2>1. /\ a \in Seq(C) /\ Len(a) = (IF 1 <= n THEN n - 1 + 1 ELSE 0)
        /\ \A j \in 1..(n - 1 + 1) : a[j] = p[1 + j - 1]
    BY <1>3, SubSeqProperties
  <2> HIDE DEF a
  <2> QED BY <1>3, <2>1
<1>5. /\ b \in Seq(C) /\ Len(b) = n
      /\ \A j \in 1..n : b[j] = h[j]
  <2>1. /\ b \in Seq(C) /\ Len(b) = (IF 1 <= n THEN n - 1 + 1 ELSE 0)
        /\ \A j \in 1..(n - 1 + 1) : b[j] = h[1 + j - 1]
    BY <1>3, SubSeqProperties
  <2> HIDE DEF b
  <2> QED BY <1>3, <2>1
<1> HIDE DEF a, b
<1>6. a = b <=> \A j \in 1..n : p[j] = h[j]
  <2>1. ASSUME \A j \in 1..n : p[j] = h[j] PROVE a = b
    <3>1. \A j \in 1..Len(a) : a[j] = b[j]
      BY <1>4, <1>5, <2>1
    <3> QED BY <1>4, <1>5, <3>1, SeqEqual
  <2> QED BY <1>4, <1>5, <2>1
<1> QED BY <1>6 DEF a, b, n

(* MatchStringToTemplate finds the names that are the pattern or that go   *)
(* on from it with a dot.                                                  *)
LEMMA Matching ==
  ASSUME NEW C, "." \in C, NEW p \in Seq(C), NEW h \in Seq(C)
  PROVE  MatchStringToTemplate(h, p) <=> p = <<>> \/ p = h \/ IsPrefix(p \o <<".">>, h)
<1> DEFINE n == Len(p)
           q == p \o <<".">>
<1>1. n \in Nat /\ Len(h) \in Nat /\ (n = 0 <=> p = <<>>)
  OBVIOUS
<1>2. /\ q \in Seq(C) /\ Len(q) = n + 1
      /\ \A j \in 1..n : q[j] = p[j]
      /\ q[n + 1] = "."
  OBVIOUS
<1> HIDE DEF q
<1>3. IsPrefix(q, h) <=> n + 1 <= Len(h) /\ (\A j \in 1..n : p[j] = h[j]) /\ h[n + 1] = "."
  <2>1. IsPrefix(q, h) <=> Len(q) <= Len(h) /\ \A j \in 1..Len(q) : q[j] = h[j]
    BY <1>2, PrefixByCharacter
  <2>2. \A j \in 1..(n + 1) : j \in 1..n \/ j = n + 1
    BY <1>1
  <2>3. n + 1 \in 1..(n + 1) /\ \A j \in 1..n : j \in 1..(n + 1)
    BY <1>1
  <2> HIDE DEF n
  <2> QED BY <1>2, <2>1, <2>2, <2>3
<1>4. IsPrefix(p, h) <=> n <= Len(h) /\ \A j \in 1..n : p[j] = h[j]
  BY PrefixByCharacter
<1>5. p = h <=> n = Len(h) /\ \A j \in 1..n : p[j] = h[j]
  BY SeqEqual
<1> HIDE DEF n
<1>6. MatchStringToTemplate(h, p) <=>
        IsPrefix(p, h) /\ (n = 0 \/ n = Len(h) \/ h[n + 1] = ".")
  BY DEF MatchStringToTemplate, n
<1>7. MatchStringToTemplate(h, p) <=> p = <<>> \/ p = h \/ IsPrefix(q, h)
  BY <1>1, <1>3, <1>4, <1>5, <1>6
<1> QED BY <1>7 DEF q

(* What one character does in each mode.                                   *)
LEMMA VerdictType ==
  ASSUME NEW c \in Signs
  PROVE  Verdict(c) \in 0..2
BY DEF Signs, Verdict, Accept, Query, Reject

LEMMA ThreeFields ==
  ASSUME NEW m \in Modes, NEW mode, NEW type, NEW from
  PROVE  [m EXCEPT !.mode = mode, !.type = type, !.from = from] =
         [mode |-> mode, type |-> type, from |-> from, verdict |-> m.verdict]
<1>1. [m EXCEPT !.mode = mode] =
      [mode |-> mode, type |-> m.type, from |-> m.from, verdict |-> m.verdict]
  BY DEF Modes
<1>2. [[mode |-> mode, type |-> m.type, from |-> m.from, verdict |-> m.verdict] EXCEPT !.type = type] =
      [mode |-> mode, type |-> type, from |-> m.from, verdict |-> m.verdict]
  OBVIOUS
<1>3. [[mode |-> mode, type |-> type, from |-> m.from, verdict |-> m.verdict] EXCEPT !.from = from] =
      [mode |-> mode, type |-> type, from |-> from, verdict |-> m.verdict]
  OBVIOUS
<1>4. [m EXCEPT !.mode = mode, !.type = type, !.from = from] =
      [[[m EXCEPT !.mode = mode] EXCEPT !.type = type] EXCEPT !.from = from]
  OBVIOUS
<1> QED BY <1>1, <1>2, <1>3, <1>4

LEMMA ProcessSign ==
  ASSUME NEW h, NEW s, NEW i \in Nat, NEW m \in Modes, m.mode = "sign", Len(s) \in Nat
  PROVE  /\ i > Len(s) => Process(h, s, i, m) = m
         /\ i <= Len(s) /\ s[i] \in Signs =>
              Process(h, s, i, m) = [mode |-> "pattern", type |-> Verdict(s[i]),
                                     from |-> i + 1, verdict |-> m.verdict]
         /\ i <= Len(s) /\ s[i] \notin Signs =>
              Process(h, s, i, m) = [mode |-> "delimiter", type |-> m.type,
                                     from |-> m.from, verdict |-> m.verdict]
<1>1. \A c : [m EXCEPT !.mode = c] =
        [mode |-> c, type |-> m.type, from |-> m.from, verdict |-> m.verdict]
  BY DEF Modes
<1>2. Process(h, s, i, m) =
        IF i > Len(s) THEN m
        ELSE IF s[i] \in Signs
             THEN [m EXCEPT !.mode = "pattern", !.type = Verdict(s[i]), !.from = i + 1]
             ELSE [m EXCEPT !.mode = "delimiter"]
  BY DEF Process, Signs
<1>3. [m EXCEPT !.mode = "pattern", !.type = Verdict(s[i]), !.from = i + 1] =
      [mode |-> "pattern", type |-> Verdict(s[i]), from |-> i + 1, verdict |-> m.verdict]
  BY ThreeFields
<1>4. i > Len(s) <=> ~(i <= Len(s))
  OBVIOUS
<1> QED BY <1>1, <1>2, <1>3, <1>4, Zenon

LEMMA ProcessRest ==
  ASSUME NEW h, NEW s, NEW i, NEW m \in Modes, m.mode # "sign"
  PROVE  /\ ~EndsItem(s, i) => Process(h, s, i, m) = m
         /\ EndsItem(s, i) =>
              Process(h, s, i, m) =
                [mode |-> "sign", type |-> m.type, from |-> m.from,
                 verdict |-> IF /\ m.mode = "pattern"
                                /\ MatchStringToTemplate(h, SubSeq(s, m.from, i - 1))
                             THEN m.type ELSE m.verdict]
BY DEF Process, Modes

LEMMA ProcessType ==
  ASSUME NEW h, NEW s, NEW i \in Nat, NEW m \in Modes, Len(s) \in Nat
  PROVE  Process(h, s, i, m) \in Modes
<1>1. CASE m.mode = "sign"
  <2>1. CASE i > Len(s)
    BY <1>1, <2>1, ProcessSign
  <2>2. CASE i <= Len(s) /\ s[i] \in Signs
    <3>1. Verdict(s[i]) \in 0..2 /\ i + 1 \in Nat
      BY <2>2, VerdictType
    <3> QED BY <1>1, <2>2, <3>1, ProcessSign DEF Modes
  <2>3. CASE i <= Len(s) /\ s[i] \notin Signs
    BY <1>1, <2>3, ProcessSign DEF Modes
  <2> QED BY <2>1, <2>2, <2>3
<1>2. CASE m.mode # "sign"
  BY <1>2, ProcessRest DEF Modes
<1> QED BY <1>1, <1>2
(* f is the record of a walk of the filter s, n characters in all: what is *)
(* known after each of them, the last of which gives the verdict.          *)
IsWalk(f, h, s, n) ==
  /\ f \in [0..n -> Modes]
  /\ f[0] = Start
  /\ \A k \in 1..n : f[k] = Process(h, s, k, f[k - 1])
  /\ Filtered(h, s) = f[n].verdict

(* The filter is gone through one character at a time, to the zero.        *)
LEMMA Walks ==
  ASSUME NEW h, NEW s, NEW n \in Nat, n = Len(s) + 1, Len(s) \in Nat
  PROVE  \E f : IsWalk(f, h, s, n)
<1> DEFINE Body(f) == [i \in 0..n |-> IF i = 0 THEN Start ELSE Process(h, s, i, f[i - 1])]
           walk == CHOOSE f : f = Body(f)
           step == [i \in 1..n |-> [m \in Modes |-> Process(h, s, i, m)]]
<1>1. Start \in Modes
  BY DEF Start, Modes, Accept, Reject
<1>2. step \in [1..n -> [Modes -> Modes]]
  BY ProcessType
<1>3. PICK f \in Runs(Modes, Start, step, n) : TRUE
  <2> HIDE DEF step
  <2> QED BY <1>1, <1>2, Recursion
<1>4. /\ f \in [0..n -> Modes] /\ f[0] = Start
      /\ \A k \in 1..n : f[k] = Process(h, s, k, f[k - 1])
  <2>1. /\ f \in [0..n -> Modes] /\ f[0] = Start
        /\ \A k \in 1..n : f[k] = step[k][f[k - 1]]
    <3> HIDE DEF step
    <3> QED BY <1>3 DEF Runs
  <2>2. \A k \in 1..n : f[k - 1] \in Modes
    BY <2>1
  <2> QED BY <2>1, <2>2
<1>5. f = Body(f)
  <2>1. f = [k \in 0..n |-> f[k]]
    BY <1>4
  <2>2. \A k \in 0..n : f[k] = IF k = 0 THEN Start ELSE Process(h, s, k, f[k - 1])
    BY <1>4
  <2> QED BY <2>1, <2>2
<1>6. walk = Body(walk)
  <2> HIDE DEF Body
  <2> QED BY <1>5
<1>7. Filtered(h, s) = walk[n].verdict
  BY DEF Filtered, Start
<1> HIDE DEF walk
<1>8. \A k \in 0..n : walk[k] = IF k = 0 THEN Start ELSE Process(h, s, k, walk[k - 1])
  BY <1>6
<1> DEFINE S == {i \in Nat : i <= n => walk[i] = f[i]}
<1>9. S = Nat
  <2>1. 0 \in S
    BY <1>4, <1>8
  <2>2. \A i \in S : i + 1 \in S
    <3> SUFFICES ASSUME NEW i \in Nat, i <= n => walk[i] = f[i], i + 1 <= n
                 PROVE  walk[i + 1] = f[i + 1]
      OBVIOUS
    <3>1. i + 1 \in 0..n /\ i + 1 \in 1..n /\ i + 1 # 0 /\ (i + 1) - 1 = i /\ i <= n
      OBVIOUS
    <3> QED BY <1>4, <1>8, <3>1
  <2> HIDE DEF S
  <2>3. S \in SUBSET Nat
    BY DEF S
  <2> QED BY <2>1, <2>2, <2>3, SetInduction
<1>10. walk[n] = f[n]
  BY <1>9
<1>11. IsWalk(f, h, s, n)
  BY <1>4, <1>7, <1>10 DEF IsWalk
<1> QED BY <1>11
(* The items before the i-th character that cover the machine, and the     *)
(* verdict of the last of them.                                            *)
Covering(h, s, i) == {ab \in Items(s) : Covers(h, s, ab) /\ ab[2] < i}

LastOf(h, s, i, v) ==
  \/ Covering(h, s, i) = {} /\ v = Accept
  \/ \E ab \in Covering(h, s, i) :
       (\A other \in Covering(h, s, i) : other[1] <= ab[1]) /\ v = Verdict(s[ab[1]])

(* An item starts at a, and the i-th character is in it.                   *)
Within(s, i, a) ==
  /\ a \in 1..i /\ (a = 1 \/ s[a - 1] = ":")
  /\ \A j \in a..i : s[j] # ":"

(* What the mode says of the item that the i-th character is in.           *)
Shape(s, i, m) ==
  /\ m.mode = "sign" => i = 0 \/ s[i] = ":"
  /\ m.mode # "sign" =>
       \E a \in 1..i :
         /\ Within(s, i, a)
         /\ m.mode = "pattern" => s[a] \in Signs /\ m.type = Verdict(s[a]) /\ m.from = a + 1
         /\ m.mode = "delimiter" => s[a] \notin Signs

LEMMA ItemFacts ==
  ASSUME NEW s, NEW n \in Nat, n = Len(s), NEW ab \in Items(s)
  PROVE  /\ ab[1] \in 1..n /\ ab[2] \in 1..n /\ ab = <<ab[1], ab[2]>> /\ ab[1] <= ab[2]
         /\ ab[1] = 1 \/ s[ab[1] - 1] = ":"
         /\ ab[2] = n \/ s[ab[2] + 1] = ":"
         /\ \A i \in ab[1]..ab[2] : s[i] # ":"
<1>1. ab \in (1..n) \X (1..n)
  BY DEF Items
<1>2. ab[1] \in 1..n /\ ab[2] \in 1..n /\ ab = <<ab[1], ab[2]>>
  BY <1>1
<1> QED BY <1>2, Zenon DEF Items

(* No item ends at a colon, or where it goes on.                           *)
LEMMA NoneEnds ==
  ASSUME NEW h, NEW s, NEW n \in Nat, n = Len(s), NEW i \in 0..n,
         i = 0 \/ s[i] = ":" \/ (i < n /\ s[i + 1] # ":")
  PROVE  Covering(h, s, i + 1) = Covering(h, s, i)
<1>1. ASSUME NEW ab \in Items(s) PROVE ab[2] < i + 1 <=> ab[2] < i
  <2>1. /\ ab[1] \in 1..n /\ ab[2] \in 1..n /\ ab[1] <= ab[2]
        /\ ab[2] = n \/ s[ab[2] + 1] = ":"
        /\ \A j \in ab[1]..ab[2] : s[j] # ":"
    BY ItemFacts
  <2>2. ab[2] # i
    BY <2>1
  <2> QED BY <2>1, <2>2
<1> QED BY <1>1 DEF Covering

(* The item that the i-th character is in is the last to start, and the    *)
(* only one that may end there.                                            *)
LEMMA OneItem ==
  ASSUME NEW s, NEW n \in Nat, n = Len(s), NEW i \in 1..n, NEW a, Within(s, i, a),
         NEW ab \in Items(s), ab[2] <= i
  PROVE  ab[1] <= a /\ (ab[2] = i => ab = <<a, i>>)
<1>1. /\ ab[1] \in 1..n /\ ab[2] \in 1..n /\ ab = <<ab[1], ab[2]>> /\ ab[1] <= ab[2]
      /\ ab[1] = 1 \/ s[ab[1] - 1] = ":"
      /\ \A j \in ab[1]..ab[2] : s[j] # ":"
  BY ItemFacts
<1>2. a \in 1..i /\ (a = 1 \/ s[a - 1] = ":") /\ \A j \in a..i : s[j] # ":"
  BY DEF Within
<1>3. ab[1] <= a
  <2> SUFFICES ASSUME ab[1] > a PROVE FALSE
    BY <1>1, <1>2
  <2>1. ab[1] - 1 \in a..i /\ ab[1] # 1
    BY <1>1, <1>2
  <2> QED BY <1>1, <1>2, <2>1
<1>4. ASSUME ab[2] = i PROVE ab[1] = a
  <2> SUFFICES ASSUME ab[1] < a PROVE FALSE
    BY <1>1, <1>2, <1>3
  <2>1. a - 1 \in ab[1]..ab[2] /\ a # 1
    BY <1>1, <1>2, <1>4
  <2> QED BY <1>1, <1>2, <2>1
<1> QED BY <1>1, <1>3, <1>4

LEMMA ItemEnds ==
  ASSUME NEW s, NEW n \in Nat, n = Len(s), NEW i \in 1..n, NEW a, Within(s, i, a),
         EndsItem(s, i + 1)
  PROVE  <<a, i>> \in Items(s)
<1>1. a \in 1..i /\ (a = 1 \/ s[a - 1] = ":") /\ \A j \in a..i : s[j] # ":"
  BY DEF Within
<1>2. i = n \/ s[i + 1] = ":"
  BY DEF EndsItem
<1> DEFINE ab == <<a, i>>
<1>3. ab \in (1..n) \X (1..n) /\ ab[1] = a /\ ab[2] = i
  BY <1>1
<1> HIDE DEF ab
<1>4. ab \in Items(s)
  BY <1>1, <1>2, <1>3 DEF Items
<1> QED BY <1>4 DEF ab

(* What the code makes of an item is whether it covers the machine.        *)
LEMMA CoversMatch ==
  ASSUME NEW h \in Seq(STRING), NEW s \in Seq(STRING), NEW i \in 1..Len(s), NEW a \in 1..i
  PROVE  Covers(h, s, <<a, i>>) <=>
           s[a] \in Signs /\ MatchStringToTemplate(h, SubSeq(s, a + 1, i))
<1> DEFINE C == STRING \cup {"."}
           p == SubSeq(s, a + 1, i)
<1>1. \A S, T : S \subseteq T => Seq(S) \subseteq Seq(T)
  OBVIOUS
<1>2. h \in Seq(C) /\ s \in Seq(C) /\ "." \in C
  BY <1>1
<1> HIDE DEF C
<1>3. p \in Seq(C)
  <2>1. \A j \in (a + 1)..i : s[j] \in C
    BY <1>2
  <2> QED BY <2>1, SubSeqProperties
<1> HIDE DEF p
<1>4. MatchStringToTemplate(h, p) <=> p = <<>> \/ p = h \/ IsPrefix(p \o <<".">>, h)
  BY <1>2, <1>3, Matching
<1> QED BY <1>4 DEF Covers, Signs, p
(* One more character keeps what the walk knows.                           *)
LEMMA WalkKeeps ==
  ASSUME NEW h \in Seq(STRING), NEW s \in Seq(STRING), NoEmptyItem(s),
         NEW n \in Nat, n = Len(s), NEW i \in 0..n, NEW m \in Modes,
         Shape(s, i, m), LastOf(h, s, i, m.verdict),
         NEW m2, m2 = Process(h, s, i + 1, m)
  PROVE  LastOf(h, s, i + 1, m2.verdict) /\ (i + 1 <= n => Shape(s, i + 1, m2))
<1>1. i + 1 \in Nat /\ i \in Nat
  OBVIOUS
<1>2. ASSUME Covering(h, s, i + 1) = Covering(h, s, i), m2.verdict = m.verdict
      PROVE  LastOf(h, s, i + 1, m2.verdict)
  BY <1>2, Zenon DEF LastOf
<1>3. CASE m.mode = "sign" /\ i + 1 > n
  <2>1. m2 = m /\ i = n /\ (i = 0 \/ s[i] = ":")
    BY <1>1, <1>3, ProcessSign DEF Shape
  <2>2. Covering(h, s, i + 1) = Covering(h, s, i)
    BY <2>1, NoneEnds
  <2> QED BY <1>2, <1>3, <2>1, <2>2
<1>4. CASE m.mode = "sign" /\ i + 1 <= n
  <2> DEFINE a == i + 1
  <2>1. i = 0 \/ s[i] = ":"
    BY <1>4 DEF Shape
  <2>2. a \in 1..n /\ a - 1 = i /\ (s[a] = ":" => i > 0 /\ s[i] # ":")
    BY <1>1, <1>4 DEF NoEmptyItem
  <2>3. s[a] # ":"
    BY <2>1, <2>2
  <2>4. Within(s, a, a)
    <3>1. \A j \in a..a : j = a
      BY <2>2
    <3>2. a \in 1..a
      BY <2>2
    <3> QED BY <2>1, <2>2, <2>3, <3>1, <3>2 DEF Within
  <2>5. Covering(h, s, i + 1) = Covering(h, s, i)
    BY <2>1, NoneEnds
  <2>6. CASE s[a] \in Signs
    <3>1. m2 = [mode |-> "pattern", type |-> Verdict(s[a]), from |-> a + 1, verdict |-> m.verdict]
      BY <1>1, <1>4, <2>6, ProcessSign
    <3>2. m2.mode = "pattern" /\ m2.type = Verdict(s[a]) /\ m2.from = a + 1 /\ m2.verdict = m.verdict
      BY <3>1
    <3>3. a \in 1..(i + 1)
      BY <2>2
    <3>4. Shape(s, i + 1, m2)
      BY <2>4, <2>6, <3>2, <3>3 DEF Shape
    <3> QED BY <1>2, <2>5, <3>2, <3>4
  <2>7. CASE s[a] \notin Signs
    <3>1. m2 = [mode |-> "delimiter", type |-> m.type, from |-> m.from, verdict |-> m.verdict]
      BY <1>1, <1>4, <2>7, ProcessSign
    <3>2. m2.mode = "delimiter" /\ m2.verdict = m.verdict
      BY <3>1
    <3>3. a \in 1..(i + 1)
      BY <2>2
    <3>4. Shape(s, i + 1, m2)
      BY <2>4, <2>7, <3>2, <3>3 DEF Shape
    <3> QED BY <1>2, <2>5, <3>2, <3>4
  <2> QED BY <2>6, <2>7
<1>5. CASE m.mode # "sign"
  <2>1. PICK a \in 1..i :
          /\ Within(s, i, a)
          /\ m.mode = "pattern" => s[a] \in Signs /\ m.type = Verdict(s[a]) /\ m.from = a + 1
          /\ m.mode = "delimiter" => s[a] \notin Signs
    BY <1>5 DEF Shape
  <2>2. i \in 1..n
    BY <2>1
  <2>3. CASE ~EndsItem(s, i + 1)
    <3>1. m2 = m
      BY <1>5, <2>3, ProcessRest
    <3>2. i < n /\ s[i + 1] # ":"
      BY <2>3 DEF EndsItem
    <3>3. Covering(h, s, i + 1) = Covering(h, s, i)
      BY <3>2, NoneEnds
    <3>4. Within(s, i + 1, a)
      <4>1. \A j \in a..(i + 1) : j \in a..i \/ j = i + 1
        BY <1>1, <2>1
      <4>2. a \in 1..(i + 1)
        BY <1>1, <2>1
      <4> QED BY <2>1, <3>2, <4>1, <4>2 DEF Within
    <3>5. a \in 1..(i + 1)
      BY <2>1
    <3>6. Shape(s, i + 1, m2)
      BY <1>5, <2>1, <3>1, <3>4, <3>5 DEF Shape
    <3> QED BY <1>2, <3>1, <3>3, <3>6
  <2>4. CASE EndsItem(s, i + 1)
    <3> DEFINE hit == m.mode = "pattern" /\ MatchStringToTemplate(h, SubSeq(s, m.from, i))
               item == <<a, i>>
    <3>1. m2.mode = "sign" /\ m2.verdict = IF hit THEN m.type ELSE m.verdict
      <4>1. (i + 1) - 1 = i
        BY <1>1
      <4>2. m2 = [mode |-> "sign", type |-> m.type, from |-> m.from,
                  verdict |-> IF hit THEN m.type ELSE m.verdict]
        BY <1>5, <2>4, <4>1, ProcessRest
      <4> QED BY <4>2
    <3>2. i + 1 <= n => Shape(s, i + 1, m2)
      BY <2>4, <3>1 DEF Shape, EndsItem
    <3>3. hit <=> Covers(h, s, item)
      <4>1. m.mode = "pattern" \/ m.mode = "delimiter"
        BY <1>5 DEF Modes
      <4>2. Covers(h, s, item) <=>
              s[a] \in Signs /\ MatchStringToTemplate(h, SubSeq(s, a + 1, i))
        BY <2>1, <2>2, CoversMatch
      <4> QED BY <2>1, <4>1, <4>2
    <3>4. item \in Items(s) /\ item[1] = a /\ item[2] = i
      BY <2>1, <2>2, <2>4, ItemEnds
    <3>5. \A ab \in Items(s) : /\ ab[2] < i + 1 <=> ab[2] < i \/ ab = item
                               /\ ab[2] < i + 1 => ab[1] <= a
      <4> SUFFICES ASSUME NEW ab \in Items(s)
                   PROVE  /\ ab[2] < i + 1 <=> ab[2] < i \/ ab = item
                          /\ ab[2] < i + 1 => ab[1] <= a
        OBVIOUS
      <4>1. ab[2] \in 1..n
        BY ItemFacts
      <4>2. ab[2] <= i => ab[1] <= a /\ (ab[2] = i => ab = item)
        BY <2>1, <2>2, OneItem
      <4> HIDE DEF item
      <4> QED BY <1>1, <3>4, <4>1, <4>2
    <3> HIDE DEF hit, item
    <3>6. CASE hit
      <4>1. item \in Covering(h, s, i + 1)
        BY <3>3, <3>4, <3>5, <3>6 DEF Covering
      <4>2. \A other \in Covering(h, s, i + 1) : other[1] <= item[1]
        BY <3>4, <3>5 DEF Covering
      <4>3. m2.verdict = Verdict(s[item[1]])
        BY <2>1, <3>1, <3>4, <3>6 DEF hit
      <4>4. LastOf(h, s, i + 1, m2.verdict)
        BY <4>1, <4>2, <4>3, Zenon DEF LastOf
      <4> QED BY <3>2, <4>4
    <3>7. CASE ~hit
      <4>1. Covering(h, s, i + 1) = Covering(h, s, i)
        BY <3>3, <3>5, <3>7 DEF Covering
      <4> QED BY <1>2, <3>1, <3>2, <3>7, <4>1
    <3> QED BY <3>6, <3>7
  <2> QED BY <2>3, <2>4
<1> QED BY <1>1, <1>3, <1>4, <1>5
(* At the terminating zero every item has been seen.                       *)
LEMMA LastMatch ==
  ASSUME NEW h \in Seq(STRING), NEW s \in Seq(STRING), NoEmptyItem(s)
  PROVE  LastOf(h, s, Len(s) + 1, Filtered(h, s))
<1>1. PICK n \in Nat : n = Len(s)
  OBVIOUS
<1>2. PICK f \in [0..n + 1 -> Modes] :
        /\ f[0] = Start
        /\ \A k \in 1..n + 1 : f[k] = Process(h, s, k, f[k - 1])
        /\ Filtered(h, s) = f[n + 1].verdict
  <2>1. PICK last : last = Len(s) + 1
    OBVIOUS
  <2>2. last \in Nat /\ Len(s) \in Nat /\ last = n + 1
    BY <1>1, <2>1
  <2>3. \E f : IsWalk(f, h, s, last)
    BY <2>1, <2>2, Walks
  <2>4. \E f : IsWalk(f, h, s, n + 1)
    BY <2>2, <2>3
  <2> QED BY <2>4 DEF IsWalk
<1> DEFINE Knows(i) == LastOf(h, s, i, f[i].verdict) /\ (i <= n => Shape(s, i, f[i]))
           S == {i \in Nat : i <= n + 1 => Knows(i)}
<1>3. Knows(0)
  <2>1. f[0].mode = "sign" /\ f[0].verdict = Accept
    BY <1>2 DEF Start
  <2>2. Covering(h, s, 0) = {}
    BY <1>1, ItemFacts DEF Covering
  <2> QED BY <2>1, <2>2 DEF LastOf, Shape
<1>4. ASSUME NEW i \in Nat, i + 1 <= n + 1, Knows(i)
      PROVE  Knows(i + 1)
  <2>1. i \in 0..n /\ i + 1 \in 1..n + 1 /\ (i + 1) - 1 = i /\ i \in 0..n + 1
    BY <1>1, <1>4
  <2>2. f[i] \in Modes /\ f[i + 1] = Process(h, s, i + 1, f[i])
    BY <1>2, <2>1
  <2>3. Shape(s, i, f[i]) /\ LastOf(h, s, i, f[i].verdict)
    BY <1>4, <2>1
  <2> QED BY <1>1, <2>1, <2>2, <2>3, WalkKeeps
<1>5. S = Nat
  <2> HIDE DEF Knows
  <2>1. 0 \in S /\ S \in SUBSET Nat
    BY <1>3
  <2>2. \A i \in S : i + 1 \in S
    <3> SUFFICES ASSUME NEW i \in Nat, i <= n + 1 => Knows(i), i + 1 <= n + 1
                 PROVE  Knows(i + 1)
      OBVIOUS
    <3> QED BY <1>1, <1>4
  <2> HIDE DEF S
  <2> QED BY <2>1, <2>2, SetInduction
<1>6. Knows(n + 1)
  <2> HIDE DEF Knows
  <2> QED BY <1>1, <1>5
<1> QED BY <1>1, <1>2, <1>6

(* Whatever filter is set, if it has no empty item: the last of its items  *)
(* that covers a machine decides about it, and a machine that none covers  *)
(* is let in.  This is about every filter and every name of a machine.     *)
THEOREM LastMatchDecides == Spec => []FilterIsLastMatch
<1>1. SettingsOK => FilterIsLastMatch
  <2> SUFFICES ASSUME SettingsOK, NoEmptyItem(auth_hosts), NEW h \in Host
               PROVE  LET covering == {ab \in Items(auth_hosts) : Covers(h, auth_hosts, ab)} IN
                      \/ covering = {} /\ Filtered(h, auth_hosts) = Accept
                      \/ \E ab \in covering :
                           /\ \A other \in covering : other[1] <= ab[1]
                           /\ Filtered(h, auth_hosts) = Verdict(auth_hosts[ab[1]])
    BY Zenon DEF FilterIsLastMatch
  <2> DEFINE s == auth_hosts
             covering == {ab \in Items(s) : Covers(h, s, ab)}
  <2>1. h \in Seq(STRING) /\ s \in Seq(STRING)
    <3>1. <<>> \in Seq(STRING)
      OBVIOUS
    <3> QED BY <3>1, CharactersAssumption DEF SettingsOK
  <2>2. LastOf(h, s, Len(s) + 1, Filtered(h, s))
    BY <2>1, LastMatch
  <2>3. Covering(h, s, Len(s) + 1) = covering
    <3>1. PICK n \in Nat : n = Len(s)
      BY <2>1
    <3>2. \A ab \in Items(s) : ab[2] < n + 1
      BY <3>1, ItemFacts
    <3> QED BY <3>1, <3>2 DEF Covering
  <2> HIDE DEF s, covering
  <2>4. \/ covering = {} /\ Filtered(h, s) = Accept
        \/ \E ab \in covering :
             (\A other \in covering : other[1] <= ab[1]) /\ Filtered(h, s) = Verdict(s[ab[1]])
    BY <2>2, <2>3, Zenon DEF LastOf
  <2> QED BY <2>4, Zenon DEF s, covering
<1> QED BY <1>1, AlwaysListed, PTL
=============================================================================
