-------------------------- MODULE WinServiceProofs --------------------------
(* Proofs about WinService: for any installers and devices. *)
EXTENDS WinService, SequenceTheorems, WellFoundedInduction, TLAPS

USE DEF registry

(* The variables the proof is about. *)
StateOK ==
  /\ sc \in Entry
  /\ main \in MainAt
  /\ status \in States \ {"none"}
  /\ handler \in Control
  /\ pass = [p \in Proc |-> pass[p]]

(* "stopped" is in service_status, or about to be put there by the handler *)
(* that tells the status again, or told, only when main does no more.      *)
Ended == main \in {"none", "stop_tell", "returned"}

StoppedAtEnd ==
  /\ status = "stopped" => Ended
  /\ handler.say = "stopped" => Ended
  /\ handler.at = "assign" => handler.say # "none"
  /\ Inactive(sc) => Ended
  /\ main = "none" => handler = Idle

(* The service is in a pass only where main is in                          *)
(* acqd_service_start_filter.                                              *)
PassesWhereMainIs == main \notin {"first", "scan"} => pass[Service] = NoPass

(* The inductive invariant. *)
IInv == StateOK /\ StoppedAtEnd /\ PassesWhereMainIs

-----------------------------------------------------------------------------
LEMMA ServiceIsNoInstaller == Service \in Proc /\ \A i \in Installer : i \in Proc /\ i # Service
BY ProcAssumption

LEMMA IdleType == Idle \in Control /\ Idle.say = "none" /\ Idle.at = "idle"
BY DEF Idle, Control, States

LEMMA EntriesType ==
  /\ NoEntry \in Entry /\ NoEntry.state = "none"
  /\ NewEntry \in Entry /\ NewEntry.state = "stopped"
BY DEF NoEntry, NewEntry, Entry, States

LEMMA TellingType ==
  ASSUME NEW e \in Entry, NEW s \in States
  PROVE  Telling(e, s, TRUE) \in Entry /\ Telling(e, s, TRUE).state = s
<1>1. PICK yes \in BOOLEAN : yes = TRUE
  OBVIOUS
<1>2. [e EXCEPT !.state = s, !.accepts = yes] \in Entry
  BY DEF Entry
<1>3. [e EXCEPT !.state = s, !.accepts = yes].state = s
  BY DEF Entry
<1> QED BY <1>1, <1>2, <1>3 DEF Telling

LEMMA OthersType ==
  ASSUME NEW e \in Entry
  PROVE  /\ Starting(e) \in Entry /\ Starting(e).state = "start_pending"
         /\ Deleting(e) \in Entry /\ Deleting(e).state = e.state
         /\ Ending(e) \in Entry /\ Ending(e).state = "stopped"
<1>1. Starting(e) \in Entry /\ Starting(e).state = "start_pending"
  BY DEF Starting, Entry, States
<1>2. Deleting(e) \in Entry /\ Deleting(e).state = e.state
  BY DEF Deleting, Entry
<1>3. Ending(e) \in Entry /\ Ending(e).state = "stopped"
  BY DEF Ending, Entry, States
<1> QED BY <1>1, <1>2, <1>3

LEMMA TellKeeps ==
  ASSUME IInv, Tell
  PROVE  sc' \in Entry /\ sc'.state = status
BY TellingType DEF IInv, StateOK, Tell

(* A scan by the service, or by an installer, leaves the passes of others. *)
LEMMA ScanKeeps ==
  ASSUME IInv, NEW p \in Proc, NEW j, Scan(p, j)
  PROVE  /\ pass' = [q \in Proc |-> pass'[q]]
         /\ p # Service => pass'[Service] = pass[Service]
BY ServiceIsNoInstaller DEF IInv, StateOK, Scan

-----------------------------------------------------------------------------
LEMMA MainKeeps ==
  ASSUME IInv, MainStep
  PROVE  IInv'
<1> USE ServiceIsNoInstaller
<1>1. CASE Main
  <2>1. /\ Telling(sc, "start_pending", TRUE) \in Entry
        /\ Telling(sc, "start_pending", TRUE).state = "start_pending"
    BY TellingType DEF IInv, StateOK, States
  <2>2. /\ UNCHANGED <<status, handler, pass>>
        /\ \/ main' = "create" /\ sc' \in Entry /\ sc'.state = "start_pending"
           \/ main' = "returned" /\ sc' = sc
    BY <1>1, <2>1 DEF Main
  <2>3. main = "main" /\ pass[Service] = NoPass
    BY <1>1 DEF Main, IInv, PassesWhereMainIs
  <2> QED BY <2>2, <2>3 DEF IInv, StateOK, MainAt, StoppedAtEnd, Ended, PassesWhereMainIs,
                                  Inactive
<1>2. CASE CreateEvent
  <2>1. main = "create" /\ main' \in {"first", "stop"} /\ UNCHANGED <<sc, status, handler>>
    BY <1>2 DEF CreateEvent
  <2>2. /\ pass' = [p \in Proc |-> pass'[p]]
        /\ main' = "stop" => pass'[Service] = pass[Service]
    BY <1>2, ScanKeeps DEF CreateEvent, IInv, StateOK
  <2> QED BY <2>1, <2>2 DEF IInv, StateOK, MainAt, StoppedAtEnd, Ended, PassesWhereMainIs, Inactive
<1>3. CASE Scanned
  <2>1. main \in {"first", "scan"} /\ main' \in {"run", "wait"} /\ UNCHANGED <<sc, status, handler>>
    BY <1>3 DEF Scanned
  <2>2. pass' = [p \in Proc |-> pass'[p]] /\ pass'[Service] = NoPass
    BY <1>3 DEF Scanned, IInv, StateOK
  <2> QED BY <2>1, <2>2 DEF IInv, StateOK, MainAt, StoppedAtEnd, Ended, PassesWhereMainIs, Inactive
<1>4. CASE Assign
  BY <1>4 DEF Assign, IInv, StateOK, MainAt, States, StoppedAtEnd, Ended, PassesWhereMainIs, Inactive
<1>5. CASE MainTells
  <2>1. sc' \in Entry /\ sc'.state = status
    BY <1>5, TellKeeps DEF MainTells
  <2> QED BY <1>5, <2>1 DEF MainTells, IInv, StateOK, MainAt, States, StoppedAtEnd, Ended,
                            PassesWhereMainIs, Inactive
<1>6. CASE Wait
  <2>1. main = "wait" /\ main' \in {"stop", "scan"} /\ UNCHANGED <<sc, status, handler>>
    BY <1>6 DEF Wait
  <2>2. /\ pass' = [p \in Proc |-> pass'[p]]
        /\ main' = "stop" => pass'[Service] = pass[Service]
    BY <1>6, ScanKeeps DEF Wait, IInv, StateOK
  <2> QED BY <2>1, <2>2 DEF IInv, StateOK, MainAt, StoppedAtEnd, Ended, PassesWhereMainIs, Inactive
<1> QED BY <1>1, <1>2, <1>3, <1>4, <1>5, <1>6 DEF MainStep

LEMMA HandlerKeeps ==
  ASSUME IInv, HandlerStep \/ Ask
  PROVE  IInv'
<1>1. main # "none" /\ UNCHANGED <<main, pass>>
  BY IdleType DEF HandlerStep, HandlerAssigns, HandlerTells, Signal, Ask, IInv, StoppedAtEnd
<1>2. CASE Ask
  BY <1>1, <1>2 DEF Ask, IInv, StateOK, Control, StoppedAtEnd, Ended, PassesWhereMainIs, Inactive
<1>3. CASE HandlerAssigns
  BY <1>1, <1>3 DEF HandlerAssigns, IInv, StateOK, Control, StoppedAtEnd, Ended,
                    PassesWhereMainIs, Inactive
<1>4. CASE HandlerTells
  <2>1. sc' \in Entry /\ sc'.state = status
    BY <1>4, TellKeeps DEF HandlerTells
  <2>2. handler' \in Control /\ handler'.say \in {handler.say, "none"} /\ handler'.at # "assign"
    BY <1>4, IdleType DEF HandlerTells, IInv, StateOK, Control
  <2> QED BY <1>1, <1>4, <2>1, <2>2 DEF HandlerTells, IInv, StateOK, StoppedAtEnd, Ended, States,
                                        PassesWhereMainIs, Inactive
<1>5. CASE Signal
  BY <1>1, <1>5, IdleType DEF Signal, IInv, StateOK, StoppedAtEnd, Ended, PassesWhereMainIs, Inactive
<1> QED BY <1>2, <1>3, <1>4, <1>5 DEF HandlerStep

LEMMA ManagerKeeps ==
  ASSUME IInv, EntryGoes \/ Exit \/ Crash
  PROVE  IInv'
<1>1. CASE EntryGoes
  BY <1>1, EntriesType DEF EntryGoes, IInv, StateOK, StoppedAtEnd, Ended, PassesWhereMainIs, Inactive
<1>2. CASE Gone
  <2>1. sc' \in Entry
    BY <1>2, OthersType DEF Gone, IInv, StateOK
  <2>2. pass' = [p \in Proc |-> pass'[p]] /\ pass'[Service] = NoPass
    BY <1>2, ServiceIsNoInstaller DEF Gone, IInv, StateOK
  <2> QED BY <1>2, <2>1, <2>2, IdleType DEF Gone, IInv, StateOK, MainAt, States, StoppedAtEnd, Ended,
                                            PassesWhereMainIs
<1> QED BY <1>1, <1>2 DEF Exit, Crash

(* The commands of an installer. *)
LEMMA CommandKeeps ==
  ASSUME IInv, NEW i \in Installer, Command(i)
  PROVE  IInv'
<1> USE ServiceIsNoInstaller
<1>1. CASE Create(i) \/ Delete(i)
  <2>1. sc' \in Entry /\ (Inactive(sc') <=> Inactive(sc)) /\ UNCHANGED <<main, status, handler, pass>>
    BY <1>1, EntriesType, OthersType DEF Create, Delete, IInv, StateOK, Inactive
  <2> QED BY <2>1 DEF IInv, StateOK, StoppedAtEnd, Ended, PassesWhereMainIs
<1>2. CASE Start(i)
  <2>1. sc' \in Entry /\ sc'.state = "start_pending"
    BY <1>2, OthersType DEF Start, IInv, StateOK
  <2> QED BY <1>2, <2>1, IdleType DEF Start, IInv, StateOK, MainAt, States, StoppedAtEnd, Ended,
                                      PassesWhereMainIs, Inactive
<1>3. CASE Stop(i)
  BY <1>3 DEF Stop, IInv, StateOK, Control, States, StoppedAtEnd, Ended, PassesWhereMainIs, Inactive
<1>4. CASE PollSees(i) \/ PollFails(i)
  BY <1>4 DEF PollSees, PollFails, IInv, StateOK, StoppedAtEnd, Ended, PassesWhereMainIs, Inactive
<1>5. CASE SweepOver(i)
  BY <1>5 DEF SweepOver, IInv, StateOK, StoppedAtEnd, Ended, PassesWhereMainIs, Inactive
<1>6. CASE \E j \in {"sweep", "composite"} : Sweep(i, j)
  <2>1. PICK j \in {"sweep", "composite"} : Sweep(i, j)
    BY <1>6
  <2>2. pass' = [p \in Proc |-> pass'[p]] /\ pass'[Service] = pass[Service]
    BY <2>1, ScanKeeps DEF Sweep
  <2> QED BY <2>1, <2>2 DEF Sweep, IInv, StateOK, StoppedAtEnd, Ended, PassesWhereMainIs, Inactive
<1> QED BY <1>1, <1>2, <1>3, <1>4, <1>5, <1>6 DEF Command

(* A step of a pass is a step of a pass that is under way. *)
LEMMA PassKeeps ==
  ASSUME IInv, NEW p \in Proc, PassStep(p)
  PROVE  IInv'
<1>1. UNCHANGED <<sc, main, status, handler>>
  BY DEF PassStep, service
<1>2. pass' = [q \in Proc |-> pass'[q]]
  BY DEF PassStep, Visit, ReadFails, Write, WriteFails, Scan, IInv, StateOK
<1>3. p # Service => pass'[Service] = pass[Service]
  BY ServiceIsNoInstaller DEF PassStep, Visit, ReadFails, Write, WriteFails, Scan, IInv, StateOK
<1>4. pass[p] # NoPass
  <2>1. pass[p].todo # {} \/ pass[p].at # NoDevice
    BY DEF PassStep, Visit, ReadFails, Write, WriteFails
  <2>2. NoPass.todo = {} /\ NoPass.at = NoDevice
    BY DEF NoPass
  <2> QED BY <2>1, <2>2
<1> QED BY <1>1, <1>2, <1>3, <1>4 DEF IInv, StateOK, StoppedAtEnd, Ended, PassesWhereMainIs, Inactive

-----------------------------------------------------------------------------
LEMMA InitHolds == Init => IInv
<1> SUFFICES ASSUME Init PROVE IInv
  OBVIOUS
<1>1. pass = [p \in Proc |-> pass[p]] /\ pass[Service] = NoPass
  BY ServiceIsNoInstaller DEF Init, RegistryInit
<1> QED BY <1>1, EntriesType, IdleType DEF Init, IInv, StateOK, MainAt, States, StoppedAtEnd, Ended,
                                           PassesWhereMainIs

LEMMA NextKeeps == IInv /\ [Next]_vars => IInv'
<1> SUFFICES ASSUME IInv, [Next]_vars PROVE IInv'
  OBVIOUS
<1>1. CASE MainStep
  BY <1>1, MainKeeps
<1>2. CASE HandlerStep \/ Ask
  BY <1>2, HandlerKeeps
<1>3. CASE EntryGoes \/ Exit \/ Crash
  BY <1>3, ManagerKeeps
<1>4. CASE \E i \in Installer : Command(i)
  BY <1>4, CommandKeeps
<1>5. CASE \E p \in Proc : PassStep(p)
  BY <1>5, PassKeeps
<1>6. CASE UNCHANGED <<service, pass>>
  BY <1>6 DEF service, IInv, StateOK, StoppedAtEnd, Ended, PassesWhereMainIs, Inactive
<1>7. \/ \E d \in Device : (Plug(d) \/ OthersEdit(d)) /\ UNCHANGED <<service, pc, quiet, swept>>
      \/ UNCHANGED vars
      => UNCHANGED <<service, pass>>
  BY DEF Plug, OthersEdit, vars, service
<1> QED BY <1>1, <1>2, <1>3, <1>4, <1>5, <1>6, <1>7 DEF Next

LEMMA Inductive == Spec => []IInv
BY InitHolds, NextKeeps, PTL DEF Spec

(* Whoever sees "stopped" can rely on it that the service puts no filter   *)
(* on any device: for any number of installers and devices, and wherever   *)
(* the two threads of the service overwrite each other's status.           *)
THEOREM StoppedIsQuiet == Spec => []QuietWhenStopped
<1>1. IInv => QuietWhenStopped
  BY DEF IInv, StoppedAtEnd, Ended, PassesWhereMainIs, QuietWhenStopped
<1> QED BY <1>1, Inductive, PTL

-----------------------------------------------------------------------------
(* The lists: what an insert and a removal make of one.                    *)

(* Our filter is in a list at most once. *)
Once(list) == \A i, j \in 1..Len(list) : list[i] = Ours /\ list[j] = Ours => i = j

LEMMA AppendList ==
  ASSUME NEW s \in Seq(Filter), ~Has(s)
  PROVE  Append(s, Ours) \in Seq(Filter) /\ Once(Append(s, Ours)) /\ Has(Append(s, Ours))
<1>1. /\ Append(s, Ours) \in Seq(Filter) /\ Len(Append(s, Ours)) = Len(s) + 1
      /\ Append(s, Ours)[Len(s) + 1] = Ours
      /\ \A i \in 1..Len(s) : Append(s, Ours)[i] = s[i]
  BY DEF Filter
<1>2. \A i \in 1..Len(s) : s[i] # Ours
  BY DEF Has, Contains
<1> QED BY <1>1, <1>2 DEF Once, Has, Contains

LEMMA RemoveList ==
  ASSUME NEW s \in Seq(Filter), Has(s), Once(s)
  PROVE  LET r == RemoveFirst(s, Ours) IN r \in Seq(Filter) /\ ~Has(r) /\ Once(r)
<1>1. PICK k \in 1..Len(s) : s[k] = Ours
  BY DEF Has, Contains
<1>2. {i \in 1..Len(s) : s[i] = Ours} = {k}
  BY <1>1 DEF Once
<1>3. SelectInSeq(s, LAMBDA v : v = Ours) = k
  <2>1. Min({k}) = k
    BY <1>1 DEF Min
  <2> QED BY <1>2, <2>1 DEF SelectInSeq
<1>4. RemoveFirst(s, Ours) = SubSeq(s, 1, k - 1) \o SubSeq(s, k + 1, Len(s))
  BY <1>1, <1>3 DEF RemoveFirst, RemoveAt
<1> DEFINE a == SubSeq(s, 1, k - 1)
           b == SubSeq(s, k + 1, Len(s))
<1>5. /\ a \in Seq(Filter) /\ Len(a) = k - 1 /\ \A i \in 1..Len(a) : a[i] = s[i]
      /\ b \in Seq(Filter) /\ Len(b) = Len(s) - k /\ \A i \in 1..Len(b) : b[i] = s[i + k]
  OBVIOUS
<1>6. \A i \in 1..Len(s) : i # k => s[i] # Ours
  BY <1>2
<1> HIDE DEF a, b
<1>7. /\ a \o b \in Seq(Filter)
      /\ \A i \in 1..Len(a \o b) : (a \o b)[i] # Ours
  <2>1. a \o b \in Seq(Filter) /\ Len(a \o b) = Len(a) + Len(b)
    BY <1>5, ConcatProperties
  <2>2. \A i \in 1..Len(a) : a[i] # Ours
    BY <1>5, <1>6
  <2>3. \A i \in 1..Len(b) : b[i] # Ours
    BY <1>5, <1>6
  <2> QED BY <1>5, <2>1, <2>2, <2>3
<1> QED BY <1>4, <1>7 DEF a, b, Has, Contains, Once

-----------------------------------------------------------------------------
(* The filters of others.                                                  *)

Below == {ss \in Nat \X Nat : ss[1] < ss[2]}

(* Induction over the natural numbers, stated with a set: what has 0 and   *)
(* with n also n + 1 has every number, as it has no least exception.       *)
LEMMA SetInduction ==
  ASSUME NEW S \in SUBSET Nat, 0 \in S, \A n \in S : n + 1 \in S
  PROVE  S = Nat
<1> SUFFICES ASSUME S # Nat PROVE FALSE
  OBVIOUS
<1> DEFINE T == Nat \ S
<1>1. IsWellFoundedOn(Below, Nat)
  BY NatLessThanWellFounded DEF OpToRel, Below
<1>2. T # {} /\ T \in SUBSET Nat
  OBVIOUS
<1>3. PICK n \in T : \A k \in T : ~(<<k, n>> \in Below)
  <2> HIDE DEF T
  <2> QED BY <1>1, <1>2, WFMin, Zenon
<1>4. n # 0 /\ n \in Nat /\ n - 1 \in Nat /\ (n - 1) + 1 = n
  OBVIOUS
<1>5. n - 1 \in S
  <2> SUFFICES ASSUME n - 1 \in T PROVE FALSE
    BY <1>4
  <2>1. <<n - 1, n>> \in Nat \X Nat /\ <<n - 1, n>>[1] = n - 1 /\ <<n - 1, n>>[2] = n
    BY <1>4
  <2>2. <<n - 1, n>>[1] < <<n - 1, n>>[2]
    BY <1>4, <2>1
  <2>3. <<n - 1, n>> \in Below
    BY <2>1, <2>2, Zenon DEF Below
  <2> QED BY <1>3, <2>3
<1> QED BY <1>4, <1>5

(* A list with our filter at k alone, if k is in it, without it.           *)
Cut(s, k, n) == [j \in 1..n |-> IF j < k THEN s[j] ELSE s[j + 1]]

LEMMA OthersCut ==
  ASSUME NEW s \in Seq(Filter), NEW k \in 1..(Len(s) + 1),
         \A i \in 1..Len(s) : s[i] = Ours <=> i = k
  PROVE  Others(s) = Cut(s, k, IF k <= Len(s) THEN Len(s) - 1 ELSE Len(s))
<1> DEFINE n == Len(s)
           Body(f) == [i \in 0..n |->
                         IF i = 0 THEN <<>>
                         ELSE IF s[i] = Ours THEN f[i - 1] ELSE Append(f[i - 1], s[i])]
           g == [i \in 0..n |-> Cut(s, k, IF k <= i THEN i - 1 ELSE i)]
           kept == CHOOSE f : f = Body(f)
           S == {i \in Nat : i <= n => kept[i] = g[i]}
<1>1. n \in Nat /\ Others(s) = kept[n]
  BY DEF Others
<1>2. \A i \in 0..n : g[i] = IF i = 0 THEN <<>>
                             ELSE IF s[i] = Ours THEN g[i - 1] ELSE Append(g[i - 1], s[i])
  <2> SUFFICES ASSUME NEW i \in 0..n
               PROVE  g[i] = IF i = 0 THEN <<>>
                             ELSE IF s[i] = Ours THEN g[i - 1] ELSE Append(g[i - 1], s[i])
    OBVIOUS
  <2>1. CASE i = 0
    <3>1. g[i] = Cut(s, k, 0)
      BY <2>1
    <3> QED BY <2>1, <3>1 DEF Cut
  <2>2. CASE i # 0 /\ i = k
    <3>1. s[i] = Ours /\ g[i] = Cut(s, k, i - 1) /\ g[i - 1] = Cut(s, k, i - 1)
      BY <2>2
    <3> QED BY <2>2, <3>1
  <2>3. CASE i # 0 /\ i # k
    <3> DEFINE c == IF k <= i THEN i - 2 ELSE i - 1
    <3>1. /\ s[i] # Ours /\ c \in Nat
          /\ g[i - 1] = Cut(s, k, c) /\ g[i] = Cut(s, k, c + 1)
          /\ s[i] = IF c + 1 < k THEN s[c + 1] ELSE s[(c + 1) + 1]
      BY <2>3
    <3>2. Append(Cut(s, k, c), s[i]) = Cut(s, k, c + 1)
      <4>0. \A j \in 1..c : (IF j < k THEN s[j] ELSE s[j + 1]) \in Filter
        BY <2>3
      <4> HIDE DEF c
      <4> DEFINE h == Cut(s, k, c)
      <4>1. h = [j \in 1..c |-> h[j]] /\ \A j \in 1..c : h[j] = Cut(s, k, c + 1)[j]
        BY <3>1 DEF Cut
      <4>2. h \in Seq(Filter) /\ Len(h) = c
        <5>1. h \in [1..c -> Filter]
          BY <4>0 DEF Cut
        <5> HIDE DEF h
        <5> QED BY <3>1, <5>1
      <4> HIDE DEF h
      <4>3. /\ Append(h, s[i]) = [j \in 1..(c + 1) |-> Append(h, s[i])[j]]
            /\ \A j \in 1..c : Append(h, s[i])[j] = h[j]
            /\ Append(h, s[i])[c + 1] = s[i]
        BY <3>1, <4>2
      <4>4. /\ Cut(s, k, c + 1) = [j \in 1..(c + 1) |-> Cut(s, k, c + 1)[j]]
            /\ Cut(s, k, c + 1)[c + 1] = s[i]
        BY <3>1 DEF Cut
      <4>5. \A j \in 1..(c + 1) : Append(h, s[i])[j] = Cut(s, k, c + 1)[j]
        BY <3>1, <4>1, <4>3, <4>4
      <4> QED BY <4>3, <4>4, <4>5 DEF h
    <3> QED BY <2>3, <3>1, <3>2
  <2> QED BY <2>1, <2>2, <2>3
<1>3. kept = Body(kept)
  <2>1. g = Body(g)
    <3> HIDE DEF n
    <3>1. g = [i \in 0..n |-> g[i]]
      OBVIOUS
    <3> HIDE DEF g
    <3> QED BY <1>2, <3>1
  <2> HIDE DEF Body, g
  <2> QED BY <2>1
<1> HIDE DEF g, kept
<1>4. \A i \in 0..n : kept[i] = IF i = 0 THEN <<>>
                                ELSE IF s[i] = Ours THEN kept[i - 1]
                                ELSE Append(kept[i - 1], s[i])
  BY <1>3
<1>5. S \in SUBSET Nat /\ 0 \in S
  BY <1>1, <1>2, <1>4
<1>6. \A i \in S : i + 1 \in S
  <2> SUFFICES ASSUME NEW i \in S, i + 1 <= n PROVE kept[i + 1] = g[i + 1]
    OBVIOUS
  <2>1. i \in Nat /\ i + 1 \in 0..n /\ i + 1 # 0 /\ (i + 1) - 1 = i /\ kept[i] = g[i]
    BY <1>1
  <2> HIDE DEF S, n, Body
  <2> QED BY <1>2, <1>4, <2>1
<1> HIDE DEF S
<1>7. S = Nat
  BY <1>5, <1>6, SetInduction
<1>8. kept[n] = g[n]
  BY <1>1, <1>7 DEF S
<1> QED BY <1>1, <1>8 DEF g

(* What RemoveAt makes of a list. *)
LEMMA RemoveAtIsCut ==
  ASSUME NEW s \in Seq(Filter), NEW k \in 1..Len(s)
  PROVE  RemoveAt(s, k) = Cut(s, k, Len(s) - 1)
<1> DEFINE n == Len(s)
           a == SubSeq(s, 1, k - 1)
           b == SubSeq(s, k + 1, n)
<1>4. /\ n \in Nat
      /\ a \in Seq(Filter) /\ Len(a) = k - 1 /\ \A i \in 1..(k - 1) : a[i] = s[i]
      /\ b \in Seq(Filter) /\ Len(b) = n - k /\ \A i \in 1..(n - k) : b[i] = s[i + k]
  OBVIOUS
<1> HIDE DEF a, b, n
<1>5. /\ a \o b \in Seq(Filter) /\ Len(a \o b) = n - 1
      /\ \A i \in 1..(n - 1) : (a \o b)[i] = IF i < k THEN a[i] ELSE b[i - (k - 1)]
  <2>1. k \in 1..n
    BY DEF n
  <2> DEFINE la == Len(a)
             lb == Len(b)
             ab == a \o b
  <2>2. /\ ab \in Seq(Filter) /\ Len(ab) = la + lb
        /\ \A i \in 1..(la + lb) : ab[i] = IF i <= la THEN a[i] ELSE b[i - la]
    BY <1>4, ConcatProperties
  <2>3. la = k - 1 /\ lb = n - k
    BY <1>4
  <2> HIDE DEF la, lb, ab
  <2>4. la + lb = n - 1 /\ \A i \in 1..(n - 1) : i <= la <=> i < k
    BY <1>4, <2>1, <2>3
  <2>5. \A i \in 1..(n - 1) : ab[i] = IF i < k THEN a[i] ELSE b[i - (k - 1)]
    BY <2>2, <2>3, <2>4
  <2> QED BY <2>2, <2>4, <2>5 DEF ab
<1>6. \A i \in 1..(n - 1) : (a \o b)[i] = IF i < k THEN s[i] ELSE s[i + 1]
  <2> SUFFICES ASSUME NEW i \in 1..(n - 1)
               PROVE  (a \o b)[i] = IF i < k THEN s[i] ELSE s[i + 1]
    OBVIOUS
  <2>1. k \in 1..n
    BY DEF n
  <2>2. CASE i < k
    BY <1>4, <1>5, <2>1, <2>2
  <2>3. CASE i >= k
    <3>1. i - (k - 1) \in 1..(n - k) /\ (i - (k - 1)) + k = i + 1
      BY <1>4, <2>1, <2>3
    <3> QED BY <1>4, <1>5, <2>1, <2>3, <3>1
  <2> QED BY <1>4, <2>1, <2>2, <2>3
<1> DEFINE r == a \o b
<1>7. r = [i \in 1..(n - 1) |-> r[i]]
  <2>1. r \in Seq(Filter) /\ Len(r) = n - 1
    BY <1>5
  <2> HIDE DEF r
  <2> QED BY <2>1
<1>8. r = Cut(s, k, n - 1)
  <2>1. \A i \in 1..(n - 1) : r[i] = IF i < k THEN s[i] ELSE s[i + 1]
    BY <1>6
  <2> HIDE DEF r
  <2> QED BY <1>7, <2>1 DEF Cut
<1> QED BY <1>8 DEF a, b, n, RemoveAt

(* What RemoveFirst makes of a list that has our filter at k alone.        *)
LEMMA RemovedIsCut ==
  ASSUME NEW s \in Seq(Filter), NEW k \in 1..Len(s),
         \A i \in 1..Len(s) : s[i] = Ours <=> i = k
  PROVE  RemoveFirst(s, Ours) = Cut(s, k, Len(s) - 1)
<1>1. {i \in 1..Len(s) : s[i] = Ours} = {k}
  OBVIOUS
<1>2. SelectInSeq(s, LAMBDA v : v = Ours) = k
  <2>1. Min({k}) = k
    BY DEF Min
  <2> QED BY <1>1, <2>1 DEF SelectInSeq
<1>3. RemoveFirst(s, Ours) = RemoveAt(s, k)
  BY <1>2 DEF RemoveFirst
<1> QED BY <1>3, RemoveAtIsCut

(* What other setup programs make of a list.                               *)
LEMMA EditedByOthers ==
  ASSUME NEW s \in Seq(Filter), Once(s), NEW t,
         \/ \E f \in Filter \ {Ours} : t = Append(s, f)
         \/ \E k \in 1..Len(s) : t = RemoveAt(s, k)
  PROVE  t \in Seq(Filter) /\ Once(t) /\ (~Has(s) => ~Has(t))
<1> DEFINE n == Len(s)
<1>0. n \in Nat /\ \A i \in 1..n : s[i] \in Filter
  OBVIOUS
<1>1. ASSUME NEW f \in Filter \ {Ours}, t = Append(s, f)
      PROVE  t \in Seq(Filter) /\ Once(t) /\ (~Has(s) => ~Has(t))
  <2>1. /\ t \in Seq(Filter) /\ Len(t) = n + 1 /\ t[n + 1] # Ours
        /\ \A i \in 1..n : t[i] = s[i]
    BY <1>1
  <2> HIDE DEF n
  <2>2. \A i \in 1..Len(t) : t[i] = Ours => i \in 1..n /\ s[i] = Ours
    BY <1>0, <2>1
  <2> QED BY <2>1, <2>2 DEF Once, Has, Contains, n
<1>2. ASSUME NEW k \in 1..n, t = RemoveAt(s, k)
      PROVE  t \in Seq(Filter) /\ Once(t) /\ (~Has(s) => ~Has(t))
  <2>1. t = [j \in 1..(n - 1) |-> IF j < k THEN s[j] ELSE s[j + 1]]
    BY <1>2, RemoveAtIsCut DEF Cut
  <2>2. \A j \in 1..(n - 1) : (IF j < k THEN s[j] ELSE s[j + 1]) \in Filter
    BY <1>0
  <2>3. n - 1 \in Nat /\ t \in [1..(n - 1) -> Filter]
    BY <1>0, <2>1, <2>2
  <2>4. t \in Seq(Filter) /\ Len(t) = n - 1
    BY <2>3
  <2>5. \A i \in 1..Len(t) : \E j \in 1..n : t[i] = s[j] /\ j = IF i < k THEN i ELSE i + 1
    <3> SUFFICES ASSUME NEW i \in 1..(n - 1)
                 PROVE  LET j == IF i < k THEN i ELSE i + 1 IN j \in 1..n /\ t[i] = s[j]
      BY <2>4
    <3> HIDE DEF n
    <3> QED BY <1>0, <2>1
  <2>6. ~Has(s) => ~Has(t)
    BY <2>5 DEF Has, Contains
  <2>7. Once(t)
    <3> SUFFICES ASSUME NEW i \in 1..Len(t), NEW j \in 1..Len(t), t[i] = Ours, t[j] = Ours
                 PROVE  i = j
      BY DEF Once
    <3>1. PICK a \in 1..n : t[i] = s[a] /\ a = IF i < k THEN i ELSE i + 1
      BY <2>5
    <3>2. PICK b \in 1..n : t[j] = s[b] /\ b = IF j < k THEN j ELSE j + 1
      BY <2>5
    <3>3. a = b
      BY <3>1, <3>2 DEF Once
    <3> HIDE DEF n
    <3> QED BY <1>0, <2>4, <3>1, <3>2, <3>3
  <2> QED BY <2>4, <2>6, <2>7
<1> QED BY <1>1, <1>2

-----------------------------------------------------------------------------
(* What a pass under way has read, and who is in which.                    *)

PassFits(p) ==
  /\ pass[p] \in Pass
  /\ \A d \in pass[p].todo : Wants(pass[p].job, d)
  /\ pass[p].at # NoDevice =>
       /\ pass[p].at \in pass[p].todo
       /\ Once(pass[p].list) /\ (Has(pass[p].list) <=> pass[p].job = "sweep")

JobsFit ==
  /\ pass[Service].job \in {"none", "install"}
  /\ \A i \in Installer :
       IF pc[i] \in {"sweep", "composite"} THEN pass[i].job = pc[i] ELSE pass[i] = NoPass

(* The devices of a set that a sweep wants have lost our filter. *)
Clean(S) == \A d \in S : Wants("sweep", d) => ~Has(filters[d])

(* A sweep without a service leaves each device clean that it has done, as *)
(* nobody else puts a filter on before the service is started again.       *)
SweepsClean ==
  /\ \A i \in quiet : i \in Installer /\ pc[i] = "sweep" /\ Clean(Device \ pass[i].todo)
  /\ swept => Clean(Device)
  /\ quiet # {} \/ swept => Ended

ListsOnce == filters \in [Device -> Seq(Filter)] /\ \A d \in Device : Once(filters[d])

RestOK ==
  /\ ListsOnce
  /\ present \subseteq Device
  /\ event \in {"null", "clear", "set", "closed"}
  /\ told \in BOOLEAN
  /\ pc \in [Installer -> {"idle", "start_poll", "control", "stop_poll", "sweep", "composite"}]
  /\ swept \in BOOLEAN
  /\ main = "none" => event = "null" /\ Inactive(sc)

(* The inductive invariant of uninstalling. *)
UInv == IInv /\ RestOK /\ (\A p \in Proc : PassFits(p)) /\ JobsFit /\ SweepsClean

LEMMA NoPassType == NoPass \in Pass /\ NoPass.job = "none" /\ NoPass.at = NoDevice /\ NoPass.todo = {}
BY EmptySeq DEF NoPass, Pass

(* A pass that has just begun, with the devices it wants or none.          *)
Begun(j, seen) == [NoPass EXCEPT !.job = j, !.todo = seen]

LEMMA WantedType ==
  ASSUME UInv, NEW j, NEW seen \in {Wanted(j), {}}
  PROVE  seen \in SUBSET Device /\ \A d \in seen : Wants(j, d)
BY DEF Wanted, Listed, UInv, RestOK

LEMMA ScanType ==
  ASSUME NEW j \in Jobs, NEW seen \in SUBSET Device
  PROVE  /\ Begun(j, seen) \in Pass /\ Begun(j, seen).job = j
         /\ Begun(j, seen).todo = seen /\ Begun(j, seen).at = NoDevice
BY EmptySeq DEF Begun, NoPass, Pass

LEMMA LeavingType ==
  ASSUME NEW s \in Pass, NEW d
  PROVE  /\ Leaving(s, d) \in Pass /\ Leaving(s, d).job = s.job
         /\ Leaving(s, d).todo = s.todo \ {d} /\ Leaving(s, d).at = NoDevice
BY EmptySeq DEF Leaving, Pass

(* Steps that leave lists and passes alone. *)
LEMMA Bystands ==
  ASSUME UInv, IInv', RestOK', UNCHANGED <<filters, pass, quiet, swept>>, Ended => Ended',
         \A i \in Installer : \/ pc'[i] = pc[i]
                              \/ {pc[i], pc'[i]} \cap {"sweep", "composite"} = {}
  PROVE  UInv'
<1>1. ASSUME NEW p \in Proc PROVE PassFits(p)'
  BY DEF UInv, PassFits
<1>2. JobsFit'
  BY DEF UInv, JobsFit
<1>3. SweepsClean'
  BY DEF UInv, SweepsClean, Clean
<1> QED BY <1>1, <1>2, <1>3 DEF UInv

(* Steps of the service before it has ended, when no sweep counts: its     *)
(* pass is over or has just begun.                                         *)
LEMMA ServiceScans ==
  ASSUME UInv, IInv', RestOK', UNCHANGED <<filters, pc, quiet, swept>>, ~Ended,
         \A p \in Proc \ {Service} : pass'[p] = pass[p],
         \/ pass'[Service] \in {NoPass, pass[Service]}
         \/ \E seen \in {Wanted("install"), {}} : pass'[Service] = Begun("install", seen)
  PROVE  UInv'
<1>1. /\ pass'[Service].job \in {"none", "install"}
      /\ PassFits(Service)'
  <2>1. CASE pass'[Service] = pass[Service]
    BY <2>1, ServiceIsNoInstaller DEF UInv, JobsFit, PassFits
  <2>2. CASE pass'[Service] # pass[Service]
    <3>1. /\ pass'[Service] \in Pass /\ pass'[Service].at = NoDevice
          /\ pass'[Service].job \in {"none", "install"}
          /\ \A d \in pass'[Service].todo : Wants(pass'[Service].job, d)
      <4>1. CASE pass'[Service] = NoPass
        BY <4>1, NoPassType
      <4>2. ASSUME NEW seen \in {Wanted("install"), {}},
                   pass'[Service] = Begun("install", seen)
            PROVE  /\ pass'[Service] \in Pass /\ pass'[Service].at = NoDevice
                   /\ pass'[Service].job = "install"
                   /\ \A d \in pass'[Service].todo : Wants("install", d)
        <5>1. "install" \in Jobs
          BY DEF Jobs
        <5> QED BY <4>2, <5>1, ScanType, WantedType
      <4> QED BY <2>2, <4>1, <4>2
    <3> QED BY <3>1 DEF PassFits
  <2> QED BY <2>1, <2>2
<1>2. ASSUME NEW p \in Proc \ {Service} PROVE PassFits(p)'
  BY DEF UInv, PassFits
<1>3. JobsFit'
  BY <1>1, ServiceIsNoInstaller DEF UInv, JobsFit
<1>4. SweepsClean'
  BY DEF UInv, SweepsClean
<1> QED BY <1>1, <1>2, <1>3, <1>4 DEF UInv

(* The rest of the type invariant. *)
LEMMA RestKeeps ==
  ASSUME UInv, IInv', [Next]_vars, ListsOnce'
  PROVE  RestOK'
<1>2. present' \subseteq Device
  <2>1. CASE \E d \in Device : Plug(d)
    BY <2>1 DEF Plug, UInv, RestOK
  <2>2. CASE UNCHANGED present
    BY <2>2 DEF UInv, RestOK
  <2>3. (\E d \in Device : Plug(d)) \/ UNCHANGED present
    BY DEF Next, vars, MainStep, Main, CreateEvent, Scanned, Assign, MainTells, Wait, HandlerStep,
           HandlerAssigns, HandlerTells, Signal, Exit, Crash, Gone, Ask, EntryGoes, PassStep, Visit,
           ReadFails, Write, WriteFails, OthersEdit, Command, Create, Delete, Start, Stop, PollSees, PollFails, SweepOver, Sweep
  <2> QED BY <2>1, <2>2, <2>3
<1> DEFINE Small == /\ event' \in {"null", "clear", "set", "closed"}
                    /\ told' \in BOOLEAN /\ swept' \in BOOLEAN
                    /\ pc' \in [Installer -> {"idle", "start_poll", "control", "stop_poll",
                                              "sweep", "composite"}]
                    /\ main' = "none" => event' = "null" /\ Inactive(sc')
<1> USE ServiceIsNoInstaller
<1>3. ASSUME MainStep PROVE Small
  <2>1. /\ UNCHANGED <<pc, swept>> /\ main # "none" /\ main' # "none"
        /\ event' \in {event, "clear", "closed"}
    BY <1>3 DEF MainStep, Main, CreateEvent, Scanned, Assign, MainTells, Wait
  <2>2. told' \in BOOLEAN
    BY <1>3, Zenon DEF MainStep, Main, CreateEvent, Scanned, Assign, MainTells, Wait, Tell, UInv, RestOK
  <2> QED BY <2>1, <2>2 DEF UInv, RestOK
<1>4. ASSUME HandlerStep \/ Ask PROVE Small
  <2>1. main # "none" /\ UNCHANGED <<main, swept>> /\ event' \in {event, "set"}
    BY <1>4, IdleType DEF HandlerStep, HandlerAssigns, HandlerTells, Signal, Ask, UInv, IInv, StoppedAtEnd
  <2>2. told' \in BOOLEAN
    BY <1>4, Zenon DEF HandlerStep, HandlerAssigns, HandlerTells, Signal, Ask, Tell, UInv, RestOK
  <2>3. pc' \in [Installer -> {"idle", "start_poll", "control", "stop_poll", "sweep", "composite"}]
    BY <1>4 DEF HandlerStep, HandlerAssigns, HandlerTells, Signal, Ask, UInv, RestOK
  <2> QED BY <2>1, <2>2, <2>3 DEF UInv, RestOK
<1>5. ASSUME Gone PROVE Small
  BY <1>5, OthersType DEF Gone, UInv, RestOK, IInv, StateOK, Inactive
<1>6. ASSUME EntryGoes PROVE Small
  BY <1>6, EntriesType DEF EntryGoes, UInv, RestOK, Inactive
<1>7. ASSUME NEW i \in Installer, Command(i) PROVE Small
  <2>1. UNCHANGED <<event, told>>
    BY <1>7 DEF Command, Create, Delete, Start, Stop, PollSees, PollFails, SweepOver, Sweep
  <2>2. pc' \in [Installer -> {"idle", "start_poll", "control", "stop_poll", "sweep", "composite"}]
    BY <1>7 DEF Command, Create, Delete, Start, Stop, PollSees, PollFails, SweepOver, Sweep, Goto,
                UInv, RestOK
  <2>3. swept' \in BOOLEAN
    BY <1>7, Zenon DEF Command, Create, Delete, Start, Stop, PollSees, PollFails, SweepOver, Sweep, UInv, RestOK
  <2>4. main' = "none" => main = "none" /\ (Inactive(sc) => Inactive(sc'))
    BY <1>7, EntriesType, OthersType DEF Command, Create, Delete, Start, Stop, PollSees, PollFails,
       SweepOver, Sweep, UInv, IInv, StateOK, Inactive
  <2> QED BY <2>1, <2>2, <2>3, <2>4 DEF UInv, RestOK
<1>8. ASSUME UNCHANGED <<service, pc, swept>> PROVE Small
  BY <1>8 DEF service, UInv, RestOK
<1>9. Small
  BY <1>3, <1>4, <1>5, <1>6, <1>7, <1>8 DEF Next, Exit, Crash, PassStep, vars, service
<1> QED BY <1>2, <1>9 DEF RestOK

-----------------------------------------------------------------------------
(* Uninstalling, one operation after the other.                            *)

LEMMA MainUninstalls ==
  ASSUME UInv, IInv', RestOK', MainStep
  PROVE  UInv'
<1> USE ServiceIsNoInstaller
<1>1. CASE Main \/ Assign \/ MainTells
  <2>1. UNCHANGED <<filters, pass, pc, quiet, swept>> /\ (Ended => Ended')
    BY <1>1 DEF Main, Assign, MainTells, Ended
  <2> QED BY <2>1, Bystands
<1>2. CASE CreateEvent \/ Scanned \/ Wait
  <2>1. UNCHANGED <<filters, pc, quiet, swept>> /\ ~Ended
    BY <1>2 DEF CreateEvent, Scanned, Wait, Ended
  <2>2. /\ \A p \in Proc \ {Service} : pass'[p] = pass[p]
        /\ \/ pass'[Service] \in {NoPass, pass[Service]}
           \/ \E seen \in {Wanted("install"), {}} : pass'[Service] = Begun("install", seen)
    <3>1. ASSUME Scan(Service, "install")
          PROVE  /\ \A p \in Proc \ {Service} : pass'[p] = pass[p]
                 /\ \E seen \in {Wanted("install"), {}} : pass'[Service] = Begun("install", seen)
      <4>1. PICK seen \in {Wanted("install"), {}} :
              pass' = [pass EXCEPT ![Service] = Begun("install", seen)]
        BY <3>1 DEF Scan, Begun, Wanted
      <4> QED BY <4>1 DEF UInv, IInv, StateOK
    <3>2. ASSUME ~Scan(Service, "install")
          PROVE  pass' \in {pass, [pass EXCEPT ![Service] = NoPass]}
      BY <1>2, <3>2 DEF CreateEvent, Scanned, Wait
    <3> QED BY <3>1, <3>2 DEF UInv, IInv, StateOK
  <2> QED BY <2>1, <2>2, ServiceScans
<1> QED BY <1>1, <1>2 DEF MainStep

LEMMA HandlerUninstalls ==
  ASSUME UInv, IInv', RestOK', HandlerStep \/ Ask \/ EntryGoes
  PROVE  UInv'
<1>1. UNCHANGED <<filters, pass, quiet, swept, main>>
  BY DEF HandlerStep, HandlerAssigns, HandlerTells, Signal, Ask, EntryGoes
<1>2. \A i \in Installer : pc'[i] = pc[i] \/ {pc[i], pc'[i]} \cap {"sweep", "composite"} = {}
  BY DEF HandlerStep, HandlerAssigns, HandlerTells, Signal, Ask, EntryGoes, UInv, RestOK
<1> QED BY <1>1, <1>2, Bystands DEF Ended

LEMMA GoneUninstalls ==
  ASSUME UInv, IInv', RestOK', Gone
  PROVE  UInv'
<1> USE ServiceIsNoInstaller
<1>1. /\ pass'[Service] = NoPass /\ \A p \in Proc \ {Service} : pass'[p] = pass[p]
      /\ UNCHANGED <<filters, quiet, swept>> /\ Ended'
      /\ \A i \in Installer : pc'[i] = pc[i] \/ {pc[i], pc'[i]} \cap {"sweep", "composite"} = {}
  BY DEF Gone, Ended, UInv, IInv, StateOK
<1>2. ASSUME NEW p \in Proc PROVE PassFits(p)'
  <2>1. CASE p = Service
    BY <1>1, <2>1, NoPassType DEF PassFits
  <2>2. CASE p # Service
    BY <1>1, <2>2 DEF UInv, PassFits
  <2> QED BY <2>1, <2>2
<1>3. JobsFit'
  BY <1>1, NoPassType DEF UInv, JobsFit
<1>4. SweepsClean'
  BY <1>1 DEF UInv, SweepsClean, Clean
<1> QED BY <1>2, <1>3, <1>4 DEF UInv

LEMMA CommandUninstalls ==
  ASSUME UInv, IInv', RestOK', NEW i \in Installer, Command(i)
  PROVE  UInv'
<1> USE ServiceIsNoInstaller
<1>1. CASE Create(i) \/ Delete(i) \/ Stop(i) \/ PollSees(i) \/ PollFails(i)
  <2>1. UNCHANGED <<filters, pass, quiet, swept, main>>
    BY <1>1 DEF Create, Delete, Stop, PollSees, PollFails
  <2>2. \A b \in Installer : pc'[b] = pc[b] \/ {pc[b], pc'[b]} \cap {"sweep", "composite"} = {}
    BY <1>1 DEF Create, Delete, Stop, PollSees, PollFails, Goto, UInv, RestOK
  <2> QED BY <2>1, <2>2, Bystands DEF Ended
<1>2. CASE Start(i)
  <2>1. /\ UNCHANGED <<filters, pass>> /\ quiet' = {} /\ swept' = FALSE
        /\ \A b \in Installer : pc'[b] = pc[b] \/ {pc[b], pc'[b]} \cap {"sweep", "composite"} = {}
    BY <1>2 DEF Start, Goto, UInv, RestOK
  <2>2. ASSUME NEW p \in Proc PROVE PassFits(p)'
    BY <2>1 DEF UInv, PassFits
  <2>3. JobsFit' /\ SweepsClean'
    BY <2>1 DEF UInv, JobsFit, SweepsClean
  <2> QED BY <2>2, <2>3 DEF UInv
<1>3. ASSUME NEW j \in {"sweep", "composite"}, Sweep(i, j)
      PROVE  UInv'
  <2>1. PICK seen \in {Wanted(j), {}} :
          pass' = [pass EXCEPT ![i] = Begun(j, seen)]
    BY <1>3 DEF Sweep, Scan, Begun, Wanted
  <2>2. /\ pass'[i] \in Pass /\ pass'[i].job = j /\ pass'[i].todo = seen /\ pass'[i].at = NoDevice
        /\ \A d \in seen : Wants(j, d)
        /\ \A p \in Proc \ {i} : pass'[p] = pass[p]
    <3>1. /\ pass'[i] = Begun(j, seen)
          /\ \A p \in Proc \ {i} : pass'[p] = pass[p]
      BY <2>1 DEF UInv, IInv, StateOK
    <3>2. j \in Jobs /\ seen \in SUBSET Device /\ \A d \in seen : Wants(j, d)
      BY WantedType DEF Jobs
    <3> QED BY <3>1, <3>2, ScanType
  <2>3. /\ pc[i] = "idle" /\ pc'[i] = j /\ \A b \in Installer \ {i} : pc'[b] = pc[b]
        /\ UNCHANGED <<filters, swept, main, sc>>
    BY <1>3 DEF Sweep, Goto, UInv, RestOK
  <2>4. quiet' = quiet \/ (quiet' = quiet \cup {i} /\ j = "sweep" /\ Inactive(sc) /\ seen = Wanted("sweep"))
    BY <1>3, <2>1, <2>2 DEF Sweep
  <2>5. ASSUME NEW p \in Proc PROVE PassFits(p)'
    BY <2>2 DEF UInv, PassFits
  <2>6. JobsFit'
    BY <2>2, <2>3 DEF UInv, JobsFit
  <2>7. SweepsClean'
    <3>1. i \notin quiet
      BY <2>3 DEF UInv, SweepsClean
    <3>2. \A b \in quiet : b \in Installer /\ pc'[b] = "sweep" /\ Clean(Device \ pass[b].todo)'
      BY <2>2, <2>3, <3>1 DEF UInv, SweepsClean, Clean
    <3>3. \A b \in quiet' : b \in Installer /\ pc'[b] = "sweep" /\ Clean(Device \ pass[b].todo)'
      BY <2>2, <2>3, <2>4, <3>2 DEF Clean, Wanted, Listed
    <3>4. quiet' # quiet => Ended
      BY <2>4 DEF UInv, IInv, StoppedAtEnd
    <3> QED BY <2>3, <2>4, <3>3, <3>4 DEF UInv, SweepsClean, Clean, Ended
  <2> QED BY <2>5, <2>6, <2>7 DEF UInv
<1>4. CASE SweepOver(i)
  <2>1. /\ pass'[i] = NoPass /\ pc'[i] = "idle" /\ pass[i].todo = {}
        /\ \A p \in Proc \ {i} : pass'[p] = pass[p]
        /\ \A b \in Installer \ {i} : pc'[b] = pc[b]
        /\ UNCHANGED <<filters, main>> /\ quiet' = quiet \ {i}
        /\ swept' => swept \/ i \in quiet
    BY <1>4 DEF SweepOver, PassOver, Goto, UInv, IInv, StateOK, RestOK
  <2>2. ASSUME NEW p \in Proc PROVE PassFits(p)'
    BY <2>1, NoPassType DEF UInv, PassFits
  <2>3. JobsFit'
    BY <2>1, NoPassType DEF UInv, JobsFit
  <2>4. SweepsClean'
    <3>1. swept' => Clean(Device) /\ Ended
      BY <2>1 DEF UInv, SweepsClean
    <3>2. \A b \in quiet' : b \in Installer /\ pc'[b] = "sweep" /\ Clean(Device \ pass[b].todo)'
      BY <2>1 DEF UInv, SweepsClean, Clean
    <3> QED BY <2>1, <3>1, <3>2 DEF UInv, SweepsClean, Clean, Ended
  <2> QED BY <2>2, <2>3, <2>4 DEF UInv
<1> QED BY <1>1, <1>2, <1>3, <1>4 DEF Command

(* No interface has the copy of an id that the pass for composite devices  *)
(* looks for: it wants none.                                               *)
LEMMA NoComposite == \A d \in Device : ~Wants("composite", d)
BY DEF Wants, acqd_registry_is_composite_libacqd, CopiedLength, UsbIdLength

(* What a pass that has read a list writes back. *)
LEMMA WrittenList ==
  ASSUME UInv, NEW p \in Proc, pass[p].at # NoDevice
  PROVE  LET e == Edited(pass[p].job, pass[p].list)
         IN  /\ pass[p].at \in Device
             /\ e \in Seq(Filter) /\ Once(e)
             /\ pass[p].job = "sweep" => ~Has(e)
<1>1. /\ pass[p] \in Pass /\ pass[p].at \in Device /\ pass[p].list \in Seq(Filter)
      /\ Once(pass[p].list) /\ (Has(pass[p].list) <=> pass[p].job = "sweep")
  BY DEF UInv, PassFits, Pass
<1>2. CASE pass[p].job = "sweep"
  BY <1>1, <1>2, RemoveList DEF Edited
<1>3. CASE pass[p].job # "sweep"
  BY <1>1, <1>3, AppendList DEF Edited
<1> QED BY <1>1, <1>2, <1>3

LEMMA PassListsOnce ==
  ASSUME UInv, NEW p \in Proc, PassStep(p)
  PROVE  ListsOnce'
<1>1. CASE Write(p)
  <2>1. filters' = [filters EXCEPT ![pass[p].at] = Edited(pass[p].job, pass[p].list)]
    BY <1>1 DEF Write
  <2>2. pass[p].at # NoDevice
    BY <1>1 DEF Write
  <2> QED BY <2>1, <2>2, WrittenList DEF UInv, RestOK, ListsOnce
<1>2. CASE UNCHANGED filters
  BY <1>2 DEF UInv, RestOK, ListsOnce
<1> QED BY <1>1, <1>2 DEF PassStep, Visit, ReadFails, WriteFails

(* A pass goes on: it has read a list, or is done with a device, or begins *)
(* again.                                                                  *)
LEMMA PassGoesOn ==
  ASSUME UInv, NEW p \in Proc, PassStep(p)
  PROVE  /\ \A q \in Proc \ {p} : pass'[q] = pass[q]
         /\ PassFits(p)' /\ pass'[p].job = pass[p].job
         /\ \A d \in pass[p].todo \ pass'[p].todo :
              \/ ~Edits(pass[p].job, filters[d]) \/ ~(Visit(p) \/ Write(p))
              \/ d = pass[p].at \/ pass[p].job = "install"
<1>1. /\ pass[p] \in Pass /\ pass = [q \in Proc |-> pass[q]]
      /\ pass[p].todo \subseteq Device /\ pass[p].job \in Jobs \cup {"none"}
  BY DEF UInv, PassFits, Pass, IInv, StateOK
<1>2. CASE Visit(p)
  <2>1. PICK d \in pass[p].todo :
          /\ pass[p].at = NoDevice
          /\ pass' = [pass EXCEPT ![p] =
                        IF Edits(pass[p].job, filters[d])
                        THEN [pass[p] EXCEPT !.at = d, !.list = filters[d]]
                        ELSE Leaving(pass[p], d)]
    BY <1>1, <1>2 DEF Visit
  <2>2. CASE Edits(pass[p].job, filters[d])
    <3>1. pass' = [pass EXCEPT ![p] = [pass[p] EXCEPT !.at = d, !.list = filters[d]]]
      BY <2>1, <2>2
    <3>2. d \in Device /\ filters[d] \in Seq(Filter) /\ Once(filters[d])
      BY <1>1 DEF UInv, RestOK, ListsOnce
    <3>3. /\ pass'[p] \in Pass /\ pass'[p].at = d /\ pass'[p].list = filters[d]
          /\ pass'[p].todo = pass[p].todo /\ pass'[p].job = pass[p].job
      BY <1>1, <3>1, <3>2 DEF Pass
    <3>4. Has(filters[d]) <=> pass[p].job = "sweep"
      BY <2>2 DEF Edits
    <3> QED BY <1>1, <2>2, <3>1, <3>2, <3>3, <3>4 DEF PassFits, UInv
  <2>3. CASE ~Edits(pass[p].job, filters[d])
    <3>1. pass' = [pass EXCEPT ![p] = Leaving(pass[p], d)]
      BY <2>1, <2>3
    <3>2. /\ pass'[p] \in Pass /\ pass'[p].at = NoDevice
          /\ pass'[p].todo = pass[p].todo \ {d} /\ pass'[p].job = pass[p].job
      BY <1>1, <3>1, LeavingType
    <3> QED BY <1>1, <2>3, <3>1, <3>2 DEF PassFits, UInv
  <2> QED BY <2>2, <2>3
<1>3. CASE Write(p) /\ pass[p].job = "install"
  <2>1. PICK seen \in {Wanted("install"), {}} :
          pass' = [pass EXCEPT ![p] = Begun("install", seen)]
    BY <1>3 DEF Write, Scan, Begun, Wanted
  <2>2. seen \in SUBSET Device /\ "install" \in Jobs /\ \A d \in seen : Wants("install", d)
    BY WantedType DEF Jobs
  <2>3. pass'[p] = Begun("install", seen) /\ \A q \in Proc \ {p} : pass'[q] = pass[q]
    BY <1>1, <2>1
  <2> QED BY <1>3, <2>2, <2>3, ScanType DEF PassFits
<1>4. CASE (Write(p) /\ pass[p].job # "install") \/ WriteFails(p)
  <2>1. pass' = [pass EXCEPT ![p] = Leaving(pass[p], pass[p].at)]
    BY <1>1, <1>4 DEF Write, WriteFails
  <2>2. /\ pass'[p] \in Pass /\ pass'[p].at = NoDevice
        /\ pass'[p].todo = pass[p].todo \ {pass[p].at} /\ pass'[p].job = pass[p].job
    BY <1>1, <2>1, LeavingType
  <2> QED BY <1>1, <2>1, <2>2 DEF PassFits, UInv
<1>5. CASE ReadFails(p) /\ ~(Visit(p) \/ Write(p))
  <2>1. PICK d \in pass[p].todo :
          IF pass[p].job = "sweep"
          THEN pass' = [pass EXCEPT ![p] = Leaving(pass[p], d)]
          ELSE pass' = [pass EXCEPT ![p] = [pass[p] EXCEPT !.at = d, !.list = <<>>]]
    BY <1>1, <1>5 DEF ReadFails
  <2>2. CASE pass[p].job = "sweep"
    <3>1. pass' = [pass EXCEPT ![p] = Leaving(pass[p], d)]
      BY <2>1, <2>2
    <3>2. /\ pass'[p] \in Pass /\ pass'[p].at = NoDevice
          /\ pass'[p].todo = pass[p].todo \ {d} /\ pass'[p].job = pass[p].job
      BY <1>1, <3>1, LeavingType
    <3> QED BY <1>1, <1>5, <3>1, <3>2 DEF PassFits, UInv
  <2>3. CASE pass[p].job # "sweep"
    <3>1. pass' = [pass EXCEPT ![p] = [pass[p] EXCEPT !.at = d, !.list = <<>>]]
      BY <2>1, <2>3
    <3>2. /\ pass'[p] \in Pass /\ pass'[p].at = d /\ pass'[p].list = <<>>
          /\ pass'[p].todo = pass[p].todo /\ pass'[p].job = pass[p].job
      BY <1>1, <3>1, EmptySeq DEF Pass
    <3>3. Once(<<>>) /\ ~Has(<<>>)
      BY DEF Once, Has, Contains
    <3> QED BY <1>1, <2>3, <3>1, <3>2, <3>3 DEF PassFits, UInv
  <2> QED BY <2>2, <2>3
<1> QED BY <1>2, <1>3, <1>4, <1>5 DEF PassStep

LEMMA PassUninstalls ==
  ASSUME UInv, IInv', RestOK', NEW p \in Proc, PassStep(p)
  PROVE  UInv'
<1> USE ServiceIsNoInstaller
<1>1. UNCHANGED <<main, pc, swept>>
  BY DEF PassStep, service
<1>2. ASSUME NEW q \in Proc PROVE PassFits(q)'
  <2>1. CASE q = p
    BY <2>1, PassGoesOn
  <2>2. CASE q # p
    BY <2>2, PassGoesOn DEF UInv, PassFits
  <2> QED BY <2>1, <2>2
<1>3. pass[p] # NoPass
  <2>1. pass[p].todo # {} \/ pass[p].at # NoDevice
    BY DEF PassStep, Visit, ReadFails, Write, WriteFails
  <2> QED BY <2>1, NoPassType
<1>4. JobsFit'
  BY <1>1, <1>3, PassGoesOn DEF UInv, JobsFit
<1>5. SweepsClean'
  <2>1. CASE p = Service
    <3>1. quiet = {} /\ ~swept
      BY <1>3, <2>1 DEF UInv, IInv, PassesWhereMainIs, SweepsClean, Ended
    <3>2. quiet' = {}
      BY <3>1 DEF PassStep
    <3> QED BY <1>1, <3>1, <3>2 DEF SweepsClean
  <2>2. CASE p \in Installer
    <3>1. pass[p].job \in {"sweep", "composite"}
      BY <1>3, <2>2 DEF UInv, JobsFit
    <3>2. \A d \in Device : ~Has(filters[d]) => ~Has(filters'[d])
      <4>1. CASE Write(p)
        <5>1. filters' = [filters EXCEPT ![pass[p].at] = Edited(pass[p].job, pass[p].list)]
              /\ pass[p].at # NoDevice
          BY <4>1 DEF Write
        <5>2. pass[p].job = "sweep" /\ pass[p].at \in Device
          BY <3>1, <5>1, NoComposite, WrittenList DEF UInv, PassFits, Pass
        <5> QED BY <5>1, <5>2, WrittenList DEF UInv, RestOK, ListsOnce
      <4>2. CASE UNCHANGED filters
        BY <4>2
      <4> QED BY <4>1, <4>2 DEF PassStep, Visit, ReadFails, WriteFails
    <3>3. quiet' \subseteq quiet /\ (p \in quiet' => Visit(p) \/ Write(p))
      BY DEF PassStep
    <3>4. ASSUME p \in quiet', NEW d \in Device \ pass'[p].todo, Wants("sweep", d)
          PROVE  ~Has(filters'[d])
      <4>1. /\ pass[p].job = "sweep"
            /\ d \notin pass[p].todo => ~Has(filters[d])
        BY <2>2, <3>3, <3>4 DEF UInv, JobsFit, SweepsClean, Clean
      <4>2. CASE ~Has(filters[d])
        BY <3>2, <4>2
      <4>3. CASE Has(filters[d])
        <5>1. d = pass[p].at
          BY <3>4, <3>3, <4>1, <4>3, PassGoesOn DEF Edits
        <5>2. Write(p)
          BY <3>3, <3>4, <5>1, NoDeviceAssumption DEF Visit
        <5>3. filters' = [filters EXCEPT ![d] = Edited(pass[p].job, pass[p].list)]
          BY <5>1, <5>2 DEF Write
        <5> QED BY <4>1, <5>1, <5>2, <5>3, WrittenList DEF Write, UInv, RestOK, ListsOnce
      <4> QED BY <4>2, <4>3
    <3>5. \A b \in quiet' : b \in Installer /\ pc'[b] = "sweep" /\ Clean(Device \ pass[b].todo)'
      <4>1. ASSUME NEW b \in quiet', b # p
            PROVE  b \in Installer /\ pc'[b] = "sweep" /\ Clean(Device \ pass[b].todo)'
        BY <1>1, <3>2, <3>3, <4>1, PassGoesOn DEF UInv, SweepsClean, Clean
      <4>2. ASSUME p \in quiet'
            PROVE  p \in Installer /\ pc'[p] = "sweep" /\ Clean(Device \ pass[p].todo)'
        BY <1>1, <3>3, <3>4, <4>2 DEF UInv, SweepsClean, Clean
      <4> QED BY <4>1, <4>2
    <3>6. swept' => Clean(Device)'
      BY <1>1, <3>2 DEF UInv, SweepsClean, Clean
    <3>7. quiet' # {} \/ swept' => Ended'
      BY <1>1, <3>3 DEF UInv, SweepsClean, Ended
    <3> QED BY <3>5, <3>6, <3>7 DEF SweepsClean
  <2> QED BY <2>1, <2>2, ProcAssumption
<1> QED BY <1>2, <1>4, <1>5 DEF UInv

(* What the setup programs of other drivers do to a list.                  *)
LEMMA OthersEditList ==
  ASSUME UInv, NEW d \in Device, OthersEdit(d)
  PROVE  /\ ListsOnce'
         /\ \A c \in Device : ~Has(filters[c]) => ~Has(filters'[c])
         /\ \A c \in Device \ {d} : filters'[c] = filters[c]
<1>1. filters \in [Device -> Seq(Filter)] /\ \A c \in Device : Once(filters[c])
  BY DEF UInv, RestOK, ListsOnce
<1>2. PICK t : /\ filters' = [filters EXCEPT ![d] = t]
               /\ \/ \E f \in Filter \ {Ours} : t = Append(filters[d], f)
                  \/ \E k \in 1..Len(filters[d]) : t = RemoveAt(filters[d], k)
  BY <1>1 DEF OthersEdit
<1>3. t \in Seq(Filter) /\ Once(t) /\ (~Has(filters[d]) => ~Has(t))
  BY <1>1, <1>2, EditedByOthers
<1> QED BY <1>1, <1>2, <1>3 DEF ListsOnce

LEMMA OthersUninstall ==
  ASSUME UInv, IInv', RestOK', NEW d \in Device, OthersEdit(d), UNCHANGED <<service, pc, quiet, swept>>
  PROVE  UInv'
<1>1. UNCHANGED <<pass, main, pc, quiet, swept>>
  BY DEF OthersEdit, service
<1>2. \A c \in Device : ~Has(filters[c]) => ~Has(filters'[c])
  BY OthersEditList
<1>3. ASSUME NEW p \in Proc PROVE PassFits(p)'
  BY <1>1 DEF UInv, PassFits
<1>4. JobsFit'
  BY <1>1 DEF UInv, JobsFit
<1>5. SweepsClean'
  BY <1>1, <1>2 DEF UInv, SweepsClean, Clean, Ended
<1> QED BY <1>3, <1>4, <1>5 DEF UInv

-----------------------------------------------------------------------------
LEMMA InitUninstalls == Init => UInv
<1> SUFFICES ASSUME Init PROVE UInv
  OBVIOUS
<1> USE ServiceIsNoInstaller
<1>1. RestOK
  BY EntriesType, PresetAssumption, Zenon DEF Init, RegistryInit, RestOK, ListsOnce, Once, Inactive
<1>2. \A p \in Proc : pass[p] = NoPass
  BY DEF Init, RegistryInit
<1>3. \A p \in Proc : PassFits(p)
  BY <1>2, NoPassType DEF PassFits
<1>4. JobsFit /\ SweepsClean
  BY <1>2, NoPassType DEF Init, JobsFit, SweepsClean
<1> QED BY <1>1, <1>3, <1>4, InitHolds DEF UInv

LEMMA NextUninstalls == UInv /\ [Next]_vars => UInv'
<1> SUFFICES ASSUME UInv, [Next]_vars PROVE UInv'
  OBVIOUS
<1>1. IInv'
  BY NextKeeps DEF UInv
<1>2. CASE \E p \in Proc : PassStep(p)
  <2>1. RestOK'
    BY <1>1, <1>2, PassListsOnce, RestKeeps
  <2> QED BY <1>1, <1>2, <2>1, PassUninstalls
<1>5. CASE \E d \in Device : OthersEdit(d) /\ UNCHANGED <<service, pc, quiet, swept>>
  <2>1. RestOK'
    BY <1>1, <1>5, OthersEditList, RestKeeps
  <2> QED BY <1>1, <1>5, <2>1, OthersUninstall
<1>3. CASE UNCHANGED filters
  <2>1. RestOK'
    BY <1>1, <1>3, RestKeeps DEF UInv, RestOK, ListsOnce
  <2>2. CASE MainStep
    BY <1>1, <2>1, <2>2, MainUninstalls
  <2>3. CASE HandlerStep \/ Ask \/ EntryGoes
    BY <1>1, <2>1, <2>3, HandlerUninstalls
  <2>4. CASE Exit \/ Crash
    BY <1>1, <2>1, <2>4, GoneUninstalls DEF Exit, Crash
  <2>5. CASE \E i \in Installer : Command(i)
    BY <1>1, <2>1, <2>5, CommandUninstalls
  <2>6. CASE (\E d \in Device : Plug(d) /\ UNCHANGED <<service, pc, quiet, swept>>) \/ UNCHANGED vars
    <3>1. UNCHANGED <<filters, pass, quiet, swept, pc, main>>
      BY <2>6 DEF Plug, vars, service
    <3> QED BY <1>1, <2>1, <3>1, Bystands DEF Ended
  <2> QED BY <1>2, <1>5, <2>2, <2>3, <2>4, <2>5, <2>6 DEF Next
<1>4. \/ \E p \in Proc : PassStep(p)
      \/ \E d \in Device : OthersEdit(d) /\ UNCHANGED <<service, pc, quiet, swept>>
      \/ UNCHANGED filters
  BY DEF Next, vars, MainStep, Main, CreateEvent, Scanned, Assign, MainTells, Wait, HandlerStep,
         HandlerAssigns, HandlerTells, Signal, Exit, Crash, Gone, Ask, EntryGoes, Command, Create,
         Delete, Start, Stop, PollSees, PollFails, SweepOver, Sweep, Plug
<1> QED BY <1>2, <1>3, <1>4, <1>5

LEMMA AlwaysUninstalls == Spec => []UInv
BY InitUninstalls, NextUninstalls, PTL DEF Spec

(* An uninstall that stops the service and sweeps all devices leaves our   *)
(* filter on none that is not driven by our stub, until the service is     *)
(* started again: whatever other installers do meanwhile, and however      *)
(* their passes, the end of the service and devices that come and go fall. *)
THEOREM UninstallCleans == Spec => []CleanAfterUninstall
<1>1. UInv => CleanAfterUninstall
  BY DEF UInv, SweepsClean, Clean, CleanAfterUninstall
<1> QED BY <1>1, AlwaysUninstalls, PTL
-----------------------------------------------------------------------------
(* The lists stay what they were, but for our filter.                      *)

(* An insert and a removal of our filter leave the others.                 *)
LEMMA EditLeavesOthers ==
  ASSUME NEW s \in Seq(Filter), Once(s)
  PROVE  /\ Len(s) <= Len(Others(s)) + 1
         /\ ~Has(s) => Others(Append(s, Ours)) = Others(s)
         /\ Has(s) => Others(RemoveFirst(s, Ours)) = Others(s)
<1> DEFINE n == Len(s)
<1>0. n \in Nat /\ \A i \in 1..n : s[i] \in Filter
  OBVIOUS
<1>1. CASE ~Has(s)
  <2>1. \A i \in 1..n : s[i] # Ours
    BY <1>1 DEF Has, Contains
  <2> DEFINE t == Append(s, Ours)
             k == n + 1
  <2>2. k \in 1..(n + 1) /\ k \in 1..(Len(t) + 1) /\ t \in Seq(Filter) /\ Len(t) = n + 1
        /\ \A i \in 1..n : t[i] = s[i]
        /\ t[n + 1] = Ours
    BY <1>0, AppendList, <1>1
  <2>3. \A i \in 1..n : s[i] = Ours <=> i = k
    BY <1>0, <2>1
  <2>4. \A i \in 1..Len(t) : t[i] = Ours <=> i = k
    BY <1>0, <2>1, <2>2
  <2> HIDE DEF t
  <2>5. Others(s) = Cut(s, k, n)
    BY <1>0, <2>2, <2>3, OthersCut
  <2>6. Others(t) = Cut(t, k, n)
    BY <1>0, <2>2, <2>4, OthersCut
  <2>7. Cut(t, k, n) = Cut(s, k, n)
    BY <1>0, <2>2 DEF Cut
  <2>8. Len(Others(s)) = n
    BY <1>0, <2>5 DEF Cut
  <2> QED BY <1>0, <1>1, <2>5, <2>6, <2>7, <2>8 DEF t
<1>2. CASE Has(s)
  <2>1. PICK k \in 1..n : s[k] = Ours
    BY <1>2 DEF Has, Contains
  <2>2. \A i \in 1..n : s[i] = Ours <=> i = k
    BY <2>1 DEF Once
  <2> DEFINE t == RemoveFirst(s, Ours)
             l == n + 1
  <2>3. k \in 1..(n + 1) /\ k <= n
    BY <1>0
  <2>4. Others(s) = Cut(s, k, n - 1)
    BY <1>0, <2>2, <2>3, OthersCut
  <2>5. t \in Seq(Filter) /\ ~Has(t)
    BY <1>2, RemoveList
  <2>6. t = Cut(s, k, n - 1)
    BY <1>0, <2>1, <2>2, RemovedIsCut
  <2> HIDE DEF t
  <2>7. Len(t) = n - 1 /\ \A i \in 1..(n - 1) : t[i] # Ours
    BY <1>0, <2>3, <2>5, <2>6 DEF Cut, Has, Contains
  <2>8. Others(t) = Cut(t, n, n - 1)
    <3>1. n \in 1..(Len(t) + 1) /\ ~(n <= Len(t)) /\ \A i \in 1..Len(t) : t[i] = Ours <=> i = n
      BY <1>0, <2>3, <2>7
    <3> HIDE DEF n
    <3> QED BY <2>5, <2>7, <3>1, OthersCut
  <2>9. Cut(t, n, n - 1) = t
    <3>1. t = [i \in 1..(n - 1) |-> t[i]]
      BY <2>6 DEF Cut
    <3> QED BY <1>0, <3>1 DEF Cut
  <2> QED BY <1>0, <1>2, <2>4, <2>6, <2>7, <2>8, <2>9 DEF t
<1> QED BY <1>1, <1>2

LEMMA OthersEmpty == Others(<<>>) = <<>>
<1>1. ASSUME NEW s \in Seq(Filter), Len(s) = 0 PROVE Others(s) = [j \in 1..0 |-> s[j]]
  <2>1. Others(s) = Cut(s, 1, 0)
    <3>1. 1 \in 1..(Len(s) + 1) /\ ~(1 <= Len(s)) /\ \A i \in 1..Len(s) : s[i] = Ours <=> i = 1
      BY <1>1
    <3> QED BY <1>1, <3>1, OthersCut
  <2>2. \A j \in 1..0 : FALSE
    OBVIOUS
  <2> QED BY <2>1, <2>2 DEF Cut
<1>2. [j \in 1..0 |-> <<>>[j]] = <<>>
  OBVIOUS
<1> QED BY <1>1, <1>2, EmptySeq

(* What a pass is about to write has the others' filters that are on the   *)
(* list now, unless it is known not to.                                    *)
Kept == \A p \in Proc \ spoilt :
          pass[p].at # NoDevice => Others(pass[p].list) = Others(filters[pass[p].at])

SpoiltHold == spoilt \subseteq {p \in Proc : pass[p].at # NoDevice}

(* After a step a process has the pass it had, as spoilt as it was, or     *)
(* holds no list.                                                          *)
Settled(p) ==
  \/ pass'[p] = pass[p] /\ (p \in spoilt' <=> p \in spoilt)
  \/ pass'[p].at = NoDevice /\ p \notin spoilt'

LEMMA Settles ==
  ASSUME UInv, SpoiltHold, NEW q \in Proc, NEW s, s.at = NoDevice,
         pass' = [pass EXCEPT ![q] = s],
         \/ spoilt' = spoilt \ {q}
         \/ UNCHANGED spoilt /\ (pass[q].at = NoDevice \/ pass[q].todo = {})
  PROVE  \A p \in Proc : Settled(p)
<1>1. pass = [p \in Proc |-> pass[p]]
  BY DEF UInv, IInv, StateOK
<1>2. q \notin spoilt'
  BY DEF SpoiltHold, UInv, PassFits
<1>3. pass'[q] = s /\ \A p \in Proc \ {q} : pass'[p] = pass[p] /\ (p \in spoilt' <=> p \in spoilt)
  BY <1>1
<1> QED BY <1>2, <1>3 DEF Settled

LEMMA ScanSettles ==
  ASSUME UInv, SpoiltHold, NEW q \in Proc, NEW j, Scan(q, j), UNCHANGED spoilt, pass[q].at = NoDevice
  PROVE  \A p \in Proc : Settled(p)
<1>1. PICK seen : pass' = [pass EXCEPT ![q] = Begun(j, seen)]
  BY DEF Scan, Begun
<1>2. Begun(j, seen).at = NoDevice
  BY DEF Begun, NoPass
<1> QED BY <1>1, <1>2, Settles

(* What a step does that is not of a pass, nor of another setup program.   *)
LEMMA OtherSteps ==
  ASSUME UInv, SpoiltHold, [Next]_vars,
         ~(\E q \in Proc : PassStep(q)), ~(\E d \in Device : OthersEdit(d))
  PROVE  UNCHANGED filters /\ \A p \in Proc : Settled(p)
<1> USE ServiceIsNoInstaller, NoPassType
<1>1. UNCHANGED filters
  BY DEF Next, vars, MainStep, Main, CreateEvent, Scanned, Assign, MainTells, Wait, HandlerStep,
         HandlerAssigns, HandlerTells, Signal, Exit, Crash, Gone, Ask, EntryGoes, Command, Create,
         Delete, Start, Stop, PollSees, PollFails, SweepOver, Sweep, Plug
<1>2. ASSUME UNCHANGED <<pass, spoilt>> PROVE \A p \in Proc : Settled(p)
  BY <1>2 DEF Settled
<1>3. ASSUME MainStep PROVE \A p \in Proc : Settled(p)
  <2>1. \/ UNCHANGED <<pass, spoilt>>
        \/ Scan(Service, "install") /\ main \in {"create", "wait"} /\ UNCHANGED spoilt
        \/ /\ pass' = [pass EXCEPT ![Service] = NoPass] /\ pass[Service].todo = {}
           /\ UNCHANGED spoilt
    BY <1>3 DEF MainStep, Main, CreateEvent, Scanned, Assign, MainTells, Wait, PassOver
  <2>2. main \in {"create", "wait"} => pass[Service].at = NoDevice
    BY DEF UInv, IInv, PassesWhereMainIs
  <2> QED BY <1>2, <2>1, <2>2, ScanSettles, Settles
<1>4. ASSUME Exit \/ Crash PROVE \A p \in Proc : Settled(p)
  <2>1. pass' = [pass EXCEPT ![Service] = NoPass] /\ spoilt' = spoilt \ {Service}
    BY <1>4 DEF Exit, Crash, Gone
  <2> QED BY <2>1, Settles
<1>5. ASSUME NEW i \in Installer, Command(i) PROVE \A p \in Proc : Settled(p)
  <2>1. \/ UNCHANGED <<pass, spoilt>>
        \/ \E j : Scan(i, j) /\ pc[i] = "idle" /\ UNCHANGED spoilt
        \/ pass' = [pass EXCEPT ![i] = NoPass] /\ pass[i].todo = {} /\ UNCHANGED spoilt
    BY <1>5 DEF Command, Create, Delete, Start, Stop, PollSees, PollFails, Sweep, SweepOver, PassOver
  <2>2. pc[i] = "idle" => pass[i].at = NoDevice
    BY DEF UInv, JobsFit
  <2> QED BY <1>2, <2>1, <2>2, ScanSettles, Settles
<1>6. ASSUME \/ HandlerStep \/ Ask \/ EntryGoes \/ UNCHANGED vars
             \/ \E d \in Device : Plug(d)
      PROVE  \A p \in Proc : Settled(p)
  BY <1>2, <1>6 DEF HandlerStep, HandlerAssigns, HandlerTells, Signal, Ask, EntryGoes, vars, Plug
<1>7. \A p \in Proc : Settled(p)
  BY <1>3, <1>4, <1>5, <1>6 DEF Next
<1> QED BY <1>1, <1>7

(* A pass reads a list, cannot read or write it, or goes on.               *)
LEMMA ReadingSteps ==
  ASSUME UInv, SpoiltHold, Kept, NEW q \in Proc, Visit(q) \/ ReadFails(q) \/ WriteFails(q)
  PROVE  Kept' /\ SpoiltHold'
<1>1. /\ pass = [p \in Proc |-> pass[p]] /\ pass[q] \in Pass /\ UNCHANGED filters
      /\ \A d \in pass[q].todo : d \in Device /\ d # NoDevice
  BY NoDeviceAssumption DEF UInv, IInv, StateOK, PassFits, Visit, ReadFails, WriteFails, Pass
<1>2. ASSUME \A p \in Proc : Settled(p) PROVE Kept' /\ SpoiltHold'
  <2>1. Kept'
    BY <1>1, <1>2 DEF Kept, Settled
  <2>2. spoilt' \subseteq Proc
    BY DEF Visit, ReadFails, WriteFails, SpoiltHold
  <2> QED BY <1>2, <2>1, <2>2 DEF SpoiltHold, Settled
<1>3. ASSUME NEW d, pass' = [pass EXCEPT ![q] = Leaving(pass[q], d)],
             spoilt' = spoilt \ {q} \/ (UNCHANGED spoilt /\ pass[q].at = NoDevice)
      PROVE  \A p \in Proc : Settled(p)
  BY <1>1, <1>3, LeavingType, Settles
<1>4. ASSUME NEW d \in pass[q].todo, NEW l, pass' = [pass EXCEPT ![q] = [pass[q] EXCEPT !.at = d, !.list = l]],
             pass[q].at = NoDevice,
             spoilt' = spoilt \/ spoilt' = spoilt \cup {q},
             q \notin spoilt' => Others(l) = Others(filters[d])
      PROVE  Kept' /\ SpoiltHold'
  <2>1. pass'[q] = [pass[q] EXCEPT !.at = d, !.list = l] /\ \A p \in Proc \ {q} : pass'[p] = pass[p]
    BY <1>1, <1>4
  <2>2. pass'[q].at = d /\ pass'[q].list = l
    BY <1>1, <2>1 DEF Pass
  <2>3. Kept'
    BY <1>1, <1>4, <2>1, <2>2 DEF Kept
  <2>4. SpoiltHold'
    BY <1>1, <1>4, <2>1, <2>2 DEF SpoiltHold
  <2> QED BY <2>3, <2>4
<1>5. CASE Visit(q)
  <2>1. PICK d \in pass[q].todo :
          pass' = [pass EXCEPT ![q] = IF Edits(pass[q].job, filters[d])
                                      THEN [pass[q] EXCEPT !.at = d, !.list = filters[d]]
                                      ELSE Leaving(pass[q], d)]
    BY <1>1, <1>5 DEF Visit
  <2>2. pass[q].at = NoDevice /\ UNCHANGED spoilt
    BY <1>5 DEF Visit
  <2>3. \/ pass' = [pass EXCEPT ![q] = [pass[q] EXCEPT !.at = d, !.list = filters[d]]]
        \/ pass' = [pass EXCEPT ![q] = Leaving(pass[q], d)]
    BY <2>1
  <2> QED BY <1>2, <1>3, <1>4, <2>2, <2>3
<1>6. CASE WriteFails(q)
  <2>1. pass' = [pass EXCEPT ![q] = Leaving(pass[q], pass[q].at)] /\ spoilt' = spoilt \ {q}
    BY <1>1, <1>6 DEF WriteFails
  <2> QED BY <1>2, <1>3, <2>1
<1>7. CASE ReadFails(q)
  <2>1. PICK d \in pass[q].todo :
          IF pass[q].job = "sweep"
          THEN pass' = [pass EXCEPT ![q] = Leaving(pass[q], d)] /\ UNCHANGED spoilt
          ELSE /\ pass' = [pass EXCEPT ![q] = [pass[q] EXCEPT !.at = d, !.list = <<>>]]
               /\ spoilt' = IF Others(filters[d]) = <<>> THEN spoilt ELSE spoilt \cup {q}
    BY <1>1, <1>7 DEF ReadFails
  <2>2. pass[q].at = NoDevice
    BY <1>7 DEF ReadFails
  <2>3. CASE pass[q].job = "sweep"
    BY <1>2, <1>3, <2>1, <2>2, <2>3
  <2>4. CASE pass[q].job # "sweep"
    <3>1. /\ spoilt' = spoilt \/ spoilt' = spoilt \cup {q}
          /\ q \notin spoilt' => Others(<<>>) = Others(filters[d])
      BY <2>1, <2>4, OthersEmpty
    <3> QED BY <1>4, <2>1, <2>2, <2>4, <3>1
  <2> QED BY <2>3, <2>4
<1> QED BY <1>5, <1>6, <1>7

(* What a pass writes has the others' filters that it has read.            *)
LEMMA WriteLeavesOthers ==
  ASSUME UInv, Kept, NEW q \in Proc, Write(q)
  PROVE  /\ pass[q].at \in Device
         /\ \A d \in Device \ {pass[q].at} : filters'[d] = filters[d]
         /\ q \notin spoilt => Others(filters'[pass[q].at]) = Others(filters[pass[q].at])
<1> DEFINE l == pass[q].list
           e == Edited(pass[q].job, l)
<1>1. /\ l \in Seq(Filter) /\ Once(l) /\ (Has(l) <=> pass[q].job = "sweep")
      /\ q \notin spoilt => Others(l) = Others(filters[pass[q].at])
      /\ filters' = [filters EXCEPT ![pass[q].at] = e]
      /\ filters = [d \in Device |-> filters[d]]
      /\ pass[q].at \in Device
  BY DEF Write, UInv, PassFits, Pass, Kept, RestOK, ListsOnce
<1>2. Others(e) = Others(l)
  BY <1>1, EditLeavesOthers DEF Edited
<1> HIDE DEF l, e
<1> QED BY <1>1, <1>2

LEMMA WritingSteps ==
  ASSUME UInv, SpoiltHold, Kept, NEW q \in Proc, Write(q)
  PROVE  Kept' /\ SpoiltHold'
<1>1. pass = [p \in Proc |-> pass[p]] /\ pass[q] \in Pass
  BY DEF UInv, IInv, StateOK, PassFits
<1>2. pass'[q].at = NoDevice /\ \A p \in Proc \ {q} : pass'[p] = pass[p]
  <2>1. CASE Scan(q, pass[q].job)
    <3>1. PICK seen : pass' = [pass EXCEPT ![q] = Begun(pass[q].job, seen)]
      BY <2>1 DEF Scan, Begun
    <3>2. Begun(pass[q].job, seen).at = NoDevice
      BY DEF Begun, NoPass
    <3> QED BY <1>1, <3>1, <3>2
  <2>2. CASE pass' = [pass EXCEPT ![q] = Leaving(pass[q], pass[q].at)]
    BY <1>1, <2>2, LeavingType
  <2> QED BY <1>1, <2>1, <2>2 DEF Write
<1>3. spoilt' = (IF q \in spoilt THEN spoilt \cup Holders(pass[q].at) ELSE spoilt) \ {q}
  BY DEF Write
<1>4. pass[q].at \in Device /\ pass[q].at # NoDevice
  BY WriteLeavesOthers DEF Write
<1>5. Kept'
  <2> SUFFICES ASSUME NEW p \in Proc \ spoilt', pass'[p].at # NoDevice
               PROVE  Others(pass'[p].list) = Others(filters'[pass'[p].at])
    BY DEF Kept
  <2>1. p # q /\ pass'[p] = pass[p] /\ p \notin spoilt
    BY <1>2, <1>3
  <2>2. Others(pass[p].list) = Others(filters[pass[p].at]) /\ pass[p].at \in Device
    BY <2>1 DEF Kept, UInv, PassFits, Pass
  <2>3. CASE pass[p].at = pass[q].at
    <3>1. q \notin spoilt
      BY <1>3, <2>1, <2>3 DEF Holders
    <3> QED BY <2>1, <2>2, <2>3, <3>1, WriteLeavesOthers
  <2>4. CASE pass[p].at # pass[q].at
    BY <2>1, <2>2, <2>4, WriteLeavesOthers
  <2> QED BY <2>3, <2>4
<1>6. SpoiltHold'
  BY <1>2, <1>3, <1>4 DEF SpoiltHold, Holders
<1> QED BY <1>5, <1>6

LEMMA EditingSteps ==
  ASSUME UInv, SpoiltHold, Kept, NEW d \in Device, OthersEdit(d)
  PROVE  Kept' /\ SpoiltHold'
<1>1. spoilt' = spoilt \cup Holders(d) /\ UNCHANGED pass /\ d # NoDevice
  BY NoDeviceAssumption DEF OthersEdit
<1>2. \A p \in Proc \ spoilt' : pass[p].at # d
  BY <1>1 DEF Holders
<1>3. \A p \in Proc : pass[p].at # NoDevice => pass[p].at \in Device
  BY DEF UInv, PassFits, Pass
<1> QED BY <1>1, <1>2, <1>3, OthersEditList DEF Kept, SpoiltHold, Holders

LEMMA AlwaysKept == Spec => [](Kept /\ SpoiltHold)
<1>1. Init => Kept /\ SpoiltHold
  BY NoPassType DEF Init, RegistryInit, Kept, SpoiltHold
<1>2. UInv /\ Kept /\ SpoiltHold /\ [Next]_vars => Kept' /\ SpoiltHold'
  <2> SUFFICES ASSUME UInv, Kept, SpoiltHold, [Next]_vars PROVE Kept' /\ SpoiltHold'
    OBVIOUS
  <2>1. CASE \E q \in Proc : PassStep(q)
    BY <2>1, ReadingSteps, WritingSteps DEF PassStep
  <2>2. CASE \E d \in Device : OthersEdit(d)
    BY <2>2, EditingSteps
  <2>3. CASE ~(\E q \in Proc : PassStep(q)) /\ ~(\E d \in Device : OthersEdit(d))
    <3>1. UNCHANGED filters /\ \A p \in Proc : Settled(p)
      BY <2>3, OtherSteps
    <3>2. spoilt' \subseteq Proc
      BY <2>3 DEF Next, vars, MainStep, Main, CreateEvent, Scanned, Assign, MainTells, Wait,
         HandlerStep, HandlerAssigns, HandlerTells, Signal, Exit, Crash, Gone, Ask, EntryGoes, Command,
         Create, Delete, Start, Stop, PollSees, PollFails, SweepOver, Sweep, Plug, SpoiltHold
    <3>3. Kept'
      BY <3>1 DEF Kept, Settled
    <3> QED BY <3>1, <3>2, <3>3 DEF SpoiltHold, Settled
  <2> QED BY <2>1, <2>2, <2>3
<1> QED BY <1>1, <1>2, AlwaysUninstalls, PTL DEF Spec

(* Every variable has its type, and without a process there is no control  *)
(* under way, no event and no service that is said to run.                 *)
THEOREM TypeCorrect == Spec => []TypeOK
<1>1. UInv /\ SpoiltHold => TypeOK
  <2> SUFFICES ASSUME UInv, SpoiltHold PROVE TypeOK
    OBVIOUS
  <2>1. RegistryTypeOK
    BY DEF UInv, RestOK, ListsOnce, PassFits, IInv, StateOK, SpoiltHold, RegistryTypeOK
  <2>2. quiet \subseteq Installer
    BY DEF UInv, SweepsClean
  <2> QED BY <2>1, <2>2 DEF UInv, IInv, StateOK, StoppedAtEnd, RestOK, TypeOK
<1> QED BY <1>1, AlwaysUninstalls, AlwaysKept, PTL

(* However the passes of the service and of installers interleave with     *)
(* each other and with other setup programs, a write changes the filters   *)
(* of others only if the pass could not read the list or others have       *)
(* changed it since, and puts ours on no list twice.                       *)
THEOREM ListsStayIntact == Spec => ListsIntact
<1>1. UInv /\ UInv' /\ Kept /\ SpoiltHold /\ [Next]_vars => [OthersKept]_registry
  <2> SUFFICES ASSUME UInv, UInv', Kept, SpoiltHold, [Next]_vars,
                      NEW d \in Device, filters'[d] # filters[d]
               PROVE  /\ Others(filters'[d]) # Others(filters[d]) =>
                           OthersEdit(d) \/ \E p \in spoilt : pass[p].at = d /\ Write(p)
                      /\ Len(filters'[d]) <= Len(Others(filters'[d])) + 1
    BY DEF OthersKept
  <2>1. filters'[d] \in Seq(Filter) /\ Once(filters'[d])
    BY DEF UInv, RestOK, ListsOnce
  <2>2. Len(filters'[d]) <= Len(Others(filters'[d])) + 1
    BY <2>1, EditLeavesOthers
  <2>3. (\E q \in Proc : Write(q)) \/ \E c \in Device : OthersEdit(c)
    BY OtherSteps DEF PassStep, Visit, ReadFails, WriteFails
  <2>4. ASSUME NEW q \in Proc, Write(q), Others(filters'[d]) # Others(filters[d])
        PROVE  q \in spoilt /\ pass[q].at = d
    BY <2>4, WriteLeavesOthers
  <2>5. ASSUME NEW c \in Device, OthersEdit(c)
        PROVE  OthersEdit(d)
    <3>1. c = d
      BY <2>5, OthersEditList
    <3> QED BY <2>5, <3>1
  <2> QED BY <2>2, <2>3, <2>4, <2>5
<1> QED BY <1>1, AlwaysUninstalls, AlwaysKept, PTL DEF Spec, ListsIntact
=============================================================================
