--------------------------- MODULE VncServerProofs --------------------------
(* Proofs about VncServer: for any number of clients and of slots. *)
EXTENDS VncServer, TLAPS

(* A client has its slot until it removes itself, is on the first list     *)
(* while it authenticates, and then on one of them unless it is unseen.    *)
SlotsOwned ==
  \A c \in Client :
    /\ at[c] \in {"authenticating", "running", "leaving"} => clientmap[id[c]] = c
    /\ at[c] = "authenticating" => id[c] \in unauth
    /\ at[c] \in {"running", "leaving"} => c \in unseen \/ id[c] \in auth \cup unauth

(* A client that is past the lists has the desktop to itself. *)
DesktopHeld ==
  \A c \in Client :
    /\ at[c] \in {"removing", "deleting"} => desktopLock = c
    /\ at[c] = "deleting" => auth = {}

(* What the stages of ~vncServer leave behind them. *)
StagesDone ==
  /\ control = "idle" => ~destroying
  /\ control = "free" \/ Freed => destroying /\ unauth = {}
  /\ destroying /\ control \notin {"close", "join"} => listener = "none"
  /\ (destroying /\ control = "wait_unauth") \/ control = "free" \/ Freed =>
       \A i \in auth : clientmap[i] \in unseen
  /\ Freed => \A c \in Client : at[c] # "none" => c \in unseen
  /\ \A c \in Client : at[c] = "fault" => Freed

(* The inductive invariant. *)
IInv ==
  /\ TypeOK
  /\ ListedClientsLive
  /\ DesktopOutlivesBuffers
  /\ SlotsOwned
  /\ DesktopHeld
  /\ StagesDone

(* A step that changes neither the registry, nor the desktop, nor who is   *)
(* where.                                                                  *)
LEMMA BystanderKeeps ==
  ASSUME IInv, UNCHANGED <<registry, screen, at, unseen>>, control # "dead", Freed => Freed'
  PROVE  /\ ListedClientsLive' /\ DesktopOutlivesBuffers'
         /\ SlotsOwned' /\ DesktopHeld'
BY DEF IInv, ListedClientsLive, DesktopOutlivesBuffers, SlotsOwned, DesktopHeld, registry, screen

-----------------------------------------------------------------------------
(* Client threads. *)

(* A client that gets a slot gets a free one, which no list has. *)
LEMMA RegisterKeeps ==
  ASSUME IInv, ~Freed, NEW c \in Client, at[c] = "none",
         NEW i \in FreeIds, Register(c, i)
  PROVE  /\ clientmap' \in [Ids -> Client \cup {NoClient}] /\ id' \in [Client -> Ids]
         /\ at' \in [Client -> {"none", "authenticating", "running", "leaving",
                                "removing", "deleting", "fault"}]
         /\ ListedClientsLive' /\ DesktopOutlivesBuffers' /\ SlotsOwned' /\ DesktopHeld'
<1> USE DEF Register, Go, screen, stopping, Freed
<1>1. i \in Ids /\ clientmap[i] = NoClient /\ i \notin auth \cup unauth
  BY DEF FreeIds, IInv, ListedClientsLive
<1>2. /\ clientmap' \in [Ids -> Client \cup {NoClient}] /\ id' \in [Client -> Ids]
      /\ at' \in [Client -> {"none", "authenticating", "running", "leaving",
                             "removing", "deleting", "fault"}]
  BY <1>1 DEF IInv, TypeOK
<1>3. \A j \in auth \cup unauth : j \in Ids /\ j # i /\ clientmap[j] \in Client \ {c}
  BY <1>1 DEF IInv, TypeOK, ListedClientsLive
<1>4. ListedClientsLive'
  BY <1>1, <1>2, <1>3, NoClientAssumption DEF IInv, TypeOK, ListedClientsLive
<1>5. DesktopOutlivesBuffers'
  BY <1>1, <1>3 DEF IInv, TypeOK, DesktopOutlivesBuffers
<1>6. SlotsOwned'
  <2>1. \A d \in Client : d # c /\ at[d] \in {"authenticating", "running", "leaving"} => id[d] # i
    BY <1>1, NoClientAssumption DEF IInv, SlotsOwned
  <2> QED BY <1>1, <1>2, <2>1 DEF IInv, TypeOK, SlotsOwned
<1>7. DesktopHeld'
  BY DEF IInv, TypeOK, DesktopHeld
<1> QED BY <1>2, <1>4, <1>5, <1>6, <1>7

LEMMA AcceptKeeps ==
  ASSUME IInv, NEW c \in Client, Accept(c)
  PROVE  IInv'
<1>1. ~Freed /\ control # "free" /\ control' = control /\ destroying' = destroying
  BY DEF IInv, StagesDone, Accept, AddClient, Register, stopping, Freed
<1>2. destroying => control \in {"close", "join"}
  BY DEF IInv, StagesDone, Accept
<1>3. StagesDone'
  <2>1. \A d \in Client : at'[d] # "fault"
    BY <1>1 DEF IInv, TypeOK, StagesDone, Accept, AddClient, Register, Go
  <2> QED BY <1>1, <1>2, <2>1 DEF IInv, StagesDone, Accept, Freed
<1>4. CASE UNCHANGED <<registry, screen, stopping, at, killed, unseen>>
  <2>1. TypeOK'
    BY <1>4 DEF IInv, TypeOK, Accept, registry, screen, stopping
  <2> QED BY <1>1, <1>3, <1>4, <2>1, BystanderKeeps DEF IInv, Freed
<1>5. CASE \E i \in FreeIds : at[c] = "none" /\ Register(c, i)
  <2>1. PICK i \in FreeIds : at[c] = "none" /\ Register(c, i)
    BY <1>5
  <2>2. TypeOK'
    BY <1>1, <2>1, RegisterKeeps
       DEF IInv, TypeOK, Accept, Register, FreeIds, screen, stopping
  <2> QED BY <1>1, <1>3, <2>1, <2>2, RegisterKeeps DEF IInv
<1> QED BY <1>4, <1>5 DEF Accept, AddClient

LEMMA AuthenticatedKeeps ==
  ASSUME IInv, NEW c \in Client, Authenticated(c)
  PROVE  IInv'
<1> USE DEF Authenticated, Go, stopping
<1>1. TypeOK'
  <2>1. /\ at' \in [Client -> {"none", "authenticating", "running", "leaving",
                               "removing", "deleting", "fault"}]
        /\ buffer' \in [Client -> {"none", "live", "stale"}]
    BY DEF IInv, TypeOK
  <2>2. /\ unauth' \subseteq Ids /\ auth' \subseteq Ids
        /\ killed' \subseteq Client /\ unseen' \subseteq Client
    <3>1. id[c] \in Ids /\ unauth \subseteq Ids /\ auth \subseteq Ids
          /\ killed \subseteq Client /\ unseen \subseteq Client
      BY DEF IInv, TypeOK
    <3> QED BY <3>1
  <2>3. desktop' \in BOOLEAN
    BY DEF IInv, TypeOK
  <2> QED BY <2>1, <2>2, <2>3 DEF IInv, TypeOK
<1>2. \A d \in Client : at[d] \notin {"removing", "deleting"}
  BY NoClientAssumption DEF IInv, DesktopHeld
<1>3. DesktopHeld'
  BY <1>2 DEF IInv, TypeOK, DesktopHeld
<1>5. ~Freed /\ control # "free"
  BY DEF IInv, StagesDone, SlotsOwned
<1>6. control # "dead"
  BY <1>5 DEF Freed
<1>4. StagesDone'
  <2>1. \A d \in Client : at'[d] # "fault"
    BY <1>5 DEF IInv, TypeOK, StagesDone
  <2>2. ASSUME destroying, control = "wait_unauth", NEW i \in auth'
        PROVE  clientmap[i] \in unseen'
    <3>1. CASE i \in auth
      BY <2>2, <3>1 DEF IInv, StagesDone
    <3>2. CASE i = id[c] /\ auth' = auth \cup {id[c]}
      <4>1. at'[c] # "leaving" => clientmap[id[c]] = c /\ unseen' = unseen \cup {c}
        BY <2>2 DEF IInv, TypeOK, SlotsOwned
      <4>2. at'[c] = "leaving" => auth' = auth
        BY DEF IInv, TypeOK
      <4> QED BY <2>2, <3>1, <3>2, <4>1, <4>2
    <3> QED BY <2>2, <3>1, <3>2
  <2> QED BY <1>5, <2>1, <2>2 DEF IInv, StagesDone, Freed
<1>7. QED
  <2>1. id[c] \in unauth /\ clientmap[id[c]] = c /\ id[c] \in Ids
    BY <1>6 DEF IInv, TypeOK, SlotsOwned
  <2>2. /\ auth \cap unauth = {}
        /\ \A i \in auth \cup unauth :
             /\ i \in Ids /\ clientmap[i] \in Client /\ id[clientmap[i]] = i
             /\ at[clientmap[i]] \in {"authenticating", "running", "leaving"}
    BY <1>6 DEF IInv, TypeOK, ListedClientsLive
  <2>3. /\ auth' \cap unauth' = {} /\ auth' \cup unauth' \subseteq auth \cup unauth
        /\ auth' \subseteq auth \cup {id[c]}
    BY <2>1, <2>2
  <2>4. ListedClientsLive'
    <3>1. at'[c] \in {"authenticating", "running", "leaving"}
      BY DEF IInv, TypeOK
    <3>2. \A d \in Client \ {c} : at'[d] = at[d]
      BY DEF IInv, TypeOK
    <3>3. UNCHANGED <<clientmap, id>>
      OBVIOUS
    <3> QED BY <2>2, <2>3, <3>1, <3>2, <3>3, NoClientAssumption DEF ListedClientsLive
  <2>5. DesktopOutlivesBuffers'
    <3>1. \A i \in auth : clientmap[i] \in Client \ {c}
      BY <2>1, <2>2
    <3>2. \A d \in Client \ {c} : buffer'[d] = buffer[d]
      BY DEF IInv, TypeOK
    <3>3. \A i \in auth : desktop' /\ buffer'[clientmap[i]] = "live"
      <4>1. \A i \in auth : buffer'[clientmap[i]] = "live"
        BY <1>5, <3>1, <3>2 DEF IInv, DesktopOutlivesBuffers
      <4>2. desktop => desktop'
        OBVIOUS
      <4>3. auth # {} => desktop
        BY <1>5 DEF IInv, DesktopOutlivesBuffers
      <4> QED BY <4>1, <4>2, <4>3
    <3>4. auth' = auth \/ (desktop' /\ buffer'[c] = "live")
      <4>1. buffer \in [Client -> {"none", "live", "stale"}]
        BY DEF IInv, TypeOK
      <4> QED BY <4>1
    <3> QED BY <2>1, <2>3, <3>3, <3>4 DEF DesktopOutlivesBuffers
  <2>6. SlotsOwned'
    <3>1. \A d \in Client :
            d # c /\ at[d] \in {"authenticating", "running", "leaving"} => id[d] # id[c]
      BY <1>6, <2>1 DEF IInv, SlotsOwned
    <3>2. at'[c] = "running" => id[c] \in auth'
      BY DEF IInv, TypeOK
    <3>3. at'[c] = "leaving" => c \in unseen'
      BY DEF IInv, TypeOK
    <3>4. /\ at'[c] \in {"running", "leaving"} /\ \A d \in Client \ {c} : at'[d] = at[d]
          /\ unseen \subseteq unseen' /\ auth \subseteq auth'
      BY DEF IInv, TypeOK
    <3> QED BY <2>1, <3>1, <3>2, <3>3, <3>4 DEF IInv, TypeOK, SlotsOwned
  <2> QED BY <1>1, <1>3, <1>4, <2>4, <2>5, <2>6 DEF IInv

LEMMA LeaveKeeps ==
  ASSUME IInv, NEW c \in Client, Leave(c)
  PROVE  IInv'
BY DEF Leave, Go, registry, screen, stopping, IInv, TypeOK, ListedClientsLive,
       DesktopOutlivesBuffers, SlotsOwned, DesktopHeld, StagesDone, Freed

LEMMA RemoveClientKeeps ==
  ASSUME IInv, NEW c \in Client, RemoveClient(c)
  PROVE  IInv'
<1> USE DEF RemoveClient, TakeOffLists, Go
<1>1. TypeOK'
  BY DEF IInv, TypeOK
<1>2. \A d \in Client : at[d] \notin {"removing", "deleting"}
  BY NoClientAssumption DEF IInv, DesktopHeld
<1>3. id[c] \in Ids /\ clientmap[id[c]] = c
  BY DEF IInv, TypeOK, SlotsOwned
<1>4. \A i \in (auth \cup unauth) \ {id[c]} : i \in Ids /\ clientmap[i] # c /\ clientmap'[i] = clientmap[i]
  BY DEF IInv, TypeOK, ListedClientsLive
<1>5. ListedClientsLive'
  BY <1>3, <1>4 DEF IInv, TypeOK, ListedClientsLive
<1>6. DesktopOutlivesBuffers'
  BY <1>4 DEF IInv, TypeOK, DesktopOutlivesBuffers, Freed
<1>7. SlotsOwned'
  <2>1. \A d \in Client :
          d # c /\ at[d] \in {"authenticating", "running", "leaving"} => id[d] # id[c]
    BY <1>3 DEF IInv, SlotsOwned
  <2> QED BY <2>1 DEF IInv, TypeOK, SlotsOwned
<1>8. DesktopHeld'
  BY <1>2 DEF IInv, TypeOK, DesktopHeld
<1>9. StagesDone'
  <2>1. \A d \in Client : at'[d] # "none" => at[d] # "none"
    BY DEF IInv, TypeOK
  <2>2. \A d \in Client : at'[d] = "fault" => Freed
    BY DEF IInv, TypeOK, StagesDone, Freed
  <2>3. UNCHANGED <<control, destroying, listener, unseen>> /\ (Freed' <=> Freed)
    BY DEF Freed
  <2>4. \A i \in auth' : i \in auth /\ clientmap'[i] = clientmap[i]
    BY <1>4
  <2>5. unauth' \subseteq unauth
    OBVIOUS
  <2> QED BY <2>1, <2>2, <2>3, <2>4, <2>5 DEF IInv, StagesDone
<1> QED BY <1>1, <1>5, <1>6, <1>7, <1>8, <1>9 DEF IInv

(* A client that finds the server deleted changes nothing but where it is. *)
LEMMA UseDeletedKeeps ==
  ASSUME IInv, NEW c \in Client, UseDeleted(c)
  PROVE  IInv'
BY DEF UseDeleted, Go, registry, screen, stopping, IInv, TypeOK, ListedClientsLive,
       DesktopOutlivesBuffers, SlotsOwned, DesktopHeld, StagesDone, Freed

(* Returning from RemoveClient, with or without the desktop. *)
LEMMA DepartKeeps ==
  ASSUME IInv, NEW c \in Client, LookForOthers(c) \/ DeleteDesktop(c)
  PROVE  IInv'
<1> USE DEF LookForOthers, DeleteDesktop, Depart, Go, Orphaned, registry, stopping
<1>1. TypeOK'
  BY DEF IInv, TypeOK
<1>2. \A d \in Client \ {c} : at[d] \notin {"removing", "deleting"}
  BY DEF IInv, DesktopHeld
<1>3. control # "dead"
  OBVIOUS
<1>4. \A i \in auth \cup unauth : clientmap[i] \in Client \ {c}
  BY <1>3 DEF IInv, TypeOK, ListedClientsLive
<1>5. ListedClientsLive'
  BY <1>3, <1>4 DEF IInv, TypeOK, ListedClientsLive
<1>6. DesktopOutlivesBuffers'
  BY <1>3, <1>4 DEF IInv, TypeOK, DesktopOutlivesBuffers, DesktopHeld, Freed
<1>7. SlotsOwned'
  BY <1>3 DEF IInv, TypeOK, SlotsOwned
<1>8. DesktopHeld'
  BY <1>2 DEF IInv, TypeOK, DesktopHeld
<1>9. StagesDone'
  <2>1. /\ \A d \in Client : at'[d] # "none" => at[d] # "none"
        /\ \A d \in Client : at'[d] # "none" /\ d \in unseen => d \in unseen'
        /\ \A d \in Client : at'[d] = "fault" => at[d] = "fault"
    BY DEF IInv, TypeOK
  <2>2. \A i \in auth : clientmap[i] \in unseen => clientmap[i] \in unseen'
    BY <1>4
  <2>3. UNCHANGED <<control, destroying, listener, clientmap, auth, unauth>> /\ (Freed' <=> Freed)
    BY DEF Freed
  <2> QED BY <2>1, <2>2, <2>3 DEF IInv, StagesDone
<1> QED BY <1>1, <1>5, <1>6, <1>7, <1>8, <1>9 DEF IInv

-----------------------------------------------------------------------------
(* The listener and the controlling thread. *)

(* These steps move no client and write neither registry nor desktop. *)
LEMMA ControlKeeps ==
  ASSUME IInv,
         \/ AcceptFails \/ SockConnectOn \/ SockConnectOff \/ Destroy
         \/ (\E i \in Ids : KillClient(i)) \/ Control
  PROVE  IInv'
<1> USE DEF AcceptFails, SockConnectOn, SockConnectOff, Destroy, KillClient, Control,
            KillAuthClients, KillUnauthClients, WaitUntilAuthEmpty, WaitUntilUnauthEmpty,
            WaitUntilEmpty, CloseSocket, JoinListener, DeleteCondition, Return, Then,
            registry, screen, stopping
<1>1. UNCHANGED <<registry, screen, at, unseen>>
  OBVIOUS
<1>2. control # "dead" /\ (Freed => Freed')
  BY DEF IInv, StagesDone, Freed
<1>3. killed' \subseteq Client
  BY <1>2, NoClientAssumption DEF IInv, TypeOK, ListedClientsLive, Told
<1>4. TypeOK'
  <2>1. listener' \in {"none", "accepting", "closing", "ended"}
    BY DEF IInv, TypeOK
  <2>2. control' \in {"idle", "kill_auth", "kill_unauth", "wait_auth", "wait_unauth",
                      "close", "join", "free", "condition", "return", "dead"}
    BY DEF IInv, TypeOK
  <2>3. destroying' \in BOOLEAN /\ asleep' \in BOOLEAN
    BY DEF IInv, TypeOK
  <2> QED BY <1>1, <1>3, <2>1, <2>2, <2>3 DEF IInv, TypeOK
<1>5. StagesDone'
  <2>1. CASE AcceptFails
    <3>1. UNCHANGED <<control, destroying, unauth, at>>
      BY <2>1
    <3>2. destroying => control \in {"close", "join"}
      BY <2>1 DEF IInv, StagesDone, Freed
    <3> QED BY <1>2, <3>1, <3>2 DEF IInv, StagesDone, Freed
  <2>2. CASE \E i \in Ids : KillClient(i)
    <3>1. UNCHANGED <<control, destroying, listener, unauth, at>>
      BY <2>2
    <3> QED BY <3>1 DEF IInv, StagesDone, Freed
  <2>3. CASE SockConnectOn \/ SockConnectOff
    BY <2>3 DEF IInv, StagesDone, Freed
  <2>4. CASE Destroy
    BY <2>4 DEF IInv, StagesDone, Freed
  <2>5. CASE KillAuthClients \/ KillUnauthClients \/ WaitUntilAuthEmpty
    BY <2>5 DEF IInv, StagesDone, Freed
  <2>8. CASE DeleteCondition \/ Return
    BY <2>8 DEF IInv, StagesDone, Freed
  <2>6. CASE WaitUntilUnauthEmpty
    <3>1. CASE destroying
      BY <2>6, <3>1 DEF IInv, StagesDone, Freed
    <3>2. CASE ~destroying
      BY <2>6, <3>2 DEF IInv, StagesDone, Freed
    <3> QED BY <3>1, <3>2
  <2>7. CASE CloseSocket \/ JoinListener
    <3>1. CASE destroying
      BY <2>7, <3>1 DEF IInv, StagesDone, Freed
    <3>2. CASE ~destroying
      BY <2>7, <3>2 DEF IInv, StagesDone, Freed
    <3> QED BY <3>1, <3>2
  <2> QED BY <2>1, <2>2, <2>3, <2>4, <2>5, <2>6, <2>7, <2>8
<1> QED BY <1>1, <1>2, <1>4, <1>5, BystanderKeeps DEF IInv

(* When the desktop can be freed nobody has it. *)
LEMMA FreeDesktopKeeps ==
  ASSUME IInv, FreeDesktop
  PROVE  IInv'
<1> USE DEF FreeDesktop, Then, Orphaned, registry
<1>1. TypeOK'
  BY DEF IInv, TypeOK
<1>2. \A c \in Client : at[c] \notin {"removing", "deleting"}
  BY NoClientAssumption DEF IInv, DesktopHeld
<1>3. \A c \in Client : at[c] # "none" => c \in unseen
  <2> SUFFICES ASSUME NEW c \in Client, at[c] # "none" PROVE c \in unseen
    OBVIOUS
  <2>1. at[c] \in {"running", "leaving"}
    BY <1>2 DEF IInv, TypeOK, SlotsOwned, StagesDone, Freed
  <2>2. clientmap[id[c]] = c /\ (c \in unseen \/ id[c] \in auth)
    BY <2>1 DEF IInv, SlotsOwned, StagesDone
  <2> QED BY <2>2 DEF IInv, StagesDone
<1>4. \A i \in auth : clientmap[i] \in unseen
  BY DEF IInv, StagesDone
<1>5. ListedClientsLive' /\ SlotsOwned' /\ DesktopHeld'
  BY DEF IInv, ListedClientsLive, SlotsOwned, DesktopHeld
<1>6. DesktopOutlivesBuffers'
  BY <1>4 DEF DesktopOutlivesBuffers, Freed
<1>7. StagesDone'
  BY <1>3, <1>4 DEF IInv, StagesDone, Freed
<1> QED BY <1>1, <1>5, <1>6, <1>7 DEF IInv

-----------------------------------------------------------------------------
LEMMA InitHolds == Init => IInv
<1> SUFFICES ASSUME Init PROVE IInv
  OBVIOUS
<1>1. 0 \in Ids
  BY MaxClientsAssumption DEF Ids
<1>2. TypeOK
  BY <1>1 DEF Init, TypeOK
<1> QED BY <1>2 DEF Init, IInv, ListedClientsLive, DesktopOutlivesBuffers, SlotsOwned,
                    DesktopHeld, StagesDone, Freed

LEMMA NextKeeps == IInv /\ [Next]_vars => IInv'
<1> SUFFICES ASSUME IInv, [Next]_vars PROVE IInv'
  OBVIOUS
<1>1. CASE \E c \in Client : Accept(c)
  BY <1>1, AcceptKeeps
<1>2. CASE \E c \in Client : Authenticated(c)
  BY <1>2, AuthenticatedKeeps
<1>3. CASE \E c \in Client : Leave(c)
  BY <1>3, LeaveKeeps
<1>4. CASE \E c \in Client : RemoveClient(c)
  BY <1>4, RemoveClientKeeps
<1>5. CASE \E c \in Client : LookForOthers(c) \/ DeleteDesktop(c)
  BY <1>5, DepartKeeps
<1>9. CASE \E c \in Client : UseDeleted(c)
  BY <1>9, UseDeletedKeeps
<1>6. CASE FreeDesktop
  BY <1>6, FreeDesktopKeeps
<1>7. CASE \/ AcceptFails \/ SockConnectOn \/ SockConnectOff \/ Destroy
           \/ (\E i \in Ids : KillClient(i)) \/ Control
  BY <1>7, ControlKeeps
<1>8. CASE UNCHANGED vars
  BY <1>8 DEF vars, IInv, TypeOK, ListedClientsLive, DesktopOutlivesBuffers, SlotsOwned,
              DesktopHeld, StagesDone, Freed
<1> QED BY <1>1, <1>2, <1>3, <1>4, <1>5, <1>6, <1>7, <1>8, <1>9 DEF Next

LEMMA Inductive == Spec => []IInv
BY InitHolds, NextKeeps, PTL DEF Spec

(* The registry's state has its type: no slot number is outside the table, *)
(* however many clients come.                                              *)
THEOREM TypeCorrect == Spec => []TypeOK
<1>1. IInv => TypeOK
  BY DEF IInv
<1> QED BY <1>1, Inductive, PTL

(* For any number of clients, every entry of m_authClients and             *)
(* m_unauthClients is a client of its own that has not removed itself.     *)
THEOREM ListsNeverDangle == Spec => []ListedClientsLive
<1>1. IInv => ListedClientsLive
  BY DEF IInv
<1> QED BY <1>1, Inductive, PTL

(* RemoveClient, which looks without m_clientsLock, deletes the desktop    *)
(* under no authorised client, and ~vncServer only under those that came   *)
(* on the list behind its back.                                            *)
THEOREM DesktopNeverLost == Spec => []DesktopOutlivesBuffers
<1>1. IInv => DesktopOutlivesBuffers
  BY DEF IInv
<1> QED BY <1>1, Inductive, PTL

(* Once ~vncServer has had m_desktopLock there is no listener, and no      *)
(* client but those that its waits could not see.                          *)
THEOREM NothingRunsAfterDestroy == Spec => []DestroyedLast
<1>1. IInv => DestroyedLast
  BY DEF IInv, StagesDone, DestroyedLast, Freed
<1> QED BY <1>1, Inductive, PTL
=============================================================================
