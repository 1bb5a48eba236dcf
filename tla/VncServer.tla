------------------------------ MODULE VncServer -----------------------------
(***************************************************************************)
(* The client registry of win32/service/vncServer.cpp: the table of client *)
(* objects, the lists of clients being authorised and authorised, the      *)
(* desktop they share, and the ways to switch the server off.              *)
(*                                                                         *)
(* The threads are: one per client, the thread that accepts connections,   *)
(* and the controlling thread, which starts, stops and deletes the server. *)
(* What is done under m_clientsLock is one step; m_desktopLock is held     *)
(* across steps and is a variable.  vncClient and vncDesktop are external: *)
(* a client authenticates at most once, leaves when it likes and after it  *)
(* is told to die, and removes itself before its object is deleted.        *)
(***************************************************************************)
EXTENDS Integers

CONSTANTS
  Client,        (* vncClient objects, each with its thread                  *)
  NoClient,      (* the NULL vncClient pointer, and the owner of a free lock *)
  MAX_CLIENTS

ASSUME NoClientAssumption   == NoClient \notin Client
ASSUME MaxClientsAssumption == MAX_CLIENTS \in Nat \ {0}

VARIABLES
  clientmap,     (* m_clientmap                                              *)
  unauth, auth,  (* m_unauthClients and m_authClients                        *)
  desktop,       (* is there an m_desktop?                                   *)
  desktopLock,   (* the client that has m_desktopLock, or NoClient           *)
  listener,      (* m_socketConn: "none"; or where its thread is             *)
  control,       (* where the controlling thread is                          *)
  destroying,    (* is it in ~vncServer, and not in SockConnect(FALSE)?      *)
  asleep,        (* is it in m_clientquitsig->wait()?                        *)
  at,            (* external: where each client's thread is                  *)
  id,            (* the clientid each client was given                       *)
  killed,        (* external: clients whose Kill has been called             *)
  buffer,        (* the vncBuffer of each client: whether there is one, and  *)
                 (* whether the desktop it was made for is still there       *)
  unseen         (* history: clients that the waits of ~vncServer do not see:*)
                 (* taken off the first list and not put on the second, or   *)
                 (* put there when it has been seen empty                    *)

vars == <<clientmap, unauth, auth, desktop, desktopLock, listener, control,
          destroying, asleep, at, id, killed, buffer, unseen>>

registry == <<clientmap, unauth, auth, id>>
screen   == <<desktop, desktopLock, buffer>>
stopping == <<control, destroying, asleep>>

(* Where ~vncServer is once it has deleted the desktop.                    *)
Freed == control \in {"condition", "return", "dead"}

Ids == 0..(MAX_CLIENTS - 1)

(* The clients that a loop over a list reaches through GetClient. *)
Told(ids) == {clientmap[i] : i \in ids}

Go(c, l) == at' = [at EXCEPT ![c] = l]

-----------------------------------------------------------------------------
(* Connections.                                                            *)

(* The search for a clientid starts after m_nextid, which stays 0, and     *)
(* gives up when it is back there: slot 0 is never used.                   *)
FreeIds == {i \in Ids \ {0} : clientmap[i] = NoClient}

Register(c, i) ==
  /\ clientmap' = [clientmap EXCEPT ![i] = c]
  /\ id' = [id EXCEPT ![c] = i]
  /\ unauth' = unauth \cup {i}
  /\ killed' = killed \ {c}
  /\ unseen' = unseen \ {c}
  /\ Go(c, "authenticating")
  /\ UNCHANGED <<auth, screen, stopping>>

(* Mutant: the search does not look whether a slot is taken.               *)
AddClient_Taken(c) ==
  /\ at[c] = "none"
  /\ \E i \in Ids \ {0} : (\A j \in Ids \ {0} : i <= j) /\ Register(c, i)

(* Mutant: the search runs one past the end of the table.                  *)
AddClient_NoWrap(c) ==
  /\ at[c] = "none"
  /\ \E i \in FreeIds \cup {MAX_CLIENTS} :
       (\A j \in FreeIds : i <= j) /\ Register(c, i)

AddClient(c) ==
  /\ at[c] = "none"
  /\ \/ \E i \in FreeIds : (\A j \in FreeIds : i <= j) /\ Register(c, i)
     \/ (* no slot, no memory, or the client does not start *)
        UNCHANGED <<registry, screen, stopping, at, killed, unseen>>

(* The loop of vncSockConnectThread.  Once it is told to shut down it is   *)
(* sent a connection to get it out of Accept, and adds a client for that   *)
(* like for any other.                                                     *)
Accept(c) ==
  /\ listener \in {"accepting", "closing"}
  /\ AddClient(c)
  /\ listener' = IF listener = "closing" THEN "ended" ELSE listener

AcceptFails ==
  /\ listener \in {"accepting", "closing"}
  /\ listener' = "ended"
  /\ UNCHANGED <<registry, screen, stopping, at, killed, unseen>>

-----------------------------------------------------------------------------
(* Calls of client threads.                                                *)

(* Authenticated takes the client off the one list before it is known      *)
(* whether it can go on the other: there may be no desktop for it, or no   *)
(* memory for a buffer.                                                    *)
Authenticated(c) ==
  /\ at[c] = "authenticating"
  /\ desktopLock = NoClient
  /\ unauth' = unauth \ {id[c]}
  /\ \/ /\ desktop' = TRUE
        /\ buffer' = [buffer EXCEPT ![c] = "live"]
        /\ auth' = auth \cup {id[c]}
        /\ Go(c, "running")
        /\ unseen' = IF destroying /\ control = "wait_unauth" THEN unseen \cup {c} ELSE unseen
        /\ UNCHANGED killed
     \/ /\ desktop' \in {desktop, TRUE}
        /\ killed' = killed \cup {c}
        /\ unseen' = unseen \cup {c}
        /\ Go(c, "leaving")
        /\ UNCHANGED <<auth, buffer>>
  /\ UNCHANGED <<clientmap, id, desktopLock, listener, stopping>>

(* The connection ends, or the client finds that it was told to die. *)
Leave(c) ==
  /\ at[c] \in {"authenticating", "running"}
  /\ Go(c, "leaving")
  /\ UNCHANGED <<registry, screen, listener, stopping, killed, unseen>>

(* The block of RemoveClient under m_clientsLock.  The slot is freed when  *)
(* the client is found on a list.  Without m_clientquitsig, which the      *)
(* destructor has deleted, the call of its signal() is the thread's last.  *)
TakeOffLists(c) ==
  /\ at[c] = "leaving" /\ control # "dead"
  /\ auth' = auth \ {id[c]}
  /\ unauth' = unauth \ {id[c]}
  /\ clientmap' = [clientmap EXCEPT ![id[c]] = IF id[c] \in auth \cup unauth THEN NoClient ELSE @]
  /\ Go(c, IF control = "return" THEN "fault" ELSE "removing")
  /\ UNCHANGED <<id, desktop, buffer, listener, control, destroying, killed, unseen>>

(* Mutant: m_desktopLock is not taken.                                     *)
RemoveClient_Unlocked(c) ==
  /\ TakeOffLists(c)
  /\ asleep' = FALSE
  /\ UNCHANGED desktopLock

(* Mutant: nobody is told that the client is gone.                         *)
RemoveClient_Silent(c) ==
  /\ desktopLock = NoClient
  /\ desktopLock' = c
  /\ TakeOffLists(c)
  /\ UNCHANGED asleep

RemoveClient(c) ==
  /\ desktopLock = NoClient
  /\ desktopLock' = c
  /\ TakeOffLists(c)
  /\ asleep' = FALSE   (* m_clientquitsig->signal() *)

(* A server that has been deleted has neither locks nor lists.             *)
UseDeleted(c) ==
  /\ control = "dead"
  /\ at[c] \in {"leaving", "removing", "deleting"}
  /\ Go(c, "fault")
  /\ UNCHANGED <<registry, screen, listener, stopping, killed, unseen>>

(* It returns, its lock is released, and the object is deleted. *)
Depart(c) ==
  /\ Go(c, "none")
  /\ desktopLock' = NoClient
  /\ unseen' = unseen \ {c}

(* m_authClients is read without m_clientsLock. *)
LookForOthers(c) ==
  /\ at[c] = "removing" /\ control # "dead"
  /\ \/ /\ auth = {} /\ desktop
        /\ Go(c, "deleting")
        /\ UNCHANGED <<desktopLock, buffer, unseen>>
     \/ /\ ~(auth = {} /\ desktop)
        /\ Depart(c)
        /\ buffer' = [buffer EXCEPT ![c] = "none"]
  /\ UNCHANGED <<registry, desktop, listener, stopping, killed>>

(* What becomes of the buffers when the desktop is deleted. *)
Orphaned == [b \in Client |-> IF buffer[b] = "live" THEN "stale" ELSE buffer[b]]

DeleteDesktop(c) ==
  /\ at[c] = "deleting" /\ control # "dead"
  /\ desktop' = FALSE
  /\ buffer' = [Orphaned EXCEPT ![c] = "none"]
  /\ Depart(c)
  /\ UNCHANGED <<registry, listener, stopping, killed>>

-----------------------------------------------------------------------------
(* Calls of the controlling thread.                                        *)

Then(l) == control' = l /\ UNCHANGED <<destroying, asleep>>

(* SockConnect(TRUE): there may be a listener already, or none can be made. *)
SockConnectOn ==
  /\ control = "idle"
  /\ listener = "none"
  /\ listener' = "accepting"
  /\ UNCHANGED <<registry, screen, stopping, at, killed, unseen>>

SockConnectOff ==
  /\ control = "idle"
  /\ control' = "kill_auth"
  /\ UNCHANGED <<registry, screen, listener, destroying, asleep, at, killed, unseen>>

Destroy ==
  /\ control = "idle"
  /\ control' = "close"
  /\ destroying' = TRUE
  /\ UNCHANGED <<registry, screen, listener, asleep, at, killed, unseen>>

KillClient(i) ==
  /\ control = "idle"
  /\ i \in auth \cup unauth
  /\ killed' = killed \cup Told({i})
  /\ UNCHANGED <<registry, screen, listener, stopping, at, unseen>>

KillAuthClients ==
  /\ control = "kill_auth"
  /\ killed' = killed \cup Told(auth)
  /\ Then("kill_unauth")
  /\ UNCHANGED <<registry, screen, listener, at, unseen>>

KillUnauthClients ==
  /\ control = "kill_unauth"
  /\ killed' = killed \cup Told(unauth)
  /\ Then("wait_auth")
  /\ UNCHANGED <<registry, screen, listener, at, unseen>>

(* while (!list.empty()) m_clientquitsig->wait(); *)
WaitUntilEmpty(list, here, next) ==
  /\ control = here
  /\ ~asleep
  /\ \/ list # {} /\ asleep' = TRUE /\ UNCHANGED <<control, destroying>>
     \/ list = {} /\ Then(next)
  /\ UNCHANGED <<registry, screen, listener, at, killed, unseen>>

WaitUntilAuthEmpty   == WaitUntilEmpty(auth, "wait_auth", "wait_unauth")
WaitUntilUnauthEmpty == WaitUntilEmpty(unauth, "wait_unauth", IF destroying THEN "free" ELSE "close")

(* delete m_socketConn: the thread is told to shut down, and joined. *)
CloseSocket ==
  /\ control = "close"
  /\ IF listener = "none"
     THEN Then(IF destroying THEN "kill_auth" ELSE "idle") /\ UNCHANGED listener
     ELSE Then("join") /\ listener' = IF listener = "ended" THEN "ended" ELSE "closing"
  /\ UNCHANGED <<registry, screen, at, killed, unseen>>

JoinListener ==
  /\ control = "join"
  /\ listener = "ended"
  /\ listener' = "none"
  /\ Then(IF destroying THEN "kill_auth" ELSE "idle")
  /\ UNCHANGED <<registry, screen, at, killed, unseen>>

(* Mutant: the desktop is freed without m_desktopLock.                     *)
FreeDesktop_Unlocked ==
  /\ control = "free"
  /\ desktop' = FALSE
  /\ buffer' = Orphaned
  /\ Then("condition")
  /\ UNCHANGED <<registry, desktopLock, listener, at, killed, unseen>>

(* The block of ~vncServer under m_desktopLock.                            *)
FreeDesktop ==
  /\ control = "free"
  /\ desktopLock = NoClient
  /\ desktop' = FALSE
  /\ buffer' = Orphaned
  /\ Then("condition")
  /\ UNCHANGED <<registry, desktopLock, listener, at, killed, unseen>>

(* m_auth_hosts, m_name and at last m_clientquitsig are freed.             *)
DeleteCondition ==
  /\ control = "condition"
  /\ Then("return")
  /\ UNCHANGED <<registry, screen, listener, at, killed, unseen>>

(* The destructor returns, and with it the lists and the locks are gone.   *)
Return ==
  /\ control = "return"
  /\ Then("dead")
  /\ UNCHANGED <<registry, screen, listener, at, killed, unseen>>

-----------------------------------------------------------------------------
Init ==
  /\ clientmap = [i \in Ids |-> NoClient]
  /\ unauth = {} /\ auth = {}
  /\ desktop = FALSE /\ desktopLock = NoClient
  /\ listener = "none"
  /\ control = "idle" /\ destroying = FALSE /\ asleep = FALSE
  /\ at = [c \in Client |-> "none"]
  /\ id = [c \in Client |-> 0]
  /\ killed = {}
  /\ buffer = [c \in Client |-> "none"]
  /\ unseen = {}

Control ==
  \/ KillAuthClients \/ KillUnauthClients \/ WaitUntilAuthEmpty
  \/ WaitUntilUnauthEmpty \/ CloseSocket \/ JoinListener
  \/ DeleteCondition \/ Return

Next ==
  \/ \E c \in Client :
       Accept(c) \/ Authenticated(c) \/ Leave(c) \/ RemoveClient(c)
         \/ LookForOthers(c) \/ DeleteDesktop(c) \/ UseDeleted(c)
  \/ AcceptFails
  \/ SockConnectOn \/ SockConnectOff \/ Destroy
  \/ \E i \in Ids : KillClient(i)
  \/ Control \/ FreeDesktop

(* Threads run and locks are not starved; a client that was told to die    *)
(* notices; the connection made to the listener gets it out of Accept.     *)
(* Nothing else makes a client leave, or come.                             *)
Fairness ==
  /\ \A c \in Client :
       /\ WF_vars(c \in killed /\ Leave(c))
       /\ SF_vars(RemoveClient(c))
       /\ WF_vars(LookForOthers(c)) /\ WF_vars(DeleteDesktop(c))
  /\ WF_vars(listener = "closing" /\ AcceptFails)
  /\ WF_vars(Control) /\ SF_vars(FreeDesktop)

Spec == Init /\ [][Next]_vars /\ Fairness

-----------------------------------------------------------------------------
(* Properties.                                                             *)

(* Every variable has its type, and a slot number is inside the table. *)
TypeOK ==
  /\ clientmap \in [Ids -> Client \cup {NoClient}]
  /\ unauth \subseteq Ids /\ auth \subseteq Ids
  /\ desktop \in BOOLEAN
  /\ desktopLock \in Client \cup {NoClient}
  /\ listener \in {"none", "accepting", "closing", "ended"}
  /\ control \in {"idle", "kill_auth", "kill_unauth", "wait_auth", "wait_unauth",
                  "close", "join", "free", "condition", "return", "dead"}
  /\ destroying \in BOOLEAN /\ asleep \in BOOLEAN
  /\ at \in [Client -> {"none", "authenticating", "running", "leaving", "removing",
                        "deleting", "fault"}]
  /\ id \in [Client -> Ids]
  /\ killed \subseteq Client
  /\ buffer \in [Client -> {"none", "live", "stale"}]
  /\ unseen \subseteq Client

(* Whoever goes through a list, to kill its clients or to post an update   *)
(* to them, finds for each entry one client of its own, which has not      *)
(* removed itself: no entry outlives its client, moves to another's, or is *)
(* on both lists.                                                          *)
ListedClientsLive ==
  control # "dead" =>
    /\ auth \cap unauth = {}
    /\ \A i \in auth \cup unauth :
         /\ clientmap[i] # NoClient
         /\ id[clientmap[i]] = i
         /\ at[clientmap[i]] \in {"authenticating", "running", "leaving"}

(* The desktop is deleted from under an authorised client only by          *)
(* ~vncServer, and only from under one that came on the list when its wait *)
(* for that list was over: when the last one leaves as another is let in,  *)
(* RemoveClient and Authenticated agree on who has it.                     *)
DesktopOutlivesBuffers ==
  \A i \in auth : \/ desktop /\ buffer[clientmap[i]] = "live"
                  \/ Freed /\ clientmap[i] \in unseen

(* From the moment ~vncServer has had m_desktopLock, whatever client is    *)
(* still there, in RemoveClient or on its way to it, is one that its waits *)
(* could not see: for one that has just left the last list, waiting for    *)
(* the lists alone would not do.  The listener and the clients being       *)
(* authorised are gone by then.                                            *)
DestroyedLast ==
  Freed =>
    /\ unauth = {}
    /\ listener = "none"
    /\ \A c \in Client : at[c] # "none" => c \in unseen

(* A listed client that the stop in progress has not told to die.          *)
Missed ==
  /\ control \in {"wait_auth", "wait_unauth"}
  /\ \E c \in Told(auth \cup unauth) : c \notin killed

(* Switching off and deleting the server end, unless they wait for a       *)
(* client that came, or was authorised, behind their back.                 *)
StopEnds == control \notin {"idle", "dead"} ~> (control \in {"idle", "dead"} \/ Missed)

(* What ~vncServer says of itself, "Remove any active clients!" and "Wait  *)
(* for all the clients to die": when it is done no client is left.         *)
AllClientsDead == control = "dead" => \A c \in Client : at[c] = "none"
=============================================================================
