-------------------------- MODULE VncServiceProofs --------------------------
(* Proofs about VncService: for any set of users. *)
EXTENDS VncService, TLAPS

(* "stopped" is in g_srvstatus, or about to be put there by the handler,   *)
(* or told, only outside of the worker's life up to where it says so.      *)
Ended == worker \in {"none", "stop_tell", "gone"}

StoppedAtEnd ==
  /\ status.state = "stopped" => Ended
  /\ handler.say = "stopped" => Ended
  /\ Inactive(sc) => Ended

(* The worker is made by ServiceMain, no control comes before, and what    *)
(* the handler reports is a state it has read.                             *)
InOrder ==
  /\ start = "main" =>
       worker = "none" /\ handler = Idle /\ sc.state = "start_pending" /\ ~sc.accepts
  /\ handler.at \in {"assign", "tell"} => handler.say # "none"

(* The worker reverts to itself to act for a user, has no user's token     *)
(* when it comes to resetting the flag, and has one when it comes to       *)
(* setting it.                                                             *)
HelperHasUser ==
  /\ worker \in {"reverted", "helper"} => helper # Nobody
  /\ worker \in {"reverted", "self"} => token = Nobody
  /\ worker = "impersonated" => token # Nobody

(* The inductive invariant. *)
IInv ==
  /\ TypeOK
  /\ StoppedAtEnd
  /\ InOrder
  /\ HelperHasUser
  /\ FlagTellsToken

-----------------------------------------------------------------------------
(* The parts of the service do not disturb the people, and the other way   *)
(* round.                                                                  *)
PeopleOK == /\ logged \in User \cup {Nobody} /\ helper \in User \cup {Nobody}
            /\ token \in User \cup {Nobody} /\ flag \in BOOLEAN
            /\ clearing \in BOOLEAN /\ cleared \in BOOLEAN

Windows == {"reverted", "helper", "impersonated", "self"}

LEMMA PeopleKeep ==
  ASSUME IInv, UNCHANGED people,
         worker' = worker \/ (worker \notin Windows /\ worker' \notin Windows)
  PROVE  PeopleOK' /\ HelperHasUser' /\ FlagTellsToken'
BY DEF IInv, TypeOK, PeopleOK, HelperHasUser, FlagTellsToken, people, Windows

LEMMA ProcessKeeps ==
  ASSUME IInv, PeopleOK', HelperHasUser', FlagTellsToken',
         UNCHANGED <<sc, hook, remover, start, thread, quit, status, told, handler, missed>>,
         \/ worker' = worker
         \/ start # "none" /\ worker # "none" /\ worker' \in {"app"} \cup Windows /\ ~Ended
  PROVE  IInv'
BY DEF Windows, IInv, TypeOK, PeopleOK, StoppedAtEnd, Ended, InOrder

(* The records a status, an entry and a control are. *)
LEMMA StatusType ==
  ASSUME NEW s \in States \ {"none"}
  PROVE  /\ Status(s) \in [state : States \ {"none"}, accepts : BOOLEAN]
         /\ Status(s).state = s
BY DEF Status

LEMMA TellingType ==
  ASSUME NEW e \in Entry, NEW s \in States, NEW a \in BOOLEAN
  PROVE  Telling(e, s, a) \in Entry /\ Telling(e, s, a).state = s
BY DEF Telling, Entry

LEMMA EntriesType ==
  /\ NoEntry \in Entry /\ NoEntry.state = "none"
  /\ NewEntry \in Entry /\ NewEntry.state = "stopped"
BY DEF NoEntry, NewEntry, Entry, States

LEMMA DeletingType ==
  ASSUME NEW e \in Entry
  PROVE  Deleting(e) \in Entry /\ Deleting(e).state = e.state /\ Deleting(e).accepts = e.accepts
BY DEF Deleting, Entry

LEMMA EndingType ==
  ASSUME NEW e \in Entry
  PROVE  Ending(e) \in Entry /\ Ending(e).state = "stopped"
BY DEF Ending, Entry, States

LEMMA IdleType == Idle \in Control /\ Idle.say = "none"
BY DEF Idle, Control, States

(* What the process tells the service control manager. *)
LEMMA TellKeeps ==
  ASSUME IInv, Tell
  PROVE  /\ sc' \in Entry /\ told' \in BOOLEAN
         /\ sc'.state = status.state
<1>1. status.state \in States /\ status.accepts \in BOOLEAN
  BY DEF IInv, TypeOK
<1> QED BY <1>1, TellingType DEF IInv, TypeOK, Tell

LEMMA StartupKeeps ==
  ASSUME IInv, ServiceMain \/ SaveThread \/ Start
  PROVE  IInv'
<1>1. PeopleOK' /\ HelperHasUser' /\ FlagTellsToken'
  <2>1. UNCHANGED people /\ (worker' = worker \/ (worker \notin Windows /\ worker' \notin Windows))
    BY DEF ServiceMain, SaveThread, Start, Windows, process, IInv, InOrder
  <2> QED BY <2>1, PeopleKeep
<1>2. CASE ServiceMain
  <2>1. CASE UNCHANGED <<sc, status, told, worker>>
    BY <1>1, <1>2, <2>1 DEF PeopleOK, IInv, TypeOK, StoppedAtEnd, Ended, InOrder, ServiceMain
  <2>2. CASE \E s \in {"start_pending", "stopped"}, a \in BOOLEAN :
               status' = Status(s) /\ sc' = Telling(sc, s, a)
    <3>1. PICK s \in {"start_pending", "stopped"}, a \in BOOLEAN :
               status' = Status(s) /\ sc' = Telling(sc, s, a)
      BY <2>2
    <3>2. /\ status' \in [state : States \ {"none"}, accepts : BOOLEAN]
          /\ sc' \in Entry /\ status'.state = s /\ sc'.state = s
      <4>1. s \in States /\ s # "none"
        BY DEF States
      <4>2. /\ Status(s) \in [state : States \ {"none"}, accepts : BOOLEAN]
            /\ Status(s).state = s
        BY <4>1, StatusType
      <4>3. Telling(sc, s, a) \in Entry /\ Telling(sc, s, a).state = s
        BY <4>1, TellingType DEF IInv, TypeOK
      <4> QED BY <3>1, <4>2, <4>3
    <3>3. s = "stopped" => worker' = worker
      BY <1>2, <3>1, <3>2, StatusType DEF ServiceMain, States
    <3>4. start' = "done" /\ worker' \in {"none", "save"} /\ (s = "stopped" => worker' = "none")
      BY <1>2, <3>3 DEF ServiceMain, IInv, InOrder
    <3>5. /\ UNCHANGED <<hook, remover, thread, quit, handler, missed>>
          /\ told' \in BOOLEAN
      BY <1>2 DEF ServiceMain, IInv, TypeOK
    <3>6. TypeOK'
      BY <1>1, <3>2, <3>4, <3>5 DEF PeopleOK, IInv, TypeOK
    <3>7. worker = "none" /\ (handler.say = "stopped" => worker' = "none")
      BY <1>2, <3>4, IdleType DEF ServiceMain, IInv, InOrder
    <3> QED BY <1>1, <3>2, <3>4, <3>5, <3>6, <3>7 DEF IInv, StoppedAtEnd, Ended, InOrder, Inactive
  <2>3. CASE status' = Status("stopped") /\ UNCHANGED <<sc, told, worker>> /\ start' = "done"
    <3>1. /\ status' \in [state : States \ {"none"}, accepts : BOOLEAN]
          /\ UNCHANGED <<hook, remover, thread, quit, handler, missed>>
          /\ worker' = "none" /\ handler' = Idle
      BY <1>2, <2>3, StatusType DEF ServiceMain, States, IInv, InOrder
    <3>2. TypeOK'
      BY <1>1, <2>3, <3>1 DEF PeopleOK, IInv, TypeOK
    <3> QED BY <1>1, <2>3, <3>1, <3>2, IdleType
             DEF IInv, StoppedAtEnd, Ended, InOrder, Inactive, Idle
  <2> QED BY <1>2, <2>1, <2>2, <2>3 DEF ServiceMain
<1>3. CASE SaveThread
  <2>1. TypeOK'
    BY <1>1, <1>3 DEF PeopleOK, IInv, TypeOK, SaveThread
  <2>2. StoppedAtEnd' /\ InOrder'
    BY <1>3 DEF IInv, StoppedAtEnd, Ended, InOrder, SaveThread
  <2> QED BY <1>1, <2>1, <2>2 DEF IInv
<1>4. CASE Start
  <2>1. sc' \in Entry /\ sc'.state = "start_pending" /\ ~sc'.accepts
    BY <1>4 DEF IInv, TypeOK, Start, Starting, Entry, States
  <2>2. TypeOK'
    BY <1>1, <1>4, <2>1 DEF PeopleOK, IInv, TypeOK, Start
  <2>3. StoppedAtEnd' /\ InOrder'
    BY <1>4, <2>1 DEF IInv, TypeOK, StoppedAtEnd, Ended, InOrder, Start, Inactive
  <2> QED BY <1>1, <2>2, <2>3 DEF IInv
<1> QED BY <1>2, <1>3, <1>4

LEMMA WorkerKeeps ==
  ASSUME IInv, Assign \/ WorkerTells \/ EnterApp \/ AppQuits \/ AppLeaves \/ ClearThread
  PROVE  IInv'
<1>1. PeopleOK' /\ HelperHasUser' /\ FlagTellsToken'
  <2>1. UNCHANGED people /\ worker \notin Windows /\ worker' \notin Windows
    BY DEF Assign, WorkerTells, EnterApp, AppQuits, AppLeaves, ClearThread, Windows
  <2> QED BY <2>1, PeopleKeep
<1>2. CASE Assign
  <2>1. TypeOK'
    BY <1>1, <1>2 DEF PeopleOK, IInv, TypeOK, Assign, Status, States
  <2>2. StoppedAtEnd' /\ InOrder'
    BY <1>2 DEF IInv, TypeOK, StoppedAtEnd, Ended, InOrder, Assign, Status
  <2> QED BY <1>1, <2>1, <2>2 DEF IInv
<1>3. CASE WorkerTells
  <2>1. CASE Tell
    <3>1. sc' \in Entry /\ told' \in BOOLEAN /\ sc'.state = status.state
      BY <2>1, TellKeeps
    <3>2. TypeOK'
      BY <1>1, <1>3, <3>1 DEF PeopleOK, IInv, TypeOK, WorkerTells
    <3>3. StoppedAtEnd' /\ InOrder'
      BY <1>3, <3>1 DEF IInv, TypeOK, StoppedAtEnd, Ended, InOrder, WorkerTells, Inactive, States
    <3> QED BY <1>1, <3>2, <3>3 DEF IInv
  <2>2. CASE UNCHANGED <<sc, told>> /\ worker' = "gone"
    BY <1>1, <1>3, <2>2 DEF PeopleOK, IInv, TypeOK, StoppedAtEnd, Ended, InOrder, WorkerTells
  <2> QED BY <1>3, <2>1, <2>2 DEF WorkerTells
<1>4. CASE EnterApp \/ AppQuits \/ AppLeaves \/ ClearThread
  <2>1. /\ UNCHANGED <<sc, hook, remover, start, quit, status, told, handler, missed>>
        /\ thread' \in BOOLEAN
        /\ worker \in {"enter", "app", "clear"} /\ worker' \in {"app", "clear", "stop"}
    <3>1. CASE EnterApp
      BY <3>1 DEF EnterApp, IInv, TypeOK
    <3>2. CASE AppQuits \/ AppLeaves
      BY <3>2 DEF AppQuits, AppLeaves, IInv, TypeOK
    <3>3. CASE ClearThread
      BY <3>3 DEF ClearThread
    <3> QED BY <1>4, <3>1, <3>2, <3>3
  <2>2. start # "none" /\ start # "main"
    BY <2>1 DEF IInv, TypeOK, InOrder
  <2>3. TypeOK'
    BY <1>1, <2>1, <2>2 DEF PeopleOK, IInv, TypeOK
  <2>4. StoppedAtEnd' /\ InOrder'
    BY <2>1, <2>2 DEF IInv, StoppedAtEnd, Ended, InOrder
  <2> QED BY <1>1, <2>3, <2>4 DEF IInv
<1> QED BY <1>2, <1>3, <1>4

-----------------------------------------------------------------------------
LEMMA HandlerKeeps ==
  ASSUME IInv, HandlerStep \/ Ask
  PROVE  IInv'
<1>1. PeopleOK' /\ HelperHasUser' /\ FlagTellsToken'
  <2>1. UNCHANGED people /\ worker' = worker
    BY DEF HandlerStep, Ask, Mark, ServiceStop, Read, HandlerAssigns, HandlerTells
  <2> QED BY <2>1, PeopleKeep
<1>2. handler # Idle \/ Ask
  BY DEF HandlerStep, Mark, ServiceStop, Read, HandlerAssigns, HandlerTells, Idle
<1>3. start # "none" /\ start # "main"
  BY <1>2 DEF IInv, TypeOK, InOrder, Ask, CanAsk
<1>4. CASE Ask
  <2>1. TypeOK'
    BY <1>1, <1>3, <1>4 DEF PeopleOK, IInv, TypeOK, Ask, Control, States
  <2>2. StoppedAtEnd' /\ InOrder'
    BY <1>3, <1>4 DEF IInv, TypeOK, StoppedAtEnd, Ended, InOrder, Ask, States
  <2> QED BY <1>1, <2>1, <2>2 DEF IInv
<1>5. CASE Mark
  <2>1. TypeOK'
    BY <1>1, <1>3, <1>5 DEF PeopleOK, IInv, TypeOK, Mark, Control, States
  <2>2. StoppedAtEnd' /\ InOrder'
    BY <1>3, <1>5 DEF IInv, TypeOK, StoppedAtEnd, Ended, InOrder, Mark, States
  <2> QED BY <1>1, <2>1, <2>2 DEF IInv
<1>6. CASE ServiceStop
  <2>1. TypeOK'
    BY <1>1, <1>3, <1>6 DEF PeopleOK, IInv, TypeOK, ServiceStop, Control, States
  <2>2. StoppedAtEnd' /\ InOrder'
    BY <1>3, <1>6 DEF IInv, TypeOK, StoppedAtEnd, Ended, InOrder, ServiceStop, States
  <2> QED BY <1>1, <2>1, <2>2 DEF IInv
<1>7. CASE Read
  <2>1. TypeOK'
    BY <1>1, <1>3, <1>7 DEF PeopleOK, IInv, TypeOK, Read, Control, States
  <2>2. StoppedAtEnd' /\ InOrder'
    BY <1>3, <1>7 DEF IInv, TypeOK, StoppedAtEnd, Ended, InOrder, Read, States
  <2> QED BY <1>1, <2>1, <2>2 DEF IInv
<1>8. CASE HandlerAssigns
  <2>1. handler.say # "none"
    BY <1>8 DEF HandlerAssigns, IInv, InOrder
  <2>2. TypeOK'
    BY <1>1, <1>3, <1>8, <2>1 DEF PeopleOK, IInv, TypeOK, HandlerAssigns, Status, Control, States
  <2>3. StoppedAtEnd' /\ InOrder'
    BY <1>3, <1>8, <2>1 DEF IInv, TypeOK, StoppedAtEnd, Ended, InOrder, HandlerAssigns, Status, Control, States
  <2> QED BY <1>1, <2>2, <2>3 DEF IInv
<1>9. CASE HandlerTells
  <2>1. sc' \in Entry /\ told' \in BOOLEAN /\ sc'.state \in {status.state, sc.state}
    BY <1>9, TellKeeps DEF HandlerTells, IInv, TypeOK
  <2>2. TypeOK'
    BY <1>1, <1>3, <1>9, <2>1 DEF PeopleOK, IInv, TypeOK, HandlerTells, Control, Idle, States
  <2>3. StoppedAtEnd' /\ InOrder'
    BY <1>9, <2>1 DEF IInv, TypeOK, StoppedAtEnd, Ended, InOrder, HandlerTells, Idle, Inactive, States
  <2> QED BY <1>1, <2>2, <2>3 DEF IInv
<1> QED BY <1>4, <1>5, <1>6, <1>7, <1>8, <1>9 DEF HandlerStep

LEMMA ManagerKeeps ==
  ASSUME IInv, InstallService \/ RemoveService \/ Poll \/ PollFails \/ DeleteService \/ EntryGoes
  PROVE  IInv'
<1>1. PeopleOK' /\ HelperHasUser' /\ FlagTellsToken'
  BY PeopleKeep DEF InstallService, RemoveService, Poll, PollFails, DeleteService, EntryGoes,
                    process
<1>2. sc' \in Entry /\ (Inactive(sc') <=> Inactive(sc))
  <2>1. CASE InstallService \/ EntryGoes
    BY <2>1, EntriesType DEF IInv, TypeOK, InstallService, EntryGoes, Inactive
  <2>2. CASE DeleteService
    BY <2>2, DeletingType DEF IInv, TypeOK, DeleteService, Inactive
  <2>3. CASE RemoveService \/ Poll \/ PollFails
    BY <2>3 DEF IInv, TypeOK, RemoveService, Poll, PollFails, Inactive
  <2> QED BY <2>1, <2>2, <2>3
<1>3. CASE RemoveService
  <2>1. hook' \in BOOLEAN /\ remover' \in {"control", "delete"} /\ UNCHANGED <<sc, worker, status>>
    BY <1>3 DEF IInv, TypeOK, RemoveService
  <2>2. CASE UNCHANGED handler
    BY <1>1, <1>3, <2>1, <2>2 DEF PeopleOK, IInv, TypeOK, StoppedAtEnd, Ended, InOrder, RemoveService
  <2>3. CASE handler' = [at |-> "mark", say |-> "none"] /\ start # "none" /\ CanStop(sc)
    <3>1. handler' \in Control /\ handler'.at = "mark" /\ handler'.say = "none"
      BY <2>3 DEF Control, States
    <3>2. start # "main"
      BY <2>3 DEF IInv, InOrder, CanStop
    <3> QED BY <1>1, <1>3, <2>1, <2>3, <3>1, <3>2 DEF PeopleOK, IInv, TypeOK, StoppedAtEnd, Ended,
                                                      InOrder, RemoveService
  <2> QED BY <1>3, <2>2, <2>3 DEF RemoveService
<1>4. CASE InstallService
  <2>1. hook' \in BOOLEAN /\ UNCHANGED <<remover, process>> /\ start # "main"
    BY <1>4 DEF IInv, TypeOK, InOrder, InstallService
  <2> QED BY <1>1, <1>2, <2>1 DEF PeopleOK, IInv, TypeOK, StoppedAtEnd, Ended, InOrder, process
<1>5. CASE Poll \/ PollFails \/ DeleteService \/ EntryGoes
  <2>1. /\ UNCHANGED <<hook, process>> /\ remover' \in {"idle", "delete"}
        /\ start = "main" => sc'.state = sc.state /\ sc'.accepts = sc.accepts
    BY <1>5, DeletingType DEF Poll, PollFails, DeleteService, EntryGoes, IInv, TypeOK
  <2> QED BY <1>1, <1>2, <2>1 DEF PeopleOK, IInv, TypeOK, StoppedAtEnd, Ended, InOrder, process
<1> QED BY <1>3, <1>4, <1>5

LEMMA GoneKeeps ==
  ASSUME IInv, Gone
  PROVE  IInv'
<1>1. sc' \in Entry /\ Inactive(sc')
  BY EndingType DEF IInv, TypeOK, Gone, Inactive
<1>2. /\ status' \in [state : States \ {"none"}, accepts : BOOLEAN] /\ handler' \in Control
      /\ handler'.say = "none" /\ handler'.at = "idle"
  BY StatusType, IdleType DEF Gone, States, Idle
<1> QED BY <1>1, <1>2 DEF IInv, TypeOK, StoppedAtEnd, Ended, InOrder, HelperHasUser,
                          FlagTellsToken, Gone

(* Users come and go; the worker and the client threads change g_imper-    *)
(* sonating_user.                                                          *)
Peopled == \/ LogOff \/ Revert \/ ResetFlag \/ Impersonate \/ SetFlag
           \/ CurrentUser \/ ClientLooks \/ ClientResets
           \/ \E u \in User : LogOn(u)

LEMMA UsersKeep ==
  ASSUME IInv, Peopled
  PROVE  IInv'
<1>1. CASE LogOff \/ ClientLooks \/ ClientResets \/ \E u \in User : LogOn(u)
  <2>1. UNCHANGED <<sc, hook, remover, process>>
    BY <1>1 DEF LogOff, ClientLooks, ClientResets, LogOn
  <2>2. PeopleOK' /\ HelperHasUser' /\ FlagTellsToken'
    <3>1. CASE LogOff \/ \E u \in User : LogOn(u)
      BY <3>1, NobodyAssumption DEF IInv, TypeOK, PeopleOK, HelperHasUser, FlagTellsToken,
                                    LogOff, LogOn, process
    <3>2. CASE ClientLooks
      BY <3>2 DEF IInv, TypeOK, PeopleOK, HelperHasUser, FlagTellsToken, ClientLooks, process
    <3>3. CASE ClientResets
      BY <3>3 DEF IInv, TypeOK, PeopleOK, HelperHasUser, FlagTellsToken, ClientResets, process
    <3> QED BY <1>1, <3>1, <3>2, <3>3
  <2> QED BY <2>1, <2>2, ProcessKeeps DEF process
<1>2. CASE Revert \/ ResetFlag \/ Impersonate \/ SetFlag \/ CurrentUser
  <2>1. PeopleOK' /\ FlagTellsToken' /\ HelperHasUser'
    <3>1. CASE Revert
      BY <3>1 DEF IInv, TypeOK, PeopleOK, FlagTellsToken, HelperHasUser, Revert
    <3>2. CASE ResetFlag
      BY <3>2 DEF IInv, TypeOK, PeopleOK, FlagTellsToken, HelperHasUser, ResetFlag
    <3>3. CASE Impersonate
      BY <3>3 DEF IInv, TypeOK, PeopleOK, FlagTellsToken, HelperHasUser, Impersonate
    <3>4. CASE SetFlag
      BY <3>4 DEF IInv, TypeOK, PeopleOK, FlagTellsToken, HelperHasUser, SetFlag
    <3>5. CASE CurrentUser
      BY <3>5 DEF IInv, TypeOK, PeopleOK, FlagTellsToken, HelperHasUser, CurrentUser
    <3> QED BY <1>2, <3>1, <3>2, <3>3, <3>4, <3>5
  <2>2. /\ worker \in {"app"} \cup Windows /\ worker' \in {"app"} \cup Windows
        /\ UNCHANGED <<sc, hook, remover, start, thread, quit, status, told, handler, missed>>
    BY <1>2 DEF Revert, ResetFlag, Impersonate, SetFlag, CurrentUser, Windows
  <2>3. start # "none" /\ worker # "none" /\ ~Ended
    BY <2>2 DEF IInv, TypeOK, Ended, Windows
  <2> QED BY <2>1, <2>2, <2>3, ProcessKeeps
<1> QED BY <1>1, <1>2 DEF Peopled

-----------------------------------------------------------------------------
LEMMA InitHolds == Init => IInv
<1> SUFFICES ASSUME Init PROVE IInv
  OBVIOUS
<1>1. status.state = "stopped" /\ status \in [state : States \ {"none"}, accepts : BOOLEAN]
  BY StatusType DEF Init, States
<1>2. TypeOK
  BY <1>1, EntriesType, IdleType DEF Init, TypeOK, Inactive
<1> QED BY <1>1, <1>2, IdleType DEF Init, IInv, StoppedAtEnd, Ended, InOrder, HelperHasUser,
                                 FlagTellsToken, Idle

LEMMA NextKeeps == IInv /\ [Next]_vars => IInv'
<1> SUFFICES ASSUME IInv, [Next]_vars PROVE IInv'
  OBVIOUS
<1>1. CASE ServiceMain \/ SaveThread \/ Start
  BY <1>1, StartupKeeps
<1>2. CASE Assign \/ WorkerTells \/ EnterApp \/ AppQuits \/ AppLeaves \/ ClearThread
  BY <1>2, WorkerKeeps
<1>3. CASE HandlerStep \/ Ask
  BY <1>3, HandlerKeeps
<1>4. CASE InstallService \/ RemoveService \/ Poll \/ PollFails \/ DeleteService \/ EntryGoes
  BY <1>4, ManagerKeeps
<1>5. CASE Exit \/ Crash
  BY <1>5, GoneKeeps DEF Exit, Crash
<1>6. CASE Peopled
  BY <1>6, UsersKeep
<1>7. CASE UNCHANGED vars
  BY <1>7 DEF vars, IInv, TypeOK, StoppedAtEnd, Ended, InOrder, HelperHasUser, FlagTellsToken
<1> QED BY <1>1, <1>2, <1>3, <1>4, <1>5, <1>6, <1>7 DEF Next, WorkerStep, Peopled

LEMMA Inductive == Spec => []IInv
BY InitHolds, NextKeeps, PTL DEF Spec

(* Without a process of the service nothing of it is left, whoever else    *)
(* installs, removes, logs on and off.                                     *)
THEOREM TypeCorrect == Spec => []TypeOK
<1>1. IInv => TypeOK
  BY DEF IInv
<1> QED BY <1>1, Inductive, PTL

(* While the app is running, nothing that the handler and the worker write *)
(* over each other's status makes the service "stopped", whatever report   *)
(* of it fails.                                                            *)
THEOREM NeverStoppedTooEarly == Spec => []StoppedMeansGone
<1>1. IInv => StoppedMeansGone
  BY DEF IInv, StoppedAtEnd, Ended, StoppedMeansGone, InApp
<1> QED BY <1>1, Inductive, PTL

(* For any users, g_impersonating_user and the worker's token disagree     *)
(* only between the two statements that change them, or after a client's   *)
(* thread has reset the flag from under the worker.                        *)
THEOREM FlagNeverLies == Spec => []FlagTellsToken
<1>1. IInv => FlagTellsToken
  BY DEF IInv
<1> QED BY <1>1, Inductive, PTL
=============================================================================
