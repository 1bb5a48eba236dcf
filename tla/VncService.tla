----------------------------- MODULE VncService -----------------------------
(***************************************************************************)
(* vncService.cpp on Windows NT: the VNC server as a service that starts,  *)
(* is stopped by a control and is removed, and the user it acts for.       *)
(*                                                                         *)
(* Three threads of its process meet in g_srvstatus, g_servicethread and   *)
(* g_impersonating_user: ServiceMain, the worker thread that runs          *)
(* WinVNCAppMain (external), and the dispatcher, which runs ServiceCtrl; a *)
(* client's thread calls CurrentUser too.  Installing and removing are     *)
(* done by another process.  What only shows a message or returns a value  *)
(* nobody looks at is left out.                                            *)
(***************************************************************************)
EXTENDS ScManager

CONSTANTS
  User,     (* people who log on                                             *)
  Nobody    (* no user: nobody logged on, nobody impersonated                *)

ASSUME NobodyAssumption == Nobody \notin User

VARIABLES
  sc,        (* the entry at the service control manager                     *)
  hook,      (* is the service helper started when a user logs on?           *)
  remover,   (* where RemoveService is                                       *)
  start,     (* where ServiceMain is; "none" when there is no process        *)
  worker,    (* where ServiceWorkThread is                                   *)
  thread,    (* g_servicethread # NULL                                       *)
  quit,      (* has WM_QUIT been posted to the worker?                       *)
  status,    (* g_srvstatus: the state and whether a stop is accepted        *)
  told,      (* has the service control manager heard "stopped"?             *)
  handler,   (* the control ServiceCtrl is in                                *)
  missed,    (* history: was WM_QUIT posted to a thread without a queue?     *)
  logged,    (* external: the user that is logged on                         *)
  helper,    (* the user whose helper message waits for the worker           *)
  token,     (* the user the worker impersonates; client threads never do    *)
  flag,      (* g_impersonating_user                                         *)
  clearing,  (* is a client's thread about to reset g_impersonating_user?    *)
  cleared    (* history: has one reset it since the worker set it?           *)

process == <<start, worker, thread, quit, status, told, handler, missed>>
people  == <<logged, helper, token, flag, clearing, cleared>>
vars    == <<sc, hook, remover, start, worker, thread, quit, status, told, handler,
             missed, logged, helper, token, flag, clearing, cleared>>

Control == [at : {"idle", "mark", "post", "read", "assign", "tell"}, say : States]
Idle    == [at |-> "idle", say |-> "none"]

(* ReportStatus: a service that is starting accepts no control.            *)
Status(s) == [state |-> s, accepts |-> s # "start_pending"]

(* SetServiceStatus succeeds. *)
Tell == /\ sc' = Telling(sc, status.state, status.accepts)
        /\ told' = (told \/ status.state = "stopped")

(* The worker is in WinVNCAppMain and has its windows: in its message loop,*)
(* in ProcessUserHelperMessage, about to reset g_impersonating_user,       *)
(* without the identity of a user and with a new one, or in CurrentUser.   *)
InApp == worker \in {"app", "reverted", "helper", "impersonated", "self"}

(* The app has a message queue from its first window on.                   *)
HasQueue == InApp \/ worker \in {"clear", "stop", "stop_tell"}

-----------------------------------------------------------------------------
(* ServiceMain.                                                            *)

(* Register the handler and tell that the service is starting.  If either  *)
(* fails ServiceMain returns, in the second case having tried to tell that *)
(* the service has stopped, which may fail too.                            *)
ServiceMain ==
  /\ start = "main"
  /\ \/ start' = "done" /\ UNCHANGED <<sc, status, told, worker>>
     \/ /\ status' = Status("start_pending")
        /\ sc' = Telling(sc, "start_pending", FALSE)
        /\ start' = "done" /\ worker' = "save"
        /\ UNCHANGED told
     \/ /\ status' = Status("stopped")
        /\ \/ sc' = Telling(sc, "stopped", TRUE) /\ told' = TRUE
           \/ UNCHANGED <<sc, told>>
        /\ start' = "done"
        /\ UNCHANGED worker
  /\ UNCHANGED <<hook, remover, thread, quit, handler, missed, people>>

-----------------------------------------------------------------------------
(* ServiceWorkThread.                                                      *)

(* Mutant: the thread is not saved.                                        *)
SaveThread_Not ==
  /\ worker = "save"
  /\ worker' = "run"
  /\ UNCHANGED <<sc, hook, remover, start, thread, quit, status, told, handler, missed, people>>

SaveThread ==
  /\ worker = "save"
  /\ thread' = TRUE
  /\ worker' = "run"
  /\ UNCHANGED <<sc, hook, remover, start, quit, status, told, handler, missed, people>>

(* ReportStatus, "running" and "stopped".                                  *)
Assign ==
  /\ worker \in {"run", "stop"}
  /\ status' = Status(IF worker = "run" THEN "running" ELSE "stopped")
  /\ worker' = IF worker = "run" THEN "run_tell" ELSE "stop_tell"
  /\ UNCHANGED <<sc, hook, remover, start, thread, quit, told, handler, missed, people>>

(* The worker returns if "running" cannot be told, and with "stopped"      *)
(* whether it could be told or not.                                        *)
WorkerTells ==
  /\ worker \in {"run_tell", "stop_tell"}
  /\ \/ Tell /\ worker' = IF worker = "run_tell" THEN "enter" ELSE "gone"
     \/ worker' = "gone" /\ UNCHANGED <<sc, told>>
  /\ UNCHANGED <<hook, remover, start, thread, quit, status, handler, missed, people>>

(* WinVNCAppMain makes its windows, runs and returns, on WM_QUIT or for    *)
(* reasons of its own.                                                     *)
EnterApp ==
  /\ worker = "enter"
  /\ worker' \in {"app", "clear"}
  /\ UNCHANGED <<sc, hook, remover, start, thread, quit, status, told, handler, missed, people>>

AppQuits ==
  /\ worker = "app" /\ quit
  /\ worker' = "clear"
  /\ UNCHANGED <<sc, hook, remover, start, thread, quit, status, told, handler, missed, people>>

AppLeaves ==
  /\ worker = "app"
  /\ worker' = "clear"
  /\ UNCHANGED <<sc, hook, remover, start, thread, quit, status, told, handler, missed, people>>

ClearThread ==
  /\ worker = "clear"
  /\ thread' = FALSE
  /\ worker' = "stop"
  /\ UNCHANGED <<sc, hook, remover, start, quit, status, told, handler, missed, people>>

-----------------------------------------------------------------------------
(* ServiceCtrl, in the dispatcher's thread.                                *)

(* SERVICE_CONTROL_INTERROGATE, or a control that is not recognised.       *)
Ask ==
  /\ CanAsk(sc) /\ handler = Idle /\ start # "none"
  /\ handler' = [at |-> "read", say |-> "none"]
  /\ UNCHANGED <<sc, hook, remover, start, worker, thread, quit, status, told, missed, people>>

(* Mutant: a stop is reported as done at once.                             *)
Mark_Stopped ==
  /\ handler.at = "mark"
  /\ status' = [status EXCEPT !.state = "stopped"]
  /\ handler' = [handler EXCEPT !.at = "post"]
  /\ UNCHANGED <<sc, hook, remover, start, worker, thread, quit, told, missed, people>>

(* A stop: dwCurrentState is assigned ...                                  *)
Mark ==
  /\ handler.at = "mark"
  /\ status' = [status EXCEPT !.state = "stop_pending"]
  /\ handler' = [handler EXCEPT !.at = "post"]
  /\ UNCHANGED <<sc, hook, remover, start, worker, thread, quit, told, missed, people>>

(* Mutant: the state is reported before it has been read.                  *)
ServiceStop_Unread ==
  /\ handler.at = "post"
  /\ quit' = (quit \/ (thread /\ HasQueue))
  /\ missed' = (missed \/ (thread /\ ~HasQueue))
  /\ handler' = [handler EXCEPT !.at = "assign"]
  /\ UNCHANGED <<sc, hook, remover, start, worker, thread, status, told, people>>

(* ... and ServiceStop posts WM_QUIT, which needs a message queue.         *)
ServiceStop ==
  /\ handler.at = "post"
  /\ quit' = (quit \/ (thread /\ HasQueue))
  /\ missed' = (missed \/ (thread /\ ~HasQueue))
  /\ handler' = [handler EXCEPT !.at = "read"]
  /\ UNCHANGED <<sc, hook, remover, start, worker, thread, status, told, people>>

(* The state is read, given to ReportStatus, assigned and told.            *)
Read ==
  /\ handler.at = "read"
  /\ handler' = [at |-> "assign", say |-> status.state]
  /\ UNCHANGED <<sc, hook, remover, start, worker, thread, quit, status, told, missed, people>>

HandlerAssigns ==
  /\ handler.at = "assign"
  /\ status' = Status(handler.say)
  /\ handler' = [handler EXCEPT !.at = "tell"]
  /\ UNCHANGED <<sc, hook, remover, start, worker, thread, quit, told, missed, people>>

(* Nobody looks whether it could be told. *)
HandlerTells ==
  /\ handler.at = "tell"
  /\ Tell \/ UNCHANGED <<sc, told>>
  /\ handler' = Idle
  /\ remover' = IF remover = "control" THEN "poll" ELSE remover
  /\ UNCHANGED <<hook, start, worker, thread, quit, status, missed, people>>

-----------------------------------------------------------------------------
(* InstallService and RemoveService, and the process.                      *)

(* The entry at the service control manager, then the helper's entry in    *)
(* the registry, which may fail.                                           *)
InstallService ==
  /\ sc.state = "none"
  /\ sc' = NewEntry
  /\ hook' \in {hook, TRUE}
  /\ UNCHANGED <<remover, process, people>>

(* The helper's entry is deleted, which may fail, and the service told to  *)
(* stop; if that is refused it is deleted at once.                         *)
RemoveService ==
  /\ remover = "idle" /\ sc.state # "none"
  /\ hook' \in {hook, FALSE}
  /\ IF CanStop(sc)
     THEN /\ handler = Idle /\ start # "none"
          /\ handler' = [at |-> "mark", say |-> "none"]
          /\ remover' = "control"
     ELSE remover' = "delete" /\ UNCHANGED handler
  /\ UNCHANGED <<sc, start, worker, thread, quit, status, told, missed, people>>

(* It polls while the stop is pending. *)
Poll ==
  /\ remover = "poll" /\ sc.state # "stop_pending"
  /\ remover' = "delete"
  /\ UNCHANGED <<sc, hook, process, people>>

(* Asking for the status fails, which ends the loop. *)
PollFails ==
  /\ remover = "poll"
  /\ remover' = "delete"
  /\ UNCHANGED <<sc, hook, process, people>>

DeleteService ==
  /\ remover = "delete"
  /\ sc' = Deleting(sc)
  /\ remover' = "idle"
  /\ UNCHANGED <<hook, process, people>>

EntryGoes ==
  /\ sc.marked /\ sc.state = "stopped" /\ start = "none" /\ remover = "idle"
  /\ sc' = NoEntry
  /\ UNCHANGED <<hook, remover, process, people>>

(* Somebody starts the service. *)
Start ==
  /\ CanStart(sc) /\ start = "none"
  /\ sc' = Starting(sc)
  /\ start' = "main"
  /\ UNCHANGED <<hook, remover, worker, thread, quit, status, told, handler, missed, people>>

Gone ==
  /\ start' = "none" /\ worker' = "none" /\ thread' = FALSE /\ quit' = FALSE
  /\ status' = Status("stopped") /\ told' = FALSE /\ handler' = Idle /\ missed' = FALSE
  /\ helper' = Nobody /\ token' = Nobody /\ flag' = FALSE
  /\ clearing' = FALSE /\ cleared' = FALSE
  /\ sc' = Ending(sc)
  /\ remover' = IF remover = "control" THEN "delete" ELSE remover
  /\ UNCHANGED <<hook, logged>>

(* The dispatcher returns once "stopped" was told, and so does the program.*)
Exit == start = "done" /\ worker \in {"none", "gone"} /\ told /\ handler = Idle /\ Gone

Crash == start # "none" /\ Gone

-----------------------------------------------------------------------------
(* The user the service acts for.                                          *)

(* A user logs on; the helper posts its message, if it is started and      *)
(* finds the window of the app (PostUserHelperMessage), or logs off.       *)
LogOn(u) ==
  /\ logged = Nobody
  /\ logged' = u
  /\ helper' = IF hook /\ InApp THEN u ELSE helper
  /\ UNCHANGED <<sc, hook, remover, process, token, flag, clearing, cleared>>

LogOff ==
  /\ logged # Nobody
  /\ logged' = Nobody
  /\ UNCHANGED <<sc, hook, remover, process, helper, token, flag, clearing, cleared>>

(* ProcessUserHelperMessage: the registry key of the last user is closed,  *)
(* or the message is dropped; the worker reverts to itself ...             *)
Revert ==
  /\ worker = "app" /\ helper # Nobody
  /\ \/ helper' = Nobody /\ UNCHANGED <<worker, token>>
     \/ worker' = "reverted" /\ token' = Nobody /\ UNCHANGED helper
  /\ UNCHANGED <<sc, hook, remover, start, thread, quit, status, told, handler, missed,
                 logged, flag, clearing, cleared>>

(* Mutant: the flag is left as it was when the worker reverts.             *)
ResetFlag_Not ==
  /\ worker \in {"reverted", "self"}
  /\ worker' = IF worker = "reverted" THEN "helper" ELSE "app"
  /\ UNCHANGED <<sc, hook, remover, start, thread, quit, status, told, handler, missed, people>>

(* ... resets the flag, here as in CurrentUser in a statement of its own   *)
(* that other threads can come before ...                                  *)
ResetFlag ==
  /\ worker \in {"reverted", "self"}
  /\ flag' = FALSE
  /\ worker' = IF worker = "reverted" THEN "helper" ELSE "app"
  /\ UNCHANGED <<sc, hook, remover, start, thread, quit, status, told, handler, missed,
                 logged, helper, token, clearing, cleared>>

(* ... takes the token of the helper's user, unless the helper is gone by  *)
(* then, or its token not to be had ...                                    *)
Impersonate ==
  /\ worker = "helper"
  /\ helper' = Nobody
  /\ \/ worker' = "impersonated" /\ token' = helper
     \/ worker' = "app" /\ UNCHANGED token
  /\ UNCHANGED <<sc, hook, remover, start, thread, quit, status, told, handler, missed,
                 logged, flag, clearing, cleared>>

(* ... and sets the flag. *)
SetFlag ==
  /\ worker = "impersonated"
  /\ flag' = TRUE /\ cleared' = FALSE
  /\ worker' = "app"
  /\ UNCHANGED <<sc, hook, remover, start, thread, quit, status, told, handler, missed,
                 logged, helper, token, clearing>>

(* CurrentUser: with nobody logged on the calling thread reverts to itself *)
(* and then resets the flag.  The worker calls it ...                      *)
CurrentUser ==
  /\ worker = "app" /\ logged = Nobody
  /\ worker' = "self" /\ token' = Nobody
  /\ UNCHANGED <<sc, hook, remover, start, thread, quit, status, told, handler, missed,
                 logged, helper, flag, clearing, cleared>>

(* ... and so do the threads of clients, which have no user's token: they  *)
(* find nobody logged on, whatever has become of that when they reset the  *)
(* flag.                                                                   *)
ClientLooks ==
  /\ InApp /\ logged = Nobody
  /\ clearing' = TRUE
  /\ UNCHANGED <<sc, hook, remover, process, logged, helper, token, flag, cleared>>

(* There may be more of them. *)
ClientResets ==
  /\ clearing
  /\ flag' = FALSE /\ cleared' = TRUE
  /\ clearing' \in BOOLEAN
  /\ UNCHANGED <<sc, hook, remover, process, logged, helper, token>>

-----------------------------------------------------------------------------
Init ==
  /\ sc = NoEntry /\ hook = FALSE /\ remover = "idle"
  /\ start = "none" /\ worker = "none" /\ thread = FALSE /\ quit = FALSE
  /\ status = Status("stopped") /\ told = FALSE /\ handler = Idle /\ missed = FALSE
  /\ logged = Nobody /\ helper = Nobody
  /\ token = Nobody /\ flag = FALSE /\ clearing = FALSE /\ cleared = FALSE

WorkerStep == SaveThread \/ Assign \/ WorkerTells \/ EnterApp \/ AppQuits \/ ClearThread
              \/ Revert \/ ResetFlag \/ Impersonate \/ SetFlag

HandlerStep == Mark \/ ServiceStop \/ Read \/ HandlerAssigns \/ HandlerTells

Next ==
  \/ ServiceMain \/ WorkerStep \/ AppLeaves \/ HandlerStep \/ Ask
  \/ InstallService \/ RemoveService \/ Poll \/ PollFails \/ DeleteService \/ EntryGoes
  \/ Start \/ Exit \/ Crash
  \/ LogOff \/ \E u \in User : LogOn(u)
  \/ CurrentUser \/ ClientLooks \/ ClientResets

(* Threads run, the app does what WM_QUIT asks for, and RemoveService goes *)
(* on; nothing else has to happen.                                         *)
Fairness ==
  /\ WF_vars(ServiceMain) /\ WF_vars(WorkerStep) /\ WF_vars(HandlerStep) /\ WF_vars(Exit)
  /\ SF_vars(AppQuits)
  /\ WF_vars(Poll) /\ WF_vars(DeleteService)

Spec == Init /\ [][Next]_vars /\ Fairness

-----------------------------------------------------------------------------
(* Properties.                                                             *)

(* Every variable has its type, and without a process nothing of it is     *)
(* left.                                                                   *)
TypeOK ==
  /\ sc \in Entry
  /\ hook \in BOOLEAN
  /\ remover \in {"idle", "control", "poll", "delete"}
  /\ start \in {"none", "main", "done"}
  /\ worker \in {"none", "save", "run", "run_tell", "enter", "app", "reverted", "helper",
                 "impersonated", "self", "clear", "stop", "stop_tell", "gone"}
  /\ thread \in BOOLEAN /\ quit \in BOOLEAN /\ told \in BOOLEAN /\ missed \in BOOLEAN
  /\ status \in [state : States \ {"none"}, accepts : BOOLEAN]
  /\ handler \in Control
  /\ logged \in User \cup {Nobody} /\ helper \in User \cup {Nobody}
  /\ token \in User \cup {Nobody}
  /\ flag \in BOOLEAN /\ clearing \in BOOLEAN /\ cleared \in BOOLEAN
  /\ start = "none" => worker = "none" /\ handler = Idle /\ Inactive(sc)

(* While the service control manager says that the service is stopped, the *)
(* VNC server is not running, although the handler and the worker write    *)
(* over each other's g_srvstatus: who waits for "stopped" does not come    *)
(* back too early.                                                         *)
StoppedMeansGone == Inactive(sc) => ~InApp /\ worker \notin {"enter", "clear"}

(* g_impersonating_user is set while the worker acts as the system only in *)
(* the moment between RevertToSelf and the assignment after it.  It is not *)
(* set while the worker acts for a user only in the moment after it has    *)
(* become him, or when a client's thread that has found nobody logged on   *)
(* has reset it from under the worker.                                     *)
FlagTellsToken ==
  /\ flag /\ token = Nobody => worker \in {"reverted", "self"}
  /\ ~flag /\ token # Nobody => worker = "impersonated" \/ cleared

(* The worker is gone, but the handler's report has overwritten its own,   *)
(* or its own could not be told.                                           *)
Untold == worker = "gone" /\ ~told

(* RemoveService comes to an end, but for three ways in which the code     *)
(* lets a stop get lost: it comes before the worker has a message queue,   *)
(* ServiceCtrl writes "stop pending" over the worker's "stopped", or the   *)
(* service control manager cannot be told "stopped".                       *)
RemoveReturns == []<>(remover \in {"idle", "delete"} \/ missed \/ Untold)

(* What ServiceCtrl says of SERVICE_CONTROL_STOP, "The service must stop". *)
StopStops == (handler.at = "mark") ~> Inactive(sc)
=============================================================================
