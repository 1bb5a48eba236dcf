----------------------------- MODULE WinService -----------------------------
(***************************************************************************)
(* The Windows service of service_nt.c, which puts our filter driver on    *)
(* every USB device, and the installer processes that create, start, stop  *)
(* and delete it (service.c) and take the filter off again (nsis.c).  They *)
(* meet in the service control manager and in the lists of FilterRegistry. *)
(*                                                                         *)
(* The service process has two threads: main, and the dispatcher, which    *)
(* runs the control handler.  They share service_status, whose assignment  *)
(* and whose reading by SetServiceStatus are steps of their own, and the   *)
(* event.  What acqd_start_service and the others return is not looked at  *)
(* by their callers and is left out, and so is a call that changes nothing.*)
(***************************************************************************)
EXTENDS FilterRegistry, ScManager

CONSTANTS
  Installer,  (* processes of the installer, each in one command at a time   *)
  Service     (* the process of the service, among those that edit lists     *)

ASSUME ProcAssumption == Proc = Installer \cup {Service} /\ Service \notin Installer

VARIABLES
  sc,          (* the entry of the service at the service control manager    *)
  main,        (* where main is; "none" when there is no process             *)
  status,      (* service_status.dwCurrentState                              *)
  event,       (* service_stop_event: "null", "clear", "set" or "closed"     *)
  told,        (* has the service control manager heard "stopped"?           *)
  handler,     (* the control the dispatcher is in                           *)
  pc,          (* where each installer is                                    *)
  quiet,       (* history: sweeps with no service and no failing call        *)
  swept        (* history: such a sweep is over, and no service since        *)

service == <<sc, main, status, event, told, handler>>
vars == <<filters, present, pass, spoilt, sc, main, status, event, told, handler, pc, quiet, swept>>

MainAt == {"none", "main", "create", "first", "run", "run_tell", "wait", "scan",
           "stop", "stop_tell", "returned"}

(* A stop, or any other control, which tells the status again; say is what *)
(* the handler is about to assign to dwCurrentState.                       *)
Control == [at : {"idle", "assign", "tell", "signal"}, stop : BOOLEAN, say : States]
Idle    == [at |-> "idle", stop |-> FALSE, say |-> "none"]

Goto(i, l) == pc' = [pc EXCEPT ![i] = l]

(* SetServiceStatus; every status accepts a stop. *)
Tell == /\ sc' = Telling(sc, status, TRUE)
        /\ told' = (told \/ status = "stopped")

-----------------------------------------------------------------------------
(* main: acqd_service_main and acqd_service_run.                           *)

(* The control handler is registered and "start pending" told; without a   *)
(* handler main returns and nothing is told.                               *)
Main ==
  /\ main = "main"
  /\ \/ main' = "create" /\ sc' = Telling(sc, "start_pending", TRUE)
     \/ main' = "returned" /\ UNCHANGED sc
  /\ UNCHANGED <<registry, status, event, told, handler, pc, quiet, swept>>

CreateEvent ==
  /\ main = "create"
  /\ \/ main' = "first" /\ event' = "clear" /\ Scan(Service, "install")
     \/ main' = "stop" /\ UNCHANGED <<event, pass>>
  /\ UNCHANGED <<filters, present, spoilt, sc, status, told, handler, pc, quiet, swept>>

(* acqd_service_start_filter has returned. *)
Scanned ==
  /\ main \in {"first", "scan"} /\ PassOver(Service)
  /\ main' = IF main = "first" THEN "run" ELSE "wait"
  /\ pass' = [pass EXCEPT ![Service] = NoPass]
  /\ UNCHANGED <<filters, present, spoilt, sc, status, event, told, handler, pc, quiet, swept>>

(* acqd_service_set_status, "running" and "stopped".                       *)
Assign ==
  /\ main \in {"run", "stop"}
  /\ status' = IF main = "run" THEN "running" ELSE "stopped"
  /\ main' = IF main = "run" THEN "run_tell" ELSE "stop_tell"
  /\ UNCHANGED <<registry, sc, event, told, handler, pc, quiet, swept>>

MainTells ==
  /\ main \in {"run_tell", "stop_tell"}
  /\ Tell
  /\ main' = IF main = "run_tell" THEN "wait" ELSE "returned"
  /\ UNCHANGED <<registry, status, event, handler, pc, quiet, swept>>

(* WaitForSingleObject: the event is set, or a second has gone by.         *)
Wait ==
  /\ main = "wait"
  /\ IF event = "set"
     THEN main' = "stop" /\ event' = "closed" /\ UNCHANGED pass
     ELSE main' = "scan" /\ Scan(Service, "install") /\ UNCHANGED event
  /\ UNCHANGED <<filters, present, spoilt, sc, status, told, handler, pc, quiet, swept>>

(* Without a process: what the service control manager makes of its end.   *)
(* An installer whose control is being handled gets an error.              *)
Gone ==
  /\ main' = "none" /\ status' = "stopped" /\ event' = "null" /\ told' = FALSE
  /\ sc' = Ending(sc) /\ handler' = Idle
  /\ pass' = [pass EXCEPT ![Service] = NoPass] /\ spoilt' = spoilt \ {Service}
  /\ pc' = [i \in Installer |-> IF pc[i] = "control" THEN "idle" ELSE pc[i]]
  /\ UNCHANGED <<filters, present, quiet, swept>>

(* The dispatcher returns once "stopped" was told, and so does the program.*)
Exit == main = "returned" /\ told /\ handler = Idle /\ Gone

Crash == main # "none" /\ Gone

-----------------------------------------------------------------------------
(* acqd_service_control, in the dispatcher's thread.                       *)

(* A control other than a stop, from whatever program.                     *)
Ask ==
  /\ CanAsk(sc) /\ handler = Idle /\ main # "none"
  /\ handler' = [at |-> "assign", stop |-> FALSE, say |-> status]
  /\ UNCHANGED <<registry, sc, main, status, event, told, pc, quiet, swept>>

HandlerAssigns ==
  /\ handler.at = "assign"
  /\ status' = handler.say
  /\ handler' = [handler EXCEPT !.at = "tell"]
  /\ UNCHANGED <<registry, sc, main, event, told, pc, quiet, swept>>

HandlerTells ==
  /\ handler.at = "tell"
  /\ Tell
  /\ handler' = IF handler.stop THEN [handler EXCEPT !.at = "signal"] ELSE Idle
  /\ UNCHANGED <<registry, main, status, event, pc, quiet, swept>>

(* Mutant: the event is set only if the service has been told to run.      *)
Signal_IfRunning ==
  /\ handler.at = "signal"
  /\ event' = IF event = "clear" /\ status = "running" THEN "set" ELSE event
  /\ handler' = Idle
  /\ pc' = [i \in Installer |-> IF pc[i] = "control" THEN "stop_poll" ELSE pc[i]]
  /\ UNCHANGED <<registry, sc, main, status, told, quiet, swept>>

(* SetEvent, if there is an event; ControlService returns to the installer.*)
Signal ==
  /\ handler.at = "signal"
  /\ event' = IF event = "clear" THEN "set" ELSE event
  /\ handler' = Idle
  /\ pc' = [i \in Installer |-> IF pc[i] = "control" THEN "stop_poll" ELSE pc[i]]
  /\ UNCHANGED <<registry, sc, main, status, told, quiet, swept>>

-----------------------------------------------------------------------------
(* The commands of the installer.                                          *)

(* acqd_create_service makes an entry, unless there is one. *)
Create(i) ==
  /\ pc[i] = "idle" /\ sc.state = "none"
  /\ sc' = NewEntry
  /\ UNCHANGED <<registry, main, status, event, told, handler, pc, quiet, swept>>

(* acqd_delete_service *)
Delete(i) ==
  /\ pc[i] = "idle" /\ sc.state # "none"
  /\ sc' = Deleting(sc)
  /\ UNCHANGED <<registry, main, status, event, told, handler, pc, quiet, swept>>

(* A deleted entry goes when the service is stopped and nobody polls it.   *)
EntryGoes ==
  /\ sc.marked /\ sc.state = "stopped" /\ main = "none"
  /\ \A i \in Installer : pc[i] = "idle" \/ pc[i] = "sweep" \/ pc[i] = "composite"
  /\ sc' = NoEntry
  /\ UNCHANGED <<registry, main, status, event, told, handler, pc, quiet, swept>>

(* acqd_start_service, until StartService has made the process.            *)
Start(i) ==
  /\ pc[i] = "idle" /\ CanStart(sc) /\ main = "none"
  /\ sc' = Starting(sc)
  /\ main' = "main" /\ status' = "start_pending"
  /\ Goto(i, "start_poll")
  /\ quiet' = {} /\ swept' = FALSE
  /\ UNCHANGED <<registry, event, told, handler>>

(* Mutant: a stop is told as done as soon as it is under way.              *)
Stop_Early(i) ==
  /\ pc[i] = "idle" /\ CanStop(sc) /\ handler = Idle /\ main # "none"
  /\ handler' = [at |-> "assign", stop |-> TRUE, say |-> "stopped"]
  /\ Goto(i, "control")
  /\ UNCHANGED <<registry, sc, main, status, event, told, quiet, swept>>

(* acqd_stop_service, until ControlService has got the control through to  *)
(* the dispatcher; one control is handled at a time.                       *)
Stop(i) ==
  /\ pc[i] = "idle" /\ CanStop(sc) /\ handler = Idle /\ main # "none"
  /\ handler' = [at |-> "assign", stop |-> TRUE, say |-> "stop_pending"]
  /\ Goto(i, "control")
  /\ UNCHANGED <<registry, sc, main, status, event, told, quiet, swept>>

(* The loops after that: they poll the status twice a second until it is   *)
(* the one asked for.  wait is set to 0 in every round, so that it is 500  *)
(* when it is compared with 20000.                                         *)
PollSees(i) ==
  /\ \/ pc[i] = "start_poll" /\ sc.state = "running"
     \/ pc[i] = "stop_poll" /\ sc.state = "stopped"
  /\ Goto(i, "idle")
  /\ UNCHANGED <<registry, sc, main, status, event, told, handler, quiet, swept>>

(* Asking for the status fails, which ends the loop.                       *)
PollFails(i) ==
  /\ pc[i] \in {"start_poll", "stop_poll"}
  /\ Goto(i, "idle")
  /\ UNCHANGED <<registry, sc, main, status, event, told, handler, quiet, swept>>

(* stop_kernel_service and install_composite_filter: a pass over all       *)
(* devices.                                                                *)
Sweep(i, j) ==
  /\ pc[i] = "idle"
  /\ Scan(i, j)
  /\ Goto(i, j)
  /\ quiet' = IF j = "sweep" /\ Inactive(sc) /\ pass'[i].todo = Wanted(j)
              THEN quiet \cup {i} ELSE quiet
  /\ UNCHANGED <<filters, present, spoilt, sc, main, status, event, told, handler, swept>>

SweepOver(i) ==
  /\ pc[i] \in {"sweep", "composite"} /\ PassOver(i)
  /\ pass' = [pass EXCEPT ![i] = NoPass]
  /\ Goto(i, "idle")
  /\ swept' = (swept \/ i \in quiet)
  /\ quiet' = quiet \ {i}
  /\ UNCHANGED <<filters, present, spoilt, sc, main, status, event, told, handler>>

-----------------------------------------------------------------------------
Init ==
  /\ RegistryInit
  /\ sc = NoEntry
  /\ main = "none" /\ status = "stopped" /\ event = "null" /\ told = FALSE
  /\ handler = Idle
  /\ pc = [i \in Installer |-> "idle"]
  /\ quiet = {} /\ swept = FALSE

MainStep == Main \/ CreateEvent \/ Scanned \/ Assign \/ MainTells \/ Wait

HandlerStep == HandlerAssigns \/ HandlerTells \/ Signal

PassStep(p) ==
  \/ (Visit(p) \/ Write(p)) /\ UNCHANGED <<service, pc, quiet, swept>>
  \/ (WriteFails(p) \/ ReadFails(p)) /\ quiet' = quiet \ {p} /\ UNCHANGED <<service, pc, swept>>

Command(i) ==
  \/ Create(i) \/ Delete(i) \/ Start(i) \/ Stop(i) \/ PollSees(i) \/ PollFails(i)
  \/ SweepOver(i) \/ \E j \in {"sweep", "composite"} : Sweep(i, j)

Next ==
  \/ MainStep \/ HandlerStep \/ Exit \/ Crash \/ Ask \/ EntryGoes
  \/ \E p \in Proc : PassStep(p)
  \/ \E i \in Installer : Command(i)
  \/ \E d \in Device : (Plug(d) \/ OthersEdit(d)) /\ UNCHANGED <<service, pc, quiet, swept>>

(* The two threads of the program run, with or without installers that do. *)
MainThread == MainStep \/ PassStep(Service)
Dispatcher == HandlerStep \/ Exit

Spec == Init /\ [][Next]_vars /\ WF_vars(MainThread) /\ WF_vars(Dispatcher)

(* Installers run, too, and a poll that finds what it looks for long enough*)
(* sees it.  Nobody has to give a command, and a status can always be had. *)
Continues(i) == PassStep(i) \/ PollSees(i) \/ SweepOver(i)

PollingSpec == Spec /\ \A i \in Installer : WF_vars(Continues(i))

-----------------------------------------------------------------------------
(* Properties.                                                             *)

(* Every variable has its type, and what the two threads of the service    *)
(* hold fits where main is.                                                *)
TypeOK ==
  /\ RegistryTypeOK
  /\ sc \in Entry
  /\ main \in MainAt
  /\ status \in States \ {"none"}
  /\ event \in {"null", "clear", "set", "closed"}
  /\ told \in BOOLEAN
  /\ handler \in Control
  /\ pc \in [Installer -> {"idle", "start_poll", "control", "stop_poll", "sweep", "composite"}]
  /\ quiet \subseteq Installer
  /\ swept \in BOOLEAN
  /\ main = "none" => handler = Idle /\ event = "null" /\ Inactive(sc)

(* While the service control manager says that the service is stopped, or  *)
(* knows of none, the service puts no filter on any device: what asks for  *)
(* a stop and sees "stopped" can rely on it.                               *)
QuietWhenStopped == Inactive(sc) => pass[Service] = NoPass

(* An uninstall, which stops the service and then takes the filter off     *)
(* every device, leaves it on none, plugged in or not, but on those that   *)
(* are driven by our stub; until the service is started again.             *)
CleanAfterUninstall ==
  swept => \A d \in Device : Wants("sweep", d) => ~Has(filters[d])

(* A stop that gets through to a service that says it is running makes its *)
(* main return, unless for ever installers take off the filters that it    *)
(* puts on, or lists that it has written cannot be read, so that it always *)
(* finds something to put on.                                              *)
TakesOff  == \E i \in Installer : Write(i) /\ pass[i].job = "sweep"
Undone    == []<><<TakesOff>>_vars \/ []<><<ReadFails(Service)>>_vars
StopHeeded ==
  Undone \/ ((handler.stop /\ handler.at = "assign" /\ sc.state = "running") ~>
               main \in {"returned", "none"})

(* What acqd_start_service and acqd_stop_service say when they have polled *)
(* for 20 seconds, "starting service failed, timeout": they give up.       *)
PollsTimeOut == \A i \in Installer : []<>(pc[i] \notin {"start_poll", "stop_poll"})
=============================================================================
