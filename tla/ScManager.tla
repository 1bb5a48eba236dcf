------------------------------ MODULE ScManager -----------------------------
(***************************************************************************)
(* The service control manager of Windows, as service.c, service_nt.c and  *)
(* vncService.cpp use it: external.  Its entry for one service is a record;*)
(* the operators say when a call is refused and what a call makes of it.   *)
(* A stop is passed on to a service that runs, or that is starting and has *)
(* said that it accepts one; other controls only to a service that runs.   *)
(***************************************************************************)

States == {"none", "stopped", "start_pending", "running", "stop_pending"}

(* none is the entry of a service that is not installed; marked, of one    *)
(* that goes when nobody has it open any more.                             *)
Entry == [state : States, accepts : BOOLEAN, marked : BOOLEAN]

NoEntry  == [state |-> "none", accepts |-> FALSE, marked |-> FALSE]
NewEntry == [NoEntry EXCEPT !.state = "stopped"]

Inactive(e) == e.state \in {"none", "stopped"}

CanStart(e) == e.state = "stopped" /\ ~e.marked
CanStop(e)  == e.state \in {"running", "start_pending"} /\ e.accepts
CanAsk(e)   == e.state = "running"

(* StartService, SetServiceStatus, DeleteService, and the end of the       *)
(* service's process.                                                      *)
Starting(e)     == [e EXCEPT !.state = "start_pending", !.accepts = FALSE]
Telling(e, s, a) == [e EXCEPT !.state = s, !.accepts = a]
Deleting(e)     == [e EXCEPT !.marked = TRUE]
Ending(e)       == [e EXCEPT !.state = "stopped", !.accepts = FALSE]
=============================================================================
