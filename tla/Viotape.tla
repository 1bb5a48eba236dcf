------------------------------ MODULE Viotape -------------------------------
(***************************************************************************)
(* The tape driver drivers/viotape.c: the pool of op structures, the       *)
(* semaphore reqSem that counts requests, the completions the interrupt    *)
(* handler raises, and the state kept for each tape so that the driver     *)
(* knows when to write EOF marks.                                          *)
(*                                                                         *)
(* Each caller is a thread in one file operation at a time.  A step is the *)
(* code between two accesses to what callers and interrupts share.  The    *)
(* hypervisor and the tape behind it are external: a request is refused    *)
(* when signalled, or is answered later, with success or with an error.    *)
(***************************************************************************)
EXTENDS Integers, FiniteSets

CONSTANTS
  Caller,   (* threads that use the driver, each with a file of its own      *)
  Op,       (* the op structures: ACQD_MAXREQ of them                        *)
  NoOp,     (* the NULL op_struct pointer                                    *)
  Dev,      (* tapes                                                         *)
  NoDev     (* the tape of a file that is not open                           *)

ASSUME NoOpAssumption  == NoOp \notin Op
ASSUME NoDevAssumption == NoDev \notin Dev
ASSUME OpAssumption    == IsFiniteSet(Op)

VARIABLES
  pool,      (* op_struct_list                                               *)
  sem,       (* reqSem                                                       *)
  pc,        (* where each caller is; "out" is outside the driver            *)
  call,      (* the file operation each caller is in                         *)
  file,      (* the tape each caller has open                                *)
  mine,      (* the op of the operation                                      *)
  eof,       (* the op of the ioctl that chg_state nests in it               *)
  holds,     (* callers whose operation has taken reqSem                     *)
  eofHolds,  (* callers whose nested ioctl has taken reqSem                  *)
  asked,     (* requests the hypervisor has not answered                     *)
  result,    (* the rc and completion of each op; "none" until completed     *)
  raising,   (* is the interrupt handler between free_op_struct and up?      *)
  state,     (* part_stat_rwi of each tape                                   *)
  unmarked   (* external: tapes whose last record has no EOF mark after it   *)

vars == <<pool, sem, pc, call, file, mine, eof, holds, eofHolds, asked,
          result, raising, state, unmarked>>

-----------------------------------------------------------------------------
(* The file operations a caller may start.  For an ioctl, how says whether *)
(* it moves the head, writes an EOF mark, is of another kind, or is one    *)
(* the driver does not know; for a release, whether the minor asks for a   *)
(* rewind; for an open, whether the minor names a device.                  *)
Calls ==
  [kind : {"read", "write"}, nonblock : BOOLEAN, how : {"data"}, dev : Dev]
  \cup [kind : {"ioctl"}, nonblock : {FALSE}, how : {"move", "mark", "other", "bad"}, dev : Dev]
  \cup [kind : {"open"}, nonblock : {FALSE}, how : {"data", "bad"}, dev : Dev]
  \cup [kind : {"release"}, nonblock : {FALSE}, how : {"rewind", "keep"}, dev : Dev]

(* What a caller outside the driver is in. *)
NoCall == [kind |-> "none"]

(* The operation returns. *)
Return(c) == /\ pc' = [pc EXCEPT ![c] = "out"]
             /\ call' = [call EXCEPT ![c] = NoCall]

Request(o, what, d) == [op |-> o, what |-> what, dev |-> d]

Requests == [op : Op, what : {"open", "close", "read", "write", "nbwrite",
                              "mark", "other"}, dev : Dev]

(* What the signal of a call asks for. *)
What(k) ==
  CASE k.kind = "write"   -> IF k.nonblock THEN "nbwrite" ELSE "write"
    [] k.kind = "read"    -> "read"
    [] k.kind = "open"    -> "open"
    [] k.kind = "release" -> "close"
    [] k.kind = "ioctl"   -> IF k.how = "mark" THEN "mark" ELSE "other"

(* read and write raise the semaphore before they free the op; ioctl after *)
UpFirst(k) == k.kind \in {"read", "write"}

(* Where a call goes once chg_state is done. *)
AfterChange(k) == IF k.kind = "release" /\ k.how = "rewind" THEN "rewind" ELSE "send"

ChangesTo(k) == IF k.kind = "read" THEN "reading" ELSE "idle"

Goto(c, l) == pc' = [pc EXCEPT ![c] = l]

-----------------------------------------------------------------------------
(* Starting: get_op_struct.                                                *)

(* The operation finds the pool empty and fails with -ENOMEM.  The file of *)
(* a release is gone all the same.                                         *)
Refused(c, k) ==
  /\ pool = {}
  /\ file' = IF k.kind = "release" THEN [file EXCEPT ![c] = NoDev] ELSE file
  /\ UNCHANGED <<pool, sem, pc, call, mine, eof, holds, eofHolds, asked,
                 result, raising, state, unmarked>>

TakeOp(c, k) ==
  /\ \E o \in pool :
       /\ pool' = pool \ {o}
       /\ mine' = [mine EXCEPT ![c] = o]
       /\ result' = [result EXCEPT ![o] = "none"]
  /\ call' = [call EXCEPT ![c] = k]
  /\ Goto(c, CASE k.kind \in {"read", "write", "ioctl"} -> "down"
               [] k.kind = "open"    -> IF k.how = "bad" THEN "give" ELSE "send"
               [] k.kind = "release" -> "change")
  /\ UNCHANGED <<sem, file, eof, holds, eofHolds, asked, raising, state, unmarked>>

Begin(c, k) ==
  /\ pc[c] = "out"
  /\ IF k.kind = "open" THEN file[c] = NoDev ELSE file[c] = k.dev
  /\ Refused(c, k) \/ TakeOp(c, k)

-----------------------------------------------------------------------------
(* reqSem, the tape state and the nested ioctl.                            *)

(* Mutant: a call that would block leaves through up_sem, not free_op.     *)
Down_WouldBlockUps(c) ==
  /\ pc[c] = "down"
  /\ \/ /\ sem > 0
        /\ sem' = sem - 1
        /\ holds' = holds \cup {c}
        /\ Goto(c, CASE call[c].kind = "write" -> "send"
                     [] call[c].kind = "read"  -> "change"
                     [] call[c].how = "move"   -> "change"
                     [] call[c].how = "bad"    -> "give"
                     [] OTHER                  -> "send")
     \/ /\ sem = 0 /\ call[c].nonblock
        /\ holds' = holds \cup {c}
        /\ UNCHANGED sem
        /\ Goto(c, "give")
  /\ UNCHANGED <<pool, call, file, mine, eof, eofHolds, asked, result,
                 raising, state, unmarked>>

(* down, or down_trylock for a non-blocking read or write. *)
Down(c) ==
  /\ pc[c] = "down"
  /\ \/ /\ sem > 0
        /\ sem' = sem - 1
        /\ holds' = holds \cup {c}
        /\ Goto(c, CASE call[c].kind = "write" -> "send"
                     [] call[c].kind = "read"  -> "change"
                     [] call[c].how = "move"   -> "change"
                     [] call[c].how = "bad"    -> "give"
                     [] OTHER                  -> "send")
     \/ /\ sem = 0 /\ call[c].nonblock
        /\ Goto(c, "give")
        /\ UNCHANGED <<sem, holds>>
  /\ UNCHANGED <<pool, call, file, mine, eof, eofHolds, asked, result,
                 raising, state, unmarked>>

(* chg_state, entered with a new state.  Leaving VIOT_WRITING it calls     *)
(* viotap_ioctl for an EOF mark, which needs an op of its own; when there  *)
(* is none the state changes and no mark is written.                       *)
Change(c) ==
  LET k == call[c] IN
  /\ pc[c] = "change"
  /\ \/ /\ state[k.dev] # "writing" \/ pool = {}
        /\ state' = [state EXCEPT ![k.dev] = ChangesTo(k)]
        /\ Goto(c, AfterChange(k))
        /\ UNCHANGED <<pool, eof, result>>
     \/ /\ state[k.dev] = "writing"
        /\ \E o \in pool :
             /\ pool' = pool \ {o}
             /\ eof' = [eof EXCEPT ![c] = o]
             /\ result' = [result EXCEPT ![o] = "none"]
        /\ Goto(c, "eof_down")
        /\ UNCHANGED state
  /\ UNCHANGED <<sem, call, file, mine, holds, eofHolds, asked, raising, unmarked>>

EofDown(c) ==
  /\ pc[c] = "eof_down"
  /\ sem > 0
  /\ sem' = sem - 1
  /\ eofHolds' = eofHolds \cup {c}
  /\ Goto(c, "eof_send")
  /\ UNCHANGED <<pool, call, file, mine, eof, holds, asked, result, raising,
                 state, unmarked>>

(* Mutant: the nested ioctl frees its op without waiting for the answer.   *)
EofSend_NoWait(c) ==
  /\ pc[c] = "eof_send"
  /\ \/ asked' = asked \cup {Request(eof[c], "mark", call[c].dev)}
     \/ UNCHANGED asked
  /\ Goto(c, "eof_free")
  /\ UNCHANGED <<pool, sem, call, file, mine, eof, holds, eofHolds, result,
                 raising, state, unmarked>>

EofSend(c) ==
  /\ pc[c] = "eof_send"
  /\ \/ /\ asked' = asked \cup {Request(eof[c], "mark", call[c].dev)}
        /\ Goto(c, "eof_wait")
     \/ Goto(c, "eof_free") /\ UNCHANGED asked
  /\ UNCHANGED <<pool, sem, call, file, mine, eof, holds, eofHolds, result,
                 raising, state, unmarked>>

EofWake(c) ==
  /\ pc[c] = "eof_wait"
  /\ result[eof[c]] # "none"
  /\ result' = [result EXCEPT ![eof[c]] = "none"]
  /\ Goto(c, "eof_free")
  /\ UNCHANGED <<pool, sem, call, file, mine, eof, holds, eofHolds, asked,
                 raising, state, unmarked>>

EofFree(c) ==
  /\ pc[c] = "eof_free"
  /\ pool' = pool \cup {eof[c]}
  /\ eof' = [eof EXCEPT ![c] = NoOp]
  /\ Goto(c, "eof_up")
  /\ UNCHANGED <<sem, call, file, mine, holds, eofHolds, asked, result,
                 raising, state, unmarked>>

EofUp(c) ==
  /\ pc[c] = "eof_up"
  /\ sem' = sem + 1
  /\ eofHolds' = eofHolds \ {c}
  /\ state' = [state EXCEPT ![call[c].dev] = ChangesTo(call[c])]
  /\ Goto(c, AfterChange(call[c]))
  /\ UNCHANGED <<pool, call, file, mine, eof, holds, asked, result, raising,
                 unmarked>>

-----------------------------------------------------------------------------
(* Asking the hypervisor and waiting for the answer.                       *)

(* viotap_release rewinds without looking at the signal's return code.     *)
Rewind(c) ==
  /\ pc[c] = "rewind"
  /\ \/ asked' = asked \cup {Request(mine[c], "other", call[c].dev)}
     \/ UNCHANGED asked
  /\ Goto(c, "rewind_wait")
  /\ UNCHANGED <<pool, sem, call, file, mine, eof, holds, eofHolds, result,
                 raising, state, unmarked>>

Rewound(c) ==
  /\ pc[c] = "rewind_wait"
  /\ result[mine[c]] # "none"
  /\ result' = [result EXCEPT ![mine[c]] = "none"]
  /\ Goto(c, "send")
  /\ UNCHANGED <<pool, sem, call, file, mine, eof, holds, eofHolds, asked,
                 raising, state, unmarked>>

(* Mutant: the return code of the signal is not looked at here either.     *)
Send_NotLooking(c) ==
  /\ pc[c] = "send"
  /\ \/ asked' = asked \cup {Request(mine[c], What(call[c]), call[c].dev)}
     \/ UNCHANGED asked
  /\ Goto(c, "wait")
  /\ UNCHANGED <<pool, sem, call, file, mine, eof, holds, eofHolds, result,
                 raising, state, unmarked>>

(* Mutant: a non-blocking write falls through to the labels that free.     *)
Send_FallsThrough(c) ==
  /\ pc[c] = "send"
  /\ \/ /\ asked' = asked \cup {Request(mine[c], What(call[c]), call[c].dev)}
        /\ Goto(c, IF What(call[c]) = "nbwrite" THEN "give" ELSE "wait")
     \/ Goto(c, "give") /\ UNCHANGED asked
  /\ UNCHANGED <<pool, sem, call, file, mine, eof, holds, eofHolds, result,
                 raising, state, unmarked>>

(* The signal of the call itself.  A non-blocking write returns at once    *)
(* and leaves its op and its place in reqSem to the interrupt handler.     *)
(* A buffer that cannot be allocated or copied has the effect of a refusal *)
Send(c) ==
  /\ pc[c] = "send"
  /\ \/ /\ asked' = asked \cup {Request(mine[c], What(call[c]), call[c].dev)}
        /\ IF What(call[c]) = "nbwrite"
           THEN /\ Return(c)
                /\ mine' = [mine EXCEPT ![c] = NoOp]
                /\ holds' = holds \ {c}
           ELSE Goto(c, "wait") /\ UNCHANGED <<call, mine, holds>>
     \/ Goto(c, "give") /\ UNCHANGED <<asked, call, mine, holds>>
  /\ UNCHANGED <<pool, sem, file, eof, eofHolds, result, raising, state,
                 unmarked>>

(* wait_for_completion returns.  A write that went well makes the state    *)
(* VIOT_WRITING; an open that went well leaves the caller with the file.   *)
Wake(c) ==
  LET k  == call[c]
      ok == result[mine[c]] = "ok"
  IN
  /\ pc[c] = "wait"
  /\ result[mine[c]] # "none"
  /\ state' = IF k.kind = "write" /\ ok THEN [state EXCEPT ![k.dev] = "writing"] ELSE state
  /\ file' = IF k.kind = "open" /\ ok THEN [file EXCEPT ![c] = k.dev] ELSE file
  /\ result' = [result EXCEPT ![mine[c]] = "none"]
  /\ Goto(c, "give")
  /\ UNCHANGED <<pool, sem, call, mine, eof, holds, eofHolds, asked, raising,
                 unmarked>>

-----------------------------------------------------------------------------
(* Leaving: the labels up_sem and free_op.                                 *)

GiveSem(c) ==
  /\ pc[c] = "give"
  /\ c \in holds
  /\ UpFirst(call[c]) \/ mine[c] = NoOp
  /\ sem' = sem + 1
  /\ holds' = holds \ {c}
  /\ IF mine[c] = NoOp THEN Return(c) ELSE UNCHANGED <<pc, call>>
  /\ UNCHANGED <<pool, file, mine, eof, eofHolds, asked, result, raising,
                 state, unmarked>>

GiveOp(c) ==
  /\ pc[c] = "give"
  /\ mine[c] # NoOp
  /\ UpFirst(call[c]) => c \notin holds
  /\ pool' = pool \cup {mine[c]}
  /\ mine' = [mine EXCEPT ![c] = NoOp]
  /\ file' = IF call[c].kind = "release" THEN [file EXCEPT ![c] = NoDev] ELSE file
  /\ IF c \in holds THEN UNCHANGED <<pc, call>> ELSE Return(c)
  /\ UNCHANGED <<sem, eof, holds, eofHolds, asked, result, raising,
                 state, unmarked>>

-----------------------------------------------------------------------------
(* vioHandleTapeEvent: the answer to a request.                            *)

TapeAfter(r, rc) ==
  CASE rc = "ok" /\ r.what \in {"write", "nbwrite"} -> unmarked \cup {r.dev}
    [] rc = "ok" /\ r.what = "mark"                 -> unmarked \ {r.dev}
    [] OTHER                                        -> unmarked

(* Mutant: the handler frees the op of a non-blocking write and is done.   *)
Interrupt_ForgetUp(r) ==
  /\ ~raising
  /\ asked' = asked \ {r}
  /\ \E rc \in {"ok", "error"} :
       /\ unmarked' = TapeAfter(r, rc)
       /\ IF r.what = "nbwrite"
          THEN pool' = pool \cup {r.op} /\ UNCHANGED result
          ELSE result' = [result EXCEPT ![r.op] = rc] /\ UNCHANGED pool
  /\ UNCHANGED <<sem, pc, call, file, mine, eof, holds, eofHolds, state, raising>>

Interrupt(r) ==
  /\ ~raising
  /\ asked' = asked \ {r}
  /\ \E rc \in {"ok", "error"} :
       /\ unmarked' = TapeAfter(r, rc)
       /\ IF r.what = "nbwrite"
          THEN /\ pool' = pool \cup {r.op}
               /\ raising' = TRUE
               /\ UNCHANGED result
          ELSE /\ result' = [result EXCEPT ![r.op] = rc]
               /\ UNCHANGED <<pool, raising>>
  /\ UNCHANGED <<sem, pc, call, file, mine, eof, holds, eofHolds, state>>

InterruptUp ==
  /\ raising
  /\ sem' = sem + 1
  /\ raising' = FALSE
  /\ UNCHANGED <<pool, pc, call, file, mine, eof, holds, eofHolds, asked,
                 result, state, unmarked>>

-----------------------------------------------------------------------------
(* viotap_init has filled the pool and set the semaphore, and acqd_probe   *)
(* the state of every tape.                                                *)
Init ==
  /\ pool = Op
  /\ sem = Cardinality(Op)
  /\ pc = [c \in Caller |-> "out"]
  /\ call = [c \in Caller |-> NoCall]
  /\ file = [c \in Caller |-> NoDev]
  /\ mine = [c \in Caller |-> NoOp]
  /\ eof = [c \in Caller |-> NoOp]
  /\ holds = {} /\ eofHolds = {} /\ asked = {}
  /\ result = [o \in Op |-> "none"]
  /\ raising = FALSE
  /\ state = [d \in Dev |-> "idle"]
  /\ unmarked = {}

(* Steps of a call that wait for nothing but their turn. *)
Step(c) ==
  \/ Change(c) \/ EofSend(c) \/ EofWake(c) \/ EofFree(c) \/ EofUp(c)
  \/ Rewind(c) \/ Rewound(c) \/ Send(c) \/ Wake(c) \/ GiveSem(c) \/ GiveOp(c)

Next ==
  \/ \E c \in Caller, k \in Calls : Begin(c, k)
  \/ \E c \in Caller : Down(c) \/ EofDown(c) \/ Step(c)
  \/ \E r \in asked : Interrupt(r)
  \/ InterruptUp

(* Threads run, down() is not starved (the semaphore wakes its waiters in  *)
(* turn), the hypervisor answers what it has accepted, whatever else it    *)
(* answers (events are queued), and interrupts return.                     *)
Fairness ==
  /\ \A c \in Caller : WF_vars(Step(c)) /\ SF_vars(Down(c)) /\ SF_vars(EofDown(c))
  /\ \A o \in Op : SF_vars(\E r \in asked : r.op = o /\ Interrupt(r))
  /\ WF_vars(InterruptUp)

Spec == Init /\ [][Next]_vars /\ Fairness

-----------------------------------------------------------------------------
(* Properties.                                                             *)

Labels == {"out", "down", "change", "eof_down", "eof_send", "eof_wait",
           "eof_free", "eof_up", "rewind", "rewind_wait", "send", "wait", "give"}

(* Every variable has its type; reqSem is never raised beyond ACQD_MAXREQ. *)
TypeOK ==
  /\ pool \subseteq Op
  /\ sem \in 0..Cardinality(Op)
  /\ pc \in [Caller -> Labels]
  /\ call \in [Caller -> Calls \cup {NoCall}]
  /\ file \in [Caller -> Dev \cup {NoDev}]
  /\ mine \in [Caller -> Op \cup {NoOp}] /\ eof \in [Caller -> Op \cup {NoOp}]
  /\ holds \subseteq Caller /\ eofHolds \subseteq Caller
  /\ asked \subseteq Requests
  /\ result \in [Op -> {"none", "ok", "error"}]
  /\ raising \in BOOLEAN
  /\ state \in [Dev -> {"idle", "reading", "writing"}]
  /\ unmarked \subseteq Dev

(* Ops that belong to a non-blocking write whose caller has returned. *)
Adrift == {r.op : r \in {q \in asked : q.what = "nbwrite"}}

(* An op is in one place: on the free list, in one call, in one nested     *)
(* ioctl, or with one non-blocking write; none is lost or handed to two.   *)
OneOwner ==
  /\ \A c \in Caller : {mine[c], eof[c]} \cap (pool \cup Adrift) = {}
  /\ \A c, b \in Caller : mine[c] # NoOp => mine[c] # eof[b] /\ (mine[c] = mine[b] => c = b)
  /\ \A c, b \in Caller : eof[c] # NoOp /\ eof[c] = eof[b] => c = b
  /\ pool \cap Adrift = {}
  /\ Op \subseteq pool \cup Adrift \cup {mine[c] : c \in Caller} \cup {eof[c] : c \in Caller}

(* The interrupt handler only ever touches an op that is still in use for  *)
(* the very request being answered: no call frees its op, or takes it for  *)
(* something else, while an answer that points at it is on its way.        *)
AnswersFindTheirCall ==
  /\ \A r, q \in asked : r.op = q.op => r = q
  /\ \A r \in asked : r.what # "nbwrite" =>
       /\ result[r.op] = "none"
       /\ \E c \in Caller :
            \/ mine[c] = r.op /\ pc[c] \in {"wait", "rewind_wait"}
            \/ eof[c] = r.op /\ pc[c] = "eof_wait"

(* The callers for whom up() comes next.                                   *)
AboutToUp(c) ==
  \/ pc[c] = "give" /\ c \in holds /\ (UpFirst(call[c]) \/ mine[c] = NoOp)
  \/ pc[c] = "eof_up"

(* Whoever is stopped at reqSem is never waiting for the tape: each call   *)
(* has brought an op of its own, so a semaphore at zero means somebody has *)
(* given an op back and is just about to call up().                        *)
WaitIsShort ==
  (\E c \in Caller : pc[c] \in {"down", "eof_down"}) /\ sem = 0 =>
    raising \/ \E b \in Caller : AboutToUp(b)

(* A release whose rewind was refused waits for an answer to nothing.      *)
RewindLost(c) ==
  pc[c] = "rewind_wait" /\ result[mine[c]] = "none" /\ \A r \in asked : r.op # mine[c]

(* Every call returns, its requests being answered: nobody is inside the   *)
(* driver for ever.  The one exception is a release whose rewind the       *)
(* hypervisor refused.                                                     *)
EveryCallReturns == \A c \in Caller : []<>(pc[c] = "out" \/ RewindLost(c))

(* What chg_state says of itself, "write an EOF if changing from writing   *)
(* to some other state": nothing unmarked is left behind, unless writing   *)
(* the mark failed.                                                        *)
EofWhenLeavingWriting ==
  [][\A d \in Dev :
       state[d] = "writing" /\ state'[d] # "writing" /\ d \in unmarked =>
         \E c \in Caller : pc[c] = "eof_up" /\ call[c].dev = d]_vars
=============================================================================
