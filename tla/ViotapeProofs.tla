---------------------------- MODULE ViotapeProofs ---------------------------
(* Proofs about Viotape: for any number of callers, ops and tapes.  The    *)
(* invariants come in layers: what holds of each caller by itself, who     *)
(* owns which op, which answers are on their way, and how many places of   *)
(* the semaphore are taken.                                                *)
EXTENDS Viotape, FiniteSetTheorems, TLAPS

(* TypeOK but for the bound of the semaphore. *)
Types ==
  /\ pool \subseteq Op
  /\ sem \in Nat
  /\ pc \in [Caller -> Labels]
  /\ call \in [Caller -> Calls \cup {NoCall}]
  /\ file \in [Caller -> Dev \cup {NoDev}]
  /\ mine \in [Caller -> Op \cup {NoOp}] /\ eof \in [Caller -> Op \cup {NoOp}]
  /\ holds \subseteq Caller /\ eofHolds \subseteq Caller
  /\ asked \subseteq Requests
  /\ result \in [Op -> {"none", "ok", "error"}]
  /\ raising \in BOOLEAN
  /\ state \in [Dev -> {"idle", "reading", "writing"}]
  /\ unmarked \subseteq Dev

(* What a caller has where it is. *)
Fits(c) ==
  /\ pc[c] \notin {"out", "give"} => mine[c] # NoOp
  /\ pc[c] = "out" => mine[c] = NoOp /\ c \notin holds
  /\ pc[c] # "out" => call[c] \in Calls
  /\ eof[c] # NoOp <=> pc[c] \in {"eof_down", "eof_send", "eof_wait", "eof_free"}
  /\ c \in eofHolds <=> pc[c] \in {"eof_send", "eof_wait", "eof_free", "eof_up"}
  /\ pc[c] = "down" => c \notin holds
  /\ pc[c] # "out" /\ call[c].kind = "write" =>
       pc[c] \in {"down", "give"} \/ (pc[c] \in {"send", "wait"} /\ c \in holds)

Base == Types /\ \A c \in Caller : Fits(c)

-----------------------------------------------------------------------------
(* What is in a call, and what is made of it. *)
LEMMA CallFields ==
  ASSUME NEW k \in Calls
  PROVE  /\ k.kind \in {"read", "write", "ioctl", "open", "release"}
         /\ k.dev \in Dev
         /\ k.nonblock \in BOOLEAN
         /\ k.kind \in {"read", "write"} \/ ~k.nonblock
         /\ k.kind = "write" => k.how = "data"
BY DEF Calls

LEMMA WhatType ==
  ASSUME NEW k \in Calls
  PROVE  /\ What(k) \in {"open", "close", "read", "write", "nbwrite", "mark", "other"}
         /\ What(k) = "nbwrite" => k.kind = "write"
BY CallFields DEF What

LEMMA RequestType ==
  ASSUME NEW o \in Op, NEW d \in Dev,
         NEW w \in {"open", "close", "read", "write", "nbwrite", "mark", "other"}
  PROVE  /\ Request(o, w, d) \in Requests
         /\ Request(o, w, d).op = o /\ Request(o, w, d).what = w
BY DEF Request, Requests

LEMMA AfterChangeType ==
  ASSUME NEW k \in Calls
  PROVE  AfterChange(k) \in {"rewind", "send"} /\ ChangesTo(k) \in {"reading", "idle"}
BY DEF AfterChange, ChangesTo

(* What holds of the other callers is not disturbed by what one does. *)
LEMMA OthersFit ==
  ASSUME Base, NEW c \in Caller, Fits(c)',
         \A b \in Caller \ {c} :
           /\ pc'[b] = pc[b] /\ call'[b] = call[b] /\ mine'[b] = mine[b] /\ eof'[b] = eof[b]
           /\ b \in holds' <=> b \in holds
           /\ b \in eofHolds' <=> b \in eofHolds
  PROVE  \A b \in Caller : Fits(b)'
<1> SUFFICES ASSUME NEW b \in Caller \ {c} PROVE Fits(b)'
  OBVIOUS
<1> QED BY DEF Base, Fits

-----------------------------------------------------------------------------
(* The first layer, one operation after the other.                         *)

LEMMA BeginBase ==
  ASSUME Base, NEW c \in Caller, NEW k \in Calls, Begin(c, k)
  PROVE  Base'
<1>1. CASE Refused(c, k)
  <2>1. Types'
    BY <1>1 DEF Base, Types, Refused
  <2>2. ASSUME NEW b \in Caller PROVE Fits(b)'
    BY <1>1, NoOpAssumption DEF Base, Fits, Refused
  <2> QED BY <2>1, <2>2 DEF Base
<1>2. CASE TakeOp(c, k)
  <2>1. PICK o \in pool : /\ pool' = pool \ {o}
                          /\ mine' = [mine EXCEPT ![c] = o]
                          /\ result' = [result EXCEPT ![o] = "none"]
    BY <1>2 DEF TakeOp
  <2>2. PICK l \in {"down", "give", "send", "change"} :
          /\ pc' = [pc EXCEPT ![c] = l]
          /\ k.kind = "write" => l = "down"
    BY <1>2, CallFields DEF TakeOp, Goto
  <2>3. Types'
    BY <1>2, <2>1, <2>2 DEF Base, Types, TakeOp, Labels
  <2>4. mine'[c] # NoOp /\ pc'[c] = l /\ call'[c] = k /\ pc[c] = "out"
    BY <1>2, <2>1, <2>2, NoOpAssumption DEF Base, Types, TakeOp, Begin
  <2>5. Fits(c)'
    BY <1>2, <2>2, <2>4 DEF Base, Fits, TakeOp
  <2>6. \A b \in Caller : Fits(b)'
    BY <1>2, <2>1, <2>2, <2>5, OthersFit DEF Base, Types, TakeOp
  <2> QED BY <2>3, <2>6 DEF Base
<1> QED BY <1>1, <1>2 DEF Begin

LEMMA DownBase ==
  ASSUME Base, NEW c \in Caller, Down(c) \/ EofDown(c)
  PROVE  Base'
<1>1. CASE Down(c)
  <2>1. call[c] \in Calls /\ pc[c] = "down"
    BY <1>1 DEF Base, Fits, Down
  <2>2. PICK l \in {"give", "send", "change"} :
          /\ pc' = [pc EXCEPT ![c] = l]
          /\ call[c].kind = "write" => l = "give" \/ (l = "send" /\ c \in holds')
    <3>1. ASSUME sem > 0 PROVE c \in holds' /\ (Goto(c, "give") \/ Goto(c, "send") \/ Goto(c, "change"))
      BY <1>1, <3>1 DEF Down, Goto
    <3>2. ASSUME sem > 0, call[c].kind = "write" PROVE Goto(c, "send")
      BY <1>1, <2>1, <3>2, CallFields DEF Down, Goto
    <3>3. ASSUME ~(sem > 0) PROVE Goto(c, "give")
      BY <1>1, <3>3 DEF Down
    <3> QED BY <3>1, <3>2, <3>3 DEF Goto
  <2>3. /\ sem' \in Nat /\ holds' \in {holds, holds \cup {c}}
        /\ UNCHANGED <<pool, call, file, mine, eof, eofHolds, asked, result, raising, state, unmarked>>
    BY <1>1 DEF Down, Base, Types
  <2>4. Types'
    BY <2>2, <2>3 DEF Base, Types, Labels
  <2>5. Fits(c)'
    BY <2>1, <2>2, <2>3 DEF Base, Types, Fits
  <2>6. \A b \in Caller : Fits(b)'
    BY <2>2, <2>3, <2>5, OthersFit DEF Base, Types
  <2> QED BY <2>4, <2>6 DEF Base
<1>2. CASE EofDown(c)
  <2>1. Types'
    BY <1>2 DEF EofDown, Base, Types, Goto, Labels
  <2>2. Fits(c)'
    BY <1>2 DEF EofDown, Base, Types, Fits, Goto
  <2>3. \A b \in Caller : Fits(b)'
    BY <1>2, <2>2, OthersFit DEF EofDown, Base, Types, Goto
  <2> QED BY <2>1, <2>3 DEF Base
<1> QED BY <1>1, <1>2

LEMMA ChangeBase ==
  ASSUME Base, NEW c \in Caller, Change(c)
  PROVE  Base'
<1>1. call[c] \in Calls /\ pc[c] = "change" /\ call[c].kind # "write" /\ call[c].dev \in Dev
  BY CallFields DEF Base, Fits, Change
<1>2. CASE eof' = eof
  <2>1. /\ UNCHANGED <<pool, eof, result>>
        /\ state' = [state EXCEPT ![call[c].dev] = ChangesTo(call[c])]
        /\ pc' = [pc EXCEPT ![c] = AfterChange(call[c])]
    BY <1>2, NoOpAssumption, <1>1 DEF Base, Types, Change, Goto, Fits
  <2>2. Types'
    BY <1>1, <2>1, AfterChangeType DEF Base, Types, Change, Labels
  <2>3. Fits(c)'
    BY <1>1, <2>1, AfterChangeType DEF Base, Types, Fits, Change
  <2>4. \A b \in Caller : Fits(b)'
    BY <2>1, <2>3, OthersFit DEF Base, Types, Change
  <2> QED BY <2>2, <2>4 DEF Base
<1>3. CASE eof' # eof
  <2>1. PICK o \in pool : /\ pool' = pool \ {o}
                          /\ eof' = [eof EXCEPT ![c] = o]
                          /\ result' = [result EXCEPT ![o] = "none"]
                          /\ pc' = [pc EXCEPT ![c] = "eof_down"]
                          /\ UNCHANGED state
    BY <1>3 DEF Change, Goto
  <2>2. Types'
    BY <2>1 DEF Base, Types, Change, Labels
  <2>3. Fits(c)'
    BY <1>1, <2>1, NoOpAssumption DEF Base, Types, Fits, Change
  <2>4. \A b \in Caller : Fits(b)'
    BY <2>1, <2>3, OthersFit DEF Base, Types, Change
  <2> QED BY <2>2, <2>4 DEF Base
<1> QED BY <1>2, <1>3

LEMMA EofSendBase ==
  ASSUME Base, NEW c \in Caller, EofSend(c)
  PROVE  Base'
<1>1. eof[c] \in Op /\ call[c].dev \in Dev /\ pc[c] = "eof_send" /\ call[c] \in Calls
  BY CallFields DEF Base, Types, Fits, EofSend
<1>2. PICK l \in {"eof_wait", "eof_free"} : pc' = [pc EXCEPT ![c] = l]
  BY DEF EofSend, Goto
<1>3. asked' \subseteq Requests
  BY <1>1, RequestType DEF Base, Types, EofSend
<1>4. Types'
  BY <1>2, <1>3 DEF Base, Types, EofSend, Labels
<1>5. Fits(c)'
  BY <1>1, <1>2 DEF Base, Types, Fits, EofSend
<1>6. \A b \in Caller : Fits(b)'
  BY <1>2, <1>5, OthersFit DEF Base, Types, EofSend
<1> QED BY <1>4, <1>6 DEF Base

LEMMA EofWakeBase ==
  ASSUME Base, NEW c \in Caller, EofWake(c)
  PROVE  Base'
<1>1. Types'
  BY DEF Base, Types, EofWake, Goto, Labels
<1>2. Fits(c)'
  BY DEF Base, Types, Fits, EofWake, Goto
<1>3. \A b \in Caller : Fits(b)'
  BY <1>2, OthersFit DEF Base, Types, EofWake, Goto
<1> QED BY <1>1, <1>3 DEF Base

LEMMA EofFreeBase ==
  ASSUME Base, NEW c \in Caller, EofFree(c)
  PROVE  Base'
<1>1. eof[c] \in Op /\ pc[c] = "eof_free"
  BY DEF Base, Types, Fits, EofFree
<1>2. Types'
  BY <1>1 DEF Base, Types, EofFree, Goto, Labels
<1>3. Fits(c)'
  BY DEF Base, Types, Fits, EofFree, Goto
<1>4. \A b \in Caller : Fits(b)'
  BY <1>3, OthersFit DEF Base, Types, EofFree, Goto
<1> QED BY <1>2, <1>4 DEF Base

LEMMA EofUpBase ==
  ASSUME Base, NEW c \in Caller, EofUp(c)
  PROVE  Base'
<1>1. call[c] \in Calls /\ pc[c] = "eof_up" /\ call[c].kind # "write" /\ call[c].dev \in Dev
  BY CallFields DEF Base, Fits, EofUp
<1>2. PICK l \in {"rewind", "send"} : pc' = [pc EXCEPT ![c] = l]
  BY <1>1, AfterChangeType DEF EofUp, Goto
<1>3. Types'
  BY <1>1, <1>2, AfterChangeType DEF Base, Types, EofUp, Labels
<1>4. Fits(c)'
  BY <1>1, <1>2 DEF Base, Types, Fits, EofUp
<1>5. \A b \in Caller : Fits(b)'
  BY <1>2, <1>4, OthersFit DEF Base, Types, EofUp
<1> QED BY <1>3, <1>5 DEF Base

LEMMA RewindBase ==
  ASSUME Base, NEW c \in Caller, Rewind(c) \/ Rewound(c)
  PROVE  Base'
<1>1. /\ pc[c] \in {"rewind", "rewind_wait"}
      /\ mine[c] \in Op /\ call[c] \in Calls /\ call[c].dev \in Dev /\ call[c].kind # "write"
  BY CallFields DEF Base, Types, Fits, Rewind, Rewound
<1>2. PICK l \in {"rewind_wait", "send"} : pc' = [pc EXCEPT ![c] = l]
  BY DEF Rewind, Rewound, Goto
<1>3. asked' \subseteq Requests /\ result' \in [Op -> {"none", "ok", "error"}]
  BY <1>1, RequestType DEF Base, Types, Rewind, Rewound
<1>4. UNCHANGED <<pool, sem, call, file, mine, eof, holds, eofHolds, raising, state, unmarked>>
  BY DEF Rewind, Rewound
<1>5. Types'
  BY <1>2, <1>3, <1>4 DEF Base, Types, Labels
<1>6. Fits(c)'
  BY <1>1, <1>2, <1>4 DEF Base, Types, Fits
<1>7. \A b \in Caller : Fits(b)'
  BY <1>2, <1>4, <1>6, OthersFit DEF Base, Types
<1> QED BY <1>5, <1>7 DEF Base

LEMMA SendBase ==
  ASSUME Base, NEW c \in Caller, Send(c)
  PROVE  Base'
<1>1. /\ pc[c] = "send" /\ mine[c] \in Op /\ call[c] \in Calls /\ call[c].dev \in Dev
      /\ What(call[c]) \in {"open", "close", "read", "write", "nbwrite", "mark", "other"}
  BY CallFields, WhatType DEF Base, Types, Fits, Send
<1>2. asked' \subseteq Requests
  BY <1>1, RequestType DEF Base, Types, Send
<1>3. CASE call' = call
  <2>1. PICK l \in {"wait", "give"} :
          /\ pc' = [pc EXCEPT ![c] = l] /\ UNCHANGED <<call, mine, holds>>
    <3>1. call[c] # NoCall
      BY <1>1, CallFields DEF NoCall
    <3>2. ~Return(c)
      BY <1>1, <1>3, <3>1 DEF Base, Types, Return
    <3> QED BY <3>2 DEF Send, Goto
  <2>2. Types'
    BY <1>2, <2>1 DEF Base, Types, Send, Labels
  <2>3. Fits(c)'
    BY <1>1, <2>1 DEF Base, Types, Fits, Send
  <2>4. \A b \in Caller : Fits(b)'
    BY <2>1, <2>3, OthersFit DEF Base, Types, Send
  <2> QED BY <2>2, <2>4 DEF Base
<1>4. CASE call' # call
  <2>1. /\ pc' = [pc EXCEPT ![c] = "out"] /\ call' = [call EXCEPT ![c] = NoCall]
        /\ mine' = [mine EXCEPT ![c] = NoOp] /\ holds' = holds \ {c}
    BY <1>4 DEF Send, Return, Goto
  <2>2. Types'
    BY <1>2, <2>1 DEF Base, Types, Send, Labels
  <2>3. Fits(c)'
    BY <1>1, <2>1 DEF Base, Types, Fits, Send
  <2>4. \A b \in Caller : Fits(b)'
    BY <2>1, <2>3, OthersFit DEF Base, Types, Send
  <2> QED BY <2>2, <2>4 DEF Base
<1> QED BY <1>3, <1>4

LEMMA WakeBase ==
  ASSUME Base, NEW c \in Caller, Wake(c)
  PROVE  Base'
<1>1. call[c] \in Calls /\ call[c].dev \in Dev
  BY CallFields DEF Base, Fits, Wake
<1>2. Types'
  BY <1>1 DEF Base, Types, Wake, Goto, Labels
<1>3. Fits(c)'
  BY <1>1 DEF Base, Types, Fits, Wake, Goto
<1>4. \A b \in Caller : Fits(b)'
  BY <1>3, OthersFit DEF Base, Types, Wake, Goto
<1> QED BY <1>2, <1>4 DEF Base

LEMMA GiveBase ==
  ASSUME Base, NEW c \in Caller, GiveSem(c) \/ GiveOp(c)
  PROVE  Base'
<1>1. pc[c] = "give" /\ call[c] \in Calls
  BY DEF Base, Fits, GiveSem, GiveOp
<1>2. \/ UNCHANGED <<pc, call>>
      \/ pc' = [pc EXCEPT ![c] = "out"] /\ call' = [call EXCEPT ![c] = NoCall]
  BY DEF GiveSem, GiveOp, Return
<1>3. /\ pc' \in [Caller -> Labels] /\ call' \in [Caller -> Calls \cup {NoCall}]
      /\ \A b \in Caller \ {c} : pc'[b] = pc[b] /\ call'[b] = call[b]
  BY <1>2 DEF Base, Types, Labels
<1>4. CASE GiveSem(c)
  <2>1. Types'
    BY <1>3, <1>4 DEF Base, Types, GiveSem
  <2>2. Fits(c)'
    BY <1>1, <1>4 DEF Base, Types, Fits, GiveSem, Return
  <2>3. \A b \in Caller : Fits(b)'
    BY <1>3, <1>4, <2>2, OthersFit DEF GiveSem
  <2> QED BY <2>1, <2>3 DEF Base
<1>5. CASE GiveOp(c)
  <2>1. Types'
    BY <1>3, <1>5 DEF Base, Types, GiveOp
  <2>2. Fits(c)'
    BY <1>1, <1>5 DEF Base, Types, Fits, GiveOp, Return
  <2>3. \A b \in Caller : Fits(b)'
    BY <1>3, <1>5, <2>2, OthersFit DEF Base, Types, GiveOp
  <2> QED BY <2>1, <2>3 DEF Base
<1> QED BY <1>4, <1>5

LEMMA InterruptBase ==
  ASSUME Base, (\E r \in asked : Interrupt(r)) \/ InterruptUp
  PROVE  Base'
<1>1. UNCHANGED <<pc, call, mine, eof, holds, eofHolds, file, state>>
  BY DEF Interrupt, InterruptUp
<1>2. ASSUME NEW b \in Caller PROVE Fits(b)'
  BY <1>1, NoOpAssumption DEF Base, Fits
<1>3. ASSUME NEW r \in asked, Interrupt(r) PROVE Types'
  <2>1. r.op \in Op /\ r.dev \in Dev
    BY DEF Base, Types, Requests
  <2>2. unmarked' \subseteq Dev
    BY <1>3, <2>1 DEF Base, Types, Interrupt, TapeAfter
  <2> QED BY <1>1, <1>3, <2>1, <2>2 DEF Base, Types, Interrupt
<1>4. ASSUME InterruptUp PROVE Types'
  <2>1. sem' \in Nat
    BY <1>4, SMT DEF Base, Types, InterruptUp
  <2>3. raising' \in BOOLEAN
    BY <1>4, Zenon DEF InterruptUp
  <2>2. UNCHANGED <<pool, asked, result, unmarked>>
    BY <1>4 DEF InterruptUp
  <2> QED BY <1>1, <2>1, <2>2, <2>3 DEF Base, Types
<1> QED BY <1>2, <1>3, <1>4 DEF Base

LEMMA StepBase ==
  ASSUME Base, [Next]_vars
  PROVE  Base'
<1>1. ASSUME NEW c \in Caller, Step(c) PROVE Base'
  BY <1>1, ChangeBase, EofSendBase, EofWakeBase, EofFreeBase, EofUpBase, RewindBase,
     SendBase, WakeBase, GiveBase DEF Step
<1>2. CASE UNCHANGED vars
  <2>1. ASSUME NEW b \in Caller PROVE Fits(b)'
    BY <1>2, NoOpAssumption DEF Base, Fits, vars
  <2>2. Types'
    BY <1>2 DEF Base, Types, vars
  <2> QED BY <2>1, <2>2 DEF Base
<1> QED BY <1>1, <1>2, BeginBase, DownBase, InterruptBase DEF Next

LEMMA InitBase == Init => Base
<1> SUFFICES ASSUME Init PROVE Base
  OBVIOUS
<1>1. Types
  BY OpAssumption, FS_CardinalityType DEF Init, Types, Labels
<1>2. ASSUME NEW b \in Caller PROVE Fits(b)
  BY DEF Init, Fits
<1> QED BY <1>1, <1>2 DEF Base

-----------------------------------------------------------------------------
(* The second layer: the owners of the ops and the answers to come.        *)

(* A completion is only set while its op is waited for. *)
Fresh ==
  \A c \in Caller :
    /\ pc[c] \notin {"wait", "rewind_wait"} /\ mine[c] # NoOp => result[mine[c]] = "none"
    /\ pc[c] # "eof_wait" /\ eof[c] # NoOp => result[eof[c]] = "none"

Owned == Base /\ OneOwner /\ AnswersFindTheirCall /\ Fresh

(* Who changes neither the pool nor an owner nor a request leaves every op *)
(* where it is.                                                            *)
LEMMA OwnersStay ==
  ASSUME OneOwner, UNCHANGED <<pool, mine, eof, asked>>
  PROVE  OneOwner'
BY DEF OneOwner, Adrift

(* A call that is not waiting is owed no answer. *)
LEMMA NoAnswerDue ==
  ASSUME Owned, NEW c \in Caller
  PROVE  /\ pc[c] \notin {"wait", "rewind_wait"} =>
              \A r \in asked : mine[c] = NoOp \/ r.op # mine[c]
         /\ pc[c] # "eof_wait" => \A r \in asked : eof[c] = NoOp \/ r.op # eof[c]
         /\ \A r \in asked : r.op \in Op /\ r.op \notin pool
<1>1. ASSUME NEW r \in asked, r.what = "nbwrite"
      PROVE  r.op \in Adrift
  BY <1>1 DEF Adrift
<1>2. ASSUME NEW r \in asked PROVE r.op \in Op
  BY DEF Owned, Base, Types, Requests
<1>3. ASSUME NEW r \in asked, r.what = "nbwrite"
      PROVE  r.op # mine[c] /\ r.op # eof[c] /\ r.op \notin pool
  BY <1>1, <1>3 DEF Owned, OneOwner
<1>4. ASSUME NEW r \in asked, r.what # "nbwrite"
      PROVE  /\ r.op \notin pool
             /\ pc[c] \in {"wait", "rewind_wait"} \/ mine[c] = NoOp \/ r.op # mine[c]
             /\ pc[c] = "eof_wait" \/ eof[c] = NoOp \/ r.op # eof[c]
  <2>1. PICK b \in Caller : \/ mine[b] = r.op /\ pc[b] \in {"wait", "rewind_wait"}
                            \/ eof[b] = r.op /\ pc[b] = "eof_wait"
    BY <1>4 DEF Owned, AnswersFindTheirCall
  <2> QED BY <1>2, <2>1, NoOpAssumption DEF Owned, OneOwner
<1> QED BY <1>2, <1>3, <1>4

LEMMA BeginOwned ==
  ASSUME Owned, Base', NEW c \in Caller, NEW k \in Calls, Begin(c, k)
  PROVE  Owned'
<1>1. CASE Refused(c, k)
  <2>1. OneOwner'
    BY <1>1, OwnersStay DEF Owned, Refused
  <2>2. AnswersFindTheirCall'
    BY <1>1 DEF Owned, Refused, AnswersFindTheirCall
  <2>3. Fresh'
    BY <1>1 DEF Owned, Refused, Fresh
  <2> QED BY <2>1, <2>2, <2>3 DEF Owned
<1>2. CASE TakeOp(c, k)
  <2>1. PICK o \in pool : /\ pool' = pool \ {o}
                          /\ mine' = [mine EXCEPT ![c] = o]
                          /\ result' = [result EXCEPT ![o] = "none"]
    BY <1>2 DEF TakeOp
  <2>2. /\ mine[c] = NoOp /\ pc[c] = "out" /\ eof[c] = NoOp /\ o \in Op
        /\ mine'[c] = o /\ \A b \in Caller \ {c} : mine'[b] = mine[b] /\ pc'[b] = pc[b]
        /\ eof' = eof /\ asked' = asked /\ Adrift' = Adrift
        /\ \A p \in Op \ {o} : result'[p] = result[p]
        /\ result'[o] = "none"
    BY <1>2, <2>1 DEF Owned, Base, Types, Fits, Begin, TakeOp, Goto, Adrift
  <2>3. OneOwner'
    <3>1. \A b \in Caller : mine[b] # o /\ eof[b] # o
      BY DEF Owned, OneOwner
    <3>2. \A b \in Caller : {mine'[b], eof'[b]} \cap (pool' \cup Adrift') = {}
      BY <2>1, <2>2 DEF Owned, OneOwner
    <3>3. Op \subseteq pool' \cup Adrift' \cup {mine'[b] : b \in Caller} \cup {eof'[b] : b \in Caller}
      BY <2>1, <2>2, NoOpAssumption DEF Owned, OneOwner
    <3> QED BY <2>1, <2>2, <3>1, <3>2, <3>3 DEF Owned, OneOwner
  <2>4. AnswersFindTheirCall'
    BY <2>2, NoAnswerDue, NoOpAssumption DEF Owned, AnswersFindTheirCall
  <2>5. Fresh'
    <3>1. \A b \in Caller : mine[b] # o /\ eof[b] # o
      BY DEF Owned, OneOwner
    <3> QED BY <2>1, <2>2, <3>1 DEF Owned, Base, Types, Fresh
  <2> QED BY <2>3, <2>4, <2>5 DEF Owned
<1> QED BY <1>1, <1>2 DEF Begin

(* Steps between labels where no answer is waited for. *)
LEMMA WalksOwned ==
  ASSUME Owned, Base', NEW c \in Caller,
         UNCHANGED <<pool, mine, eof, asked, result>>,
         \A b \in Caller \ {c} : pc'[b] = pc[b],
         pc[c] \notin {"wait", "rewind_wait", "eof_wait"}
  PROVE  Owned'
<1>1. OneOwner'
  BY OwnersStay DEF Owned
<1>2. AnswersFindTheirCall'
  BY DEF Owned, AnswersFindTheirCall
<1>3. Fresh'
  BY DEF Owned, Fresh
<1> QED BY <1>1, <1>2, <1>3 DEF Owned

LEMMA DownOwned ==
  ASSUME Owned, Base', NEW c \in Caller,
         Down(c) \/ EofDown(c) \/ EofUp(c) \/ GiveSem(c)
  PROVE  Owned'
<1>1. \A b \in Caller \ {c} : pc'[b] = pc[b]
  BY DEF Owned, Base, Types, Down, EofDown, EofUp, GiveSem, Goto, Return
<1>2. pc[c] \notin {"wait", "rewind_wait", "eof_wait"}
  BY DEF Down, EofDown, EofUp, GiveSem
<1>3. UNCHANGED <<pool, mine, eof, asked, result>>
  BY DEF Down, EofDown, EofUp, GiveSem
<1> QED BY <1>1, <1>2, <1>3, WalksOwned

LEMMA ChangeOwned ==
  ASSUME Owned, Base', NEW c \in Caller, Change(c)
  PROVE  Owned'
<1>1. /\ pc[c] = "change" /\ eof[c] = NoOp
      /\ \A b \in Caller \ {c} : pc'[b] = pc[b]
      /\ UNCHANGED <<mine, asked>>
  BY DEF Owned, Base, Types, Fits, Change, Goto
<1>2. CASE UNCHANGED <<pool, eof, result>>
  BY <1>1, <1>2, WalksOwned
<1>3. CASE ~UNCHANGED <<pool, eof, result>>
  <2>1. PICK o \in pool : /\ pool' = pool \ {o}
                          /\ eof' = [eof EXCEPT ![c] = o]
                          /\ result' = [result EXCEPT ![o] = "none"]
    BY <1>3 DEF Change
  <2>2. /\ o \in Op /\ eof'[c] = o /\ \A b \in Caller \ {c} : eof'[b] = eof[b]
        /\ Adrift' = Adrift /\ result'[o] = "none"
        /\ \A p \in Op \ {o} : result'[p] = result[p]
    BY <1>1, <2>1 DEF Owned, Base, Types, Adrift
  <2>3. \A b \in Caller : mine[b] # o /\ eof[b] # o
    BY DEF Owned, OneOwner
  <2>4. OneOwner'
    <3>1. \A b \in Caller : {mine'[b], eof'[b]} \cap (pool' \cup Adrift') = {}
      BY <1>1, <2>1, <2>2 DEF Owned, OneOwner
    <3>2. Op \subseteq pool' \cup Adrift' \cup {mine'[b] : b \in Caller} \cup {eof'[b] : b \in Caller}
      BY <1>1, <2>1, <2>2, NoOpAssumption DEF Owned, OneOwner
    <3> QED BY <1>1, <2>1, <2>2, <2>3, <3>1, <3>2 DEF Owned, OneOwner
  <2>5. AnswersFindTheirCall'
    BY <1>1, <2>2, NoAnswerDue, NoOpAssumption DEF Owned, AnswersFindTheirCall
  <2>6. Fresh'
    BY <1>1, <2>1, <2>2, <2>3 DEF Owned, Base, Types, Fresh
  <2> QED BY <2>4, <2>5, <2>6 DEF Owned
<1> QED BY <1>2, <1>3

(* The op of a call, or of its nested ioctl, goes back to the pool. *)
LEMMA FreeOwned ==
  ASSUME Owned, Base', NEW c \in Caller, EofFree(c) \/ GiveOp(c)
  PROVE  Owned'
<1>1. /\ pc[c] \in {"eof_free", "give"}
      /\ \A b \in Caller \ {c} : pc'[b] = pc[b] /\ mine'[b] = mine[b] /\ eof'[b] = eof[b]
      /\ UNCHANGED <<asked, result>> /\ Adrift' = Adrift
  BY DEF Owned, Base, Types, EofFree, GiveOp, Goto, Return, Adrift
<1>2. PICK o \in Op :
        /\ pool' = pool \cup {o}
        /\ \/ eof[c] = o /\ eof'[c] = NoOp /\ mine'[c] = mine[c]
           \/ mine[c] = o /\ mine'[c] = NoOp /\ eof'[c] = eof[c]
  BY DEF Owned, Base, Types, Fits, EofFree, GiveOp
<1>3. /\ \A b \in Caller : mine'[b] # o /\ eof'[b] # o
      /\ o \notin Adrift
  BY <1>1, <1>2, NoOpAssumption DEF Owned, OneOwner
<1>4. NoOp \notin pool /\ NoOp \notin Adrift
  BY NoOpAssumption DEF Owned, Base, Types, Adrift, Requests
<1>5. OneOwner'
  <2>1. \A b \in Caller : {mine'[b], eof'[b]} \cap (pool' \cup Adrift') = {}
    BY <1>1, <1>2, <1>3, <1>4 DEF Owned, OneOwner
  <2>2. Op \subseteq pool' \cup Adrift' \cup {mine'[b] : b \in Caller} \cup {eof'[b] : b \in Caller}
    BY <1>1, <1>2, NoOpAssumption DEF Owned, OneOwner
  <2> QED BY <1>1, <1>2, <1>3, <2>1, <2>2 DEF Owned, OneOwner
<1>6. AnswersFindTheirCall'
  BY <1>1, <1>2 DEF Owned, AnswersFindTheirCall
<1>7. Fresh'
  BY <1>1, <1>2 DEF Owned, Fresh
<1> QED BY <1>5, <1>6, <1>7 DEF Owned

(* A caller that wakes finds its answer and clears it. *)
LEMMA WakeOwned ==
  ASSUME Owned, Base', NEW c \in Caller, EofWake(c) \/ Rewound(c) \/ Wake(c)
  PROVE  Owned'
<1>1. /\ UNCHANGED <<pool, mine, eof, asked>>
      /\ \A b \in Caller \ {c} : pc'[b] = pc[b]
      /\ pc'[c] \notin {"wait", "rewind_wait", "eof_wait"}
  BY DEF Owned, Base, Types, EofWake, Rewound, Wake, Goto
<1>2. PICK o \in Op :
        /\ \/ eof[c] = o /\ pc[c] = "eof_wait"
           \/ mine[c] = o /\ pc[c] \in {"wait", "rewind_wait"}
        /\ result[o] # "none"
        /\ result' = [result EXCEPT ![o] = "none"]
  BY DEF Owned, Base, Types, Fits, EofWake, Rewound, Wake
<1>3. result'[o] = "none" /\ \A p \in Op \ {o} : result'[p] = result[p]
  BY <1>2 DEF Owned, Base, Types
<1>4. \A r \in asked : r.what # "nbwrite" => r.op # o
  BY <1>2 DEF Owned, AnswersFindTheirCall
<1>5. OneOwner'
  BY <1>1, OwnersStay DEF Owned
<1>6. AnswersFindTheirCall'
  <2>1. ASSUME NEW r \in asked, r.what # "nbwrite"
        PROVE  /\ result'[r.op] = "none"
               /\ \E b \in Caller : \/ mine[b] = r.op /\ pc'[b] \in {"wait", "rewind_wait"}
                                    \/ eof[b] = r.op /\ pc'[b] = "eof_wait"
    <3>1. PICK b \in Caller : \/ mine[b] = r.op /\ pc[b] \in {"wait", "rewind_wait"}
                              \/ eof[b] = r.op /\ pc[b] = "eof_wait"
      BY <2>1 DEF Owned, AnswersFindTheirCall
    <3>2. ASSUME b = c PROVE FALSE
      <4>1. r.op # o
        BY <1>4, <2>1
      <4> QED BY <1>2, <3>1, <3>2, <4>1
    <3>3. r.op \in Op /\ result[r.op] = "none"
      BY <2>1 DEF Owned, AnswersFindTheirCall, Base, Types, Requests
    <3> QED BY <1>1, <1>3, <3>1, <3>2, <3>3
  <2> QED BY <1>1, <2>1 DEF Owned, AnswersFindTheirCall
<1>7. Fresh'
  BY <1>1, <1>2, <1>3 DEF Owned, Base, Types, Fresh
<1> QED BY <1>5, <1>6, <1>7 DEF Owned

(* A caller asks, or is refused, for an op of its own. *)
LEMMA AskOwned ==
  ASSUME Owned, Base', NEW c \in Caller, NEW o \in Op,
         NEW w \in {"open", "close", "read", "write", "mark", "other"}, NEW d \in Dev,
         asked' \in {asked, asked \cup {Request(o, w, d)}},
         UNCHANGED <<pool, mine, eof, result>>,
         \A b \in Caller \ {c} : pc'[b] = pc[b],
         pc[c] \notin {"wait", "rewind_wait", "eof_wait"},
         \/ mine[c] = o /\ (asked' # asked => pc'[c] \in {"wait", "rewind_wait"})
         \/ eof[c] = o /\ (asked' # asked => pc'[c] = "eof_wait")
  PROVE  Owned'
<1> DEFINE q == Request(o, w, d)
<1>1. /\ q.op = o /\ q.what = w /\ q.what # "nbwrite"
  BY RequestType
<1>2. \A r \in asked : r.op # o
  BY NoAnswerDue, NoOpAssumption
<1>3. result[o] = "none"
  BY NoOpAssumption DEF Owned, Fresh
<1>4. Adrift' = Adrift
  BY <1>1 DEF Adrift
<1>5. OneOwner'
  BY <1>4 DEF Owned, OneOwner
<1>6. AnswersFindTheirCall'
  <2>1. ASSUME NEW r \in asked', NEW p \in asked', r.op = p.op
        PROVE  r = p
    BY <1>1, <1>2, <2>1 DEF Owned, AnswersFindTheirCall
  <2>2. ASSUME NEW r \in asked', r.what # "nbwrite"
        PROVE  /\ result'[r.op] = "none"
               /\ \E b \in Caller : \/ mine'[b] = r.op /\ pc'[b] \in {"wait", "rewind_wait"}
                                    \/ eof'[b] = r.op /\ pc'[b] = "eof_wait"
    <3>1. CASE r \in asked
      <4>1. PICK b \in Caller : \/ mine[b] = r.op /\ pc[b] \in {"wait", "rewind_wait"}
                                \/ eof[b] = r.op /\ pc[b] = "eof_wait"
        BY <2>2, <3>1 DEF Owned, AnswersFindTheirCall
      <4>2. b # c /\ result[r.op] = "none"
        BY <2>2, <3>1, <4>1 DEF Owned, AnswersFindTheirCall
      <4> QED BY <4>1, <4>2
    <3>2. CASE r \notin asked
      <4>1. r = q /\ asked' # asked
        BY <3>2
      <4> QED BY <1>1, <1>3, <4>1
    <3> QED BY <3>1, <3>2
  <2> QED BY <2>1, <2>2 DEF AnswersFindTheirCall
<1>7. Fresh'
  BY <1>3 DEF Owned, Fresh
<1> QED BY <1>5, <1>6, <1>7 DEF Owned

LEMMA EofSendOwned ==
  ASSUME Owned, Base', NEW c \in Caller, EofSend(c)
  PROVE  Owned'
<1>1. /\ eof[c] \in Op /\ call[c].dev \in Dev /\ pc[c] = "eof_send"
      /\ \A b \in Caller \ {c} : pc'[b] = pc[b]
      /\ UNCHANGED <<pool, mine, eof, result>>
  BY CallFields DEF Owned, Base, Types, Fits, EofSend, Goto
<1>2. /\ asked' \in {asked, asked \cup {Request(eof[c], "mark", call[c].dev)}}
      /\ asked' # asked => pc'[c] = "eof_wait"
  BY DEF Owned, Base, Types, EofSend, Goto
<1> QED BY <1>1, <1>2, AskOwned

LEMMA RewindOwned ==
  ASSUME Owned, Base', NEW c \in Caller, Rewind(c)
  PROVE  Owned'
<1>1. /\ mine[c] \in Op /\ call[c].dev \in Dev /\ pc[c] = "rewind" /\ pc'[c] = "rewind_wait"
      /\ \A b \in Caller \ {c} : pc'[b] = pc[b]
      /\ UNCHANGED <<pool, mine, eof, result>>
  BY CallFields DEF Owned, Base, Types, Fits, Rewind, Goto
<1>2. asked' \in {asked, asked \cup {Request(mine[c], "other", call[c].dev)}}
  BY DEF Rewind
<1> QED BY <1>1, <1>2, AskOwned

LEMMA SendOwned ==
  ASSUME Owned, Base', NEW c \in Caller, Send(c)
  PROVE  Owned'
<1> DEFINE o == mine[c]
           w == What(call[c])
           q == Request(o, w, call[c].dev)
<1>1. /\ o \in Op /\ call[c].dev \in Dev /\ pc[c] = "send"
      /\ w \in {"open", "close", "read", "write", "nbwrite", "mark", "other"}
      /\ \A b \in Caller \ {c} : pc'[b] = pc[b]
      /\ UNCHANGED <<pool, eof, result>>
  BY CallFields, WhatType DEF Owned, Base, Types, Fits, Send, Goto, Return
<1>2. CASE w # "nbwrite" \/ (asked' = asked /\ mine' = mine)
  <2>1. UNCHANGED mine
    BY <1>2 DEF Send
  <2>2. CASE asked' = asked
    BY <1>1, <2>1, <2>2, WalksOwned
  <2>3. CASE asked' # asked
    <3>1. asked' = asked \cup {q} /\ pc'[c] = "wait" /\ w # "nbwrite"
      BY <1>2, <2>3 DEF Owned, Base, Types, Send, Goto
    <3> HIDE DEF q, w, o
    <3>2. w \in {"open", "close", "read", "write", "mark", "other"}
      BY <1>1, <3>1
    <3> QED BY <1>1, <2>1, <3>1, <3>2, AskOwned DEF o, q
  <2> QED BY <2>2, <2>3
<1>3. CASE w = "nbwrite" /\ ~(asked' = asked /\ mine' = mine)
  <2>1. /\ asked' = asked \cup {q} /\ mine'[c] = NoOp
        /\ \A b \in Caller \ {c} : mine'[b] = mine[b]
    BY <1>3 DEF Owned, Base, Types, Send
  <2>2. q.op = o /\ q.what = "nbwrite"
    BY <1>1, <1>3, RequestType
  <2>3. \A r \in asked : r.op # o
    BY <1>1, NoAnswerDue, NoOpAssumption
  <2>4. Adrift' = Adrift \cup {o}
    BY <2>1, <2>2 DEF Adrift
  <2>5. \A b \in Caller : mine'[b] # o /\ eof'[b] # o
    BY <1>1, <2>1, NoOpAssumption DEF Owned, OneOwner
  <2>6. OneOwner'
    <3>1. NoOp \notin pool /\ NoOp \notin Adrift /\ o # NoOp
      BY <1>1, NoOpAssumption DEF Owned, Base, Types, Adrift, Requests
    <3>2. \A b \in Caller : {mine'[b], eof'[b]} \cap (pool' \cup Adrift') = {}
      BY <1>1, <2>1, <2>4, <2>5, <3>1 DEF Owned, OneOwner
    <3>3. Op \subseteq pool' \cup Adrift' \cup {mine'[b] : b \in Caller} \cup {eof'[b] : b \in Caller}
      BY <1>1, <2>1, <2>4 DEF Owned, OneOwner
    <3> QED BY <1>1, <2>1, <2>4, <3>1, <3>2, <3>3 DEF Owned, OneOwner
  <2>7. AnswersFindTheirCall'
    <3>1. ASSUME NEW r \in asked', NEW p \in asked', r.op = p.op
          PROVE  r = p
      BY <2>1, <2>2, <2>3, <3>1 DEF Owned, AnswersFindTheirCall
    <3>2. ASSUME NEW r \in asked', r.what # "nbwrite"
          PROVE  /\ result'[r.op] = "none"
                 /\ \E b \in Caller : \/ mine'[b] = r.op /\ pc'[b] \in {"wait", "rewind_wait"}
                                      \/ eof'[b] = r.op /\ pc'[b] = "eof_wait"
      <4>1. r \in asked
        BY <2>1, <2>2, <3>2
      <4>2. PICK b \in Caller : \/ mine[b] = r.op /\ pc[b] \in {"wait", "rewind_wait"}
                                \/ eof[b] = r.op /\ pc[b] = "eof_wait"
        BY <3>2, <4>1 DEF Owned, AnswersFindTheirCall
      <4>3. b # c /\ result[r.op] = "none"
        BY <1>1, <3>2, <4>1, <4>2 DEF Owned, AnswersFindTheirCall
      <4> QED BY <1>1, <2>1, <4>2, <4>3
    <3> QED BY <3>1, <3>2 DEF AnswersFindTheirCall
  <2>8. Fresh'
    BY <1>1, <2>1 DEF Owned, Fresh
  <2> QED BY <2>6, <2>7, <2>8 DEF Owned
<1> QED BY <1>2, <1>3

LEMMA InterruptOwned ==
  ASSUME Owned, Base', NEW r \in asked, Interrupt(r)
  PROVE  Owned'
<1>1. /\ UNCHANGED <<pc, mine, eof>> /\ asked' = asked \ {r}
      /\ r.op \in Op /\ \A q \in asked : q.op = r.op => q = r
      /\ \A q \in asked : q.op \in Op
  BY DEF Owned, Base, Types, Requests, Interrupt, AnswersFindTheirCall
<1>2. CASE r.what = "nbwrite"
  <2>1. pool' = pool \cup {r.op} /\ UNCHANGED result
    BY <1>2 DEF Interrupt
  <2>2. Adrift' = Adrift \ {r.op} /\ r.op \in Adrift
    BY <1>1, <1>2 DEF Adrift
  <2>3. OneOwner'
    <3>1. \A b \in Caller : mine[b] # r.op /\ eof[b] # r.op
      BY <2>2 DEF Owned, OneOwner
    <3> QED BY <1>1, <2>1, <2>2, <3>1 DEF Owned, OneOwner
  <2>4. AnswersFindTheirCall'
    BY <1>1, <2>1 DEF Owned, AnswersFindTheirCall
  <2>5. Fresh'
    BY <1>1, <2>1 DEF Owned, Fresh
  <2> QED BY <2>3, <2>4, <2>5 DEF Owned
<1>3. CASE r.what # "nbwrite"
  <2>1. /\ UNCHANGED pool
        /\ \A o \in Op \ {r.op} : result'[o] = result[o]
    BY <1>3 DEF Interrupt, Owned, Base, Types
  <2>2. Adrift' = Adrift
    BY <1>1, <1>3 DEF Adrift
  <2>3. OneOwner'
    BY <1>1, <2>1, <2>2 DEF Owned, OneOwner
  <2>4. AnswersFindTheirCall'
    BY <1>1, <2>1 DEF Owned, AnswersFindTheirCall
  <2>5. ASSUME NEW b \in Caller
        PROVE  /\ pc[b] \notin {"wait", "rewind_wait"} => mine[b] = NoOp \/ mine[b] # r.op
               /\ pc[b] # "eof_wait" => eof[b] = NoOp \/ eof[b] # r.op
    BY NoAnswerDue
  <2>6. Fresh'
    BY <1>1, <2>1, <2>5 DEF Owned, Base, Types, Fresh
  <2> QED BY <2>3, <2>4, <2>6 DEF Owned
<1> QED BY <1>2, <1>3

LEMMA StepOwned ==
  ASSUME Owned, [Next]_vars
  PROVE  Owned'
<1>1. Base'
  BY StepBase DEF Owned
<1>2. ASSUME NEW c \in Caller, Step(c) PROVE Owned'
  BY <1>1, <1>2, ChangeOwned, EofSendOwned, WakeOwned, FreeOwned, DownOwned, RewindOwned,
     SendOwned DEF Step
<1>3. CASE InterruptUp \/ UNCHANGED vars
  <2>1. UNCHANGED <<pc, pool, mine, eof, asked, result>>
    BY <1>3 DEF InterruptUp, vars
  <2>2. OneOwner'
    BY <2>1, OwnersStay DEF Owned
  <2>3. AnswersFindTheirCall' /\ Fresh'
    BY <2>1 DEF Owned, AnswersFindTheirCall, Fresh
  <2> QED BY <1>1, <2>2, <2>3 DEF Owned
<1> QED BY <1>1, <1>2, <1>3, BeginOwned, DownOwned, InterruptOwned DEF Next

LEMMA InitOwned == Init => Owned
<1> SUFFICES ASSUME Init PROVE Owned
  OBVIOUS
<1>1. OneOwner
  BY NoOpAssumption DEF Init, OneOwner, Adrift
<1>2. AnswersFindTheirCall /\ Fresh
  BY NoOpAssumption DEF Init, AnswersFindTheirCall, Fresh
<1> QED BY <1>1, <1>2, InitBase DEF Owned

LEMMA AlwaysOwned == Spec => []Owned
BY InitOwned, StepOwned, PTL DEF Spec

(* Whatever the callers, the interrupts and the order of the answers, an   *)
(* op_struct is on op_struct_list, in one operation, in one nested ioctl   *)
(* or with one non-blocking write: free_op_struct, which the callers and   *)
(* vioHandleTapeEvent both call, never frees one twice and loses none.     *)
THEOREM OpsHaveOneOwner == Spec => []OneOwner
<1>1. Owned => OneOwner
  BY DEF Owned
<1> QED BY <1>1, AlwaysOwned, PTL

(* The correlation token of an event, which is the address of an op, is    *)
(* that of an op still in use for the request the event answers.           *)
THEOREM NoStrayAnswer == Spec => []AnswersFindTheirCall
<1>1. Owned => AnswersFindTheirCall
  BY DEF Owned
<1> QED BY <1>1, AlwaysOwned, PTL

-----------------------------------------------------------------------------
(* The third layer: reqSem.  A place of the semaphore is free, or taken by *)
(* an operation, a nested ioctl or a non-blocking write on its way, or is  *)
(* about to be given back by the interrupt handler.                        *)

Raised == IF raising THEN 1 ELSE 0

Counted ==
  /\ IsFiniteSet(holds) /\ IsFiniteSet(eofHolds)
  /\ sem + Cardinality(holds) + Cardinality(eofHolds) + Cardinality(Adrift) + Raised
       = Cardinality(Op)

IInv == Owned /\ Counted

LEMMA Counts ==
  ASSUME IInv
  PROVE  /\ IsFiniteSet(Adrift) /\ Adrift \subseteq Op
         /\ sem \in Nat /\ Cardinality(holds) \in Nat /\ Cardinality(eofHolds) \in Nat
         /\ Cardinality(Adrift) \in Nat /\ Cardinality(Op) \in Nat /\ Raised \in {0, 1}
<1>1. Adrift \subseteq Op
  BY DEF IInv, Owned, Base, Types, Adrift, Requests
<1>2. IsFiniteSet(Adrift)
  BY <1>1, OpAssumption, FS_Subset
<1>3. Raised \in {0, 1}
  BY DEF Raised
<1> QED BY <1>1, <1>2, <1>3, OpAssumption, FS_CardinalityType DEF IInv, Counted, Owned, Base, Types

(* Steps that neither take nor give back a place. *)
LEMMA PlacesStay ==
  ASSUME Counted, UNCHANGED <<sem, holds, eofHolds, raising>>, Adrift' = Adrift
  PROVE  Counted'
BY DEF Counted, Raised

LEMMA AdriftStays ==
  ASSUME NEW q, q.what # "nbwrite", asked' \in {asked, asked \cup {q}}
  PROVE  Adrift' = Adrift
BY DEF Adrift

LEMMA DownCounted ==
  ASSUME IInv, NEW c \in Caller, Down(c) \/ EofDown(c)
  PROVE  Counted'
<1>1. Adrift' = Adrift /\ Raised' = Raised
  BY DEF Down, EofDown, Adrift, Raised
<1>2. CASE UNCHANGED <<sem, holds>> /\ Down(c)
  <2>1. UNCHANGED <<eofHolds, raising>>
    BY <1>2 DEF Down
  <2> QED BY <1>1, <1>2, <2>1, PlacesStay DEF IInv
<1>3. CASE ~UNCHANGED <<sem, holds>> /\ Down(c)
  <2>1. /\ sem' = sem - 1 /\ holds' = holds \cup {c} /\ eofHolds' = eofHolds
        /\ c \notin holds
    BY <1>3 DEF Down, IInv, Owned, Base, Fits
  <2>2. IsFiniteSet(holds') /\ Cardinality(holds') = Cardinality(holds) + 1
    BY <2>1, FS_AddElement DEF IInv, Counted
  <2> QED BY <1>1, <2>1, <2>2, Counts DEF IInv, Counted
<1>4. CASE EofDown(c)
  <2>1. /\ sem' = sem - 1 /\ eofHolds' = eofHolds \cup {c} /\ holds' = holds
        /\ c \notin eofHolds
    BY <1>4 DEF EofDown, IInv, Owned, Base, Fits
  <2>2. IsFiniteSet(eofHolds') /\ Cardinality(eofHolds') = Cardinality(eofHolds) + 1
    BY <2>1, FS_AddElement DEF IInv, Counted
  <2> QED BY <1>1, <2>1, <2>2, Counts DEF IInv, Counted
<1> QED BY <1>2, <1>3, <1>4

LEMMA UpCounted ==
  ASSUME IInv, NEW c \in Caller, EofUp(c) \/ GiveSem(c)
  PROVE  Counted'
<1>1. Adrift' = Adrift /\ Raised' = Raised /\ sem' = sem + 1
  BY DEF EofUp, GiveSem, Adrift, Raised
<1>2. CASE EofUp(c)
  <2>1. eofHolds' = eofHolds \ {c} /\ holds' = holds /\ c \in eofHolds
    BY <1>2 DEF EofUp, IInv, Owned, Base, Fits
  <2>2. IsFiniteSet(eofHolds') /\ Cardinality(eofHolds') = Cardinality(eofHolds) - 1
    BY <2>1, FS_RemoveElement DEF IInv, Counted
  <2> QED BY <1>1, <2>1, <2>2, Counts DEF IInv, Counted
<1>3. CASE GiveSem(c)
  <2>1. holds' = holds \ {c} /\ eofHolds' = eofHolds /\ c \in holds
    BY <1>3 DEF GiveSem
  <2>2. IsFiniteSet(holds') /\ Cardinality(holds') = Cardinality(holds) - 1
    BY <2>1, FS_RemoveElement DEF IInv, Counted
  <2> QED BY <1>1, <2>1, <2>2, Counts DEF IInv, Counted
<1> QED BY <1>2, <1>3

LEMMA SendCounted ==
  ASSUME IInv, NEW c \in Caller, Send(c)
  PROVE  Counted'
<1> DEFINE w == What(call[c])
           q == Request(mine[c], w, call[c].dev)
<1>1. /\ pc[c] = "send" /\ call[c] \in Calls /\ mine[c] \in Op /\ q.op = mine[c] /\ q.what = w
      /\ w = "nbwrite" => c \in holds
  BY WhatType DEF Send, IInv, Owned, Base, Types, Fits, Request
<1>2. UNCHANGED <<sem, eofHolds, raising>> /\ Raised' = Raised
  BY DEF Send, Raised
<1>3. CASE UNCHANGED holds
  <2>1. asked' = asked \/ (asked' = asked \cup {q} /\ w # "nbwrite")
    BY <1>1, <1>3 DEF Send
  <2>2. Adrift' = Adrift
    BY <1>1, <2>1, AdriftStays DEF Adrift
  <2> QED BY <1>2, <1>3, <2>2, PlacesStay DEF IInv
<1>4. CASE ~UNCHANGED holds
  <2>1. w = "nbwrite" /\ asked' = asked \cup {q} /\ holds' = holds \ {c}
    BY <1>4 DEF Send
  <2>2. Adrift' = Adrift \cup {mine[c]}
    BY <1>1, <2>1 DEF Adrift
  <2>3. mine[c] \notin Adrift
    BY DEF IInv, Owned, OneOwner
  <2>4. Cardinality(Adrift') = Cardinality(Adrift) + 1
    BY <2>2, <2>3, Counts, FS_AddElement
  <2>5. IsFiniteSet(holds') /\ Cardinality(holds') = Cardinality(holds) - 1
    BY <1>1, <2>1, FS_RemoveElement DEF IInv, Counted
  <2> QED BY <1>2, <2>4, <2>5, Counts DEF IInv, Counted
<1> QED BY <1>3, <1>4

LEMMA InterruptCounted ==
  ASSUME IInv, (\E r \in asked : Interrupt(r)) \/ InterruptUp
  PROVE  Counted'
<1>1. CASE InterruptUp
  <2>1. Raised = 1 /\ Raised' = 0
    BY <1>1 DEF InterruptUp, Raised
  <2>2. UNCHANGED <<holds, eofHolds>> /\ Adrift' = Adrift /\ sem' = sem + 1
    BY <1>1 DEF InterruptUp, Adrift
  <2> QED BY <2>1, <2>2, Counts DEF IInv, Counted
<1>2. ASSUME NEW r \in asked, Interrupt(r), r.what # "nbwrite"
      PROVE  Counted'
  <2>1. UNCHANGED <<sem, holds, eofHolds, raising>> /\ asked' = asked \ {r}
    BY <1>2 DEF Interrupt
  <2>2. Adrift' = Adrift
    BY <1>2, <2>1 DEF Adrift
  <2> QED BY <2>1, <2>2, PlacesStay DEF IInv
<1>3. ASSUME NEW r \in asked, Interrupt(r), r.what = "nbwrite"
      PROVE  Counted'
  <2>1. /\ UNCHANGED <<sem, holds, eofHolds>> /\ asked' = asked \ {r}
        /\ Raised = 0 /\ Raised' = 1
    BY <1>3 DEF Interrupt, Raised
  <2>2. Adrift' = Adrift \ {r.op} /\ r.op \in Adrift
    BY <1>3, <2>1 DEF Adrift, IInv, Owned, AnswersFindTheirCall
  <2>3. Cardinality(Adrift') = Cardinality(Adrift) - 1
    BY <2>2, Counts, FS_RemoveElement
  <2> QED BY <2>1, <2>3, Counts DEF IInv, Counted
<1> QED BY <1>1, <1>2, <1>3

LEMMA StepCounted ==
  ASSUME IInv, [Next]_vars
  PROVE  Counted'
<1>1. ASSUME NEW c \in Caller, Change(c) \/ EofWake(c) \/ EofFree(c) \/ Rewound(c) \/ Wake(c) \/ GiveOp(c)
      PROVE  Counted'
  <2>1. UNCHANGED <<sem, holds, eofHolds, raising>> /\ Adrift' = Adrift
    BY <1>1 DEF Change, EofWake, EofFree, Rewound, Wake, GiveOp, Adrift
  <2> QED BY <2>1, PlacesStay DEF IInv
<1>2. ASSUME NEW c \in Caller, EofSend(c) \/ Rewind(c)
      PROVE  Counted'
  <2>1. \E q : q.what # "nbwrite" /\ asked' \in {asked, asked \cup {q}}
    <3>1. ASSUME NEW o, NEW d, NEW w \in {"mark", "other"},
                 asked' \in {asked, asked \cup {Request(o, w, d)}}
          PROVE  \E q : q.what # "nbwrite" /\ asked' \in {asked, asked \cup {q}}
      <4>1. Request(o, w, d).what # "nbwrite"
        BY DEF Request
      <4> QED BY <3>1, <4>1
    <3>2. CASE EofSend(c)
      <4>1. asked' \in {asked, asked \cup {Request(eof[c], "mark", call[c].dev)}}
        BY <3>2 DEF EofSend
      <4> QED BY <3>1, <4>1
    <3>3. CASE Rewind(c)
      <4>1. asked' \in {asked, asked \cup {Request(mine[c], "other", call[c].dev)}}
        BY <3>3 DEF Rewind
      <4> QED BY <3>1, <4>1
    <3> QED BY <1>2, <3>2, <3>3
  <2>2. UNCHANGED <<sem, holds, eofHolds, raising>>
    BY <1>2 DEF EofSend, Rewind
  <2> QED BY <2>1, <2>2, AdriftStays, PlacesStay DEF IInv
<1>3. ASSUME NEW c \in Caller, NEW k \in Calls, Begin(c, k)
      PROVE  Counted'
  <2>1. UNCHANGED <<sem, holds, eofHolds, raising>> /\ Adrift' = Adrift
    BY <1>3 DEF Begin, Refused, TakeOp, Adrift
  <2> QED BY <2>1, PlacesStay DEF IInv
<1>4. CASE UNCHANGED vars
  <2>1. UNCHANGED <<sem, holds, eofHolds, raising>> /\ Adrift' = Adrift
    BY <1>4 DEF vars, Adrift
  <2> QED BY <2>1, PlacesStay DEF IInv
<1> QED BY <1>1, <1>2, <1>3, <1>4, DownCounted, UpCounted, SendCounted, InterruptCounted
        DEF Next, Step

LEMMA InitCounted == Init => Counted
<1> SUFFICES ASSUME Init PROVE Counted
  OBVIOUS
<1>1. /\ holds = {} /\ eofHolds = {} /\ Adrift = {} /\ Raised = 0 /\ sem = Cardinality(Op)
  BY DEF Init, Adrift, Raised
<1>2. Cardinality(Op) \in Nat
  BY OpAssumption, FS_CardinalityType
<1> QED BY <1>1, <1>2, FS_EmptySet DEF Counted

LEMMA AlwaysIInv == Spec => []IInv
<1>1. Init => IInv
  BY InitOwned, InitCounted DEF IInv
<1>2. IInv /\ [Next]_vars => IInv'
  BY StepOwned, StepCounted DEF IInv
<1> QED BY <1>1, <1>2, PTL DEF Spec

-----------------------------------------------------------------------------
(* Every variable has its type, and up() never lifts reqSem beyond         *)
(* ACQD_MAXREQ: a place is given back once for each time it was taken,     *)
(* whoever gives it back.                                                  *)
THEOREM TypeCorrect == Spec => []TypeOK
<1>1. IInv => TypeOK
  <2> SUFFICES ASSUME IInv PROVE TypeOK
    OBVIOUS
  <2>1. sem \in 0..Cardinality(Op)
    BY Counts DEF IInv, Counted
  <2> QED BY <2>1 DEF IInv, Owned, Base, Types, TypeOK
<1> QED BY <1>1, AlwaysIInv, PTL

(* A function that gives each member a value of its own counts them.       *)
LEMMA CountImage ==
  ASSUME NEW S, IsFiniteSet(S), NEW f, NEW T, T = {f[x] : x \in S},
         \A x, y \in S : f[x] = f[y] => x = y
  PROVE  IsFiniteSet(T) /\ Cardinality(T) = Cardinality(S)
<1> DEFINE g == [x \in S |-> f[x]]
<1>1. g \in Bijection(S, T)
  BY DEF Bijection, Injection, Surjection, IsInjective
<1> QED BY <1>1, FS_Bijection DEF ExistsBijection

(* What two disjoint sets have together. *)
LEMMA CountDisjoint ==
  ASSUME NEW S, IsFiniteSet(S), NEW T, IsFiniteSet(T), S \cap T = {}
  PROVE  IsFiniteSet(S \cup T) /\ Cardinality(S \cup T) = Cardinality(S) + Cardinality(T)
<1>1. Cardinality(S) \in Nat /\ Cardinality(T) \in Nat /\ Cardinality(S \cap T) = 0
  BY FS_CardinalityType, FS_EmptySet
<1>2. /\ IsFiniteSet(S \cup T)
      /\ Cardinality(S \cup T) = Cardinality(S) + Cardinality(T) - Cardinality(S \cap T)
  BY FS_Union, Zenon
<1> QED BY <1>1, <1>2

(* While somebody is stopped at reqSem and nobody is about to raise it,    *)
(* each place that is taken stands for an op that is not the waiter's own. *)
LEMMA NotAllTaken ==
  ASSUME IInv, NEW w \in Caller, pc[w] \in {"down", "eof_down"}, sem = 0,
         ~raising, \A b \in Caller : ~AboutToUp(b)
  PROVE  FALSE
<1> DEFINE A == {mine[b] : b \in holds}
           B == {eof[b] : b \in eofHolds}
           own == IF pc[w] = "down" THEN mine[w] ELSE eof[w]
<1>1. \A b \in holds : b \in Caller /\ mine[b] \in Op
  <2> SUFFICES ASSUME NEW b \in holds PROVE b \in Caller /\ mine[b] \in Op
    OBVIOUS
  <2>1. b \in Caller /\ Fits(b) /\ mine[b] \in Op \cup {NoOp} /\ ~AboutToUp(b)
    BY DEF IInv, Owned, Base, Types
  <2> QED BY <2>1 DEF Fits, AboutToUp
<1>2. \A b \in eofHolds : b \in Caller /\ eof[b] \in Op
  <2> SUFFICES ASSUME NEW b \in eofHolds PROVE b \in Caller /\ eof[b] \in Op
    OBVIOUS
  <2>1. b \in Caller /\ Fits(b) /\ eof[b] \in Op \cup {NoOp} /\ ~AboutToUp(b)
    BY DEF IInv, Owned, Base, Types
  <2> QED BY <2>1 DEF Fits, AboutToUp
<1>3. IsFiniteSet(A) /\ Cardinality(A) = Cardinality(holds)
  <2>1. \A x, y \in holds : mine[x] = mine[y] => x = y
    BY <1>1, NoOpAssumption DEF IInv, Owned, OneOwner
  <2> QED BY <2>1, CountImage DEF IInv, Counted
<1>4. IsFiniteSet(B) /\ Cardinality(B) = Cardinality(eofHolds)
  <2>1. \A x, y \in eofHolds : eof[x] = eof[y] => x = y
    BY <1>2, NoOpAssumption DEF IInv, Owned, OneOwner
  <2> QED BY <2>1, CountImage DEF IInv, Counted
<1>5. A \cap B = {} /\ (A \cup B) \cap Adrift = {} /\ A \subseteq Op /\ B \subseteq Op
  BY <1>1, <1>2, NoOpAssumption DEF IInv, Owned, OneOwner
<1>6. own \in Op /\ own \notin A /\ own \notin B /\ own \notin Adrift
  <2>1. Fits(w) /\ mine[w] \in Op \cup {NoOp} /\ eof[w] \in Op \cup {NoOp}
    BY DEF IInv, Owned, Base, Types
  <2>2. CASE pc[w] = "down"
    <3>1. own = mine[w] /\ own # NoOp /\ w \notin holds
      BY <2>1, <2>2 DEF Fits
    <3> QED BY <1>1, <1>2, <2>1, <3>1 DEF IInv, Owned, OneOwner
  <2>3. CASE pc[w] = "eof_down"
    <3>1. own = eof[w] /\ own # NoOp /\ w \notin eofHolds
      BY <2>1, <2>3 DEF Fits
    <3> QED BY <1>1, <1>2, <2>1, <3>1 DEF IInv, Owned, OneOwner
  <2> QED BY <2>2, <2>3
<1> HIDE DEF A, B, own
<1>7. IsFiniteSet(A \cup B) /\ Cardinality(A \cup B) = Cardinality(A) + Cardinality(B)
  BY <1>3, <1>4, <1>5, CountDisjoint
<1>8. Cardinality(A \cup B \cup Adrift) = Cardinality(A \cup B) + Cardinality(Adrift)
  BY <1>5, <1>7, Counts, CountDisjoint
<1>9. Cardinality(A \cup B \cup Adrift) = Cardinality(Op)
  BY <1>3, <1>4, <1>7, <1>8, Counts DEF IInv, Counted, Raised
<1>10. A \cup B \cup Adrift = Op
  BY <1>5, <1>9, Counts, OpAssumption, FS_Subset
<1> QED BY <1>6, <1>10

(* A caller stopped at reqSem never waits for the tape: each call has      *)
(* taken an op before it comes to down(), and there are as many places as  *)
(* ops, so whoever keeps it waiting has freed an op and calls up() next.   *)
THEOREM WaitsAreShort == Spec => []WaitIsShort
<1>1. IInv => WaitIsShort
  BY NotAllTaken DEF WaitIsShort
<1> QED BY <1>1, AlwaysIInv, PTL
=============================================================================
