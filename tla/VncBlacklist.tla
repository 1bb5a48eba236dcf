---------------------------- MODULE VncBlacklist ----------------------------
(***************************************************************************)
(* Who may connect to the VNC server: VerifyHost of vncServer.cpp with its *)
(* filter of hosts and its blacklist, and AddAuthHostsBlacklist and        *)
(* RemAuthHostsBlacklist, which a client calls when its password is wrong  *)
(* and when it is right.  Each call holds m_clientsLock throughout.        *)
(*                                                                         *)
(* A client (external) is verified, let in or turned away, and later, when *)
(* others have been, fails or passes.  Times are kept relative to now: an  *)
(* entry's left is its _lastRefTime minus the clock, which only goes on.   *)
(***************************************************************************)
EXTENDS Integers, Sequences, SequencesExt

CONSTANTS
  Host,        (* names of machines, as sequences of characters              *)
  AuthHosts,   (* filters that may be set, as sequences of characters        *)
  Settings,    (* values of QuerySetting that may be set                     *)
  Hold,        (* 10: the seconds an entry is kept, or blocked               *)
  Limit,       (* 5: the failures counted beyond which a machine is blocked  *)
  MaxTrying    (* bound on the clients of one machine that are being let in  *)

ASSUME HoldAssumption  == Hold \in Nat \ {0}
ASSUME LimitAssumption == Limit \in Nat \ {0}
ASSUME SettingsAssumption == Settings \subseteq 0..4
ASSUME TryingAssumption == MaxTrying \in Nat
ASSUME CharactersAssumption == Host \cup AuthHosts \subseteq Seq(STRING)

VARIABLES
  order,       (* the machines on the list, from m_blacklist on              *)
  entry,       (* the fields of their entries                                *)
  auth_hosts,  (* m_auth_hosts                                               *)
  setting,     (* m_querysetting                                             *)
  trying,      (* clients of each machine that have been let in              *)
  fails,       (* history: failures of a machine since it last passed        *)
  streak,      (* history: failures no more than Hold seconds apart          *)
  quietFor,    (* history: seconds since the last failure of a machine       *)
  blockedFor   (* history: seconds since a machine was last blocked          *)

vars == <<order, entry, auth_hosts, setting, trying, fails, streak, quietFor, blockedFor>>

NoEntry == [blocked |-> FALSE, count |-> 0, left |-> -1, listed |-> FALSE]

Listed(h)  == entry[h].listed
Blocked(h) == entry[h].listed /\ entry[h].blocked

(* The machines of r that are in a set, in their order.                    *)
Among(hosts, r) ==
  LET kept[i \in 0..Len(r)] ==
        IF i = 0 THEN <<>>
        ELSE IF r[i] \in hosts THEN Append(kept[i - 1], r[i]) ELSE kept[i - 1]
  IN  kept[Len(r)]

(* Mutant: the first entry of the list is not unlinked.                    *)
Linked_First(entries) ==
  IF order = <<>> THEN <<>>
  ELSE <<Head(order)>> \o Among({h \in Host : entries[h].listed}, Tail(order))

(* The list without the entries that are taken off.                        *)
Linked(entries) == Among({h \in Host : entries[h].listed}, order)

Capped(n, max) == IF n < max THEN n ELSE max

(* The failures that make a block: the first makes the entry.              *)
Enough == Limit + 2

-----------------------------------------------------------------------------
(* The filter: items [+-?]pattern, separated by colons.                    *)

Accept == 0   Query == 1   Reject == 2

Verdict(c) == CASE c = "+" -> Accept [] c = "?" -> Query [] c = "-" -> Reject

MatchStringToTemplate(addr, filt) ==
  /\ IsPrefix(filt, addr)
  /\ \/ Len(filt) \in {0, Len(addr)}
     \/ addr[Len(filt) + 1] = "."

(* Mutant: the end of the string does not end the last item.               *)
EndsItem_Colon(s, i) == i <= Len(s) /\ s[i] = ":"

EndsItem(s, i) == i > Len(s) \/ s[i] = ":"

(* One character of the filter s, the last being the terminating zero.     *)
Process(h, s, i, m) ==
  CASE m.mode = "sign" /\ i > Len(s) -> m
    [] m.mode = "sign" /\ i <= Len(s) ->
         IF s[i] \in {"+", "-", "?"}
         THEN [m EXCEPT !.mode = "pattern", !.type = Verdict(s[i]), !.from = i + 1]
         ELSE [m EXCEPT !.mode = "delimiter"]
    [] m.mode # "sign" /\ EndsItem(s, i) ->
         [m EXCEPT !.mode = "sign",
                   !.verdict = IF m.mode = "pattern"
                                  /\ MatchStringToTemplate(h, SubSeq(s, m.from, i - 1))
                               THEN m.type ELSE @]
    [] OTHER -> m

(* What the filter says of the machine h. *)
Filtered(h, s) ==
  LET walk[i \in 0..Len(s) + 1] ==
        IF i = 0 THEN [mode |-> "sign", type |-> Reject, from |-> 0, verdict |-> Accept]
                 ELSE Process(h, s, i, walk[i - 1])
  IN walk[Len(s) + 1].verdict

(* The server's QuerySetting makes that stricter or more lenient.          *)
Adjusted(v, q) ==
  CASE v = Accept -> IF q >= 3 THEN Query ELSE Accept
    [] v = Query  -> IF q <= 1 THEN Accept ELSE IF q = 4 THEN Reject ELSE Query
    [] v = Reject -> IF q = 0 THEN Query ELSE Reject

-----------------------------------------------------------------------------
(* VerifyHost.                                                             *)

(* Mutant: a machine whose block has timed out starts anew.                *)
Aged_Forgiven(e) ==
  IF e.left >= 0 THEN e
  ELSE IF e.blocked THEN [e EXCEPT !.blocked = FALSE, !.left = Hold, !.count = 0]
  ELSE NoEntry

(* An entry that has timed out is unblocked, or taken off the list.        *)
Aged(e) ==
  IF e.left >= 0 THEN e
  ELSE IF e.blocked THEN [e EXCEPT !.blocked = FALSE, !.left = Hold]
  ELSE NoEntry

(* The walk goes through the list until it meets the machine, blocked.     *)
StillBlocked(h) == Blocked(h) /\ entry[h].left >= 0

Walked(h) ==
  IF StillBlocked(h) THEN {order[i] : i \in 1..SelectInSeq(order, LAMBDA x : x = h)}
                     ELSE Host

Answer(h) ==
  IF StillBlocked(h) THEN Reject ELSE Adjusted(Filtered(h, auth_hosts), setting)

VerifyHost(h) ==
  /\ trying[h] < MaxTrying
  /\ entry' = [x \in Host |-> IF Listed(x) /\ x \in Walked(h) THEN Aged(entry[x]) ELSE entry[x]]
  /\ order' = Linked(entry')
  /\ trying' = IF Answer(h) = Reject THEN trying ELSE [trying EXCEPT ![h] = @ + 1]
  /\ UNCHANGED <<auth_hosts, setting, fails, streak, quietFor, blockedFor>>

-----------------------------------------------------------------------------
(* A client that was let in gives a password.                              *)

(* Mutant: the time of an entry is set again before it is seen that it is  *)
(* blocked.                                                                *)
Failure_Extends(e) ==
  IF ~e.listed THEN [blocked |-> FALSE, count |-> 0, left |-> Hold, listed |-> TRUE]
  ELSE IF e.blocked THEN [e EXCEPT !.left = Hold]
  ELSE [e EXCEPT !.left = Hold, !.count = @ + 1, !.blocked = e.count + 1 > Limit]

(* One more failure of a machine with the entry e; the first is not counted*)
Failure(e) ==
  IF ~e.listed THEN [blocked |-> FALSE, count |-> 0, left |-> Hold, listed |-> TRUE]
  ELSE IF e.blocked THEN e
  ELSE [e EXCEPT !.left = Hold, !.count = Capped(@ + 1, Limit + 1), !.blocked = e.count + 1 > Limit]

AddAuthHostsBlacklist(h) ==
  /\ trying[h] > 0
  /\ trying' = [trying EXCEPT ![h] = @ - 1]
  /\ entry' = [entry EXCEPT ![h] = Failure(@)]
  /\ order' = IF Listed(h) THEN order ELSE <<h>> \o order
  /\ fails' = [fails EXCEPT ![h] = Capped(@ + 1, Enough)]
  /\ streak' = [streak EXCEPT ![h] = IF quietFor[h] <= Hold THEN Capped(@ + 1, Enough) ELSE 1]
  /\ quietFor' = [quietFor EXCEPT ![h] = 0]
  /\ blockedFor' = IF ~Blocked(h) /\ entry'[h].blocked THEN [blockedFor EXCEPT ![h] = 0] ELSE blockedFor
  /\ UNCHANGED <<auth_hosts, setting>>

RemAuthHostsBlacklist(h) ==
  /\ trying[h] > 0
  /\ trying' = [trying EXCEPT ![h] = @ - 1]
  /\ entry' = [entry EXCEPT ![h] = NoEntry]
  /\ order' = Linked(entry')
  /\ fails' = [fails EXCEPT ![h] = 0]
  /\ streak' = [streak EXCEPT ![h] = 0]
  /\ UNCHANGED <<auth_hosts, setting, quietFor, blockedFor>>

(* A client that was let in goes without an answer. *)
GivesUp(h) ==
  /\ trying[h] > 0
  /\ trying' = [trying EXCEPT ![h] = @ - 1]
  /\ UNCHANGED <<order, entry, auth_hosts, setting, fails, streak, quietFor, blockedFor>>

-----------------------------------------------------------------------------
SetAuthHosts(s) ==
  /\ auth_hosts' = s
  /\ UNCHANGED <<order, entry, setting, trying, fails, streak, quietFor, blockedFor>>

SetQuerySetting(q) ==
  /\ setting' = q
  /\ UNCHANGED <<order, entry, auth_hosts, trying, fails, streak, quietFor, blockedFor>>

(* A second passes.                                                        *)
Tick ==
  /\ entry' = [h \in Host |-> IF entry[h].left >= 0 THEN [entry[h] EXCEPT !.left = @ - 1] ELSE entry[h]]
  /\ quietFor' = [h \in Host |-> Capped(quietFor[h] + 1, Hold + 1)]
  /\ blockedFor' = [h \in Host |-> Capped(blockedFor[h] + 1, Hold + 1)]
  /\ UNCHANGED <<order, auth_hosts, setting, trying, fails, streak>>

Init ==
  /\ order = <<>>
  /\ entry = [h \in Host |-> NoEntry]
  /\ auth_hosts = <<>>
  /\ setting \in Settings
  /\ trying = [h \in Host |-> 0]
  /\ fails = [h \in Host |-> 0]
  /\ streak = [h \in Host |-> 0]
  /\ quietFor = [h \in Host |-> Hold + 1]
  /\ blockedFor = [h \in Host |-> Hold + 1]

Next ==
  \/ \E h \in Host : VerifyHost(h) \/ AddAuthHostsBlacklist(h)
                     \/ RemAuthHostsBlacklist(h) \/ GivesUp(h)
  \/ \E s \in AuthHosts : SetAuthHosts(s)
  \/ \E q \in Settings : SetQuerySetting(q)
  \/ Tick

Spec == Init /\ [][Next]_vars

-----------------------------------------------------------------------------
(* Properties.                                                             *)

(* Every variable has its type, and the list names each machine that has   *)
(* an entry once.                                                          *)
TypeOK ==
  /\ entry \in [Host -> [blocked : BOOLEAN, count : 0..Limit + 1, left : -1..Hold, listed : BOOLEAN]]
  /\ auth_hosts \in AuthHosts \cup {<<>>}
  /\ setting \in Settings
  /\ trying \in [Host -> 0..MaxTrying]
  /\ fails \in [Host -> 0..Enough] /\ streak \in [Host -> 0..Enough]
  /\ quietFor \in [Host -> 0..Hold + 1] /\ blockedFor \in [Host -> 0..Hold + 1]
  /\ order \in Seq(Host) /\ IsInjective(order)
  /\ \A h \in Host : Listed(h) <=> Contains(order, h)

(* A machine is blocked only after Enough failures since it last passed,   *)
(* and for Hold seconds from the last of them: what its other clients do   *)
(* meanwhile, who were let in before, does not make the block longer.      *)
BlocksAreEarned ==
  \A h \in Host : Blocked(h) =>
    /\ fails[h] = Enough
    /\ entry[h].left = Hold - blockedFor[h]

(* A machine with Enough failures in a row, none more than Hold seconds    *)
(* after the one before, is blocked by the last of them and by each that   *)
(* follows, whenever the list was walked in between.                       *)
StreakBlocks ==
  [][\A h \in Host :
       AddAuthHostsBlacklist(h) /\ streak'[h] = Enough => Blocked(h)']_vars

(* The items of a filter. *)
Items(s) == {ab \in (1..Len(s)) \X (1..Len(s)) :
               /\ ab[1] <= ab[2]
               /\ ab[1] = 1 \/ s[ab[1] - 1] = ":"
               /\ ab[2] = Len(s) \/ s[ab[2] + 1] = ":"
               /\ \A i \in ab[1]..ab[2] : s[i] # ":"}

Covers(h, s, ab) ==
  LET pattern == SubSeq(s, ab[1] + 1, ab[2]) IN
  /\ s[ab[1]] \in {"+", "-", "?"}
  /\ pattern = <<>> \/ pattern = h \/ IsPrefix(pattern \o <<".">>, h)

NoEmptyItem(s) == \A i \in 1..Len(s) : s[i] = ":" => i > 1 /\ s[i - 1] # ":"

(* The filter's verdict is that of the last item that covers the machine,  *)
(* and to accept if there is none; items that make no sense are passed     *)
(* over.  An empty item makes the code pass over the one after it, too.    *)
FilterIsLastMatch ==
  NoEmptyItem(auth_hosts) =>
    \A h \in Host :
      LET covering == {ab \in Items(auth_hosts) : Covers(h, auth_hosts, ab)} IN
      \/ covering = {} /\ Filtered(h, auth_hosts) = Accept
      \/ \E ab \in covering :
           /\ \A other \in covering : other[1] <= ab[1]
           /\ Filtered(h, auth_hosts) = Verdict(auth_hosts[ab[1]])
=============================================================================
