----------------------------- MODULE ConfigLinks ----------------------------
(***************************************************************************)
(* The configuration manager of acq_config.c with its pointers: the        *)
(* manager and the stations it has allocated are one record, and each call *)
(* is the sequence of pointer assignments the code makes, as functions     *)
(* from record to record.  Following a NULL pointer is a fault.            *)
(*                                                                         *)
(* The module implements ConfigRing: reading the stations off in next      *)
(* order from first gives the ring there.                                  *)
(***************************************************************************)
EXTENDS Integers, Sequences, FiniteSets, SequencesExt

CONSTANTS
  Station, NoStation, Positions,
  MaxPosition, MaxConfigs   (* the bounds of ConfigRing *)

ASSUME StationAssumption   == IsFiniteSet(Station)
ASSUME NoStationAssumption == NoStation \notin Station
ASSUME PositionsAssumption == Positions \subseteq Nat
ASSUME BoundsAssumption    == MaxPosition \in Nat /\ MaxConfigs \in Nat

VARIABLE m   (* config_mgr_t, and next, prev, pos and flags of every station *)

Ptr == Station \cup {NoStation}

Manager ==
  [status : {"none", "live", "fault", "hung"}, first : Ptr, current : Ptr,
   last_device : Nat, num_configs : Nat, max_position : Nat,
   heap : SUBSET Station,   (* stations allocated and not freed *)
   next : [Station -> Ptr], prev : [Station -> Ptr], pos : [Station -> Nat],
   active : SUBSET Station, devices : SUBSET Station, commtype : SUBSET Station]

NoManager ==
  [status |-> "none", first |-> NoStation, current |-> NoStation,
   last_device |-> 0, num_configs |-> 0, max_position |-> 0,
   heap |-> {},
   next |-> [s \in Station |-> NoStation], prev |-> [s \in Station |-> NoStation],
   pos |-> [s \in Station |-> 0],
   active |-> {}, devices |-> {}, commtype |-> {}]

Live     == m.status = "live"
Wild(h)  == [h EXCEPT !.status = "fault"]
MaxOf(a, b) == IF a > b THEN a ELSE b

-----------------------------------------------------------------------------
(* Walking.                                                                *)

(* The pointers met by following a link from p, n times. *)
Following(link, p, n) ==
  LET at[k \in 0..n] ==
        IF k = 0 THEN p ELSE IF at[k - 1] = NoStation THEN NoStation ELSE link[at[k - 1]]
  IN  at

Met(h) == Following(h.next, h.first, Cardinality(Station))

(* do { if (rp in stops) break; rp = rp->next; } while (rp != first), for  *)
(* a first that is not NULL: where it ends, and why.                       *)
Walk(h, stops) ==
  LET at == Met(h)
      Back(k) == k > 0 /\ at[k] = h.first
      Ends(k) == Back(k) \/ at[k] = NoStation \/ at[k] \in stops
      k == CHOOSE i \in 0..Cardinality(Station) : Ends(i) /\ \A j \in 0..(i - 1) : ~Ends(j)
  IN  [rp |-> at[k],
       how |-> IF Back(k) THEN "back" ELSE IF at[k] = NoStation THEN "null" ELSE "found"]

AtPos(h, p) == Walk(h, {s \in Station : h.pos[s] = p})

(* isFreePos *)
isFreePos(h, p) == h.first = NoStation \/ AtPos(h, p).how = "back"

(* The stations on the ring in next order: what ConfigRing calls ring. *)
RingOf(h) ==
  LET at == Met(h)
      n  == CHOOSE n \in 1..Cardinality(Station) :
              at[n] \in {h.first, NoStation} /\ \A j \in 1..(n - 1) : at[j] \notin {h.first, NoStation}
  IN  IF h.first = NoStation THEN <<>> ELSE [k \in 1..n |-> at[k - 1]]

-----------------------------------------------------------------------------
(* insert and ripout.                                                      *)

(* insert counts first. *)
Counted(h, i) ==
  [h EXCEPT !.num_configs = h.num_configs + 1,
            !.max_position = MaxOf(h.max_position, h.pos[i])]

(* Into an empty ring. *)
Alone(h, i) ==
  [h EXCEPT !.first = i, !.next = [h.next EXCEPT ![i] = i],
            !.prev = [h.prev EXCEPT ![i] = i], !.current = i]

(* Mutant: the prev of the station after the new one is not set.           *)
LinkIn_ForgetPrev(h, i, rp) ==
  [h EXCEPT !.next = [h.next EXCEPT ![i] = rp, ![h.prev[rp]] = i],
            !.prev = [h.prev EXCEPT ![i] = h.prev[rp]],
            !.first = IF rp = h.first /\ h.pos[i] < h.pos[h.first] THEN i ELSE h.first,
            !.current = i]

(* Before rp.  When the walk came back to first, that is the end. *)
LinkIn(h, i, rp) ==
  [h EXCEPT !.next = [h.next EXCEPT ![i] = rp, ![h.prev[rp]] = i],
            !.prev = [h.prev EXCEPT ![i] = h.prev[rp], ![rp] = i],
            !.first = IF rp = h.first /\ h.pos[i] < h.pos[h.first] THEN i ELSE h.first,
            !.current = i]

(* insert.  A position in use is refused. *)
Insert(h, i) ==
  LET c == Counted(h, i)
      w == Walk(c, {s \in Station : c.pos[s] >= c.pos[i]})
  IN
  IF c.first = NoStation THEN Alone(c, i)
  ELSE IF w.how = "found" /\ c.pos[w.rp] = c.pos[i] THEN c
  ELSE IF w.how = "null" \/ c.prev[w.rp] = NoStation THEN Wild(c)
  ELSE LinkIn(c, i, w.rp)

(* Joins the neighbours nx and pv of rp; first and current step off rp. *)
Joined(h, rp, nx, pv) ==
  [h EXCEPT !.prev = [h.prev EXCEPT ![nx] = pv], !.next = [h.next EXCEPT ![pv] = nx],
            !.first = IF rp = h.first THEN nx ELSE h.first,
            !.current = IF rp = h.current THEN nx ELSE h.current]

(* Mutant: ripping out the first station leaves first on it.               *)
Unlink_KeepFirst(h, rp) ==
  LET c == [Joined(h, rp, h.next[rp], h.prev[rp]) EXCEPT !.first = h.first]
  IN  IF rp = h.next[rp] THEN [c EXCEPT !.first = NoStation, !.current = NoStation] ELSE c

(* The unlinking shared by ripout and config_remove: a ring of one becomes *)
(* empty.                                                                  *)
Unlink(h, rp) ==
  LET c == Joined(h, rp, h.next[rp], h.prev[rp])
  IN  IF NoStation \in {h.next[rp], h.prev[rp]} THEN Wild(h)
      ELSE IF rp = h.next[rp] THEN [c EXCEPT !.first = NoStation, !.current = NoStation]
      ELSE c

-----------------------------------------------------------------------------
(* Making and deleting a manager.                                          *)

config_new ==
  /\ m.status = "none"
  /\ \/ \E s \in Station :
          LET one == [NoManager EXCEPT !.status = "live", !.heap = {s}, !.first = s,
                                       !.current = s, !.active = {s}]
          IN  \/ m' = [one EXCEPT !.devices = {s}, !.commtype = {s}]
              \/ \E d \in {{}, {s}} : m' = [one EXCEPT !.devices = d]
     \/ m' = [NoManager EXCEPT !.status = "live"]
     \/ m' = Wild(m)   (* the document of another kind, freed and then read *)

config_delete == Live /\ m' = NoManager

-----------------------------------------------------------------------------
(* Choosing the current station.                                           *)

CurrentId == IF m.current = NoStation THEN 0 ELSE m.pos[m.current]

SetCurrent(s) ==
  IF s = m.current THEN m ELSE [m EXCEPT !.last_device = CurrentId, !.current = s]

config_set(p) ==
  LET w == AtPos(m, p) IN
  /\ Live
  /\ m' = IF m.first = NoStation \/ w.how = "back" THEN m
          ELSE IF w.how = "null" THEN Wild(m) ELSE SetCurrent(w.rp)

(* Some set of stations has the name looked for. *)
config_set_by_name(named) ==
  LET w == Walk(m, named) IN
  /\ Live
  /\ m' = IF m.first = NoStation \/ w.how = "back" THEN m
          ELSE IF w.how = "null" THEN Wild(m) ELSE SetCurrent(w.rp)

config_prev == config_set(m.last_device)

(* Mutant: an inactive station next to the current one ends the scan.      *)
Browse_NoWrap(link) ==
  /\ Live
  /\ LET h == [m EXCEPT !.last_device = CurrentId]
         nx == link[m.current]
     IN  m' = IF m.current = NoStation THEN h
              ELSE IF nx = NoStation THEN Wild(h)
              ELSE [h EXCEPT !.current = IF nx \in m.active THEN nx ELSE m.current]

(* do { current = current->link; } while (!current->active && current != i) *)
Browse(link) ==
  LET h  == [m EXCEPT !.last_device = CurrentId]
      at == Following(link, m.current, Cardinality(Station))
      Ends(k) == at[k] \in m.active \cup {NoStation, m.current}
      k  == CHOOSE i \in 1..Cardinality(Station) : Ends(i) /\ \A j \in 1..(i - 1) : ~Ends(j)
  IN
  /\ Live
  /\ m' = IF m.current = NoStation THEN h
          ELSE IF at[k] = NoStation THEN Wild(h)
          ELSE [h EXCEPT !.current = at[k]]

config_inc == Browse(m.next)
config_dec == Browse(m.prev)

-----------------------------------------------------------------------------
(* Changing the current station.                                           *)

config_set_current_active(on) ==
  /\ Live /\ m.current # NoStation
  /\ m' = [m EXCEPT !.active = IF on THEN @ \cup {m.current} ELSE @ \ {m.current}]

(* while (rp) { rp->active = 1; rp = rp->next; if (rp == first) break; } *)
config_activate_all_channels ==
  /\ Live
  /\ m' = [m EXCEPT !.active = @ \cup ToSet(RingOf(m))]

config_add_devlist ==
  /\ Live /\ m.current # NoStation
  /\ m' = [m EXCEPT !.devices = @ \cup {m.current}]

config_add_commlist ==
  /\ Live /\ m.current # NoStation
  /\ \/ m' = [m EXCEPT !.commtype = @ \cup {m.current}]
     \/ m.current \in m.commtype /\ m' = Wild(m)

-----------------------------------------------------------------------------
(* Adding, removing and moving stations.                                   *)

(* getNextPos, through first->prev. *)
getNextPos(h) == h.pos[h.prev[h.first]] + 1

config_add(p, named) ==
  LET w    == AtPos(m, p)
      used == ~isFreePos(m, p)
      wild == \/ ~named /\ m.current \in m.devices
              \/ m.first # NoStation /\ w.how = "null"
              \/ used /\ m.prev[m.first] = NoStation
      q    == IF used THEN getNextPos(m) ELSE p
  IN
  /\ Live
  /\ \/ wild /\ m' = Wild(m)
     \/ /\ ~wild /\ q <= MaxPosition /\ m.num_configs < MaxConfigs
        /\ \E i \in Station \ m.heap :
             m' = Insert([m EXCEPT !.heap = @ \cup {i}, !.active = @ \cup {i},
                                   !.pos[i] = q], i)

(* Mutant: the station is unlinked and never freed.                        *)
Free_Leak(h, i) == h

(* free(i) *)
Free(h, i) ==
  [h EXCEPT !.heap = @ \ {i}, !.pos[i] = 0, !.next[i] = NoStation, !.prev[i] = NoStation,
            !.active = @ \ {i}, !.devices = @ \ {i}, !.commtype = @ \ {i}]

config_remove ==
  LET h == Unlink(m, m.current) IN
  /\ Live
  /\ m.current # NoStation
  /\ m' = IF h.status = "fault" THEN h ELSE Free(h, m.current)

config_remap(p) ==
  LET i     == m.current
      moved == [Unlink(m, i) EXCEPT !.pos[i] = p]
      old   == AtPos(m, p).rp
      h     == Unlink(Unlink(m, old), i)
      both  == [h EXCEPT !.pos[old] = h.pos[i], !.pos[i] = p]
  IN
  /\ Live
  /\ i # NoStation
  /\ p # m.pos[i]
  /\ \/ AtPos(m, p).how = "null" /\ m' = Wild(m)
     \/ /\ isFreePos(m, p)
        /\ m.num_configs < MaxConfigs
        /\ m' = Insert(moved, i)
     \/ /\ AtPos(m, p).how = "found"
        /\ m.num_configs + 1 < MaxConfigs
        /\ m' = Insert(Insert(both, old), i)

-----------------------------------------------------------------------------
(* config_writeconfig: the walk over the stations ends only at a NULL.     *)
config_writeconfig ==
  LET on == ToSet(RingOf(m)) IN
  /\ Live /\ m.first # NoStation
  /\ \/ UNCHANGED m   (* written, or the file there cannot be parsed *)
     \/ ~(on \subseteq m.devices \cap m.commtype) /\ m' = Wild(m)
     \/ /\ on \subseteq m.devices \cap m.commtype
        /\ NoStation \notin {m.next[s] : s \in on}
        /\ m' = [m EXCEPT !.status = "hung"]

-----------------------------------------------------------------------------
Init == m = NoManager

Next ==
  \/ config_new
  \/ config_delete
  \/ \E p \in Positions : config_set(p)
  \/ \E named \in SUBSET Station : config_set_by_name(named)
  \/ config_prev
  \/ config_inc
  \/ config_dec
  \/ \E on \in BOOLEAN : config_set_current_active(on)
  \/ config_activate_all_channels
  \/ config_add_devlist
  \/ config_add_commlist
  \/ \E p \in Positions, named \in BOOLEAN : config_add(p, named)
  \/ config_remove
  \/ \E p \in Positions : config_remap(p)
  \/ config_writeconfig

Spec == Init /\ [][Next]_m

-----------------------------------------------------------------------------
(* Properties.                                                             *)

(* A pointer that is followed is NULL or a station that has not been freed. *)
TypeOK ==
  /\ m \in Manager
  /\ {m.first, m.current} \subseteq m.heap \cup {NoStation}
  /\ \A s \in m.heap : {m.next[s], m.prev[s]} \subseteq m.heap \cup {NoStation}

(* On a closed ring, next and prev undo each other at every station, so    *)
(* browsing down retraces browsing up and a ripout joins the right two.    *)
LinksAgree ==
  \A s \in ToSet(RingOf(m)) :
    m.next[s] # NoStation => m.prev[m.next[s]] = s /\ m.next[m.prev[s]] = s

(* Every station that was allocated is reached from first: no sequence of  *)
(* ripouts and inserts drops one.                                          *)
NoneLost == m.heap = ToSet(RingOf(m))

(* The refinement of ConfigRing: every call on the pointers is the call of *)
(* the same name on the sequence of stations, or changes nothing.          *)
Ring == INSTANCE ConfigRing WITH
  ring         <- RingOf(m),
  circular     <- m.first = NoStation \/ m.next[m.first] # NoStation,
  pos          <- m.pos,
  active       <- m.active,
  devices      <- m.devices,
  commtype     <- m.commtype,
  current      <- m.current,
  last_device  <- m.last_device,
  num_configs  <- m.num_configs,
  max_position <- m.max_position,
  status       <- m.status

ImplementsRing == Ring!Spec
=============================================================================
