----------------------------- MODULE ConfigRing -----------------------------
(***************************************************************************)
(* The configuration manager of acq_config.c: the ring of stations         *)
(* (config_info_t) that the manager keeps sorted by position, the station  *)
(* the user is looking at, the last one looked at, and two counters.       *)
(*                                                                         *)
(* Here the ring is the sequence of stations met when following next from  *)
(* mgr->first.  ConfigLinks.tla has the next and prev pointers themselves  *)
(* and is shown to implement this module.                                  *)
(*                                                                         *)
(* The manager is single-threaded: every action is one complete call.      *)
(***************************************************************************)
EXTENDS Integers, Sequences, SequencesExt

CONSTANTS
  Station,      (* heap cells a config_info_t can be allocated in            *)
  NoStation,    (* the NULL config_info_t pointer                            *)
  Positions,    (* the positions callers ask for                             *)
  MaxPosition,  (* bound: config_add stops being called beyond this position *)
  MaxConfigs    (* bound: calls that count a station stop at this num_configs *)

ASSUME NoStationAssumption == NoStation \notin Station
ASSUME PositionsAssumption == Positions \subseteq Nat
ASSUME BoundsAssumption    == MaxPosition \in Nat /\ MaxConfigs \in Nat

VARIABLES
  ring,          (* stations in next order, from mgr->first                  *)
  circular,      (* do next and prev close the ring?  They are NULL in the   *)
                 (* station config_new allocates                             *)
  pos,           (* position of each station                                 *)
  active,        (* stations whose active flag is set                        *)
  devices,       (* stations whose devices pointer is not NULL               *)
  commtype,      (* stations whose commtype pointer is not NULL              *)
  current,       (* mgr->current                                             *)
  last_device,   (* mgr->last_device: a position, not a station              *)
  num_configs,
  max_position,
  status         (* "none": no manager; "live"; "fault": a wild or NULL      *)
                 (* pointer was followed; "hung": a call never returns       *)

vars == <<ring, circular, pos, active, devices, commtype, current,
          last_device, num_configs, max_position, status>>

stationVars == <<pos, active, devices, commtype>>
counters    == <<num_configs, max_position>>

-----------------------------------------------------------------------------
(* Reading the ring.                                                       *)

Live     == status = "live"
OnRing   == ToSet(ring)
Detached == ring # <<>> /\ ~circular

IndexOf(s) == CHOOSE k \in 1..Len(ring) : ring[k] = s

(* isFreePos *)
FreePos(p) == \A k \in 1..Len(ring) : pos[ring[k]] # p

(* Mutant: the position before the first station, not after the last.      *)
NextPos_Before == IF ring = <<>> THEN 1 ELSE pos[ring[1]] - 1

(* getNextPos: one after the station before first. *)
NextPos == IF ring = <<>> THEN 1 ELSE pos[ring[Len(ring)]] + 1

(* config_get_current_id *)
CurrentId == IF current = NoStation THEN 0 ELSE pos[current]

(* Mutant: links that do not close; a walk sticks at the ends of the list. *)
Around_Clamped(k, hops) ==
  LET t == k + hops
  IN  ring[IF t < 1 THEN 1 ELSE IF t > Len(ring) THEN Len(ring) ELSE t]

(* Mutant: the station itself is read where its next was meant.            *)
Around_Self(k, hops) == ring[k]

(* The station met after following next `hops` times from index k, or prev *)
(* -hops times.                                                            *)
Around(k, hops) == ring[((k - 1 + hops) % Len(ring)) + 1]

(* Mutant: a station is linked in before first without looking.            *)
WalkStops_Front(r, q, p, k) == k = 1

(* The loop of insert: it walks from first while the positions it sees are *)
(* smaller and stops before index k, or comes back to first (k past the    *)
(* end).                                                                   *)
WalkStops(r, q, p, k) ==
  /\ \A j \in 1..(k - 1) : q[r[j]] < p
  /\ k <= Len(r) => q[r[k]] > p

MaxOf(a, b) == IF a > b THEN a ELSE b

Fault ==
  /\ status' = "fault"
  /\ UNCHANGED <<ring, circular, stationVars, current, last_device, counters>>

-----------------------------------------------------------------------------
(* Making and deleting a manager.                                          *)

(* What config_new returns.  A file that is missing or empty gives a       *)
(* station with the default device list and interface; a parsed file gives *)
(* one with a device list (unless an allocation fails) and no interface,   *)
(* because config_addcomm is empty.  Neither sets the station's links.     *)
(* When the station of a parsed file cannot be allocated the caller still  *)
(* gets a manager, an empty one.                                           *)
NewManager ==
  /\ status' = "live"
  /\ last_device' = 0
  /\ num_configs' = 0
  /\ max_position' = 0
  /\ \/ \E s \in Station :
          /\ ring' = <<s>>
          /\ circular' = FALSE
          /\ pos' = [pos EXCEPT ![s] = 0]
          /\ active' = {s}
          /\ current' = s
          /\ \/ devices' = {s} /\ commtype' = {s}
             \/ devices' \in {{}, {s}} /\ commtype' = {}
     \/ /\ current' = NoStation
        /\ UNCHANGED <<ring, circular, stationVars>>

(* config_new.  A document that is not a configuration is freed and then   *)
(* read all the same.                                                      *)
config_new == status = "none" /\ (NewManager \/ Fault)

config_delete ==
  /\ Live
  /\ status' = "none"
  /\ ring' = <<>>
  /\ circular' = TRUE
  /\ pos' = [s \in Station |-> 0]
  /\ active' = {} /\ devices' = {} /\ commtype' = {}
  /\ current' = NoStation
  /\ last_device' = 0 /\ num_configs' = 0 /\ max_position' = 0

-----------------------------------------------------------------------------
(* Choosing the current station.                                           *)

SetCurrent(s) ==
  /\ current' = s
  /\ last_device' = IF s = current THEN last_device ELSE CurrentId
  /\ UNCHANGED <<ring, circular, stationVars, counters, status>>

(* config_set: the walk over a detached station follows its NULL next      *)
(* unless the station itself has the position.                             *)
config_set(p) ==
  /\ Live
  /\ \/ \E k \in 1..Len(ring) : pos[ring[k]] = p /\ SetCurrent(ring[k])
     \/ Detached /\ FreePos(p) /\ Fault
     \/ ~Detached /\ FreePos(p) /\ UNCHANGED vars

(* config_set_by_name: names are left out, so any station may be the one   *)
(* whose name matches, and possibly none does.                             *)
config_set_by_name ==
  /\ Live
  /\ \/ \E s \in OnRing : SetCurrent(s)
     \/ Detached /\ Fault
     \/ ~Detached /\ UNCHANGED vars

config_prev == config_set(last_device)

(* Mutant: the flag is read before the step, not after it.                 *)
BrowseStops_Before(k, dir, hops) ==
  /\ Around(k, dir * (hops - 1)) \in active \/ hops = Len(ring)
  /\ \A h \in 1..(hops - 1) : Around(k, dir * (h - 1)) \notin active

(* The loop of config_inc (dir = 1) and config_dec (dir = -1): it stops at *)
(* the first active station met going round, or back where it started.     *)
BrowseStops(k, dir, hops) ==
  /\ Around(k, dir * hops) \in active \/ hops = Len(ring)
  /\ \A h \in 1..(hops - 1) : Around(k, dir * h) \notin active

Browse(dir) ==
  /\ Live
  /\ \/ /\ current # NoStation
        /\ circular
        /\ \E hops \in 1..Len(ring) :
             /\ BrowseStops(IndexOf(current), dir, hops)
             /\ current' = Around(IndexOf(current), dir * hops)
        /\ last_device' = CurrentId
        /\ UNCHANGED <<ring, circular, stationVars, counters, status>>
     \/ Detached /\ Fault
     \/ /\ current = NoStation
        /\ last_device' = 0
        /\ UNCHANGED <<ring, circular, stationVars, current, counters, status>>

config_inc == Browse(1)
config_dec == Browse(-1)

-----------------------------------------------------------------------------
(* Changing the current station.                                           *)

config_set_current_active(on) ==
  /\ Live /\ current # NoStation
  /\ active' = IF on THEN active \cup {current} ELSE active \ {current}
  /\ UNCHANGED <<ring, circular, pos, devices, commtype, current,
                 last_device, counters, status>>

(* config_activate_all_channels *)
config_activate_all_channels ==
  /\ Live
  /\ active' = OnRing
  /\ UNCHANGED <<ring, circular, pos, devices, commtype, current,
                 last_device, counters, status>>

(* config_add_devlist gives the current station a device list; when it     *)
(* already has one it only selects or adds another.  Allocation may fail.  *)
config_add_devlist ==
  /\ Live /\ current # NoStation
  /\ devices' = devices \cup {current}
  /\ UNCHANGED <<ring, circular, pos, active, commtype, current,
                 last_device, counters, status>>

(* config_add_commlist: looking for a second interface type follows the    *)
(* prev of the first one, which was never initialised.                     *)
config_add_commlist ==
  /\ Live /\ current # NoStation
  /\ \/ /\ commtype' = commtype \cup {current}
        /\ UNCHANGED <<ring, circular, pos, active, devices, current,
                       last_device, counters, status>>
     \/ current \in commtype /\ Fault

-----------------------------------------------------------------------------
(* Adding, removing and moving stations.                                   *)

(* What insert does to the counters, before it looks for a place. *)
CountInsert(p) ==
  /\ num_configs < MaxConfigs
  /\ num_configs' = num_configs + 1
  /\ max_position' = MaxOf(max_position, p)

(* config_add of a position, with or without a device name.  strcasecmp    *)
(* gets the name before the code tests it for NULL; a detached station's   *)
(* links are followed whatever the position.                               *)
config_add(p, named) ==
  LET target == IF FreePos(p) THEN p ELSE NextPos
      faults == Detached \/ (~named /\ current \in devices)
  IN
  /\ Live
  /\ \/ faults /\ Fault
     \/ /\ ~faults
        /\ target <= MaxPosition
        /\ \E s \in Station \ OnRing, k \in 1..(Len(ring) + 1) :
             /\ WalkStops(ring, pos, target, k)
             /\ ring' = InsertAt(ring, k, s)
             /\ pos' = [pos EXCEPT ![s] = target]
             /\ active' = active \cup {s}
             /\ current' = s
        /\ CountInsert(target)
        /\ UNCHANGED <<circular, devices, commtype, last_device, status>>

(* config_remove: the counters and last_device are not touched. *)
config_remove ==
  /\ Live
  /\ current # NoStation
  /\ \/ Detached /\ Fault
     \/ /\ circular
        /\ LET k == IndexOf(current) IN
           /\ ring' = RemoveAt(ring, k)
           /\ current' = IF Len(ring) = 1 THEN NoStation ELSE Around(k, 1)
        /\ pos' = [pos EXCEPT ![current] = 0]
        /\ active' = active \ {current}
        /\ devices' = devices \ {current}
        /\ commtype' = commtype \ {current}
        /\ UNCHANGED <<circular, last_device, counters, status>>

(* config_remap to a free position: rip out, renumber, insert again. *)
RemapFree(p) ==
  LET rest == RemoveAt(ring, IndexOf(current)) IN
  /\ FreePos(p)
  /\ pos' = [pos EXCEPT ![current] = p]
  /\ \E k \in 1..(Len(rest) + 1) :
       /\ WalkStops(rest, pos', p, k)
       /\ ring' = InsertAt(rest, k, current)
  /\ CountInsert(p)

(* Mutant: the station in the way is sent to the end of the ring instead.  *)
RemapSwap_Evict(p) ==
  \E o \in 1..Len(ring) :
    LET rest == RemoveAt(ring, o) IN
    /\ pos[ring[o]] = p
    /\ pos' = [pos EXCEPT ![ring[o]] = NextPos, ![current] = p]
    /\ ring' = Append(rest, ring[o])
    /\ CountInsert(NextPos)

(* config_remap to a position in use: both stations are ripped out, the    *)
(* positions are exchanged and both are inserted, the current one last.    *)
RemapSwap(p) ==
  \E o \in 1..Len(ring) :
    LET old   == ring[o]
        less1 == RemoveAt(ring, o)
        less2 == RemoveAt(less1, CHOOSE k \in 1..Len(less1) : less1[k] = current)
    IN
    /\ pos[old] = p
    /\ pos' = [pos EXCEPT ![old] = pos[current], ![current] = p]
    /\ \E j \in 1..(Len(less2) + 1) :
         /\ WalkStops(less2, pos', pos[current], j)
         /\ LET with1 == InsertAt(less2, j, old) IN
            \E k \in 1..(Len(with1) + 1) :
              /\ WalkStops(with1, pos', p, k)
              /\ ring' = InsertAt(with1, k, current)
    /\ num_configs + 1 < MaxConfigs
    /\ num_configs' = num_configs + 2
    /\ max_position' = MaxOf(max_position, MaxOf(p, pos[current]))

config_remap(p) ==
  /\ Live
  /\ current # NoStation
  /\ p # pos[current]
  /\ \/ Detached /\ Fault
     \/ /\ circular
        /\ RemapFree(p) \/ RemapSwap(p)
        /\ UNCHANGED <<circular, active, devices, commtype, current,
                       last_device, status>>

-----------------------------------------------------------------------------
(* config_writeconfig.  Its walk ends at a NULL next, which a closed ring  *)
(* does not have; and it reads the names of the device list and of the     *)
(* interface of every station.                                             *)

config_writeconfig ==
  /\ Live /\ ring # <<>>
  /\ \/ UNCHANGED vars   (* written, or the file there is cannot be parsed *)
     \/ ~(OnRing \subseteq devices \cap commtype) /\ Fault
     \/ /\ OnRing \subseteq devices \cap commtype
        /\ circular
        /\ status' = "hung"
        /\ UNCHANGED <<ring, circular, stationVars, current, last_device,
                       counters>>

-----------------------------------------------------------------------------
Init ==
  /\ ring = <<>>
  /\ circular = TRUE
  /\ pos = [s \in Station |-> 0]
  /\ active = {} /\ devices = {} /\ commtype = {}
  /\ current = NoStation
  /\ last_device = 0
  /\ num_configs = 0
  /\ max_position = 0
  /\ status = "none"

Next ==
  \/ config_new
  \/ config_delete
  \/ \E p \in Positions : config_set(p)
  \/ config_set_by_name
  \/ config_prev
  \/ config_inc
  \/ config_dec
  \/ \E on \in BOOLEAN : config_set_current_active(on)
  \/ config_activate_all_channels
  \/ config_add_devlist
  \/ config_add_commlist
  \/ \E p \in Positions, named \in BOOLEAN : config_add(p, named)
  \/ config_remove
  \/ \E p \in Positions : config_remap(p)
  \/ config_writeconfig

Spec == Init /\ [][Next]_vars

-----------------------------------------------------------------------------
(* Properties.                                                             *)

(* Every variable has its type; what is recorded about stations is about   *)
(* stations on the ring, and a detached manager has exactly one.           *)
TypeOK ==
  /\ ring \in Seq(Station)
  /\ circular \in BOOLEAN
  /\ pos \in [Station -> Nat]
  /\ active \subseteq OnRing /\ devices \subseteq OnRing /\ commtype \subseteq OnRing
  /\ current \in Station \cup {NoStation}
  /\ last_device \in Nat
  /\ num_configs \in Nat /\ max_position \in Nat
  /\ status \in {"none", "live", "fault", "hung"}
  /\ ~circular => Len(ring) = 1

(* Do the positions q increase strictly along r?                           *)
Sorted(r, q) == \A j, k \in 1..Len(r) : j < k => q[r[j]] < q[r[k]]

(* From first the positions strictly increase, whatever adds, removals,    *)
(* remaps to a free position and remaps that exchange two stations have    *)
(* been made: no two stations share a position, and the first-to-last walk *)
(* of insert and the "one after the last" of getNextPos stay valid.        *)
RingSorted == Sorted(ring, pos)

(* The current station is on the ring, and there is one exactly when the   *)
(* ring is not empty: neither config_remove nor the two ripouts of a remap *)
(* leave mgr->current on a freed or unlinked station.                      *)
CurrentOnRing ==
  IF ring = <<>> THEN current = NoStation ELSE current \in OnRing

(* The inductive invariant: between managers there is no ring.             *)
IInv ==
  /\ TypeOK
  /\ RingSorted
  /\ CurrentOnRing
  /\ status = "none" => ring = <<>>

(* A station keeps its position for life, except that config_remap moves   *)
(* the current one and may make one other take exactly the place it left.  *)
MovesOnlyByRemap ==
  \A s \in OnRing \cap OnRing' :
    pos'[s] # pos[s] =>
      /\ current' = current
      /\ s # current => pos'[s] = pos[current] /\ pos'[current] = pos[s]

StationsMove == [][MovesOnlyByRemap]_vars

(* Where config_inc (dir = 1) or config_dec (dir = -1) would go from s. *)
BrowseFrom(dir, s) ==
  LET k == IndexOf(s)
  IN  Around(k, dir * CHOOSE hops \in 1..Len(ring) : BrowseStops(k, dir, hops))

(* Where n calls of config_inc lead from the current station. *)
Scan[n \in 0..Len(ring)] == IF n = 0 THEN current ELSE BrowseFrom(1, Scan[n - 1])

(* Scanning with config_inc reaches every active station before it has     *)
(* made as many steps as there are stations, wherever it starts: the       *)
(* wrap-around that config_get_current_pos is there to notice loses none.  *)
ScanCoversActive ==
  Live /\ circular /\ ring # <<>> =>
    LET scan == Scan IN active \subseteq {scan[n] : n \in 0..Len(ring)}

(* config_dec takes back what config_inc has done and the other way round, *)
(* for a user who starts at an active station: whatever inactive stations  *)
(* lie between, and wherever the ring closes, the loop along next and the  *)
(* loop along prev stop at each other's ends.                              *)
BrowseReturns ==
  Live /\ circular /\ current \in active =>
    \A dir \in {-1, 1} : BrowseFrom(-dir, BrowseFrom(dir, current)) = current
=============================================================================
