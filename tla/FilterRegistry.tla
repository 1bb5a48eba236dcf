---------------------------- MODULE FilterRegistry --------------------------
(***************************************************************************)
(* The lists of filter drivers that registry.c keeps in the registry, the  *)
(* LowerFilters of each USB device, and the three passes over all devices  *)
(* that edit them: acqd_service_start_filter and acqd_service_stop_filter  *)
(* of service.c and acqd_registry_install_composite_filter.  A list is     *)
(* read in one step and written back in another; passes of several         *)
(* processes, and the setup programs of other drivers, interleave.  A list *)
(* that cannot be read, or is longer than the buffer, is taken for an      *)
(* empty one by an insert, and passed over by a removal.                   *)
(*                                                                         *)
(* The NT branches are modelled.  Hardware ids and the names of services   *)
(* do not change and can be read, the name of no other filter contains     *)
(* that of ours, and names in lower case, as they are written back, are    *)
(* the same names.                                                         *)
(***************************************************************************)
EXTENDS Naturals, FiniteSets, SequencesExt

CONSTANTS
  Proc,       (* the processes that edit the lists                           *)
  Device,     (* the USB devices the registry knows                          *)
  NoDevice,
  Changing,   (* those that come and go and whose lists others edit          *)
  Hardware,   (* what their ids and drivers say: [interface, stub, product]  *)
  Preset      (* their lists before this code has run                        *)

ASSUME NoDeviceAssumption == NoDevice \notin Device
ASSUME ChangingAssumption == Changing \subseteq Device
ASSUME HardwareAssumption ==
  Hardware \in [Device -> [interface : BOOLEAN, stub : BOOLEAN, product : Nat]]

Ours   == "libacqdfl"
Filter == {Ours, "other"}

(* What else edits these lists puts our filter on no list, or once.        *)
ASSUME PresetAssumption ==
  /\ Preset \in [Device -> Seq(Filter)]
  /\ \A d \in Device : \A i, j \in 1..Len(Preset[d]) :
       Preset[d][i] = Ours /\ Preset[d][j] = Ours => i = j

VARIABLES
  filters,    (* the LowerFilters of each device                             *)
  present,    (* external: the devices that are plugged in                   *)
  pass,       (* the pass each process is in                                 *)
  spoilt      (* history: the processes that are about to write a list with  *)
              (* other filters of others than are on it now: they could not  *)
              (* read it, or others have changed it since they have          *)

registry == <<filters, present, pass, spoilt>>

Jobs == {"install", "sweep", "composite"}

(* A pass has devices to do, and may have read the list of one of them.    *)
Pass == [job : Jobs \cup {"none"}, todo : SUBSET Device,
         at : Device \cup {NoDevice}, list : Seq(Filter)]

NoPass == [job |-> "none", todo |-> {}, at |-> NoDevice, list |-> <<>>]

-----------------------------------------------------------------------------
(* Which devices a pass is for.                                            *)

(* The hardware ids of a device begin with usb\vid_xxxx&pid_yyyy; what is  *)
(* copied of them is the length of acqd\vid_xxxx&pid_yyyy, and the ids of  *)
(* an interface are searched for that copy followed by &mi_.               *)
UsbIdLength  == 21
CopiedLength == 22

acqd_registry_is_composite_interface(d) == Hardware[d].interface

acqd_registry_is_service_libacqd(d) == Hardware[d].stub

acqd_registry_is_composite_libacqd(d) ==
  /\ ~acqd_registry_is_composite_interface(d)
  /\ \E i \in Device :
       /\ acqd_registry_is_composite_interface(i)
       /\ CopiedLength = UsbIdLength /\ Hardware[i].product = Hardware[d].product
       /\ acqd_registry_is_service_libacqd(i)

Wants(j, d) ==
  \/ j = "install"   /\ ~acqd_registry_is_composite_interface(d)
  \/ j = "sweep"     /\ ~acqd_registry_is_composite_libacqd(d)
                     /\ ~acqd_registry_is_service_libacqd(d)
  \/ j = "composite" /\ acqd_registry_is_composite_libacqd(d)

(* Mutant: the sweep, too, asks for devices that are plugged in.           *)
Listed_Present(j) == present

(* SetupDiGetClassDevs: acqd_service_start_filter asks for devices that    *)
(* are plugged in, the others for all.                                     *)
Listed(j) == IF j = "install" THEN present ELSE Device

-----------------------------------------------------------------------------
(* Editing one list.                                                       *)

Has(list) == Contains(list, Ours)

(* acqd_registry_insert_filter and acqd_registry_remove_filter, up to the  *)
(* writing: does the list change, and into what?                           *)
Edits(j, list) == IF j = "sweep" THEN Has(list) ELSE ~Has(list)

(* Mutant: what follows our filter in the list is cut off with it.         *)
Edited_Cut(j, list) ==
  IF j = "sweep" THEN SubSeq(list, 1, SelectInSeq(list, LAMBDA f : f = Ours) - 1)
                 ELSE Append(list, Ours)

Edited(j, list) == IF j = "sweep" THEN RemoveFirst(list, Ours) ELSE Append(list, Ours)

(* The list without our filter. *)
Others(list) ==
  LET kept[i \in 0..Len(list)] ==
        IF i = 0 THEN <<>>
        ELSE IF list[i] = Ours THEN kept[i - 1] ELSE Append(kept[i - 1], list[i])
  IN  kept[Len(list)]

-----------------------------------------------------------------------------
(* The steps of a pass.  What says which devices it wants does not change, *)
(* so the others are left out from the start.  A list of devices that      *)
(* cannot be had ends it.                                                  *)

Wanted(j) == {d \in Listed(j) : Wants(j, d)}

Scan(p, j) ==
  \E seen \in {Wanted(j), {}} :
    pass' = [pass EXCEPT ![p] = [NoPass EXCEPT !.job = j, !.todo = seen]]

PassOver(p) == pass[p].todo = {}

(* The pass is done with a device.                                         *)
Leaving(s, d) == [s EXCEPT !.todo = s.todo \ {d}, !.at = NoDevice, !.list = <<>>]

(* Who has read the list of a device and not yet written it.               *)
Holders(d) == {p \in Proc : pass[p].at = d}

(* The next device: read its list, and keep it if it is to change.         *)
Visit(p) ==
  /\ pass[p].at = NoDevice
  /\ \E d \in pass[p].todo :
       pass' = [pass EXCEPT ![p] =
                  IF Edits(@.job, filters[d])
                  THEN [@ EXCEPT !.at = d, !.list = filters[d]]
                  ELSE Leaving(@, d)]
  /\ UNCHANGED <<filters, present, spoilt>>

(* The next device, whose list cannot be read.  An insert does not look at *)
(* what acqd_registry_get_property returns and goes on with the buffer,    *)
(* which is empty; a removal leaves the device as it is.                   *)
ReadFails(p) ==
  /\ pass[p].at = NoDevice
  /\ \E d \in pass[p].todo :
       IF pass[p].job = "sweep"
       THEN pass' = [pass EXCEPT ![p] = Leaving(@, d)] /\ UNCHANGED spoilt
       ELSE /\ pass' = [pass EXCEPT ![p] = [@ EXCEPT !.at = d, !.list = <<>>]]
            /\ spoilt' = IF Others(filters[d]) = <<>> THEN spoilt ELSE spoilt \cup {p}
  /\ UNCHANGED <<filters, present>>

(* acqd_registry_set_property succeeds.  After an insert                   *)
(* acqd_service_start_filter restarts the device and begins from the start.*)
Write(p) ==
  LET d == pass[p].at  j == pass[p].job IN
  /\ d # NoDevice
  /\ filters' = [filters EXCEPT ![d] = Edited(j, pass[p].list)]
  /\ IF j = "install"
     THEN Scan(p, j)
     ELSE pass' = [pass EXCEPT ![p] = Leaving(@, d)]
  /\ spoilt' = (IF p \in spoilt THEN spoilt \cup Holders(d) ELSE spoilt) \ {p}
  /\ UNCHANGED present

(* Mutant: the device whose list could not be written is not left.         *)
WriteFails_Stays(p) ==
  /\ pass[p].at # NoDevice
  /\ pass' = [pass EXCEPT ![p] = [@ EXCEPT !.todo = @ \ {pass[p].at}]]
  /\ UNCHANGED <<filters, present, spoilt>>

(* It fails.                                                               *)
WriteFails(p) ==
  /\ pass[p].at # NoDevice
  /\ pass' = [pass EXCEPT ![p] = Leaving(@, pass[p].at)]
  /\ spoilt' = spoilt \ {p}
  /\ UNCHANGED <<filters, present>>

(* External: a device is plugged in or out.                                *)
Plug(d) ==
  /\ d \in Changing
  /\ present' = IF d \in present THEN present \ {d} ELSE present \cup {d}
  /\ UNCHANGED <<filters, pass, spoilt>>

(* External: the setup of another driver puts its filter on the list of a  *)
(* device, or takes it off, at one go.                                     *)
OthersEdit(d) ==
  /\ d \in Changing
  /\ \/ \E f \in Filter \ {Ours} :
          ~Contains(filters[d], f) /\ filters' = [filters EXCEPT ![d] = Append(@, f)]
     \/ \E k \in 1..Len(filters[d]) :
          filters[d][k] # Ours /\ filters' = [filters EXCEPT ![d] = RemoveAt(@, k)]
  /\ spoilt' = spoilt \cup Holders(d)
  /\ UNCHANGED <<present, pass>>

RegistryInit ==
  /\ filters = Preset
  /\ present = Device
  /\ pass = [p \in Proc |-> NoPass]
  /\ spoilt = {}

-----------------------------------------------------------------------------
RegistryTypeOK ==
  /\ filters \in [Device -> Seq(Filter)]
  /\ present \subseteq Device
  /\ pass \in [Proc -> Pass]
  /\ spoilt \subseteq {p \in Proc : pass[p].at # NoDevice}
  /\ \A p \in Proc : pass[p].at # NoDevice => pass[p].at \in pass[p].todo

(* However the passes of the service and of installers interleave with     *)
(* each other and with other setup programs, what a pass writes adds,      *)
(* loses or moves a filter of others only if this very pass could not read *)
(* the list, or others have changed the list since it read it; and ours is *)
(* on no list more than once.                                              *)
OthersKept ==
  \A d \in Device : filters'[d] # filters[d] =>
    /\ Others(filters'[d]) # Others(filters[d]) =>
         OthersEdit(d) \/ \E p \in spoilt : pass[p].at = d /\ Write(p)
    /\ Len(filters'[d]) <= Len(Others(filters'[d])) + 1

ListsIntact == [][OthersKept]_registry
=============================================================================
