# A TLA+ model of iowl

iowl (`src/REANE.md`) is a data logger: a daemon that reads sensors through
drivers, keeps a configuration of stations, devices and sensors, and passes data on to
clients and to other daemons.  This directory holds TLA+ modules that model its logic,
the TLC configurations that check them on small instances, and proofs that TLAPS checks
for every value of the constants.

Run `tlc -config X.cfg M` for a run of the table below (`M` is the module the cfg is named
after: `MCVncServerDead.cfg` belongs to `MCVncServer.tla`) and `tlapm M.tla` for a module
of proofs.

## The system

`src/server/src/Makefile` builds two programs: `acqd` (acqd.c, acq_handle.c, acq_daemon.c,
acq_hw.c, acq_config.c, acq_log.c, and the empty acq_manage.c and acq_device.c) and
`acqserv` (acqserv.c, acq_thread.c, acq_proto.c).  threads.c, drivers/viotape.c and
win32/service/ are kept in the tree beside them and have no rule there.

| Part | State it keeps | Operations | Works with | What is hard | What makes it correct |
|---|---|---|---|---|---|
| Configuration manager (acq_config.c) | `config_mgr_t`: a doubly linked ring of stations, the current one, the position of the last one, two counters; per station a list of devices, each with a list of sensors, and a list of interfaces; an XML file | new, delete, set, set by name, prev, inc, dec, add, remove, remap, (de)activate, add a device, add an interface, write | acqd reads the configuration at its start and finds peers and devices in it | long sequences of calls; positions at the ends of the ring; links of a ring of one; the manager as `config_new` leaves it; stale positions | the ring stays closed, sorted and free of leaks; current is on it; a scan misses no active station; only a remap moves a station |
| Tape driver (drivers/viotape.c) | a free list of op structs, a semaphore, a completion per op, the read/write state per tape | open, release, read, write, ioctl, the interrupt handler, `chg_state` | threads of the kernel, the hypervisor's event queue | three ways to give an op back, one in the interrupt handler; an ioctl nested in the others; non-blocking calls | an op has one owner; an answer finds its call; every call returns; EOF marks follow the data |
| Thread library (threads.c) | a re-entrant mutex (owner, depth, waiters), the library lock, thread-local state, the main thread, once-flags; three builds | lock, unlock, lock the library, get and clean the state | every user of libacq2 | wake-ups that are stolen, spurious or lost; nesting; a token that is NULL | mutual exclusion; the lock is re-entrant; a free lock is taken |
| acqd event loop (acqd.c, acq_handle.c) | the listening socket, arrays of clients and of their kinds, an array of peers with reconnection times, one message being passed on | add and remove a client, connect and reconnect to peers, read a message, write it to all | the configuration (peers), signals (acq_daemon.c) | – | not modelled: nothing of it can run (see the end) |
| acqserv (acqserv.c, acq_thread.c, acq_proto.c) | a slot per client, a thread per client, 3-byte commands | accept, spawn, join; send and receive a buffer in pieces | clients (src/test) | short reads and writes, errors and end of file in the middle; joining a thread that runs for ever | a command arrives whole or not at all; every client is served |
| Windows service (service_nt.c, service.c, nsis.c) | the status of the service and the event that stops it, shared by `main` and the control handler | the service puts our filter on every USB device once a second; installers create, start, stop and delete it and take the filters off | the service control manager, the filter registry | the control handler runs beside `main`; a stop may come at any point; polling with a time-out; rescans against an uninstall | a service that says it is stopped is quiet; a stop is heeded; an uninstall leaves nothing |
| Filter registry (registry.c) | the LowerFilters list of each device | insert, remove, classify a device | service.c, the installer | a list is read and written back in two calls, by several processes and by other setup programs; reading or writing fails; devices come and go | no pass loses what another has written, and filters of others only where a list could not be read or they changed it in between; ours is there at most once |
| VNC client registry (vncServer.cpp, vncSockConnect.cpp) | client slots, lists of authorised and unauthorised clients, a listening thread; a filter of hosts, a blacklist with times and counts | add, authenticate, kill, remove, wait until empty; verify a host, note a failure or a success | client threads, the service menu | every operation is called from several threads; waiting for signals; entries that time out when somebody looks | a slot has one client; a client is in one list; waiting ends; a block is earned and ends |
| VNC service wrapper (vncService.cpp) | the status, the worker's thread number, whether a user is impersonated | start, work, control, report; install and remove; impersonate the user that logs on | the service control manager, the server above, a helper process of each user | three threads and a remover without a lock; WM_QUIT to a thread without a queue; a flag that stands for a token of one thread and is set beside it | "stopped" means gone; removal returns; the flag and the token differ for moments only |
| Rest | – | logging, timing, Windows 9x and installer glue, test programs | – | – | not modelled |

The hazards these parts are exposed to are listed in `PROJECT.json`, each at its line, with
the properties that would catch it.

## The modules

| Module | Models | Notes |
|---|---|---|
| `ConfigRing` | acq_config.c as a sequence of stations in `next` order | the abstract specification of the manager, and the one the proofs are about |
| `ConfigLinks` | the same calls on the `next`, `prev`, `first`, `current` pointers | shown to implement `ConfigRing` |
| `Viotape` | viotape.c: op pool, `reqSem`, completions, interrupt handler, `chg_state` | one action per piece of code between two accesses to shared data |
| `RMutex` | the pthread build of the re-entrant mutex of threads.c, and the library lock | a step is what a thread does while it has `tok->lock` |
| `VncServer` | vncServer.cpp (the client registry) with the accept thread of vncSockConnect.cpp | clients, the listener and the controlling thread; client objects and the desktop are external |
| `ReentrantLock` | what a re-entrant lock promises | implemented by `RMutex` |
| `ScManager` | the entry of a service at the service control manager of Windows, as its callers see it | external; shared by `WinService` and `VncService` |
| `FilterRegistry` | registry.c and the three passes over all devices that edit lists of filters | composed with the service by `WinService` |
| `WinService` | service_nt.c, service.c and the commands of nsis.c | EXTENDS `FilterRegistry` and `ScManager` |
| `VncService` | vncService.cpp | EXTENDS `ScManager` |
| `VncBlacklist` | `VerifyHost`, the host filter and the blacklist of vncServer.cpp | calls hold `m_clientsLock`, one action each |
| `ConfigRingProofs`, `ConfigLinksProofs`, `ViotapeProofs`, `RMutexProofs`, `VncServerProofs`, `VncServiceProofs`, `VncBlacklistProofs`, `WinServiceProofs` | theorems | |
| `MC*` | instances for TLC | |

### ConfigRing and ConfigLinks

`ring` is the sequence of stations met by following `next` from `mgr->first`; `pos`,
`active`, `devices` and `commtype` are the fields of the stations (whether there is a list
of devices or interfaces, not what is in it).  `circular` is FALSE for the one station
`config_new` allocates with NULL links: until it is deleted, calls that follow those links
crash (`status = "fault"`), which the code does not guard against.  `"hung"` is
`config_writeconfig`, whose walk ends at a NULL `next` that a ring does not have.  Names are
left out: a search by name finds any station or none.  Allocation failures are modelled
where the code goes on after them.  The manager is not shared between threads: one action is
one complete call.

`ConfigLinks` has one variable, the manager with all its stations as a record, and composes each
call from functions on that record in the order of the code's assignments: `Insert` (`Counted`,
then `Alone` or `LinkIn`), `Unlink` (the body `ripout` and `config_remove` share, `Joined` and
what becomes of a ring of one) and `Walk`, the loop that stops at some stations, at `first` or at
a NULL.  Following a NULL is `Wild`.  `RingOf` reads the ring off the pointers; the refinement
maps every other variable directly.

Bounds: `Positions` is what callers ask for, `MaxPosition` and `MaxConfigs` stop `config_add`
and `config_remap`, whose counters grow without limit.

### Viotape

A thread is outside the driver or at one of the labels `down`, `change` (in `chg_state`),
`eof_*` (in the ioctl that `chg_state` nests), `rewind`, `rewind_wait`, `send`, `wait` and
`give`, the code between two accesses to what is shared.  `Calls` is the set of file
operations, ioctls reduced to those that move the head, write a mark, do something else or are
unknown.  The hypervisor refuses a request at once or answers it later, well or with an error;
`unmarked` is the external truth the state table is supposed to follow, the tapes whose last
record has no EOF mark after it.

`give` lets an op and a place in the semaphore be given back one by one, in the order of each
operation (read and write: up first; ioctl and the interrupt handler: op first).

### RMutex

The fields `held`, `tid` and `waiters` of the token; `sleeping` are threads in
`pthread_cond_wait`, `woken` those that left it (by a signal or spuriously) and want
`tok->lock` back.  `depth` counts the locks each caller has; it is a history of the calls, and
its bound `MaxDepth` is the only bound.  `tokIsNull` is chosen in `Init` from `Null`:
`acqCommLock` is always NULL.

### VncServer

Three kinds of thread call the registry: one per client, the thread that accepts connections
(`listener`) and the controlling thread (`control`), which switches listening on and off, kills
clients and deletes the server.  `clientmap`, `auth` and `unauth` are the table and the two
lists, `id` the slot each client was given; `desktop` and `buffer` are the shared desktop and
the buffers made for it, a buffer being `"stale"` when its desktop has been deleted.  What is
done under `m_clientsLock` is one step.  `m_desktopLock` is held from one step to another and is
a variable: `RemoveClient` keeps it while it looks, without `m_clientsLock`, whether it was the
last client, and deletes the desktop if so.  `m_clientquitsig` is `asleep`: a signal that comes
when nobody waits is lost.  A client's own thread is external: it authenticates at most once,
leaves when it likes or once it was told to die, and removes itself.  A search for a slot starts
after `m_nextid`, which is never set, so slot 0 is not used; a client whose authorisation fails
is on neither list when it leaves, and its slot is not freed.

The end of `~vncServer` is three steps, as clients may run between them: `FreeDesktop`, the block
under `m_desktopLock` (125-133); `DeleteCondition`, which frees the members, `m_clientquitsig` last
(136-152); and `Return`, after which there are no lists and no locks.  `RemoveClient` can run in the
middle of it.  `"fault"` is a client whose `RemoveClient` signals the deleted condition, or that
calls a server which is gone.  `unseen` is a history, of the clients the destructor's waits could not
see: those taken off the one list and not put on the other, and those put on the second when it had
been seen empty.

### FilterRegistry and WinService

`filters` is the LowerFilters list of each device, `pass` what a process is doing to them: which
of the three passes (`install`, the scan of the service; `sweep`, the uninstall; `composite`, the
installer's), the devices still to do, and the list it has read but not written back.  `Visit` is
the look at one device and the reading of its list.  `ReadFails` is the same with a list that
cannot be read, or is longer than the buffer: an insert does not look at the result and goes on
with an empty buffer (registry.c:215-233), a removal passes the device over (252-256).  `Write`
and `WriteFails` are `acqd_registry_set_property`.  `OthersEdit` is external, the setup program of
another driver that puts its filter on a list or takes it off while one of our passes may hold
that list; `Changing` are the devices it does that to, and those that are plugged in and out.
`spoilt` is a history: the processes about to write back a list whose other filters are not those
of the registry any more, because the list could not be read or has been changed since.  The
devices a pass does not want are left out of it from the start (`Wanted`), since what decides that
never changes.  After a write the service begins its scan again (service.c:141-172).  Which
devices a pass is for comes from their hardware ids and drivers; the copy of an id that
`acqd_registry_is_composite_libacqd` searches for is one character longer than a USB prefix (22
against 21) and is found in none, so a composite pass edits nothing.

In `WinService` the process of the service has `main` and a dispatcher thread, whose control
handler is `handler`.  Assigning `service_status` and giving it to `SetServiceStatus` are two
steps in each of them (`Assign`, `MainTells`; `HandlerAssigns`, `HandlerTells`), since nothing
keeps the other thread away in between.  `event` is the stop event, which does not exist before
`CreateEvent` and is not looked at before `Wait`.  Installers (`pc`) give one command after the
other; the loops that poll the status end when they see it (`PollSees`) or when asking fails
(`PollFails`), never for having lasted 20 seconds.  `Gone` is what the service control manager
does when the process ends.  `quiet` and `swept` are histories: a sweep during which there was no
service and no read or write failed, and that one is over.

### VncService

`start` is `ServiceMain`, `worker` the thread that runs the server, `handler` the control
handler, `remover` the process that removes the service; `missed` records that `WM_QUIT` was
posted to a thread without a message queue.  `ServiceCtrl` is five steps: it assigns "stop
pending", posts `WM_QUIT`, reads the state, and `ReportStatus` assigns and reports it.
`logged` is the user of the machine (external), `helper` a helper's message that waits for the
worker, `token` the user whose token the worker has, `flag` `g_impersonating_user`.  Token and flag
change in separate statements with other threads between them, and are separate steps:
`ProcessUserHelperMessage` is `Revert` (560), `ResetFlag` (561), `Impersonate` (583) and `SetFlag`
(591); `CurrentUser` in the worker is `CurrentUser` (94) and `ResetFlag` (95), in a client's thread,
which reverts only itself, `ClientLooks` and `ClientResets`, with any number of clients and anything
else in between.  `cleared` is a history: a client has reset the flag since the worker set it.
`SetServiceStatus` may fail in each report, at 709 too, where nobody looks.

### VncBlacklist

An entry of the blacklist is `blocked`, `count` and `left`, its `_lastRefTime` relative to the
clock; `order` is the list, which decides how far `VerifyHost` walks and so what is aged.  The
filter is a sequence of characters, walked by `Process` one at a time like the state machine of
`VerifyHost`.  `fails`, `streak`, `quietFor` and `blockedFor` are histories that say what a machine
has earned.  Bounds: `MaxTrying` clients of one machine at a time; counts and times are capped
where they no longer matter.

## What is checked

| Run | Instance | Question |
|---|---|---|
| `config_ring` | 3 stations, positions 0, 1, 3 | sortedness, current, scans, browsing there and back, and moves over any sequence of calls |
| `config_links` | 3 stations, positions 0, 2 | links agree, nothing leaks, and the pointers implement `ConfigRing` |
| `viotape` | 2 threads, 2 ops, 1 tape | op ownership, answers, short waits, every call returns |
| `rmutex` | 4 threads, depth 3 | exclusion, bookkeeping, no lost wake-up, refinement, progress |
| `vnc` | 2 clients, 3 slots | the lists against the table and the desktop, who can be left at each step of the destructor's end, and that a stop ends |
| `win_service` | 2 installers, a composite device, which comes and goes and whose list others edit, and its interface, `Ours` left over on the first | quiet when stopped, lists that keep others' filters, clean after an uninstall, a stop is heeded |
| `vnc_service` | 2 users | "stopped" means gone, when flag and token differ, removal returns |
| `vnc_blacklist` | 2 machines, block at the 3rd failure, 2 seconds, 2 clients each, 2 filters or none, 2 settings | blocks are earned and come, the filter's verdict |
| `viotape_eof`, `vnc_dead`, `polls`, `vnc_stop` | one or two actors | four statements of the repository that the code does not keep (see Findings) |

Why the instances are enough.  Three stations give a ring with a first, a middle and a last one,
an exchange of two with a bystander, and removal down to one and none; the gaps between positions
make insertion before, between and after happen, and a used position sends `config_add` to the
next free one.  Two threads at the tape are one with an op and one that comes after, and a
non-blocking write whose thread has returned is a third request on its way; two ops are what the
nested ioctl needs, and with both out the driver is as short of them as with one.  Four threads at
the mutex are a holder, one asleep, one signalled and one that comes in between the signal and the
test.  Two VNC clients are one that leaves last while the other is let in, or one that is waited
for while the other comes behind the waiter's back; failures use up the two slots that can be
used, so the full table happens too.  Two installers are one that sweeps while the other starts
the service again; a composite device and its interface are on either side of every test of
`Wants`, and a list that already has our filter before another's is what a careless removal
damages; that list, on the one device in `Changing`, is also the one other programs edit, and one
edit suffices to spoil a pass that holds it.  The blacklist's `Hold` and `Limit` are 10 and 5 in
the code and enter only through comparisons; 2 and 1 leave room for a failure within, at and after
the time, and for one that is counted without blocking; one name is the beginning of the other, as
the patterns need.  Symmetry is used only where no liveness is checked.

`CHECK_DEADLOCK FALSE` is set where the system may stop for good: a manager that crashed or
hangs, a VNC server that has been deleted, and a driver all of whose threads wait for a rewind
the hypervisor has refused (`RewindLost`, viotape.c:836 does not look at the return code).

Fairness.  `Viotape`: a thread that can go on does (weak); the semaphore wakes those who wait in
turn, so `Down` and `EofDown` are strongly fair per thread; the hypervisor answers each request it
has accepted from a queue of events, so `Interrupt` is strongly fair per op; the handler itself
ends.  `RMutex`: a woken thread gets `tok->lock` and a thread that holds the lock releases it,
both weakly fair; nothing is assumed about who is signalled.  `VncServer`: a client that was told
to die notices, the connection made to the listener on closing gets it out of `accept`, the
controlling thread goes on, all weakly fair; the two steps that need `m_desktopLock` are strongly
fair, as a lock queues those who want it; nothing else makes a client leave or come.  `StopEnds`
therefore allows for one way of not ending, which the code has: `Missed`, a client that came, or
was authorised, after the loops that tell clients to die had passed it.  `WinService`: each of the
two threads of the service is weakly fair, `main` with the passes it makes and the dispatcher with
the end of the process once it has returned; nothing is assumed of installers. `StopHeeded`
therefore leaves out the behaviours in which the scan is undone for ever (`Undone`): it begins
again after each write, so installers that take filters off infinitely often, or lists that fail
to be read infinitely often and are written again, keep it from its end.  A sweep that ends, or
any finite number of them, is no excuse.  `polls` adds that installers go on, in particular that a
poll sees what it looks for if that stays (`PollingSpec`).  `VncService`: its threads, its end,
and `Poll` and `DeleteService` of a removal are weakly fair; a server that `WM_QUIT` has reached
leaves its message loop (strongly fair, as helper messages come in between).  `RemoveReturns`
allows for the three ways in which the code loses a stop: `missed`, and `Untold`, a "stopped" that
was overwritten or could not be told; `vnc_stop` shows that stops get lost.  No fairness is
assumed of callers starting operations, and none of the configuration manager and the blacklist.

## What is proved

| Module | Theorem | Argument |
|---|---|---|
| `ConfigRingProofs` | `TypeCorrect`, `RingAlwaysSorted`, `CurrentNeverDangles`, `StationsMoveOnlyByRemap`, `ScanAlwaysCovers`, `BrowseAlwaysReturns` | one inductive invariant, and an induction over the hops of a scan |
| `ConfigLinksProofs` | `PointersSound`, `LinksAlwaysAgree`, `NoneEverLost`, `LinksImplementRing`, `LinksKeepRingPromises`, `LinksMoveOnlyByRemap` | the shape of the pointers, and a step simulation of `ConfigRing` |
| `ViotapeProofs` | `TypeCorrect`, `OpsHaveOneOwner`, `NoStrayAnswer`, `WaitsAreShort` | one inductive invariant in three layers |
| `RMutexProofs` | `TypeCorrect`, `MutualExclusion`, `FieldsAlwaysTellOwner`, `WaitersAlwaysCounted`, `NeverLosesWakeup`, `MutexImplementsLock` | one inductive invariant and a step simulation |
| `VncServerProofs` | `TypeCorrect`, `ListsNeverDangle`, `DesktopNeverLost`, `NothingRunsAfterDestroy` | one inductive invariant |
| `VncServiceProofs` | `TypeCorrect`, `NeverStoppedTooEarly`, `FlagNeverLies` | one inductive invariant |
| `VncBlacklistProofs` | `TypeCorrect`, `NoUnearnedBlock`, `NoStreakEscapes`, `LastMatchDecides` | one inductive invariant; inductions over the list and over the filter |
| `WinServiceProofs` | `TypeCorrect`, `StoppedIsQuiet`, `UninstallCleans`, `ListsStayIntact` | one inductive invariant, and two more on top of it |

Every safety invariant, action property and refinement that a run checks has a theorem here.

The invariant of `ConfigRing` is the conjunction of the type invariant, sortedness, current on the
ring and "no manager, no stations".  Sortedness is what makes `NextPos` a free position and, being
strict, what makes all stations of the ring different, without which taking one out would leave
another copy of it.  Its preservation rests on lemmas about `InsertAt` and `RemoveAt`: inserting
where the walk of `insert` stops keeps a sorted sequence sorted, and so does removing any
element.  A scan is a path on the indices: one `config_inc` goes from an index to that of the next
active station without passing one over, so by induction over the calls a station that has not
been met is no further ahead than calls are left (`ScanMeets`).  `BrowseAlwaysReturns` is about
the same path walked the other way: the stations between the two ends are inactive, so the way
back stops at none of them, and as many hops back as there were forward end at the same index,
round the ring or not (`ReachedBack`).  The theorems hold for any set of stations, any set of
natural positions and any bounds.

The invariant of `ConfigLinks`, `LInv`, is that of `ConfigRing` for the ring the pointers make,
with `Good`: there is a sequence of different stations, `RingOf`, such that `first` is its head,
`next` leads round it and `prev` the other way (or it is the one station of `config_new` with NULL
links, `Lone`, at position 0), and the heap is just its stations.  Reading the ring off the
pointers is the inverse of laying it out (`FollowingPath`), so each assignment sequence of the
code is shown to lay out the sequence the ring's operation gives: `LinkIn` one longer, with the
cases before `first`, in the middle and at the end; `Joined` one shorter, from any place; `Walk`
the index where the ring's walk stops.  An exchange by `config_remap` is two of each.  `NextMaps`
puts them together, one lemma per call; since every call maps to a call of the ring or changes
nothing, `ConfigRingProofs` gives the second half of `LInv` after the step, and its theorems about
scans, browsing and moves hold of the pointers (`LinksKeepRingPromises`, `LinksMoveOnlyByRemap`).
The set of stations has to be finite: walks are cut off after as many hops as there are stations.

The invariant of `Viotape` has three layers, each inductive given the ones before it.  `Base` says
of each caller what it has where it is: an op of its own until it leaves, a second one and a second
place in `reqSem` only in the nested ioctl, and, if it writes, no way through `chg_state`.
`Owned` is `OneOwner` with `AnswersFindTheirCall` and `Fresh`: they need one another, as the
handler frees the op an answer names (so that answers must be told apart by their ops), and a new
request may name an op only if no answer for it is due and its completion is clear.  `Counted`
adds up the places of the semaphore: free, taken by an operation, by a nested ioctl, by a write
on its way, or about to be raised by the handler, they make `ACQD_MAXREQ`.  `WaitIsShort` follows
by counting: with the semaphore at zero and nobody about to raise it, each place that is taken
stands for an op of its own, and the op of the waiter is one more than there are.  This holds for
any set of threads, infinite ones too, any finite set of ops and any tapes; fairness is not used.

The invariant of `RMutex` adds that the owner of a held lock is a thread, that a waiter is
asleep or woken but not both, and that a NULL token is never touched.  `WaitersCounted` needs
the set of threads to be finite; exclusion follows from `FieldsTellOwner`.  The no-lost-wake-up
clause is inductive together with the count, because the unlock decides from `waiters` whether
to signal.

The invariant of `VncServer` adds that a client has its slot until it removes itself, so that the
slot one client frees is not another's; that a client between the lists and the end of
`RemoveClient` has `m_desktopLock`, and finds no authorised client once it has decided to delete
the desktop, which no `Authenticated` can change as it needs that lock; and what each stage of
`~vncServer` leaves behind: no listener after the socket is closed, hence no new client while it
waits, hence on `auth`, once that was seen empty, only clients that are `unseen`, and at the end
an empty `unauth`.  So whoever is still there when the desktop goes is `unseen`, or has
`m_desktopLock`, which the destructor waits for: the lock is why waiting for the lists is enough
for all others.  `AllClientsDead`, which `vnc_dead` shows to fail, is what is missing.  The
theorems hold for any number of clients and slots.

The invariants of `WinService` and `VncService` say where a "stopped" may be on its way: in the
shared status, in the hand of a control handler that has read it and not yet reported it, or at
the service control manager.  In each of these `main` (or the worker) is past its work, which
alone makes `QuietWhenStopped` and `StoppedMeansGone` inductive, as a report by one thread may
carry the other's state.  `VncService` adds that no control comes before `ServiceMain` has
reported, and that a worker between reverting and impersonating has a user to act for.
`FlagNeverLies` lists the moments at which flag and token differ: the worker's place says which
statement is next, and a flag that is down under a token has been `cleared`.  All hold for any
installers, devices, lists and users.

`UninstallCleans` needs a second invariant of `WinService`: our filter is in a list at most once
(taking one out would not do otherwise), a pass that has read a list holds one that has our filter
just if the pass sweeps, and a sweep that began without a service has left each device clean that
it is past.  The service cannot spoil that: until it is started again its `main` is at its end
and in no pass.  Nor can other installers, whose passes take the filter out, or, for composite
devices, find none to put it on.  That `RemoveFirst` leaves none of a single one is a lemma.  The
theorem assumes of the lists found at the beginning that ours is on each at most once
(`PresetAssumption`), which is what the code itself maintains.

`ListsStayIntact` adds what a list that has been read and not yet written back may be (`Kept`):
the others on it are those that are on the device's list now, in the same order, unless its reader
is `spoilt`.  Writes of unspoilt passes keep that for every other holder of the list, because no
edit changes the others; a spoilt write and an edit by another program spoil all who hold the
list.  `Others` is a recursion over the list; that leaving one of ours out or putting one on does
not change it is shown by induction along the list (`RemovedIsCut`, `EditLeavesOthers`).

The invariant of `VncBlacklist` ties entries to histories: a listed machine has failed at least
once more than its entry counts, a blocked one is at its limit and its time runs since it was
blocked (`Earned`); a streak that may still go on is counted in an entry that cannot have timed
out before it is over (`Counted`), however often and in whatever order the list is walked.  The
theorems are for any machines, filters, settings, `Hold` and `Limit`; of the constants they use
that `Hold` and `Limit` are positive, and that names and filters are sequences of characters.
`TypeCorrect` adds the list: `Among` keeps the machines that still have an entry, once each
(`AmongList`), and a new one goes to the front of a list it is not on.

`LastMatchDecides` is about `VerifyHost`'s walk over the filter, for any string without an empty
item.  The invariant of the walk, by induction over the characters (`WalkKeeps`), is that the verdict
so far is that of the last covering item that has ended (`LastOf`), and that the mode tells where
the walk is in an item: at the colon before one, in one with a sign whose type and beginning are in
`type` and `from`, or in one that makes no sense (`Shape`).  An item that ends here is the only one
that ends here and starts after all that ended before (`OneItem`), so taking its verdict over is
right, and `MatchStringToTemplate` holds of it just if it covers the machine (`CoversMatch`).

Inductions over data (the hops of a scan, the characters of a filter, a list) are inductions over
sets of numbers: `SetInduction`, that a set with 0 and with the successor of each of its members is
`Nat`, follows from the well-foundedness of `<`, and `Recursion` (`Iteration`), that a function defined
by recursion along `0..n` exists, follows from it.  Recursion in these modules is written as recursive
functions, with `RECURSIVE` operators in none.

Only model-checked: the liveness properties `EveryCallReturns`, `FreeLockIsTaken`, `StopEnds`,
`StopHeeded` and `RemoveReturns`, since the provers have no rules for fairness and `ENABLED`; and the
four runs that expect a violation, which show behaviours.

## Findings

* `viotape_eof`: viotape.c:1084 writes an EOF mark when a tape leaves the writing state, through
  an ioctl that needs a second op; with `ACQD_MAXREQ` 1 there is none and no mark is written.
* `vnc_dead`: vncServer.cpp:122 says `~vncServer` waits for all the clients to die.  It waits for
  the list of authorised clients and then for the other, and a client whose authorisation fails
  is on neither, and one that is authorised between the two waits on the one no longer looked at:
  either can find the desktop deleted, `m_clientquitsig` gone, or the server.

* `polls`: service.c:406 logs a time-out after 20 seconds; the time waited is set to 0 in every
  round (service.c:394 and 481), and a service that never gets to the status asked for is polled
  for ever.
* `vnc_stop`: vncService.cpp:1018 says a stop makes the service stop.  A stop that comes before the
  worker has a message queue is lost, and the control handler's report (line 1034) can overwrite
  the worker's "stopped" with "stop pending", which then stands for good; so does a status whose
  "stopped" could not be told.

Met while modelling, and stated by no property: `last_device` is not what acq_config.h:176 says of
`config_prev`; `num_configs` is not the number of stations (acq_config.h:216), as removals
do not lower it and the station of `config_new` is not counted, nor `max_position` the highest position
(acq_config.h:221); a non-blocking
write is not recorded as writing (viotape.c:500); `acqCommLock` is NULL (threads.c:79).

## Plan

Done: `ConfigRing` and `ConfigLinks` and their proofs; `Viotape` and its proofs; `RMutex` and its
proofs; `VncServer`, `VncService` and `VncBlacklist` with their proofs; `FilterRegistry` and
`WinService` with its proofs.  Every safety property of these modules is proved.  What is left, in
this order:

1. `ConfigDevices` and `ConfigStore`: the device and interface lists of one station; the file
   across crash and restart.
2. `RMutexWin32`, `ThreadState`: the Windows mutex against `ReentrantLock`; main thread and
   thread-local state.
3. `AcqServ`: `sendbuffer` and `recvbuffer` over a stream that splits, fails and ends; accepting
   and joining.

## Not modelled, and why

acqd's event loop.  As built it does nothing: `init_hwlist` (acq_hw.c:4-13) never sets the device,
so `main` leaves at acqd.c:263-266; behind that, `add_client` closes the first client
(acq_handle.c:177-186), the set given to `select` never holds a client's socket, and
`add_peer_connection` has no caller.  A model of its arrays would be of states the program is
never in.

The Windows 9x builds (service_9x.c and the branches beside the NT ones) are left out: one thread
with a timer and no service control manager.  The text of the XML file and of the logs, names and
addresses are data no property tells apart;
probing, module init and exit and the proc file of the tape driver run once, before and after
everything modelled; acq_manage.c and acq_device.c are empty; vncService.cpp's desktops,
workstation lock and message boxes and the settings and update fan-out of vncServer.cpp keep no
state that anything here reads; the test programs send one command.
