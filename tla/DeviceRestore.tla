----------------------------- MODULE DeviceRestore -----------------------------
(***************************************************************************)
(* A device, the projects loaded into it and the SysEx files imported into *)
(* it (mdLib/mddevice.cpp, mdsyseximport.h; mdJucePlugin's processor).     *)
(*                                                                         *)
(* A project is loaded by building a second machine: outside the plug-in's *)
(* lock the host's thread prepares it, under the lock it is committed; or  *)
(* it first has to boot and learn its factory flash beside the live one,   *)
(* and the processor's timer takes it, reboots it and commits it.  The     *)
(* same timer reboots a live machine that has learnt its factory flash.    *)
(* Each of them uses, after the lock was given up, what it read under it;  *)
(* meanwhile the host loads again, the user plays, an import runs, and the *)
(* device may be exchanged.  Everything under the lock is one action here. *)
(***************************************************************************)
EXTENDS Integers

CONSTANTS
    None,       \* null, an empty optional
    Models,     \* which instruments: subset of {"Machinedrum", "Monomachine"}
    Budgets     \* bounds: how often the host and the user act, one record per scenario

ASSUME ModelsAssumption == Models \subseteq {"Machinedrum", "Monomachine"}
Bounds == [loads : Nat, edits : Nat, saves : Nat, imports : Nat, swaps : Nat]
ASSUME BudgetsAssumption == Budgets \subseteq Bounds

VARIABLES
    model,      \* m_model
    live,       \* m_hardware
    device,     \* which Device: Plugin::m_device, m_sysexDeviceId
    epoch,      \* m_hardwareEpoch
    generation, \* m_deferredStateGeneration
    status,     \* m_restoreStatus
    requested,  \* m_requestedState
    candidate,  \* m_deferredPreparedState
    published,  \* MachineStatus: what the timer acts on
    cache,      \* the factory flash is on disk
    loads,      \* calls of Plugin::setState under way
    timer,      \* serviceDeferredStateRestore or serviceFactoryInitialization under way
    ticket,     \* m_sysexTicket
    import,     \* m_sysexStarted, m_sysexPendingCancelled
    dialogs,    \* the tickets of the editor's open import dialogs
    transfer,   \* the live machine's TurboMidiTransfer
    file,       \* the project the host saved last
    inputs,     \* history: what the host and the user did so far; names new contents
    left        \* what is left of the scenario's bounds

restoreVars == <<status, requested, candidate, generation>>
machineVars == <<live, device, epoch, published, cache>>
importVars == <<ticket, import, dialogs, transfer>>
vars == <<model, restoreVars, machineVars, loads, timer, importVars, file, inputs, left>>

\* Contents are named by the input that made them; a new machine's by 0.
Memory == Nat
Flash == Nat
Loadable == [ram : Memory, flash : Flash \cup {None}]

ASSUME NoneAssumption == None \notin Int /\ None \notin Loadable

\* A machine: its contents; whether it expects to be rebooted once it has learnt its
\* factory flash, and what it knows of that; a project it will only take on then.
Hardware == [ram : Memory, flash : Flash, expected : BOOLEAN,
             factory : {"learning", "tainted", "known", "none"},
             pending : BOOLEAN, hasFlash : BOOLEAN, valid : BOOLEAN]

Ticket == [device : Nat, epoch : Nat, generation : Nat, request : Nat]
NoTicket == [device |-> 0, epoch |-> 0, generation |-> 0, request |-> 0]
NoImport == [started |-> FALSE, cancelled |-> FALSE]
NoTransfer == [state |-> "none", ticket |-> NoTicket, touched |-> {}]
IdleTimer == [pc |-> "idle"]
Quiet == [ready |-> FALSE, pending |-> FALSE, reboot |-> FALSE]

\* isProjectStateRestorePending; a live machine has no project it only takes on later.
Pending == status \in {"Preparing", "Initializing", "Finalizing"}

Content(machine) == [ram |-> machine.ram, flash |-> machine.flash]

\* getState.
Saved ==
    IF Pending /\ requested # None THEN requested
    ELSE Content(IF candidate # None THEN candidate ELSE live)

\* A machine as the constructor leaves it, on an instrument whose factory flash is known or not.
NewMachine(m, known) ==
    [ram |-> 0, flash |-> 0, expected |-> m = "Machinedrum" /\ ~known,
     factory |-> IF m = "Monomachine" THEN "none" ELSE IF known THEN "known" ELSE "learning",
     pending |-> FALSE, hasFlash |-> TRUE, valid |-> TRUE]

Init ==
    /\ model \in Models
    /\ cache \in BOOLEAN
    /\ live = NewMachine(model, cache)
    /\ device = 1 /\ epoch = 1 /\ generation = 0
    /\ status = "Idle" /\ requested = None /\ candidate = None
    /\ published = Quiet
    /\ loads = {}
    /\ timer = IdleTimer
    /\ ticket = NoTicket /\ import = NoImport
    /\ dialogs = {}
    /\ transfer = NoTransfer
    /\ file = None
    /\ inputs = 0
    /\ left \in Budgets

Spend(what) == left[what] > 0 /\ left' = [left EXCEPT ![what] = @ - 1]
Input == inputs' = inputs + 1

-------------------------------------------------------------------------------
(* Preparing and committing a machine.                                     *)

\* prepareState: the machines it may build, or None.  A project with flash boots at once when
\* the factory flash is known or the project is a complete image; else it waits for the
\* firmware to have written the factory flash.
Prepared(project, known) ==
    LET m == [ram |-> project.ram, flash |-> IF project.flash = None THEN 0 ELSE project.flash,
              expected |-> FALSE, factory |-> IF known THEN "known" ELSE "none",
              pending |-> FALSE, hasFlash |-> project.flash # None, valid |-> TRUE]
    IN  {None} \cup
        IF model = "Monomachine" THEN {[m EXCEPT !.factory = "none"]}
        ELSE IF known THEN {m}
        ELSE IF project.flash # None
             THEN {m, [m EXCEPT !.pending = TRUE, !.expected = TRUE, !.factory = "learning"]}
             ELSE {[m EXCEPT !.expected = TRUE, !.factory = "learning"]}

\* commitPreparedState: a Machinedrum project without flash gets the live machine's, with
\* what that knows of its factory flash (exchangePersistentFlashState).
Committed(machine) ==
    IF model = "Machinedrum" /\ ~machine.hasFlash
    THEN [machine EXCEPT !.flash = live.flash, !.expected = live.expected,
                         !.factory = live.factory, !.hasFlash = TRUE]
    ELSE [machine EXCEPT !.hasFlash = TRUE]

Commit(machine) ==
    /\ live' = Committed(machine)
    /\ epoch' = epoch + 1
    /\ transfer' = NoTransfer

\* clearProjectStateRestore and failProjectStateRestore.
End(how) ==
    /\ status' = how
    /\ requested' = None
    /\ candidate' = None

-------------------------------------------------------------------------------
(* Plugin::setState.                                                       *)

\* A project with flash or of the patch memory alone: on a Monomachine that has an empty flash.
Projects(name) ==
    {[ram |-> name, flash |-> f] : f \in {name, IF model = "Machinedrum" THEN None ELSE 0}}

InFlight == transfer.state \in {"sending", "awaiting"}
OwnsWire == InFlight \/ transfer.state = "cancelling"

\* cancelMidiSysexTransfer: what is left of the message goes out first.
CancelTransfer == IF InFlight THEN [transfer EXCEPT !.state = "cancelling"] ELSE transfer

\* beginStateTransaction.
LoadBegin ==
    /\ Spend("loads")
    /\ Input
    /\ \E project \in Projects(inputs') \cup ({file} \ {None}) :
        /\ requested' = project
        /\ loads' = loads \cup
            {[pc |-> "preparing", device |-> device, generation |-> generation + 1,
              project |-> project, known |-> live.factory = "known"]}
    /\ generation' = generation + 1
    /\ status' = "Preparing"
    /\ candidate' = None
    /\ transfer' = CancelTransfer
    /\ UNCHANGED <<model, machineVars, timer, ticket, import, dialogs, file>>

\* StateTransaction::prepare, without the lock.
LoadPrepare(l) ==
    /\ l.pc = "preparing"
    /\ \E m \in Prepared(l.project, l.known \/ cache) :
        loads' = (loads \ {l}) \cup
            {[pc |-> "prepared", device |-> l.device, generation |-> l.generation, machine |-> m]}
    /\ UNCHANGED <<model, restoreVars, machineVars, timer, importVars, file, inputs, left>>

\* The device is still the one, and no other load began.
Current(l) == l.device = device /\ l.generation = generation

\* finishStateTransaction.
LoadFinish(l) ==
    /\ l.pc = "prepared"
    /\ loads' = loads \ {l}
    /\ LET m == l.machine
       IN  \/ /\ ~Current(l)
              /\ UNCHANGED <<restoreVars, machineVars, transfer>>
           \/ /\ Current(l) /\ m = None
              /\ End("Failed")
              /\ UNCHANGED <<generation, machineVars, transfer>>
           \/ /\ Current(l) /\ m # None /\ m.pending
              /\ candidate' = m
              /\ status' = "Initializing"
              /\ UNCHANGED <<requested, generation, machineVars, transfer>>
           \/ /\ Current(l) /\ m # None /\ ~m.pending
              /\ Commit(m)
              /\ End("Idle")
              /\ UNCHANGED <<generation, device, published, cache>>
    /\ UNCHANGED <<model, timer, ticket, import, dialogs, file, inputs, left>>

-------------------------------------------------------------------------------
(* The rendering thread.                                                   *)

\* What a machine that learns its factory flash may have become.
Learned(machine) ==
    IF machine.factory = "learning"
    THEN {machine, [machine EXCEPT !.factory = "known"], [machine EXCEPT !.factory = "tainted"]}
    ELSE {machine}

\* A candidate advances: it took its project on, or found it does not fit.
Advanced(machine) ==
    IF machine = None \/ ~machine.pending THEN {machine}
    ELSE {machine, [machine EXCEPT !.pending = FALSE, !.factory = "known"],
                   [machine EXCEPT !.pending = FALSE, !.valid = FALSE]}

\* processAudio, and publishStatus at its end.
Process ==
    /\ live' \in Learned(live)
    /\ candidate' \in Advanced(candidate)
    /\ published' =
        [ready |-> candidate' # None /\ status = "Initializing" /\ ~candidate'.pending,
         pending |-> Pending,
         reboot |-> live'.expected /\ live'.factory \in {"known", "tainted"}]
    /\ UNCHANGED <<model, status, requested, generation, device, epoch, cache, loads, timer,
                   importVars, file, inputs, left>>

\* The user changes the patch memory or the samples on the live machine.
Edit ==
    /\ Spend("edits")
    /\ Input
    /\ \/ live' = [live EXCEPT !.ram = inputs']
       \/ live' = [live EXCEPT !.flash = inputs']
    /\ UNCHANGED <<model, restoreVars, device, epoch, published, cache, loads, timer,
                   importVars, file>>

\* Plugin::getState: the host saves.
Save ==
    /\ Spend("saves")
    /\ file' = Saved
    /\ UNCHANGED <<model, restoreVars, machineVars, loads, timer, importVars, inputs>>

-------------------------------------------------------------------------------
(* The processor's timer: one of two services at a time.                   *)

\* serviceDeferredStateRestore takes the candidate (takeFinishedDeferredState), or finds none.
RestoreTake ==
    /\ timer.pc = "idle"
    /\ model = "Machinedrum"
    /\ published.ready
    /\ status = "Initializing" /\ candidate # None /\ ~candidate.pending
    /\ status' = "Finalizing"
    /\ candidate' = None
    /\ timer' = [pc |-> "rebooting", device |-> device, epoch |-> epoch,
                 generation |-> generation, machine |-> candidate]
    /\ UNCHANGED <<model, requested, generation, machineVars, loads, importVars, file, inputs,
                   left>>

\* makeDeferredStateReboot, without the lock: a fresh machine with the same contents.
RestoreReboot ==
    /\ timer.pc = "rebooting"
    /\ \E m \in {None} \cup (IF timer.machine.valid
                             THEN {[timer.machine EXCEPT !.expected = FALSE]} ELSE {}) :
        timer' = [timer EXCEPT !.pc = "rebooted", !.machine = m]
    /\ UNCHANGED <<model, restoreVars, machineVars, loads, importVars, file, inputs, left>>

\* Mutant: a machine that did not come up is just dropped.
CanReject == FALSE

\* The restore the timer works on is still the one under way.
CanFinish ==
    /\ timer.device = device /\ timer.epoch = epoch
    /\ timer.generation = generation /\ status = "Finalizing"

\* The same for reporting that it failed (rejectDeferredStateRestore).
StillFinalizing == CanFinish

\* commitDeferredStateRestore, after which the factory flash goes to disk.
RestoreCommit ==
    /\ timer.pc = "rebooted"
    /\ timer.machine # None
    /\ timer' = IdleTimer
    /\ IF CanFinish
       THEN /\ Commit(timer.machine)
            /\ End("Idle")
            /\ cache' \in {cache, TRUE}
       ELSE UNCHANGED <<status, requested, candidate, live, epoch, transfer, cache>>
    /\ UNCHANGED <<model, generation, device, published, loads, ticket, import, dialogs, file,
                   inputs, left>>

RestoreReject ==
    /\ timer.pc = "rebooted"
    /\ timer.machine = None
    /\ timer' = IdleTimer
    /\ IF StillFinalizing THEN End("Failed") ELSE UNCHANGED <<status, requested, candidate>>
    /\ UNCHANGED <<model, generation, machineVars, loads, importVars, file, inputs, left>>

\* serviceFactoryInitialization reads the whole state of a machine that is ready to reboot.
FactoryCapture ==
    /\ timer.pc = "idle"
    /\ model = "Machinedrum"
    /\ ~published.pending /\ published.reboot
    /\ ~Pending
    /\ live.expected /\ live.factory \in {"known", "tainted"}
    /\ timer' = [pc |-> "copying", device |-> device, epoch |-> epoch, project |-> Saved,
                 known |-> live.factory = "known"]
    /\ UNCHANGED <<model, restoreVars, machineVars, loads, importVars, file, inputs, left>>

\* The machine to reboot into, without the lock; its state is complete, so it boots at once.
FactoryPrepare ==
    /\ timer.pc = "copying"
    /\ cache' \in {cache, cache \/ timer.known}
    /\ \E m \in Prepared(timer.project, timer.known \/ cache') :
        /\ m # None => ~m.pending
        /\ timer' = [pc |-> "copied", device |-> timer.device, epoch |-> timer.epoch,
                     project |-> timer.project, machine |-> m]
    /\ UNCHANGED <<model, restoreVars, live, device, epoch, published, loads, importVars, file,
                   inputs, left>>

\* Mutant: the machine's state is not compared again.
Untouched == timer.device = device /\ timer.epoch = epoch

\* The machine is the one that was read, and nobody changed it since.
Unchanged == timer.device = device /\ timer.epoch = epoch /\ Saved = timer.project

FactoryCommit ==
    /\ timer.pc = "copied"
    /\ timer' = IdleTimer
    /\ IF timer.machine # None /\ Unchanged
       THEN Commit(timer.machine)
       ELSE UNCHANGED <<live, epoch, transfer>>
    /\ UNCHANGED <<model, restoreVars, device, published, cache, loads, ticket, import, dialogs,
                   file, inputs, left>>

-------------------------------------------------------------------------------
(* Plugin::setDevice: the state of the old device goes into the new one, all under the lock. *)

SetDevice ==
    /\ Spend("swaps")
    /\ Input
    /\ device' = device + 1
    /\ epoch' = 1
    /\ generation' = 1
    /\ published' = Quiet
    /\ ticket' = NoTicket /\ import' = NoImport /\ transfer' = NoTransfer
    /\ \E m \in Prepared(Saved, cache) :
        LET new == NewMachine(model, cache)
        IN  \/ /\ m = None
               /\ End("Failed")
               /\ live' = new
            \/ /\ m # None /\ m.pending
               /\ status' = "Initializing" /\ requested' = Saved /\ candidate' = m
               /\ live' = new
            \/ /\ m # None /\ ~m.pending
               /\ End("Idle")
               /\ live' = IF model = "Machinedrum" /\ ~m.hasFlash
                          THEN [m EXCEPT !.flash = new.flash, !.expected = new.expected,
                                         !.factory = new.factory, !.hasFlash = TRUE]
                          ELSE [m EXCEPT !.hasFlash = TRUE]
    /\ UNCHANGED <<model, cache, loads, timer, dialogs, file>>

-------------------------------------------------------------------------------
(* Importing a SysEx file.                                                 *)

\* Mutant: a ticket is not compared with the restores since.
MatchesMachine(t) ==
    t.request # 0 /\ t = ticket /\ t.device = device /\ t.epoch = epoch

\* matchesUserSysexImport.
Matches(t) ==
    /\ t.request # 0 /\ t = ticket
    /\ t.device = device /\ t.epoch = epoch /\ t.generation = generation

\* beginUserSysexImport.
ImportBegin ==
    /\ Spend("imports")
    /\ ~Pending /\ ~OwnsWire
    /\ ticket' = [device |-> device, epoch |-> epoch, generation |-> generation,
                  request |-> ticket.request + 1]
    /\ import' = NoImport
    /\ dialogs' = dialogs \cup {ticket'}
    /\ UNCHANGED <<model, restoreVars, machineVars, loads, timer, transfer, file, inputs>>

\* startUserSysexImport, accepted.
ImportStart(d) ==
    /\ Matches(d) /\ ~import.started /\ ~import.cancelled
    /\ ~Pending /\ ~live.expected /\ ~OwnsWire
    /\ import' = [import EXCEPT !.started = TRUE]
    /\ transfer' = [state |-> "sending", ticket |-> d, touched |-> {}]
    /\ UNCHANGED <<model, restoreVars, machineVars, loads, timer, ticket, dialogs, file, inputs,
                   left>>

\* cancelUserSysexImport: before the start it is only noted.
ImportCancel(d) ==
    /\ Matches(d) /\ ~import.cancelled
    /\ IF ~import.started
       THEN import' = [import EXCEPT !.cancelled = TRUE] /\ UNCHANGED transfer
       ELSE /\ InFlight
            /\ transfer' = [CancelTransfer EXCEPT !.touched = @ \cup {d.request}]
            /\ UNCHANGED import
    /\ UNCHANGED <<model, restoreVars, machineVars, loads, timer, ticket, dialogs, file, inputs,
                   left>>

\* resumeUserSysexImport: the instrument is in its receive mode.
ImportResume(d) ==
    /\ Matches(d) /\ import.started /\ ~Pending
    /\ transfer.state = "awaiting"
    /\ transfer' = [transfer EXCEPT !.state = "sending", !.touched = @ \cup {d.request}]
    /\ UNCHANGED <<model, restoreVars, machineVars, loads, timer, ticket, import, dialogs, file,
                   inputs, left>>

\* retireUserSysexImport: the payload of a transfer that is over is given up.
ImportRetire(d) ==
    /\ Matches(d) /\ import.started
    /\ transfer.state = "over"
    /\ transfer' = [transfer EXCEPT !.state = "retired", !.touched = @ \cup {d.request}]
    /\ UNCHANGED <<model, restoreVars, machineVars, loads, timer, ticket, import, dialogs, file,
                   inputs, left>>

\* The transfer goes on: it waits for the user, writes samples, drains or ends.
TransferStep ==
    /\ \/ /\ transfer.state = "sending"
          /\ transfer' = [transfer EXCEPT !.state = "awaiting"]
          /\ UNCHANGED <<live, inputs>>
       \/ /\ transfer.state \in {"sending", "cancelling"}
          /\ transfer' = [transfer EXCEPT !.state = "over"]
          /\ Input
          /\ live' = [live EXCEPT !.flash = inputs']
       \/ /\ transfer.state \in {"sending", "cancelling"}
          /\ transfer' = [transfer EXCEPT !.state = "over"]
          /\ UNCHANGED <<live, inputs>>
    /\ UNCHANGED <<model, restoreVars, device, epoch, published, cache, loads, timer, ticket,
                   import, dialogs, file, left>>

\* What else happens between two blocks.
Between ==
    \/ LoadBegin \/ \E l \in loads : LoadPrepare(l) \/ LoadFinish(l)
    \/ Edit \/ Save
    \/ RestoreTake \/ RestoreReboot \/ RestoreCommit \/ RestoreReject
    \/ FactoryCapture \/ FactoryPrepare \/ FactoryCommit
    \/ SetDevice
    \/ ImportBegin
    \/ \E d \in dialogs : ImportStart(d) \/ ImportCancel(d) \/ ImportResume(d) \/ ImportRetire(d)
    \/ TransferStep

Next == Process \/ Between

Timer ==
    \/ RestoreTake \/ RestoreReboot \/ RestoreCommit \/ RestoreReject
    \/ FactoryPrepare \/ FactoryCommit

\* The host's threads go on with a load they began, and so does the timer; the host renders,
\* and a candidate that is rendered takes its project on, or not, at last.
Rendered == candidate # None => ~candidate'.pending

ThreadFairness ==
    /\ WF_vars(\E l \in loads : LoadPrepare(l) \/ LoadFinish(l))
    /\ WF_vars(Timer)

Spec == Init /\ [][Next]_vars
FairSpec == Spec /\ ThreadFairness /\ WF_vars(Process /\ Rendered)

-------------------------------------------------------------------------------
(* Properties.                                                             *)

\* The machines, the restore and the import's tickets.
MachineTypes ==
    /\ model \in Models /\ live \in Hardware
    /\ device \in Nat /\ epoch \in Nat /\ generation \in Nat /\ inputs \in Nat
    /\ status \in {"Idle", "Preparing", "Initializing", "Finalizing", "Failed"}
    /\ requested \in Loadable \cup {None} /\ file \in Loadable \cup {None}
    /\ candidate \in Hardware \cup {None}
    /\ ticket \in Ticket /\ dialogs \subseteq Ticket

LoadStates ==
    [pc : {"preparing"}, device : Nat, generation : Nat, project : Loadable, known : BOOLEAN]
    \cup [pc : {"prepared"}, device : Nat, generation : Nat, machine : Hardware \cup {None}]

TimerStates ==
    [pc : {"idle"}]
    \cup [pc : {"rebooting"}, device : Nat, epoch : Nat, generation : Nat, machine : Hardware]
    \cup [pc : {"rebooted"}, device : Nat, epoch : Nat, generation : Nat,
          machine : Hardware \cup {None}]
    \cup [pc : {"copying"}, device : Nat, epoch : Nat, project : Loadable, known : BOOLEAN]
    \cup [pc : {"copied"}, device : Nat, epoch : Nat, project : Loadable,
          machine : Hardware \cup {None}]

Transfers ==
    [state : {"none", "sending", "awaiting", "cancelling", "over", "retired"},
     ticket : Ticket, touched : SUBSET Nat]

\* What is under way: loads, the timer's work, an import and its transfer.
ThreadTypes ==
    /\ loads \subseteq LoadStates
    /\ timer \in TimerStates
    /\ import \in [started : BOOLEAN, cancelled : BOOLEAN]
    /\ transfer \in Transfers

\* What the timer is told, what is on disk, and the bounds.
StatusTypes ==
    /\ published \in [ready : BOOLEAN, pending : BOOLEAN, reboot : BOOLEAN]
    /\ cache \in BOOLEAN
    /\ left \in Bounds

\* Type invariant.
TypeOK == MachineTypes /\ ThreadTypes /\ StatusTypes

Host == INSTANCE HostProject WITH
    project <- Saved, sounding <- Content(live), loading <- Pending

\* The device keeps the host's promise (HostProject): whatever threads, reboots and
\* failures come in between, a save gives the project loaded last, the machine changes
\* only to that, once, and nobody's edits are lost (mddevice.cpp 261-370, 512-593,
\* mdPluginProcessor.cpp 664-676, 740-748, plugin.cpp 219-242).
KeepsProject == Host!HostSpec

\* A file goes only into the machine and the project its dialog was opened for, and only
\* that dialog's commands reach it (mddevice.cpp 336-339, 595-644).
ImportsIntoItsProject ==
    /\ InFlight => transfer.ticket = [device |-> device, epoch |-> epoch,
                                      generation |-> generation, request |-> ticket.request]
    /\ transfer.touched \subseteq {transfer.ticket.request}

\* A load ends: the machine is replaced or the failure reported (mddevice.cpp 343-383,
\* 554-577, mdPluginProcessor.cpp 695-773).
LoadsEnd == Pending ~> ~Pending
===============================================================================
