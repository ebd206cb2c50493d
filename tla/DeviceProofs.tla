----------------------------- MODULE DeviceProofs -----------------------------
(***************************************************************************)
(* Proofs about DeviceRestore: its types, that a file goes only where its  *)
(* dialog was opened, and that the device implements HostProject.  What is *)
(* proved of a device alone holds of one with its HostSync, DeviceSession; *)
(* and there HostSync changes only what it read of the present machine.    *)
(***************************************************************************)
EXTENDS DeviceSession, Sequences, RingArithmetic, TLAPS

-----------------------------------------------------------------------------
(* Types.                                                                  *)

Types == MachineTypes /\ ThreadTypes

LEMMA ContentLoadable ==
    ASSUME NEW machine \in Hardware
    PROVE  /\ Content(machine) \in Loadable
           /\ Content(machine).ram = machine.ram /\ Content(machine).flash = machine.flash
           /\ Content(machine).flash \in Nat /\ Content(machine).flash # None
  BY NoneAssumption DEF Content, Loadable, Hardware, Memory, Flash

LEMMA SavedLoadable ==
    ASSUME live \in Hardware, candidate \in Hardware \cup {None},
           requested \in Loadable \cup {None}
    PROVE  Saved \in Loadable /\ Saved # None
  <1>1. CASE Pending /\ requested # None
    BY <1>1 DEF Saved
  <1>2. CASE ~(Pending /\ requested # None)
    <2>1. (IF candidate # None THEN candidate ELSE live) \in Hardware
      OBVIOUS
    <2>2. Saved \in Loadable
      BY <1>2, <2>1, ContentLoadable DEF Saved
    <2> QED BY <2>2, NoneAssumption
  <1> QED BY <1>1, <1>2

\* What prepareState builds is a machine with the project's contents.
Builds(m, p) ==
    /\ m \in Hardware
    /\ m.ram = p.ram
    /\ m.hasFlash = (p.flash # None)
    /\ p.flash # None => m.flash = p.flash

LEMMA PreparedBuilds ==
    ASSUME NEW p \in Loadable, NEW known, NEW m \in Prepared(p, known), m # None
    PROVE  Builds(m, p)
  <1> DEFINE b == [ram |-> p.ram, flash |-> IF p.flash = None THEN 0 ELSE p.flash,
                   expected |-> FALSE, factory |-> IF known THEN "known" ELSE "none",
                   pending |-> FALSE, hasFlash |-> p.flash # None, valid |-> TRUE]
  <1>1. Builds(b, p)
    BY DEF Builds, Hardware, Loadable, Memory, Flash
  <1>2. \/ m = b \/ m = [b EXCEPT !.factory = "none"]
        \/ m = [b EXCEPT !.pending = TRUE, !.expected = TRUE, !.factory = "learning"]
        \/ m = [b EXCEPT !.expected = TRUE, !.factory = "learning"]
    BY DEF Prepared
  <1> HIDE DEF b
  <1> QED BY <1>1, <1>2 DEF Builds, Hardware

LEMMA CommittedHardware ==
    ASSUME live \in Hardware, NEW m \in Hardware
    PROVE  Committed(m) \in Hardware
  BY DEF Committed, Hardware

LEMMA NewMachineHardware ==
    ASSUME NEW m, NEW known
    PROVE  NewMachine(m, known) \in Hardware
  BY DEF NewMachine, Hardware, Memory, Flash

LEMMA InitTypes == Init => Types
  <1> SUFFICES ASSUME Init PROVE Types
    OBVIOUS
  <1>1. live \in Hardware
    BY NewMachineHardware DEF Init
  <1>2. NoTicket \in Ticket
    BY DEF NoTicket, Ticket
  <1>3. timer \in TimerStates
    BY DEF Init, IdleTimer, TimerStates
  <1>4. transfer \in Transfers
    BY <1>2 DEF Init, NoTransfer, Transfers
  <1>5. import \in [started : BOOLEAN, cancelled : BOOLEAN]
    BY DEF Init, NoImport
  <1> QED BY <1>1, <1>2, <1>3, <1>4, <1>5 DEF Init, Types, ThreadTypes, MachineTypes

LEMMA CancelTransfers ==
    ASSUME transfer \in Transfers PROVE CancelTransfer \in Transfers
  BY DEF CancelTransfer, Transfers

LEMMA PreparingLoad ==
    ASSUME NEW l \in LoadStates, l.pc = "preparing"
    PROVE  /\ l.device \in Nat /\ l.generation \in Nat /\ l.project \in Loadable
  BY DEF LoadStates

LEMMA PreparedLoad ==
    ASSUME NEW l \in LoadStates, l.pc = "prepared"
    PROVE  /\ l.device \in Nat /\ l.generation \in Nat /\ l.machine \in Hardware \cup {None}
  BY DEF LoadStates

LEMMA LoadsTypes ==
    ASSUME Types, NEW l \in loads, LoadPrepare(l) \/ LoadFinish(l)
    PROVE  Types'
  <1>t. MachineTypes /\ loads \subseteq LoadStates /\ transfer \in Transfers
    BY DEF Types, ThreadTypes
  <1>l. l \in LoadStates
    BY <1>t
  <1>1. CASE LoadPrepare(l)
    <2>1. PICK m \in Prepared(l.project, l.known \/ cache) :
             loads' = (loads \ {l}) \cup {[pc |-> "prepared", device |-> l.device,
                                           generation |-> l.generation, machine |-> m]}
      BY <1>1 DEF LoadPrepare
    <2>2. l.device \in Nat /\ l.generation \in Nat /\ l.project \in Loadable
      BY <1>1, <1>l, PreparingLoad DEF LoadPrepare
    <2>3. m \in Hardware \cup {None}
      BY <2>2, PreparedBuilds DEF Builds
    <2>4. [pc |-> "prepared", device |-> l.device, generation |-> l.generation, machine |-> m]
              \in LoadStates
      BY <2>2, <2>3 DEF LoadStates
    <2>5. loads' \subseteq LoadStates
      BY <1>t, <2>1, <2>4
    <2> QED
      BY <1>1, <2>5 DEF LoadPrepare, Types, ThreadTypes, MachineTypes, restoreVars, machineVars,
                        importVars
  <1>2. CASE LoadFinish(l)
    <2>1. l.machine \in Hardware \cup {None} /\ loads' \subseteq LoadStates
      BY <1>2, <1>l, <1>t, PreparedLoad DEF LoadFinish
    <2>2. CASE UNCHANGED <<restoreVars, machineVars, transfer>>
      BY <1>2, <2>1, <2>2 DEF LoadFinish, Types, ThreadTypes, MachineTypes, restoreVars, machineVars
    <2>3. CASE End("Failed") /\ UNCHANGED <<generation, machineVars, transfer>>
      BY <1>2, <2>1, <2>3 DEF LoadFinish, End, Types, ThreadTypes, MachineTypes, machineVars
    <2>4. CASE /\ l.machine # None /\ candidate' = l.machine /\ status' = "Initializing"
               /\ UNCHANGED <<requested, generation, machineVars, transfer>>
      BY <1>2, <2>1, <2>4 DEF LoadFinish, Types, ThreadTypes, MachineTypes, machineVars
    <2>5. CASE /\ l.machine # None /\ Commit(l.machine) /\ End("Idle")
               /\ UNCHANGED <<generation, device, published, cache>>
      <3>1. live' \in Hardware /\ epoch' \in Nat
        BY <2>1, <2>5, <1>t, CommittedHardware DEF Commit, MachineTypes
      <3>2. transfer' \in Transfers
        BY <2>5 DEF Commit, NoTransfer, NoTicket, Ticket, Transfers
      <3> QED
        BY <1>2, <2>1, <2>5, <3>1, <3>2 DEF LoadFinish, End, Types, ThreadTypes, MachineTypes
    <2> QED BY <1>2, <2>2, <2>3, <2>4, <2>5 DEF LoadFinish
  <1> QED BY <1>1, <1>2

LEMMA LoadBeginTypes ==
    ASSUME Types, LoadBegin PROVE Types'
  <1>t. MachineTypes /\ loads \subseteq LoadStates /\ transfer \in Transfers
    BY DEF Types, ThreadTypes
  <1>1. PICK project \in Projects(inputs') \cup ({file} \ {None}) :
           /\ requested' = project
           /\ loads' = loads \cup
                 {[pc |-> "preparing", device |-> device, generation |-> generation + 1,
                   project |-> project, known |-> live.factory = "known"]}
    BY DEF LoadBegin
  <1>2. inputs' \in Nat
    BY <1>t DEF LoadBegin, Input, MachineTypes
  <1>3. project \in Loadable
    BY <1>t, <1>1, <1>2 DEF Projects, Loadable, Memory, Flash, MachineTypes
  <1>4. [pc |-> "preparing", device |-> device, generation |-> generation + 1,
         project |-> project, known |-> live.factory = "known"] \in LoadStates
    BY <1>t, <1>3 DEF LoadStates, MachineTypes
  <1>5. loads' \subseteq LoadStates
    BY <1>t, <1>1, <1>4
  <1>6. transfer' \in Transfers
    BY <1>t, CancelTransfers DEF LoadBegin
  <1> QED BY <1>1, <1>2, <1>3, <1>5, <1>6 DEF LoadBegin, Types, ThreadTypes, MachineTypes,
                                              machineVars

LEMMA PlayTypes ==
    ASSUME Types, Process \/ Edit \/ Save \/ TransferStep PROVE Types'
  <1>t. MachineTypes /\ transfer \in Transfers
    BY DEF Types, ThreadTypes
  <1>1. CASE Process
    <2>1. live' \in Hardware
      BY <1>1, <1>t DEF Process, Learned, Hardware, MachineTypes
    <2>2. candidate' \in Hardware \cup {None}
      <3>1. candidate \in Hardware \cup {None} /\ candidate' \in Advanced(candidate)
        BY <1>1, <1>t DEF Process, MachineTypes
      <3>2. ASSUME candidate \in Hardware
            PROVE  /\ [candidate EXCEPT !.pending = FALSE, !.factory = "known"] \in Hardware
                   /\ [candidate EXCEPT !.pending = FALSE, !.valid = FALSE] \in Hardware
        BY <3>2 DEF Hardware
      <3> QED BY <3>1, <3>2 DEF Advanced
    <2> QED BY <1>1, <2>1, <2>2 DEF Process, Types, ThreadTypes, MachineTypes, importVars
  <1>2. CASE Edit
    <2>1. inputs' \in Nat
      BY <1>2, <1>t DEF Edit, Input, MachineTypes
    <2>2. live' \in Hardware
      BY <1>2, <1>t, <2>1 DEF Edit, Hardware, Memory, Flash, MachineTypes
    <2> QED BY <1>2, <2>1, <2>2 DEF Edit, Types, ThreadTypes, MachineTypes, importVars, restoreVars
  <1>3. CASE Save
    <2>1. file' \in Loadable
      BY <1>3, <1>t, SavedLoadable DEF Save, MachineTypes
    <2> QED BY <1>3, <2>1 DEF Save, Types, ThreadTypes, MachineTypes, importVars, restoreVars,
                              machineVars
  <1>4. CASE TransferStep
    <2>1. transfer' \in Transfers
      BY <1>4, <1>t DEF TransferStep, Transfers
    <2>2. inputs' \in Nat
      BY <1>4, <1>t DEF TransferStep, Input, MachineTypes
    <2>3. live' \in Hardware
      BY <1>4, <1>t, <2>2 DEF TransferStep, Hardware, Flash, MachineTypes
    <2> QED BY <1>4, <2>1, <2>2, <2>3 DEF TransferStep, Types, ThreadTypes, MachineTypes,
                                          restoreVars
  <1> QED BY <1>1, <1>2, <1>3, <1>4

LEMMA TimerTypes ==
    ASSUME Types,
           RestoreTake \/ RestoreReboot \/ RestoreCommit \/ RestoreReject
               \/ FactoryCapture \/ FactoryPrepare \/ FactoryCommit
    PROVE  Types'
  <1>t. MachineTypes /\ transfer \in Transfers /\ timer \in TimerStates
    BY DEF Types, ThreadTypes
  <1>i. IdleTimer \in TimerStates
    BY DEF IdleTimer, TimerStates
  <1>n. NoTransfer \in Transfers
    BY DEF NoTransfer, NoTicket, Ticket, Transfers
  <1>1. CASE RestoreTake
    <2>1. candidate \in Hardware
      BY <1>1, <1>t DEF RestoreTake, MachineTypes
    <2>2. timer' \in TimerStates
      BY <1>1, <1>t, <2>1 DEF RestoreTake, TimerStates, MachineTypes
    <2> QED BY <1>1, <2>2 DEF RestoreTake, Types, ThreadTypes, MachineTypes, machineVars, importVars
  <1>2. CASE RestoreReboot
    <2>1. PICK m \in {None} \cup (IF timer.machine.valid
                             THEN {[timer.machine EXCEPT !.expected = FALSE]} ELSE {}) :
             timer' = [timer EXCEPT !.pc = "rebooted", !.machine = m]
      BY <1>2 DEF RestoreReboot
    <2>2. timer \in [pc : {"rebooting"}, device : Nat, epoch : Nat, generation : Nat,
                     machine : Hardware]
      BY <1>2, <1>t DEF RestoreReboot, TimerStates
    <2>3. [timer.machine EXCEPT !.expected = FALSE] \in Hardware
      BY <2>2 DEF Hardware
    <2>4. m \in Hardware \cup {None}
      BY <2>1, <2>3
    <2>5. timer' \in [pc : {"rebooted"}, device : Nat, epoch : Nat, generation : Nat,
                      machine : Hardware \cup {None}]
      BY <2>1, <2>2, <2>4
    <2>6. timer' \in TimerStates
      BY <2>5 DEF TimerStates
    <2> QED BY <1>2, <2>6 DEF RestoreReboot, Types, ThreadTypes, MachineTypes, restoreVars,
                              machineVars, importVars
  <1>3. CASE RestoreCommit
    <2>1. timer.machine \in Hardware
      BY <1>3, <1>t DEF RestoreCommit, TimerStates
    <2>2. live' \in Hardware /\ epoch' \in Nat
      <3>1. CASE CanFinish
        BY <1>3, <1>t, <2>1, <3>1, CommittedHardware DEF RestoreCommit, Commit, MachineTypes
      <3>2. CASE ~CanFinish
        BY <1>3, <1>t, <3>2 DEF RestoreCommit, MachineTypes
      <3> QED BY <3>1, <3>2
    <2>3. transfer' \in Transfers
      BY <1>3, <1>t, <1>n DEF RestoreCommit, Commit
    <2> QED BY <1>3, <1>i, <2>2, <2>3 DEF RestoreCommit, End, Types, ThreadTypes, MachineTypes
  <1>4. CASE RestoreReject
    BY <1>4, <1>i DEF RestoreReject, End, Types, ThreadTypes, MachineTypes, machineVars, importVars
  <1>5. CASE FactoryCapture
    <2>1. Saved \in Loadable
      BY <1>t, SavedLoadable DEF MachineTypes
    <2>2. timer' \in TimerStates
      BY <1>5, <1>t, <2>1 DEF FactoryCapture, TimerStates, MachineTypes
    <2> QED BY <1>5, <2>2 DEF FactoryCapture, Types, ThreadTypes, MachineTypes, restoreVars,
                              machineVars, importVars
  <1>6. CASE FactoryPrepare
    <2>1. timer \in [pc : {"copying"}, device : Nat, epoch : Nat, project : Loadable,
                     known : BOOLEAN]
      BY <1>6, <1>t DEF FactoryPrepare, TimerStates
    <2>2. PICK m \in Prepared(timer.project, timer.known \/ cache') :
             timer' = [pc |-> "copied", device |-> timer.device, epoch |-> timer.epoch,
                       project |-> timer.project, machine |-> m]
      BY <1>6 DEF FactoryPrepare
    <2>3. m \in Hardware \cup {None}
      BY <2>1, <2>2, PreparedBuilds DEF Builds
    <2>4. timer' \in TimerStates
      BY <2>1, <2>2, <2>3 DEF TimerStates
    <2> QED BY <1>6, <2>4 DEF FactoryPrepare, Types, ThreadTypes, MachineTypes, restoreVars,
                              importVars
  <1>7. CASE FactoryCommit
    <2>1. timer.machine \in Hardware \cup {None}
      BY <1>7, <1>t DEF FactoryCommit, TimerStates
    <2>2. live' \in Hardware /\ epoch' \in Nat
      BY <1>7, <1>t, <2>1, CommittedHardware DEF FactoryCommit, Commit, MachineTypes
    <2>3. transfer' \in Transfers
      BY <1>7, <1>t, <1>n DEF FactoryCommit, Commit
    <2> QED BY <1>7, <1>i, <2>2, <2>3 DEF FactoryCommit, Types, ThreadTypes, MachineTypes,
                                          restoreVars
  <1> QED BY <1>1, <1>2, <1>3, <1>4, <1>5, <1>6, <1>7

LEMMA SetDeviceTypes ==
    ASSUME Types, SetDevice PROVE Types'
  <1>t. MachineTypes
    BY DEF Types, ThreadTypes
  <1>1. PICK m \in Prepared(Saved, cache) :
           LET new == NewMachine(model, cache)
           IN  \/ /\ m = None
                  /\ End("Failed")
                  /\ live' = new
               \/ /\ m # None /\ m.pending
                  /\ status' = "Initializing" /\ requested' = Saved /\ candidate' = m
                  /\ live' = new
               \/ /\ m # None /\ ~m.pending
                  /\ End("Idle")
                  /\ live' = IF model = "Machinedrum" /\ ~m.hasFlash
                             THEN [m EXCEPT !.flash = new.flash, !.expected = new.expected,
                                            !.factory = new.factory, !.hasFlash = TRUE]
                             ELSE [m EXCEPT !.hasFlash = TRUE]
    BY DEF SetDevice
  <1>2. Saved \in Loadable
    BY <1>t, SavedLoadable DEF MachineTypes
  <1>3. m # None => m \in Hardware
    BY <1>2, PreparedBuilds DEF Builds
  <1>4. NewMachine(model, cache) \in Hardware
    BY NewMachineHardware
  <1>5. live' \in Hardware
    BY <1>1, <1>3, <1>4 DEF Hardware
  <1>6. /\ status' \in {"Idle", "Initializing", "Failed"}
        /\ requested' \in Loadable \cup {None} /\ candidate' \in Hardware \cup {None}
    BY <1>1, <1>2, <1>3 DEF End
  <1>7. device' \in Nat /\ inputs' \in Nat
    BY <1>t DEF SetDevice, Input, MachineTypes
  <1>8. NoTicket \in Ticket
    BY DEF NoTicket, Ticket
  <1>9. transfer' \in Transfers
    BY <1>8 DEF SetDevice, NoTransfer, Transfers
  <1> QED BY <1>5, <1>6, <1>7, <1>8, <1>9 DEF SetDevice, NoImport, Types, ThreadTypes, MachineTypes

LEMMA ImportTypes ==
    ASSUME Types,
           \/ ImportBegin
           \/ \E d \in dialogs : \/ ImportStart(d) \/ ImportCancel(d)
                                 \/ ImportResume(d) \/ ImportRetire(d)
    PROVE  Types'
  <1>t. /\ MachineTypes /\ transfer \in Transfers
        /\ import \in [started : BOOLEAN, cancelled : BOOLEAN]
    BY DEF Types, ThreadTypes
  <1>1. CASE ImportBegin
    <2>1. ticket' \in Ticket
      BY <1>1, <1>t DEF ImportBegin, Ticket, MachineTypes
    <2>2. dialogs' \subseteq Ticket
      BY <1>1, <1>t, <2>1 DEF ImportBegin, MachineTypes
    <2> QED BY <1>1, <2>1, <2>2 DEF ImportBegin, NoImport, Types, ThreadTypes, MachineTypes,
                                    restoreVars, machineVars
  <1>2. ASSUME NEW d \in dialogs,
               ImportStart(d) \/ ImportCancel(d) \/ ImportResume(d) \/ ImportRetire(d)
        PROVE  Types'
    <2>1. d \in Ticket /\ d.request \in Nat
      BY <1>t DEF Ticket, MachineTypes
    <2>2. CASE ImportStart(d)
      BY <2>1, <2>2, <1>t DEF ImportStart, Transfers, Types, ThreadTypes, MachineTypes,
                              restoreVars, machineVars
    <2>3. CASE ImportCancel(d)
      <3>1. CancelTransfer \in Transfers
        BY <1>t, CancelTransfers
      <3>2. transfer' \in Transfers
        BY <2>1, <2>3, <1>t, <3>1 DEF ImportCancel, Transfers
      <3>3. import' \in [started : BOOLEAN, cancelled : BOOLEAN]
        BY <2>3, <1>t DEF ImportCancel
      <3> QED BY <2>3, <3>2, <3>3 DEF ImportCancel, Types, ThreadTypes, MachineTypes, restoreVars,
                                      machineVars
    <2>4. CASE ImportResume(d)
      <3>1. transfer' = [transfer EXCEPT !.state = "sending",
                                         !.touched = transfer.touched \cup {d.request}]
        BY <2>4, <1>t DEF ImportResume, Transfers
      <3>2. transfer' \in Transfers
        BY <2>1, <1>t, <3>1 DEF Transfers
      <3> QED BY <2>4, <3>2 DEF ImportResume, Types, ThreadTypes, MachineTypes, restoreVars,
                                machineVars
    <2>5. CASE ImportRetire(d)
      <3>1. transfer' = [transfer EXCEPT !.state = "retired",
                                         !.touched = transfer.touched \cup {d.request}]
        BY <2>5, <1>t DEF ImportRetire, Transfers
      <3>2. transfer' \in Transfers
        BY <2>1, <1>t, <3>1 DEF Transfers
      <3> QED BY <2>5, <3>2 DEF ImportRetire, Types, ThreadTypes, MachineTypes, restoreVars,
                                machineVars
    <2> QED BY <1>2, <2>2, <2>3, <2>4, <2>5
  <1> QED BY <1>1, <1>2

LEMMA StepTypes == Types /\ [Next]_vars => Types'
  <1> SUFFICES ASSUME Types, [Next]_vars PROVE Types'
    OBVIOUS
  <1>1. CASE Next
    BY <1>1, LoadBeginTypes, LoadsTypes, PlayTypes, TimerTypes, SetDeviceTypes, ImportTypes
       DEF Next, Between
  <1>2. CASE UNCHANGED vars
    BY <1>2 DEF vars, restoreVars, machineVars, importVars, Types, ThreadTypes, MachineTypes
  <1> QED BY <1>1, <1>2

LEMMA SpendTypes ==
    ASSUME StatusTypes, NEW what \in {"loads", "edits", "saves", "imports", "swaps"}, Spend(what)
    PROVE  left' \in Bounds
  BY DEF StatusTypes, Spend, Bounds

LEMMA ProcessStatus ==
    ASSUME Types, Types', Process
    PROVE  published' \in [ready : BOOLEAN, pending : BOOLEAN, reboot : BOOLEAN]
  <1>1. live'.expected \in BOOLEAN
    BY DEF Types, MachineTypes, Hardware
  <1>2. PICK ready : ready = (candidate' # None /\ status = "Initializing" /\ ~candidate'.pending)
    OBVIOUS
  <1>3. PICK reboot : reboot = (live'.expected /\ live'.factory \in {"known", "tainted"})
    OBVIOUS
  <1>4. ready \in BOOLEAN /\ reboot \in BOOLEAN /\ Pending \in BOOLEAN
    BY <1>1, <1>2, <1>3 DEF Pending
  <1>5. published' = [ready |-> ready, pending |-> Pending, reboot |-> reboot]
    BY <1>2, <1>3 DEF Process
  <1> QED BY <1>4, <1>5

\* What the device publishes, what is on disk and the bounds.
LEMMA StepStatus ==
    ASSUME Types, Types', StatusTypes, [Next]_vars PROVE StatusTypes'
  <1>t. /\ cache \in BOOLEAN
        /\ published \in [ready : BOOLEAN, pending : BOOLEAN, reboot : BOOLEAN]
        /\ left \in Bounds
    BY DEF StatusTypes
  <1>q. Quiet \in [ready : BOOLEAN, pending : BOOLEAN, reboot : BOOLEAN]
    BY DEF Quiet
  <1>1. CASE Process
    BY <1>t, <1>1, ProcessStatus DEF Process, StatusTypes
  <1>2. CASE LoadBegin
    BY <1>t, <1>2, SpendTypes DEF LoadBegin, machineVars, StatusTypes
  <1>3. ASSUME NEW l \in loads, LoadPrepare(l) \/ LoadFinish(l)
        PROVE  StatusTypes'
    <2>1. UNCHANGED <<published, cache, left>>
      BY <1>3 DEF LoadPrepare, LoadFinish, machineVars
    <2> QED BY <1>t, <2>1 DEF StatusTypes
  <1>4. CASE Edit
    BY <1>t, <1>4, SpendTypes DEF Edit, StatusTypes
  <1>5. CASE Save
    BY <1>t, <1>5, SpendTypes DEF Save, machineVars, StatusTypes
  <1>6. CASE RestoreTake \/ RestoreReboot \/ RestoreReject \/ FactoryCapture \/ FactoryCommit
    <2>1. UNCHANGED <<published, cache, left>>
      BY <1>6 DEF RestoreTake, RestoreReboot, RestoreReject, FactoryCapture, FactoryCommit,
                  machineVars
    <2> QED BY <1>t, <2>1 DEF StatusTypes
  <1>7. CASE RestoreCommit
    BY <1>t, <1>7 DEF RestoreCommit, StatusTypes
  <1>8. CASE FactoryPrepare
    <2>1. (cache \/ timer.known) \in BOOLEAN
      OBVIOUS
    <2>2. cache' \in BOOLEAN
      BY <1>t, <1>8, <2>1 DEF FactoryPrepare
    <2> QED BY <1>t, <1>8, <2>2 DEF FactoryPrepare, StatusTypes
  <1>9. CASE SetDevice
    BY <1>t, <1>9, <1>q, SpendTypes DEF SetDevice, StatusTypes
  <1>10. CASE ImportBegin
    BY <1>t, <1>10, SpendTypes DEF ImportBegin, machineVars, StatusTypes
  <1>11. ASSUME NEW d \in dialogs,
                ImportStart(d) \/ ImportCancel(d) \/ ImportResume(d) \/ ImportRetire(d)
         PROVE  StatusTypes'
    <2>1. UNCHANGED <<published, cache, left>>
      BY <1>11 DEF ImportStart, ImportCancel, ImportResume, ImportRetire, machineVars
    <2> QED BY <1>t, <2>1 DEF StatusTypes
  <1>12. CASE TransferStep
    BY <1>t, <1>12 DEF TransferStep, StatusTypes
  <1>13. CASE UNCHANGED vars
    BY <1>t, <1>13 DEF vars, machineVars, StatusTypes
  <1> QED BY <1>1, <1>2, <1>3, <1>4, <1>5, <1>6, <1>7, <1>8, <1>9, <1>10, <1>11, <1>12, <1>13
          DEF Next, Between

\* Every variable keeps its type, for any models and budgets: the machines, the loads under
\* way, the timer's work, the transfer and its tickets, what is published and what is on disk
\* (mddevice.h 344-359, mdPluginProcessor.cpp 664-773).
THEOREM RestoreTypeCorrect == Spec => []TypeOK
  <1>1. Init => Types /\ StatusTypes
    <2>1. Init => StatusTypes
      BY BudgetsAssumption DEF Init, Quiet, StatusTypes, Bounds
    <2> QED BY <2>1, InitTypes
  <1>2. Types /\ StatusTypes /\ [Next]_vars => (Types /\ StatusTypes)'
    BY StepTypes, StepStatus
  <1>3. Types /\ StatusTypes => TypeOK
    BY DEF Types, TypeOK
  <1> QED BY <1>1, <1>2, <1>3, PTL DEF Spec

-----------------------------------------------------------------------------
(* A file goes only where its dialog was opened.                           *)

\* What is under way or over was started for the ticket the device still knows.
TransferOfTheTicket ==
    import.started /\ transfer.state # "none" => transfer.ticket = ticket

ImportInv == ImportsIntoItsProject /\ TransferOfTheTicket

\* Whatever changes the machine, the project or its ticket leaves nothing in flight.
LEMMA NothingInFlight ==
    ASSUME Types, ImportInv,
           \/ transfer' = NoTransfer
           \/ transfer' = CancelTransfer /\ UNCHANGED <<ticket, import>>
    PROVE  ImportInv'
  <1>t. transfer \in Transfers
    BY DEF Types, ThreadTypes
  <1>1. CASE transfer' = NoTransfer
    BY <1>1 DEF NoTransfer, ImportInv, ImportsIntoItsProject, TransferOfTheTicket, InFlight
  <1>2. CASE transfer' = CancelTransfer /\ UNCHANGED <<ticket, import>>
    <2>1. /\ transfer'.ticket = transfer.ticket /\ transfer'.touched = transfer.touched
          /\ (transfer'.state = "none") = (transfer.state = "none")
          /\ transfer'.state \notin {"sending", "awaiting"}
      BY <1>t, <1>2 DEF CancelTransfer, Transfers, InFlight
    <2> QED
      BY <1>2, <2>1 DEF ImportInv, ImportsIntoItsProject, TransferOfTheTicket, InFlight
  <1> QED BY <1>1, <1>2

LEMMA ImportsUntouched ==
    ASSUME ImportInv, UNCHANGED <<ticket, import, transfer, device, epoch, generation>>
    PROVE  ImportInv'
  BY DEF ImportInv, ImportsIntoItsProject, TransferOfTheTicket, InFlight

\* A dialog's command finds the ticket of its own transfer.
LEMMA CommandsImport ==
    ASSUME Types, ImportInv, NEW d \in dialogs,
           ImportStart(d) \/ ImportCancel(d) \/ ImportResume(d) \/ ImportRetire(d)
    PROVE  ImportInv'
  <1>t. transfer \in Transfers /\ import \in [started : BOOLEAN, cancelled : BOOLEAN]
    BY DEF Types, ThreadTypes
  <1>m. /\ d = ticket /\ UNCHANGED <<ticket, device, epoch, generation>>
        /\ d.device = device /\ d.epoch = epoch /\ d.generation = generation
    BY DEF ImportStart, ImportCancel, ImportResume, ImportRetire, Matches, restoreVars, machineVars
  <1>d. d = [device |-> device, epoch |-> epoch, generation |-> generation,
             request |-> ticket.request]
    <2>1. d \in Ticket
      BY DEF Types, ThreadTypes, MachineTypes
    <2> QED BY <1>m, <2>1 DEF Ticket
  <1>1. CASE ImportStart(d)
    BY <1>1, <1>t, <1>m, <1>d
       DEF ImportStart, ImportInv, ImportsIntoItsProject, TransferOfTheTicket, InFlight
  <1>2. CASE ImportCancel(d) /\ ~import.started
    <2>1. transfer' = transfer /\ import'.started = import.started
      BY <1>2, <1>t DEF ImportCancel
    <2> QED
      BY <2>1, <1>m DEF ImportInv, ImportsIntoItsProject, TransferOfTheTicket, InFlight
  <1>3. ASSUME import.started, transfer.state # "none", UNCHANGED import,
               transfer'.ticket = transfer.ticket,
               transfer'.touched = transfer.touched \cup {d.request}
        PROVE  ImportInv'
    <2>1. transfer.ticket = d
      BY <1>m, <1>3 DEF ImportInv, TransferOfTheTicket
    <2> QED
      BY <1>3, <1>m, <1>d, <2>1 DEF ImportInv, ImportsIntoItsProject, TransferOfTheTicket, InFlight
  <1>4. CASE ImportCancel(d) /\ import.started
    <2>1. InFlight /\ transfer' = [CancelTransfer EXCEPT !.touched = @ \cup {d.request}]
          /\ UNCHANGED import
      BY <1>4 DEF ImportCancel
    <2>2. transfer' = [transfer EXCEPT !.state = "cancelling", !.touched = @ \cup {d.request}]
      BY <1>t, <2>1 DEF CancelTransfer, Transfers
    <2> QED BY <1>3, <1>4, <1>t, <2>1, <2>2 DEF InFlight, Transfers
  <1>5. CASE ImportResume(d)
    BY <1>3, <1>5, <1>t DEF ImportResume, Transfers
  <1>6. CASE ImportRetire(d)
    BY <1>3, <1>6, <1>t DEF ImportRetire, Transfers
  <1> QED BY <1>1, <1>2, <1>4, <1>5, <1>6

LEMMA StepImports ==
    ASSUME Types, ImportInv, [Next]_vars PROVE ImportInv'
  <1>t. transfer \in Transfers /\ import \in [started : BOOLEAN, cancelled : BOOLEAN]
    BY DEF Types, ThreadTypes
  <1>1. CASE LoadBegin
    BY <1>1, NothingInFlight DEF LoadBegin
  <1>2. ASSUME NEW l \in loads, LoadPrepare(l) \/ LoadFinish(l) PROVE ImportInv'
    <2>1. \/ UNCHANGED <<ticket, import, transfer, device, epoch, generation>>
          \/ transfer' = NoTransfer
      BY <1>2 DEF LoadPrepare, LoadFinish, Commit, restoreVars, machineVars, importVars
    <2> QED BY <2>1, ImportsUntouched, NothingInFlight
  <1>3. CASE Process \/ Edit \/ Save
    BY <1>3, ImportsUntouched DEF Process, Edit, Save, restoreVars, machineVars, importVars
  <1>4. CASE RestoreTake \/ RestoreReboot \/ RestoreReject \/ FactoryCapture \/ FactoryPrepare
    BY <1>4, ImportsUntouched
       DEF RestoreTake, RestoreReboot, RestoreReject, FactoryCapture, FactoryPrepare,
           restoreVars, machineVars, importVars
  <1>5. CASE RestoreCommit \/ FactoryCommit
    <2>1. \/ UNCHANGED <<ticket, import, transfer, device, epoch, generation>>
          \/ transfer' = NoTransfer
      BY <1>5 DEF RestoreCommit, FactoryCommit, Commit, restoreVars
    <2> QED BY <2>1, ImportsUntouched, NothingInFlight
  <1>6. CASE SetDevice
    BY <1>6, NothingInFlight DEF SetDevice
  <1>7. CASE ImportBegin
    BY <1>7, <1>t DEF ImportBegin, NoImport, OwnsWire, InFlight, ImportInv, ImportsIntoItsProject,
                      TransferOfTheTicket
  <1>8. ASSUME NEW d \in dialogs,
               ImportStart(d) \/ ImportCancel(d) \/ ImportResume(d) \/ ImportRetire(d)
        PROVE  ImportInv'
    BY <1>8, CommandsImport
  <1>9. CASE TransferStep
    <2>1. /\ transfer'.ticket = transfer.ticket /\ transfer'.touched = transfer.touched
          /\ transfer.state # "none"
          /\ transfer'.state \in {"sending", "awaiting"} => InFlight
          /\ UNCHANGED <<ticket, import, device, epoch, generation>>
      BY <1>9, <1>t DEF TransferStep, Transfers, InFlight, restoreVars
    <2> QED
      BY <2>1 DEF ImportInv, ImportsIntoItsProject, TransferOfTheTicket, InFlight
  <1>10. CASE UNCHANGED vars
    BY <1>10, ImportsUntouched DEF vars, restoreVars, machineVars, importVars
  <1> QED
    BY <1>1, <1>2, <1>3, <1>4, <1>5, <1>6, <1>7, <1>8, <1>9, <1>10 DEF Next, Between

\* A file reaches only the machine and the project its dialog was opened for, for any number
\* of dialogs, loads and exchanges of the device (mddevice.cpp 336-339, 595-644).
THEOREM ImportsCorrect == Spec => []ImportsIntoItsProject
  <1>1. Init => ImportInv
    BY DEF Init, NoTransfer, ImportInv, ImportsIntoItsProject, TransferOfTheTicket, InFlight
  <1>2. Types /\ ImportInv /\ [Next]_vars => (Types /\ ImportInv)'
    BY StepTypes, StepImports
  <1>3. Spec => [](Types /\ ImportInv)
    BY InitTypes, <1>1, <1>2, PTL DEF Spec
  <1>4. ImportInv => ImportsIntoItsProject
    BY DEF ImportInv
  <1> QED BY <1>3, <1>4, PTL

-----------------------------------------------------------------------------
(* The device keeps the project it was given.                              *)

\* A project the host may load: on a Monomachine it brings its flash.
Fits(p) == p \in Loadable /\ (model = "Monomachine" => p.flash # None)

\* A candidate machine was built for the project asked for last.
RequestKept ==
    /\ Pending => requested # None /\ Fits(requested)
    /\ candidate # None => status = "Initializing" /\ Builds(candidate, requested)

\* A load that is still the last one was asked for what the device waits for.
LoadFits(l) ==
    /\ l.device <= device
    /\ l.device = device => l.generation <= generation
    /\ l.pc = "preparing" => Fits(l.project)
    /\ Current(l) =>
        /\ status = "Preparing"
        /\ l.pc = "preparing" => l.project = requested
        /\ l.pc = "prepared" => l.machine = None \/ Builds(l.machine, requested)

LoadsDiffer ==
    \A l, k \in loads : l.device = k.device /\ l.generation = k.generation => l = k

\* What the timer may still commit is what is waited for, or what it copied.
TimerFits ==
    /\ timer.pc = "rebooting" /\ CanFinish => Builds(timer.machine, requested)
    /\ timer.pc = "rebooted" /\ CanFinish =>
           timer.machine = None \/ Builds(timer.machine, requested)
    /\ timer.pc \in {"copying", "copied"} => timer.project.flash # None
    /\ timer.pc = "copied" => timer.machine = None \/ Builds(timer.machine, timer.project)

Kept ==
    /\ file # None => Fits(file)
    /\ RequestKept
    /\ \A l \in loads : LoadFits(l)
    /\ LoadsDiffer
    /\ TimerFits

LEMMA SavedIs ==
    ASSUME RequestKept
    PROVE  /\ Pending => Saved = requested
           /\ ~Pending => candidate = None /\ Saved = Content(live)
  BY DEF RequestKept, Saved, Pending

LEMMA SavedFits ==
    ASSUME Types, RequestKept
    PROVE  Fits(Saved)
  <1>1. CASE Pending
    BY <1>1, SavedIs DEF RequestKept
  <1>2. CASE ~Pending
    BY <1>2, SavedIs, ContentLoadable DEF Types, ThreadTypes, MachineTypes, Fits
  <1> QED BY <1>1, <1>2

\* Committing a machine built for a project gives that project, with the samples that
\* were there when it has none.
LEMMA CommitsOver ==
    ASSUME Types, NEW p, Fits(p), NEW m, Builds(m, p)
    PROVE  Content(Committed(m)) = Host!Over(p, Content(live))
  <1>1. model \in {"Machinedrum", "Monomachine"} /\ live \in Hardware /\ m \in Hardware
    BY ModelsAssumption DEF Types, ThreadTypes, MachineTypes, Builds
  <1>2. CASE p.flash = None
    <2>1. model = "Machinedrum" /\ ~m.hasFlash
      BY <1>1, <1>2 DEF Fits, Builds
    <2>2. Committed(m).ram = m.ram /\ Committed(m).flash = live.flash
      BY <1>1, <2>1 DEF Committed, Hardware
    <2> QED BY <1>2, <2>2 DEF Content, Host!Over, Builds
  <1>3. CASE p.flash # None
    <2>1. m.hasFlash /\ m.flash = p.flash
      BY <1>3 DEF Builds
    <2>2. Committed(m).ram = m.ram /\ Committed(m).flash = m.flash
      BY <1>1, <2>1 DEF Committed, Hardware
    <2> QED BY <1>3, <2>1, <2>2 DEF Content, Host!Over, Builds
  <1> QED BY <1>2, <1>3

-----------------------------------------------------------------------------
(* The invariant.                                                          *)

\* What was fit stays so; no model changes.
LEMMA LoadsStay ==
    ASSUME Kept, loads' \subseteq loads, UNCHANGED <<model, device, generation>>,
           \A l \in loads' : Current(l) => UNCHANGED <<status, requested>>
    PROVE  (\A l \in loads : LoadFits(l))' /\ LoadsDiffer'
  <1>1. ASSUME NEW l \in loads' PROVE LoadFits(l)'
    BY <1>1 DEF Kept, LoadFits, Current, Fits
  <1> QED BY <1>1 DEF Kept, LoadsDiffer

LEMMA LoadsOutdated ==
    ASSUME Types, Kept, loads' = loads, UNCHANGED model,
           \/ device' = device + 1
           \/ device' = device /\ generation' = generation + 1
    PROVE  (\A l \in loads : LoadFits(l))' /\ LoadsDiffer'
  <1>1. ASSUME NEW l \in loads PROVE LoadFits(l)'
    <2>1. /\ l.device \in Nat /\ l.generation \in Nat /\ device \in Nat /\ generation \in Nat
          /\ l.device <= device /\ (l.device = device => l.generation <= generation)
          /\ l.pc = "preparing" => Fits(l.project)
      BY <1>1 DEF Types, ThreadTypes, MachineTypes, LoadStates, Kept, LoadFits
    <2>2. ~(l.device = device' /\ l.generation = generation')
      BY <2>1
    <2>3. l.device <= device' /\ (l.device = device' => l.generation <= generation')
      BY <2>1
    <2> QED BY <2>1, <2>2, <2>3 DEF LoadFits, Current, Fits
  <1> QED BY <1>1 DEF Kept, LoadsDiffer

LEMMA TimerStays ==
    ASSUME Kept, timer' = timer,
           status' = "Finalizing" =>
               status = "Finalizing" /\ UNCHANGED <<requested, device, epoch, generation>>
    PROVE  TimerFits'
  BY DEF Kept, TimerFits, CanFinish

LEMMA TimerRests ==
    ASSUME timer' = IdleTimer PROVE TimerFits'
  BY DEF TimerFits, IdleTimer

LEMMA RestoreOver ==
    ASSUME Kept, End("Idle") \/ End("Failed") PROVE RequestKept'
  BY DEF End, RequestKept, Pending

LEMMA LoadBeginKeeps ==
    ASSUME Types, Kept, LoadBegin PROVE Kept'
  <1>t. MachineTypes /\ loads \subseteq LoadStates
    BY DEF Types, ThreadTypes
  <1>1. PICK project \in Projects(inputs') \cup ({file} \ {None}) :
           /\ requested' = project
           /\ loads' = loads \cup
                 {[pc |-> "preparing", device |-> device, generation |-> generation + 1,
                   project |-> project, known |-> live.factory = "known"]}
    BY DEF LoadBegin
  <1>n. PICK new :
           new = [pc |-> "preparing", device |-> device, generation |-> generation + 1,
                  project |-> project, known |-> live.factory = "known"]
    OBVIOUS
  <1>2. inputs' \in Nat /\ model \in {"Machinedrum", "Monomachine"}
    BY <1>t, ModelsAssumption DEF LoadBegin, Input, MachineTypes
  <1>3. Fits(project)
    <2>1. CASE project \in Projects(inputs')
      BY <1>2, <2>1, NoneAssumption DEF Projects, Fits, Loadable, Memory, Flash
    <2>2. CASE project \in {file} \ {None}
      BY <2>2 DEF Kept
    <2> QED BY <2>1, <2>2
  <1>4. /\ UNCHANGED <<model, device, epoch, timer, file>> /\ generation' = generation + 1
        /\ status' = "Preparing" /\ candidate' = None /\ requested' = project
    BY <1>1 DEF LoadBegin, machineVars
  <1>5. project # None
    BY <1>3, NoneAssumption DEF Fits
  <1>6. RequestKept'
    BY <1>3, <1>4, <1>5 DEF RequestKept, Fits
  <1>7. ASSUME NEW l \in loads
        PROVE  /\ LoadFits(l)'
               /\ ~(l.device = new.device /\ l.generation = new.generation)
    <2>1. /\ l.device \in Nat /\ l.generation \in Nat /\ device \in Nat /\ generation \in Nat
          /\ l.device <= device /\ (l.device = device => l.generation <= generation)
          /\ l.pc = "preparing" => Fits(l.project)
      BY <1>t, <1>7 DEF MachineTypes, LoadStates, Kept, LoadFits
    <2>2. ~(l.device = device /\ l.generation = generation + 1)
      BY <2>1
    <2>3. l.device = device => l.generation <= generation + 1
      BY <2>1
    <2> QED BY <1>n, <1>4, <2>1, <2>2, <2>3 DEF LoadFits, Current, Fits
  <1>8. LoadFits(new)'
    <2>1. device \in Nat /\ generation \in Nat
      BY <1>t DEF MachineTypes
    <2> QED BY <1>n, <1>3, <1>4, <2>1 DEF LoadFits, Current, Fits
  <1>9. LoadsDiffer'
    BY <1>n, <1>1, <1>7 DEF Kept, LoadsDiffer
  <1>10. TimerFits'
    BY <1>4, TimerStays
  <1> QED BY <1>n, <1>1, <1>4, <1>6, <1>7, <1>8, <1>9, <1>10 DEF Kept, Fits

LEMMA LoadPrepareKeeps ==
    ASSUME Types, Kept, NEW l \in loads, LoadPrepare(l) PROVE Kept'
  <1>t. l \in LoadStates /\ l.pc = "preparing"
    BY DEF Types, ThreadTypes, LoadPrepare
  <1>1. PICK m \in Prepared(l.project, l.known \/ cache) :
           loads' = (loads \ {l}) \cup
               {[pc |-> "prepared", device |-> l.device, generation |-> l.generation,
                 machine |-> m]}
    BY DEF LoadPrepare
  <1> DEFINE new == [pc |-> "prepared", device |-> l.device, generation |-> l.generation,
                     machine |-> m]
  <1>2. m = None \/ Builds(m, l.project)
    BY <1>t, PreparingLoad, PreparedBuilds
  <1>3. UNCHANGED <<model, status, requested, candidate, generation, device, epoch, timer, file>>
    BY DEF LoadPrepare, restoreVars, machineVars
  <1>4. LoadFits(l)
    BY DEF Kept
  <1>5. LoadFits(new)'
    <2>1. LoadFits(new)
      BY <1>t, <1>2, <1>4 DEF LoadFits, Current
    <2> QED BY <1>3, <2>1 DEF LoadFits, Current, Fits
  <1>6. ASSUME NEW k \in loads PROVE LoadFits(k)'
    BY <1>3, <1>6 DEF Kept, LoadFits, Current, Fits
  <1>7. LoadsDiffer'
    BY <1>1 DEF Kept, LoadsDiffer
  <1>8. TimerFits'
    BY <1>3, TimerStays
  <1> QED BY <1>1, <1>3, <1>5, <1>6, <1>7, <1>8 DEF Kept, RequestKept, Pending, Fits

LEMMA LoadFinishKeeps ==
    ASSUME Types, Kept, NEW l \in loads, LoadFinish(l) PROVE Kept'
  <1>1. /\ loads' = loads \ {l} /\ UNCHANGED <<model, device, generation, timer, file>>
        /\ l.pc = "prepared"
    BY DEF LoadFinish, restoreVars, machineVars
  <1>2. CASE ~Current(l)
    <2>1. UNCHANGED <<status, requested, candidate, epoch>>
      BY <1>2 DEF LoadFinish, restoreVars, machineVars
    <2>2. (\A k \in loads : LoadFits(k))' /\ LoadsDiffer'
      BY <1>1, <2>1, LoadsStay
    <2>3. TimerFits'
      BY <1>1, <2>1, TimerStays
    <2> QED BY <1>1, <2>1, <2>2, <2>3 DEF Kept, RequestKept, Pending, Fits
  <1>3. CASE Current(l)
    <2>1. \A k \in loads' : ~Current(k)
      BY <1>1, <1>3 DEF Kept, LoadsDiffer, Current
    <2>2. (\A k \in loads : LoadFits(k))' /\ LoadsDiffer'
      BY <1>1, <2>1, LoadsStay
    <2>3. status = "Preparing" /\ (l.machine = None \/ Builds(l.machine, requested))
      BY <1>1, <1>3 DEF Kept, LoadFits
    <2>4. status' # "Finalizing"
      BY <1>3 DEF LoadFinish, End
    <2>5. TimerFits'
      BY <1>1, <2>4, TimerStays
    <2>6. RequestKept'
      <3>1. CASE End("Idle") \/ End("Failed")
        BY <3>1, RestoreOver
      <3>2. CASE /\ l.machine # None /\ candidate' = l.machine /\ status' = "Initializing"
                 /\ UNCHANGED requested
        BY <1>1, <2>3, <3>2 DEF Kept, RequestKept, Pending, Fits
      <3> QED BY <1>3, <3>1, <3>2 DEF LoadFinish
    <2> QED BY <1>1, <2>2, <2>5, <2>6 DEF Kept, Fits
  <1> QED BY <1>2, <1>3

\* A candidate that advances keeps its contents.
LEMMA AdvancedBuilds ==
    ASSUME NEW m \in Hardware, NEW n \in Advanced(m), NEW p, Builds(m, p)
    PROVE  Builds(n, p)
  BY DEF Advanced, Builds, Hardware

LEMMA PlayKeeps ==
    ASSUME Types, Kept, Process \/ Edit \/ Save \/ TransferStep PROVE Kept'
  <1>1. UNCHANGED <<model, status, requested, generation, device, epoch, loads, timer>>
    BY DEF Process, Edit, Save, TransferStep, restoreVars, machineVars
  <1>2. (\A k \in loads : LoadFits(k))' /\ LoadsDiffer' /\ TimerFits'
    BY <1>1, LoadsStay, TimerStays
  <1>3. CASE Process
    <2>1. file' = file /\ candidate' \in Advanced(candidate)
      BY <1>3 DEF Process
    <2>2. candidate # None => candidate \in Hardware /\ Builds(candidate, requested)
      BY DEF Types, ThreadTypes, MachineTypes, Kept, RequestKept
    <2>3. candidate' # None => candidate # None /\ Builds(candidate', requested)
      BY <2>1, <2>2, AdvancedBuilds DEF Advanced
    <2> QED BY <1>1, <1>2, <2>1, <2>3 DEF Kept, RequestKept, Pending, Fits
  <1>4. CASE Edit \/ TransferStep
    BY <1>1, <1>2, <1>4 DEF Edit, TransferStep, restoreVars, Kept, RequestKept, Pending, Fits
  <1>5. CASE Save
    <2>1. Fits(Saved)
      BY SavedFits DEF Kept
    <2>2. file' = Saved /\ candidate' = candidate
      BY <1>5 DEF Save, restoreVars
    <2> QED BY <1>1, <1>2, <2>1, <2>2 DEF Kept, RequestKept, Pending, Fits
  <1> QED BY <1>3, <1>4, <1>5

LEMMA RebootKeeps ==
    ASSUME Types, Kept, RestoreTake \/ RestoreReboot \/ RestoreCommit \/ RestoreReject
    PROVE  Kept'
  <1>t. timer \in TimerStates /\ MachineTypes
    BY DEF Types, ThreadTypes
  <1>1. UNCHANGED <<model, device, generation, loads, file>>
    BY DEF RestoreTake, RestoreReboot, RestoreCommit, RestoreReject, restoreVars, machineVars
  <1>2. CASE RestoreTake
    <2>1. /\ status = "Initializing" /\ status' = "Finalizing" /\ requested' = requested
          /\ candidate # None /\ candidate' = None /\ epoch' = epoch
          /\ timer' = [pc |-> "rebooting", device |-> device, epoch |-> epoch,
                       generation |-> generation, machine |-> candidate]
      BY <1>2 DEF RestoreTake, machineVars
    <2>2. \A l \in loads' : ~Current(l)
      BY <1>1, <2>1 DEF Kept, LoadFits
    <2>3. (\A l \in loads : LoadFits(l))' /\ LoadsDiffer'
      BY <1>1, <2>2, LoadsStay
    <2>4. Builds(candidate, requested)
      BY <2>1 DEF Kept, RequestKept
    <2>5. TimerFits'
      BY <2>1, <2>4 DEF TimerFits
    <2>6. RequestKept'
      BY <1>1, <2>1 DEF Kept, RequestKept, Pending, Fits
    <2> QED BY <1>1, <2>3, <2>5, <2>6 DEF Kept, Fits
  <1>3. CASE RestoreReboot
    <2>1. UNCHANGED <<status, requested, candidate, epoch>>
      BY <1>3 DEF RestoreReboot, restoreVars, machineVars
    <2>2. PICK m \in {None} \cup (IF timer.machine.valid
                                  THEN {[timer.machine EXCEPT !.expected = FALSE]} ELSE {}) :
             timer' = [timer EXCEPT !.pc = "rebooted", !.machine = m]
      BY <1>3 DEF RestoreReboot
    <2>3. timer \in [pc : {"rebooting"}, device : Nat, epoch : Nat, generation : Nat,
                     machine : Hardware]
      BY <1>3, <1>t DEF RestoreReboot, TimerStates
    <2>4. CanFinish' => CanFinish
      BY <1>1, <2>1, <2>2, <2>3 DEF CanFinish
    <2>5. CanFinish => Builds(timer.machine, requested)
      BY <2>3 DEF Kept, TimerFits
    <2>6. m = None \/ (CanFinish => Builds(m, requested))
      BY <2>2, <2>3, <2>5 DEF Builds, Hardware
    <2>7. timer'.pc = "rebooted" /\ timer'.machine = m
      BY <2>2, <2>3
    <2>8. TimerFits'
      BY <2>1, <2>4, <2>6, <2>7 DEF TimerFits
    <2>9. (\A l \in loads : LoadFits(l))' /\ LoadsDiffer'
      BY <1>1, <2>1, LoadsStay
    <2> QED BY <1>1, <2>1, <2>8, <2>9 DEF Kept, RequestKept, Pending, Fits
  <1>4. CASE RestoreCommit \/ RestoreReject
    <2>1. TimerFits'
      BY <1>4, TimerRests DEF RestoreCommit, RestoreReject
    <2>2. CASE CanFinish /\ (End("Idle") \/ End("Failed"))
      <3>1. \A l \in loads' : ~Current(l)
        BY <1>1, <2>2 DEF Kept, LoadFits, CanFinish
      <3>2. (\A l \in loads : LoadFits(l))' /\ LoadsDiffer'
        BY <1>1, <3>1, LoadsStay
      <3> QED BY <1>1, <2>1, <2>2, <3>2, RestoreOver DEF Kept, Fits
    <2>3. CASE UNCHANGED <<status, requested, candidate>>
      <3>1. (\A l \in loads : LoadFits(l))' /\ LoadsDiffer'
        BY <1>1, <2>3, LoadsStay
      <3> QED BY <1>1, <2>1, <2>3, <3>1 DEF Kept, RequestKept, Pending, Fits
    <2> QED BY <1>4, <2>2, <2>3 DEF RestoreCommit, RestoreReject, StillFinalizing
  <1> QED BY <1>2, <1>3, <1>4

LEMMA FactoryKeeps ==
    ASSUME Types, Kept, FactoryCapture \/ FactoryPrepare \/ FactoryCommit
    PROVE  Kept'
  <1>t. timer \in TimerStates /\ MachineTypes
    BY DEF Types, ThreadTypes
  <1>1. UNCHANGED <<model, status, requested, candidate, device, generation, loads, file>>
    BY DEF FactoryCapture, FactoryPrepare, FactoryCommit, restoreVars, machineVars
  <1>2. (\A l \in loads : LoadFits(l))' /\ LoadsDiffer'
    BY <1>1, LoadsStay
  <1>3. TimerFits'
    <2>1. CASE FactoryCapture
      <3>1. Saved = Content(live)
        BY <2>1, SavedIs DEF FactoryCapture, Kept
      <3>2. Saved.flash # None
        BY <1>t, <3>1, ContentLoadable DEF MachineTypes
      <3> QED BY <2>1, <3>2 DEF FactoryCapture, TimerFits
    <2>2. CASE FactoryPrepare
      <3>1. timer \in [pc : {"copying"}, device : Nat, epoch : Nat, project : Loadable,
                       known : BOOLEAN]
        BY <2>2, <1>t DEF FactoryPrepare, TimerStates
      <3>2. PICK m \in Prepared(timer.project, timer.known \/ cache') :
               timer' = [pc |-> "copied", device |-> timer.device, epoch |-> timer.epoch,
                         project |-> timer.project, machine |-> m]
        BY <2>2 DEF FactoryPrepare
      <3>3. m = None \/ Builds(m, timer.project)
        BY <3>1, <3>2, PreparedBuilds
      <3>4. timer.project.flash # None
        BY <3>1 DEF Kept, TimerFits
      <3> QED BY <3>2, <3>3, <3>4 DEF TimerFits
    <2>3. CASE FactoryCommit
      BY <2>3, TimerRests DEF FactoryCommit
    <2> QED BY <2>1, <2>2, <2>3
  <1> QED BY <1>1, <1>2, <1>3 DEF Kept, RequestKept, Pending, Fits

LEMMA SetDeviceKeeps ==
    ASSUME Types, Kept, SetDevice PROVE Kept'
  <1>1. /\ UNCHANGED <<model, loads, timer, file>> /\ device' = device + 1
        /\ status' # "Finalizing"
    BY DEF SetDevice, End
  <1>2. (\A l \in loads : LoadFits(l))' /\ LoadsDiffer'
    BY <1>1, LoadsOutdated
  <1>3. TimerFits'
    BY <1>1, TimerStays
  <1>4. Fits(Saved)
    BY SavedFits DEF Kept
  <1>5. Saved # None
    BY <1>4, NoneAssumption DEF Fits
  <1>6. PICK m \in Prepared(Saved, cache) :
           \/ End("Failed") \/ End("Idle")
           \/ /\ m # None /\ status' = "Initializing" /\ requested' = Saved /\ candidate' = m
    BY DEF SetDevice
  <1>7. m # None => Builds(m, Saved)
    BY <1>4, PreparedBuilds DEF Fits
  <1>8. RequestKept'
    <2>1. CASE End("Failed") \/ End("Idle")
      BY <2>1, RestoreOver
    <2>2. CASE /\ m # None /\ status' = "Initializing" /\ requested' = Saved /\ candidate' = m
      BY <1>1, <1>4, <1>5, <1>7, <2>2 DEF RequestKept, Fits
    <2> QED BY <1>6, <2>1, <2>2
  <1> QED BY <1>1, <1>2, <1>3, <1>8 DEF Kept, Fits

LEMMA OthersKeep ==
    ASSUME Types, Kept,
           \/ ImportBegin
           \/ \E d \in dialogs :
                 ImportStart(d) \/ ImportCancel(d) \/ ImportResume(d) \/ ImportRetire(d)
           \/ UNCHANGED vars
    PROVE  Kept'
  <1>1. UNCHANGED <<model, status, requested, candidate, generation, device, epoch, loads, timer,
                    file>>
    BY DEF ImportBegin, ImportStart, ImportCancel, ImportResume, ImportRetire, vars, restoreVars,
           machineVars
  <1>2. (\A l \in loads : LoadFits(l))' /\ LoadsDiffer' /\ TimerFits'
    BY <1>1, LoadsStay, TimerStays
  <1> QED BY <1>1, <1>2 DEF Kept, RequestKept, Pending, Fits

LEMMA StepKeeps ==
    ASSUME Types, Kept, [Next]_vars PROVE Kept'
  BY LoadBeginKeeps, LoadPrepareKeeps, LoadFinishKeeps, PlayKeeps, RebootKeeps, FactoryKeeps,
     SetDeviceKeeps, OthersKeep DEF Next, Between

-----------------------------------------------------------------------------
(* Every step is one of the host's, or none.                               *)

LEMMA StutterSteps ==
    ASSUME UNCHANGED <<status, requested, candidate, live, inputs>>
    PROVE  UNCHANGED Host!hostVars
  BY DEF Host!hostVars, Saved, Pending, Content

\* A load that ends: the device gives what its machine then is.
LEMMA EndedLoad ==
    ASSUME End("Idle") \/ End("Failed")
    PROVE  Pending' = FALSE /\ Saved' = Content(live)'
  BY DEF End, Pending, Saved

LEMMA Playable ==
    ASSUME NEW m \in Hardware
    PROVE  Content(m) \in Host!Playable
  BY DEF Content, Host!Playable, Hardware

LEMMA LoadsRefine ==
    ASSUME Types, Types', Kept, Kept',
           LoadBegin \/ \E l \in loads : LoadPrepare(l) \/ LoadFinish(l)
    PROVE  Host!HostNext \/ UNCHANGED Host!hostVars
  <1>1. CASE LoadBegin
    <2>1. inputs' = inputs + 1 /\ Pending' = TRUE /\ live' = live
      BY <1>1 DEF LoadBegin, Input, Pending, machineVars
    <2>2. Fits(Saved)'
      BY <2>1 DEF Kept, RequestKept, Saved
    <2>3. Host!Load
      BY <2>1, <2>2 DEF Host!Load, Host!Loadable, Loadable, Fits, Content
    <2> QED BY <2>3 DEF Host!HostNext
  <1>2. ASSUME NEW l \in loads, LoadPrepare(l) PROVE UNCHANGED Host!hostVars
    BY <1>2, StutterSteps DEF LoadPrepare, restoreVars, machineVars
  <1>3. ASSUME NEW l \in loads, LoadFinish(l)
        PROVE  Host!HostNext \/ UNCHANGED Host!hostVars
    <2>1. inputs' = inputs /\ l.pc = "prepared"
      BY <1>3 DEF LoadFinish
    <2>2. CASE ~Current(l)
      BY <1>3, <2>1, <2>2, StutterSteps DEF LoadFinish, restoreVars, machineVars
    <2>3. CASE Current(l)
      <3>1. /\ status = "Preparing" /\ Pending
            /\ l.machine = None \/ Builds(l.machine, requested)
            /\ requested # None /\ Fits(requested) /\ candidate = None /\ Saved = requested
        BY <2>1, <2>3, SavedIs DEF Kept, LoadFits, RequestKept, Pending
      <3>2. CASE End("Failed") /\ UNCHANGED machineVars
        BY <2>1, <3>1, <3>2, EndedLoad
           DEF machineVars, Host!GiveUp, Host!HostNext, Content, Pending
      <3>3. CASE candidate' = l.machine /\ status' = "Initializing"
                 /\ UNCHANGED <<requested, machineVars>>
        <4>1. Pending' = Pending /\ Saved' = Saved /\ live' = live
          BY <3>1, <3>3 DEF Pending, Saved, machineVars
        <4> QED BY <2>1, <4>1 DEF Host!hostVars, Content
      <3>4. CASE l.machine # None /\ Commit(l.machine) /\ End("Idle")
        <4>1. Content(live)' = Host!Over(Saved, Content(live))
          <5>1. Content(Committed(l.machine)) = Host!Over(requested, Content(live))
            BY <3>1, <3>4, CommitsOver
          <5> QED BY <3>1, <3>4, <5>1 DEF Commit, Content
        <4>2. Host!Complete
          BY <2>1, <3>1, <3>4, <4>1, EndedLoad DEF Host!Complete, Pending
        <4> QED BY <4>2 DEF Host!HostNext
      <3> QED BY <1>3, <2>3, <3>2, <3>3, <3>4 DEF LoadFinish
    <2> QED BY <2>2, <2>3
  <1> QED BY <1>1, <1>2, <1>3

\* The user's hands on the machine, during a load or not.
LEMMA EditRefines ==
    ASSUME Types, Types', Kept, inputs' = inputs + 1, UNCHANGED <<status, requested, candidate>>
    PROVE  Host!HostNext
  <1>1. Content(live)' \in Host!Playable
    BY Playable DEF Types, ThreadTypes, MachineTypes, Content
  <1>2. Pending' = Pending
    BY DEF Pending
  <1>3. Saved' = IF Pending THEN Saved ELSE Content(live)'
    <2>1. CASE Pending
      BY <1>2, <2>1 DEF Kept, RequestKept, Saved
    <2>2. CASE ~Pending
      BY <1>2, <2>2, SavedIs DEF Kept, Saved
    <2> QED BY <2>1, <2>2
  <1> QED BY <1>1, <1>2, <1>3 DEF Host!Edit, Host!HostNext

LEMMA PlayRefines ==
    ASSUME Types, Types', Kept, Process \/ Edit \/ Save \/ TransferStep
    PROVE  Host!HostNext \/ UNCHANGED Host!hostVars
  <1>1. CASE Process
    <2>1. UNCHANGED <<status, requested, inputs>> /\ live' \in Learned(live)
          /\ candidate' \in Advanced(candidate)
      BY <1>1 DEF Process
    <2>2. Content(live)' = Content(live)
      BY <2>1 DEF Learned, Content, Types, ThreadTypes, MachineTypes, Hardware
    <2>3. Pending' = Pending
      BY <2>1 DEF Pending
    <2>4. Saved' = Saved
      <3>1. CASE Pending
        BY <2>1, <2>3, <3>1 DEF Kept, RequestKept, Saved
      <3>2. CASE ~Pending
        <4>1. candidate = None /\ candidate' = None
          BY <2>1, <3>2, SavedIs DEF Kept, Advanced
        <4> QED BY <2>2, <2>3, <3>2, <4>1 DEF Saved, Content
      <3> QED BY <3>1, <3>2
    <2> QED BY <2>1, <2>2, <2>3, <2>4 DEF Host!hostVars
  <1>2. CASE Edit
    BY <1>2, EditRefines DEF Edit, Input, restoreVars
  <1>3. CASE Save
    BY <1>3, StutterSteps DEF Save, restoreVars, machineVars
  <1>4. CASE TransferStep
    BY <1>4, EditRefines, StutterSteps DEF TransferStep, Input, restoreVars
  <1> QED BY <1>1, <1>2, <1>3, <1>4

LEMMA RebootRefines ==
    ASSUME Types, Kept, RestoreTake \/ RestoreReboot \/ RestoreCommit \/ RestoreReject
    PROVE  Host!HostNext \/ UNCHANGED Host!hostVars
  <1>1. CASE RestoreTake
    <2>1. /\ Pending /\ Pending' /\ UNCHANGED <<requested, live, inputs>>
      BY <1>1 DEF RestoreTake, Pending, machineVars
    <2>2. Saved' = Saved
      BY <2>1 DEF Kept, RequestKept, Saved
    <2>3. Pending' = Pending
      BY <1>1 DEF RestoreTake, Pending
    <2> QED BY <2>1, <2>2, <2>3 DEF Host!hostVars, Content
  <1>2. CASE RestoreReboot
    BY <1>2, StutterSteps DEF RestoreReboot, restoreVars, machineVars
  <1>3. ASSUME CanFinish
        PROVE  Pending /\ Fits(requested) /\ Saved = requested
    BY <1>3, SavedIs DEF CanFinish, Pending, Kept, RequestKept
  <1>4. CASE RestoreCommit
    <2>1. CASE CanFinish
      <3>1. Builds(timer.machine, requested)
        BY <1>4, <2>1 DEF RestoreCommit, Kept, TimerFits
      <3>2. Commit(timer.machine) /\ End("Idle") /\ inputs' = inputs
        BY <1>4, <2>1 DEF RestoreCommit
      <3>3. Content(live)' = Host!Over(Saved, Content(live))
        <4>1. Content(Committed(timer.machine)) = Host!Over(requested, Content(live))
          BY <1>3, <2>1, <3>1, CommitsOver
        <4> QED BY <1>3, <2>1, <3>2, <4>1 DEF Commit, Content
      <3>4. Host!Complete
        BY <1>3, <2>1, <3>2, <3>3, EndedLoad DEF Host!Complete, Pending
      <3> QED BY <3>4 DEF Host!HostNext
    <2>2. CASE ~CanFinish
      BY <1>4, <2>2, StutterSteps DEF RestoreCommit
    <2> QED BY <2>1, <2>2
  <1>5. CASE RestoreReject
    <2>1. CASE CanFinish
      <3>1. End("Failed") /\ UNCHANGED <<live, inputs>>
        BY <1>5, <2>1 DEF RestoreReject, StillFinalizing, machineVars
      <3> QED
        BY <1>3, <2>1, <3>1, EndedLoad DEF Host!GiveUp, Host!HostNext, Content, Pending
    <2>2. CASE ~CanFinish
      BY <1>5, <2>2, StutterSteps DEF RestoreReject, StillFinalizing, machineVars
    <2> QED BY <2>1, <2>2
  <1> QED BY <1>1, <1>2, <1>4, <1>5

\* The machine that is rebooted into is what is played, or else what is waited for.
LEMMA FactoryRefines ==
    ASSUME Types, Kept, FactoryCapture \/ FactoryPrepare \/ FactoryCommit
    PROVE  Host!HostNext \/ UNCHANGED Host!hostVars
  <1>1. UNCHANGED <<status, requested, candidate, inputs>>
    BY DEF FactoryCapture, FactoryPrepare, FactoryCommit, restoreVars
  <1>2. CASE live' = live
    BY <1>1, <1>2, StutterSteps
  <1>3. CASE FactoryCommit /\ timer.machine # None /\ Unchanged
    <2>1. /\ Saved.flash # None /\ Builds(timer.machine, Saved) /\ Commit(timer.machine)
      BY <1>3 DEF FactoryCommit, Unchanged, Kept, TimerFits
    <2>2. Fits(Saved)
      BY SavedFits DEF Kept
    <2>3. Content(live)' = Host!Over(Saved, Content(live))
      <3>1. Content(Committed(timer.machine)) = Host!Over(Saved, Content(live))
        BY <2>1, <2>2, CommitsOver
      <3> QED BY <2>1, <3>1 DEF Commit, Content
    <2>4. Pending' = Pending
      BY <1>1 DEF Pending
    <2>5. CASE Pending
      <3>1. Saved' = Saved
        BY <1>1, <2>4, <2>5 DEF Saved, Kept, RequestKept
      <3>2. Host!Anticipate
        BY <1>1, <2>3, <2>4, <2>5, <3>1 DEF Host!Anticipate
      <3> QED BY <3>2 DEF Host!HostNext
    <2>6. CASE ~Pending
      <3>1. candidate = None /\ Saved = Content(live)
        BY <2>6, SavedIs DEF Kept
      <3>2. Host!Over(Saved, Content(live)) = Content(live)
        BY <2>1, <3>1 DEF Host!Over, Content
      <3>3. Content(live)' = Content(live)
        BY <2>3, <3>2
      <3>4. Saved' = Saved
        BY <1>1, <2>4, <2>6, <3>1, <3>3 DEF Saved, Content
      <3> QED BY <1>1, <2>4, <3>3, <3>4 DEF Host!hostVars
    <2> QED BY <2>5, <2>6
  <1> QED BY <1>2, <1>3 DEF FactoryCapture, FactoryPrepare, FactoryCommit, machineVars

LEMMA SetDeviceRefines ==
    ASSUME Types, Types', Kept, SetDevice
    PROVE  Host!NewDevice
  <1>1. PICK m \in Prepared(Saved, cache) :
           LET new == NewMachine(model, cache)
           IN  \/ /\ m = None
                  /\ End("Failed")
                  /\ live' = new
               \/ /\ m # None /\ m.pending
                  /\ status' = "Initializing" /\ requested' = Saved /\ candidate' = m
                  /\ live' = new
               \/ /\ m # None /\ ~m.pending
                  /\ End("Idle")
                  /\ live' = IF model = "Machinedrum" /\ ~m.hasFlash
                             THEN [m EXCEPT !.flash = new.flash, !.expected = new.expected,
                                            !.factory = new.factory, !.hasFlash = TRUE]
                             ELSE [m EXCEPT !.hasFlash = TRUE]
    BY DEF SetDevice
  <1>2. inputs' = inputs + 1
    BY DEF SetDevice, Input
  <1>3. Content(live)' \in Host!Playable
    BY Playable DEF Types, ThreadTypes, MachineTypes, Content
  <1>4. Fits(Saved)
    BY SavedFits DEF Kept
  <1>5. m # None => Builds(m, Saved)
    BY <1>4, PreparedBuilds DEF Fits
  <1>6. CASE End("Failed")
    BY <1>2, <1>3, <1>6, EndedLoad DEF Host!NewDevice
  <1>7. CASE status' = "Initializing" /\ requested' = Saved
    <2>1. Saved # None
      BY <1>4, NoneAssumption DEF Fits
    <2>2. Pending' = TRUE /\ Saved' = Saved
      BY <1>7, <2>1 DEF Pending, Saved
    <2> QED BY <1>2, <1>3, <2>2 DEF Host!NewDevice
  <1>8. CASE /\ m # None /\ End("Idle")
             /\ live' = IF model = "Machinedrum" /\ ~m.hasFlash
                        THEN [m EXCEPT !.flash = NewMachine(model, cache).flash,
                                       !.expected = NewMachine(model, cache).expected,
                                       !.factory = NewMachine(model, cache).factory,
                                       !.hasFlash = TRUE]
                        ELSE [m EXCEPT !.hasFlash = TRUE]
    <2>1. m \in Hardware /\ Builds(m, Saved)
      BY <1>5, <1>8 DEF Builds
    <2>2. live'.ram = Saved.ram
      BY <1>8, <2>1 DEF Builds, Hardware
    <2>3. Saved.flash # None => live'.flash = Saved.flash
      BY <1>8, <2>1 DEF Builds, Hardware
    <2>4. Content(live)' = Host!Over(Saved, Content(live)')
      BY <2>2, <2>3 DEF Host!Over, Content
    <2>5. Pending' = FALSE /\ Saved' = Content(live)'
      BY <1>8, EndedLoad
    <2> QED BY <1>2, <1>3, <2>4, <2>5 DEF Host!NewDevice
  <1> QED BY <1>1, <1>6, <1>7, <1>8

LEMMA StepRefines ==
    ASSUME Types, Types', Kept, Kept', [Next]_vars
    PROVE  [Host!HostNext]_(Host!hostVars)
  <1>1. CASE ImportBegin \/ \E d \in dialogs :
                 ImportStart(d) \/ ImportCancel(d) \/ ImportResume(d) \/ ImportRetire(d)
    BY <1>1, StutterSteps
       DEF ImportBegin, ImportStart, ImportCancel, ImportResume, ImportRetire, restoreVars,
           machineVars
  <1>2. CASE UNCHANGED vars
    BY <1>2, StutterSteps DEF vars, restoreVars, machineVars
  <1>3. CASE SetDevice
    BY <1>3, SetDeviceRefines DEF Host!HostNext
  <1> QED
    BY <1>1, <1>2, <1>3, LoadsRefine, PlayRefines, RebootRefines, FactoryRefines
       DEF Next, Between

\* The device implements HostProject: whatever the host's thread, the timer, the renderer and
\* the user do in between, for any number of loads, edits, imports and exchanges, a save gives
\* the project loaded last and the machine changes only to that or under the user's hands
\* (mddevice.cpp 261-370, 512-593, mdPluginProcessor.cpp 664-676, 740-748, plugin.cpp 219-242).
THEOREM ProjectKept == Spec => KeepsProject
  <1>1. Init => Kept
    BY DEF Init, Kept, RequestKept, Pending, LoadsDiffer, TimerFits, IdleTimer
  <1>2. Init => Host!HostInit
    <2> SUFFICES ASSUME Init PROVE Host!HostInit
      OBVIOUS
    <2>1. live \in Hardware
      BY NewMachineHardware DEF Init
    <2> QED BY <2>1, Playable DEF Init, Host!HostInit, Saved, Pending
  <1>3. Types /\ Kept /\ [Next]_vars => (Types /\ Kept)'
    BY StepTypes, StepKeeps
  <1>4. Types /\ Types' /\ Kept /\ Kept' /\ [Next]_vars => [Host!HostNext]_(Host!hostVars)
    BY StepRefines
  <1>5. Spec => [](Types /\ Kept)
    BY InitTypes, <1>1, <1>3, PTL DEF Spec
  <1> QED BY <1>2, <1>4, <1>5, PTL DEF Spec, KeepsProject, Host!HostSpec

-------------------------------------------------------------------------------
(* The device with its HostSync.                                          *)

LEMMA SessionInits == SessionInit => Init
  BY DEF SessionInit

LEMMA SessionSteps == [SessionNext]_sessionVars => [Next]_vars
  <1>1. (\E due \in BOOLEAN : Block(due)) => Process
    BY DEF Block
  <1>2. Rest => Between
    BY DEF Rest
  <1>3. Outside => UNCHANGED vars
    BY DEF Outside
  <1>4. UNCHANGED sessionVars => UNCHANGED vars
    BY DEF sessionVars
  <1> QED BY <1>1, <1>2, <1>3, <1>4 DEF SessionNext, Next

\* The service of HostSync at the end of each block is no step of the device that the device
\* would not take alone: its project, its imports and its types are kept beside it
\* (mddevice.cpp 446-487, 760-800).
THEOREM SessionKept == SessionSpec => KeepsProject /\ []ImportsIntoItsProject /\ []TypeOK
  <1>1. SessionSpec => Spec
    BY SessionInits, SessionSteps, PTL DEF SessionSpec, Spec
  <1> QED BY <1>1, ProjectKept, ImportsCorrect, RestoreTypeCorrect, PTL

-------------------------------------------------------------------------------
(* What HostSync changes.  The invariant: what waits for it was answered   *)
(* by the machine of now, and a dump it heard when it was served is one of *)
(* the machine and the slot it was served for.                             *)

SlotOrNone == Slots \cup {None}
Pairs == (Nat \X Nat) \X SlotOrNone
Targets == {"Leave", "Follow", "Release"}
Controls == [target : Targets, seen : BOOLEAN]
Panels == [sync : [Slots -> Settings], active : Slots]
Requests == [what : {"ask"}, slot : SlotOrNone]
            \cup [what : {"change"}, slot : Slots, sync : Settings]
Statuses == [what : {"status"}, slot : Slots]
DumpsOf(machines) == [what : {"dump"}, slot : Slots, sync : Settings, machine : machines]
Answers == Statuses \cup DumpsOf({<<device, epoch>>})

SyncStates ==
    [target : Targets, state : {"Unknown", "Following", "NotFollowing", "Applying", "Failed"},
     phase : {"Idle", "RunningMacro", "Verifying"}, dump : DumpsOf(Nat \X Nat) \cup {None},
     attempts : 0 .. MaxAttempts, steps : 0 .. MacroSteps, setting : Settings \cup {None},
     verify : {"unasked", "asked", "answered"}, requests : 0 .. MaxVerifyRequests,
     epoch : Pairs \cup {None}, settled : BOOLEAN, served : Pairs \cup {None}, early : BOOLEAN]

\* A dump counts for the machine and slot it is of.
DumpFits(h) ==
    (h.dump # None \/ h.phase = "RunningMacro") /\ ~h.early =>
        h.epoch \in Pairs /\ h.epoch = <<h.dump.machine, h.dump.slot>>

Tracked(h) ==
    /\ h \in SyncStates /\ h.served = h.epoch
    /\ h.phase = "RunningMacro" => h.setting \in Settings
    /\ DumpFits(h)

SyncInv ==
    /\ slot \in SlotOrNone /\ Tracked(sync)
    /\ toMachine \in Seq(Requests) /\ fromMachine \in Seq(Answers)
    /\ shown \in {"Unknown", "Following", "NotFollowing", "Applying", "Failed"}
    /\ IF control = None THEN toMachine = <<>> /\ fromMachine = <<>> /\ calm = 0
       ELSE control \in Controls /\ globals \in Panels

LEMMA IdleTracked == Tracked(Sync!Idle)
  <1>1. 0 \in 0 .. MaxAttempts /\ 0 \in 0 .. MacroSteps /\ 0 \in 0 .. MaxVerifyRequests
    BY LimitsAssumption
  <1>2. Sync!Idle \in SyncStates
    BY <1>1 DEF Sync!Idle, SyncStates, Targets
  <1> QED BY <1>2 DEF Sync!Idle, Tracked, DumpFits

LEMMA SyncInitInv == SessionInit => SyncInv
  <1> SUFFICES ASSUME SessionInit PROVE SyncInv
    OBVIOUS
  <1>1. Sync!SyncInit
    BY DEF SessionInit
  <1>2. /\ sync = Sync!Idle /\ toMachine = <<>> /\ fromMachine = <<>> /\ slot = None
        /\ shown = "Unknown" /\ control \in {None, [target |-> "Follow", seen |-> FALSE]}
        /\ (control = None => calm = 0)
    BY <1>1 DEF Sync!SyncInit
  <1>3. control # None => control \in Controls /\ globals \in Panels
    <2> HAVE control # None
    <2>1. globals \in [sync : {[s \in Slots |-> "factory"]}, active : Slots]
      BY <1>1 DEF Sync!SyncInit
    <2>2. PICK f : f = [s \in Slots |-> "factory"]
      OBVIOUS
    <2>3. f \in [Slots -> Settings] /\ globals \in [sync : {f}, active : Slots]
      BY <2>1, <2>2, SettingsAssumption
    <2>4. globals \in Panels
      BY <2>3 DEF Panels
    <2>5. control = [target |-> "Follow", seen |-> FALSE]
      BY <1>2
    <2>6. control \in Controls
      BY <2>5 DEF Controls, Targets
    <2> QED BY <2>4, <2>6
  <1> QED BY <1>2, <1>3, IdleTracked DEF SyncInv, SlotOrNone

-------------------------------------------------------------------------------
(* The answers.                                                            *)

KnownStates == [sync : SyncStates, slot : SlotOrNone]
Follows(k) == k \in KnownStates /\ Tracked(k.sync) /\ k.sync.steps = sync.steps

\* A dump that is heard early counts for nothing, another one for what is served.
LEMMA HeardTracked ==
    ASSUME device \in Nat, epoch \in Nat, NEW k, Follows(k), NEW a \in Answers
    PROVE  Follows(Sync!Heard(k, a))
  <1>1. k \in KnownStates /\ Tracked(k.sync) /\ k.sync \in SyncStates /\ k.slot \in SlotOrNone
    BY DEF Follows, KnownStates
  <1>2. CASE a \in Statuses
    <2>1. Sync!Heard(k, a) = [k EXCEPT !.slot = a.slot] /\ a.slot \in SlotOrNone
      BY <1>2 DEF Sync!Heard, Statuses, SlotOrNone
    <2>2. /\ Sync!Heard(k, a) \in KnownStates /\ Sync!Heard(k, a).sync = k.sync
      BY <1>1, <2>1 DEF KnownStates
    <2> QED BY <2>2 DEF Follows
  <1>3. CASE a \in DumpsOf({<<device, epoch>>}) /\ a.slot = k.slot
    <2>1. /\ a.what = "dump" /\ a.machine = <<device, epoch>> /\ a \in DumpsOf(Nat \X Nat)
      BY <1>3 DEF DumpsOf
    <2>2. PICK early : early = (k.sync.served # <<<<device, epoch>>, k.slot>>)
      OBVIOUS
    <2>3. early \in BOOLEAN
      BY <2>2
    <2>4. PICK verify : verify = IF k.sync.verify = "asked" THEN "answered" ELSE k.sync.verify
      OBVIOUS
    <2>5. verify \in {"unasked", "asked", "answered"}
      BY <1>1, <2>4 DEF SyncStates
    <2>6. PICK g : g = [k.sync EXCEPT !.dump = a, !.verify = verify, !.early = early]
      OBVIOUS
    <2>7. Sync!Heard(k, a) = [k EXCEPT !.sync = g]
      BY <1>1, <1>3, <2>1, <2>2, <2>4, <2>6 DEF Sync!Heard, KnownStates, SyncStates
    <2>8. /\ g \in SyncStates /\ g.dump = a /\ g.early = early /\ g.served = k.sync.served
          /\ g.epoch = k.sync.epoch /\ g.phase = k.sync.phase /\ g.setting = k.sync.setting
          /\ g.steps = k.sync.steps
      BY <1>1, <2>1, <2>3, <2>5, <2>6 DEF SyncStates
    <2>9. <<<<device, epoch>>, k.slot>> \in Pairs
      BY <1>1 DEF Pairs
    <2>10. DumpFits(g)
      BY <1>1, <1>3, <2>1, <2>2, <2>8, <2>9 DEF DumpFits, Tracked
    <2>11. Tracked(g)
      BY <1>1, <2>8, <2>10 DEF Tracked
    <2>12. Sync!Heard(k, a) \in KnownStates /\ Sync!Heard(k, a).sync = g
      BY <1>1, <2>7, <2>8 DEF KnownStates
    <2> QED BY <2>8, <2>11, <2>12 DEF Follows
  <1>4. CASE a \in DumpsOf({<<device, epoch>>}) /\ a.slot # k.slot
    <2>1. Sync!Heard(k, a) = k
      BY <1>4 DEF Sync!Heard, DumpsOf
    <2> QED BY <2>1
  <1> QED BY <1>2, <1>3, <1>4 DEF Answers

LEMMA KnownFollows ==
    ASSUME device \in Nat, epoch \in Nat, SyncInv, NEW n \in 0 .. Len(fromMachine)
    PROVE  Follows(Sync!Known(n))
  <1> DEFINE IsAfter(f, m) == f = [k \in 0 .. m |->
                 IF k = 0 THEN [sync |-> sync, slot |-> slot]
                 ELSE Sync!Heard(f[k - 1], fromMachine[k])]
             Bad == {m \in Nat : ~\E f : IsAfter(f, m)}
  <1>1. Bad = {}
    <2> SUFFICES ASSUME Bad # {} PROVE FALSE
      OBVIOUS
    <2>1. Bad \subseteq Nat
      OBVIOUS
    <2>2. PICK m \in Bad : \A y \in Bad : m <= y
      <3> HIDE DEF Bad
      <3> QED BY <2>1, Least
    <2>3. CASE m = 0
      <3>1. IsAfter([k \in 0 .. 0 |-> [sync |-> sync, slot |-> slot]], 0)
        OBVIOUS
      <3> QED BY <2>3, <3>1
    <2>4. CASE m # 0
      <3>1. m - 1 \in Nat /\ ~(m <= m - 1)
        BY <2>4
      <3>2. m - 1 \notin Bad
        <4> HIDE DEF Bad
        <4> QED BY <2>2, <3>1
      <3>3. PICK f : IsAfter(f, m - 1)
        BY <3>1, <3>2
      <3> DEFINE g == [k \in 0 .. m |-> IF k = 0 THEN [sync |-> sync, slot |-> slot]
                                        ELSE Sync!Heard(f[k - 1], fromMachine[k])]
      <3>4. \A k \in 0 .. m - 1 : g[k] = f[k]
        BY <3>1, <3>3
      <3>5. \A k \in 0 .. m : k # 0 => g[k - 1] = f[k - 1]
        <4> HIDE DEF g
        <4> QED BY <3>1, <3>4
      <3>6. PICK h : h = g
        OBVIOUS
      <3>7. IsAfter(h, m)
        BY <3>5, <3>6
      <3> QED BY <3>7
    <2> QED BY <2>3, <2>4
  <1>2. n \in Nat
    BY DEF SyncInv
  <1>3. \E f : IsAfter(f, n)
    BY <1>1, <1>2
  <1>4. IsAfter(CHOOSE f : IsAfter(f, n), n)
    BY <1>3
  <1>5. PICK f : IsAfter(f, n) /\ Sync!Known(n) = f[n]
    BY <1>4 DEF Sync!Known
  <1>6. f[0] = [sync |-> sync, slot |-> slot]
    BY <1>2, <1>5
  <1>7. Follows(f[0])
    BY <1>6 DEF Follows, SyncInv, Tracked, KnownStates
  <1>8. \A k \in 0 .. n : k # 0 => f[k] = Sync!Heard(f[k - 1], fromMachine[k])
    BY <1>2, <1>5
  <1>9. ASSUME NEW k \in 0 .. n, k # 0, Follows(f[k - 1]) PROVE Follows(f[k])
    <2>1. k \in 1 .. Len(fromMachine)
      BY <1>9 DEF SyncInv
    <2>2. fromMachine[k] \in Answers
      BY <2>1 DEF SyncInv
    <2> QED BY <1>8, <1>9, <2>2, HeardTracked
  <1> DEFINE Lost == {k \in 0 .. n : ~Follows(f[k])}
  <1>10. Lost = {}
    <2> SUFFICES ASSUME Lost # {} PROVE FALSE
      OBVIOUS
    <2>1. Lost \subseteq Nat
      OBVIOUS
    <2>2. PICK k \in Lost : \A y \in Lost : k <= y
      <3> HIDE DEF Lost
      <3> QED BY <2>1, Least
    <2>3. k \in 0 .. n /\ ~Follows(f[k]) /\ k # 0
      BY <1>7
    <2>4. k - 1 \in 0 .. n /\ ~(k <= k - 1)
      BY <1>2, <2>3
    <2>5. k - 1 \notin Lost
      <3> HIDE DEF Lost
      <3> QED BY <2>2, <2>4
    <2> QED BY <1>9, <2>3, <2>4, <2>5
  <1>11. n \in 0 .. n
    BY <1>2
  <1>12. Follows(f[n])
    BY <1>10, <1>11
  <1> HIDE DEF IsAfter
  <1> QED BY <1>5, <1>12

-------------------------------------------------------------------------------
(* The service.                                                            *)

Pair(s) == <<<<device, epoch>>, s>>

\* What leaves the dump and what it counts for alone.
LEMMA TrackedOn ==
    ASSUME NEW h, Tracked(h), NEW g \in SyncStates, g.served = h.served, g.epoch = h.epoch,
           g.dump = h.dump, g.early = h.early,
           g.phase = "RunningMacro" =>
               g.setting \in Settings /\ (h.phase = "RunningMacro" \/ h.dump # None)
    PROVE  Tracked(g)
  BY DEF Tracked, DumpFits

LEMMA TargetedTracked ==
    ASSUME NEW h, Tracked(h), NEW t \in Targets
    PROVE  Tracked(Sync!Targeted(h, t)) /\ Sync!Targeted(h, t).steps = h.steps
  <1>1. CASE t = h.target
    BY <1>1 DEF Sync!Targeted
  <1>2. CASE t # h.target
    <2>1. PICK s : s = IF h.state # "Failed" THEN h.state
                       ELSE IF h.dump = None THEN "Unknown" ELSE "NotFollowing"
      OBVIOUS
    <2>2. PICK g : g = [h EXCEPT !.target = t, !.attempts = 0, !.state = s]
      OBVIOUS
    <2>3. h \in SyncStates
      BY DEF Tracked
    <2>4. Sync!Targeted(h, t) = g
      BY <1>2, <2>1, <2>2, <2>3 DEF Sync!Targeted, SyncStates
    <2>5. 0 \in 0 .. MaxAttempts
      BY LimitsAssumption
    <2>6. s \in {"Unknown", "Following", "NotFollowing", "Applying", "Failed"}
      BY <2>1, <2>3 DEF SyncStates
    <2>7. /\ g \in SyncStates /\ g.served = h.served /\ g.epoch = h.epoch /\ g.dump = h.dump
          /\ g.early = h.early /\ g.phase = h.phase /\ g.setting = h.setting /\ g.steps = h.steps
      BY <2>2, <2>3, <2>5, <2>6 DEF SyncStates
    <2>8. Tracked(g)
      BY <2>7, TrackedOn DEF Tracked
    <2> QED BY <2>4, <2>7, <2>8
  <1> QED BY <1>1, <1>2

\* A dump of another machine or slot is forgotten before anything is changed with it.
LEMMA BegunTracked ==
    ASSUME device \in Nat, epoch \in Nat, NEW s \in SlotOrNone, NEW h, Tracked(h),
           NEW due \in BOOLEAN, NEW g,
           g = [Sync!Begun(h, Sync!Epoch(s), due) EXCEPT !.served = Pair(s)]
    PROVE  Tracked(g) /\ g.epoch = Pair(s)
  <1>1. PICK p : p = Pair(s)
    OBVIOUS
  <1>2. p \in Pairs /\ p # None /\ Sync!Epoch(s) = p
    BY <1>1, NothingAssumption DEF Pair, Pairs, SlotOrNone, Sync!Epoch
  <1>3. PICK r : r = IF h.epoch \notin {None, p} THEN Sync!Reset(h) ELSE h
    OBVIOUS
  <1>4. PICK b : b = (r.settled \/ (due /\ r.epoch = p))
    OBVIOUS
  <1>5. h \in SyncStates
    BY DEF Tracked
  <1>6. /\ r \in SyncStates /\ r.early = h.early
        /\ IF h.epoch \notin {None, p} THEN r.dump = None /\ r.phase = "Idle" ELSE r = h
    <2>1. CASE h.epoch \notin {None, p}
      <3>1. 0 \in 0 .. MaxAttempts /\ 0 \in 0 .. MacroSteps
        BY LimitsAssumption
      <3> QED BY <1>3, <1>5, <2>1, <3>1 DEF Sync!Reset, SyncStates
    <2>2. CASE h.epoch \in {None, p}
      BY <1>3, <1>5, <2>2
    <2> QED BY <2>1, <2>2
  <1>7. b \in BOOLEAN
    <2>1. r.settled \in BOOLEAN
      BY <1>6 DEF SyncStates
    <2> QED BY <1>4, <2>1
  <1>8. g = [r EXCEPT !.epoch = p, !.settled = b, !.served = p]
    BY <1>1, <1>2, <1>3, <1>4, <1>6 DEF Sync!Begun, SyncStates
  <1>9. /\ g \in SyncStates /\ g.epoch = p /\ g.served = p /\ g.dump = r.dump /\ g.early = r.early
        /\ g.phase = r.phase /\ g.setting = r.setting
    <2>1. r \in SyncStates /\ p \in Pairs \cup {None} /\ b \in BOOLEAN
      BY <1>2, <1>6, <1>7
    <2>2. g \in SyncStates
      BY <1>8, <2>1 DEF SyncStates
    <2>3. /\ g.epoch = p /\ g.served = p /\ g.dump = r.dump /\ g.early = r.early
          /\ g.phase = r.phase /\ g.setting = r.setting
      BY <1>8, <2>1 DEF SyncStates
    <2> QED BY <2>2, <2>3
  <1>10. DumpFits(g)
    <2> SUFFICES ASSUME g.dump # None \/ g.phase = "RunningMacro", ~g.early
                 PROVE  g.epoch \in Pairs /\ g.epoch = <<g.dump.machine, g.dump.slot>>
      BY DEF DumpFits
    <2>1. r = h /\ h.epoch \in {None, p}
      BY <1>6, <1>9
    <2>2. h.epoch \in Pairs /\ h.epoch = <<h.dump.machine, h.dump.slot>>
      BY <1>9, <2>1 DEF Tracked, DumpFits
    <2>3. h.epoch = p
      BY <2>1, <2>2, NothingAssumption DEF Pairs, SlotOrNone
    <2> QED BY <1>2, <1>9, <2>1, <2>2, <2>3
  <1>11. g.phase = "RunningMacro" => g.setting \in Settings
    BY <1>6, <1>9 DEF Tracked
  <1> QED BY <1>1, <1>9, <1>10, <1>11 DEF Tracked

\* What a service leaves: a message that changes a slot was made from a dump.
Serves(p) ==
    /\ Tracked(sync') /\ sync'.epoch = p
    /\ \E m \in Seq(Requests) :
          /\ toMachine' = toMachine \o m
          /\ m # <<>> /\ Head(m).what = "change" => sync'.dump # None
    /\ globals' \in Panels

LEMMA ServesNothing ==
    ASSUME toMachine \in Seq(Requests), Tracked(sync'), NEW p, sync'.epoch = p,
           Sync!Send(<<>>), globals' \in Panels
    PROVE  Serves(p)
  <1>1. toMachine' = toMachine \o <<>> /\ <<>> \in Seq(Requests)
    BY DEF Sync!Send
  <1> QED BY <1>1 DEF Serves

LEMMA ServesRequest ==
    ASSUME toMachine \in Seq(Requests), Tracked(sync'), NEW p, sync'.epoch = p,
           Sync!RequestGlobal, slot' \in SlotOrNone, globals' \in Panels
    PROVE  Serves(p)
  <1>1. CASE Sync!Send(<<>>)
    BY <1>1, ServesNothing
  <1>2. CASE Sync!Send(<<Sync!Ask(slot')>>)
    <2>1. PICK ask : ask = Sync!Ask(slot')
      OBVIOUS
    <2>2. ask \in Requests /\ ask.what = "ask"
      BY <2>1 DEF Sync!Ask, Requests
    <2>3. <<ask>> \in Seq(Requests) /\ Head(<<ask>>) = ask
      BY <2>2
    <2>4. toMachine' = toMachine \o <<ask>>
      BY <1>2, <2>1 DEF Sync!Send
    <2> QED BY <2>2, <2>3, <2>4 DEF Serves
  <1>3. Sync!Send(<<>>) \/ Sync!Send(<<Sync!Ask(slot')>>)
    BY DEF Sync!RequestGlobal
  <1> QED BY <1>1, <1>2, <1>3

\* A service on what is begun: h counts for p, the machine and slot of now.
Serviced(h, p) ==
    /\ Tracked(h) /\ h.epoch = p
    /\ toMachine \in Seq(Requests) /\ slot' \in SlotOrNone /\ globals \in Panels

LEMMA EvaluateServes ==
    ASSUME NEW h, NEW p, Serviced(h, p), NEW due \in BOOLEAN, h.phase = "Idle",
           Sync!Evaluate(h, due)
    PROVE  Serves(p)
  <1>1. /\ h \in SyncStates /\ Tracked(h) /\ h.epoch = p /\ toMachine \in Seq(Requests)
        /\ slot' \in SlotOrNone
    BY DEF Serviced, Tracked
  <1>2. globals' \in Panels
    BY DEF Sync!Evaluate, Sync!PanelStays, Serviced
  <1>3. PICK w : w = Sync!Wanted(h.target)
    OBVIOUS
  <1>4. w \in {None} \cup Settings
    <2>1. w \in {"host", "factory", None}
      BY <1>3 DEF Sync!Wanted
    <2> QED BY <2>1, SettingsAssumption
  <1>5. 0 \in 0 .. MaxAttempts /\ 0 \in 0 .. MaxVerifyRequests /\ MacroSteps \in 0 .. MacroSteps
    BY LimitsAssumption
  <1>6. h.attempts \in 0 .. MaxAttempts
    BY <1>1 DEF SyncStates
  <1>7. h.attempts < MaxAttempts => h.attempts + 1 \in 0 .. MaxAttempts
    BY <1>6, LimitsAssumption
  <1>8. CASE sync' = [h EXCEPT !.state = "Unknown"] /\ (Sync!RequestGlobal \/ Sync!Send(<<>>))
    <2>1. /\ sync' \in SyncStates /\ sync'.served = h.served /\ sync'.epoch = h.epoch
          /\ sync'.dump = h.dump /\ sync'.early = h.early /\ sync'.phase = "Idle"
      BY <1>1, <1>8 DEF SyncStates
    <2>2. Tracked(sync')
      BY <1>1, <2>1, TrackedOn
    <2> QED BY <1>1, <1>2, <1>8, <2>1, <2>2, ServesNothing, ServesRequest
  <1>9. ASSUME NEW s \in {"Following", "NotFollowing"}, NEW t \in Targets,
               sync' = [h EXCEPT !.state = s, !.attempts = 0, !.target = t], Sync!Send(<<>>)
        PROVE  Serves(p)
    <2>1. /\ sync' \in SyncStates /\ sync'.served = h.served /\ sync'.epoch = h.epoch
          /\ sync'.dump = h.dump /\ sync'.early = h.early /\ sync'.phase = "Idle"
      BY <1>1, <1>5, <1>9 DEF SyncStates
    <2>2. Tracked(sync')
      BY <1>1, <2>1, TrackedOn
    <2> QED BY <1>1, <1>2, <1>9, <2>1, <2>2, ServesNothing
  <1>10. ASSUME NEW s \in {"Applying", "Failed"}, sync' = [h EXCEPT !.state = s], Sync!Send(<<>>)
         PROVE  Serves(p)
    <2>1. /\ sync' \in SyncStates /\ sync'.served = h.served /\ sync'.epoch = h.epoch
          /\ sync'.dump = h.dump /\ sync'.early = h.early /\ sync'.phase = "Idle"
      BY <1>1, <1>10 DEF SyncStates
    <2>2. Tracked(sync')
      BY <1>1, <2>1, TrackedOn
    <2> QED BY <1>1, <1>2, <1>10, <2>1, <2>2, ServesNothing
  <1>11. CASE /\ h.dump # None /\ w # None /\ h.attempts < MaxAttempts
              /\ sync' = Sync!Verifying([h EXCEPT !.state = "Applying", !.attempts = @ + 1])
              /\ Sync!Send(<<[what |-> "change", slot |-> h.dump.slot, sync |-> w]>>)
    <2>1. PICK a : a = h.attempts + 1
      OBVIOUS
    <2>2. sync' = [h EXCEPT !.state = "Applying", !.attempts = a, !.phase = "Verifying",
                            !.setting = None, !.verify = "unasked", !.requests = 0]
      BY <1>1, <1>11, <2>1 DEF Sync!Verifying, SyncStates
    <2>3. a \in 0 .. MaxAttempts
      BY <1>7, <1>11, <2>1
    <2>4. /\ sync' \in SyncStates /\ sync'.served = h.served /\ sync'.epoch = h.epoch
          /\ sync'.dump = h.dump /\ sync'.early = h.early /\ sync'.phase = "Verifying"
      BY <1>1, <1>5, <2>2, <2>3 DEF SyncStates
    <2>5. Tracked(sync')
      BY <1>1, <2>4, TrackedOn
    <2>6. PICK change : change = [what |-> "change", slot |-> h.dump.slot, sync |-> w]
      OBVIOUS
    <2>7. h.dump.slot \in Slots
      BY <1>1, <1>11 DEF SyncStates, DumpsOf
    <2>8. change \in Requests
      BY <1>4, <1>11, <2>6, <2>7 DEF Requests
    <2>9. <<change>> \in Seq(Requests) /\ toMachine' = toMachine \o <<change>>
      BY <1>11, <2>6, <2>8 DEF Sync!Send
    <2> QED BY <1>1, <1>2, <1>11, <2>4, <2>5, <2>9 DEF Serves
  <1>12. CASE /\ h.dump # None /\ w # None /\ h.attempts < MaxAttempts
              /\ sync' = [[h EXCEPT !.state = "Applying", !.attempts = @ + 1] EXCEPT
                             !.phase = "RunningMacro", !.steps = MacroSteps, !.setting = w]
              /\ Sync!Send(<<>>)
    <2>1. PICK a : a = h.attempts + 1
      OBVIOUS
    <2>2. sync' = [h EXCEPT !.state = "Applying", !.attempts = a, !.phase = "RunningMacro",
                            !.steps = MacroSteps, !.setting = w]
      BY <1>1, <1>12, <2>1 DEF SyncStates
    <2>3. a \in 0 .. MaxAttempts
      BY <1>7, <1>12, <2>1
    <2>4. /\ sync' \in SyncStates /\ sync'.served = h.served /\ sync'.epoch = h.epoch
          /\ sync'.dump = h.dump /\ sync'.early = h.early /\ sync'.setting \in Settings
      <3>1. w \in Settings /\ h \in SyncStates /\ MacroSteps \in 0 .. MacroSteps
        BY <1>1, <1>4, <1>5, <1>12
      <3>2. sync' \in SyncStates
        BY <2>2, <2>3, <3>1 DEF SyncStates
      <3>3. /\ sync'.served = h.served /\ sync'.epoch = h.epoch /\ sync'.dump = h.dump
            /\ sync'.early = h.early /\ sync'.setting = w
        BY <2>2, <3>1 DEF SyncStates
      <3> QED BY <3>1, <3>2, <3>3
    <2>5. Tracked(sync')
      BY <1>1, <1>12, <2>4, TrackedOn
    <2> QED BY <1>1, <1>2, <1>12, <2>4, <2>5, ServesNothing
  <1>13. \/ sync' = [h EXCEPT !.state = "Unknown"] /\ (Sync!RequestGlobal \/ Sync!Send(<<>>))
         \/ \E s \in {"Following", "NotFollowing"}, t \in Targets :
               /\ sync' = [h EXCEPT !.state = s, !.attempts = 0, !.target = t]
               /\ Sync!Send(<<>>)
         \/ \E s \in {"Applying", "Failed"} :
               sync' = [h EXCEPT !.state = s] /\ Sync!Send(<<>>)
         \/ /\ h.dump # None /\ w # None /\ h.attempts < MaxAttempts
            /\ sync' = Sync!Verifying([h EXCEPT !.state = "Applying", !.attempts = @ + 1])
            /\ Sync!Send(<<[what |-> "change", slot |-> h.dump.slot, sync |-> w]>>)
         \/ /\ h.dump # None /\ w # None /\ h.attempts < MaxAttempts
            /\ sync' = [[h EXCEPT !.state = "Applying", !.attempts = @ + 1] EXCEPT
                           !.phase = "RunningMacro", !.steps = MacroSteps, !.setting = w]
            /\ Sync!Send(<<>>)
    <2>1. PICK t : t = IF h.target = "Release" THEN "Leave" ELSE h.target
      OBVIOUS
    <2>2. t \in Targets
      BY <1>1, <2>1 DEF SyncStates, Targets
    <2>3. [h EXCEPT !.target = IF @ = "Release" THEN "Leave" ELSE @] = [h EXCEPT !.target = t]
      BY <2>1
    <2> QED BY <1>3, <2>1, <2>2 DEF Sync!Evaluate
  <1> QED BY <1>8, <1>9, <1>10, <1>11, <1>12, <1>13

LEMMA PlayMacroServes ==
    ASSUME NEW h, NEW p, Serviced(h, p), NEW due \in BOOLEAN, h.phase = "RunningMacro",
           Sync!PlayMacro(h, due)
    PROVE  Serves(p)
  <1>1. /\ h \in SyncStates /\ Tracked(h) /\ h.epoch = p /\ toMachine \in Seq(Requests)
        /\ h.setting \in Settings /\ globals \in Panels /\ Sync!Send(<<>>)
    BY DEF Serviced, Tracked, Sync!PlayMacro
  <1>2. CASE sync' = h /\ globals' = globals
    BY <1>1, <1>2, ServesNothing
  <1>3. CASE /\ h.steps > 0 /\ sync' = [h EXCEPT !.steps = @ - 1]
             /\ globals' \in {globals, [globals EXCEPT !.sync[globals.active] = h.setting]}
    <2>1. PICK s : s = h.steps - 1
      OBVIOUS
    <2>2. h.steps \in 0 .. MacroSteps
      BY <1>1 DEF SyncStates
    <2>3. s \in 0 .. MacroSteps /\ sync' = [h EXCEPT !.steps = s]
      BY <1>3, <2>1, <2>2, LimitsAssumption
    <2>4. /\ sync' \in SyncStates /\ sync'.served = h.served /\ sync'.epoch = h.epoch
          /\ sync'.dump = h.dump /\ sync'.early = h.early /\ sync'.setting = h.setting
      BY <1>1, <2>3 DEF SyncStates
    <2>5. Tracked(sync')
      BY <1>1, <2>4, TrackedOn
    <2>6. globals' \in Panels
      BY <1>1, <1>3 DEF Panels
    <2> QED BY <1>1, <2>4, <2>5, <2>6, ServesNothing
  <1>4. CASE sync' = Sync!Verifying(h) /\ globals' = globals
    <2>1. 0 \in 0 .. MaxVerifyRequests
      BY LimitsAssumption
    <2>2. /\ sync' \in SyncStates /\ sync'.served = h.served /\ sync'.epoch = h.epoch
          /\ sync'.dump = h.dump /\ sync'.early = h.early /\ sync'.phase = "Verifying"
      BY <1>1, <1>4, <2>1 DEF Sync!Verifying, SyncStates
    <2>3. Tracked(sync')
      BY <1>1, <2>2, TrackedOn
    <2> QED BY <1>1, <1>4, <2>2, <2>3, ServesNothing
  <1>5. \/ sync' = h /\ globals' = globals
        \/ /\ h.steps > 0 /\ sync' = [h EXCEPT !.steps = @ - 1]
           /\ globals' \in {globals, [globals EXCEPT !.sync[globals.active] = h.setting]}
        \/ sync' = Sync!Verifying(h) /\ globals' = globals
    BY DEF Sync!PlayMacro, Sync!PanelStays
  <1> QED BY <1>2, <1>3, <1>4, <1>5

LEMMA VerifyServes ==
    ASSUME NEW h, NEW p, Serviced(h, p), NEW due \in BOOLEAN, h.phase = "Verifying",
           Sync!Verify(h, due)
    PROVE  Serves(p)
  <1>1. /\ h \in SyncStates /\ Tracked(h) /\ h.epoch = p /\ toMachine \in Seq(Requests)
        /\ globals \in Panels /\ slot' \in SlotOrNone
    BY DEF Serviced, Tracked
  <1>2. CASE Sync!Evaluate([h EXCEPT !.phase = "Idle"], due)
    <2>1. PICK g : g = [h EXCEPT !.phase = "Idle"]
      OBVIOUS
    <2>2. /\ g \in SyncStates /\ g.served = h.served /\ g.epoch = h.epoch
          /\ g.dump = h.dump /\ g.early = h.early /\ g.phase = "Idle"
      BY <1>1, <2>1 DEF SyncStates
    <2>3. Tracked(g)
      BY <1>1, <2>2, TrackedOn
    <2>4. Serviced(g, p)
      BY <1>1, <2>2, <2>3 DEF Serviced
    <2> QED BY <1>2, <2>1, <2>2, <2>4, EvaluateServes
  <1>3. CASE sync' = h /\ Sync!Send(<<>>) /\ globals' = globals
    BY <1>1, <1>3, ServesNothing
  <1>4. CASE /\ h.requests < MaxVerifyRequests
             /\ sync' = [h EXCEPT !.verify = "asked", !.requests = @ + 1]
             /\ Sync!RequestGlobal /\ globals' = globals
    <2>1. PICK r : r = h.requests + 1
      OBVIOUS
    <2>2. h.requests \in 0 .. MaxVerifyRequests
      BY <1>1 DEF SyncStates
    <2>3. r \in 0 .. MaxVerifyRequests
      BY <1>4, <2>1, <2>2, LimitsAssumption
    <2>4. sync' = [h EXCEPT !.verify = "asked", !.requests = r]
      BY <1>4, <2>1
    <2>5. /\ sync' \in SyncStates /\ sync'.served = h.served /\ sync'.epoch = h.epoch
          /\ sync'.dump = h.dump /\ sync'.early = h.early /\ sync'.phase = "Verifying"
      BY <1>1, <2>3, <2>4 DEF SyncStates
    <2>6. Tracked(sync')
      BY <1>1, <2>5, TrackedOn
    <2> QED BY <1>1, <1>4, <2>5, <2>6, ServesRequest
  <1>5. \/ Sync!Evaluate([h EXCEPT !.phase = "Idle"], due)
        \/ sync' = h /\ Sync!Send(<<>>) /\ globals' = globals
        \/ /\ h.requests < MaxVerifyRequests
           /\ sync' = [h EXCEPT !.verify = "asked", !.requests = @ + 1]
           /\ Sync!RequestGlobal /\ globals' = globals
    BY DEF Sync!Verify, Sync!PanelStays
  <1> QED BY <1>2, <1>3, <1>4, <1>5

LEMMA ServiceServes ==
    ASSUME NEW h, NEW p, Serviced(h, p), NEW due \in BOOLEAN, Sync!Service(h, due)
    PROVE  Serves(p)
  BY EvaluateServes, PlayMacroServes, VerifyServes DEF Sync!Service

\* A block: the answers, the target and the service, or hands off.
LEMMA AttachedServes ==
    ASSUME device \in Nat, epoch \in Nat, SyncInv, NEW due \in BOOLEAN, control # None,
           Sync!ServiceAttached(due)
    PROVE  /\ slot' \in SlotOrNone /\ fromMachine' \in Seq(Answers)
           /\ control' \in Controls
           /\ \/ Serves(Pair(slot')) /\ shown' = sync'.state
              \/ /\ Tracked(sync') /\ sync'.steps = sync.steps
                 /\ UNCHANGED <<globals, toMachine, shown>>
  <1> USE DEF SyncInv
  <1> DEFINE After(k) == IF control.seen THEN k.sync ELSE Sync!Targeted(k.sync, control.target)
             Does(k, h, n) ==
                 /\ fromMachine' = SubSeq(fromMachine, n + 1, Len(fromMachine))
                 /\ control' = [control EXCEPT !.seen = TRUE]
                 /\ slot' = k.slot
                 /\ \/ sync' = h /\ UNCHANGED <<globals, toMachine, shown>>
                    \/ /\ \E b \in {Sync!Begun(h, Sync!Epoch(k.slot), due)} :
                             Sync!Service([b EXCEPT !.served = Pair(k.slot)], due)
                       /\ shown' = sync'.state
  <1>1. \E n \in 0 .. Len(fromMachine) : \E k \in {Sync!Known(n)} :
            \E h \in {After(k)} : Does(k, h, n)
    BY DEF Sync!ServiceAttached, Pair
  <1>a. PICK n \in 0 .. Len(fromMachine) :
            \E k, h : k = Sync!Known(n) /\ h = After(k) /\ Does(k, h, n)
    BY <1>1
  <1>2. PICK k, h : k = Sync!Known(n) /\ h = After(k) /\ Does(k, h, n)
    BY <1>a
  <1>3. Follows(k) /\ k.slot \in SlotOrNone /\ slot' = k.slot
    BY <1>2, KnownFollows DEF Follows, KnownStates
  <1>4. control \in Controls /\ control.target \in Targets
    BY DEF Controls
  <1>5. control' \in Controls
    BY <1>2, <1>4 DEF Controls
  <1>6. fromMachine' \in Seq(Answers)
    BY <1>1
  <1>7. \/ sync' = h /\ UNCHANGED <<globals, toMachine, shown>>
        \/ /\ Sync!Service([Sync!Begun(h, Sync!Epoch(k.slot), due) EXCEPT
                               !.served = Pair(k.slot)], due)
           /\ shown' = sync'.state
    BY <1>2
  <1>8. Tracked(h) /\ h.steps = sync.steps
    BY <1>2, <1>3, <1>4, TargetedTracked DEF Follows
  <1>9. ASSUME Sync!Service([Sync!Begun(h, Sync!Epoch(k.slot), due) EXCEPT
                               !.served = Pair(k.slot)], due)
        PROVE  Serves(Pair(slot'))
    <2>1. PICK g : g = [Sync!Begun(h, Sync!Epoch(k.slot), due) EXCEPT !.served = Pair(k.slot)]
      OBVIOUS
    <2>2. Tracked(g) /\ g.epoch = Pair(k.slot)
      BY <1>3, <1>8, <2>1, BegunTracked
    <2>3. Serviced(g, Pair(slot'))
      BY <1>3, <2>2 DEF Serviced
    <2> QED BY <1>9, <2>1, <2>3, ServiceServes
  <1> QED BY <1>3, <1>5, <1>6, <1>7, <1>8, <1>9

LEMMA BlockSync ==
    ASSUME Types, SyncInv, NEW due \in BOOLEAN, Block(due)
    PROVE  /\ SyncInv'
           /\ \/ sync'.steps = sync.steps /\ toMachine' = toMachine
              \/ Serves(Pair(slot'))
  <1>1. /\ device \in Nat /\ epoch \in Nat /\ device' = device /\ epoch' = epoch
        /\ Sync!ServiceHostSync(due)
    BY DEF Types, ThreadTypes, MachineTypes, Block, Process
  <1>2. Answers' = Answers
    BY <1>1 DEF Answers
  <1>3. CASE control = None /\ UNCHANGED syncVars
    BY <1>2, <1>3 DEF SyncInv, syncVars
  <1>4. CASE control # None /\ Sync!ServiceAttached(due)
    <2>1. /\ slot' \in SlotOrNone /\ fromMachine' \in Seq(Answers)
          /\ control' \in Controls
          /\ \/ Serves(Pair(slot')) /\ shown' = sync'.state
             \/ /\ Tracked(sync') /\ sync'.steps = sync.steps
                /\ UNCHANGED <<globals, toMachine, shown>>
      BY <1>1, <1>4, AttachedServes
    <2>2. control' # None
      BY <2>1, NothingAssumption DEF Controls, Targets
    <2>3. Tracked(sync') /\ toMachine' \in Seq(Requests) /\ globals' \in Panels
      <3>1. CASE Serves(Pair(slot'))
        BY <3>1 DEF Serves, SyncInv
      <3> QED BY <1>4, <2>1, <3>1 DEF SyncInv
    <2>4. shown' \in {"Unknown", "Following", "NotFollowing", "Applying", "Failed"}
      BY <2>1 DEF Serves, Tracked, SyncStates, SyncInv
    <2>5. SyncInv'
      BY <1>2, <2>1, <2>2, <2>3, <2>4 DEF SyncInv
    <2> QED BY <2>1, <2>5
  <1> QED BY <1>1, <1>3, <1>4 DEF Sync!ServiceHostSync, syncVars

LEMMA FirmwareSync ==
    ASSUME Types, SyncInv, Sync!Firmware, UNCHANGED vars
    PROVE  SyncInv'
  <1>1. /\ device \in Nat /\ epoch \in Nat /\ device' = device /\ epoch' = epoch
        /\ UNCHANGED <<control, sync, slot, shown>> /\ toMachine # <<>>
        /\ toMachine' = Tail(toMachine)
    BY DEF Types, ThreadTypes, MachineTypes, vars, machineVars, Sync!Firmware
  <1>2. /\ toMachine \in Seq(Requests) /\ fromMachine \in Seq(Answers) /\ Answers' = Answers
        /\ control # None /\ control \in Controls /\ globals \in Panels
    BY <1>1 DEF SyncInv, Answers
  <1>3. PICK m : m = Head(toMachine)
    OBVIOUS
  <1>4. m \in Requests /\ toMachine' \in Seq(Requests)
    BY <1>1, <1>2, <1>3
  <1>5. fromMachine' \in Seq(Answers) /\ globals' \in Panels
    <2>1. CASE m.what = "ask"
      <3>1. /\ UNCHANGED globals
            /\ fromMachine' = fromMachine \o <<[what |-> "status", slot |-> globals.active]>> \o
                  IF m.slot = None THEN <<>>
                  ELSE <<[what |-> "dump", slot |-> m.slot, sync |-> globals.sync[m.slot],
                          machine |-> <<device, epoch>>]>>
        BY <1>3, <2>1 DEF Sync!Firmware
      <3>2. globals.active \in Slots /\ globals.sync \in [Slots -> Settings]
        BY <1>2 DEF Panels
      <3>3. PICK told : told = [what |-> "status", slot |-> globals.active]
        OBVIOUS
      <3>4. told \in Answers
        BY <3>2, <3>3 DEF Answers, Statuses
      <3>5. PICK dump : dump = IF m.slot = None THEN <<>>
                  ELSE <<[what |-> "dump", slot |-> m.slot, sync |-> globals.sync[m.slot],
                          machine |-> <<device, epoch>>]>>
        OBVIOUS
      <3>6. dump \in Seq(Answers)
        <4>1. CASE m.slot = None
          BY <3>5, <4>1
        <4>2. CASE m.slot # None
          <5>1. m.slot \in Slots
            BY <1>4, <4>2 DEF Requests, SlotOrNone
          <5>2. [what |-> "dump", slot |-> m.slot, sync |-> globals.sync[m.slot],
                 machine |-> <<device, epoch>>] \in Answers
            BY <3>2, <5>1 DEF Answers, DumpsOf
          <5> QED BY <3>5, <4>2, <5>2
        <4> QED BY <4>1, <4>2
      <3>7. <<told>> \in Seq(Answers) /\ fromMachine' = fromMachine \o <<told>> \o dump
        BY <3>1, <3>3, <3>4, <3>5
      <3>8. fromMachine' \in Seq(Answers)
        <4>1. PICK f : f = fromMachine \o <<told>>
          OBVIOUS
        <4>2. f \in Seq(Answers)
          BY <1>2, <3>7, <4>1
        <4>3. fromMachine' = f \o dump
          BY <3>7, <4>1
        <4> QED BY <3>6, <4>2, <4>3
      <3> QED BY <1>2, <3>1, <3>8
    <2>2. CASE m.what = "change"
      <3>1. /\ fromMachine' = fromMachine
            /\ globals' \in {globals, [sync |-> [globals.sync EXCEPT ![m.slot] = m.sync],
                                       active |-> m.slot]}
        BY <1>3, <2>2 DEF Sync!Firmware
      <3>2. m.slot \in Slots /\ m.sync \in Settings
        BY <1>4, <2>2 DEF Requests
      <3>3. globals' \in Panels
        <4>1. globals.sync \in [Slots -> Settings]
          BY <1>2 DEF Panels
        <4>2. [globals.sync EXCEPT ![m.slot] = m.sync] \in [Slots -> Settings]
          BY <3>2, <4>1
        <4> QED BY <1>2, <3>1, <3>2, <4>2 DEF Panels
      <3> QED BY <1>2, <3>1, <3>3
    <2>3. m.what \in {"ask", "change"}
      BY <1>4 DEF Requests
    <2> QED BY <2>1, <2>2, <2>3
  <1> QED BY <1>1, <1>2, <1>4, <1>5 DEF SyncInv

LEMMA OutsideSync ==
    ASSUME Types, SyncInv, UNCHANGED vars, Sync!UserChange \/ Sync!Poll \/ Sync!Request
    PROVE  /\ SyncInv' /\ sync' = sync
           /\ \/ toMachine' = toMachine
              \/ toMachine = <<>> /\ toMachine' = <<Sync!Ask(slot)>>
  <1>1. /\ device' = device /\ epoch' = epoch /\ Answers' = Answers
    BY DEF vars, machineVars, Answers
  <1>2. CASE Sync!UserChange
    <2>1. /\ UNCHANGED <<toMachine, fromMachine, control, sync, slot, shown>>
          /\ control # None /\ globals \in Panels /\ calm > 0
      BY <1>2 DEF Sync!UserChange, Sync!Disturb, SyncInv
    <2>2. globals' \in Panels
      <3>1. CASE globals' \in [sync : {globals.sync}, active : Slots]
        BY <2>1, <3>1 DEF Panels
      <3>2. ASSUME NEW s \in Settings, globals' = [globals EXCEPT !.sync[globals.active] = s]
            PROVE  globals' \in Panels
        BY <2>1, <3>2 DEF Panels
      <3> QED BY <1>2, <3>1, <3>2 DEF Sync!UserChange
    <2> QED BY <1>1, <2>1, <2>2 DEF SyncInv
  <1>3. CASE Sync!Poll
    <2>1. /\ UNCHANGED <<globals, fromMachine, control, sync, slot, shown, calm>>
          /\ control # None /\ toMachine = <<>> /\ toMachine' = <<Sync!Ask(slot)>>
      BY <1>3 DEF Sync!Poll
    <2>2. Sync!Ask(slot) \in Requests
      BY DEF SyncInv, Requests, Sync!Ask
    <2>3. toMachine' \in Seq(Requests)
      BY <2>1, <2>2
    <2> QED BY <1>1, <2>1, <2>3 DEF SyncInv
  <1>4. CASE Sync!Request
    <2>1. /\ UNCHANGED <<globals, toMachine, fromMachine, sync, slot, shown>> /\ calm > 0
      BY <1>4 DEF Sync!Request, Sync!Disturb
    <2>2. control # None
      BY <2>1 DEF SyncInv
    <2>3. PICK t \in Targets : control' = [target |-> t, seen |-> FALSE]
      BY <1>4 DEF Sync!Request, Targets
    <2>4. control' \in Controls
      BY <2>3 DEF Controls
    <2>5. control' # None
      BY <2>4, NothingAssumption DEF Controls, Targets
    <2> QED BY <1>1, <2>1, <2>2, <2>4, <2>5 DEF SyncInv
  <1> QED BY <1>2, <1>3, <1>4

\* Another machine has answered nothing yet.
LEMMA RestSync ==
    ASSUME Types, SyncInv, Rest
    PROVE  SyncInv' /\ sync' \in {sync, Sync!Idle} /\ toMachine' \in {toMachine, <<>>}
  <1>1. CASE control # None /\ Sync!NewDevice
    <2>1. /\ Sync!NewGlobals /\ control' = [control EXCEPT !.seen = FALSE] /\ sync' = Sync!Idle
          /\ slot' = None /\ UNCHANGED <<shown, calm>>
      BY <1>1 DEF Sync!NewDevice
    <2>2. toMachine' = <<>> /\ fromMachine' = <<>> /\ globals' \in Panels
      BY <2>1 DEF Sync!NewGlobals, Panels
    <2>3. control' \in Controls
      BY <1>1, <2>1 DEF SyncInv, Controls
    <2>4. control' # None
      BY <2>3, NothingAssumption DEF Controls, Targets
    <2> QED BY <2>1, <2>2, <2>3, <2>4, IdleTracked DEF SyncInv, SlotOrNone
  <1>2. CASE control # None /\ Sync!Replaced
    <2>1. Sync!NewGlobals /\ UNCHANGED <<control, sync, slot, shown, calm>>
      BY <1>2 DEF Sync!Replaced
    <2>2. toMachine' = <<>> /\ fromMachine' = <<>> /\ globals' \in Panels
      BY <2>1 DEF Sync!NewGlobals, Panels
    <2> QED BY <1>2, <2>1, <2>2 DEF SyncInv
  <1>3. CASE (control = None \/ <<device, epoch>>' = <<device, epoch>>) /\ UNCHANGED syncVars
    <2>1. UNCHANGED <<globals, toMachine, fromMachine, control, sync, slot, shown, calm>>
      BY <1>3 DEF syncVars
    <2>2. fromMachine' \in Seq(Answers')
      <3>1. CASE control = None
        BY <2>1, <3>1 DEF SyncInv
      <3>2. CASE <<device, epoch>>' = <<device, epoch>>
        <4>1. Answers' = Answers
          BY <3>2 DEF Answers
        <4> QED BY <2>1, <4>1 DEF SyncInv
      <3> QED BY <1>3, <3>1, <3>2
    <2> QED BY <2>1, <2>2 DEF SyncInv
  <1> QED BY <1>1, <1>2, <1>3 DEF Rest

-------------------------------------------------------------------------------
(* The change.                                                             *)

\* A message appended is all that is sent.
LEMMA SentIs ==
    ASSUME NEW s \in Seq(Requests), NEW m \in Seq(Requests)
    PROVE  SubSeq(s \o m, Len(s) + 1, Len(s \o m)) = m
  <1>1. PICK t, n : t = s \o m /\ n = SubSeq(s \o m, Len(s) + 1, Len(s \o m))
    OBVIOUS
  <1>2. /\ t \in Seq(Requests) /\ Len(t) = Len(s) + Len(m) /\ Len(s) \in Nat /\ Len(m) \in Nat
        /\ \A i \in 1 .. Len(m) : t[Len(s) + i] = m[i]
    BY <1>1
  <1>3. n \in Seq(Requests) /\ Len(n) = Len(m)
    BY <1>1, <1>2
  <1>4. \A i \in 1 .. Len(m) : n[i] = t[Len(s) + 1 + i - 1] /\ Len(s) + 1 + i - 1 = Len(s) + i
    BY <1>1, <1>2
  <1>5. \A i \in 1 .. Len(m) : n[i] = m[i]
    BY <1>2, <1>4
  <1>6. n = m
    BY <1>3, <1>5
  <1> QED BY <1>1, <1>6

LEMMA NothingSent ==
    ASSUME NEW s \in Seq(Requests), NEW t \in Seq(Requests), Len(t) <= Len(s)
    PROVE  SubSeq(t, Len(s) + 1, Len(t)) = <<>>
  OBVIOUS

\* A change this step makes was made from a dump of the machine of now and the slot reported.
MadeFromDump == Sync!Changes /\ ~sync'.early => Sync!HoldsItsDump

LEMMA UnsentMade ==
    ASSUME SyncInv, toMachine' \in Seq(Requests), Len(toMachine') <= Len(toMachine),
           ~(sync'.phase = "RunningMacro" /\ sync'.steps < sync.steps)
    PROVE  MadeFromDump
  <1>1. SubSeq(toMachine', Len(toMachine) + 1, Len(toMachine')) = <<>>
    BY NothingSent DEF SyncInv
  <1> QED BY <1>1 DEF MadeFromDump, Sync!Changes

LEMMA ServesMade ==
    ASSUME SyncInv, Serves(Pair(slot'))
    PROVE  MadeFromDump
  <1>1. PICK m \in Seq(Requests) :
            /\ toMachine' = toMachine \o m
            /\ m # <<>> /\ Head(m).what = "change" => sync'.dump # None
    BY DEF Serves
  <1>2. SubSeq(toMachine', Len(toMachine) + 1, Len(toMachine')) = m
    BY <1>1, SentIs DEF SyncInv
  <1>3. ASSUME sync'.dump # None \/ sync'.phase = "RunningMacro", ~sync'.early
        PROVE  sync'.dump.machine = <<device, epoch>> /\ sync'.dump.slot = slot'
    <2>1. sync'.epoch = <<sync'.dump.machine, sync'.dump.slot>> /\ sync'.epoch = Pair(slot')
      BY <1>3 DEF Serves, Tracked, DumpFits
    <2> QED BY <2>1 DEF Pair
  <1> QED BY <1>1, <1>2, <1>3 DEF MadeFromDump, Sync!Changes, Sync!HoldsItsDump

LEMMA SyncStep ==
    ASSUME Types, SyncInv, [SessionNext]_sessionVars
    PROVE  SyncInv' /\ MadeFromDump
  <1>0. /\ toMachine \in Seq(Requests) /\ Len(toMachine) \in Nat /\ sync.steps \in Nat
        /\ Len(<<>>) = 0
    BY LimitsAssumption DEF SyncInv, Tracked, SyncStates
  <1>1. ASSUME NEW due \in BOOLEAN, Block(due) PROVE SyncInv' /\ MadeFromDump
    <2>1. /\ SyncInv'
          /\ \/ sync'.steps = sync.steps /\ toMachine' = toMachine
             \/ Serves(Pair(slot'))
      BY <1>1, BlockSync
    <2>2. CASE sync'.steps = sync.steps /\ toMachine' = toMachine
      BY <1>0, <2>1, <2>2, UnsentMade
    <2> QED BY <2>1, <2>2, ServesMade
  <1>2. CASE Rest
    <2>1. SyncInv' /\ sync' \in {sync, Sync!Idle} /\ toMachine' \in {toMachine, <<>>}
      BY <1>2, RestSync
    <2>2. ~(sync'.phase = "RunningMacro" /\ sync'.steps < sync.steps)
      BY <1>0, <2>1 DEF Sync!Idle
    <2>3. CASE toMachine' = toMachine
      BY <1>0, <2>1, <2>2, <2>3, UnsentMade
    <2>4. CASE toMachine' = <<>>
      <3>1. <<>> \in Seq(Requests)
        OBVIOUS
      <3>2. toMachine' \in Seq(Requests)
        BY <2>4, <3>1
      <3>3. Len(toMachine') <= Len(toMachine)
        <4>1. PICK n : n = Len(toMachine)
          OBVIOUS
        <4>2. n \in Nat /\ Len(toMachine') = 0
          BY <1>0, <2>4, <4>1
        <4> QED BY <4>1, <4>2
      <3> QED BY <2>1, <2>2, <3>2, <3>3, UnsentMade
    <2> QED BY <2>1, <2>3, <2>4
  <1>3. CASE Outside
    <2>1. CASE Sync!Firmware
      <3>1. SyncInv' /\ sync' = sync /\ toMachine # <<>> /\ toMachine' = Tail(toMachine)
        BY <1>3, <2>1, FirmwareSync DEF Outside, Sync!Firmware
      <3>2. toMachine' \in Seq(Requests) /\ Len(toMachine') <= Len(toMachine)
        <4>1. PICK t : t = toMachine
          OBVIOUS
        <4>2. t \in Seq(Requests) /\ t # <<>>
          BY <1>0, <3>1, <4>1
        <4>3. Tail(t) \in Seq(Requests) /\ Len(Tail(t)) <= Len(t)
          BY <4>2
        <4> QED BY <3>1, <4>1, <4>3
      <3> QED BY <1>0, <3>1, <3>2, UnsentMade
    <2>2. CASE Sync!UserChange \/ Sync!Poll \/ Sync!Request
      <3>1. /\ SyncInv' /\ sync' = sync
            /\ \/ toMachine' = toMachine
               \/ toMachine = <<>> /\ toMachine' = <<Sync!Ask(slot)>>
        BY <1>3, <2>2, OutsideSync DEF Outside
      <3>2. CASE toMachine' = toMachine
        BY <1>0, <3>1, <3>2, UnsentMade
      <3>3. CASE toMachine = <<>> /\ toMachine' = <<Sync!Ask(slot)>>
        <4>1. PICK ask : ask = Sync!Ask(slot)
          OBVIOUS
        <4>2. ask \in Requests /\ ask.what = "ask"
          BY <4>1 DEF Sync!Ask, Requests, SyncInv
        <4>3. SubSeq(toMachine', Len(toMachine) + 1, Len(toMachine')) = <<ask>>
          <5>1. PICK m : m = <<ask>>
            OBVIOUS
          <5>2. m \in Seq(Requests) /\ <<>> \o m = m
            BY <4>2, <5>1
          <5>3. toMachine' = toMachine \o m
            BY <3>3, <4>1, <5>1, <5>2
          <5> QED BY <1>0, <5>1, <5>2, <5>3, SentIs
        <4>4. Head(<<ask>>) = ask
          OBVIOUS
        <4>5. ~(sync'.steps < sync.steps)
          BY <1>0, <3>1
        <4> QED BY <3>1, <4>2, <4>3, <4>4, <4>5 DEF MadeFromDump, Sync!Changes
      <3> QED BY <3>1, <3>2, <3>3
    <2> QED BY <1>3, <2>1, <2>2 DEF Outside
  <1>4. CASE UNCHANGED sessionVars
    <2>1. /\ UNCHANGED <<device, epoch>>
          /\ UNCHANGED <<globals, toMachine, fromMachine, control, sync, slot, shown, calm>>
      BY <1>4 DEF sessionVars, syncVars, vars, machineVars
    <2>2. Answers' = Answers
      BY <2>1 DEF Answers
    <2>3. SyncInv'
      BY <2>1, <2>2 DEF SyncInv
    <2> QED BY <1>0, <2>1, <2>3, UnsentMade
  <1> QED BY <1>1, <1>2, <1>3, <1>4 DEF SessionNext

\* HostSync changes only the machine whose dump it read, and only while the slot it read is
\* the one reported last, whatever is restored, exchanged or selected, and however long
\* answers and requests wait, for any slots, settings and limits; a dump heard before it was
\* served is not covered (HostSync::service and evaluate, mdhostsync.cpp 169-273;
\* Device::serviceHostSync, mddevice.cpp 749-792).
THEOREM ChangesCorrect == SessionSpec => ChangesWhatItRead
  <1>1. SessionSpec => []Types
    <2>1. SessionSpec => Spec
      BY SessionInits, SessionSteps, PTL DEF SessionSpec, Spec
    <2>2. Spec => []Types
      BY InitTypes, StepTypes, PTL DEF Spec
    <2> QED BY <2>1, <2>2, PTL
  <1>2. Types /\ SyncInv /\ [SessionNext]_sessionVars => SyncInv'
    BY SyncStep
  <1>3. Types /\ SyncInv /\ [SessionNext]_sessionVars =>
            [Sync!Changes /\ ~sync'.early => Sync!HoldsItsDump]_<<<<device, epoch>>, Sync!syncVars>>
    BY SyncStep DEF MadeFromDump
  <1> QED BY <1>1, <1>2, <1>3, SyncInitInv, PTL
          DEF SessionSpec, ChangesWhatItRead, Sync!ChangesWhatItRead

\* The types of what HostSync keeps hold beside the restores, for any slots, settings and
\* limits: no count leaves its limit (HostSync, mdhostsync.h).
THEOREM SyncTypeCorrect == SessionSpec => []Sync!SyncTypeOK
  <1>1. SessionSpec => []Types
    <2>1. SessionSpec => Spec
      BY SessionInits, SessionSteps, PTL DEF SessionSpec, Spec
    <2>2. Spec => []Types
      BY InitTypes, StepTypes, PTL DEF Spec
    <2> QED BY <2>1, <2>2, PTL
  <1>2. Types /\ SyncInv /\ [SessionNext]_sessionVars => SyncInv'
    BY SyncStep
  <1>3. SyncInv => Sync!SyncTypeOK
    BY DEF SyncInv, Tracked, SyncStates, SlotOrNone, Targets, Sync!SyncTypeOK
  <1> QED BY <1>1, <1>2, <1>3, SyncInitInv, PTL DEF SessionSpec
===============================================================================
