----------------------------- MODULE DeviceSession -----------------------------
(***************************************************************************)
(* A device with its project restores and imports (DeviceRestore) and the  *)
(* HostSync it services at the end of every block it renders (HostSync):   *)
(* restores, reboots and exchanges of the device replace the machine that  *)
(* HostSync reads and changes, and keep its hands off meanwhile.           *)
(***************************************************************************)
EXTENDS DeviceRestore

CONSTANTS
    Slots, Settings, MaxAttempts, MaxVerifyRequests, MacroSteps, MaxWire, Disturbances,
    SyncScenarios   \* the models and Budgets with which the host's sync is attached

ASSUME SettingsAssumption == {"host", "factory"} \subseteq Settings
ASSUME LimitsAssumption == {MaxAttempts, MaxVerifyRequests, MacroSteps} \subseteq Nat
\* What is missing is no slot, and neither a slot of a machine nor a request.
ASSUME NothingAssumption ==
    /\ None \notin Slots /\ None \notin (Nat \X Nat) \X (Slots \cup {None})
    /\ None \notin [target : {"Leave", "Follow", "Release"}, seen : BOOLEAN]

VARIABLES globals, toMachine, fromMachine, control, sync, slot, shown, calm

Sync == INSTANCE HostSync WITH
    machine <- <<device, epoch>>,
    handsOff <- OwnsWire \/ Pending \/ live.expected

syncVars == <<globals, toMachine, fromMachine, control, sync, slot, shown, calm>>
sessionVars == <<vars, syncVars>>

SessionInit == Init /\ Sync!SyncInit /\ (control # None => <<model, left>> \in SyncScenarios)

\* processAudio, serviceHostSync included.
Block(due) == Process /\ Sync!ServiceHostSync(due)

Rest ==
    /\ Between
    /\ \/ control # None /\ device' # device /\ Sync!NewDevice
       \/ control # None /\ device' = device /\ epoch' # epoch /\ Sync!Replaced
       \/ /\ control = None \/ <<device, epoch>>' = <<device, epoch>>
          /\ UNCHANGED syncVars

Outside ==
    /\ Sync!Firmware \/ Sync!UserChange \/ Sync!Poll \/ Sync!Request
    /\ UNCHANGED vars

SessionNext == (\E due \in BOOLEAN : Block(due)) \/ Rest \/ Outside

\* As for DeviceRestore; besides, what HostSync waits for is due at last, the firmware takes
\* its messages and the controller polls.
SessionFairness ==
    /\ ThreadFairness
    /\ WF_sessionVars(Block(TRUE) /\ Rendered)
    /\ WF_sessionVars(Sync!Firmware /\ UNCHANGED vars)
    /\ WF_sessionVars(Sync!Poll /\ UNCHANGED vars)

SessionSpec == SessionInit /\ [][SessionNext]_sessionVars /\ SessionFairness

-------------------------------------------------------------------------------
(* Properties of HostSync beside the restores.                             *)

\* See HostSync: a change goes only to the machine its dump was read from, and to the slot
\* that was reported, but for a dump heard before HostSync was served.
ChangesWhatItRead == Sync!ChangesWhatItRead

\* See HostSync: a replaced machine is read again before anything is changed on it.
StartsOverFromARead == Sync!StartsOverFromARead

\* See HostSync: left alone, it tells at last what is, and does what was asked.
SyncSettles == Sync!SyncSettles
===============================================================================
