------------------------------- MODULE HostSync -------------------------------
(***************************************************************************)
(* The clock and transport settings of the instrument's active Global slot *)
(* kept as the host's (mdLib/mdhostsync.cpp, Device::serviceHostSync in    *)
(* mdLib/mddevice.cpp): read by a dump, changed by a patched dump or by a  *)
(* macro on the front panel, and read again to see whether it was taken.   *)
(*                                                                         *)
(* Requests and answers wait in the MIDI streams; the plug-in's controller *)
(* polls over the same streams; the user selects slots and changes them;   *)
(* the firmware may ignore a change; the machine may be replaced between   *)
(* any two of these steps.  Times are choices: what waits for one may be   *)
(* due or not.                                                             *)
(***************************************************************************)
EXTENDS Naturals, Sequences

CONSTANTS
    None,
    Slots,              \* the Global slots of an instrument
    Settings,           \* clock and transport settings: "host", "factory" and any other
    MaxAttempts,
    MaxVerifyRequests,  \* g_maxVerifyRequests
    MacroSteps,         \* length of monomachineSyncMacro
    MaxWire,            \* bound: requests on their way to the instrument
    Disturbances        \* bound: requests, slots and settings of the user, changes ignored

VARIABLES
    model,      \* m_model
    machine,    \* identifies the machine: m_hardwareEpoch, and the device itself
    handsOff,   \* an import, a restore or the factory flash come first
    globals,    \* the machine: the setting of each slot, which one is active
    toMachine, fromMachine,
    control,    \* m_hostSyncControl: the target requested, whether the device has seen it
    sync,       \* m_hostSync
    slot,       \* m_hostSyncSlot
    shown,      \* HostSyncControl: the state it reached
    calm        \* what is left of Disturbances

syncVars == <<globals, toMachine, fromMachine, control, sync, slot, shown, calm>>

\* A HostSync; history: the machine and slot it was last served for (served), and whether its
\* dump was heard before that (early).
Idle == [target |-> "Leave", state |-> "Unknown", phase |-> "Idle", dump |-> None, attempts |-> 0,
         steps |-> 0, setting |-> None, verify |-> "unasked", requests |-> 0, epoch |-> None,
         settled |-> FALSE, served |-> None, early |-> FALSE]

SyncInit ==
    /\ control \in {None, [target |-> "Follow", seen |-> FALSE]}
    /\ globals \in [sync : {[s \in Slots |-> "factory"]},
                    active : IF control = None THEN {CHOOSE s \in Slots : TRUE} ELSE Slots]
    /\ toMachine = <<>> /\ fromMachine = <<>>
    /\ sync = Idle
    /\ slot = None
    /\ shown = "Unknown"
    /\ calm = IF control = None THEN 0 ELSE Disturbances

-------------------------------------------------------------------------------
(* The instrument, its user and the plug-in's controller.                  *)

Disturb == calm > 0 /\ calm' = calm - 1

\* A request for the status and, when its slot is known, for the Global (requestGlobal).
Ask(s) == [what |-> "ask", slot |-> s]

\* The firmware takes the next message; it may ignore a change.
Firmware ==
    /\ toMachine # <<>>
    /\ toMachine' = Tail(toMachine)
    /\ LET m == Head(toMachine)
       IN  \/ /\ m.what = "ask"
              /\ fromMachine' = fromMachine \o <<[what |-> "status", slot |-> globals.active]>> \o
                    IF m.slot = None THEN <<>>
                    ELSE <<[what |-> "dump", slot |-> m.slot, sync |-> globals.sync[m.slot],
                            machine |-> machine]>>
              /\ UNCHANGED <<globals, calm>>
           \/ /\ m.what = "change"
              /\ globals' = [sync |-> [globals.sync EXCEPT ![m.slot] = m.sync], active |-> m.slot]
              /\ UNCHANGED <<fromMachine, calm>>
           \/ /\ m.what = "change"
              /\ Disturb
              /\ UNCHANGED <<globals, fromMachine>>
    /\ UNCHANGED <<control, sync, slot, shown>>

\* The user selects a slot, or changes the setting of the active one.
UserChange ==
    /\ Disturb
    /\ \/ globals' \in [sync : {globals.sync}, active : Slots]
       \/ \E s \in Settings : globals' = [globals EXCEPT !.sync[globals.active] = s]
    /\ UNCHANGED <<toMachine, fromMachine, control, sync, slot, shown>>

\* The controller's requests, when the last ones are answered.
Poll ==
    /\ control # None
    /\ toMachine = <<>> /\ fromMachine = <<>>
    /\ toMachine' = <<Ask(slot)>>
    /\ UNCHANGED <<globals, fromMachine, control, sync, slot, shown, calm>>

\* HostSyncControl::request.
Request ==
    /\ Disturb
    /\ \E t \in {"Leave", "Follow", "Release"} : control' = [target |-> t, seen |-> FALSE]
    /\ UNCHANGED <<globals, toMachine, fromMachine, sync, slot, shown>>

\* Another machine: its streams are empty, its Globals its own.
NewGlobals ==
    /\ globals' \in [sync : [Slots -> Settings], active : Slots]
    /\ toMachine' = <<>> /\ fromMachine' = <<>>

Replaced ==
    /\ NewGlobals
    /\ UNCHANGED <<control, sync, slot, shown, calm>>

\* Another device: its HostSync is new, and what was requested last is news to it.
NewDevice ==
    /\ NewGlobals
    /\ control' = IF control = None THEN None ELSE [control EXCEPT !.seen = FALSE]
    /\ sync' = Idle
    /\ slot' = None
    /\ UNCHANGED <<shown, calm>>

-------------------------------------------------------------------------------
(* HostSync.                                                               *)

\* wantedSync.
Wanted(target) ==
    CASE target = "Follow" -> "host" [] target = "Release" -> "factory" [] OTHER -> None

\* setTarget.
Targeted(h, target) ==
    IF target = h.target THEN h
    ELSE [h EXCEPT !.target = target, !.attempts = 0,
                   !.state = IF @ # "Failed" THEN @
                             ELSE IF h.dump = None THEN "Unknown" ELSE "NotFollowing"]

\* reset.
Reset(h) ==
    [h EXCEPT !.state = "Unknown", !.phase = "Idle", !.dump = None, !.attempts = 0, !.steps = 0,
              !.setting = None, !.settled = FALSE]

\* startVerifying: no dump counts until one was asked for.
Verifying(h) ==
    [h EXCEPT !.phase = "Verifying", !.setting = None, !.verify = "unasked", !.requests = 0]

Send(messages) == toMachine' = toMachine \o messages

\* A request for the status and the Global; bound: none while MaxWire messages wait.
RequestGlobal == Send(IF Len(toMachine) < MaxWire THEN <<Ask(slot')>> ELSE <<>>)

PanelStays == UNCHANGED <<globals, calm>>

\* evaluate; due: a request for the Global is.
Evaluate(h, due) ==
    LET wanted == Wanted(h.target)
        satisfied == h.dump # None /\ wanted \in {None, h.dump.sync}
        changing == h.dump # None /\ ~satisfied /\ h.attempts < MaxAttempts /\ h.settled
        trying == [h EXCEPT !.state = "Applying", !.attempts = @ + 1]
    IN  /\ PanelStays
        /\ \/ /\ h.dump = None
              /\ sync' = [h EXCEPT !.state = "Unknown"]
              /\ IF wanted # None /\ due THEN RequestGlobal ELSE Send(<<>>)
           \/ /\ satisfied
              /\ sync' = [h EXCEPT !.state = IF h.dump.sync = "host" THEN "Following"
                                             ELSE "NotFollowing",
                                   !.attempts = 0,
                                   !.target = IF @ = "Release" THEN "Leave" ELSE @]
              /\ Send(<<>>)
           \/ /\ h.dump # None /\ ~satisfied /\ ~changing
              /\ sync' = [h EXCEPT !.state = IF h.attempts < MaxAttempts THEN "Applying"
                                             ELSE "Failed"]
              /\ Send(<<>>)
           \/ /\ changing /\ model = "Machinedrum"
              /\ sync' = Verifying(trying)
              /\ Send(<<[what |-> "change", slot |-> h.dump.slot, sync |-> wanted]>>)
           \/ /\ changing /\ model = "Monomachine"
              /\ sync' = [trying EXCEPT !.phase = "RunningMacro", !.steps = MacroSteps,
                                        !.setting = wanted]
              /\ Send(<<>>)

\* The macro: its last key sets the active slot, unless the panel shows something else.
PlayMacro(h, due) ==
    /\ Send(<<>>)
    /\ \/ /\ ~due
          /\ sync' = h
          /\ PanelStays
       \/ /\ due /\ h.steps > 0
          /\ sync' = [h EXCEPT !.steps = @ - 1]
          /\ \/ /\ h.steps > 1
                /\ PanelStays
             \/ /\ h.steps = 1
                /\ globals' = [globals EXCEPT !.sync[globals.active] = h.setting]
                /\ UNCHANGED calm
             \/ /\ h.steps = 1
                /\ Disturb
                /\ UNCHANGED globals
       \/ /\ due /\ h.steps = 0
          /\ sync' = Verifying(h)
          /\ PanelStays

Verify(h, due) ==
    \/ /\ h.verify = "answered" \/ (due /\ h.requests >= MaxVerifyRequests)
       /\ Evaluate([h EXCEPT !.phase = "Idle"], due)
    \/ /\ h.verify # "answered" /\ ~due
       /\ sync' = h
       /\ Send(<<>>)
       /\ PanelStays
    \/ /\ h.verify # "answered" /\ due /\ h.requests < MaxVerifyRequests
       /\ sync' = [h EXCEPT !.verify = "asked", !.requests = @ + 1]
       /\ RequestGlobal
       /\ PanelStays

\* Mutant: only another machine starts over.
AnotherMachine(activeSlot) == <<machine, None>>

\* What a dump is read from: another one starts over.
Epoch(activeSlot) == <<machine, activeSlot>>

\* HostSync as service() begins; time passes for a machine that was served before.
Begun(h, epoch, due) ==
    LET started == IF h.epoch \notin {None, epoch} THEN Reset(h) ELSE h
    IN  [started EXCEPT !.epoch = epoch, !.settled = @ \/ (due /\ started.epoch = epoch)]

\* service.
Service(h, due) ==
    \/ h.phase = "Idle" /\ Evaluate(h, due)
    \/ h.phase = "RunningMacro" /\ PlayMacro(h, due)
    \/ h.phase = "Verifying" /\ Verify(h, due)

\* Mutant: the first slot that was reported stays the active one.
HeardFirst(state, answer) ==
    CASE answer.what = "status" -> [state EXCEPT !.slot = IF @ = None THEN answer.slot ELSE @]
      [] answer.what = "dump" /\ answer.slot = state.slot ->
            [state EXCEPT !.sync.dump = answer,
                          !.sync.verify = IF @ = "asked" THEN "answered" ELSE @,
                          !.sync.early = state.sync.served # <<machine, state.slot>>]
      [] OTHER -> state

\* An answer of the machine, as serviceHostSync and onGlobalDump take it.
Heard(state, answer) ==
    CASE answer.what = "status" -> [state EXCEPT !.slot = answer.slot]
      [] answer.what = "dump" /\ answer.slot = state.slot ->
            [state EXCEPT !.sync.dump = answer,
                          !.sync.verify = IF @ = "asked" THEN "answered" ELSE @,
                          !.sync.early = state.sync.served # <<machine, state.slot>>]
      [] OTHER -> state

\* What is known after the first n answers.
Known(n) ==
    LET After[k \in 0 .. n] ==
            IF k = 0 THEN [sync |-> sync, slot |-> slot] ELSE Heard(After[k - 1], fromMachine[k])
    IN  After[n]

\* serviceHostSync, attached: the answers of this block, the target, and service().
ServiceAttached(due) ==
    \E n \in 0 .. Len(fromMachine) :
    \E heard \in {Known(n)} :
    \E h \in {IF control.seen THEN heard.sync ELSE Targeted(heard.sync, control.target)} :
        /\ due => n = Len(fromMachine)
        /\ fromMachine' = SubSeq(fromMachine, n + 1, Len(fromMachine))
        /\ control' = [control EXCEPT !.seen = TRUE]
        /\ slot' = heard.slot
        /\ \/ /\ handsOff
              /\ sync' = h
              /\ UNCHANGED <<globals, toMachine, shown, calm>>
           \/ /\ ~handsOff
              /\ \E begun \in {Begun(h, Epoch(heard.slot), due)} :
                    Service([begun EXCEPT !.served = <<machine, heard.slot>>], due)
              /\ shown' = sync'.state

ServiceHostSync(due) ==
    \/ control = None /\ UNCHANGED <<globals, toMachine, fromMachine, control, sync, slot, shown, calm>>
    \/ control # None /\ ServiceAttached(due)

-------------------------------------------------------------------------------
(* Properties.                                                             *)

SyncTypeOK ==
    /\ sync.target \in {"Leave", "Follow", "Release"}
    /\ sync.state \in {"Unknown", "Following", "NotFollowing", "Applying", "Failed"}
    /\ sync.attempts \in 0 .. MaxAttempts /\ sync.requests \in 0 .. MaxVerifyRequests
    /\ sync.steps \in 0 .. MacroSteps
    /\ slot \in Slots \cup {None}

\* A step that sends a patched Global or plays a key of the macro.
Changes ==
    LET sent == SubSeq(toMachine', Len(toMachine) + 1, Len(toMachine'))
    IN  \/ sent # <<>> /\ Head(sent).what = "change"
        \/ sync'.phase = "RunningMacro" /\ sync'.steps < sync.steps

\* The dump HostSync works with is one of this machine and of the slot reported last.
HoldsItsDump == sync'.dump.machine = machine /\ sync'.dump.slot = slot'

\* A patched Global or a key of the macro goes only to the machine whose dump it was made
\* from, and only while the slot of that dump is the one the machine reported last, whatever
\* was restored, exchanged or selected since (mdhostsync.cpp 169-178, 240-271; mddevice.cpp
\* 789-792).  Not covered: a dump heard before HostSync was served for that machine and slot
\* (early, see StartsOverFromARead), and a slot the user selects while the macro runs and
\* before a status tells of it, whose transport the last key then sets (mdhostsync.cpp:70).
ChangesWhatItRead == [][Changes /\ ~sync'.early => HoldsItsDump]_<<machine, syncVars>>

\* "A replaced machine (state restore) must be read again before anything is changed on it"
\* (mdhostsync.cpp:171): the same of every dump, one that was heard while the hands were off
\* included.
StartsOverFromARead == [][Changes => HoldsItsDump]_<<machine, syncVars>>

\* Left alone, it tells at last whether the machine follows the host, and the machine does
\* what was asked for or is reported as failed (mdhostsync.cpp 193-273, mddevice.cpp 780-792).
SyncSettles ==
    control # None /\ <>[]~handsOff =>
        <>[](LET setting == globals.sync[globals.active]
             IN  IF shown = "Failed" THEN setting # Wanted(sync.target)
                 ELSE /\ shown = "Following" <=> setting = "host"
                      /\ sync.target = "Follow" => setting = "host")
===============================================================================
