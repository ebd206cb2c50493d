------------------------------ MODULE HostProject ------------------------------
(***************************************************************************)
(* What the host may rely on when it loads and saves the project of an     *)
(* instrument: the promise which DeviceRestore keeps (Device::getState and *)
(* the state transactions of mdLib/mddevice.cpp, Plugin::setDevice).  A    *)
(* project that was loaded is what a save gives back, from the load on and *)
(* however long the machine takes to play it, until it fails; the machine  *)
(* changes only to it, or under the user's hands.                          *)
(***************************************************************************)
EXTENDS Naturals

CONSTANTS
    Memory,     \* contents of the patch memory
    Flash,      \* contents of the sample flash
    None        \* the flash of a project that brings none

VARIABLES
    project,    \* what a save gives
    sounding,   \* what the machine plays
    loading,    \* a load is not complete
    inputs      \* what the host and the user did so far

hostVars == <<project, sounding, loading, inputs>>

Playable == [ram : Memory, flash : Flash]
Loadable == [ram : Memory, flash : Flash \cup {None}]

\* A project over a machine: one without flash keeps the machine's samples.
Over(p, machine) == [ram |-> p.ram, flash |-> IF p.flash = None THEN machine.flash ELSE p.flash]

HostInit ==
    /\ sounding \in Playable
    /\ project = sounding
    /\ loading = FALSE
    /\ inputs = 0

\* The host loads a project; the machine plays on.
Load ==
    /\ inputs' = inputs + 1
    /\ project' \in Loadable
    /\ loading' = TRUE
    /\ UNCHANGED sounding

\* The user changes what the machine plays; during a load that is ephemeral.
Edit ==
    /\ inputs' = inputs + 1
    /\ sounding' \in Playable
    /\ project' = IF loading THEN project ELSE sounding'
    /\ UNCHANGED loading

\* Another device, with contents of its own, takes the project over at once, later or, when
\* that fails, not at all.
NewDevice ==
    /\ inputs' = inputs + 1
    /\ sounding' \in Playable
    /\ \/ /\ loading' = FALSE
          /\ sounding' = Over(project, sounding')
          /\ project' = sounding'
       \/ /\ loading' = TRUE
          /\ UNCHANGED project
       \/ /\ loading' = FALSE
          /\ project' = sounding'

\* The load completes, of the last project asked for and nothing older.
Complete ==
    /\ loading
    /\ loading' = FALSE
    /\ sounding' = Over(project, sounding)
    /\ project' = sounding'
    /\ UNCHANGED inputs

\* The machine already plays it, while its load goes on.
Anticipate ==
    /\ loading
    /\ sounding' = Over(project, sounding)
    /\ UNCHANGED <<project, loading, inputs>>

\* The load fails; the machine is as it was.
GiveUp ==
    /\ loading
    /\ loading' = FALSE
    /\ project' = sounding
    /\ UNCHANGED <<sounding, inputs>>

HostNext == Load \/ Edit \/ NewDevice \/ Complete \/ Anticipate \/ GiveUp

HostSpec == HostInit /\ [][HostNext]_hostVars
===============================================================================
