-------------------------- MODULE TransportSignal --------------------------
(***************************************************************************)
(* The wake-up between the threads of the transport (mdtransportsignal.h). *)
(* notify() fences, reads how many threads wait and wakes them when there  *)
(* are some; waitFor() registers, looks at its predicate and sleeps until  *)
(* it is notified or its time is up. A waiter holds the mutex from its     *)
(* registration to its sleep and a notifier needs it to wake anybody, so   *)
(* each of the two is one step. What the predicates read belongs to the    *)
(* module that uses this one, and so does what the fence and the           *)
(* registration, both full barriers, make visible.                         *)
(***************************************************************************)
CONSTANT Threads

VARIABLES
    notifying,  \* threads between the store they announce and their fence
    asleep      \* threads registered and waiting on the condition variable

SignalInit == notifying = {} /\ asleep = {}

\* The thread runs its own code: it is in neither call.
Free(t) == t \notin notifying /\ t \notin asleep

\* notify() begins: the store it announces may still be in the store buffer.
Notify(t) == notifying' = notifying \cup {t}

\* Past the fence: whoever is registered wakes up and looks at its predicate.
NotifyAll(t) ==
    /\ t \in notifying
    /\ notifying' = notifying \ {t}
    /\ asleep' = {}

\* The predicate was false under the mutex.
Sleep(t) == asleep' = asleep \cup {t}

\* The time of a waitFor() is up.
TimesOut(t) == t \in asleep /\ asleep' = asleep \ {t}
=============================================================================
