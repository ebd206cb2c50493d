----------------------------- MODULE AsyncRender -----------------------------
(***************************************************************************)
(* md::AsyncRender (mdLib/mdasyncrender.{h,cpp}): the device renders on a  *)
(* thread of its own, one latency behind the host.  Three kinds of thread  *)
(* share it:                                                               *)
(*   - the host's audio thread runs process(): it hands a block over in a  *)
(*     ring of JobCount slots and takes rendered audio out of a FIFO;      *)
(*   - the render thread runs threadFunc();                                *)
(*   - the Clients (editor, state save, latency change) run finish(),      *)
(*     pause(), resume(), and inside a pause stop() and start(), under the *)
(*     plug-in's lock, which process() takes as well.                      *)
(*                                                                         *)
(* A frame of audio is named by its position in the host's stream, so the  *)
(* render of frame p is written p wherever it goes, and a silent frame is  *)
(* Silence.  A block carries one MIDI event, named by the block's number,  *)
(* and rendering it produces one, named by its first frame.  A condition-  *)
(* variable wait is a guard: every wait in the code polls its predicate at *)
(* a bounded interval.                                                     *)
(***************************************************************************)
EXTENDS Integers, Sequences, FiniteSets

CONSTANTS
    JobCount,       \* slots of the job ring (16)
    FifoFrames,     \* frames of the audio FIFO (65536)
    FrameSizes,     \* sizes a host block may have
    Latencies,      \* latencies a start() may be given
    Clients,        \* threads that pause the device
    StoreBuffer,    \* TRUE: a release store may be seen late by other threads
    MaxBlocks,      \* bound: blocks the host processes between two starts
    MaxStarts,      \* bound: times a client restarts the render thread
    Silence

ASSUME JobCountAssumption == JobCount \in Nat \ {0}
ASSUME FifoFramesAssumption == FifoFrames \in Nat \ {0}
\* A block fits in half the FIFO (the host's largest is 8192 of 65536 frames).
ASSUME FrameSizesAssumption ==
    FrameSizes \subseteq {f \in Nat \ {0} : 2 * f <= FifoFrames}
ASSUME LatenciesAssumption == Latencies \subseteq Nat
ASSUME ClientsAssumption == IsFiniteSet(Clients)
ASSUME StoreBufferAssumption == StoreBuffer \in BOOLEAN
ASSUME BoundsAssumption == MaxBlocks \in Nat /\ MaxStarts \in Nat
ASSUME SilenceAssumption == Silence \notin Int

NoMidi == 0 - 1     \* a slot whose MIDI output is empty

VARIABLES
    submitted, done, harvested,     \* m_submitted, m_done, m_harvested
    gapFrames, carryMidi,           \* m_gapFrames, m_carryMidi
    jobs,                           \* m_jobs
    fifo, fifoRead, fifoWrite,      \* m_fifo and its two positions
    exit, running, hold,            \* m_exit, m_running, m_hold
    parked,                         \* m_parked as the other threads see it
    parkedStore,                    \* TRUE: its store of FALSE is still buffered
    host,                           \* the host's place in process() and its locals
    render, renderOut,              \* the render thread's place, m_renderOut
    client, target,                 \* each client's place, finish()'s target
    blocks, starts,                 \* counters the bounds apply to
    delay,                          \* frames of silence start() queued
    out,                            \* what the last process() call played
    handed, midiGiven,              \* history: blocks handed over, MIDI they gave back
    owed,                           \* history: MIDI the device is to see yet, in order
    unsent,                         \* history: blocks dropped since one was handed over
    dropped, cut                    \* history: frames dropped; gap frames cut

cursors  == <<submitted, done, harvested>>
hostData == <<gapFrames, carryMidi, blocks, out, handed, midiGiven, unsent, dropped, cut>>
pauseVars == <<exit, running, hold>>
parkVars == <<parked, parkedStore>>
clientVars == <<client, target>>
startVars == <<starts, delay>>

vars == <<cursors, hostData, jobs, fifo, fifoRead, fifoWrite, pauseVars, parkVars,
          host, render, renderOut, clientVars, startVars, owed>>

Frame == Nat \cup {Silence}
Slots == 0 .. JobCount - 1
Slot(k) == k % JobCount
At(i) == i % FifoFrames
Smaller(a, b) == IF a <= b THEN a ELSE b

Job == [in : Nat, frames : FrameSizes \cup {0}, gap : Nat, midiIn : Seq(Nat),
        midiOut : Nat \cup {NoMidi}]
EmptyJob == [in |-> 0, frames |-> 0, gap |-> 0, midiIn |-> <<>>, midiOut |-> NoMidi]

HostIdle == [pc |-> "idle", frames |-> 0, realtime |-> FALSE, available |-> 0]

\* Mutant: the cursors' difference without the test for a host ahead.
AvailableUnclamped == fifoWrite - fifoRead

\* fifoAvailable(): the host may have read past the render thread.
Available == IF fifoWrite > fifoRead THEN fifoWrite - fifoRead ELSE 0

\* held(): a pause holds the render thread unless it was told to exit.
Held == hold > 0 /\ ~exit

\* The plug-in's lock: process() and a client's access to the device exclude
\* each other.
InScope(c) == client[c] \in {"in", "stopping"}
LockFree == host.pc = "idle" /\ \A c \in Clients : ~InScope(c)

----------------------------------------------------------------------------
(***************************************************************************)
(* start(): every position starts over and the latency is queued as        *)
(* silence.                                                                *)
(***************************************************************************)
QueuedAll(latency) == latency   \* Mutant: no limit.

Queued(latency) == Smaller(latency, FifoFrames \div 2)

Init ==
    /\ submitted = 0 /\ done = 0 /\ harvested = 0
    /\ gapFrames = 0 /\ carryMidi = <<>>
    /\ jobs = [s \in Slots |-> EmptyJob]
    /\ fifo = [i \in 0 .. FifoFrames - 1 |-> Silence]
    /\ delay \in {Queued(l) : l \in Latencies}
    /\ fifoRead = 0 /\ fifoWrite = delay
    /\ exit = FALSE /\ running = TRUE /\ hold = 0
    /\ parked = FALSE /\ parkedStore = FALSE
    /\ host = HostIdle
    /\ render = "top" /\ renderOut = 0
    /\ client = [c \in Clients |-> "out"]
    /\ target = [c \in Clients |-> 0]
    /\ blocks = 0 /\ starts = 0
    /\ out = <<>> /\ handed = <<>> /\ midiGiven = <<>>
    /\ owed = <<>> /\ unsent = 0 /\ dropped = {} /\ cut = 0

----------------------------------------------------------------------------
(***************************************************************************)
(* The host's audio thread: process()                                      *)
(***************************************************************************)

\* Mutant: takes the job the render thread is on as well.
HarvestOneMore ==
    /\ harvested' = Smaller(done + 1, submitted)
    /\ midiGiven' = midiGiven \o
          [i \in 1 .. harvested' - harvested |-> jobs[Slot(harvested + i - 1)].midiOut]
    /\ UNCHANGED jobs

\* harvest(): collect the MIDI of the completed jobs and free their slots.
Harvest ==
    /\ harvested' = done
    /\ midiGiven' = midiGiven \o
          [i \in 1 .. done - harvested |-> jobs[Slot(harvested + i - 1)].midiOut]
    /\ jobs' = [s \in Slots |->
          IF \E k \in harvested .. done - 1 : Slot(k) = s
          THEN [jobs[s] EXCEPT !.midiOut = NoMidi] ELSE jobs[s]]

\* Mutant: a slot is free as soon as it is rendered, its MIDI collected or not.
SlotsBusyUntilDone == submitted - done >= JobCount

SlotsBusy == submitted - harvested >= JobCount

HostEnter(frames, realtime) ==
    /\ LockFree /\ running /\ blocks < MaxBlocks
    /\ Harvest
    /\ blocks' = blocks + 1
    /\ owed' = Append(owed, blocks')
    /\ host' = [HostIdle EXCEPT !.pc = "slot", !.frames = frames, !.realtime = realtime]
    /\ UNCHANGED <<submitted, done, gapFrames, carryMidi, out, handed, unsent, dropped, cut,
                   fifo, fifoRead, fifoWrite, pauseVars, parkVars, render, renderOut,
                   clientVars, startVars>>

\* Offline, a slot is waited for as long as the render thread can free one.
HostWaitSlot ==
    /\ host.pc = "slot" /\ SlotsBusy /\ ~host.realtime
    /\ done > harvested
    /\ Harvest
    /\ UNCHANGED <<submitted, done, gapFrames, carryMidi, blocks, out, handed, unsent,
                   dropped, cut, fifo, fifoRead, fifoWrite, pauseVars, parkVars, host,
                   render, renderOut, clientVars, startVars, owed>>

HostDrop ==
    /\ host.pc = "slot" /\ SlotsBusy
    /\ host.realtime \/ parked
    /\ gapFrames' = Smaller(gapFrames + host.frames, FifoFrames \div 2)
    /\ cut' = cut + (gapFrames + host.frames - gapFrames')
    /\ dropped' = dropped \cup fifoRead .. fifoRead + host.frames - 1
    /\ carryMidi' = Append(carryMidi, blocks)
    /\ unsent' = unsent + 1
    /\ host' = [host EXCEPT !.pc = "audio"]
    /\ UNCHANGED <<cursors, blocks, out, handed, midiGiven, jobs, fifo, fifoRead,
                   fifoWrite, pauseVars, parkVars, render, renderOut, clientVars,
                   startVars, owed>>

\* Mutants: the gap is not handed over; the carried MIDI goes behind the block's own.
HostFillWith(gap, nextGap, midi) ==
    /\ host.pc = "slot" /\ ~SlotsBusy
    /\ jobs' = [jobs EXCEPT ![Slot(submitted)] =
          [in |-> fifoRead, frames |-> host.frames, gap |-> gap, midiIn |-> midi,
           midiOut |-> @.midiOut]]
    /\ carryMidi' = <<>> /\ gapFrames' = nextGap
    /\ handed' = Append(handed, fifoRead) /\ unsent' = 0
    /\ host' = [host EXCEPT !.pc = "publish"]
    /\ UNCHANGED <<cursors, blocks, out, midiGiven, dropped, cut, fifo, fifoRead,
                   fifoWrite, pauseVars, parkVars, render, renderOut, clientVars,
                   startVars, owed>>
HostFillNoGap == HostFillWith(0, 0, Append(carryMidi, blocks))
HostFillMidiSwapped == HostFillWith(gapFrames, 0, <<blocks>> \o carryMidi)

HostFill ==
    /\ host.pc = "slot" /\ ~SlotsBusy
    /\ jobs' = [jobs EXCEPT ![Slot(submitted)] =
          [in |-> fifoRead, frames |-> host.frames, gap |-> gapFrames,
           midiIn |-> Append(carryMidi, blocks), midiOut |-> @.midiOut]]
    /\ carryMidi' = <<>> /\ gapFrames' = 0
    /\ handed' = Append(handed, fifoRead) /\ unsent' = 0
    /\ host' = [host EXCEPT !.pc = "publish"]
    /\ UNCHANGED <<cursors, blocks, out, midiGiven, dropped, cut, fifo, fifoRead,
                   fifoWrite, pauseVars, parkVars, render, renderOut, clientVars,
                   startVars, owed>>

HostPublish ==
    /\ host.pc = "publish"
    /\ submitted' = submitted + 1
    /\ host' = [host EXCEPT !.pc = "audio"]
    /\ UNCHANGED <<done, harvested, hostData, jobs, fifo, fifoRead, fifoWrite, pauseVars,
                   parkVars, render, renderOut, clientVars, startVars, owed>>

\* Mutants: the host copies a whole block whether it is there or not; offline it
\* waits on although the render thread is parked.
HostTakeWhen(ready, available) ==
    /\ host.pc = "audio" /\ ready
    /\ host' = [host EXCEPT !.pc = "copy", !.available = available]
    /\ UNCHANGED <<cursors, hostData, jobs, fifo, fifoRead, fifoWrite, pauseVars, parkVars,
                   render, renderOut, clientVars, startVars, owed>>
HostTakeAll ==
    HostTakeWhen(Available >= host.frames \/ parked \/ host.realtime, host.frames)
HostTakeParked ==
    HostTakeWhen(Available >= host.frames \/ host.realtime,
                 Smaller(Available, host.frames))

(***************************************************************************)
(* A late block: offline the host waits for the audio or for a parked      *)
(* render thread, in real time for part of a block at most (any number of  *)
(* steps here).  It then fixes how many frames it can take.                *)
(***************************************************************************)
HostTake ==
    /\ host.pc = "audio"
    /\ Available >= host.frames \/ parked \/ host.realtime
    /\ host' = [host EXCEPT !.pc = "copy", !.available = Smaller(Available, host.frames)]
    /\ UNCHANGED <<cursors, hostData, jobs, fifo, fifoRead, fifoWrite, pauseVars, parkVars,
                   render, renderOut, clientVars, startVars, owed>>

\* Mutant: the host stays behind with the frames it missed.
HostCopyBehind ==
    /\ host.pc = "copy"
    /\ out' = [i \in 1 .. host.frames |->
          IF i <= host.available THEN fifo[At(fifoRead + i - 1)] ELSE Silence]
    /\ fifoRead' = fifoRead + host.available
    /\ Harvest
    /\ host' = HostIdle
    /\ UNCHANGED <<submitted, done, gapFrames, carryMidi, blocks, handed, unsent, dropped,
                   cut, fifo, fifoWrite, pauseVars, parkVars, render, renderOut, clientVars,
                   startVars, owed>>

HostCopy ==
    /\ host.pc = "copy"
    /\ out' = [i \in 1 .. host.frames |->
          IF i <= host.available THEN fifo[At(fifoRead + i - 1)] ELSE Silence]
    /\ fifoRead' = fifoRead + host.frames
    /\ Harvest
    /\ host' = HostIdle
    /\ UNCHANGED <<submitted, done, gapFrames, carryMidi, blocks, handed, unsent, dropped,
                   cut, fifo, fifoWrite, pauseVars, parkVars, render, renderOut, clientVars,
                   startVars, owed>>

----------------------------------------------------------------------------
(***************************************************************************)
(* The render thread: threadFunc()                                         *)
(***************************************************************************)
hostSide == <<submitted, harvested, hostData, fifoRead, host>>

RenderMove(from, to) == render = from /\ render' = to

\* A store the thread's processor still buffers reaches memory some time later.
RenderFlush ==
    /\ parkedStore
    /\ parked' = FALSE /\ parkedStore' = FALSE
    /\ UNCHANGED <<hostSide, done, jobs, fifo, fifoWrite, pauseVars, render, renderOut,
                   clientVars, startVars, owed>>

\* Mutant: an idle thread is not woken by a pause.
RenderStepDeafToPause ==
    /\ \/ RenderMove("top", "parking") /\ Held
       \/ RenderMove("top", "job") /\ ~Held
       \/ RenderMove("parked", "unparking") /\ ~Held
       \/ RenderMove("job", "idle") /\ submitted = done /\ ~exit
       \/ RenderMove("idle", "top") /\ (exit \/ submitted # done)
       \/ RenderMove("job", "exited") /\ submitted = done /\ exit
    /\ UNCHANGED <<hostSide, done, jobs, fifo, fifoWrite, pauseVars, parkVars, renderOut,
                   clientVars, startVars, owed>>

\* The loop's branches that touch only the thread's own place.
RenderStep ==
    /\ \/ RenderMove("top", "parking") /\ Held
       \/ RenderMove("top", "job") /\ ~Held
       \/ RenderMove("parked", "unparking") /\ ~Held
       \/ RenderMove("job", "idle") /\ submitted = done /\ ~exit
       \/ RenderMove("idle", "top") /\ (exit \/ Held \/ submitted # done)
       \/ RenderMove("job", "exited") /\ submitted = done /\ exit
    /\ UNCHANGED <<hostSide, done, jobs, fifo, fifoWrite, pauseVars, parkVars, renderOut,
                   clientVars, startVars, owed>>

\* m_parked = true; notify() fences, so the store is visible at once.
RenderPark ==
    /\ RenderMove("parking", "parked")
    /\ parked' = TRUE /\ parkedStore' = FALSE
    /\ UNCHANGED <<hostSide, done, jobs, fifo, fifoWrite, pauseVars, renderOut, clientVars,
                   startVars, owed>>

\* Mutant: goes on with a job without looking at m_hold again.
RenderUnparkNoCheck ==
    /\ RenderMove("unparking", "job")
    /\ parkedStore' = StoreBuffer
    /\ parked' = (parked /\ StoreBuffer)
    /\ UNCHANGED <<hostSide, done, jobs, fifo, fifoWrite, pauseVars, renderOut, clientVars,
                   startVars, owed>>

\* m_parked = false, and no fence before the next look at m_hold.
RenderUnpark ==
    /\ RenderMove("unparking", "top")
    /\ parkedStore' = StoreBuffer
    /\ parked' = (parked /\ StoreBuffer)
    /\ UNCHANGED <<hostSide, done, jobs, fifo, fifoWrite, pauseVars, renderOut, clientVars,
                   startVars, owed>>

\* Take the job; the read-modify-write of m_statQueueNs drains the buffer.
RenderTake ==
    /\ RenderMove("job", "render") /\ submitted # done
    /\ jobs' = [jobs EXCEPT ![Slot(done)].midiOut = NoMidi]
    /\ parked' = (parked /\ ~parkedStore) /\ parkedStore' = FALSE
    /\ UNCHANGED <<hostSide, done, fifo, fifoWrite, pauseVars, renderOut, clientVars,
                   startVars, owed>>

\* What the device is still to see once it has seen these events: they must come first.
After(midi, due) ==
    IF Len(midi) <= Len(due) /\ SubSeq(due, 1, Len(midi)) = midi
    THEN SubSeq(due, Len(midi) + 1, Len(due)) ELSE due

\* m_render(): the device renders the block and answers its MIDI.
RenderRender ==
    /\ RenderMove("render", "write")
    /\ renderOut' = jobs[Slot(done)].in
    /\ owed' = After(jobs[Slot(done)].midiIn, owed)
    /\ jobs' = [jobs EXCEPT ![Slot(done)].midiOut = jobs[Slot(done)].in]
    /\ UNCHANGED <<hostSide, done, fifo, fifoWrite, pauseVars, parkVars, clientVars,
                   startVars>>

\* Frames the job on the render thread takes in the FIFO.
Needed == jobs[Slot(done)].gap + jobs[Slot(done)].frames

\* The cells [from, from + n) of the ring.
InRing(i, from, n) == \E k \in 0 .. n - 1 : At(from + k) = i

RenderWrite ==
    /\ RenderMove("write", "publish")
    /\ FifoFrames - Available >= Needed \/ exit
    /\ fifo' = [i \in 0 .. FifoFrames - 1 |->
          LET k == At(i - fifoWrite)    \* the cell's offset from the write position
              gap == jobs[Slot(done)].gap
          IN  IF k >= Needed THEN fifo[i]
              ELSE IF k < gap THEN Silence ELSE renderOut + (k - gap)]
    /\ UNCHANGED <<hostSide, done, jobs, fifoWrite, pauseVars, parkVars, renderOut,
                   clientVars, startVars, owed>>

RenderPublish ==
    /\ RenderMove("publish", "complete")
    /\ fifoWrite' = fifoWrite + Needed
    /\ UNCHANGED <<hostSide, done, jobs, fifo, pauseVars, parkVars, renderOut, clientVars,
                   startVars, owed>>

RenderComplete ==
    /\ RenderMove("complete", "top")
    /\ done' = done + 1
    /\ UNCHANGED <<hostSide, jobs, fifo, fifoWrite, pauseVars, parkVars, renderOut,
                   clientVars, startVars, owed>>

----------------------------------------------------------------------------
(***************************************************************************)
(* The clients: Plugin::pauseDevice() runs finish() and pause() without    *)
(* the plug-in's lock, takes it, works on the device and resumes under it. *)
(***************************************************************************)
renderSide == <<done, jobs, fifo, fifoWrite, render, renderOut, owed>>

ClientMove(c, from, to) == client[c] = from /\ client' = [client EXCEPT ![c] = to]

\* The caller has held the plug-in's lock and let it go by now, at any time before.
ClientFinish(c) ==
    /\ ClientMove(c, "out", "finish")
    /\ target' = [target EXCEPT ![c] = submitted]
    /\ UNCHANGED <<hostSide, renderSide, pauseVars, parkVars, startVars>>

\* Mutant: waits for one block more than was handed over.
ClientFinishedAfter(c) ==
    /\ ClientMove(c, "finish", "finished")
    /\ done > target[c] \/ hold > 0 \/ ~running
    /\ UNCHANGED <<hostSide, renderSide, pauseVars, parkVars, startVars, target>>

ClientFinished(c) ==
    /\ ClientMove(c, "finish", "finished")
    /\ done >= target[c] \/ hold > 0 \/ ~running
    /\ UNCHANGED <<hostSide, renderSide, pauseVars, parkVars, startVars, target>>

ClientPause(c) ==
    /\ ClientMove(c, "finished", "pausing")
    /\ hold' = hold + 1
    /\ UNCHANGED <<hostSide, renderSide, exit, running, parkVars, startVars, target>>

ClientPaused(c) ==
    /\ ClientMove(c, "pausing", "paused")
    /\ parked \/ ~running
    /\ UNCHANGED <<hostSide, renderSide, pauseVars, parkVars, startVars, target>>

ClientEnter(c) ==
    /\ ClientMove(c, "paused", "in") /\ LockFree
    /\ UNCHANGED <<hostSide, renderSide, pauseVars, parkVars, startVars, target>>

ClientResume(c) ==
    /\ ClientMove(c, "in", "out")
    /\ hold' = IF hold > 0 THEN hold - 1 ELSE 0
    /\ UNCHANGED <<hostSide, renderSide, exit, running, parkVars, startVars, target>>

\* stop(): the thread renders every job handed over, pause or not, and exits.
ClientStop(c) ==
    /\ ClientMove(c, "in", "stopping") /\ running
    /\ exit' = TRUE
    /\ UNCHANGED <<hostSide, renderSide, running, hold, parkVars, startVars, target>>

ClientJoined(c) ==
    /\ ClientMove(c, "stopping", "in") /\ render = "exited"
    /\ running' = FALSE /\ parked' = FALSE /\ parkedStore' = FALSE
    /\ jobs' = [s \in Slots |-> [jobs[s] EXCEPT !.midiIn = <<>>, !.midiOut = NoMidi]]
    /\ UNCHANGED <<hostSide, done, fifo, fifoWrite, render, renderOut, owed, exit, hold,
                   startVars, target>>

\* Mutant: the new thread finds the old one's exit request.
ClientStartExiting(c, latency) ==
    /\ client[c] = "in" /\ ~running /\ starts < MaxStarts
    /\ submitted' = 0 /\ done' = 0 /\ harvested' = 0
    /\ gapFrames' = 0 /\ carryMidi' = <<>>
    /\ fifo' = [i \in 0 .. FifoFrames - 1 |-> Silence]
    /\ delay' = Queued(latency)
    /\ fifoRead' = 0 /\ fifoWrite' = Queued(latency)
    /\ parked' = FALSE /\ running' = TRUE
    /\ render' = "top"
    /\ starts' = starts + 1
    /\ blocks' = 0 /\ out' = <<>> /\ dropped' = {} /\ cut' = 0
    /\ handed' = <<>> /\ midiGiven' = <<>>
    /\ owed' = SubSeq(owed, 1, Len(owed) - unsent) /\ unsent' = 0
    /\ UNCHANGED <<exit, jobs, hold, parkedStore, host, renderOut, clientVars>>

\* start(): the audio's history starts over with the positions.  What is owed does not: only
\* the MIDI of the blocks dropped since the last one handed over, which m_carryMidi.clear()
\* discards, is owed no more.
ClientStart(c, latency) ==
    /\ client[c] = "in" /\ ~running /\ starts < MaxStarts
    /\ submitted' = 0 /\ done' = 0 /\ harvested' = 0
    /\ gapFrames' = 0 /\ carryMidi' = <<>>
    /\ fifo' = [i \in 0 .. FifoFrames - 1 |-> Silence]
    /\ delay' = Queued(latency)
    /\ fifoRead' = 0 /\ fifoWrite' = Queued(latency)
    /\ exit' = FALSE /\ parked' = FALSE /\ running' = TRUE
    /\ render' = "top"
    /\ starts' = starts + 1
    /\ blocks' = 0 /\ out' = <<>> /\ dropped' = {} /\ cut' = 0
    /\ handed' = <<>> /\ midiGiven' = <<>>
    /\ owed' = SubSeq(owed, 1, Len(owed) - unsent) /\ unsent' = 0
    /\ UNCHANGED <<jobs, hold, parkedStore, host, renderOut, clientVars>>

----------------------------------------------------------------------------
HostStep ==
    \/ HostWaitSlot \/ HostDrop \/ HostFill \/ HostPublish \/ HostTake \/ HostCopy

HostNext == HostStep \/ \E f \in FrameSizes, rt \in BOOLEAN : HostEnter(f, rt)

RenderNext ==
    \/ RenderStep \/ RenderPark \/ RenderUnpark \/ RenderTake \/ RenderRender
    \/ RenderWrite \/ RenderPublish \/ RenderComplete

ClientWait(c) == ClientFinished(c) \/ ClientPause(c) \/ ClientPaused(c)
ClientWork(c) == ClientResume(c) \/ ClientJoined(c)

ClientNext(c) ==
    \/ ClientFinish(c) \/ ClientWait(c) \/ ClientEnter(c) \/ ClientWork(c)
    \/ ClientStop(c) \/ \E l \in Latencies : ClientStart(c, l)

Next == HostNext \/ RenderNext \/ RenderFlush \/ \E c \in Clients : ClientNext(c)

Spec == Init /\ [][Next]_vars

(***************************************************************************)
(* The operating system runs every thread: a call under way, the render    *)
(* loop, a client's waits and the work inside a scope go on.  Nobody has   *)
(* to call process() or to pause the device; the mutex is not fair, yet a  *)
(* client that can take it again and again takes it at last.               *)
(***************************************************************************)
Fairness ==
    /\ WF_vars(HostStep)
    /\ WF_vars(RenderNext)
    /\ WF_vars(RenderFlush)
    /\ \A c \in Clients : WF_vars(ClientWait(c)) /\ WF_vars(ClientWork(c))
                          /\ SF_vars(ClientEnter(c))

FairSpec == Spec /\ Fairness

----------------------------------------------------------------------------
(***************************************************************************)
(* Properties                                                              *)
(***************************************************************************)
HostPlaces == {"idle", "slot", "publish", "audio", "copy"}
RenderPlaces == {"top", "parking", "parked", "unparking", "job", "idle", "exited",
                 "render", "write", "publish", "complete"}
ClientPlaces == {"out", "finish", "finished", "pausing", "paused", "in", "stopping"}

\* Every variable holds a value of its type.
TypeOK ==
    /\ submitted \in Nat /\ done \in Nat /\ harvested \in Nat
    /\ gapFrames \in Nat /\ carryMidi \in Seq(Nat)
    /\ jobs \in [Slots -> Job]
    /\ fifo \in [0 .. FifoFrames - 1 -> Frame]
    /\ fifoRead \in Nat /\ fifoWrite \in Nat
    /\ exit \in BOOLEAN /\ running \in BOOLEAN /\ hold \in Nat
    /\ parked \in BOOLEAN /\ parkedStore \in BOOLEAN
    /\ host \in [pc : HostPlaces, frames : FrameSizes \cup {0}, realtime : BOOLEAN,
                 available : Nat]
    /\ render \in RenderPlaces /\ renderOut \in Nat
    /\ client \in [Clients -> ClientPlaces]
    /\ target \in [Clients -> Nat]
    /\ blocks \in Nat /\ starts \in Nat /\ delay \in Nat
    /\ out \in Seq(Frame)
    /\ handed \in Seq(Nat) /\ midiGiven \in Seq(Nat \cup {NoMidi})
    /\ owed \in Seq(Nat) /\ unsent \in Nat
    /\ dropped \subseteq Nat /\ cut \in Nat

OnDevice == {"render", "write", "publish", "complete"}

\* A client that holds the device and did not ask it to stop has it alone: the
\* render thread is not rendering (mdasyncrender.h: "a pause holds the render
\* thread between two blocks until the matching resume(); pauses nest").
PauseExcludesRender ==
    \A c \in Clients : client[c] = "in" => render \notin OnDevice

\* The host never fills the slot the render thread reads, nor one whose MIDI
\* output was not collected: a slot is reused only once it was harvested.
SlotReuse ==
    /\ host.pc = "publish" /\ render \in OnDevice => Slot(submitted) # Slot(done)
    /\ host.pc = "publish" => jobs[Slot(submitted)].midiOut = NoMidi

\* The FIFO never makes the render thread wait: "it only fills up if the host
\* stops calling" never comes true, whatever the latency, the gap and the pauses.
FifoHasRoom ==
    render = "write" => Available + Needed <= FifoFrames

\* The host never copies a cell of the FIFO the render thread is writing.
FifoNoRace ==
    host.pc = "copy" /\ render = "write" =>
        \A i \in 0 .. FifoFrames - 1 :
            ~(InRing(i, fifoRead, host.available) /\ InRing(i, fifoWrite, Needed))

\* What the host should play at position i of its stream.
Expected(i) ==
    IF i < delay \/ i - delay \in dropped THEN Silence ELSE i - delay

\* The queued audio is the host's input delayed by exactly the latency, with
\* silence where a block was dropped, as long as the gap's cap cut nothing.
FifoContent ==
    cut = 0 => \A i \in fifoRead .. fifoWrite - 1 : fifo[At(i)] = Expected(i)

\* What the host played is its input, late by exactly the latency the plug-in
\* reports, or silence; never another frame.
OutputDelayed ==
    cut = 0 => \A i \in DOMAIN out :
        out[i] \in {Silence, fifoRead - Len(out) + (i - 1) - delay}

\* MIDI handed over but not rendered yet, oldest first.
PendingMidi ==
    LET first == done + (IF render \in {"write", "publish", "complete"} THEN 1 ELSE 0)
        last == submitted + (IF host.pc = "publish" THEN 1 ELSE 0)
        Of[k \in first .. last] ==
            IF k = last THEN <<>> ELSE jobs[Slot(k)].midiIn \o Of[k + 1]
    IN  Of[first]

\* The MIDI in the ring, the MIDI carried from dropped blocks and that of the call under way
\* are what the host gave and the device has not seen: every event reaches it once, in order,
\* whatever blocks are dropped ("Its MIDI goes with the next block") and however often the
\* thread is restarted.  One loss is left out: a restart discards the events of blocks dropped
\* with no block handed over after them (`unsent`, m_carryMidi.clear() in start()).
MidiInOrder ==
    PendingMidi \o carryMidi \o (IF host.pc = "slot" THEN <<blocks>> ELSE <<>>) = owed

\* Between two starts every rendered block's MIDI leaves once, in the order of the blocks.
\* What was rendered and not collected when the thread is stopped is discarded: stop()
\* "drops the queue" (mdasyncrender.h).
MidiOutOrder ==
    midiGiven = SubSeq(handed, 1, harvested)

\* A process() call that waits for a slot gets one or drops its block, and one that hands
\* its block over returns: the audio it waits for offline comes, or a pause parks the render
\* thread.  (Once the gap's cap has cut more frames than the latency, the host is ahead for
\* good and an offline call waits for ever.)
ProcessReturns ==
    /\ host.pc = "slot" ~> host.pc # "slot"
    /\ (host.pc = "publish" /\ cut <= delay) ~> host.pc = "idle"

\* Every process() call returns: it "does not wait for audio that cannot come"
\* (mdasyncrender.h).  A call that drops its block because the render thread is parked, and
\* finds it on its way out of the pause a moment later, does.
EveryProcessReturns == host.pc # "idle" ~> host.pc = "idle"

\* pause() returns.
PauseReturns == \A c \in Clients : client[c] = "pausing" ~> client[c] = "paused"

\* finish() returns "once the blocks handed over before the call are rendered, or at once
\* while a pause holds" (mdasyncrender.h), if the thread running was handed those blocks and
\* is not restarted under the call: finish() compares a position with counters start() resets.
FinishReturnsOrRestart ==
    \A c \in Clients, n \in 0 .. MaxStarts :
        client[c] = "finish" /\ target[c] <= submitted /\ starts = n
            ~> client[c] = "finished" \/ starts # n

\* Once no pause is taken any more, the render thread catches up and no wake-up is lost.
RenderCatchesUp == <>[](hold = 0) => []<>(submitted = done)

=============================================================================
