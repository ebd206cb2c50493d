-------------------------- MODULE AsyncRenderProofs --------------------------
(***************************************************************************)
(* Theorems about AsyncRender, for every value of its constants.           *)
(***************************************************************************)
EXTENDS AsyncRender, RingArithmetic, FiniteSetTheorems, TLAPS

----------------------------------------------------------------------------
(***************************************************************************)
(* The ring indices                                                        *)
(***************************************************************************)

\* A job index names a slot of the ring.
LEMMA SlotType == \A k \in Int : Slot(k) \in Slots
BY JobCountAssumption DEF Slot, Slots

\* A FIFO position names a cell of the ring.
LEMMA AtType == \A i \in Int : At(i) \in 0 .. FifoFrames - 1 /\ At(i) \in Nat
BY FifoFramesAssumption DEF At

----------------------------------------------------------------------------
(***************************************************************************)
(* Types                                                                   *)
(***************************************************************************)

\* Block sizes are counted in frames; two of them fit in the FIFO.
LEMMA FrameSizesType == \A f \in FrameSizes \cup {0} : f \in Nat /\ 2 * f <= FifoFrames
BY FrameSizesAssumption, FifoFramesAssumption

\* The host's block and the job on the render thread have a size.
LEMMA SizesType ==
    ASSUME TypeOK
    PROVE  /\ host.frames \in Nat
           /\ \A k \in Nat : /\ jobs[Slot(k)] \in Job
                             /\ jobs[Slot(k)].in \in Nat
                             /\ jobs[Slot(k)].frames \in Nat
                             /\ jobs[Slot(k)].gap \in Nat
<1>1. host.frames \in FrameSizes \cup {0}
  BY DEF TypeOK
<1>2. ASSUME NEW k \in Nat
      PROVE  /\ jobs[Slot(k)] \in Job
             /\ jobs[Slot(k)].in \in Nat
             /\ jobs[Slot(k)].frames \in FrameSizes \cup {0}
             /\ jobs[Slot(k)].gap \in Nat
  <2>1. Slot(k) \in Slots
    BY SlotType
  <2>2. jobs[Slot(k)] \in Job
    BY <2>1 DEF TypeOK
  <2> QED BY <2>2 DEF Job
<1> QED BY <1>1, <1>2, FrameSizesType

\* harvest() leaves the ring and the MIDI history well typed.
LEMMA HarvestType ==
    ASSUME TypeOK, Harvest
    PROVE  /\ harvested' \in Nat
           /\ midiGiven' \in Seq(Nat \cup {NoMidi})
           /\ jobs' \in [Slots -> Job]
<1>0. /\ done \in Nat /\ harvested \in Nat
      /\ jobs \in [Slots -> Job] /\ midiGiven \in Seq(Nat \cup {NoMidi})
  BY DEF TypeOK
<1>1. harvested' \in Nat
  BY <1>0 DEF Harvest
<1>2. midiGiven' \in Seq(Nat \cup {NoMidi})
  <2> DEFINE given == [i \in 1 .. done - harvested |-> jobs[Slot(harvested + i - 1)].midiOut]
  <2>1. \A i \in 1 .. done - harvested : given[i] \in Nat \cup {NoMidi}
    <3>1. TAKE i \in 1 .. done - harvested
    <3>2. Slot(harvested + i - 1) \in Slots
      BY <1>0, SlotType
    <3> QED BY <1>0, <3>2 DEF Job
  <2>2. given \in Seq(Nat \cup {NoMidi})
    <3>1. CASE done - harvested \in Nat
      BY <2>1, <3>1
    <3>2. CASE done - harvested \notin Nat
      <4>1. given = <<>>
        <5>1. 1 .. done - harvested = {}
          BY <1>0, <3>2
        <5> QED BY <5>1
      <4> HIDE DEF given
      <4> QED BY <4>1
    <3> QED BY <3>1, <3>2
  <2>3. midiGiven' = midiGiven \o given
    BY DEF Harvest
  <2> HIDE DEF given
  <2> QED BY <1>0, <2>2, <2>3
<1>3. jobs' \in [Slots -> Job]
  <2>1. ASSUME NEW s \in Slots
        PROVE  jobs[s] \in Job /\ [jobs[s] EXCEPT !.midiOut = NoMidi] \in Job
    BY <1>0 DEF Job
  <2> QED BY <2>1 DEF Harvest
<1> QED BY <1>1, <1>2, <1>3

LEMMA TypeInit == Init => TypeOK
<1> SUFFICES ASSUME Init PROVE TypeOK
  OBVIOUS
<1>1. delay \in Nat
  BY FifoFramesAssumption, LatenciesAssumption DEF Init, Queued, Smaller
<1>2. EmptyJob \in Job /\ Silence \in Frame
  BY DEF EmptyJob, Job, Frame
<1>3. jobs \in [Slots -> Job] /\ fifo \in [0 .. FifoFrames - 1 -> Frame]
  BY <1>2 DEF Init
<1>4. /\ host \in [pc : HostPlaces, frames : FrameSizes \cup {0}, realtime : BOOLEAN,
                  available : Nat]
      /\ render \in RenderPlaces /\ renderOut \in Nat
  BY DEF Init, HostIdle, HostPlaces, RenderPlaces
<1>5. client \in [Clients -> ClientPlaces] /\ target \in [Clients -> Nat]
  BY DEF Init, ClientPlaces
<1>6. /\ carryMidi \in Seq(Nat) /\ out \in Seq(Frame) /\ handed \in Seq(Nat)
      /\ owed \in Seq(Nat) /\ midiGiven \in Seq(Nat \cup {NoMidi})
  BY DEF Init
<1> QED BY <1>1, <1>3, <1>4, <1>5, <1>6 DEF Init, TypeOK

HostType == [pc : HostPlaces, frames : FrameSizes \cup {0}, realtime : BOOLEAN,
             available : Nat]

\* A step of the host's thread keeps the types.
LEMMA TypeHost == TypeOK /\ HostNext => TypeOK'
<1> SUFFICES ASSUME TypeOK, HostNext PROVE TypeOK'
  OBVIOUS
<1> USE DEF cursors, hostData, pauseVars, parkVars, clientVars, startVars
<1>0. host \in HostType /\ host.frames \in Nat /\ HostIdle \in HostType
  BY SizesType DEF TypeOK, HostType, HostIdle, HostPlaces
<1>1. ASSUME NEW f \in FrameSizes, NEW rt \in BOOLEAN, HostEnter(f, rt) PROVE TypeOK'
  <2>1. Harvest
    BY <1>1 DEF HostEnter
  <2>2. host' \in HostType
    BY <1>1 DEF HostEnter, HostIdle, HostType, HostPlaces
  <2>3. blocks \in Nat /\ blocks' = blocks + 1
    BY <1>1 DEF HostEnter, TypeOK
  <2>4. blocks' \in Nat
    BY <2>3
  <2>5. owed' \in Seq(Nat)
    BY <1>1, <2>4 DEF HostEnter, TypeOK
  <2> QED BY <1>1, <2>1, <2>2, <2>4, <2>5, HarvestType DEF HostEnter, TypeOK, HostType
<1>2. CASE HostWaitSlot
  <2>1. Harvest
    BY <1>2 DEF HostWaitSlot
  <2> QED BY <1>2, <2>1, HarvestType DEF HostWaitSlot, TypeOK
<1>3. CASE HostDrop
  <2>1. gapFrames' \in Nat /\ cut' \in Nat
    <3>1. /\ gapFrames' = Smaller(gapFrames + host.frames, FifoFrames \div 2)
          /\ cut' = cut + (gapFrames + host.frames - gapFrames')
      BY <1>3 DEF HostDrop
    <3>2. gapFrames \in Nat /\ cut \in Nat /\ FifoFrames \div 2 \in Nat
      BY FifoFramesAssumption DEF TypeOK
    <3> QED BY <1>0, <3>1, <3>2 DEF Smaller
  <2>2. dropped' \subseteq Nat
    <3>1. dropped' = dropped \cup fifoRead .. fifoRead + host.frames - 1
      BY <1>3 DEF HostDrop
    <3>2. dropped \subseteq Nat /\ fifoRead \in Nat
      BY DEF TypeOK
    <3>3. fifoRead .. fifoRead + host.frames - 1 \subseteq Nat
      BY <1>0, <3>2
    <3> QED BY <3>1, <3>2, <3>3
  <2>3. carryMidi' \in Seq(Nat)
    BY <1>3 DEF HostDrop, TypeOK
  <2>4. host' \in HostType
    BY <1>0, <1>3 DEF HostDrop, HostType, HostPlaces
  <2>5. unsent' \in Nat
    <3>1. unsent \in Nat /\ unsent' = unsent + 1
      BY <1>3 DEF HostDrop, TypeOK
    <3> QED BY <3>1
  <2> QED BY <1>3, <2>1, <2>2, <2>3, <2>4, <2>5 DEF HostDrop, TypeOK, HostType
<1>4. CASE HostFill
  <2>1. Slot(submitted) \in Slots
    BY SlotType DEF TypeOK
  <2>2. jobs' \in [Slots -> Job]
    <3>1. Append(carryMidi, blocks) \in Seq(Nat)
      BY DEF TypeOK
    <3> QED BY <1>0, <1>4, <2>1, <3>1 DEF HostFill, TypeOK, HostType, Job
  <2>3. handed' \in Seq(Nat)
    BY <1>4 DEF HostFill, TypeOK
  <2>4. host' \in HostType
    BY <1>0, <1>4 DEF HostFill, HostType, HostPlaces
  <2>5. carryMidi' \in Seq(Nat) /\ gapFrames' \in Nat /\ unsent' \in Nat
    BY <1>4 DEF HostFill
  <2>6. UNCHANGED <<cursors, blocks, out, midiGiven, dropped, cut, fifo, fifoRead, fifoWrite,
                    pauseVars, parkVars, render, renderOut, clientVars, startVars, owed>>
    BY <1>4 DEF HostFill
  <2> QED BY <2>2, <2>3, <2>4, <2>5, <2>6 DEF TypeOK, HostType
<1>5. CASE HostPublish
  <2>1. host' \in HostType
    BY <1>0, <1>5 DEF HostPublish, HostType, HostPlaces
  <2>2. submitted' \in Nat
    <3>1. submitted \in Nat
      BY DEF TypeOK
    <3>2. submitted' = submitted + 1
      BY <1>5 DEF HostPublish
    <3> QED BY <3>1, <3>2
  <2>3. UNCHANGED <<done, harvested, hostData, jobs, fifo, fifoRead, fifoWrite, pauseVars,
                    parkVars, render, renderOut, clientVars, startVars, owed>>
    BY <1>5 DEF HostPublish
  <2> QED BY <2>1, <2>2, <2>3 DEF TypeOK, HostType
<1>6. CASE HostTake
  <2>1. Smaller(Available, host.frames) \in Nat
    BY <1>0 DEF Smaller, Available, TypeOK
  <2>2. host' \in HostType
    BY <1>0, <1>6, <2>1 DEF HostTake, HostType, HostPlaces
  <2>3. UNCHANGED <<cursors, hostData, jobs, fifo, fifoRead, fifoWrite, pauseVars, parkVars,
                    render, renderOut, clientVars, startVars, owed>>
    BY <1>6 DEF HostTake
  <2> QED BY <2>2, <2>3 DEF TypeOK, HostType
<1>7. CASE HostCopy
  <2>1. Harvest
    BY <1>7 DEF HostCopy
  <2>2. out' \in Seq(Frame)
    <3>1. ASSUME NEW i \in 1 .. host.frames
          PROVE  At(fifoRead + i - 1) \in 0 .. FifoFrames - 1
      <4>1. fifoRead + i - 1 \in Int
        BY <1>0 DEF TypeOK
      <4> QED BY <4>1, AtType
    <3>2. \A i \in 1 .. host.frames : fifo[At(fifoRead + i - 1)] \in Frame
      BY <3>1 DEF TypeOK
    <3> QED BY <1>0, <1>7, <3>2 DEF HostCopy, Frame
  <2>3. fifoRead' \in Nat
    BY <1>0, <1>7 DEF HostCopy, TypeOK
  <2> QED BY <1>0, <1>7, <2>1, <2>2, <2>3, HarvestType DEF HostCopy, TypeOK, HostType
<1> QED BY <1>1, <1>2, <1>3, <1>4, <1>5, <1>6, <1>7 DEF HostNext, HostStep

\* What is still due after some events is a sequence of events.
LEMMA AfterType ==
    ASSUME NEW midi \in Seq(Nat), NEW due \in Seq(Nat)
    PROVE  After(midi, due) \in Seq(Nat)
<1>1. CASE Len(midi) <= Len(due)
  <2>1. Len(midi) + 1 \in Nat /\ Len(due) \in Nat
    OBVIOUS
  <2>2. \A i \in Len(midi) + 1 .. Len(due) : i \in 1 .. Len(due)
    BY <2>1
  <2>3. SubSeq(due, Len(midi) + 1, Len(due)) \in Seq(Nat)
    BY <2>1, <2>2
  <2> QED BY <2>3 DEF After
<1>2. CASE ~(Len(midi) <= Len(due))
  BY <1>2 DEF After
<1> QED BY <1>1, <1>2

\* A step of the render thread keeps the types.
LEMMA TypeRender == TypeOK /\ (RenderNext \/ RenderFlush) => TypeOK'
<1> SUFFICES ASSUME TypeOK, RenderNext \/ RenderFlush PROVE TypeOK'
  OBVIOUS
<1> USE DEF TypeOK, hostSide, hostData, pauseVars, clientVars, startVars, RenderMove,
            RenderPlaces
<1>1. CASE RenderFlush
  BY <1>1 DEF RenderFlush
<1>2. CASE RenderStep
  BY <1>2 DEF RenderStep, parkVars
<1>3. CASE RenderPark
  BY <1>3 DEF RenderPark
<1>4. CASE RenderUnpark
  BY <1>4, StoreBufferAssumption DEF RenderUnpark
<1>5. Slot(done) \in Slots
  BY SlotType
<1>6. CASE RenderTake
  BY <1>5, <1>6 DEF RenderTake, Job
<1>7. CASE RenderRender
  <2>1. owed' \in Seq(Nat)
    <3>1. PICK midi : midi = jobs[Slot(done)].midiIn
      OBVIOUS
    <3>2. midi \in Seq(Nat) /\ owed \in Seq(Nat)
      BY <1>5, <3>1 DEF Job
    <3>3. owed' = After(midi, owed)
      BY <1>7, <3>1 DEF RenderRender
    <3> QED BY <3>2, <3>3, AfterType
  <2>2. jobs' \in [Slots -> Job]
    <3>1. PICK s, j : s = Slot(done) /\ j = jobs[s]
      OBVIOUS
    <3>2. s \in Slots /\ j \in Job /\ j.in \in Nat
      BY <1>5, <3>1, SizesType
    <3>3. [j EXCEPT !.midiOut = j.in] \in Job
      BY <3>2 DEF Job
    <3>4. jobs' = [jobs EXCEPT ![s] = [j EXCEPT !.midiOut = j.in]]
      BY <1>7, <3>1 DEF RenderRender
    <3> QED BY <3>2, <3>3, <3>4
  <2>3. renderOut' \in Nat
    BY <1>5, <1>7 DEF RenderRender, Job
  <2> QED BY <1>7, <2>1, <2>2, <2>3 DEF RenderRender, parkVars
<1>8. jobs[Slot(done)].gap \in Nat /\ jobs[Slot(done)].frames \in Nat /\ Needed \in Nat
  <2>1. done \in Nat
    OBVIOUS
  <2>2. jobs[Slot(done)].gap \in Nat /\ jobs[Slot(done)].frames \in Nat
    BY <2>1, SizesType
  <2>3. PICK g \in Nat, f \in Nat : g = jobs[Slot(done)].gap /\ f = jobs[Slot(done)].frames
    BY <2>2
  <2>4. Needed = g + f
    BY <2>3 DEF Needed
  <2> QED BY <2>2, <2>4
<1>9. CASE RenderWrite
  <2>1. \A i \in 0 .. FifoFrames - 1 : fifo'[i] \in Frame
    <3>1. TAKE i \in 0 .. FifoFrames - 1
    <3>2. At(i - fifoWrite) \in Nat
      <4>1. i - fifoWrite \in Int
        OBVIOUS
      <4> HIDE DEF TypeOK
      <4> QED BY <4>1, AtType
    <3> DEFINE k == At(i - fifoWrite)
               gap == jobs[Slot(done)].gap
    <3>3. fifo'[i] = IF k >= Needed THEN fifo[i]
                     ELSE IF k < gap THEN Silence ELSE renderOut + (k - gap)
      BY <1>9 DEF RenderWrite
    <3>4. k \in Nat /\ gap \in Nat /\ renderOut \in Nat /\ fifo[i] \in Frame
      BY <1>8, <3>2
    <3> HIDE DEF k, gap, TypeOK
    <3> QED BY <3>3, <3>4 DEF Frame
  <2>2. fifo' \in [0 .. FifoFrames - 1 -> Frame]
    BY <1>9, <2>1 DEF RenderWrite
  <2> QED BY <1>9, <2>2 DEF RenderWrite, parkVars
<1>10. CASE RenderPublish
  BY <1>8, <1>10 DEF RenderPublish, parkVars
<1>11. CASE RenderComplete
  BY <1>11 DEF RenderComplete, parkVars
<1> QED BY <1>1, <1>2, <1>3, <1>4, <1>6, <1>7, <1>9, <1>10, <1>11 DEF RenderNext

\* A step of a client keeps the types.
LEMMA TypeClient == ASSUME TypeOK, NEW c \in Clients, ClientNext(c) PROVE TypeOK'
<1> USE DEF TypeOK, hostSide, hostData, renderSide, parkVars, startVars, ClientMove,
            ClientPlaces
<1>1. CASE ClientFinish(c)
  BY <1>1 DEF ClientFinish, pauseVars
<1>2. CASE ClientFinished(c)
  BY <1>2 DEF ClientFinished, pauseVars
<1>3. CASE ClientPause(c)
  BY <1>3 DEF ClientPause
<1>4. CASE ClientPaused(c)
  BY <1>4 DEF ClientPaused, pauseVars
<1>5. CASE ClientEnter(c)
  BY <1>5 DEF ClientEnter, pauseVars
<1>6. CASE ClientResume(c)
  BY <1>6 DEF ClientResume
<1>7. CASE ClientStop(c)
  BY <1>7 DEF ClientStop
<1>8. CASE ClientJoined(c)
  <2>1. jobs' \in [Slots -> Job]
    <3>1. ASSUME NEW s \in Slots
          PROVE  [jobs[s] EXCEPT !.midiIn = <<>>, !.midiOut = NoMidi] \in Job
      <4>1. jobs[s] \in Job
        OBVIOUS
      <4>2. <<>> \in Seq(Nat) /\ NoMidi \in Nat \cup {NoMidi}
        OBVIOUS
      <4> HIDE DEF TypeOK, NoMidi
      <4> QED BY <4>1, <4>2 DEF Job
    <3> QED BY <1>8, <3>1 DEF ClientJoined
  <2>2. client' \in [Clients -> ClientPlaces]
    BY <1>8 DEF ClientJoined
  <2>3. /\ running' \in BOOLEAN /\ parked' \in BOOLEAN /\ parkedStore' \in BOOLEAN
        /\ UNCHANGED <<hostSide, done, fifo, fifoWrite, render, renderOut, owed, exit, hold,
                       startVars, target>>
    BY <1>8 DEF ClientJoined
  <2> QED BY <2>1, <2>2, <2>3
<1>9. ASSUME NEW l \in Latencies, ClientStart(c, l) PROVE TypeOK'
  <2>1. Queued(l) \in Nat
    BY LatenciesAssumption, FifoFramesAssumption DEF Queued, Smaller
  <2>2. fifo' \in [0 .. FifoFrames - 1 -> Frame]
    BY <1>9 DEF ClientStart, Frame
  <2>3. /\ submitted' \in Nat /\ done' \in Nat /\ harvested' \in Nat /\ gapFrames' \in Nat
        /\ fifoRead' \in Nat /\ fifoWrite' \in Nat /\ delay' \in Nat
        /\ blocks' \in Nat /\ cut' \in Nat /\ starts' \in Nat /\ dropped' \subseteq Nat
    BY <1>9, <2>1 DEF ClientStart
  <2>6. /\ carryMidi' \in Seq(Nat) /\ out' \in Seq(Frame) /\ handed' \in Seq(Nat)
        /\ midiGiven' \in Seq(Nat \cup {NoMidi}) /\ unsent' = 0
    BY <1>9 DEF ClientStart
  <2>7. owed' \in Seq(Nat)
    <3>1. PICK n : n = Len(owed) - unsent
      OBVIOUS
    <3>2. n \in Int /\ n <= Len(owed) /\ owed \in Seq(Nat) /\ Len(owed) \in Nat
      BY <3>1
    <3>3. \A i \in 1 .. n : i \in 1 .. Len(owed)
      BY <3>2
    <3>4. SubSeq(owed, 1, n) \in Seq(Nat)
      <4> HIDE DEF TypeOK
      <4> QED BY <3>2, <3>3
    <3> QED BY <1>9, <3>1, <3>4 DEF ClientStart
  <2>4. exit' = FALSE /\ parked' = FALSE /\ running' = TRUE /\ render' \in RenderPlaces
    BY <1>9 DEF ClientStart, RenderPlaces
  <2>5. UNCHANGED <<jobs, hold, parkedStore, host, renderOut, client, target>>
    BY <1>9 DEF ClientStart, clientVars
  <2> QED BY <2>2, <2>3, <2>4, <2>5, <2>6, <2>7
<1> QED
  BY <1>1, <1>2, <1>3, <1>4, <1>5, <1>6, <1>7, <1>8, <1>9
     DEF ClientNext, ClientWait, ClientWork

\* Every reachable state is well typed: no counter of the code wraps below zero
\* and no index leaves its ring, whatever the sizes, the latencies and the threads.
THEOREM TypeCorrect == Spec => []TypeOK
<1>1. TypeOK /\ [Next]_vars => TypeOK'
  <2> SUFFICES ASSUME TypeOK, [Next]_vars PROVE TypeOK'
    OBVIOUS
  <2>1. CASE UNCHANGED vars
    BY <2>1 DEF TypeOK, vars, cursors, hostData, pauseVars, parkVars, clientVars, startVars
  <2> QED BY <2>1, TypeHost, TypeRender, TypeClient DEF Next
<1> QED BY <1>1, TypeInit, PTL DEF Spec

----------------------------------------------------------------------------
(***************************************************************************)
(* The pause protocol, on a machine without store buffers                  *)
(***************************************************************************)

\* The clients whose pause is counted in hold.
Holding == {c \in Clients : client[c] \in {"pausing", "paused", "in", "stopping"}}

\* What makes the pause hold: hold counts the pauses under way; parked is seen
\* only while the thread is in the branch that looks at hold again on its way
\* out; and once a client has seen it, the thread stays before that look.
PauseInv ==
    /\ hold = Cardinality(Holding)
    /\ ~parkedStore
    /\ \A c, d \in Clients : InScope(c) /\ InScope(d) => c = d
    /\ exit => render = "exited" \/ \E c \in Clients : client[c] = "stopping"
    /\ render = "exited" => exit
    /\ ~running => render = "exited"
    /\ parked => render \in {"parked", "unparking"}
    /\ \A c \in Clients : client[c] \in {"paused", "in"} =>
          exit \/ render \in {"top", "parking", "parked", "unparking"}

LEMMA PauseInit == Init => PauseInv
<1> SUFFICES ASSUME Init PROVE PauseInv
  OBVIOUS
<1>1. Holding = {}
  BY DEF Init, Holding
<1>2. Cardinality(Holding) = 0
  BY <1>1, FS_EmptySet
<1> QED BY <1>2 DEF Init, PauseInv, InScope

\* A pause under way is counted.
LEMMA HoldPositive ==
    ASSUME PauseInv, NEW c \in Holding
    PROVE  hold > 0
<1>1. IsFiniteSet(Holding)
  BY ClientsAssumption, FS_Subset DEF Holding
<1>2. Cardinality(Holding) \in Nat /\ Cardinality(Holding) # 0
  BY <1>1, FS_CardinalityType, FS_EmptySet
<1> QED BY <1>2 DEF PauseInv

LEMMA PauseHost == ASSUME PauseInv, TypeOK, HostNext PROVE PauseInv'
<1>1. UNCHANGED <<pauseVars, parkVars, render, client>>
  BY DEF HostNext, HostStep, HostEnter, HostWaitSlot, HostDrop, HostFill, HostPublish,
         HostTake, HostCopy, clientVars
<1> QED BY <1>1 DEF PauseInv, Holding, InScope, pauseVars, parkVars

LEMMA PauseRender ==
    ASSUME ~StoreBuffer, PauseInv, TypeOK, RenderNext \/ RenderFlush
    PROVE  PauseInv'
<1>1. ~RenderFlush
  BY DEF RenderFlush, PauseInv
<1>2. UNCHANGED <<pauseVars, client>>
  BY <1>1 DEF RenderNext, RenderStep, RenderPark, RenderUnpark, RenderTake, RenderRender,
              RenderWrite, RenderPublish, RenderComplete, clientVars
<1>3. /\ Holding' = Holding /\ hold' = hold /\ exit' = exit /\ running' = running
      /\ \A c \in Clients : InScope(c)' = InScope(c)
  BY <1>2 DEF Holding, InScope, pauseVars
<1>4. ASSUME NEW c \in Clients, client[c] \in {"paused", "in"}, ~exit PROVE Held
  <2>1. c \in Holding
    BY <1>4 DEF Holding
  <2> QED BY <1>4, <2>1, HoldPositive DEF Held
<1>5. render # "exited"
  BY <1>1 DEF RenderNext, RenderStep, RenderPark, RenderUnpark, RenderTake, RenderRender,
              RenderWrite, RenderPublish, RenderComplete, RenderMove
<1>6. CASE RenderStep
  BY <1>2, <1>3, <1>4, <1>5, <1>6 DEF RenderStep, RenderMove, PauseInv, parkVars
<1>7. CASE RenderPark
  BY <1>2, <1>3, <1>5, <1>7 DEF RenderPark, RenderMove, PauseInv
<1>8. CASE RenderUnpark
  BY <1>2, <1>3, <1>5, <1>8 DEF RenderUnpark, RenderMove, PauseInv
<1>9. CASE RenderTake
  BY <1>2, <1>3, <1>5, <1>9 DEF RenderTake, RenderMove, PauseInv
<1>10. CASE RenderRender \/ RenderWrite \/ RenderPublish \/ RenderComplete
  BY <1>2, <1>3, <1>5, <1>10
     DEF RenderRender, RenderWrite, RenderPublish, RenderComplete, RenderMove, PauseInv, parkVars
<1> QED BY <1>1, <1>6, <1>7, <1>8, <1>9, <1>10 DEF RenderNext

LEMMA PauseClient ==
    ASSUME PauseInv, TypeOK, NEW c \in Clients, ClientNext(c)
    PROVE  PauseInv'
<1> USE DEF ClientMove
<1>0. IsFiniteSet(Holding) /\ client \in [Clients -> ClientPlaces]
  BY ClientsAssumption, FS_Subset DEF Holding, TypeOK
<1>1. CASE ClientFinish(c) \/ ClientFinished(c)
  <2>1. Holding' = Holding
    BY <1>0, <1>1 DEF ClientFinish, ClientFinished, Holding
  <2> QED BY <1>0, <1>1, <2>1
      DEF ClientFinish, ClientFinished, PauseInv, InScope, renderSide, pauseVars, parkVars
<1>2. CASE ClientPause(c)
  <2>1. Holding' = Holding \cup {c} /\ c \notin Holding
    BY <1>0, <1>2 DEF ClientPause, Holding
  <2>2. Cardinality(Holding') = Cardinality(Holding) + 1
    BY <1>0, <2>1, FS_AddElement
  <2> QED BY <1>0, <1>2, <2>2 DEF ClientPause, PauseInv, InScope, renderSide, parkVars
<1>3. CASE ClientPaused(c)
  <2>1. Holding' = Holding
    BY <1>0, <1>3 DEF ClientPaused, Holding
  <2>2. exit \/ render \in {"top", "parking", "parked", "unparking"}
    BY <1>3 DEF ClientPaused, PauseInv
  <2> QED BY <1>0, <1>3, <2>1, <2>2
      DEF ClientPaused, PauseInv, InScope, renderSide, pauseVars, parkVars
<1>4. CASE ClientEnter(c)
  <2>1. Holding' = Holding
    BY <1>0, <1>4 DEF ClientEnter, Holding
  <2> QED BY <1>0, <1>4, <2>1
      DEF ClientEnter, LockFree, PauseInv, InScope, renderSide, pauseVars, parkVars
<1>5. CASE ClientResume(c)
  <2>1. Holding' = Holding \ {c} /\ c \in Holding
    BY <1>0, <1>5 DEF ClientResume, Holding
  <2>2. Cardinality(Holding') = Cardinality(Holding) - 1
    BY <1>0, <2>1, FS_RemoveElement
  <2>3. hold > 0
    BY <2>1, HoldPositive
  <2> QED BY <1>0, <1>5, <2>2, <2>3 DEF ClientResume, PauseInv, InScope, renderSide, parkVars
<1>6. CASE ClientStop(c)
  <2>1. Holding' = Holding
    BY <1>0, <1>6 DEF ClientStop, Holding
  <2>2. client'[c] = "stopping"
    BY <1>0, <1>6 DEF ClientStop
  <2> QED BY <1>0, <1>6, <2>1, <2>2 DEF ClientStop, PauseInv, InScope, renderSide, parkVars
<1>7. CASE ClientJoined(c)
  <2>1. Holding' = Holding
    BY <1>0, <1>7 DEF ClientJoined, Holding
  <2> QED BY <1>0, <1>7, <2>1 DEF ClientJoined, PauseInv, InScope
<1>8. ASSUME NEW l \in Latencies, ClientStart(c, l) PROVE PauseInv'
  <2>1. Holding' = Holding
    BY <1>8 DEF ClientStart, Holding, clientVars
  <2> QED BY <1>8, <2>1 DEF ClientStart, PauseInv, InScope, clientVars
<1> QED
  BY <1>1, <1>2, <1>3, <1>4, <1>5, <1>6, <1>7, <1>8 DEF ClientNext, ClientWait, ClientWork

\* A client that paused the device and holds it has it alone, however many
\* clients pause, nest and restart it (md::AsyncRender::pause and threadFunc).
\* Without a store buffer: run async_unpark_race shows what one does.
THEOREM PauseCorrect ==
    ASSUME ~StoreBuffer
    PROVE  Spec => []PauseExcludesRender
<1>1. TypeOK /\ PauseInv /\ [Next]_vars => PauseInv'
  <2> SUFFICES ASSUME TypeOK, PauseInv, [Next]_vars PROVE PauseInv'
    OBVIOUS
  <2>1. CASE UNCHANGED vars
    BY <2>1 DEF PauseInv, Holding, InScope, vars, pauseVars, parkVars, clientVars
  <2> QED BY <2>1, PauseHost, PauseRender, PauseClient DEF Next
<1>2. TypeOK /\ PauseInv => PauseExcludesRender
  BY DEF PauseInv, PauseExcludesRender, InScope, OnDevice
<1> QED BY <1>1, <1>2, PauseInit, TypeCorrect, PTL DEF Spec

----------------------------------------------------------------------------
(***************************************************************************)
(* The job ring and the audio FIFO, store buffers included                 *)
(***************************************************************************)

\* Who may be where: the lock excludes, and without a thread nothing runs.
PlacesInv ==
    /\ \A c, d \in Clients : InScope(c) /\ InScope(d) => c = d
    /\ host.pc # "idle" => running /\ \A c \in Clients : ~InScope(c)
    /\ ~running => render = "exited"

\* The first job whose frames are not in the FIFO yet, and the first that is not filled.
Written == done + (IF render = "complete" THEN 1 ELSE 0)
Filled == submitted + (IF host.pc = "publish" THEN 1 ELSE 0)
J(k) == jobs[Slot(k)]

\* The jobs' positions follow each other; the MIDI of a slot is that of a job rendered and
\* not collected.
JobsInv ==
    /\ harvested <= done /\ done <= submitted /\ submitted <= harvested + JobCount
    /\ render \in OnDevice => done < submitted
    /\ host.pc = "publish" => submitted < harvested + JobCount
    /\ \A s \in Slots : jobs[s].midiOut # NoMidi =>
          /\ running
          /\ \E k \in harvested .. done :
                Slot(k) = s /\ (k = done => render \in {"write", "publish", "complete"})

\* The host's position behind the last block it has handed over or dropped.
Due == fifoRead + (IF host.pc \in {"publish", "audio", "copy"} THEN host.frames ELSE 0)

Half == FifoFrames \div 2

\* A job's gap and frames end, in the FIFO, no later than the latency behind the host's own
\* position of them: the cap may cut frames of a gap and makes no others.
FramesInv ==
    /\ gapFrames <= Half /\ delay <= Half
    /\ \A k \in Written .. Filled - 1 : J(k).gap <= Half /\ J(k).in <= fifoRead
    /\ \A k \in Written .. Filled - 2 : J(k).in + J(k).frames + J(k + 1).gap <= J(k + 1).in
    /\ Written < Filled =>
          /\ fifoWrite + J(Written).gap <= J(Written).in + delay
          /\ J(Filled - 1).in + J(Filled - 1).frames + gapFrames <= Due
    /\ Written = Filled => fifoWrite + gapFrames <= Due + delay

\* What the host copies is there.
CopyInv == host.pc = "copy" /\ host.available > 0 => fifoRead + host.available <= fifoWrite

RingInv == PlacesInv /\ JobsInv /\ FramesInv /\ CopyInv

LEMMA SlotsDiffer ==
    ASSUME NEW i \in Nat, NEW j \in Nat, i < j, j - i < JobCount
    PROVE  Slot(i) # Slot(j)
BY ModInjective, JobCountAssumption DEF Slot

LEMMA RingInit == Init => RingInv
<1> SUFFICES ASSUME Init PROVE RingInv
  OBVIOUS
<1>1. PlacesInv
  BY DEF Init, PlacesInv, InScope, HostIdle
<1>2. JobsInv
  BY JobCountAssumption DEF Init, JobsInv, EmptyJob, OnDevice, HostIdle
<1>3. FramesInv
  <2>1. PICK l \in Latencies : delay = Queued(l)
    BY DEF Init
  <2>2. delay \in Nat /\ delay <= Half /\ Half \in Nat
    BY <2>1, LatenciesAssumption, FifoFramesAssumption DEF Queued, Smaller, Half
  <2>3. Written = 0 /\ Filled = 0 /\ Due = 0 /\ fifoWrite = delay /\ gapFrames = 0
    BY DEF Init, Written, Filled, Due, HostIdle
  <2> QED BY <2>2, <2>3 DEF FramesInv
<1>4. CopyInv
  BY DEF Init, CopyInv, HostIdle
<1> QED BY <1>1, <1>2, <1>3, <1>4 DEF RingInv

----------------------------------------------------------------------------
(* Places.                                                                 *)

LEMMA PlacesStep == ASSUME TypeOK, PlacesInv, [Next]_vars PROVE PlacesInv'
<1>1. CASE HostNext
  <2>1. UNCHANGED <<running, render, client>>
    BY <1>1 DEF HostNext, HostStep, HostEnter, HostWaitSlot, HostDrop, HostFill, HostPublish,
                HostTake, HostCopy, clientVars, pauseVars
  <2>2. CASE \E f \in FrameSizes, rt \in BOOLEAN : HostEnter(f, rt)
    BY <2>1, <2>2 DEF HostEnter, LockFree, PlacesInv, InScope
  <2>3. CASE HostStep
    <3>1. host.pc # "idle"
      BY <2>3 DEF HostStep, HostWaitSlot, HostDrop, HostFill, HostPublish, HostTake, HostCopy
    <3> QED BY <2>1, <3>1 DEF PlacesInv, InScope
  <2> QED BY <1>1, <2>2, <2>3 DEF HostNext
<1>2. CASE RenderNext \/ RenderFlush
  <2>1. UNCHANGED <<running, host, client>>
    BY <1>2 DEF RenderNext, RenderFlush, RenderStep, RenderPark, RenderUnpark, RenderTake,
                RenderRender, RenderWrite, RenderPublish, RenderComplete, clientVars, pauseVars,
                hostSide
  <2>2. render = "exited" => render' = "exited"
    BY <1>2 DEF RenderNext, RenderFlush, RenderStep, RenderPark, RenderUnpark, RenderTake,
                RenderRender, RenderWrite, RenderPublish, RenderComplete, RenderMove
  <2> QED BY <2>1, <2>2 DEF PlacesInv, InScope
<1>3. ASSUME NEW c \in Clients, ClientNext(c) PROVE PlacesInv'
  <2>1. client \in [Clients -> ClientPlaces]
    BY DEF TypeOK
  <2>2. CASE ClientFinish(c) \/ ClientWait(c)
    BY <2>1, <2>2 DEF ClientFinish, ClientWait, ClientFinished, ClientPause, ClientPaused,
                      ClientMove, PlacesInv, InScope, hostSide, renderSide, pauseVars
  <2>3. CASE ClientEnter(c)
    BY <2>1, <2>3 DEF ClientEnter, LockFree, ClientMove, PlacesInv, InScope, hostSide,
                      renderSide, pauseVars
  <2>4. CASE ClientResume(c) \/ ClientStop(c)
    BY <2>1, <2>4 DEF ClientResume, ClientStop, ClientMove, PlacesInv, InScope, hostSide,
                      renderSide, pauseVars
  <2>5. CASE ClientJoined(c)
    <3>1. host.pc = "idle"
      BY <2>5 DEF ClientJoined, ClientMove, PlacesInv, InScope
    <3> QED
      BY <2>1, <2>5, <3>1 DEF ClientJoined, ClientMove, PlacesInv, InScope, hostSide
  <2>6. ASSUME NEW l \in Latencies, ClientStart(c, l) PROVE PlacesInv'
    BY <2>6 DEF ClientStart, PlacesInv, InScope, clientVars
  <2> QED BY <1>3, <2>2, <2>3, <2>4, <2>5, <2>6 DEF ClientNext, ClientWork
<1>4. CASE UNCHANGED vars
  BY <1>4 DEF vars, PlacesInv, InScope, pauseVars, clientVars
<1> QED BY <1>1, <1>2, <1>3, <1>4 DEF Next

----------------------------------------------------------------------------
(* The job ring.                                                           *)

\* Collecting the MIDI of the completed jobs leaves that of the one being rendered.
LEMMA HarvestJobs ==
    ASSUME TypeOK, JobsInv, Harvest, UNCHANGED <<submitted, done, render, running>>,
           host'.pc # "publish"
    PROVE  JobsInv'
<1>1. harvested' = done /\ done \in Nat /\ submitted \in Nat /\ harvested \in Nat
  BY DEF Harvest, TypeOK
<1>2. ASSUME NEW s \in Slots, jobs'[s].midiOut # NoMidi
      PROVE  /\ running
             /\ \E k \in done .. done :
                   Slot(k) = s /\ (k = done => render \in {"write", "publish", "complete"})
  <2>1. jobs'[s] = IF \E k \in harvested .. done - 1 : Slot(k) = s
                   THEN [jobs[s] EXCEPT !.midiOut = NoMidi] ELSE jobs[s]
    BY DEF Harvest
  <2>2. jobs[s] \in Job
    BY DEF TypeOK
  <2>3. ~\E k \in harvested .. done - 1 : Slot(k) = s
    BY <1>2, <2>1, <2>2 DEF Job
  <2>4. jobs[s].midiOut # NoMidi
    BY <1>2, <2>1, <2>3
  <2>5. running
    BY <2>4 DEF JobsInv
  <2>6. PICK k \in harvested .. done :
           Slot(k) = s /\ (k = done => render \in {"write", "publish", "complete"})
    BY <2>4 DEF JobsInv
  <2>7. k = done
    BY <1>1, <2>3, <2>6
  <2> QED BY <1>1, <2>5, <2>6, <2>7
<1>3. /\ harvested' <= done' /\ done' <= submitted' /\ submitted' <= harvested' + JobCount
      /\ render' \in OnDevice => done' < submitted'
  BY <1>1, JobCountAssumption DEF JobsInv
<1> QED BY <1>1, <1>2, <1>3 DEF JobsInv

\* Only the positions of the host and the render thread and what is in the slots matter.
LEMMA JobsKept ==
    ASSUME JobsInv, UNCHANGED <<submitted, done, harvested, render, running, jobs>>,
           host'.pc = "publish" => host.pc = "publish"
    PROVE  JobsInv'
BY DEF JobsInv

LEMMA JobsHost == ASSUME TypeOK, JobsInv, HostNext PROVE JobsInv'
<1> USE DEF cursors, pauseVars
<1>0. submitted \in Nat /\ harvested \in Nat /\ done \in Nat /\ host \in HostType
  BY DEF TypeOK, HostType
<1>1. ASSUME NEW f \in FrameSizes, NEW rt \in BOOLEAN, HostEnter(f, rt) PROVE JobsInv'
  BY <1>1, HarvestJobs DEF HostEnter, HostIdle
<1>2. CASE HostWaitSlot
  BY <1>2, HarvestJobs DEF HostWaitSlot
<1>3. CASE HostDrop \/ HostTake
  <2>1. host'.pc # "publish" /\ UNCHANGED <<submitted, done, harvested, render, running, jobs>>
    BY <1>0, <1>3 DEF HostDrop, HostTake, HostType
  <2> QED BY <2>1, JobsKept
<1>4. CASE HostFill
  <2>1. \A s \in Slots : jobs'[s].midiOut = jobs[s].midiOut
    <3>1. Slot(submitted) \in Slots
      BY <1>0, SlotType
    <3> QED BY <1>4, <3>1 DEF HostFill, TypeOK
  <2>2. submitted < harvested + JobCount
    BY <1>0, <1>4, JobCountAssumption DEF HostFill, SlotsBusy
  <2>3. UNCHANGED <<submitted, done, harvested, render, running>>
    BY <1>4 DEF HostFill
  <2> QED BY <2>1, <2>2, <2>3 DEF JobsInv
<1>5. CASE HostPublish
  <2>1. /\ submitted' = submitted + 1 /\ host.pc = "publish" /\ host'.pc = "audio"
        /\ UNCHANGED <<done, harvested, render, running, jobs>>
    BY <1>0, <1>5 DEF HostPublish, HostType
  <2>2. /\ harvested' <= done' /\ done' <= submitted' /\ submitted' <= harvested' + JobCount
        /\ render' \in OnDevice => done' < submitted'
    BY <1>0, <2>1, JobCountAssumption DEF JobsInv
  <2> QED BY <2>1, <2>2 DEF JobsInv
<1>6. CASE HostCopy
  BY <1>6, HarvestJobs DEF HostCopy, HostIdle
<1> QED BY <1>1, <1>2, <1>3, <1>4, <1>5, <1>6 DEF HostNext, HostStep

LEMMA JobsRender == ASSUME TypeOK, PlacesInv, JobsInv, RenderNext \/ RenderFlush PROVE JobsInv'
<1> USE DEF hostSide, pauseVars, RenderMove
<1>0. submitted \in Nat /\ harvested \in Nat /\ done \in Nat /\ Slot(done) \in Slots
  BY SlotType DEF TypeOK
<1>1. UNCHANGED <<submitted, harvested, host, running>>
  BY DEF RenderNext, RenderFlush, RenderStep, RenderPark, RenderUnpark, RenderTake,
         RenderRender, RenderWrite, RenderPublish, RenderComplete
<1>2. CASE RenderFlush \/ RenderStep \/ RenderPark \/ RenderUnpark
  <2>1. (UNCHANGED <<done, jobs>> /\ render' \notin OnDevice) \/ UNCHANGED <<done, jobs, render>>
    BY <1>2 DEF RenderFlush, RenderStep, RenderPark, RenderUnpark, OnDevice
  <2>2. render \notin {"write", "publish", "complete"} \/ UNCHANGED render
    BY <1>2 DEF RenderFlush, RenderStep, RenderPark, RenderUnpark
  <2> QED BY <1>1, <2>1, <2>2 DEF JobsInv
<1>3. CASE RenderTake
  <2>1. \A s \in Slots : jobs'[s].midiOut # NoMidi => jobs[s].midiOut # NoMidi
    BY <1>0, <1>3 DEF RenderTake, TypeOK, Job
  <2>2. done < submitted /\ done' = done /\ render = "job"
    BY <1>0, <1>3 DEF RenderTake, JobsInv
  <2>3. ASSUME NEW s \in Slots, jobs'[s].midiOut # NoMidi
        PROVE  \E k \in harvested .. done :
                  Slot(k) = s /\ (k = done => render' \in {"write", "publish", "complete"})
    BY <2>1, <2>2, <2>3 DEF JobsInv
  <2> QED BY <1>1, <2>1, <2>2, <2>3 DEF JobsInv
<1>4. CASE RenderRender
  <2>1. \A s \in Slots : s # Slot(done) => jobs'[s] = jobs[s]
    BY <1>4 DEF RenderRender, TypeOK
  <2>2. render = "render" /\ render' = "write" /\ done' = done
    BY <1>4 DEF RenderRender
  <2>3. running
    BY <2>2 DEF PlacesInv
  <2>4. ASSUME NEW s \in Slots, jobs'[s].midiOut # NoMidi
        PROVE  \E k \in harvested .. done :
                  Slot(k) = s /\ (k = done => render' \in {"write", "publish", "complete"})
    <3>1. CASE s = Slot(done)
      BY <1>0, <2>2, <3>1 DEF JobsInv
    <3>2. CASE s # Slot(done)
      BY <2>1, <2>2, <2>4, <3>2 DEF JobsInv
    <3> QED BY <3>1, <3>2
  <2> QED BY <1>1, <2>2, <2>3, <2>4 DEF JobsInv, OnDevice
<1>5. CASE RenderWrite \/ RenderPublish
  <2>1. /\ UNCHANGED <<done, jobs>> /\ render \in {"write", "publish"}
        /\ render' \in {"publish", "complete"}
    BY <1>5 DEF RenderWrite, RenderPublish
  <2> QED BY <1>1, <2>1 DEF JobsInv, OnDevice
<1>6. CASE RenderComplete
  <2>1. UNCHANGED jobs /\ render = "complete" /\ render' = "top" /\ done' = done + 1
    BY <1>6 DEF RenderComplete
  <2>2. harvested <= done' /\ done' <= submitted
    BY <1>0, <2>1 DEF JobsInv, OnDevice
  <2>3. ASSUME NEW s \in Slots, jobs[s].midiOut # NoMidi
        PROVE  \E k \in harvested .. done' : Slot(k) = s /\ k # done'
    BY <1>0, <2>1, <2>3 DEF JobsInv
  <2> QED BY <1>1, <2>1, <2>2, <2>3 DEF JobsInv, OnDevice
<1> QED BY <1>2, <1>3, <1>4, <1>5, <1>6 DEF RenderNext

LEMMA JobsClient ==
    ASSUME TypeOK, PlacesInv, JobsInv, NEW c \in Clients, ClientNext(c) PROVE JobsInv'
<1>1. CASE ClientFinish(c) \/ ClientWait(c) \/ ClientEnter(c) \/ ClientResume(c) \/ ClientStop(c)
  <2>1. UNCHANGED <<submitted, done, harvested, render, running, jobs, host>>
    BY <1>1 DEF ClientFinish, ClientWait, ClientFinished, ClientPause, ClientPaused, ClientEnter,
                ClientResume, ClientStop, hostSide, renderSide, pauseVars
  <2> QED BY <2>1, JobsKept
<1>2. CASE ClientJoined(c)
  <2>1. \A s \in Slots : jobs'[s].midiOut = NoMidi
    BY <1>2 DEF ClientJoined, TypeOK, Job
  <2>2. UNCHANGED <<submitted, done, harvested, render, host>>
    BY <1>2 DEF ClientJoined, hostSide
  <2> QED BY <2>1, <2>2 DEF JobsInv
<1>3. ASSUME NEW l \in Latencies, ClientStart(c, l) PROVE JobsInv'
  <2>1. /\ submitted' = 0 /\ done' = 0 /\ harvested' = 0 /\ render' = "top"
        /\ host' = host /\ jobs' = jobs /\ ~running /\ client[c] = "in"
    BY <1>3 DEF ClientStart
  <2>2. host.pc = "idle" /\ \A s \in Slots : jobs[s].midiOut = NoMidi
    BY <2>1 DEF PlacesInv, JobsInv
  <2> QED BY <2>1, <2>2, JobCountAssumption DEF JobsInv, OnDevice
<1> QED BY <1>1, <1>2, <1>3 DEF ClientNext, ClientWork

----------------------------------------------------------------------------
(* The positions of the audio FIFO.                                        *)

LEMMA RingTypes ==
    ASSUME TypeOK
    PROVE  /\ Written \in Nat /\ Filled \in Nat /\ Due \in Nat
           /\ Half \in Nat /\ 2 * Half <= FifoFrames
           /\ \A k \in Nat : /\ J(k).in \in Nat /\ J(k).gap \in Nat
                             /\ J(k).frames \in Nat /\ 2 * J(k).frames <= FifoFrames
<1>1. Written \in Nat /\ Filled \in Nat
  BY DEF Written, Filled, TypeOK
<1>2. Due \in Nat
  BY SizesType DEF Due, TypeOK
<1>3. Half \in Nat /\ 2 * Half <= FifoFrames
  BY FifoFramesAssumption DEF Half
<1>4. ASSUME NEW k \in Nat PROVE J(k).frames \in FrameSizes \cup {0}
  BY SizesType DEF J, Job
<1> QED BY <1>1, <1>2, <1>3, <1>4, SizesType, FrameSizesType DEF J

\* The job the render thread is on, if it is on one, is the first that is not written.
LEMMA WrittenFilled ==
    ASSUME TypeOK, JobsInv
    PROVE  /\ Written <= Filled
           /\ render \in {"write", "publish"} => Written = done /\ Written < Filled
BY DEF TypeOK, JobsInv, Written, Filled, OnDevice

\* Steps that move no job, no position and no part of one.
LEMMA FramesKept ==
    ASSUME TypeOK, FramesInv, Written' = Written, Filled' = Filled, Due' = Due,
           UNCHANGED <<gapFrames, delay, fifoWrite>>,
           fifoRead' \in Nat, fifoRead <= fifoRead',
           \A k \in Nat : /\ J(k)'.in = J(k).in /\ J(k)'.frames = J(k).frames
                          /\ J(k)'.gap = J(k).gap
    PROVE  FramesInv'
<1>1. /\ Written \in Nat /\ Filled \in Nat /\ fifoRead \in Nat /\ Half' = Half
      /\ \A k \in Nat : J(k).in \in Nat
  BY RingTypes DEF TypeOK, Half
<1>2. \A k \in Written .. Filled - 1 : k \in Nat /\ k + 1 \in Nat
  BY <1>1
<1>3. \A k \in Written .. Filled - 1 : J(k)'.gap <= Half /\ J(k)'.in <= fifoRead'
  <2> TAKE k \in Written .. Filled - 1
  <2>1. J(k).gap <= Half /\ J(k).in <= fifoRead /\ k \in Nat
    BY <1>2 DEF FramesInv
  <2>2. J(k)'.gap = J(k).gap /\ J(k)'.in = J(k).in /\ J(k).in \in Nat
    BY <1>1, <2>1
  <2> QED BY <1>1, <2>1, <2>2
<1>4. \A k \in Written .. Filled - 2 : J(k)'.in + J(k)'.frames + J(k + 1)'.gap <= J(k + 1)'.in
  <2> TAKE k \in Written .. Filled - 2
  <2>1. J(k).in + J(k).frames + J(k + 1).gap <= J(k + 1).in /\ k \in Nat /\ k + 1 \in Nat
    BY <1>1 DEF FramesInv
  <2> QED BY <2>1
<1>5. Written < Filled =>
          /\ fifoWrite + J(Written)'.gap <= J(Written)'.in + delay
          /\ J(Filled - 1)'.in + J(Filled - 1)'.frames + gapFrames <= Due
  <2> HAVE Written < Filled
  <2>1. Filled - 1 \in Nat
    BY <1>1
  <2> QED BY <1>1, <2>1 DEF FramesInv
<1>6. J(Written)' = jobs'[Slot(Written')] /\ J(Filled - 1)' = jobs'[Slot(Filled' - 1)]
  BY DEF J, Slot
<1>7. gapFrames <= Half /\ delay <= Half /\ (Written = Filled => fifoWrite + gapFrames <= Due + delay)
  BY DEF FramesInv
<1> QED BY <1>1, <1>3, <1>4, <1>5, <1>6, <1>7 DEF FramesInv

LEMMA HarvestKeeps ==
    ASSUME TypeOK, Harvest
    PROVE  \A k \in Nat : /\ J(k)'.in = J(k).in /\ J(k)'.frames = J(k).frames
                          /\ J(k)'.gap = J(k).gap
<1> TAKE k \in Nat
<1>1. Slot(k) \in Slots /\ jobs[Slot(k)] \in Job
  BY SlotType DEF TypeOK
<1>2. jobs'[Slot(k)] \in {jobs[Slot(k)], [jobs[Slot(k)] EXCEPT !.midiOut = NoMidi]}
  BY <1>1 DEF Harvest
<1> QED BY <1>1, <1>2 DEF J, Job

\* A dropped block moves the host's position, and the next gap by no more.
LEMMA FramesDrop == ASSUME TypeOK, JobsInv, FramesInv, HostDrop PROVE FramesInv'
<1>0. /\ host.pc = "slot" /\ host'.pc = "audio" /\ host'.frames = host.frames
      /\ host.frames \in Nat
  BY SizesType DEF HostDrop, TypeOK
<1>1. UNCHANGED <<submitted, done, render, jobs, fifoRead, fifoWrite, delay>>
  BY DEF HostDrop, cursors, startVars
<1>2. Written' = Written /\ Filled' = Filled /\ Half' = Half
  BY <1>0, <1>1 DEF Written, Filled, Half
<1>3. Due' = Due + host.frames
  BY <1>0, <1>1 DEF Due, TypeOK
<1>4. gapFrames' \in Nat /\ gapFrames' <= Half /\ gapFrames' <= gapFrames + host.frames
  <2>1. gapFrames' = Smaller(gapFrames + host.frames, Half)
    BY DEF HostDrop, Half
  <2>2. gapFrames \in Nat /\ Half \in Nat
    BY RingTypes DEF TypeOK
  <2>3. PICK g \in Nat, h \in Nat, f \in Nat : g = gapFrames /\ h = Half /\ f = host.frames
    BY <1>0, <2>2
  <2> QED BY <2>1, <2>3 DEF Smaller
<1>5. \A k \in Nat : J(k)' = J(k)
  BY <1>1 DEF J, Slot
<1>6. J(Written)' = J(Written) /\ J(Filled - 1)' = J(Filled - 1)
  BY <1>1, <1>2 DEF J, Slot
<1>7. Written < Filled =>
          /\ fifoWrite + J(Written).gap <= J(Written).in + delay
          /\ J(Filled - 1).in + J(Filled - 1).frames + gapFrames' <= Due'
  <2> HAVE Written < Filled
  <2>1. /\ fifoWrite + J(Written).gap <= J(Written).in + delay
        /\ J(Filled - 1).in + J(Filled - 1).frames + gapFrames <= Due
    BY DEF FramesInv
  <2>2. Filled - 1 \in Nat /\ gapFrames \in Nat /\ Due \in Nat
    BY RingTypes DEF TypeOK
  <2> QED BY <1>0, <1>3, <1>4, <2>1, <2>2, RingTypes
<1>8. Written = Filled => fifoWrite + gapFrames' <= Due' + delay
  <2> HAVE Written = Filled
  <2>1. fifoWrite + gapFrames <= Due + delay
    BY DEF FramesInv
  <2>2. fifoWrite \in Nat /\ gapFrames \in Nat /\ Due \in Nat /\ delay \in Nat
    BY RingTypes DEF TypeOK
  <2> QED BY <1>0, <1>3, <1>4, <2>1, <2>2
<1>9. delay <= Half
  BY DEF FramesInv
<1>10. \A k \in Written .. Filled - 1 : J(k)'.gap <= Half /\ J(k)'.in <= fifoRead'
  BY <1>1 DEF FramesInv, J, Slot
<1>11. \A k \in Written .. Filled - 2 : J(k)'.in + J(k)'.frames + J(k + 1)'.gap <= J(k + 1)'.in
  BY <1>1 DEF FramesInv, J, Slot
<1> QED BY <1>1, <1>2, <1>4, <1>6, <1>7, <1>8, <1>9, <1>10, <1>11 DEF FramesInv

\* A block handed over takes the gap before it.
LEMMA FramesFill == ASSUME TypeOK, JobsInv, FramesInv, HostFill PROVE FramesInv'
<1>0. host.pc = "slot" /\ host'.pc = "publish" /\ host'.frames = host.frames
  BY DEF HostFill, TypeOK
<1>1. /\ UNCHANGED <<submitted, done, harvested, render, fifoRead, fifoWrite, delay>>
      /\ gapFrames' = 0 /\ Half' = Half
  BY DEF HostFill, cursors, startVars, Half
<1>2. /\ Written' = Written /\ Filled = submitted /\ Filled' = submitted + 1
      /\ Due = fifoRead /\ Due' = fifoRead + host.frames
  BY <1>0, <1>1 DEF Written, Filled, Due, TypeOK
<1>3. /\ submitted \in Nat /\ harvested \in Nat /\ done \in Nat /\ Written \in Nat
      /\ submitted - harvested < JobCount /\ harvested <= Written /\ Written <= submitted
      /\ fifoRead \in Nat /\ fifoWrite \in Nat /\ gapFrames \in Nat /\ delay \in Nat
      /\ Half \in Nat /\ host.frames \in Nat
  <2>1. /\ submitted \in Nat /\ harvested \in Nat /\ done \in Nat
        /\ fifoRead \in Nat /\ fifoWrite \in Nat /\ gapFrames \in Nat /\ delay \in Nat
    BY DEF TypeOK
  <2>2. Half \in Nat /\ host.frames \in Nat /\ Written \in Nat
    BY RingTypes, SizesType
  <2>3. submitted - harvested < JobCount
    BY <2>1, JobCountAssumption DEF HostFill, SlotsBusy
  <2>4. harvested <= Written
    BY <2>1 DEF JobsInv, Written
  <2>5. Written <= submitted
    BY <1>2, WrittenFilled
  <2> QED BY <2>1, <2>2, <2>3, <2>4, <2>5
<1>4. \A k \in Written .. submitted - 1 : J(k)' = J(k)
  <2> TAKE k \in Written .. submitted - 1
  <2>1. k \in Nat /\ k < submitted /\ submitted - k < JobCount
    BY <1>3, JobCountAssumption
  <2>2. Slot(k) # Slot(submitted) /\ Slot(k) \in Slots
    BY <1>3, <2>1, SlotsDiffer, SlotType
  <2> QED BY <2>2 DEF HostFill, J, TypeOK, Slot
<1>5. LET new == jobs'[Slot(submitted)]
      IN  new.in = fifoRead /\ new.frames = host.frames /\ new.gap = gapFrames
  <2>1. Slot(submitted) \in Slots
    BY <1>3, SlotType
  <2> QED BY <2>1 DEF HostFill, TypeOK
<1>6. PICK new : new = jobs'[Slot(submitted)]
  OBVIOUS
<1>7. /\ new.in = fifoRead /\ new.frames = host.frames /\ new.gap = gapFrames
      /\ J(submitted)' = new
  BY <1>5, <1>6, <1>1 DEF J, Slot
<1>8. gapFrames <= Half /\ delay <= Half
  BY DEF FramesInv
<1>9. ASSUME NEW k \in Written .. submitted PROVE jobs'[Slot(k)].gap <= Half /\ jobs'[Slot(k)].in <= fifoRead
  <2>1. CASE k = submitted
    BY <1>3, <1>6, <1>7, <1>8, <2>1
  <2>2. CASE k # submitted
    <3>1. k \in Written .. submitted - 1
      BY <1>3, <2>2
    <3>2. J(k).gap <= Half /\ J(k).in <= fifoRead
      BY <1>2, <3>1 DEF FramesInv
    <3> QED BY <1>4, <3>1, <3>2 DEF J, Slot
  <2> QED BY <2>1, <2>2
<1>10. ASSUME NEW k \in Written .. submitted - 1
       PROVE  jobs'[Slot(k)].in + jobs'[Slot(k)].frames + jobs'[Slot(k + 1)].gap <= jobs'[Slot(k + 1)].in
  <2>1. jobs'[Slot(k)] = J(k)
    BY <1>4 DEF J, Slot
  <2>2. CASE k = submitted - 1
    <3>1. k + 1 = submitted /\ Written < Filled /\ k = Filled - 1
      BY <1>2, <1>3, <2>2
    <3>2. J(k).in + J(k).frames + gapFrames <= fifoRead
      BY <1>2, <3>1 DEF FramesInv
    <3> QED BY <1>6, <1>7, <2>1, <3>1, <3>2
  <2>3. CASE k # submitted - 1
    <3>1. k \in Written .. Filled - 2 /\ k + 1 \in Written .. submitted - 1
      BY <1>2, <1>3, <2>3
    <3>2. J(k).in + J(k).frames + J(k + 1).gap <= J(k + 1).in
      BY <3>1 DEF FramesInv
    <3>3. jobs'[Slot(k + 1)] = J(k + 1)
      BY <1>4, <3>1 DEF J, Slot
    <3> QED BY <2>1, <3>2, <3>3
  <2> QED BY <2>2, <2>3
<1>11. fifoWrite + jobs'[Slot(Written)].gap <= jobs'[Slot(Written)].in + delay
  <2>1. CASE Written = submitted
    <3>1. fifoWrite + gapFrames <= fifoRead + delay
      BY <1>2, <2>1 DEF FramesInv
    <3> QED BY <1>6, <1>7, <2>1, <3>1
  <2>2. CASE Written # submitted
    <3>1. Written < Filled /\ Written \in Written .. submitted - 1
      BY <1>2, <1>3, <2>2
    <3>2. fifoWrite + J(Written).gap <= J(Written).in + delay
      BY <3>1 DEF FramesInv
    <3>3. jobs'[Slot(Written)] = J(Written)
      BY <1>4, <1>2, <3>1 DEF J, Slot
    <3> QED BY <3>2, <3>3
  <2> QED BY <2>1, <2>2
<1>12. Filled' - 1 = submitted /\ Filled' - 2 = submitted - 1 /\ Written' < Filled'
  BY <1>2, <1>3
<1>13. Due' = new.in + new.frames + gapFrames'
  BY <1>1, <1>2, <1>3, <1>7
<1>14. \A k \in Written' .. Filled' - 1 : J(k)'.gap <= Half' /\ J(k)'.in <= fifoRead'
  BY <1>1, <1>2, <1>9, <1>12 DEF J, Slot
<1>15. \A k \in Written' .. Filled' - 2 : J(k)'.in + J(k)'.frames + J(k + 1)'.gap <= J(k + 1)'.in
  BY <1>2, <1>10, <1>12 DEF J, Slot
<1>16. /\ fifoWrite' + J(Written)'.gap <= J(Written)'.in + delay'
       /\ J(Filled - 1)'.in + J(Filled - 1)'.frames + gapFrames' <= Due'
  <2>1. J(Written)' = jobs'[Slot(Written)] /\ J(Filled - 1)' = new
    BY <1>2, <1>6, <1>12 DEF J, Slot
  <2>2. Due' \in Nat
    BY <1>2, <1>3
  <2> QED BY <1>1, <1>11, <1>13, <2>1, <2>2
<1>17. gapFrames' <= Half' /\ delay' <= Half'
  BY <1>1, <1>3, <1>8
<1>18. Written' # Filled'
  BY <1>2, <1>3
<1> QED BY <1>14, <1>15, <1>16, <1>17, <1>18 DEF FramesInv

\* A written job's end is where the next one's gap starts, or before.
LEMMA FramesPublish == ASSUME TypeOK, JobsInv, FramesInv, RenderPublish PROVE FramesInv'
<1>1. /\ UNCHANGED <<submitted, done, jobs, host, gapFrames, fifoRead, delay>>
      /\ render = "publish" /\ render' = "complete" /\ Half' = Half
  BY DEF RenderPublish, RenderMove, hostSide, hostData, startVars, Half
<1>2. /\ Written = done /\ Written' = Written + 1 /\ Written < Filled
      /\ Filled' = Filled /\ Due' = Due
  BY <1>1, WrittenFilled DEF Written, Filled, Due, TypeOK
<1>3. /\ Written \in Nat /\ Filled \in Nat /\ fifoWrite \in Nat /\ delay \in Nat /\ Due \in Nat
      /\ gapFrames \in Nat
      /\ \A k \in Nat : J(k).in \in Nat /\ J(k).gap \in Nat /\ J(k).frames \in Nat
  BY RingTypes DEF TypeOK
<1>4. fifoWrite' = fifoWrite + J(Written).gap + J(Written).frames
  BY <1>2, <1>3 DEF RenderPublish, Needed, J
<1>5. fifoWrite + J(Written).gap <= J(Written).in + delay
  BY <1>2 DEF FramesInv
<1>6. fifoWrite' <= J(Written).in + J(Written).frames + delay
  BY <1>3, <1>4, <1>5
<1>7. Written' < Filled => fifoWrite' + J(Written + 1).gap <= J(Written + 1).in + delay
  <2> HAVE Written' < Filled
  <2>1. Written \in Written .. Filled - 2 /\ Written + 1 \in Nat
    BY <1>2, <1>3
  <2>2. J(Written).in + J(Written).frames + J(Written + 1).gap <= J(Written + 1).in
    BY <2>1 DEF FramesInv
  <2>3. fifoWrite' \in Nat
    BY <1>3, <1>4
  <2> QED BY <1>3, <1>6, <2>1, <2>2, <2>3
<1>8. J(Filled - 1).in + J(Filled - 1).frames + gapFrames <= Due
  BY <1>2 DEF FramesInv
<1>9. ASSUME Written' = Filled PROVE fifoWrite' + gapFrames <= Due + delay
  <2>1. Filled - 1 = Written /\ fifoWrite' \in Nat
    BY <1>2, <1>3, <1>4, <1>9
  <2>2. PICK last : last = J(Written).in + J(Written).frames
    OBVIOUS
  <2>3. last \in Nat /\ last + gapFrames <= Due /\ fifoWrite' <= last + delay
    BY <1>3, <1>6, <1>8, <2>1, <2>2
  <2>4. PICK w, g, e, d : w = fifoWrite' /\ g = gapFrames /\ e = Due /\ d = delay
    OBVIOUS
  <2>5. /\ w \in Nat /\ g \in Nat /\ e \in Nat /\ d \in Nat /\ last \in Nat
        /\ last + g <= e /\ w <= last + d
    BY <1>3, <2>1, <2>3, <2>4
  <2>6. w + g <= e + d
    BY <2>5
  <2> QED BY <2>4, <2>6
<1>10. /\ \A k \in Written' .. Filled' - 1 : J(k)'.gap <= Half' /\ J(k)'.in <= fifoRead'
       /\ \A k \in Written' .. Filled' - 2 :
             J(k)'.in + J(k)'.frames + J(k + 1)'.gap <= J(k + 1)'.in
  <2>1. /\ \A k \in Written .. Filled - 1 : J(k).gap <= Half /\ J(k).in <= fifoRead
        /\ \A k \in Written .. Filled - 2 : J(k).in + J(k).frames + J(k + 1).gap <= J(k + 1).in
    BY DEF FramesInv
  <2>2. Written' .. Filled' - 1 \subseteq Written .. Filled - 1
    BY <1>2, <1>3
  <2>3. Written' .. Filled' - 2 \subseteq Written .. Filled - 2
    BY <1>2, <1>3
  <2>4. \A k : J(k)' = J(k)
    BY <1>1 DEF J, Slot
  <2> QED BY <1>1, <2>1, <2>2, <2>3, <2>4
<1>11. J(Written)' = J(Written + 1) /\ J(Filled - 1)' = J(Filled - 1)
  BY <1>1, <1>2 DEF J, Slot
<1>12. gapFrames <= Half /\ delay <= Half
  BY DEF FramesInv
<1> QED BY <1>1, <1>2, <1>7, <1>8, <1>9, <1>10, <1>11, <1>12 DEF FramesInv

\* A start queues the latency, at most half the FIFO, and nothing else.
LEMMA FramesStart ==
    ASSUME TypeOK, PlacesInv, NEW c \in Clients, NEW l \in Latencies, ClientStart(c, l)
    PROVE  FramesInv' /\ CopyInv'
<1>1. /\ submitted' = 0 /\ done' = 0 /\ render' = "top" /\ fifoRead' = 0 /\ gapFrames' = 0
      /\ fifoWrite' = Queued(l) /\ delay' = Queued(l) /\ host' = host /\ host.pc = "idle"
  BY DEF ClientStart, PlacesInv
<1>2. Queued(l) \in Nat /\ Queued(l) <= Half /\ Half \in Nat /\ Half' = Half
  BY LatenciesAssumption, FifoFramesAssumption DEF Queued, Smaller, Half
<1>3. Written' = 0 /\ Filled' = 0 /\ Due' = 0
  BY <1>1 DEF Written, Filled, Due
<1> QED BY <1>1, <1>2, <1>3 DEF FramesInv, CopyInv

LEMMA FramesHost == ASSUME TypeOK, JobsInv, FramesInv, HostNext PROVE FramesInv'
<1> USE DEF cursors, startVars
<1>0. fifoRead \in Nat /\ submitted \in Nat /\ host \in HostType /\ host.frames \in Nat
  BY SizesType DEF TypeOK, HostType
<1>1. ASSUME NEW f \in FrameSizes, NEW rt \in BOOLEAN, HostEnter(f, rt) PROVE FramesInv'
  <2>1. /\ Harvest /\ UNCHANGED <<submitted, done, render, fifoRead, fifoWrite, gapFrames, delay>>
        /\ host.pc = "idle" /\ host'.pc = "slot"
    BY <1>1 DEF HostEnter, LockFree, HostIdle
  <2>2. Written' = Written /\ Filled' = Filled /\ Due' = Due
    BY <2>1 DEF Written, Filled, Due
  <2> QED BY <1>0, <2>1, <2>2, HarvestKeeps, FramesKept
<1>2. CASE HostWaitSlot
  <2>1. Harvest /\ UNCHANGED <<submitted, done, render, fifoRead, fifoWrite, gapFrames, delay, host>>
    BY <1>2 DEF HostWaitSlot
  <2>2. Written' = Written /\ Filled' = Filled /\ Due' = Due
    BY <2>1 DEF Written, Filled, Due
  <2> QED BY <1>0, <2>1, <2>2, HarvestKeeps, FramesKept
<1>3. CASE HostPublish
  <2>1. /\ UNCHANGED <<done, render, fifoRead, fifoWrite, gapFrames, delay, jobs>>
        /\ submitted' = submitted + 1 /\ host.pc = "publish" /\ host'.pc = "audio"
        /\ host'.frames = host.frames
    BY <1>0, <1>3 DEF HostPublish, HostType, hostData
  <2>2. Written' = Written /\ Filled' = Filled /\ Due' = Due
    BY <1>0, <2>1 DEF Written, Filled, Due
  <2>3. \A k \in Nat : J(k)' = J(k)
    BY <2>1 DEF J, Slot
  <2> QED BY <1>0, <2>1, <2>2, <2>3, FramesKept
<1>4. CASE HostTake
  <2>1. /\ UNCHANGED <<submitted, done, render, fifoRead, fifoWrite, gapFrames, delay, jobs>>
        /\ host.pc = "audio" /\ host'.pc = "copy" /\ host'.frames = host.frames
    BY <1>0, <1>4 DEF HostTake, HostType, hostData
  <2>2. Written' = Written /\ Filled' = Filled /\ Due' = Due
    BY <2>1 DEF Written, Filled, Due
  <2>3. \A k \in Nat : J(k)' = J(k)
    BY <2>1 DEF J, Slot
  <2> QED BY <1>0, <2>1, <2>2, <2>3, FramesKept
<1>5. CASE HostCopy
  <2>1. /\ Harvest /\ UNCHANGED <<submitted, done, render, fifoWrite, gapFrames, delay>>
        /\ host.pc = "copy" /\ host'.pc = "idle" /\ fifoRead' = fifoRead + host.frames
    BY <1>5 DEF HostCopy, HostIdle
  <2>2. Written' = Written /\ Filled' = Filled /\ Due' = Due
    BY <1>0, <2>1 DEF Written, Filled, Due
  <2>3. fifoRead' \in Nat /\ fifoRead <= fifoRead'
    BY <1>0, <2>1
  <2> QED BY <2>1, <2>2, <2>3, HarvestKeeps, FramesKept
<1> QED BY <1>1, <1>2, <1>3, <1>4, <1>5, FramesDrop, FramesFill DEF HostNext, HostStep

LEMMA FramesRender ==
    ASSUME TypeOK, JobsInv, FramesInv, RenderNext \/ RenderFlush
    PROVE  FramesInv'
<1> USE DEF hostSide, hostData, startVars, RenderMove
<1>0. fifoRead \in Nat /\ done \in Nat /\ Slot(done) \in Slots
  BY SlotType DEF TypeOK
<1>1. CASE RenderFlush \/ RenderStep \/ RenderPark \/ RenderUnpark \/ RenderWrite
  <2>1. /\ UNCHANGED <<submitted, done, jobs, host, fifoRead, fifoWrite, gapFrames, delay>>
        /\ render = "complete" <=> render' = "complete"
    BY <1>1 DEF RenderFlush, RenderStep, RenderPark, RenderUnpark, RenderWrite
  <2>2. Written' = Written /\ Filled' = Filled /\ Due' = Due
    BY <2>1 DEF Written, Filled, Due
  <2>3. \A k \in Nat : J(k)' = J(k)
    BY <2>1 DEF J, Slot
  <2> QED BY <1>0, <2>1, <2>2, <2>3, FramesKept
<1>2. CASE RenderTake \/ RenderRender
  <2>1. /\ UNCHANGED <<submitted, done, host, fifoRead, fifoWrite, gapFrames, delay>>
        /\ render # "complete" /\ render' # "complete"
    BY <1>2 DEF RenderTake, RenderRender
  <2>2. Written' = Written /\ Filled' = Filled /\ Due' = Due
    BY <2>1 DEF Written, Filled, Due
  <2>3. PICK v : jobs' = [jobs EXCEPT ![Slot(done)].midiOut = v]
    BY <1>2 DEF RenderTake, RenderRender
  <2>4. ASSUME NEW k \in Nat
        PROVE  /\ J(k)'.in = J(k).in /\ J(k)'.frames = J(k).frames /\ J(k)'.gap = J(k).gap
    <3>1. Slot(k) \in Slots /\ jobs \in [Slots -> Job]
      BY SlotType DEF TypeOK
    <3> QED BY <1>0, <2>3, <3>1 DEF J, Slot, Job
  <2> QED BY <1>0, <2>1, <2>2, <2>4, FramesKept
<1>3. CASE RenderComplete
  <2>1. /\ UNCHANGED <<submitted, jobs, host, fifoRead, fifoWrite, gapFrames, delay>>
        /\ render = "complete" /\ render' = "top" /\ done' = done + 1
    BY <1>3 DEF RenderComplete
  <2>2. Written' = Written /\ Filled' = Filled /\ Due' = Due
    BY <1>0, <2>1 DEF Written, Filled, Due
  <2>3. \A k \in Nat : J(k)' = J(k)
    BY <2>1 DEF J, Slot
  <2> QED BY <1>0, <2>1, <2>2, <2>3, FramesKept
<1> QED BY <1>1, <1>2, <1>3, FramesPublish DEF RenderNext

LEMMA FramesClient ==
    ASSUME TypeOK, PlacesInv, FramesInv, NEW c \in Clients, ClientNext(c)
    PROVE  FramesInv'
<1> USE DEF hostSide, hostData, startVars
<1>0. fifoRead \in Nat
  BY DEF TypeOK
<1>1. CASE ClientFinish(c) \/ ClientWait(c) \/ ClientEnter(c) \/ ClientResume(c) \/ ClientStop(c)
  <2>1. UNCHANGED <<submitted, done, render, jobs, host, fifoRead, fifoWrite, gapFrames, delay>>
    BY <1>1 DEF ClientFinish, ClientWait, ClientFinished, ClientPause, ClientPaused, ClientEnter,
                ClientResume, ClientStop, renderSide
  <2>2. Written' = Written /\ Filled' = Filled /\ Due' = Due
    BY <2>1 DEF Written, Filled, Due
  <2>3. \A k \in Nat : J(k)' = J(k)
    BY <2>1 DEF J, Slot
  <2> QED BY <1>0, <2>1, <2>2, <2>3, FramesKept
<1>2. CASE ClientJoined(c)
  <2>1. UNCHANGED <<submitted, done, render, host, fifoRead, fifoWrite, gapFrames, delay>>
    BY <1>2 DEF ClientJoined
  <2>2. Written' = Written /\ Filled' = Filled /\ Due' = Due
    BY <2>1 DEF Written, Filled, Due
  <2>3. ASSUME NEW k \in Nat
        PROVE  /\ J(k)'.in = J(k).in /\ J(k)'.frames = J(k).frames /\ J(k)'.gap = J(k).gap
    <3>1. Slot(k) \in Slots /\ jobs \in [Slots -> Job]
      BY SlotType DEF TypeOK
    <3> QED BY <1>2, <3>1 DEF ClientJoined, J, Slot, Job
  <2> QED BY <1>0, <2>1, <2>2, <2>3, FramesKept
<1> QED BY <1>1, <1>2, FramesStart DEF ClientNext, ClientWork

\* What the host found in the FIFO stays there until it has copied it.
LEMMA CopyStep == ASSUME TypeOK, PlacesInv, CopyInv, [Next]_vars PROVE CopyInv'
<1>0. fifoRead \in Nat /\ fifoWrite \in Nat /\ host \in HostType /\ host.available \in Nat
  BY DEF TypeOK, HostType
<1>1. CASE HostTake
  <2>1. /\ UNCHANGED <<fifoRead, fifoWrite>>
        /\ host'.available = Smaller(Available, host.frames)
    BY <1>0, <1>1 DEF HostTake, HostType
  <2> QED BY <1>0, <2>1, SizesType DEF CopyInv, Smaller, Available
<1>2. CASE \/ HostWaitSlot \/ HostDrop \/ HostFill \/ HostPublish \/ HostCopy
           \/ \E f \in FrameSizes, rt \in BOOLEAN : HostEnter(f, rt)
  <2>1. CASE HostWaitSlot \/ HostDrop \/ HostFill \/ HostPublish \/ HostCopy
    <3>1. host'.pc # "copy"
      BY <1>0, <2>1 DEF HostWaitSlot, HostDrop, HostFill, HostPublish, HostCopy, HostIdle,
                        HostType
    <3> QED BY <3>1 DEF CopyInv
  <2>2. ASSUME NEW f \in FrameSizes, NEW rt \in BOOLEAN, HostEnter(f, rt) PROVE CopyInv'
    <3>1. host'.pc = "slot"
      BY <2>2 DEF HostEnter, HostIdle
    <3> QED BY <3>1 DEF CopyInv
  <2> QED BY <1>2, <2>1, <2>2
<1>3. CASE RenderPublish
  <2>1. /\ UNCHANGED <<fifoRead, host>> /\ fifoWrite' = fifoWrite + Needed /\ Needed \in Nat
    <3>1. Needed \in Nat
      <4>1. done \in Nat
        BY DEF TypeOK
      <4> QED BY <4>1, SizesType DEF Needed
    <3> QED BY <1>3, <3>1 DEF RenderPublish, hostSide
  <2> QED BY <1>0, <2>1 DEF CopyInv
<1>4. CASE (RenderNext \/ RenderFlush) /\ ~RenderPublish
  <2>1. UNCHANGED <<fifoRead, fifoWrite, host>>
    BY <1>4 DEF RenderNext, RenderFlush, RenderStep, RenderPark, RenderUnpark, RenderTake,
                RenderRender, RenderWrite, RenderComplete, hostSide
  <2> QED BY <2>1 DEF CopyInv
<1>5. ASSUME NEW c \in Clients, ClientNext(c) PROVE CopyInv'
  <2>1. CASE \/ ClientFinish(c) \/ ClientWait(c) \/ ClientEnter(c) \/ ClientWork(c)
             \/ ClientStop(c)
    <3>1. UNCHANGED <<fifoRead, fifoWrite, host>>
      BY <2>1 DEF ClientFinish, ClientWait, ClientFinished, ClientPause, ClientPaused,
                  ClientEnter, ClientWork, ClientResume, ClientJoined, ClientStop, hostSide,
                  renderSide
    <3> QED BY <3>1 DEF CopyInv
  <2> QED BY <1>5, <2>1, FramesStart DEF ClientNext
<1>6. CASE UNCHANGED vars
  BY <1>6 DEF CopyInv, vars
<1> QED BY <1>1, <1>2, <1>3, <1>4, <1>5, <1>6 DEF Next, HostNext, HostStep

LEMMA RingStep == TypeOK /\ RingInv /\ [Next]_vars => RingInv'
<1> SUFFICES ASSUME TypeOK, PlacesInv, JobsInv, FramesInv, CopyInv, [Next]_vars PROVE RingInv'
  BY DEF RingInv
<1>1. PlacesInv' /\ CopyInv'
  BY PlacesStep, CopyStep
<1>2. JobsInv' /\ FramesInv'
  <2>1. CASE UNCHANGED vars
    <3>1. JobsInv'
      BY <2>1, JobsKept DEF vars, cursors, pauseVars
    <3>2. UNCHANGED <<submitted, done, render, jobs, host, fifoRead, fifoWrite, gapFrames, delay>>
      BY <2>1 DEF vars, cursors, hostData, startVars
    <3>3. Written' = Written /\ Filled' = Filled /\ Due' = Due /\ \A k \in Nat : J(k)' = J(k)
      BY <3>2 DEF Written, Filled, Due, J, Slot
    <3>4. fifoRead \in Nat
      BY DEF TypeOK
    <3> QED BY <3>1, <3>2, <3>3, <3>4, FramesKept
  <2> QED BY <2>1, JobsHost, JobsRender, JobsClient, FramesHost, FramesRender, FramesClient
          DEF Next
<1> QED BY <1>1, <1>2 DEF RingInv

LEMMA RingCorrect == Spec => [](TypeOK /\ RingInv)
BY RingInit, RingStep, TypeCorrect, PTL DEF Spec

\* A slot is filled again only when its block is rendered and its MIDI collected, for any
\* ring, blocks and threads (md::AsyncRender::process and harvest, mdasyncrender.cpp 155-205).
THEOREM SlotsCorrect == Spec => []SlotReuse
<1>1. TypeOK /\ JobsInv => SlotReuse
  <2> SUFFICES ASSUME TypeOK, JobsInv, host.pc = "publish"
               PROVE  /\ render \in OnDevice => Slot(submitted) # Slot(done)
                      /\ jobs[Slot(submitted)].midiOut = NoMidi
    BY DEF SlotReuse
  <2>1. /\ submitted \in Nat /\ harvested \in Nat /\ done \in Nat
        /\ submitted < harvested + JobCount /\ harvested <= done /\ done <= submitted
        /\ Slot(submitted) \in Slots
    BY SlotType DEF TypeOK, JobsInv
  <2>2. \A k \in harvested .. submitted : k < submitted => Slot(k) # Slot(submitted)
    BY <2>1, SlotsDiffer, JobCountAssumption
  <2>3. render \in OnDevice => Slot(submitted) # Slot(done)
    BY <2>1, <2>2 DEF JobsInv
  <2>4. SUFFICES ASSUME jobs[Slot(submitted)].midiOut # NoMidi PROVE FALSE
    BY <2>3
  <2>5. PICK k \in harvested .. done :
           /\ Slot(k) = Slot(submitted)
           /\ k = done => render \in {"write", "publish", "complete"}
    BY <2>1, <2>4 DEF JobsInv
  <2>6. k < submitted
    BY <2>1, <2>5 DEF JobsInv, OnDevice
  <2> QED BY <2>1, <2>2, <2>5, <2>6
<1> QED BY <1>1, RingCorrect, PTL DEF RingInv

\* The room a job needs is there when it is rendered.
LEMMA RoomForJob == TypeOK /\ RingInv => FifoHasRoom
<1> SUFFICES ASSUME TypeOK, JobsInv, FramesInv, render = "write"
             PROVE  Available + Needed <= FifoFrames
  BY DEF RingInv, FifoHasRoom
<1>1. /\ Written = done /\ Written < Filled /\ Written \in Nat /\ Filled \in Nat
      /\ Written \in Written .. Filled - 1
  BY WrittenFilled, RingTypes
<1>2. PICK job : job = J(Written)
  OBVIOUS
<1>3. /\ job.in \in Nat /\ job.gap \in Nat /\ job.frames \in Nat
      /\ 2 * job.frames <= FifoFrames /\ 2 * Half <= FifoFrames /\ Half \in Nat
  BY <1>1, <1>2, RingTypes
<1>4. /\ job.gap <= Half /\ job.in <= fifoRead /\ delay <= Half
      /\ fifoWrite + job.gap <= job.in + delay
  BY <1>1, <1>2 DEF FramesInv
<1>5. Needed = job.gap + job.frames
  BY <1>1, <1>2 DEF Needed, J
<1>6. fifoRead \in Nat /\ fifoWrite \in Nat /\ delay \in Nat
  BY DEF TypeOK
<1> QED BY <1>3, <1>4, <1>5, <1>6, FifoFramesAssumption DEF Available

\* The render thread never waits for room: the FIFO takes the latency, the gap and the
\* block, for any sizes and latencies (md::AsyncRender::threadFunc and process,
\* mdasyncrender.cpp).
THEOREM RoomCorrect == Spec => []FifoHasRoom
BY RingCorrect, RoomForJob, PTL

\* No cell of the FIFO is copied while it is written (the same functions, which share the
\* FIFO without a lock).
THEOREM NoRaceCorrect == Spec => []FifoNoRace
<1>1. TypeOK /\ RingInv => FifoNoRace
  <2> SUFFICES ASSUME TypeOK, RingInv, host.pc = "copy", render = "write",
                      NEW i \in 0 .. FifoFrames - 1,
                      NEW a \in 0 .. host.available - 1, At(fifoRead + a) = i,
                      NEW b \in 0 .. Needed - 1, At(fifoWrite + b) = i
               PROVE  FALSE
    BY DEF FifoNoRace, InRing
  <2>1. /\ fifoRead \in Nat /\ fifoWrite \in Nat /\ host.available \in Nat /\ Needed \in Nat
    <3>1. done \in Nat /\ fifoRead \in Nat /\ fifoWrite \in Nat /\ host.available \in Nat
      BY DEF TypeOK
    <3> QED BY <3>1, SizesType DEF Needed
  <2>2. fifoRead + host.available <= fifoWrite
    BY <2>1 DEF RingInv, CopyInv
  <2>3. fifoWrite - fifoRead + Needed <= FifoFrames
    BY <2>1, <2>2, RoomForJob DEF FifoHasRoom, Available
  <2>4. /\ fifoRead + a \in Nat /\ fifoWrite + b \in Nat /\ fifoRead + a < fifoWrite + b
        /\ (fifoWrite + b) - (fifoRead + a) < FifoFrames
    BY <2>1, <2>2, <2>3, FifoFramesAssumption
  <2> QED BY <2>4, ModInjective, FifoFramesAssumption DEF At
<1> QED BY <1>1, RingCorrect, PTL
=============================================================================
