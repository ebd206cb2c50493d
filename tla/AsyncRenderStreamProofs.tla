----------------------- MODULE AsyncRenderStreamProofs -----------------------
(***************************************************************************)
(* What AsyncRender gives back to the host, for every value of its         *)
(* constants: the host's input, late by exactly the latency, silence for   *)
(* what was dropped, and the MIDI of every block once and in order.        *)
(***************************************************************************)
EXTENDS AsyncRenderProofs

----------------------------------------------------------------------------
(* The invariant.  While the gap's cap has cut nothing, the bounds of      *)
(* FramesInv are equalities, and every cell's frame follows from them.     *)

Block(k) == J(k).in .. J(k).in + J(k).frames - 1
Gap(k) == J(k).in - J(k).gap .. J(k).in - 1

\* A job's gap and frames end exactly the latency behind the host's own position of them.
ExactInv ==
    /\ \A k \in Written .. Filled - 2 : J(k).in + J(k).frames + J(k + 1).gap = J(k + 1).in
    /\ Written < Filled =>
          /\ fifoWrite + J(Written).gap = J(Written).in + delay
          /\ J(Filled - 1).in + J(Filled - 1).frames + gapFrames = Due
    /\ Written = Filled => fifoWrite + gapFrames = Due + delay

\* The gaps hold dropped frames and the blocks none.
DroppedInv ==
    /\ \A k \in Written .. Filled - 1 :
          /\ J(k).in + J(k).frames <= Due
          /\ Gap(k) \subseteq dropped /\ Block(k) \cap dropped = {}
    /\ Due - gapFrames .. Due - 1 \subseteq dropped
    /\ \A p \in dropped : p < Due

\* The cells from..upTo-1 hold what the host should play.
Holds(from, upTo) == \A i \in from .. upTo - 1 : fifo[At(i)] = Expected(i)

CellsInv ==
    /\ render = "write" => renderOut = J(done).in
    /\ render = "publish" => Holds(fifoWrite, fifoWrite + Needed)
    /\ Holds(fifoRead, fifoWrite)

AudioInv == cut = 0 => ExactInv /\ DroppedInv /\ CellsInv

\* What keeps a job's place in the FIFO.
SameJobs == \A k \in Nat : /\ J(k)'.in = J(k).in /\ J(k)'.frames = J(k).frames
                           /\ J(k)'.gap = J(k).gap
SamePositions ==
    /\ Written' = Written /\ Filled' = Filled /\ Due' = Due
    /\ UNCHANGED <<gapFrames, delay, fifoWrite, dropped, cut>>
    /\ fifoRead' \in Nat /\ fifoRead <= fifoRead'
    /\ SameJobs

LEMMA PositionsKept ==
    ASSUME TypeOK, ExactInv, DroppedInv, SamePositions
    PROVE  ExactInv' /\ DroppedInv'
<1> USE DEF SamePositions, SameJobs
<1>1. /\ Written \in Nat /\ Filled \in Nat
      /\ \A k \in Written .. Filled - 1 : k \in Nat
  BY RingTypes DEF TypeOK
<1>2. ExactInv'
  <2>1. \A k \in Written .. Filled - 2 :
           J(k)'.in + J(k)'.frames + J(k + 1)'.gap = J(k + 1)'.in
    <3> TAKE k \in Written .. Filled - 2
    <3>1. J(k).in + J(k).frames + J(k + 1).gap = J(k + 1).in /\ k \in Nat /\ k + 1 \in Nat
      BY <1>1 DEF ExactInv
    <3> QED BY <3>1
  <2>2. Written < Filled =>
            /\ fifoWrite + J(Written)'.gap = J(Written)'.in + delay
            /\ J(Filled - 1)'.in + J(Filled - 1)'.frames + gapFrames = Due
    <3> HAVE Written < Filled
    <3>1. Filled - 1 \in Nat
      BY <1>1
    <3> QED BY <1>1, <3>1 DEF ExactInv
  <2>3. Written = Filled => fifoWrite + gapFrames = Due + delay
    BY DEF ExactInv
  <2>4. J(Written)' = jobs'[Slot(Written')] /\ J(Filled - 1)' = jobs'[Slot(Filled' - 1)]
    BY DEF J, Slot
  <2> QED BY <2>1, <2>2, <2>3, <2>4 DEF ExactInv
<1>3. DroppedInv'
  <2>1. ASSUME NEW k \in Written .. Filled - 1
        PROVE  /\ J(k)'.in + J(k)'.frames <= Due
               /\ Gap(k)' \subseteq dropped /\ Block(k)' \cap dropped = {}
    <3>1. k \in Nat
      BY <1>1
    <3>2. Gap(k)' = Gap(k) /\ Block(k)' = Block(k)
      BY <3>1 DEF Gap, Block
    <3> QED BY <3>1, <3>2 DEF DroppedInv
  <2> QED BY <2>1 DEF DroppedInv
<1> QED BY <1>2, <1>3

\* Steps that move no job, no position and no frame.
LEMMA AudioKept ==
    ASSUME TypeOK, AudioInv, SamePositions, UNCHANGED fifo,
           render' = "write" => \/ UNCHANGED <<render, done, renderOut>>
                                \/ renderOut' = jobs'[Slot(done')].in,
           render' = "publish" => UNCHANGED <<render, done>>
    PROVE  AudioInv'
<1> SUFFICES ASSUME ExactInv, DroppedInv, CellsInv PROVE (ExactInv /\ DroppedInv /\ CellsInv)'
  BY DEF AudioInv, SamePositions
<1> USE DEF SamePositions, SameJobs
<1>1. /\ fifoRead \in Nat /\ fifoWrite \in Nat /\ done \in Nat
  BY DEF TypeOK
<1>2. CellsInv'
  <2>1. \A i : Expected(i)' = Expected(i)
    BY DEF Expected
  <2>2. \A i : fifo'[At(i)] = fifo[At(i)]
    OBVIOUS
  <2>3. Holds(fifoRead, fifoWrite)'
    BY <1>1, <2>1, <2>2 DEF CellsInv, Holds, At
  <2>4. render' = "write" => renderOut' = jobs'[Slot(done')].in
    <3>1. CASE UNCHANGED <<render, done, renderOut>>
      BY <1>1, <3>1 DEF CellsInv, J, Slot
    <3> QED BY <3>1
  <2>5. render' = "publish" => Holds(fifoWrite, fifoWrite + Needed)'
    <3> HAVE render' = "publish"
    <3>1. Needed' = Needed /\ Holds(fifoWrite, fifoWrite + Needed)
      BY <1>1 DEF CellsInv, Needed, J, Slot
    <3> QED BY <2>1, <2>2, <3>1 DEF Holds, At
  <2> QED BY <2>3, <2>4, <2>5 DEF CellsInv, J, Slot
<1> QED BY <1>2, PositionsKept

----------------------------------------------------------------------------
(* The host hands blocks over or drops them.                               *)

LEMMA AddBoth ==
    ASSUME NEW a \in Nat, NEW b \in Nat, NEW c \in Nat, NEW f \in Nat, a + b = c
    PROVE  a + (b + f) = c + f
OBVIOUS

\* The frames dropped are behind every frame that is in the FIFO or goes there.
LEMMA AudioDrop ==
    ASSUME TypeOK, JobsInv, FramesInv, AudioInv, HostDrop
    PROVE  AudioInv'
<1>1. /\ host.pc = "slot" /\ host'.pc = "audio" /\ host'.frames = host.frames
      /\ host.frames \in Nat
      /\ UNCHANGED <<submitted, done, render, renderOut, jobs, fifo, fifoRead, fifoWrite, delay>>
  BY SizesType DEF HostDrop, TypeOK, cursors, startVars
<1>2. /\ Written' = Written /\ Filled' = Filled /\ Due = fifoRead
      /\ Due' = fifoRead + host.frames /\ Needed' = Needed
      /\ \A k : J(k)' = J(k)
  BY <1>1 DEF Written, Filled, Due, Needed, J, Slot, TypeOK
<1>3. /\ gapFrames' = Smaller(gapFrames + host.frames, Half)
      /\ cut' = cut + (gapFrames + host.frames - gapFrames')
      /\ dropped' = dropped \cup fifoRead .. fifoRead + host.frames - 1
  BY DEF HostDrop, Half
<1>4. /\ Written \in Nat /\ Filled \in Nat /\ fifoRead \in Nat /\ fifoWrite \in Nat
      /\ gapFrames \in Nat /\ cut \in Nat /\ delay \in Nat /\ Half \in Nat
      /\ \A k \in Nat : J(k).in \in Nat /\ J(k).gap \in Nat /\ J(k).frames \in Nat
  BY RingTypes DEF TypeOK
<1>5. SUFFICES ASSUME cut' = 0 PROVE ExactInv' /\ DroppedInv' /\ CellsInv'
  BY DEF AudioInv
<1>6. cut = 0 /\ gapFrames' = gapFrames + host.frames
  BY <1>1, <1>3, <1>4, <1>5 DEF Smaller
<1>7. ExactInv /\ DroppedInv /\ CellsInv
  BY <1>6 DEF AudioInv
<1>8. ExactInv'
  <2>1. \A k \in Written .. Filled - 2 : J(k)'.in + J(k)'.frames + J(k + 1)'.gap = J(k + 1)'.in
    BY <1>2, <1>7 DEF ExactInv
  <2>2. Written < Filled =>
            /\ fifoWrite + J(Written).gap = J(Written).in + delay
            /\ J(Filled - 1).in + J(Filled - 1).frames + gapFrames' = Due'
    <3> HAVE Written < Filled
    <3>1. PICK last : last = J(Filled - 1).in + J(Filled - 1).frames
      OBVIOUS
    <3>2. /\ last + gapFrames = fifoRead
          /\ last \in Nat /\ gapFrames \in Nat /\ host.frames \in Nat /\ fifoRead \in Nat
      BY <1>1, <1>2, <1>4, <1>7, <3>1 DEF ExactInv
    <3>3. last + (gapFrames + host.frames) = fifoRead + host.frames
      BY <3>2, AddBoth
    <3>4. last + gapFrames' = Due'
      BY <1>2, <1>6, <3>3
    <3> QED BY <1>7, <3>1, <3>4 DEF ExactInv
  <2>3. Written = Filled => fifoWrite + gapFrames' = Due' + delay
    <3> HAVE Written = Filled
    <3>1. fifoWrite + gapFrames = fifoRead + delay
      BY <1>2, <1>7 DEF ExactInv
    <3>2. PICK r : r = fifoRead + delay
      OBVIOUS
    <3>3. fifoWrite \in Nat /\ gapFrames \in Nat /\ host.frames \in Nat /\ r \in Nat
      BY <1>1, <1>4, <3>2
    <3>4. fifoWrite + (gapFrames + host.frames) = r + host.frames
      BY <3>1, <3>2, <3>3, AddBoth
    <3>5. r + host.frames = (fifoRead + host.frames) + delay
      BY <1>1, <1>4, <3>2
    <3> QED BY <1>2, <1>6, <3>4, <3>5
  <2>4. J(Written)' = J(Written) /\ J(Filled - 1)' = J(Filled - 1)
    BY <1>1, <1>2 DEF J, Slot
  <2> QED BY <1>1, <1>2, <2>1, <2>2, <2>3, <2>4 DEF ExactInv
<1>9. \A p \in dropped : p \in Nat /\ p < fifoRead
  BY <1>2, <1>7 DEF DroppedInv, TypeOK
<1>10. DroppedInv'
  <2>1. ASSUME NEW k \in Written .. Filled - 1
        PROVE  /\ J(k).in + J(k).frames <= Due'
               /\ Gap(k) \subseteq dropped' /\ Block(k) \cap dropped' = {}
    <3>1. k \in Nat
      BY <1>4
    <3>2. J(k).in + J(k).frames <= fifoRead /\ Gap(k) \subseteq dropped
      BY <1>2, <1>7 DEF DroppedInv
    <3>3. Block(k) \cap dropped = {}
      BY <1>7 DEF DroppedInv
    <3>4. Block(k) \cap fifoRead .. fifoRead + host.frames - 1 = {}
      BY <1>1, <1>4, <3>1, <3>2 DEF Block
    <3> QED BY <1>1, <1>2, <1>3, <1>4, <3>1, <3>2, <3>3, <3>4
  <2>2. Due' - gapFrames' .. Due' - 1 \subseteq dropped'
    <3>1. fifoRead - gapFrames .. fifoRead - 1 \subseteq dropped
      BY <1>2, <1>7 DEF DroppedInv
    <3> QED BY <1>1, <1>2, <1>3, <1>4, <1>6, <3>1
  <2>3. \A p \in dropped' : p < Due'
    BY <1>1, <1>2, <1>3, <1>4, <1>9
  <2>4. \A k : Gap(k)' = Gap(k) /\ Block(k)' = Block(k)
    BY <1>2 DEF Gap, Block
  <2> QED BY <1>2, <2>1, <2>2, <2>3, <2>4 DEF DroppedInv
<1>11. CellsInv'
  <2>1. ASSUME NEW i \in Int, i < fifoRead + delay PROVE Expected(i)' = Expected(i)
    <3>1. i - delay \notin fifoRead .. fifoRead + host.frames - 1
      BY <1>1, <1>4, <2>1
    <3> QED BY <1>1, <1>3, <3>1 DEF Expected
  <2>2. fifoWrite <= fifoRead + delay
    <3>1. CASE Written < Filled
      <4>1. fifoWrite + J(Written).gap = J(Written).in + delay /\ J(Written).in <= fifoRead
        BY <1>4, <1>7, <3>1 DEF ExactInv, FramesInv
      <4> QED BY <1>4, <4>1
    <3>2. CASE Written = Filled
      BY <1>2, <1>4, <1>7, <3>2 DEF ExactInv
    <3> QED BY <1>4, <3>1, <3>2, WrittenFilled
  <2>3. render = "publish" => fifoWrite + Needed <= fifoRead + delay
    <3> HAVE render = "publish"
    <3>1. Written = done /\ Written < Filled /\ Written \in Written .. Filled - 1
      BY <1>4, WrittenFilled
    <3>2. PICK job : job = J(Written)
      OBVIOUS
    <3>3. fifoWrite + job.gap = job.in + delay /\ job.in + job.frames <= fifoRead
      BY <1>2, <1>7, <3>1, <3>2 DEF ExactInv, DroppedInv
    <3>4. Needed = job.gap + job.frames /\ job.in \in Nat /\ job.gap \in Nat /\ job.frames \in Nat
      BY <1>4, <3>1, <3>2 DEF Needed, J
    <3> QED BY <1>4, <3>3, <3>4
  <2>4. Needed \in Nat
    <3>1. done \in Nat
      BY DEF TypeOK
    <3>2. PICK g \in Nat, f \in Nat : g = jobs[Slot(done)].gap /\ f = jobs[Slot(done)].frames
      BY <3>1, SizesType
    <3> QED BY <3>2 DEF Needed
  <2>5. Holds(fifoRead, fifoWrite)'
    BY <1>1, <1>4, <1>7, <2>1, <2>2 DEF CellsInv, Holds, At
  <2>6. render = "publish" => Holds(fifoWrite, fifoWrite + Needed)'
    BY <1>1, <1>2, <1>4, <1>7, <2>1, <2>3, <2>4 DEF CellsInv, Holds, At
  <2> QED BY <1>1, <1>2, <1>7, <2>5, <2>6 DEF CellsInv, J, Slot
<1> QED BY <1>8, <1>10, <1>11

\* A block goes behind the jobs in the ring, its gap behind the last of them.
LEMMA AudioFill ==
    ASSUME TypeOK, JobsInv, AudioInv, HostFill
    PROVE  AudioInv'
<1>1. /\ host.pc = "slot" /\ host'.pc = "publish" /\ host'.frames = host.frames
      /\ gapFrames' = 0
      /\ UNCHANGED <<submitted, done, harvested, render, renderOut, fifo, fifoRead, fifoWrite,
                     delay, dropped, cut>>
  BY DEF HostFill, TypeOK, cursors, startVars
<1>2. /\ Written' = Written /\ Filled = submitted /\ Filled' = submitted + 1
      /\ Due = fifoRead /\ Due' = fifoRead + host.frames
  BY <1>1 DEF Written, Filled, Due, TypeOK
<1>3. /\ submitted \in Nat /\ harvested \in Nat /\ done \in Nat /\ Written \in Nat
      /\ submitted - harvested < JobCount /\ harvested <= done /\ done <= Written
      /\ Written <= submitted /\ gapFrames \in Nat /\ delay \in Nat
      /\ fifoRead \in Nat /\ fifoWrite \in Nat /\ host.frames \in Nat
  <2>1. /\ submitted \in Nat /\ harvested \in Nat /\ done \in Nat /\ gapFrames \in Nat
        /\ delay \in Nat /\ fifoRead \in Nat /\ fifoWrite \in Nat
    BY DEF TypeOK
  <2>2. host.frames \in Nat /\ Written \in Nat
    BY RingTypes, SizesType
  <2>3. submitted - harvested < JobCount
    BY <2>1, JobCountAssumption DEF HostFill, SlotsBusy
  <2>4. harvested <= done /\ done <= Written
    BY <2>1 DEF JobsInv, Written
  <2>5. Written <= submitted
    BY <1>2, WrittenFilled
  <2> QED BY <2>1, <2>2, <2>3, <2>4, <2>5
<1>4. \A k \in done .. submitted - 1 : J(k)' = J(k)
  <2> TAKE k \in done .. submitted - 1
  <2>1. k \in Nat /\ k < submitted /\ submitted - k < JobCount
    BY <1>3, JobCountAssumption
  <2>2. Slot(k) # Slot(submitted) /\ Slot(k) \in Slots
    BY <1>3, <2>1, SlotsDiffer, SlotType
  <2> QED BY <2>2 DEF HostFill, J, TypeOK, Slot
<1>5. LET new == jobs'[Slot(submitted)]
      IN  new.in = fifoRead /\ new.frames = host.frames /\ new.gap = gapFrames
  <2>1. Slot(submitted) \in Slots
    BY <1>3, SlotType
  <2> QED BY <2>1 DEF HostFill, TypeOK
<1>6. PICK new : new = jobs'[Slot(submitted)]
  OBVIOUS
<1>7. new.in = fifoRead /\ new.frames = host.frames /\ new.gap = gapFrames
  BY <1>5, <1>6
<1>8. SUFFICES ASSUME ExactInv, DroppedInv, CellsInv PROVE ExactInv' /\ DroppedInv' /\ CellsInv'
  BY <1>1 DEF AudioInv
<1>9. Filled' - 1 = submitted /\ Filled' - 2 = submitted - 1
  BY <1>2, <1>3
<1>10. ExactInv'
  <2>1. ASSUME NEW k \in Written .. submitted - 1
        PROVE  jobs'[Slot(k)].in + jobs'[Slot(k)].frames + jobs'[Slot(k + 1)].gap
                  = jobs'[Slot(k + 1)].in
    <3>1. jobs'[Slot(k)] = J(k)
      BY <1>3, <1>4 DEF J, Slot
    <3>2. CASE k = submitted - 1
      <4>1. k + 1 = submitted /\ Written < Filled /\ k = Filled - 1
        BY <1>2, <1>3, <3>2
      <4>2. J(k).in + J(k).frames + gapFrames = fifoRead
        BY <1>2, <1>8, <4>1 DEF ExactInv
      <4> QED BY <1>6, <1>7, <3>1, <4>1, <4>2
    <3>3. CASE k # submitted - 1
      <4>1. k \in Written .. Filled - 2 /\ k + 1 \in done .. submitted - 1
        BY <1>2, <1>3, <3>3
      <4>2. J(k).in + J(k).frames + J(k + 1).gap = J(k + 1).in
        BY <1>8, <4>1 DEF ExactInv
      <4>3. jobs'[Slot(k + 1)] = J(k + 1)
        BY <1>4, <4>1 DEF J, Slot
      <4> QED BY <3>1, <4>2, <4>3
    <3> QED BY <3>2, <3>3
  <2>2. fifoWrite + jobs'[Slot(Written)].gap = jobs'[Slot(Written)].in + delay
    <3>1. CASE Written = submitted
      <4>1. fifoWrite + gapFrames = fifoRead + delay
        BY <1>2, <1>8, <3>1 DEF ExactInv
      <4> QED BY <1>6, <1>7, <3>1, <4>1
    <3>2. CASE Written # submitted
      <4>1. Written < Filled /\ Written \in done .. submitted - 1
        BY <1>2, <1>3, <3>2
      <4>2. fifoWrite + J(Written).gap = J(Written).in + delay
        BY <1>8, <4>1 DEF ExactInv
      <4>3. jobs'[Slot(Written)] = J(Written)
        BY <1>4, <1>2, <4>1 DEF J, Slot
      <4> QED BY <4>2, <4>3
    <3> QED BY <3>1, <3>2
  <2>3. new.in + new.frames + gapFrames' = Due'
    <3>1. fifoRead + host.frames + 0 = fifoRead + host.frames
      BY <1>3
    <3> QED BY <1>1, <1>2, <1>7, <3>1
  <2>4. J(Written)' = jobs'[Slot(Written)] /\ J(Filled - 1)' = new
    BY <1>2, <1>6, <1>9 DEF J, Slot
  <2>5. \A k \in Written' .. Filled' - 2 :
           J(k)'.in + J(k)'.frames + J(k + 1)'.gap = J(k + 1)'.in
    BY <1>2, <1>9, <2>1 DEF J, Slot
  <2>6. Written' # Filled'
    BY <1>2, <1>3
  <2> QED BY <1>1, <2>2, <2>3, <2>4, <2>5, <2>6 DEF ExactInv
<1>11. DroppedInv'
  <2>1. ASSUME NEW k \in Written .. submitted - 1
        PROVE  /\ J(k)'.in + J(k)'.frames <= Due'
               /\ Gap(k)' \subseteq dropped /\ Block(k)' \cap dropped = {}
    <3>1. J(k)' = J(k) /\ k \in Nat /\ k \in Written .. Filled - 1
      BY <1>2, <1>3, <1>4
    <3>2. /\ J(k).in + J(k).frames <= fifoRead
          /\ Gap(k) \subseteq dropped /\ Block(k) \cap dropped = {}
      BY <1>2, <1>8, <3>1 DEF DroppedInv
    <3>3. Gap(k)' = Gap(k) /\ Block(k)' = Block(k)
      BY <3>1 DEF Gap, Block
    <3>4. J(k).in \in Nat /\ J(k).frames \in Nat
      BY <3>1, RingTypes
    <3>5. J(k).in + J(k).frames <= fifoRead + host.frames
      BY <1>3, <3>2, <3>4
    <3> QED BY <1>2, <3>1, <3>2, <3>3, <3>5
  <2>2. /\ jobs'[Slot(submitted)].in + jobs'[Slot(submitted)].frames <= Due'
        /\ fifoRead - gapFrames .. fifoRead - 1 \subseteq dropped
        /\ (fifoRead .. fifoRead + host.frames - 1) \cap dropped = {}
    <3>1. \A p \in dropped : p < fifoRead
      BY <1>2, <1>8 DEF DroppedInv
    <3>2. (fifoRead .. fifoRead + host.frames - 1) \cap dropped = {}
      BY <1>3, <3>1 DEF TypeOK
    <3>3. fifoRead + host.frames <= fifoRead + host.frames
      BY <1>3
    <3> QED BY <1>2, <1>6, <1>7, <1>8, <3>2, <3>3 DEF DroppedInv
  <2>3. /\ Gap(submitted)' = fifoRead - gapFrames .. fifoRead - 1
        /\ Block(submitted)' = fifoRead .. fifoRead + host.frames - 1
    BY <1>1, <1>6, <1>7 DEF Gap, Block, J, Slot
  <2>4. J(submitted)' = jobs'[Slot(submitted)]
    BY <1>1 DEF J, Slot
  <2>5. ASSUME NEW k \in Written .. submitted
        PROVE  /\ J(k)'.in + J(k)'.frames <= Due'
               /\ Gap(k)' \subseteq dropped /\ Block(k)' \cap dropped = {}
    <3>1. CASE k \in Written .. submitted - 1
      BY <2>1, <3>1
    <3>2. CASE k = submitted
      <4>1. J(k)' = jobs'[Slot(submitted)] /\ Gap(k)' = Gap(submitted)'
            /\ Block(k)' = Block(submitted)'
        BY <1>1, <3>2 DEF J, Slot, Gap, Block
      <4> QED BY <2>2, <2>3, <4>1
    <3> QED BY <1>3, <3>1, <3>2
  <2>6. Due' - gapFrames' .. Due' - 1 = {} /\ \A p \in dropped : p < Due'
    <3>1. \A p \in dropped : p \in Nat /\ p < fifoRead
      BY <1>2, <1>8 DEF DroppedInv, TypeOK
    <3>2. \A p \in dropped : p < fifoRead + host.frames
      BY <1>3, <3>1
    <3>3. (fifoRead + host.frames) - 0 .. (fifoRead + host.frames) - 1 = {}
      BY <1>3
    <3> QED BY <1>1, <1>2, <3>2, <3>3
  <2> QED BY <1>1, <1>2, <1>9, <2>5, <2>6 DEF DroppedInv
<1>12. CellsInv'
  <2>1. \A i : Expected(i)' = Expected(i) /\ fifo'[At(i)] = fifo[At(i)]
    BY <1>1 DEF Expected
  <2>2. ASSUME render \in {"write", "publish"}
        PROVE  J(done)' = jobs'[Slot(done)] /\ jobs'[Slot(done)] = J(done)
    <3>1. done \in done .. submitted - 1
      BY <1>3, <2>2 DEF JobsInv, OnDevice
    <3> QED BY <1>1, <1>4, <3>1 DEF J, Slot
  <2>3. render = "write" => renderOut' = J(done)'.in
    BY <1>1, <1>8, <2>2 DEF CellsInv
  <2>4. Holds(fifoRead, fifoWrite)'
    BY <1>1, <1>8, <2>1 DEF CellsInv, Holds, At
  <2>5. render = "publish" => Holds(fifoWrite, fifoWrite + Needed)'
    <3> HAVE render = "publish"
    <3>1. Needed' = Needed
      BY <1>1, <2>2 DEF Needed, J, Slot
    <3>2. Holds(fifoWrite, fifoWrite + Needed)
      BY <1>8 DEF CellsInv
    <3> QED BY <1>1, <2>1, <3>1, <3>2 DEF Holds, At
  <2> QED BY <1>1, <2>3, <2>4, <2>5 DEF CellsInv
<1> QED BY <1>10, <1>11, <1>12

----------------------------------------------------------------------------
(* The render thread writes its job into the FIFO.                         *)

\* How far a cell is behind the write position, on either side of it.
LEMMA AtDistance ==
    ASSUME NEW i \in Nat, NEW w \in Nat, NEW x \in 0 .. FifoFrames - 1,
           x = i - w \/ x = i - w + FifoFrames
    PROVE  At(At(i) - w) = x
BY ModDistance, FifoFramesAssumption DEF At

\* The frame that goes to the i-th position, the job's gap ending the latency behind it.
LEMMA FrameOf ==
    ASSUME NEW i \in Nat, NEW w \in Nat, NEW in \in Nat, NEW gap \in Nat, NEW frames \in Nat,
           NEW d \in Nat, NEW x \in Nat,
           w + gap = in + d, x = i - w, x < gap + frames
    PROVE  /\ x < gap => i < d \/ i - d \in in - gap .. in - 1
           /\ x >= gap => /\ ~(i < d) /\ i - d \in in .. in + frames - 1
                          /\ i - d = in + (x - gap)
OBVIOUS

\* The cells a job is written to hold what the host should play there, and those the host
\* still reads keep what they hold.
LEMMA AudioWrite ==
    ASSUME TypeOK, RingInv, AudioInv, RenderWrite
    PROVE  AudioInv'
<1>1. /\ render = "write" /\ render' = "publish"
      /\ UNCHANGED <<submitted, done, jobs, host, fifoRead, fifoWrite, gapFrames, delay, dropped,
                     cut, renderOut>>
  BY DEF RenderWrite, RenderMove, hostSide, hostData, startVars
<1>2. SUFFICES ASSUME ExactInv, DroppedInv, CellsInv PROVE ExactInv' /\ DroppedInv' /\ CellsInv'
  BY <1>1 DEF AudioInv
<1>3. /\ Written = done /\ Written < Filled /\ Written \in Nat /\ Filled \in Nat
      /\ Written \in Written .. Filled - 1
  BY <1>1, WrittenFilled, RingTypes DEF RingInv
<1>4. PICK job : job = jobs[Slot(done)]
  OBVIOUS
<1>5. /\ job = J(Written) /\ job.in \in Nat /\ job.gap \in Nat /\ job.frames \in Nat
      /\ Needed = job.gap + job.frames /\ renderOut = job.in
      /\ Needed' = Needed
  BY <1>1, <1>2, <1>3, <1>4, RingTypes DEF J, Needed, CellsInv
<1>6. /\ fifoRead \in Nat /\ fifoWrite \in Nat /\ delay \in Nat /\ Needed \in Nat
      /\ fifo \in [0 .. FifoFrames - 1 -> Frame] /\ dropped \subseteq Nat
  <2>1. Needed \in Nat
    BY <1>5
  <2> QED BY <2>1 DEF TypeOK
<1>7. \A c \in 0 .. FifoFrames - 1 : fifo'[c] =
         IF At(c - fifoWrite) >= Needed THEN fifo[c]
         ELSE IF At(c - fifoWrite) < job.gap THEN Silence
              ELSE job.in + (At(c - fifoWrite) - job.gap)
  BY <1>4, <1>5 DEF RenderWrite
<1>8. Available + Needed <= FifoFrames /\ Needed <= FifoFrames
  <2>1. Available + Needed <= FifoFrames
    BY <1>1, RoomForJob DEF FifoHasRoom
  <2>2. Available \in Nat
    BY <1>6 DEF Available
  <2> QED BY <1>6, <2>1, <2>2, FifoFramesAssumption
<1>9. \A i : Expected(i)' = Expected(i)
  BY <1>1 DEF Expected
<1>10. ExactInv' /\ DroppedInv'
  <2>1. Written' = Written /\ Filled' = Filled /\ Due' = Due
    BY <1>1 DEF Written, Filled, Due
  <2>2. \A k \in Nat : J(k)' = J(k)
    BY <1>1 DEF J, Slot
  <2> QED BY <1>1, <1>2, <1>6, <2>1, <2>2, PositionsKept DEF SamePositions, SameJobs
<1>11. ASSUME NEW i \in fifoWrite .. fifoWrite + Needed - 1 PROVE fifo'[At(i)] = Expected(i)
  <2>1. i \in Nat /\ i - fifoWrite \in 0 .. FifoFrames - 1 /\ i - fifoWrite < Needed
    BY <1>6, <1>8, <1>11, FifoFramesAssumption
  <2>2. At(i) \in 0 .. FifoFrames - 1
    BY <2>1, AtType
  <2>3. PICK x : x = i - fifoWrite
    OBVIOUS
  <2>4. At(At(i) - fifoWrite) = x
    BY <1>6, <2>1, <2>3, AtDistance
  <2>5. fifo'[At(i)] = IF x < job.gap THEN Silence ELSE job.in + (x - job.gap)
    BY <1>6, <1>7, <2>1, <2>2, <2>3, <2>4
  <2>6. fifoWrite + job.gap = job.in + delay /\ Gap(Written) \subseteq dropped
        /\ Block(Written) \cap dropped = {}
    BY <1>2, <1>3, <1>5 DEF ExactInv, DroppedInv
  <2>7. /\ i \in Nat /\ fifoWrite \in Nat /\ job.in \in Nat /\ job.gap \in Nat
        /\ job.frames \in Nat /\ delay \in Nat /\ x \in Nat
        /\ fifoWrite + job.gap = job.in + delay /\ x = i - fifoWrite
        /\ x < job.gap + job.frames
    BY <1>5, <1>6, <2>1, <2>3, <2>6
  <2>8. /\ x < job.gap => i < delay \/ i - delay \in job.in - job.gap .. job.in - 1
        /\ x >= job.gap => /\ ~(i < delay) /\ i - delay \in job.in .. job.in + job.frames - 1
                           /\ i - delay = job.in + (x - job.gap)
    BY <2>7, FrameOf
  <2>9. CASE x < job.gap
    BY <1>5, <2>5, <2>6, <2>8, <2>9 DEF Expected, Gap
  <2>10. CASE ~(x < job.gap)
    <3>1. x >= job.gap
      BY <1>5, <2>1, <2>3, <2>10
    <3>2. i - delay \notin dropped
      BY <1>5, <2>6, <2>8, <3>1 DEF Block
    <3> QED BY <2>5, <2>8, <2>10, <3>1, <3>2 DEF Expected
  <2> QED BY <2>9, <2>10
<1>12. ASSUME NEW i \in fifoRead .. fifoWrite - 1 PROVE fifo'[At(i)] = Expected(i)
  <2>1. i \in Nat /\ fifoWrite - fifoRead + Needed <= FifoFrames
    BY <1>6, <1>8, <1>12 DEF Available
  <2>2. PICK x : x = i - fifoWrite + FifoFrames
    OBVIOUS
  <2>3. x \in 0 .. FifoFrames - 1 /\ x >= Needed
    BY <1>6, <1>12, <2>1, <2>2, FifoFramesAssumption
  <2>4. At(At(i) - fifoWrite) = x
    BY <1>6, <2>1, <2>2, <2>3, AtDistance
  <2>5. At(i) \in 0 .. FifoFrames - 1
    BY <2>1, AtType
  <2> QED BY <1>2, <1>7, <1>12, <2>3, <2>4, <2>5 DEF CellsInv, Holds
<1>13. CellsInv'
  BY <1>1, <1>5, <1>6, <1>9, <1>11, <1>12 DEF CellsInv, Holds, At
<1> QED BY <1>10, <1>13

\* The written cells join the queue.
LEMMA AudioPublish ==
    ASSUME TypeOK, JobsInv, AudioInv, RenderPublish
    PROVE  AudioInv'
<1>1. /\ UNCHANGED <<submitted, done, jobs, host, gapFrames, fifoRead, delay, dropped, cut, fifo>>
      /\ render = "publish" /\ render' = "complete"
  BY DEF RenderPublish, RenderMove, hostSide, hostData, startVars
<1>2. SUFFICES ASSUME ExactInv, DroppedInv, CellsInv PROVE ExactInv' /\ DroppedInv' /\ CellsInv'
  BY <1>1 DEF AudioInv
<1>3. /\ Written = done /\ Written' = Written + 1 /\ Written < Filled
      /\ Filled' = Filled /\ Due' = Due
  BY <1>1, WrittenFilled DEF Written, Filled, Due, TypeOK
<1>4. /\ Written \in Nat /\ Filled \in Nat /\ fifoWrite \in Nat /\ delay \in Nat /\ Due \in Nat
      /\ gapFrames \in Nat /\ fifoRead \in Nat
      /\ \A k \in Nat : J(k).in \in Nat /\ J(k).gap \in Nat /\ J(k).frames \in Nat
  BY RingTypes DEF TypeOK
<1>5. PICK job : job = J(Written)
  OBVIOUS
<1>6. /\ job.in \in Nat /\ job.gap \in Nat /\ job.frames \in Nat
      /\ fifoWrite' = fifoWrite + (job.gap + job.frames) /\ Needed \in Nat
      /\ fifoWrite' = fifoWrite + Needed
  BY <1>3, <1>4, <1>5 DEF RenderPublish, Needed, J
<1>7. fifoWrite + job.gap = job.in + delay
  BY <1>2, <1>3, <1>5 DEF ExactInv
<1>8. fifoWrite' = (job.in + job.frames) + delay
  BY <1>4, <1>6, <1>7
<1>9. Written' < Filled => fifoWrite' + J(Written + 1).gap = J(Written + 1).in + delay
  <2> SUFFICES ASSUME Written + 1 < Filled
               PROVE  fifoWrite' + J(Written + 1).gap = J(Written + 1).in + delay
    BY <1>3
  <2>1. PICK next, last : next = J(Written + 1) /\ last = job.in + job.frames
    OBVIOUS
  <2>2. Written \in Written .. Filled - 2 /\ Written + 1 \in Nat
    BY <1>4
  <2>3. last + next.gap = next.in
    BY <1>2, <1>5, <2>1, <2>2 DEF ExactInv
  <2>4. last \in Nat /\ next.gap \in Nat /\ next.in \in Nat
    BY <1>4, <1>6, <2>1, <2>2
  <2>5. (last + delay) + next.gap = next.in + delay
    BY <1>4, <2>3, <2>4
  <2> QED BY <1>8, <2>1, <2>5
<1>10. J(Filled - 1).in + J(Filled - 1).frames + gapFrames = Due
  BY <1>2, <1>3 DEF ExactInv
<1>11. Written' = Filled => fifoWrite' + gapFrames = Due + delay
  <2> SUFFICES ASSUME Written + 1 = Filled PROVE fifoWrite' + gapFrames = Due + delay
    BY <1>3
  <2>1. PICK last : last = job.in + job.frames
    OBVIOUS
  <2>2. last + gapFrames = Due
    <3>1. Filled - 1 = Written
      BY <1>4
    <3> QED BY <1>5, <1>10, <2>1, <3>1
  <2>3. last \in Nat
    BY <1>6, <2>1
  <2>4. (last + delay) + gapFrames = Due + delay
    BY <1>4, <2>2, <2>3
  <2> QED BY <1>8, <2>1, <2>4
<1>12. \A k : J(k)' = J(k) /\ Gap(k)' = Gap(k) /\ Block(k)' = Block(k)
  BY <1>1 DEF J, Slot, Gap, Block
<1>13. /\ Written' .. Filled' - 1 \subseteq Written .. Filled - 1
       /\ Written' .. Filled' - 2 \subseteq Written .. Filled - 2
  BY <1>3, <1>4
<1>14. ExactInv'
  <2>1. \A k \in Written' .. Filled' - 2 :
           J(k)'.in + J(k)'.frames + J(k + 1)'.gap = J(k + 1)'.in
    BY <1>2, <1>12, <1>13 DEF ExactInv
  <2>2. J(Written)' = J(Written + 1) /\ J(Filled - 1)' = J(Filled - 1)
    BY <1>1, <1>3 DEF J, Slot
  <2> QED BY <1>1, <1>3, <1>9, <1>10, <1>11, <2>1, <2>2 DEF ExactInv
<1>15. DroppedInv'
  <2>1. \A k \in Written' .. Filled' - 1 :
          /\ J(k)'.in + J(k)'.frames <= Due
          /\ Gap(k)' \subseteq dropped /\ Block(k)' \cap dropped = {}
    BY <1>2, <1>12, <1>13 DEF DroppedInv
  <2> QED BY <1>1, <1>2, <1>3, <2>1 DEF DroppedInv
<1>16. CellsInv'
  <2>1. \A i : Expected(i)' = Expected(i) /\ fifo'[At(i)] = fifo[At(i)]
    BY <1>1 DEF Expected
  <2>2. PICK upTo : upTo = fifoWrite + Needed
    OBVIOUS
  <2>3. /\ \A i \in fifoRead .. fifoWrite - 1 : fifo[At(i)] = Expected(i)
        /\ \A i \in fifoWrite .. upTo - 1 : fifo[At(i)] = Expected(i)
    BY <1>1, <1>2, <2>2 DEF CellsInv, Holds
  <2>4. fifoRead .. fifoWrite' - 1 \subseteq (fifoRead .. fifoWrite - 1) \cup (fifoWrite .. upTo - 1)
    BY <1>4, <1>6, <2>2
  <2>5. \A i \in fifoRead .. fifoWrite' - 1 : fifo[At(i)] = Expected(i)
    BY <2>3, <2>4
  <2>6. Holds(fifoRead, fifoWrite)'
    BY <1>1, <2>1, <2>5 DEF Holds, At
  <2> QED BY <1>1, <2>6 DEF CellsInv
<1> QED BY <1>14, <1>15, <1>16

----------------------------------------------------------------------------
(* Every other step.                                                       *)

\* A start queues the latency as silence.
LEMMA AudioStart ==
    ASSUME TypeOK, PlacesInv, NEW c \in Clients, NEW l \in Latencies, ClientStart(c, l)
    PROVE  AudioInv'
<1>1. /\ submitted' = 0 /\ done' = 0 /\ render' = "top" /\ fifoRead' = 0 /\ gapFrames' = 0
      /\ fifoWrite' = Queued(l) /\ delay' = Queued(l) /\ host' = host /\ host.pc = "idle"
      /\ dropped' = {} /\ fifo' = [i \in 0 .. FifoFrames - 1 |-> Silence]
  BY DEF ClientStart, PlacesInv
<1>2. Queued(l) \in Nat
  BY LatenciesAssumption, FifoFramesAssumption DEF Queued, Smaller
<1>3. Written' = 0 /\ Filled' = 0 /\ Due' = 0
  BY <1>1 DEF Written, Filled, Due
<1>4. ExactInv' /\ DroppedInv'
  BY <1>1, <1>2, <1>3 DEF ExactInv, DroppedInv
<1>5. ASSUME NEW i \in 0 .. Queued(l) - 1 PROVE fifo'[i % FifoFrames] = Expected(i)'
  <2>1. i \in Nat /\ i < Queued(l) /\ i % FifoFrames \in 0 .. FifoFrames - 1
    BY <1>2, AtType DEF At
  <2> QED BY <1>1, <2>1 DEF Expected
<1>6. CellsInv'
  BY <1>1, <1>5 DEF CellsInv, Holds, At
<1> QED BY <1>4, <1>6 DEF AudioInv

LEMMA AudioInit == Init => AudioInv
<1> SUFFICES ASSUME Init PROVE AudioInv
  OBVIOUS
<1>1. PICK l \in Latencies : delay = Queued(l)
  BY DEF Init
<1>2. delay \in Nat
  BY <1>1, LatenciesAssumption, FifoFramesAssumption DEF Queued, Smaller
<1>3. /\ Written = 0 /\ Filled = 0 /\ Due = 0 /\ fifoWrite = delay /\ gapFrames = 0
      /\ fifoRead = 0 /\ dropped = {} /\ render = "top"
      /\ fifo = [i \in 0 .. FifoFrames - 1 |-> Silence]
  BY DEF Init, Written, Filled, Due, HostIdle
<1>4. ExactInv /\ DroppedInv
  BY <1>2, <1>3 DEF ExactInv, DroppedInv
<1>5. ASSUME NEW i \in 0 .. delay - 1 PROVE fifo[At(i)] = Expected(i)
  BY <1>2, <1>3, AtType DEF Expected
<1>6. CellsInv
  BY <1>3, <1>5 DEF CellsInv, Holds
<1> QED BY <1>4, <1>6 DEF AudioInv

LEMMA AudioHost == ASSUME TypeOK, RingInv, AudioInv, HostNext PROVE AudioInv'
<1> USE DEF cursors, startVars
<1>0. /\ fifoRead \in Nat /\ submitted \in Nat /\ host \in HostType /\ host.frames \in Nat
      /\ JobsInv /\ FramesInv
  BY SizesType DEF TypeOK, HostType, RingInv
<1>1. CASE HostWaitSlot \/ HostCopy \/ \E f \in FrameSizes, rt \in BOOLEAN : HostEnter(f, rt)
  <2>1. /\ Harvest /\ UNCHANGED <<submitted, done, render, renderOut, fifo, fifoWrite, gapFrames,
                                  delay, dropped, cut>>
    BY <1>1 DEF HostWaitSlot, HostCopy, HostEnter
  <2>2. CASE HostWaitSlot
    <3>1. UNCHANGED <<host, fifoRead>>
      BY <2>2 DEF HostWaitSlot
    <3>2. Written' = Written /\ Filled' = Filled /\ Due' = Due
      BY <2>1, <3>1 DEF Written, Filled, Due
    <3> QED BY <1>0, <2>1, <3>1, <3>2, HarvestKeeps, AudioKept DEF SamePositions, SameJobs
  <2>3. CASE HostCopy
    <3>1. host.pc = "copy" /\ host'.pc = "idle" /\ fifoRead' = fifoRead + host.frames
      BY <2>3 DEF HostCopy, HostIdle
    <3>2. Written' = Written /\ Filled' = Filled /\ Due' = Due
      BY <1>0, <2>1, <3>1 DEF Written, Filled, Due
    <3>3. fifoRead' \in Nat /\ fifoRead <= fifoRead'
      BY <1>0, <3>1
    <3> QED BY <2>1, <3>2, <3>3, HarvestKeeps, AudioKept DEF SamePositions, SameJobs
  <2>4. ASSUME NEW f \in FrameSizes, NEW rt \in BOOLEAN, HostEnter(f, rt) PROVE AudioInv'
    <3>1. host.pc = "idle" /\ host'.pc = "slot" /\ UNCHANGED fifoRead
      BY <2>4 DEF HostEnter, LockFree, HostIdle
    <3>2. Written' = Written /\ Filled' = Filled /\ Due' = Due
      BY <2>1, <3>1 DEF Written, Filled, Due
    <3> QED BY <1>0, <2>1, <3>1, <3>2, HarvestKeeps, AudioKept DEF SamePositions, SameJobs
  <2> QED BY <1>1, <2>2, <2>3, <2>4
<1>2. CASE HostPublish \/ HostTake
  <2>1. /\ UNCHANGED <<done, render, renderOut, jobs, fifo, fifoRead, fifoWrite, gapFrames, delay,
                       dropped, cut>>
        /\ host'.frames = host.frames
    BY <1>0, <1>2 DEF HostPublish, HostTake, HostType, hostData
  <2>2. Written' = Written /\ Filled' = Filled /\ Due' = Due
    <3>1. CASE HostPublish
      <4>1. submitted' = submitted + 1 /\ host.pc = "publish" /\ host'.pc = "audio"
        BY <1>0, <3>1 DEF HostPublish, HostType
      <4> QED BY <1>0, <2>1, <4>1 DEF Written, Filled, Due
    <3>2. CASE HostTake
      <4>1. submitted' = submitted /\ host.pc = "audio" /\ host'.pc = "copy"
        BY <1>0, <3>2 DEF HostTake, HostType
      <4> QED BY <2>1, <4>1 DEF Written, Filled, Due
    <3> QED BY <1>2, <3>1, <3>2
  <2>3. \A k \in Nat : J(k)' = J(k)
    BY <2>1 DEF J, Slot
  <2>4. SamePositions
    BY <1>0, <2>1, <2>2, <2>3 DEF SamePositions, SameJobs
  <2> QED BY <2>1, <2>4, AudioKept
<1> QED BY <1>0, <1>1, <1>2, AudioDrop, AudioFill DEF HostNext, HostStep

LEMMA AudioRender ==
    ASSUME TypeOK, RingInv, AudioInv, RenderNext \/ RenderFlush
    PROVE  AudioInv'
<1> USE DEF hostSide, hostData, startVars, RenderMove
<1>0. fifoRead \in Nat /\ done \in Nat /\ Slot(done) \in Slots /\ JobsInv
  BY SlotType DEF TypeOK, RingInv
<1>1. CASE RenderFlush \/ RenderStep \/ RenderPark \/ RenderUnpark
  <2>1. /\ UNCHANGED <<submitted, done, jobs, host, fifo, fifoRead, fifoWrite, gapFrames, delay,
                       dropped, cut, renderOut>>
        /\ render = "complete" <=> render' = "complete"
        /\ render' \in {"write", "publish"} => render' = render
    BY <1>1 DEF RenderFlush, RenderStep, RenderPark, RenderUnpark
  <2>2. Written' = Written /\ Filled' = Filled /\ Due' = Due
    BY <2>1 DEF Written, Filled, Due
  <2>3. \A k \in Nat : J(k)' = J(k)
    BY <2>1 DEF J, Slot
  <2>4. SamePositions
    BY <1>0, <2>1, <2>2, <2>3 DEF SamePositions, SameJobs
  <2> QED BY <2>1, <2>4, AudioKept
<1>2. CASE RenderTake \/ RenderRender
  <2>1. /\ UNCHANGED <<submitted, done, host, fifo, fifoRead, fifoWrite, gapFrames, delay, dropped,
                       cut>>
        /\ render # "complete" /\ render' \in {"render", "write"}
    BY <1>2 DEF RenderTake, RenderRender
  <2>2. Written' = Written /\ Filled' = Filled /\ Due' = Due
    BY <2>1 DEF Written, Filled, Due
  <2>3. PICK v : jobs' = [jobs EXCEPT ![Slot(done)].midiOut = v]
    BY <1>2 DEF RenderTake, RenderRender
  <2>4. ASSUME NEW k \in Nat
        PROVE  /\ jobs'[Slot(k)].in = J(k).in /\ jobs'[Slot(k)].frames = J(k).frames
               /\ jobs'[Slot(k)].gap = J(k).gap
    <3>1. Slot(k) \in Slots /\ jobs \in [Slots -> Job]
      BY SlotType DEF TypeOK
    <3> QED BY <1>0, <2>3, <3>1 DEF J, Slot, Job
  <2>5. SamePositions
    BY <1>0, <2>1, <2>2, <2>4 DEF SamePositions, SameJobs, J, Slot
  <2>6. render' = "write" => renderOut' = jobs'[Slot(done')].in
    <3> HAVE render' = "write"
    <3>1. renderOut' = J(done).in
      BY <1>2 DEF RenderTake, RenderRender, J
    <3> QED BY <1>0, <2>1, <2>4, <3>1
  <2>7. UNCHANGED fifo /\ (render' = "publish" => UNCHANGED <<render, done>>)
    BY <2>1
  <2> QED BY <2>5, <2>6, <2>7, AudioKept
<1>3. CASE RenderComplete
  <2>1. /\ UNCHANGED <<submitted, jobs, host, fifo, fifoRead, fifoWrite, gapFrames, delay, dropped,
                       cut>>
        /\ render = "complete" /\ render' = "top" /\ done' = done + 1
    BY <1>3 DEF RenderComplete
  <2>2. Written' = Written /\ Filled' = Filled /\ Due' = Due
    BY <1>0, <2>1 DEF Written, Filled, Due
  <2>3. \A k \in Nat : J(k)' = J(k)
    BY <2>1 DEF J, Slot
  <2>4. SamePositions
    BY <1>0, <2>1, <2>2, <2>3 DEF SamePositions, SameJobs
  <2> QED BY <2>1, <2>4, AudioKept
<1> QED BY <1>0, <1>1, <1>2, <1>3, AudioWrite, AudioPublish DEF RenderNext

LEMMA AudioClient ==
    ASSUME TypeOK, RingInv, AudioInv, NEW c \in Clients, ClientNext(c)
    PROVE  AudioInv'
<1> USE DEF hostSide, hostData, startVars
<1>1. CASE \/ ClientFinish(c) \/ ClientWait(c) \/ ClientEnter(c) \/ ClientWork(c) \/ ClientStop(c)
  <2>1. UNCHANGED <<submitted, done, render, renderOut, host, fifo, fifoRead, fifoWrite, gapFrames,
                    delay, dropped, cut>>
    BY <1>1 DEF ClientFinish, ClientWait, ClientFinished, ClientPause, ClientPaused, ClientEnter,
                ClientWork, ClientResume, ClientJoined, ClientStop, renderSide
  <2>2. Written' = Written /\ Filled' = Filled /\ Due' = Due
    BY <2>1 DEF Written, Filled, Due
  <2>3. ASSUME NEW k \in Nat
        PROVE  /\ jobs'[Slot(k)].in = J(k).in /\ jobs'[Slot(k)].frames = J(k).frames
               /\ jobs'[Slot(k)].gap = J(k).gap
    <3>1. Slot(k) \in Slots /\ jobs \in [Slots -> Job]
      BY SlotType DEF TypeOK
    <3>2. CASE ClientJoined(c)
      BY <3>1, <3>2 DEF ClientJoined, J, Job
    <3>3. CASE ~ClientJoined(c)
      <4>1. UNCHANGED jobs
        BY <1>1, <3>3 DEF ClientFinish, ClientWait, ClientFinished, ClientPause, ClientPaused,
                          ClientEnter, ClientWork, ClientResume, ClientStop, renderSide
      <4> QED BY <4>1 DEF J
    <3> QED BY <3>2, <3>3
  <2>4. fifoRead \in Nat
    BY DEF TypeOK
  <2>5. SamePositions
    BY <2>1, <2>2, <2>3, <2>4 DEF SamePositions, SameJobs, J, Slot
  <2> QED BY <2>1, <2>5, AudioKept
<1> QED BY <1>1, AudioStart DEF ClientNext, RingInv

LEMMA AudioStep == TypeOK /\ RingInv /\ AudioInv /\ [Next]_vars => AudioInv'
<1> SUFFICES ASSUME TypeOK, RingInv, AudioInv, [Next]_vars PROVE AudioInv'
  OBVIOUS
<1>1. CASE UNCHANGED vars
  <2>1. UNCHANGED <<submitted, done, render, renderOut, jobs, host, fifo, fifoRead, fifoWrite,
                    gapFrames, delay, dropped, cut>>
    BY <1>1 DEF vars, cursors, hostData, startVars
  <2>2. Written' = Written /\ Filled' = Filled /\ Due' = Due /\ \A k \in Nat : J(k)' = J(k)
    BY <2>1 DEF Written, Filled, Due, J, Slot
  <2>3. SamePositions
    BY <2>1, <2>2 DEF SamePositions, SameJobs, TypeOK
  <2> QED BY <2>1, <2>3, AudioKept
<1> QED BY <1>1, AudioHost, AudioRender, AudioClient DEF Next

\* The frames queued for the host are its input, late by exactly the latency, and silence
\* where a block was dropped, for any sizes, latencies and threads, while the cap on a gap
\* has cut nothing (md::AsyncRender::process and threadFunc, mdasyncrender.cpp).
THEOREM ContentCorrect == Spec => []FifoContent
<1>1. AudioInv => FifoContent
  BY DEF AudioInv, CellsInv, Holds, FifoContent
<1> QED BY <1>1, AudioInit, AudioStep, RingCorrect, PTL DEF Spec

\* What process() copies out is what the FIFO holds for those positions, or silence.
LEMMA OutputCopy ==
    ASSUME TypeOK, RingInv, AudioInv, HostCopy
    PROVE  OutputDelayed'
<1> USE DEF startVars
<1>1. /\ fifoRead \in Nat /\ fifoWrite \in Nat /\ delay \in Nat /\ host.frames \in Nat
      /\ host.available \in Nat
  BY SizesType DEF TypeOK
<1>2. /\ out' = [i \in 1 .. host.frames |->
            IF i <= host.available THEN fifo[At(fifoRead + i - 1)] ELSE Silence]
      /\ fifoRead' = fifoRead + host.frames /\ delay' = delay /\ cut' = cut /\ host.pc = "copy"
  BY DEF HostCopy
<1>3. DOMAIN out' = 1 .. host.frames /\ Len(out') = host.frames
  BY <1>1, <1>2
<1>4. SUFFICES ASSUME cut = 0, NEW i \in 1 .. host.frames
               PROVE  out'[i] \in {Silence, fifoRead' - Len(out') + (i - 1) - delay'}
  BY <1>2, <1>3 DEF OutputDelayed
<1>5. fifoRead' - Len(out') + (i - 1) - delay' = fifoRead + (i - 1) - delay
  <2>1. (fifoRead + host.frames) - host.frames + (i - 1) - delay = fifoRead + (i - 1) - delay
    BY <1>1
  <2> QED BY <1>2, <1>3, <2>1
<1>6. CASE i <= host.available
  <2>1. PICK p : p = fifoRead + i - 1
    OBVIOUS
  <2>2. fifoRead + host.available <= fifoWrite
    BY <1>1, <1>2, <1>6 DEF RingInv, CopyInv
  <2>3. p \in fifoRead .. fifoWrite - 1
    BY <1>1, <1>6, <2>1, <2>2
  <2>4. fifo[At(p)] = Expected(p)
    BY <1>4, <2>3 DEF AudioInv, CellsInv, Holds
  <2>5. Expected(p) \in {Silence, p - delay} /\ p - delay = fifoRead + (i - 1) - delay
    BY <1>1, <2>1 DEF Expected
  <2> QED BY <1>2, <1>5, <1>6, <2>1, <2>4, <2>5
<1>7. CASE ~(i <= host.available)
  BY <1>2, <1>7
<1> QED BY <1>6, <1>7

LEMMA OutputStep ==
    TypeOK /\ RingInv /\ AudioInv /\ OutputDelayed /\ [Next]_vars => OutputDelayed'
<1> SUFFICES ASSUME TypeOK, RingInv, AudioInv, OutputDelayed, [Next]_vars PROVE OutputDelayed'
  OBVIOUS
<1>1. ASSUME UNCHANGED <<out, fifoRead, delay>>, cut' = 0 => cut = 0 PROVE OutputDelayed'
  BY <1>1 DEF OutputDelayed
<1>2. CASE HostNext
  <2>1. CASE HostDrop
    <3>1. UNCHANGED <<out, fifoRead, delay>> /\ (cut' = 0 => cut = 0)
      <4>1. /\ cut \in Nat /\ gapFrames \in Nat /\ host.frames \in Nat
            /\ FifoFrames \div 2 \in Nat
        BY SizesType, FifoFramesAssumption DEF TypeOK
      <4> QED BY <2>1, <4>1 DEF HostDrop, startVars, Smaller
    <3> QED BY <1>1, <3>1
  <2>2. CASE \/ HostWaitSlot \/ HostFill \/ HostPublish \/ HostTake
             \/ \E f \in FrameSizes, rt \in BOOLEAN : HostEnter(f, rt)
    <3>1. UNCHANGED <<out, fifoRead, delay, cut>>
      BY <2>2 DEF HostWaitSlot, HostFill, HostPublish, HostTake, HostEnter, hostData, startVars
    <3> QED BY <1>1, <3>1
  <2> QED BY <1>2, <2>1, <2>2, OutputCopy DEF HostNext, HostStep
<1>3. CASE RenderNext \/ RenderFlush
  <2>1. UNCHANGED <<out, fifoRead, delay, cut>>
    BY <1>3 DEF RenderNext, RenderFlush, RenderStep, RenderPark, RenderUnpark, RenderTake,
                RenderRender, RenderWrite, RenderPublish, RenderComplete, hostSide, hostData,
                startVars
  <2> QED BY <1>1, <2>1
<1>4. ASSUME NEW c \in Clients, ClientNext(c) PROVE OutputDelayed'
  <2>1. CASE \/ ClientFinish(c) \/ ClientWait(c) \/ ClientEnter(c) \/ ClientWork(c)
             \/ ClientStop(c)
    <3>1. UNCHANGED <<out, fifoRead, delay, cut>>
      BY <2>1 DEF ClientFinish, ClientWait, ClientFinished, ClientPause, ClientPaused,
                  ClientEnter, ClientWork, ClientResume, ClientJoined, ClientStop, hostSide,
                  hostData, startVars
    <3> QED BY <1>1, <3>1
  <2>2. ASSUME NEW l \in Latencies, ClientStart(c, l) PROVE OutputDelayed'
    BY <2>2 DEF ClientStart, OutputDelayed
  <2> QED BY <1>4, <2>1, <2>2 DEF ClientNext
<1>5. CASE UNCHANGED vars
  BY <1>1, <1>5 DEF vars, hostData, startVars
<1> QED BY <1>2, <1>3, <1>4, <1>5 DEF Next

\* The host plays its input late by exactly the latency it reports, or silence, and never
\* another frame, for any sizes, latencies and threads, while the cap on a gap has cut
\* nothing (md::AsyncRender::process, mdasyncrender.cpp).
THEOREM OutputCorrect == Spec => []OutputDelayed
<1>1. Init => OutputDelayed
  BY DEF Init, OutputDelayed
<1> QED BY <1>1, AudioInit, AudioStep, OutputStep, RingCorrect, PTL DEF Spec

----------------------------------------------------------------------------
(* The MIDI handed back.  The invariant.                                   *)

\* The first job that the device has not answered.
Rendered == done + (IF render \in {"write", "publish", "complete"} THEN 1 ELSE 0)

\* Every job in the ring is the block handed over at its number, and carries that block's
\* MIDI from its rendering to its collection.
MidiInv ==
    /\ Len(handed) = Filled
    /\ \A k \in harvested .. Filled - 1 : J(k).in = handed[k + 1]
    /\ running => \A k \in harvested .. Rendered - 1 : J(k).midiOut = handed[k + 1]
    /\ MidiOutOrder

LEMMA MidiTypes ==
    ASSUME TypeOK, JobsInv
    PROVE  /\ harvested \in Nat /\ done \in Nat /\ submitted \in Nat
           /\ Rendered \in Nat /\ Filled \in Nat /\ handed \in Seq(Nat)
           /\ harvested <= done /\ done <= Rendered /\ Rendered <= submitted
           /\ submitted <= Filled /\ submitted <= harvested + JobCount
BY DEF TypeOK, JobsInv, OnDevice, Rendered, Filled

\* Slots of jobs in the ring are different.
LEMMA RingSlots ==
    ASSUME TypeOK, JobsInv, NEW i \in harvested .. submitted - 1,
           NEW j \in harvested .. submitted - 1, i # j
    PROVE  Slot(i) # Slot(j) /\ Slot(i) \in Slots
<1>1. /\ i \in Nat /\ j \in Nat /\ i - j < JobCount /\ j - i < JobCount
      /\ (i < j \/ j < i)
  BY MidiTypes, JobCountAssumption
<1> QED BY <1>1, SlotsDiffer, SlotType

LEMMA Prefix ==
    ASSUME NEW s \in Seq(Nat), NEW a \in Nat, NEW b \in Nat, a <= b, b <= Len(s),
           NEW t, t = [i \in 1 .. b - a |-> s[a + i]]
    PROVE  SubSeq(s, 1, a) \o t = SubSeq(s, 1, b)
<1>1. t \in Seq(Nat) /\ Len(t) = b - a
  OBVIOUS
<1>2. SubSeq(s, 1, a) \in Seq(Nat) /\ Len(SubSeq(s, 1, a)) = a
  OBVIOUS
<1>3. SubSeq(s, 1, b) \in Seq(Nat) /\ Len(SubSeq(s, 1, b)) = b
  OBVIOUS
<1>4. PICK u : u = SubSeq(s, 1, a) \o t
  OBVIOUS
<1>5. u \in Seq(Nat) /\ Len(u) = b
  BY <1>1, <1>2, <1>4
<1>6. ASSUME NEW i \in 1 .. b PROVE u[i] = s[i]
  <2>1. CASE i <= a
    BY <1>1, <1>2, <1>4, <2>1
  <2>2. CASE i > a
    <3>1. i - a \in 1 .. b - a /\ u[i] = t[i - a]
      BY <1>1, <1>2, <1>4, <2>2
    <3> QED BY <3>1
  <2> QED BY <2>1, <2>2
<1>7. \A i \in 1 .. b : SubSeq(s, 1, b)[i] = s[i]
  OBVIOUS
<1> QED BY <1>3, <1>4, <1>5, <1>6, <1>7

\* Steps that move no job and collect nothing.
LEMMA MidiKept ==
    ASSUME TypeOK, JobsInv, MidiInv, UNCHANGED <<handed, midiGiven, harvested>>,
           running' => running, Filled' = Filled, Rendered' = Rendered,
           \A k \in harvested .. Filled - 1 : J(k)'.in = J(k).in,
           running' => \A k \in harvested .. Rendered - 1 : J(k)'.midiOut = J(k).midiOut
    PROVE  MidiInv'
BY DEF MidiInv, MidiOutOrder

----------------------------------------------------------------------------
(* The host's steps.                                                       *)

\* harvest() hands the MIDI of the completed jobs over, in order, and no other's.
LEMMA MidiHarvest ==
    ASSUME TypeOK, JobsInv, MidiInv, running, Harvest,
           UNCHANGED <<submitted, done, render, running, handed>>,
           Filled' = Filled
    PROVE  MidiInv'
<1>1. /\ harvested \in Nat /\ done \in Nat /\ submitted \in Nat /\ Filled \in Nat
      /\ Rendered \in Nat /\ handed \in Seq(Nat) /\ harvested <= done /\ done <= Rendered
      /\ Rendered <= submitted /\ submitted <= Filled /\ Rendered <= done + 1
  BY MidiTypes DEF Rendered
<1>2. harvested' = done /\ Rendered' = Rendered
  BY DEF Harvest, Rendered
<1>3. ASSUME NEW k \in Nat PROVE jobs'[Slot(k)].in = J(k).in
  <2>1. Slot(k) \in Slots /\ jobs[Slot(k)] \in Job
    BY <1>3, SlotType DEF TypeOK
  <2>2. jobs'[Slot(k)] \in {jobs[Slot(k)], [jobs[Slot(k)] EXCEPT !.midiOut = NoMidi]}
    BY <2>1 DEF Harvest
  <2> QED BY <2>1, <2>2 DEF J, Job
<1>4. ASSUME NEW k \in done .. Rendered - 1 PROVE jobs'[Slot(k)] = J(k)
  <2>1. k \in harvested .. submitted - 1
    BY <1>1
  <2>2. ASSUME NEW j \in harvested .. done - 1 PROVE Slot(j) # Slot(k) /\ Slot(k) \in Slots
    <3>1. j \in harvested .. submitted - 1 /\ j # k
      BY <1>1
    <3> QED BY <2>1, <3>1, RingSlots
  <2>3. Slot(k) \in Slots
    BY <1>1, SlotType
  <2> QED BY <2>2, <2>3 DEF Harvest, J
<1>5. midiGiven' = SubSeq(handed, 1, done)
  <2>1. PICK given : given = [i \in 1 .. done - harvested |-> jobs[Slot(harvested + i - 1)].midiOut]
    OBVIOUS
  <2>2. given = [i \in 1 .. done - harvested |-> handed[harvested + i]]
    <3>1. ASSUME NEW i \in 1 .. done - harvested
          PROVE  jobs[Slot(harvested + i - 1)].midiOut = handed[harvested + i]
      <4>1. PICK k : k = harvested + i - 1
        OBVIOUS
      <4>2. k \in harvested .. Rendered - 1 /\ k + 1 = harvested + i
        BY <1>1, <4>1
      <4>3. J(k).midiOut = handed[k + 1]
        BY <4>2 DEF MidiInv
      <4> QED BY <4>1, <4>2, <4>3 DEF J
    <3> QED BY <2>1, <3>1
  <2>3. SubSeq(handed, 1, harvested) \o given = SubSeq(handed, 1, done)
    <3>1. done <= Len(handed)
      BY <1>1 DEF MidiInv
    <3> QED BY <1>1, <2>2, <3>1, Prefix
  <2>4. midiGiven' = midiGiven \o given
    BY <2>1 DEF Harvest
  <2> QED BY <2>3, <2>4 DEF MidiInv, MidiOutOrder
<1>6. \A k \in done .. Filled - 1 : jobs'[Slot(k)].in = handed[k + 1]
  <2> TAKE k \in done .. Filled - 1
  <2>1. k \in Nat /\ k \in harvested .. Filled - 1
    BY <1>1
  <2> QED BY <1>3, <2>1 DEF MidiInv
<1>7. \A k \in done .. Rendered - 1 : jobs'[Slot(k)].midiOut = handed[k + 1]
  <2> TAKE k \in done .. Rendered - 1
  <2>1. k \in harvested .. Rendered - 1
    BY <1>1
  <2> QED BY <1>4, <2>1 DEF MidiInv
<1> QED BY <1>2, <1>5, <1>6, <1>7 DEF MidiInv, MidiOutOrder, J, Slot

LEMMA MidiFill == ASSUME TypeOK, JobsInv, MidiInv, HostFill PROVE MidiInv'
<1>1. /\ UNCHANGED <<submitted, done, harvested, render, running, fifoRead, midiGiven>>
      /\ handed' = Append(handed, fifoRead)
      /\ host.pc = "slot" /\ host'.pc = "publish" /\ submitted - harvested < JobCount
  <2>1. submitted \in Nat /\ harvested \in Nat /\ host \in HostType
    BY DEF TypeOK, HostType
  <2>2. host.pc = "slot" /\ host'.pc = "publish"
    BY <2>1 DEF HostFill, HostType
  <2>3. submitted - harvested < JobCount
    BY <2>1, JobCountAssumption DEF HostFill, SlotsBusy
  <2>4. /\ UNCHANGED <<submitted, done, harvested, render, running, fifoRead, midiGiven>>
        /\ handed' = Append(handed, fifoRead)
    BY DEF HostFill, cursors, pauseVars
  <2> QED BY <2>2, <2>3, <2>4
<1>2. /\ harvested \in Nat /\ done \in Nat /\ submitted \in Nat /\ Rendered \in Nat
      /\ handed \in Seq(Nat) /\ harvested <= done /\ done <= Rendered /\ Rendered <= submitted
      /\ fifoRead \in Nat
  BY MidiTypes DEF TypeOK
<1>3. Filled = submitted /\ Filled' = submitted + 1 /\ Rendered' = Rendered
  BY <1>1, <1>2 DEF Filled, Rendered
<1>4. Len(handed) = submitted /\ Len(handed') = submitted + 1
  <2>1. Len(handed) = submitted
    BY <1>3 DEF MidiInv
  <2>2. PICK h, r : h = handed /\ r = fifoRead
    OBVIOUS
  <2>3. h \in Seq(Nat) /\ r \in Nat
    BY <1>2, <2>2
  <2>4. Len(Append(h, r)) = Len(h) + 1
    BY <2>3
  <2> QED BY <1>1, <2>1, <2>2, <2>4
<1>5. \A n \in 1 .. submitted : handed'[n] = handed[n]
  BY <1>1, <1>2, <1>4
<1>6. handed'[submitted + 1] = fifoRead
  BY <1>1, <1>2, <1>4
<1>7. ASSUME NEW k \in harvested .. submitted - 1 PROVE jobs'[Slot(k)] = J(k)
  <2>1. k \in Nat /\ k < submitted /\ submitted - k < JobCount
    BY <1>1, <1>2, JobCountAssumption
  <2>2. Slot(k) # Slot(submitted) /\ Slot(k) \in Slots
    BY <1>2, <2>1, SlotsDiffer, SlotType
  <2> QED BY <2>2 DEF HostFill, J, TypeOK
<1>8. jobs'[Slot(submitted)].in = fifoRead
  <2>1. Slot(submitted) \in Slots
    BY <1>2, SlotType
  <2> QED BY <2>1 DEF HostFill, TypeOK
<1>9. ASSUME NEW k \in harvested .. submitted PROVE jobs'[Slot(k)].in = handed'[k + 1]
  <2>1. CASE k = submitted
    BY <1>6, <1>8, <2>1
  <2>2. CASE k # submitted
    <3>1. k \in harvested .. submitted - 1 /\ k + 1 \in 1 .. submitted
      BY <1>2, <2>2
    <3>2. J(k).in = handed[k + 1]
      BY <1>3, <3>1 DEF MidiInv
    <3> QED BY <1>5, <1>7, <3>1, <3>2
  <2> QED BY <2>1, <2>2
<1>10. ASSUME running, NEW k \in harvested .. Rendered - 1
       PROVE  jobs'[Slot(k)].midiOut = handed'[k + 1]
  <2>1. k \in harvested .. submitted - 1 /\ k + 1 \in 1 .. submitted
    BY <1>2
  <2>2. J(k).midiOut = handed[k + 1]
    BY <1>10 DEF MidiInv
  <2> QED BY <1>5, <1>7, <2>1, <2>2
<1>11. midiGiven' = SubSeq(handed', 1, harvested)
  <2>1. midiGiven = SubSeq(handed, 1, harvested)
    BY DEF MidiInv, MidiOutOrder
  <2>2. SubSeq(handed', 1, harvested) = SubSeq(handed, 1, harvested)
    <3>1. /\ handed' \in Seq(Nat) /\ harvested <= Len(handed) /\ harvested <= Len(handed')
          /\ \A n \in 1 .. harvested : handed'[n] = handed[n]
      BY <1>1, <1>2, <1>4, <1>5
    <3> QED BY <1>2, <3>1
  <2> QED BY <1>1, <2>1, <2>2
<1>12. Filled' - 1 = submitted /\ Len(handed') = Filled'
  BY <1>2, <1>3, <1>4
<1> QED BY <1>1, <1>3, <1>9, <1>10, <1>11, <1>12 DEF MidiInv, MidiOutOrder, J, Slot

LEMMA MidiHost ==
    ASSUME TypeOK, PlacesInv, JobsInv, MidiInv, HostNext
    PROVE  MidiInv'
<1> USE DEF cursors, pauseVars
<1>0. submitted \in Nat /\ host \in HostType
  BY DEF TypeOK, HostType
<1>1. CASE HostWaitSlot \/ HostCopy \/ \E f \in FrameSizes, rt \in BOOLEAN : HostEnter(f, rt)
  <2>1. Harvest /\ UNCHANGED <<submitted, done, render, running, handed>>
    BY <1>1 DEF HostWaitSlot, HostCopy, HostEnter
  <2>2. running /\ host.pc # "publish" /\ host'.pc # "publish"
    <3>1. CASE HostWaitSlot \/ HostCopy
      BY <3>1 DEF HostWaitSlot, HostCopy, HostIdle, PlacesInv
    <3>2. ASSUME NEW f \in FrameSizes, NEW rt \in BOOLEAN, HostEnter(f, rt)
          PROVE  running /\ host.pc = "idle" /\ host'.pc = "slot"
      BY <3>2 DEF HostEnter, LockFree, HostIdle
    <3> QED BY <1>1, <3>1, <3>2
  <2>3. Filled' = Filled
    BY <2>1, <2>2 DEF Filled
  <2> QED BY <2>1, <2>2, <2>3, MidiHarvest
<1>2. CASE HostDrop \/ HostPublish \/ HostTake
  <2>1. UNCHANGED <<done, harvested, render, running, handed, midiGiven, jobs>>
    BY <1>2 DEF HostDrop, HostPublish, HostTake, hostData
  <2>2. Filled' = Filled
    <3>1. CASE HostDrop \/ HostTake
      <4>1. submitted' = submitted /\ host.pc # "publish" /\ host'.pc # "publish"
        BY <1>0, <3>1 DEF HostDrop, HostTake, HostType
      <4> QED BY <4>1 DEF Filled
    <3>2. CASE HostPublish
      <4>1. submitted' = submitted + 1 /\ host.pc = "publish" /\ host'.pc = "audio"
        BY <1>0, <3>2 DEF HostPublish, HostType
      <4> QED BY <1>0, <4>1 DEF Filled
    <3> QED BY <1>2, <3>1, <3>2
  <2>3. Rendered' = Rendered /\ \A k : J(k)' = J(k)
    BY <2>1 DEF Rendered, J, Slot
  <2> QED BY <2>1, <2>2, <2>3, MidiKept
<1> QED BY <1>1, <1>2, MidiFill DEF HostNext, HostStep

----------------------------------------------------------------------------
(* The render thread's steps and the clients'.                             *)

LEMMA MidiRender ==
    ASSUME TypeOK, JobsInv, MidiInv, RenderNext \/ RenderFlush
    PROVE  MidiInv'
<1> USE DEF hostSide, hostData, pauseVars, RenderMove
<1>0. /\ UNCHANGED <<submitted, harvested, host, running, handed, midiGiven>>
      /\ Filled' = Filled
  BY DEF RenderNext, RenderFlush, RenderStep, RenderPark, RenderUnpark, RenderTake,
         RenderRender, RenderWrite, RenderPublish, RenderComplete, Filled
<1>1. /\ harvested \in Nat /\ done \in Nat /\ submitted \in Nat /\ Filled \in Nat
      /\ Rendered \in Nat /\ harvested <= done /\ submitted <= Filled
  BY MidiTypes
<1>2. CASE \/ RenderFlush \/ RenderStep \/ RenderPark \/ RenderUnpark \/ RenderWrite
           \/ RenderPublish \/ RenderComplete
  <2>1. UNCHANGED jobs /\ Rendered' = Rendered
    BY <1>1, <1>2 DEF RenderFlush, RenderStep, RenderPark, RenderUnpark, RenderWrite,
                      RenderPublish, RenderComplete, Rendered
  <2>2. \A k : J(k)' = J(k)
    BY <2>1 DEF J, Slot
  <2> QED BY <1>0, <2>1, <2>2, MidiKept
<1>3. CASE RenderTake \/ RenderRender
  <2>1. /\ render \in {"job", "render"} /\ done' = done /\ done < submitted
        /\ done \in harvested .. submitted - 1 /\ Rendered = done
    BY <1>1, <1>3 DEF RenderTake, RenderRender, JobsInv, OnDevice, Rendered
  <2>2. ASSUME NEW k \in harvested .. done - 1 PROVE jobs'[Slot(k)] = J(k)
    <3>1. k \in harvested .. submitted - 1 /\ k # done
      BY <1>1, <2>1
    <3>2. Slot(k) # Slot(done) /\ Slot(k) \in Slots
      BY <2>1, <3>1, RingSlots
    <3> QED BY <1>3, <3>2 DEF RenderTake, RenderRender, J, TypeOK
  <2>3. Slot(done) \in Slots /\ jobs[Slot(done)] \in Job
    BY <1>1, SlotType DEF TypeOK
  <2>4. ASSUME NEW k \in Nat PROVE jobs'[Slot(k)].in = J(k).in
    <3>1. Slot(k) \in Slots /\ jobs \in [Slots -> Job]
      BY SlotType DEF TypeOK
    <3>2. PICK v : jobs' = [jobs EXCEPT ![Slot(done)].midiOut = v]
      BY <1>3 DEF RenderTake, RenderRender
    <3> QED BY <2>3, <3>1, <3>2 DEF J, Job
  <2>5. CASE RenderTake
    <3>1. Rendered' = Rendered
      BY <2>1, <2>5 DEF RenderTake, Rendered
    <3>2. \A k \in harvested .. Rendered - 1 : J(k)'.midiOut = J(k).midiOut
      BY <2>1, <2>2 DEF J, Slot
    <3>3. \A k \in harvested .. Filled - 1 : J(k)'.in = J(k).in
      BY <1>1, <2>4 DEF J, Slot
    <3> QED BY <1>0, <3>1, <3>2, <3>3, MidiKept
  <2>6. CASE RenderRender
    <3>1. Rendered' = done + 1
      BY <2>1, <2>6 DEF RenderRender, Rendered
    <3>2. jobs'[Slot(done)].midiOut = J(done).in
      BY <2>3, <2>6 DEF RenderRender, J, TypeOK
    <3>3. done \in harvested .. Filled - 1
      BY <1>1, <2>1
    <3>4. J(done).in = handed[done + 1]
      BY <3>3 DEF MidiInv
    <3>5. ASSUME running, NEW k \in harvested .. done
          PROVE  jobs'[Slot(k)].midiOut = handed[k + 1]
      <4>1. CASE k = done
        BY <3>2, <3>4, <4>1
      <4>2. CASE k # done
        <5>1. k \in harvested .. done - 1
          BY <1>1, <4>2
        <5>2. J(k).midiOut = handed[k + 1]
          BY <2>1, <3>5, <5>1 DEF MidiInv
        <5> QED BY <2>2, <5>1, <5>2
      <4> QED BY <4>1, <4>2
    <3>6. \A k \in harvested .. Filled - 1 : jobs'[Slot(k)].in = handed[k + 1]
      BY <1>1, <2>4 DEF MidiInv
    <3>7. Rendered' - 1 = done
      BY <1>1, <3>1
    <3> QED BY <1>0, <3>5, <3>6, <3>7 DEF MidiInv, MidiOutOrder, J, Slot
  <2> QED BY <1>3, <2>5, <2>6
<1> QED BY <1>2, <1>3 DEF RenderNext

LEMMA MidiClient ==
    ASSUME TypeOK, PlacesInv, JobsInv, MidiInv, NEW c \in Clients, ClientNext(c)
    PROVE  MidiInv'
<1> USE DEF hostSide, hostData, cursors
<1>1. CASE ClientFinish(c) \/ ClientWait(c) \/ ClientEnter(c) \/ ClientResume(c) \/ ClientStop(c)
  <2>1. UNCHANGED <<submitted, done, harvested, render, running, jobs, host, handed, midiGiven>>
    BY <1>1 DEF ClientFinish, ClientWait, ClientFinished, ClientPause, ClientPaused, ClientEnter,
                ClientResume, ClientStop, renderSide, pauseVars
  <2>2. Filled' = Filled /\ Rendered' = Rendered /\ \A k : J(k)' = J(k)
    BY <2>1 DEF Filled, Rendered, J, Slot
  <2> QED BY <2>1, <2>2, MidiKept
<1>2. CASE ClientJoined(c)
  <2>1. /\ UNCHANGED <<submitted, done, harvested, render, host, handed, midiGiven>>
        /\ running' = FALSE
    BY <1>2 DEF ClientJoined
  <2>2. Filled' = Filled /\ Rendered' = Rendered
    BY <2>1 DEF Filled, Rendered
  <2>3. \A k \in harvested .. Filled - 1 : jobs'[Slot(k)].in = J(k).in
    <3> TAKE k \in harvested .. Filled - 1
    <3>1. k \in Nat
      BY MidiTypes
    <3>2. Slot(k) \in Slots /\ jobs \in [Slots -> Job]
      BY <3>1, SlotType DEF TypeOK
    <3> QED BY <1>2, <3>2 DEF ClientJoined, J, Job
  <2>4. \A k \in harvested .. Filled - 1 : J(k)'.in = J(k).in
    BY <2>3 DEF J, Slot
  <2> QED BY <2>1, <2>2, <2>4, MidiKept
<1>3. ASSUME NEW l \in Latencies, ClientStart(c, l) PROVE MidiInv'
  <2>1. /\ submitted' = 0 /\ done' = 0 /\ harvested' = 0 /\ render' = "top"
        /\ host' = host /\ host.pc = "idle" /\ handed' = <<>> /\ midiGiven' = <<>>
    BY <1>3 DEF ClientStart, PlacesInv
  <2>2. Filled' = 0 /\ Rendered' = 0
    BY <2>1 DEF Filled, Rendered
  <2> QED BY <2>1, <2>2 DEF MidiInv, MidiOutOrder
<1> QED BY <1>1, <1>2, <1>3 DEF ClientNext, ClientWork

\* The MIDI of every rendered block leaves once and in the order of the blocks, for any
\* ring, blocks and threads (md::AsyncRender::harvest, mdasyncrender.cpp).
THEOREM MidiOutCorrect == Spec => []MidiOutOrder
<1>1. Init => MidiInv
  <2> SUFFICES ASSUME Init PROVE MidiInv
    OBVIOUS
  <2>1. /\ Filled = 0 /\ Rendered = 0 /\ harvested = 0 /\ handed = <<>> /\ midiGiven = <<>>
    BY DEF Init, Filled, Rendered, HostIdle
  <2> QED BY <2>1 DEF MidiInv, MidiOutOrder
<1>2. TypeOK /\ RingInv /\ MidiInv /\ [Next]_vars => MidiInv'
  <2> SUFFICES ASSUME TypeOK, PlacesInv, JobsInv, MidiInv, [Next]_vars PROVE MidiInv'
    BY DEF RingInv
  <2>1. CASE UNCHANGED vars
    <3>1. UNCHANGED <<submitted, done, harvested, render, running, jobs, host, handed, midiGiven>>
      BY <2>1 DEF vars, cursors, hostData, pauseVars
    <3>2. Filled' = Filled /\ Rendered' = Rendered /\ \A k : J(k)' = J(k)
      BY <3>1 DEF Filled, Rendered, J, Slot
    <3> QED BY <3>1, <3>2, MidiKept
  <2> QED BY <2>1, MidiHost, MidiRender, MidiClient DEF Next
<1>3. MidiInv => MidiOutOrder
  BY DEF MidiInv
<1> QED BY <1>1, <1>2, <1>3, RingCorrect, PTL DEF Spec

----------------------------------------------------------------------------
(* The MIDI handed in.  The host's events are the numbers of its blocks,   *)
(* so every stretch of them is a run of numbers.                           *)

Run(a, b) == [i \in 1 .. b - a |-> a + i]

LEMMA RunType ==
    ASSUME NEW a \in Nat, NEW b \in Nat, a <= b
    PROVE  Run(a, b) \in Seq(Nat) /\ Len(Run(a, b)) = b - a
<1>1. b - a \in Nat /\ \A i \in 1 .. b - a : a + i \in Nat
  OBVIOUS
<1> QED BY <1>1 DEF Run

LEMMA RunEmpty == ASSUME NEW a \in Nat PROVE Run(a, a) = <<>>
<1>1. Run(a, a) \in Seq(Nat) /\ Len(Run(a, a)) = 0
  BY RunType
<1> QED BY <1>1

\* A run goes on where another ends.
LEMMA RunJoin ==
    ASSUME NEW a \in Nat, NEW b \in Nat, NEW c \in Nat, a <= b, b <= c
    PROVE  Run(a, b) \o Run(b, c) = Run(a, c)
<1>1. PICK s, t, u : s = Run(a, b) /\ t = Run(b, c) /\ u = Run(a, c)
  OBVIOUS
<1>2. /\ s \in Seq(Nat) /\ Len(s) = b - a /\ t \in Seq(Nat) /\ Len(t) = c - b
      /\ u \in Seq(Nat) /\ Len(u) = c - a
  <2>1. a <= c
    OBVIOUS
  <2>2. s \in Seq(Nat) /\ Len(s) = b - a
    BY <1>1, RunType
  <2>3. t \in Seq(Nat) /\ Len(t) = c - b
    BY <1>1, RunType
  <2>4. u \in Seq(Nat) /\ Len(u) = c - a
    BY <1>1, <2>1, RunType
  <2> QED BY <2>2, <2>3, <2>4
<1>3. /\ \A i \in 1 .. b - a : s[i] = a + i
      /\ \A i \in 1 .. c - b : t[i] = b + i
      /\ \A i \in 1 .. c - a : u[i] = a + i
  BY <1>1 DEF Run
<1>4. PICK v : v = s \o t
  OBVIOUS
<1>5. v \in Seq(Nat) /\ Len(v) = c - a
  <2>1. s \in Seq(Nat) /\ t \in Seq(Nat)
    BY <1>2
  <2>2. v \in Seq(Nat) /\ Len(v) = Len(s) + Len(t)
    BY <1>4, <2>1
  <2> QED BY <1>2, <2>2
<1>6. ASSUME NEW i \in 1 .. c - a PROVE v[i] = u[i]
  <2>1. CASE i <= b - a
    <3>1. i \in 1 .. b - a
      BY <2>1
    <3>2. v[i] = s[i]
      BY <1>2, <1>4, <3>1
    <3> QED BY <1>3, <3>1, <3>2
  <2>2. CASE i > b - a
    <3>1. i - (b - a) \in 1 .. c - b /\ b + (i - (b - a)) = a + i
      BY <2>2
    <3>2. v[i] = t[i - (b - a)]
      <4>1. i \in Len(s) + 1 .. Len(s) + Len(t)
        BY <1>2, <2>2
      <4>2. (s \o t)[i] = t[i - Len(s)]
        <5>1. s \in Seq(Nat) /\ t \in Seq(Nat)
          BY <1>2
        <5> QED BY <4>1, <5>1
      <4> QED BY <1>2, <1>4, <4>2
    <3> QED BY <1>3, <3>1, <3>2
  <2> QED BY <2>1, <2>2
<1>7. v = u
  BY <1>2, <1>5, <1>6
<1> QED BY <1>1, <1>4, <1>7

LEMMA RunAppend ==
    ASSUME NEW a \in Nat, NEW b \in Nat, a <= b
    PROVE  Append(Run(a, b), b + 1) = Run(a, b + 1)
<1>c. PICK c : c = b + 1
  OBVIOUS
<1>0. c \in Nat /\ b <= c /\ c - b = 1
  BY <1>c
<1>1. Run(b, c) = <<c>>
  <2>1. Run(b, c) \in Seq(Nat) /\ Len(Run(b, c)) = 1
    BY <1>0, RunType
  <2>2. Run(b, c)[1] = c
    BY <1>0 DEF Run
  <2> QED BY <2>1, <2>2
<1>2. Run(a, b) \o Run(b, c) = Run(a, c)
  BY <1>0, RunJoin
<1>3. Run(a, b) \in Seq(Nat)
  BY RunType
<1>4. PICK s : s = Run(a, b)
  OBVIOUS
<1>5. s \o <<c>> = Append(s, c)
  BY <1>3, <1>4
<1> QED BY <1>c, <1>1, <1>2, <1>4, <1>5

\* What a sequence of events that is owed leaves owed once its first ones were seen.
LEMMA RunAfter ==
    ASSUME NEW a \in Nat, NEW b \in Nat, NEW c \in Nat, a <= b, b <= c
    PROVE  After(Run(a, b), Run(a, c)) = Run(b, c)
<1>1. PICK s, t, u : s = Run(a, b) /\ t = Run(a, c) /\ u = Run(b, c)
  OBVIOUS
<1>2. /\ s \in Seq(Nat) /\ Len(s) = b - a
      /\ u \in Seq(Nat) /\ Len(u) = c - b
      /\ t \in Seq(Nat) /\ Len(t) = c - a
  <2>1. a <= c
    OBVIOUS
  <2>2. s \in Seq(Nat) /\ Len(s) = b - a
    BY <1>1, RunType
  <2>3. u \in Seq(Nat) /\ Len(u) = c - b
    BY <1>1, RunType
  <2>4. t \in Seq(Nat) /\ Len(t) = c - a
    BY <1>1, <2>1, RunType
  <2> QED BY <2>2, <2>3, <2>4
<1>3. /\ \A i \in 1 .. b - a : s[i] = a + i
      /\ \A i \in 1 .. c - b : u[i] = b + i
      /\ \A i \in 1 .. c - a : t[i] = a + i
  BY <1>1 DEF Run
<1>4. PICK n, m : n = b - a /\ m = c - a
  OBVIOUS
<1>5. n \in Nat /\ m \in Nat /\ n <= m /\ c - b = m - n
  BY <1>4
<1>6. SubSeq(t, 1, n) = s
  <2>1. PICK v : v = SubSeq(t, 1, n)
    OBVIOUS
  <2>2. v \in Seq(Nat) /\ Len(v) = n /\ \A i \in 1 .. n : v[i] = t[i]
    BY <1>2, <1>4, <1>5, <2>1
  <2>3. \A i \in 1 .. n : v[i] = s[i]
    <3> TAKE i \in 1 .. n
    <3>1. i \in 1 .. b - a /\ i \in 1 .. c - a
      BY <1>4, <1>5
    <3> QED BY <1>3, <2>2, <3>1
  <2> QED BY <1>2, <1>4, <2>1, <2>2, <2>3
<1>7. SubSeq(t, n + 1, m) = u
  <2>1. PICK v : v = SubSeq(t, n + 1, m)
    OBVIOUS
  <2>2. v \in Seq(Nat) /\ Len(v) = m - n /\ \A i \in 1 .. m - n : v[i] = t[n + i]
    <3>1. PICK j \in Nat : j = n + 1
      BY <1>5
    <3>2. t \in Seq(Nat) /\ Len(t) = m /\ j - 1 <= m /\ 1 <= j
      BY <1>2, <1>4, <1>5, <3>1
    <3>3. v = SubSeq(t, j, m)
      BY <2>1, <3>1
    <3>4. \A i \in j .. m : i \in 1 .. m /\ t[i] \in Nat
      BY <1>5, <3>1, <3>2
    <3>5. v \in Seq(Nat)
      BY <1>5, <3>2, <3>3, <3>4
    <3>6. Len(v) = m - j + 1
      BY <1>5, <3>2, <3>3
    <3>7. \A i \in 1 .. m - j + 1 : v[i] = t[j + i - 1]
      BY <1>5, <3>2, <3>3
    <3>8. m - j + 1 = m - n
      BY <1>5, <3>1
    <3>9. \A i \in 1 .. m - n : j + i - 1 = n + i
      BY <1>5, <3>1
    <3> QED BY <3>5, <3>6, <3>7, <3>8, <3>9
  <2>3. \A i \in 1 .. m - n : v[i] = u[i]
    <3> TAKE i \in 1 .. m - n
    <3>1. i \in 1 .. c - b /\ n + i \in 1 .. c - a /\ a + (n + i) = b + i
      BY <1>4, <1>5
    <3> QED BY <1>3, <2>2, <3>1
  <2> QED BY <1>2, <1>5, <2>1, <2>2, <2>3
<1> QED BY <1>1, <1>2, <1>4, <1>5, <1>6, <1>7 DEF After

\* What the host has given before the call under way, and with it once its block is in
\* the ring or dropped.
Given == IF host.pc = "slot" THEN blocks - 1 ELSE blocks

\* The device is to see the events after the first e[Rendered]; job k carries those from e[k]
\* to e[k + 1], and the rest, of blocks dropped since, waits for the next block.
InRuns(e) ==
    /\ e \in [Nat -> Nat]
    /\ owed = Run(e[Rendered], blocks)
    /\ \A i, k \in Rendered .. Filled : i <= k => e[i] <= e[k]
    /\ \A k \in Rendered .. Filled - 1 : J(k).midiIn = Run(e[k], e[k + 1])
    /\ e[Filled] + unsent = Given
    /\ carryMidi = Run(e[Filled], Given)

\* The thread is told to exit only while a client stops it, and exits with every job rendered.
ExitInv ==
    /\ exit /\ running => \E c \in Clients : client[c] = "stopping"
    /\ render = "exited" => exit /\ done = submitted

MidiInInv == \E e : InRuns(e)

LEMMA GivenType ==
    ASSUME TypeOK, NEW e, InRuns(e), Rendered \in Nat, Filled \in Nat, Rendered <= Filled
    PROVE  /\ Given \in Nat /\ e[Rendered] \in Nat /\ e[Filled] \in Nat
           /\ e[Rendered] <= e[Filled] /\ e[Filled] <= Given /\ Given <= blocks
           /\ blocks = (IF host.pc = "slot" THEN Given + 1 ELSE Given)
<1>1. e[Rendered] \in Nat /\ e[Filled] \in Nat /\ blocks \in Nat /\ unsent \in Nat
  BY DEF InRuns, TypeOK
<1>2. Rendered \in Rendered .. Filled /\ Filled \in Rendered .. Filled
  OBVIOUS
<1>3. e[Rendered] <= e[Filled]
  BY <1>2 DEF InRuns
<1>4. PICK x : x = e[Filled]
  OBVIOUS
<1>5. x \in Nat /\ x + unsent = Given
  BY <1>1, <1>4 DEF InRuns
<1>6. Given \in Nat /\ x <= Given
  BY <1>1, <1>5
<1>7. Given <= blocks /\ blocks = (IF host.pc = "slot" THEN Given + 1 ELSE Given)
  BY <1>1 DEF Given
<1> QED BY <1>1, <1>3, <1>4, <1>6, <1>7

\* The MIDI still in the ring is one run of the host's events.
LEMMA PendingRun ==
    ASSUME TypeOK, JobsInv, NEW e, InRuns(e)
    PROVE  PendingMidi = Run(e[Rendered], e[Filled])
<1>1. PICK a, b : a = Rendered /\ b = Filled
  OBVIOUS
<1>2. a \in Nat /\ b \in Nat /\ a <= b
  BY <1>1, MidiTypes
<1>3. /\ e \in [Nat -> Nat]
      /\ \A i, k \in a .. b : i <= k => e[i] <= e[k]
      /\ \A k \in a .. b - 1 : jobs[Slot(k)].midiIn = Run(e[k], e[k + 1])
  BY <1>1 DEF InRuns, J
<1> DEFINE IsPending(f) == f = [k \in a .. b |->
              IF k = b THEN <<>> ELSE jobs[Slot(k)].midiIn \o f[k + 1]]
           runs == [k \in a .. b |-> Run(e[k], e[b])]
<1>4. ASSUME NEW k \in a .. b, k # b
      PROVE  jobs[Slot(k)].midiIn \o Run(e[k + 1], e[b]) = Run(e[k], e[b])
  <2>1. k \in Nat /\ k + 1 \in Nat /\ k \in a .. b - 1 /\ k + 1 \in a .. b /\ b \in a .. b
    BY <1>2, <1>4
  <2>2. PICK x, y, z : x = e[k] /\ y = e[k + 1] /\ z = e[b]
    OBVIOUS
  <2>3. x \in Nat /\ y \in Nat /\ z \in Nat
    BY <1>2, <1>3, <2>1, <2>2
  <2>4. x <= y /\ y <= z
    <3>1. k <= k + 1 /\ k + 1 <= b
      BY <2>1
    <3> QED BY <1>3, <2>1, <2>2, <3>1
  <2>5. Run(x, y) \o Run(y, z) = Run(x, z)
    BY <2>3, <2>4, RunJoin
  <2> QED BY <1>3, <2>1, <2>2, <2>5
<1>5. Run(e[b], e[b]) = <<>>
  BY <1>2, <1>3, RunEmpty
<1>6. IsPending(runs)
  <2>1. ASSUME NEW k \in a .. b
        PROVE  Run(e[k], e[b]) = IF k = b THEN <<>> ELSE jobs[Slot(k)].midiIn \o runs[k + 1]
    <3>1. CASE k = b
      BY <1>5, <3>1
    <3>2. CASE k # b
      <4>1. k + 1 \in a .. b
        BY <1>2, <3>2
      <4> QED BY <1>4, <3>2, <4>1
    <3> QED BY <3>1, <3>2
  <2>2. PICK r : r = runs
    OBVIOUS
  <2>3. r = [k \in a .. b |-> IF k = b THEN <<>> ELSE jobs[Slot(k)].midiIn \o r[k + 1]]
    <3> HIDE DEF runs
    <3>1. runs = [k \in a .. b |-> Run(e[k], e[b])]
      BY DEF runs
    <3> QED BY <2>1, <2>2, <3>1
  <2> QED BY <2>2, <2>3
<1>7. ASSUME NEW f, IsPending(f) PROVE f[a] = Run(e[a], e[b])
  <2> DEFINE Bad == {d \in 0 .. b - a : f[b - d] # Run(e[b - d], e[b])}
  <2>1. \A k \in a .. b : f[k] = IF k = b THEN <<>> ELSE jobs[Slot(k)].midiIn \o f[k + 1]
    BY <1>7
  <2>2. Bad = {}
    <3> SUFFICES ASSUME Bad # {} PROVE FALSE
      OBVIOUS
    <3>1. Bad \subseteq Nat
      OBVIOUS
    <3>2. PICK d \in Bad : \A y \in Bad : d <= y
      <4> HIDE DEF Bad
      <4> QED BY <3>1, Least
    <3>3. d \in 0 .. b - a /\ f[b - d] # Run(e[b - d], e[b])
      OBVIOUS
    <3>4. PICK k : k = b - d
      OBVIOUS
    <3>5. k \in a .. b
      BY <1>2, <3>3, <3>4
    <3>6. k # b
      BY <1>5, <2>1, <3>3, <3>4, <3>5
    <3>7. d - 1 \in 0 .. b - a /\ b - (d - 1) = k + 1 /\ ~(d <= d - 1)
      BY <1>2, <3>3, <3>4, <3>6
    <3>8. f[k + 1] = Run(e[k + 1], e[b])
      <4>1. d - 1 \notin Bad
        <5> HIDE DEF Bad
        <5> QED BY <3>2, <3>7
      <4> QED BY <3>7, <4>1
    <3>9. f[k] = Run(e[k], e[b])
      BY <1>4, <2>1, <3>5, <3>6, <3>8
    <3> QED BY <3>3, <3>4, <3>9
  <2>3. b - a \in 0 .. b - a /\ b - (b - a) = a
    BY <1>2
  <2> QED BY <2>2, <2>3
<1>8. IsPending(CHOOSE f : IsPending(f))
  BY <1>6
<1>9. PendingMidi = (CHOOSE f : IsPending(f))[a]
  BY <1>1 DEF PendingMidi, Rendered, Filled
<1> QED BY <1>1, <1>7, <1>8, <1>9

LEMMA RunsInOrder == TypeOK /\ JobsInv /\ MidiInInv => MidiInOrder
<1> SUFFICES ASSUME TypeOK, JobsInv, MidiInInv PROVE MidiInOrder
  OBVIOUS
<1>1. PICK e : InRuns(e)
  BY DEF MidiInInv
<1>2. PICK x, y, z : x = e[Rendered] /\ y = e[Filled] /\ z = Given
  OBVIOUS
<1>3. /\ x \in Nat /\ y \in Nat /\ z \in Nat /\ x <= y /\ y <= z
      /\ blocks = (IF host.pc = "slot" THEN z + 1 ELSE z)
  <2>1. Rendered \in Nat /\ Filled \in Nat /\ Rendered <= Filled
    BY MidiTypes
  <2> QED BY <1>1, <1>2, <2>1, GivenType
<1>4. PendingMidi = Run(x, y) /\ carryMidi = Run(y, z) /\ owed = Run(x, blocks)
  BY <1>1, <1>2, PendingRun DEF InRuns
<1>5. Run(x, y) \o Run(y, z) = Run(x, z) /\ x <= z
  <2>1. Run(x, y) \o Run(y, z) = Run(x, z)
    BY <1>3, RunJoin
  <2>2. x <= z
    BY <1>3
  <2> QED BY <2>1, <2>2
<1>6. PICK s : s = Run(x, z)
  OBVIOUS
<1>7. s \in Seq(Nat)
  BY <1>3, <1>5, <1>6, RunType
<1>8. CASE host.pc = "slot"
  <2>1. Append(Run(x, z), z + 1) = Run(x, z + 1)
    BY <1>3, <1>5, RunAppend
  <2>2. s \o <<blocks>> = Append(s, blocks)
    BY <1>7
  <2>3. blocks = z + 1
    BY <1>3, <1>8
  <2>4. s \o <<blocks>> = owed
    BY <1>4, <1>6, <2>1, <2>2, <2>3
  <2> QED BY <1>4, <1>5, <1>6, <1>8, <2>4 DEF MidiInOrder
<1>9. CASE host.pc # "slot"
  <2>1. s \o <<>> = s
    BY <1>7
  <2> QED BY <1>3, <1>4, <1>5, <1>6, <1>9, <2>1 DEF MidiInOrder
<1> QED BY <1>8, <1>9

\* Steps that neither give nor render MIDI.
LEMMA RunsKept ==
    ASSUME TypeOK, JobsInv, MidiInInv, UNCHANGED <<owed, carryMidi, unsent, blocks>>,
           Filled' = Filled, Rendered' = Rendered, Given' = Given,
           \A k \in Rendered .. Filled - 1 : J(k)'.midiIn = J(k).midiIn
    PROVE  MidiInInv'
<1> SUFFICES ASSUME NEW e, InRuns(e) PROVE InRuns(e)'
  BY DEF MidiInInv
<1> QED BY DEF InRuns

\* The thread exits once everything is rendered, and the host hands nothing over then.
LEMMA ExitStep == ASSUME TypeOK, PlacesInv, JobsInv, ExitInv, [Next]_vars PROVE ExitInv'
<1> USE DEF hostSide, cursors, pauseVars, clientVars
<1>1. CASE HostNext
  <2>1. UNCHANGED <<exit, running, client, render, done>>
    BY <1>1 DEF HostNext, HostStep, HostEnter, HostWaitSlot, HostDrop, HostFill, HostPublish,
                HostTake, HostCopy
  <2>2. CASE ~HostPublish
    <3>1. submitted' = submitted
      BY <1>1, <2>2 DEF HostNext, HostStep, HostEnter, HostWaitSlot, HostDrop, HostFill,
                        HostTake, HostCopy
    <3> QED BY <2>1, <3>1 DEF ExitInv
  <2>3. CASE HostPublish
    <3>1. running /\ \A c \in Clients : client[c] # "stopping"
      BY <2>3 DEF HostPublish, PlacesInv, InScope
    <3>2. ~exit /\ render # "exited"
      BY <3>1 DEF ExitInv
    <3> QED BY <2>1, <3>2 DEF ExitInv
  <2> QED BY <2>2, <2>3
<1>2. CASE RenderNext \/ RenderFlush
  <2>1. UNCHANGED <<exit, running, client, submitted>>
    BY <1>2 DEF RenderNext, RenderFlush, RenderStep, RenderPark, RenderUnpark, RenderTake,
                RenderRender, RenderWrite, RenderPublish, RenderComplete
  <2>2. render' = "exited" => exit /\ done' = done /\ done = submitted
    <3>1. CASE RenderStep \/ RenderFlush
      BY <3>1 DEF RenderStep, RenderFlush, RenderMove, ExitInv
    <3>2. CASE ~(RenderStep \/ RenderFlush)
      BY <1>2, <3>2 DEF RenderNext, RenderPark, RenderUnpark, RenderTake, RenderRender,
                        RenderWrite, RenderPublish, RenderComplete, RenderMove
    <3> QED BY <3>1, <3>2
  <2> QED BY <2>1, <2>2 DEF ExitInv
<1>3. ASSUME NEW c \in Clients, ClientNext(c) PROVE ExitInv'
  <2>0. client \in [Clients -> ClientPlaces]
    BY DEF TypeOK
  <2>1. CASE ClientFinish(c) \/ ClientWait(c) \/ ClientEnter(c) \/ ClientResume(c)
    <3>1. /\ UNCHANGED <<exit, running, render, done, submitted>>
          /\ client[c] # "stopping" /\ \A d \in Clients : d # c => client'[d] = client[d]
      BY <2>0, <2>1 DEF ClientFinish, ClientWait, ClientFinished, ClientPause, ClientPaused,
                        ClientEnter, ClientResume, ClientMove, renderSide
    <3> QED BY <3>1 DEF ExitInv
  <2>2. CASE ClientStop(c)
    <3>1. /\ UNCHANGED <<running, render, done, submitted>>
          /\ exit' = TRUE /\ client'[c] = "stopping"
      BY <2>0, <2>2 DEF ClientStop, ClientMove, renderSide
    <3> QED BY <3>1 DEF ExitInv
  <2>3. CASE ClientJoined(c)
    <3>1. UNCHANGED <<exit, render, done, submitted>> /\ running' = FALSE
      BY <2>3 DEF ClientJoined
    <3> QED BY <3>1 DEF ExitInv
  <2>4. ASSUME NEW l \in Latencies, ClientStart(c, l) PROVE ExitInv'
    BY <2>4 DEF ClientStart, ExitInv
  <2> QED BY <1>3, <2>1, <2>2, <2>3, <2>4 DEF ClientNext, ClientWork
<1>4. CASE UNCHANGED vars
  BY <1>4 DEF vars, ExitInv
<1> QED BY <1>1, <1>2, <1>3, <1>4 DEF Next

----------------------------------------------------------------------------
(* The host's steps.                                                       *)

\* harvest() leaves the MIDI handed in alone.
LEMMA HarvestKeepsIn ==
    ASSUME TypeOK, Harvest
    PROVE  \A k \in Nat : jobs'[Slot(k)].midiIn = jobs[Slot(k)].midiIn
<1> SUFFICES ASSUME NEW k \in Nat PROVE jobs'[Slot(k)].midiIn = jobs[Slot(k)].midiIn
  OBVIOUS
<1>1. Slot(k) \in Slots /\ jobs[Slot(k)] \in Job
  BY SlotType DEF TypeOK
<1>2. jobs'[Slot(k)] \in {jobs[Slot(k)], [jobs[Slot(k)] EXCEPT !.midiOut = NoMidi]}
  BY <1>1 DEF Harvest
<1> QED BY <1>1, <1>2 DEF Job

\* A dropped block's MIDI joins what waits for the next block.
LEMMA RunsDrop == ASSUME TypeOK, JobsInv, MidiInInv, HostDrop PROVE MidiInInv'
<1>1. /\ UNCHANGED <<submitted, done, render, jobs, owed, blocks>>
      /\ host.pc = "slot" /\ host'.pc = "audio" /\ carryMidi' = Append(carryMidi, blocks)
      /\ unsent' = unsent + 1
  <2>1. host \in HostType
    BY DEF TypeOK, HostType
  <2>2. host.pc = "slot" /\ host'.pc = "audio"
    BY <2>1 DEF HostDrop, HostType
  <2> QED BY <2>2 DEF HostDrop, cursors, pauseVars
<1>2. Filled' = Filled /\ Rendered' = Rendered /\ \A k : J(k)' = J(k)
  BY <1>1 DEF Filled, Rendered, J, Slot
<1> SUFFICES ASSUME NEW e, InRuns(e) PROVE InRuns(e)'
  BY <1>1 DEF MidiInInv
<1>3. Rendered \in Nat /\ Filled \in Nat /\ Rendered <= Filled
  BY MidiTypes
<1>4. PICK x : x = e[Filled]
  OBVIOUS
<1>5. /\ Given \in Nat /\ x \in Nat /\ x <= Given /\ blocks = Given + 1 /\ unsent \in Nat
      /\ x + unsent = Given /\ carryMidi = Run(x, Given)
  <2>1. Given \in Nat /\ x \in Nat /\ x <= Given /\ blocks = Given + 1
    BY <1>1, <1>3, <1>4, GivenType
  <2>2. unsent \in Nat /\ x + unsent = Given /\ carryMidi = Run(x, Given)
    BY <1>4 DEF InRuns, TypeOK
  <2> QED BY <2>1, <2>2
<1>6. Given' = Given + 1
  BY <1>1, <1>5 DEF Given
<1>7. x + unsent' = Given'
  BY <1>1, <1>5, <1>6
<1>8. carryMidi' = Run(x, Given')
  BY <1>1, <1>5, <1>6, RunAppend
<1> QED BY <1>1, <1>2, <1>4, <1>7, <1>8 DEF InRuns

\* The block carries what waited and its own event, in this order.
LEMMA RunsFill == ASSUME TypeOK, JobsInv, MidiInInv, HostFill PROVE MidiInInv'
<1>1. /\ UNCHANGED <<submitted, done, harvested, render, owed, blocks>>
      /\ host.pc = "slot" /\ host'.pc = "publish" /\ submitted - harvested < JobCount
      /\ carryMidi' = <<>> /\ unsent' = 0
  <2>1. submitted \in Nat /\ harvested \in Nat /\ host \in HostType
    BY DEF TypeOK, HostType
  <2>2. host.pc = "slot" /\ host'.pc = "publish"
    BY <2>1 DEF HostFill, HostType
  <2>3. submitted - harvested < JobCount
    BY <2>1, JobCountAssumption DEF HostFill, SlotsBusy
  <2>4. /\ UNCHANGED <<submitted, done, harvested, render, owed, blocks>>
        /\ carryMidi' = <<>> /\ unsent' = 0
    BY DEF HostFill, cursors, pauseVars
  <2> QED BY <2>2, <2>3, <2>4
<1>2. /\ harvested \in Nat /\ submitted \in Nat /\ Rendered \in Nat
      /\ harvested <= Rendered /\ Rendered <= submitted
  BY MidiTypes
<1>3. Filled = submitted /\ Filled' = submitted + 1 /\ Rendered' = Rendered
  BY <1>1, <1>2 DEF Filled, Rendered
<1> SUFFICES ASSUME NEW e, InRuns(e) PROVE \E f : InRuns(f)'
  BY <1>1 DEF MidiInInv
<1>4. /\ Given \in Nat /\ e[submitted] \in Nat /\ e[submitted] <= Given
      /\ blocks = Given + 1 /\ Given' = blocks
  <2>1. Filled \in Nat /\ Rendered <= Filled
    BY <1>2, <1>3
  <2>2. Given \in Nat /\ e[Filled] \in Nat /\ e[Filled] <= Given /\ blocks = Given + 1
    BY <1>1, <1>2, <2>1, GivenType
  <2>3. Given' = blocks
    BY <1>1 DEF Given
  <2> QED BY <1>3, <2>2, <2>3
<1>5. PICK n : n = submitted + 1
  OBVIOUS
<1>6. PICK f : f = [e EXCEPT ![n] = blocks]
  OBVIOUS
<1>7. /\ e \in [Nat -> Nat] /\ owed = Run(e[Rendered], blocks)
      /\ \A i, k \in Rendered .. submitted : i <= k => e[i] <= e[k]
      /\ \A k \in Rendered .. submitted - 1 : J(k).midiIn = Run(e[k], e[k + 1])
      /\ carryMidi = Run(e[submitted], Given)
  BY <1>3 DEF InRuns
<1>8. n \in Nat /\ blocks \in Nat
  BY <1>2, <1>4, <1>5
<1>9. /\ f \in [Nat -> Nat] /\ f[n] = blocks
      /\ \A k \in Rendered .. submitted : k \in Nat /\ f[k] = e[k]
  <2>1. \A k \in Rendered .. submitted : k \in Nat /\ k # n
    BY <1>2, <1>5
  <2> QED BY <1>6, <1>7, <1>8, <2>1
<1>10. \A i, k \in Rendered .. n : i <= k => f[i] <= f[k]
  <2> SUFFICES ASSUME NEW i \in Rendered .. n, NEW k \in Rendered .. n, i <= k
               PROVE  f[i] <= f[k]
    OBVIOUS
  <2>1. CASE k # n
    <3>1. i \in Rendered .. submitted /\ k \in Rendered .. submitted
      BY <1>2, <1>5, <2>1
    <3> QED BY <1>7, <1>9, <3>1
  <2>2. CASE i = n
    <3>1. i = k
      BY <1>2, <1>5, <2>2
    <3> QED BY <1>8, <1>9, <2>2, <3>1
  <2>3. CASE k = n /\ i # n
    <3>1. i \in Rendered .. submitted /\ submitted \in Rendered .. submitted /\ i <= submitted
      BY <1>2, <1>5, <2>3
    <3>2. PICK x, y : x = e[i] /\ y = e[submitted]
      OBVIOUS
    <3>3. x \in Nat /\ y \in Nat /\ x <= y /\ y <= Given
      BY <1>2, <1>4, <1>7, <1>9, <3>1, <3>2
    <3>4. x <= blocks
      BY <1>4, <3>3
    <3> QED BY <1>9, <2>3, <3>1, <3>2, <3>4
  <2> QED BY <2>1, <2>2, <2>3
<1>11. \A k \in Rendered .. submitted - 1 : jobs'[Slot(k)] = J(k)
  <2> TAKE k \in Rendered .. submitted - 1
  <2>1. k \in Nat /\ k < submitted /\ submitted - k < JobCount
    BY <1>1, <1>2, JobCountAssumption
  <2>2. Slot(k) # Slot(submitted) /\ Slot(k) \in Slots
    BY <1>2, <2>1, SlotsDiffer, SlotType
  <2> QED BY <2>2 DEF HostFill, J, TypeOK
<1>12. jobs'[Slot(submitted)].midiIn = Append(carryMidi, blocks)
  <2>1. Slot(submitted) \in Slots
    BY <1>2, SlotType
  <2> QED BY <2>1 DEF HostFill, TypeOK
<1>13. Append(carryMidi, blocks) = Run(e[submitted], blocks)
  BY <1>4, <1>7, RunAppend
<1>14. ASSUME NEW k \in Rendered .. submitted PROVE jobs'[Slot(k)].midiIn = Run(f[k], f[k + 1])
  <2>1. CASE k = submitted
    BY <1>5, <1>9, <1>12, <1>13, <2>1
  <2>2. CASE k # submitted
    <3>1. k \in Rendered .. submitted - 1 /\ k + 1 \in Rendered .. submitted
      BY <1>2, <2>2
    <3> QED BY <1>7, <1>9, <1>11, <3>1
  <2> QED BY <2>1, <2>2
<1>15. carryMidi' = Run(f[n], Given')
  BY <1>1, <1>4, <1>8, <1>9, RunEmpty
<1>16. Filled' = n /\ Filled' - 1 = submitted /\ Rendered \in Rendered .. submitted
  BY <1>2, <1>3, <1>5
<1>17. f[n] + unsent' = Given' /\ owed' = Run(f[Rendered], blocks')
  BY <1>1, <1>4, <1>7, <1>8, <1>9, <1>16
<1>18. \A k \in Rendered' .. Filled' - 1 : J(k)'.midiIn = Run(f[k], f[k + 1])
  BY <1>3, <1>14, <1>16 DEF J, Slot
<1> QED BY <1>3, <1>9, <1>10, <1>15, <1>16, <1>17, <1>18 DEF InRuns

\* The event of a block that comes in is owed.
LEMMA RunsEnter ==
    ASSUME TypeOK, JobsInv, MidiInInv, NEW f \in FrameSizes, NEW rt \in BOOLEAN, HostEnter(f, rt)
    PROVE  MidiInInv'
<1>1. /\ Harvest /\ UNCHANGED <<submitted, done, render, carryMidi, unsent>>
      /\ host.pc = "idle" /\ host'.pc = "slot" /\ blocks' = blocks + 1
      /\ owed' = Append(owed, blocks')
  BY DEF HostEnter, LockFree, HostIdle
<1>2. Filled' = Filled /\ Rendered' = Rendered
  BY <1>1 DEF Filled, Rendered
<1>3. \A k \in Rendered .. Filled - 1 : J(k)'.midiIn = J(k).midiIn
  <2> TAKE k \in Rendered .. Filled - 1
  <2>1. k \in Nat
    BY MidiTypes
  <2> QED BY <1>1, <2>1, HarvestKeepsIn DEF J, Slot
<1> SUFFICES ASSUME NEW e, InRuns(e) PROVE InRuns(e)'
  BY DEF MidiInInv
<1>4. Rendered \in Nat /\ Filled \in Nat /\ Rendered <= Filled
  BY MidiTypes
<1>5. PICK x : x = e[Rendered]
  OBVIOUS
<1>6. Given \in Nat /\ blocks = Given /\ x \in Nat /\ x <= blocks
  <2>1. PICK y : y = e[Filled]
    OBVIOUS
  <2>2. Given \in Nat /\ blocks = Given /\ x \in Nat /\ y \in Nat /\ x <= y /\ y <= Given
    BY <1>1, <1>4, <1>5, <2>1, GivenType
  <2> QED BY <2>2
<1>7. Given' = Given
  BY <1>1, <1>6 DEF Given
<1>8. owed' = Run(x, blocks')
  <2>1. owed = Run(x, blocks) /\ blocks \in Nat
    BY <1>5, <1>6 DEF InRuns
  <2> QED BY <1>1, <1>6, <2>1, RunAppend
<1> QED BY <1>1, <1>2, <1>3, <1>5, <1>7, <1>8 DEF InRuns

LEMMA RunsHost ==
    ASSUME TypeOK, PlacesInv, JobsInv, MidiInInv, HostNext
    PROVE  MidiInInv'
<1> USE DEF cursors
<1>0. submitted \in Nat /\ host \in HostType
  BY DEF TypeOK, HostType
<1>1. CASE HostWaitSlot \/ HostCopy
  <2>1. Harvest /\ UNCHANGED <<submitted, done, render, owed, carryMidi, unsent, blocks>>
    BY <1>1 DEF HostWaitSlot, HostCopy
  <2>2. host.pc # "publish" /\ host'.pc # "publish" /\ Given' = Given
    BY <1>1 DEF HostWaitSlot, HostCopy, HostIdle, Given
  <2>3. Filled' = Filled /\ Rendered' = Rendered
    BY <2>1, <2>2 DEF Filled, Rendered
  <2>4. \A k \in Rendered .. Filled - 1 : J(k)'.midiIn = J(k).midiIn
    <3> TAKE k \in Rendered .. Filled - 1
    <3>1. k \in Nat
      BY MidiTypes
    <3> QED BY <2>1, <3>1, HarvestKeepsIn DEF J, Slot
  <2> QED BY <2>1, <2>2, <2>3, <2>4, RunsKept
<1>2. CASE HostPublish \/ HostTake
  <2>1. UNCHANGED <<done, render, owed, carryMidi, unsent, jobs, blocks>>
    BY <1>2 DEF HostPublish, HostTake, hostData
  <2>2. Filled' = Filled /\ Given' = Given
    <3>1. CASE HostTake
      <4>1. submitted' = submitted /\ host.pc = "audio" /\ host'.pc = "copy"
        BY <1>0, <3>1 DEF HostTake, HostType
      <4> QED BY <2>1, <4>1 DEF Filled, Given
    <3>2. CASE HostPublish
      <4>1. submitted' = submitted + 1 /\ host.pc = "publish" /\ host'.pc = "audio"
        BY <1>0, <3>2 DEF HostPublish, HostType
      <4> QED BY <1>0, <2>1, <4>1 DEF Filled, Given
    <3> QED BY <1>2, <3>1, <3>2
  <2>3. Rendered' = Rendered /\ \A k : J(k)' = J(k)
    BY <2>1 DEF Rendered, J, Slot
  <2> QED BY <2>1, <2>2, <2>3, RunsKept
<1> QED BY <1>1, <1>2, RunsEnter, RunsDrop, RunsFill DEF HostNext, HostStep

----------------------------------------------------------------------------
(* The render thread's steps and the clients'.                             *)

LEMMA RunsRender ==
    ASSUME TypeOK, JobsInv, MidiInInv, RenderNext \/ RenderFlush
    PROVE  MidiInInv'
<1> USE DEF hostSide, hostData, RenderMove
<1>0. /\ UNCHANGED <<submitted, host, carryMidi, unsent, blocks>>
      /\ Filled' = Filled /\ Given' = Given
  BY DEF RenderNext, RenderFlush, RenderStep, RenderPark, RenderUnpark, RenderTake,
         RenderRender, RenderWrite, RenderPublish, RenderComplete, Filled, Given
<1>1. /\ done \in Nat /\ submitted \in Nat /\ Filled \in Nat /\ Rendered \in Nat
      /\ submitted <= Filled /\ Rendered <= submitted
  BY MidiTypes
<1>2. CASE \/ RenderFlush \/ RenderStep \/ RenderPark \/ RenderUnpark \/ RenderWrite
           \/ RenderPublish \/ RenderComplete
  <2>1. UNCHANGED <<jobs, owed>> /\ Rendered' = Rendered
    BY <1>1, <1>2 DEF RenderFlush, RenderStep, RenderPark, RenderUnpark, RenderWrite,
                      RenderPublish, RenderComplete, Rendered
  <2>2. \A k : J(k)' = J(k)
    BY <2>1 DEF J, Slot
  <2> QED BY <1>0, <2>1, <2>2, RunsKept
<1>3. CASE RenderTake \/ RenderRender
  <2>1. /\ render \in {"job", "render"} /\ done' = done /\ done < submitted /\ Rendered = done
    BY <1>1, <1>3 DEF RenderTake, RenderRender, JobsInv, OnDevice, Rendered
  <2>2. ASSUME NEW k \in Nat PROVE jobs'[Slot(k)].midiIn = J(k).midiIn
    <3>1. Slot(k) \in Slots /\ Slot(done) \in Slots /\ jobs \in [Slots -> Job]
      BY <1>1, SlotType DEF TypeOK
    <3>2. PICK v : jobs' = [jobs EXCEPT ![Slot(done)].midiOut = v]
      BY <1>3 DEF RenderTake, RenderRender
    <3> QED BY <3>1, <3>2 DEF J, Job
  <2>3. \A k \in Rendered .. Filled - 1 : J(k)'.midiIn = J(k).midiIn
    <3> TAKE k \in Rendered .. Filled - 1
    <3>1. k \in Nat
      BY <1>1
    <3> QED BY <2>2, <3>1 DEF J, Slot
  <2>4. CASE RenderTake
    <3>1. Rendered' = Rendered /\ owed' = owed
      BY <2>1, <2>4 DEF RenderTake, Rendered
    <3> QED BY <1>0, <2>3, <3>1, RunsKept
  <2>5. CASE RenderRender
    <3> SUFFICES ASSUME NEW e, InRuns(e) PROVE InRuns(e)'
      BY <1>0 DEF MidiInInv
    <3>1. Rendered' = done + 1 /\ owed' = After(J(done).midiIn, owed)
      BY <2>1, <2>5 DEF RenderRender, Rendered, J
    <3>2. /\ done \in Rendered .. Filled - 1 /\ done \in Rendered .. Filled
          /\ done + 1 \in Rendered .. Filled /\ Filled \in Rendered .. Filled
          /\ done + 1 <= Filled /\ Rendered <= Filled
      BY <1>1, <2>1
    <3>3. PICK x, y, z : x = e[done] /\ y = e[done + 1] /\ z = e[Filled]
      OBVIOUS
    <3>4. x \in Nat /\ y \in Nat /\ z \in Nat /\ x <= y /\ y <= z
      BY <1>1, <3>2, <3>3 DEF InRuns
    <3>5. owed = Run(x, blocks) /\ J(done).midiIn = Run(x, y)
      BY <2>1, <3>2, <3>3 DEF InRuns
    <3>6. blocks \in Nat /\ y <= blocks
      <4>1. Given \in Nat /\ blocks \in Nat /\ z <= Given /\ Given <= blocks
        BY <1>1, <3>2, <3>3, GivenType DEF TypeOK
      <4> QED BY <3>4, <4>1
    <3>7. owed' = Run(e[Rendered'], blocks)
      <4>1. After(Run(x, y), Run(x, blocks)) = Run(y, blocks)
        BY <3>4, <3>6, RunAfter
      <4> QED BY <3>1, <3>3, <3>5, <4>1
    <3>8. \A k \in Rendered' .. Filled : k \in Rendered .. Filled
      BY <1>1, <2>1, <3>1
    <3>9. \A k \in Rendered' .. Filled - 1 : k \in Rendered .. Filled - 1
      BY <1>1, <2>1, <3>1
    <3>10. \A k \in Rendered' .. Filled - 1 : J(k)'.midiIn = Run(e[k], e[k + 1])
      BY <2>3, <3>9 DEF InRuns
    <3>11. \A i, k \in Rendered' .. Filled : i <= k => e[i] <= e[k]
      BY <3>8 DEF InRuns
    <3> QED BY <1>0, <3>7, <3>10, <3>11 DEF InRuns
  <2> QED BY <1>3, <2>4, <2>5
<1> QED BY <1>2, <1>3 DEF RenderNext

\* A ring with no job in it and nothing given.
LEMMA RunsStart ==
    ASSUME Rendered = 0, Filled = 0, Given = 0, blocks = 0, unsent = 0, owed = <<>>,
           carryMidi = <<>>
    PROVE  MidiInInv
<1>1. PICK e : e = [n \in Nat |-> 0]
  OBVIOUS
<1>2. e \in [Nat -> Nat] /\ e[0] = 0 /\ Run(0, 0) = <<>>
  BY <1>1, RunEmpty
<1>3. \A i, k \in 0 .. 0 : i <= k => e[i] <= e[k]
  BY <1>2
<1>4. 0 .. 0 - 1 = {}
  OBVIOUS
<1>5. InRuns(e)
  BY <1>2, <1>3, <1>4 DEF InRuns
<1> QED BY <1>5 DEF MidiInInv

\* While the thread is gone, and once it exited, no job is in the ring.
LEMMA NothingPending ==
    ASSUME TypeOK, PlacesInv, ExitInv, render = "exited"
    PROVE  /\ Filled = done /\ Rendered = done /\ submitted = done /\ done \in Nat
           /\ host.pc = "idle"
<1>1. exit /\ done = submitted /\ done \in Nat /\ submitted \in Nat
  BY DEF ExitInv, TypeOK
<1>2. host.pc = "idle"
  <2>1. CASE running
    <3>1. PICK c \in Clients : client[c] = "stopping"
      BY <1>1, <2>1 DEF ExitInv
    <3> QED BY <3>1 DEF PlacesInv, InScope
  <2>2. CASE ~running
    BY <2>2 DEF PlacesInv
  <2> QED BY <2>1, <2>2
<1> QED BY <1>1, <1>2 DEF Filled, Rendered

\* A restart discards what is owed beyond the last block handed over: everything.
LEMMA RunsRestart ==
    ASSUME TypeOK, PlacesInv, JobsInv, ExitInv, MidiInInv, NEW c \in Clients,
           NEW l \in Latencies, ClientStart(c, l)
    PROVE  MidiInInv'
<1>1. /\ submitted' = 0 /\ done' = 0 /\ render' = "top" /\ blocks' = 0 /\ host' = host
      /\ carryMidi' = <<>> /\ unsent' = 0 /\ owed' = SubSeq(owed, 1, Len(owed) - unsent)
  BY DEF ClientStart
<1>2. render = "exited"
  BY DEF ClientStart, PlacesInv
<1>3. Filled = done /\ Rendered = done /\ done \in Nat /\ host.pc = "idle"
  BY <1>2, NothingPending
<1>4. PICK e : InRuns(e)
  BY DEF MidiInInv
<1>5. PICK x : x = e[done]
  OBVIOUS
<1>6. x \in Nat /\ blocks \in Nat /\ unsent \in Nat /\ x + unsent = blocks /\ owed = Run(x, blocks)
  <2>1. Given = blocks
    BY <1>3 DEF Given
  <2> QED BY <1>3, <1>4, <1>5, <2>1 DEF InRuns, TypeOK
<1>7. x <= blocks /\ blocks - x = unsent
  BY <1>6
<1>8. owed \in Seq(Nat) /\ Len(owed) = unsent
  BY <1>6, <1>7, RunType
<1>9. owed' = <<>>
  <2>1. Len(owed) - unsent = 0
    BY <1>6, <1>8
  <2>2. SubSeq(owed, 1, 0) = <<>>
    BY <1>8
  <2> QED BY <1>1, <2>1, <2>2
<1>10. Filled' = 0 /\ Rendered' = 0 /\ Given' = 0
  BY <1>1, <1>3 DEF Filled, Rendered, Given
<1>11. (Rendered = 0 /\ Filled = 0 /\ Given = 0 /\ blocks = 0 /\ unsent = 0 /\ owed = <<>>
            /\ carryMidi = <<>> => MidiInInv)'
  BY RunsStart, PTL
<1> QED BY <1>1, <1>9, <1>10, <1>11

LEMMA RunsClient ==
    ASSUME TypeOK, PlacesInv, JobsInv, ExitInv, MidiInInv, NEW c \in Clients, ClientNext(c)
    PROVE  MidiInInv'
<1> USE DEF hostSide, hostData, cursors
<1>1. CASE ClientFinish(c) \/ ClientWait(c) \/ ClientEnter(c) \/ ClientResume(c) \/ ClientStop(c)
  <2>1. UNCHANGED <<submitted, done, render, jobs, host, blocks, unsent, owed, carryMidi>>
    BY <1>1 DEF ClientFinish, ClientWait, ClientFinished, ClientPause, ClientPaused, ClientEnter,
                ClientResume, ClientStop, renderSide
  <2>2. /\ Filled' = Filled /\ Rendered' = Rendered /\ Given' = Given
        /\ \A k : J(k)' = J(k)
    BY <2>1 DEF Filled, Rendered, Given, J, Slot
  <2> QED BY <2>1, <2>2, RunsKept
<1>2. CASE ClientJoined(c)
  <2>1. /\ UNCHANGED <<submitted, done, render, host, blocks, unsent, owed, carryMidi>>
        /\ render = "exited"
    BY <1>2 DEF ClientJoined
  <2>2. Filled = done /\ Rendered = done /\ done \in Nat
    BY <2>1, NothingPending
  <2>3. Filled' = Filled /\ Rendered' = Rendered /\ Given' = Given
    BY <2>1 DEF Filled, Rendered, Given
  <2>4. Rendered .. Filled - 1 = {}
    BY <2>2
  <2> QED BY <2>1, <2>3, <2>4, RunsKept
<1> QED BY <1>1, <1>2, RunsRestart DEF ClientNext, ClientWork

\* Every MIDI event the host gives reaches the device once and in order, whatever blocks are
\* dropped on the way and however often the thread is restarted, but for the events of blocks
\* dropped right before a restart, which start() discards; for any ring, blocks and threads
\* (md::AsyncRender::process, threadFunc and start, mdasyncrender.cpp).
THEOREM MidiInCorrect == Spec => []MidiInOrder
<1>1. Init => ExitInv /\ MidiInInv
  <2> SUFFICES ASSUME Init PROVE ExitInv /\ MidiInInv
    OBVIOUS
  <2>1. /\ Rendered = 0 /\ Filled = 0 /\ Given = 0 /\ blocks = 0 /\ unsent = 0
        /\ owed = <<>> /\ carryMidi = <<>>
    BY DEF Init, Filled, Rendered, Given, HostIdle
  <2>2. ExitInv
    BY DEF Init, ExitInv
  <2> QED BY <2>1, <2>2, RunsStart
<1>2. TypeOK /\ RingInv /\ ExitInv /\ MidiInInv /\ [Next]_vars => ExitInv' /\ MidiInInv'
  <2> SUFFICES ASSUME TypeOK, PlacesInv, JobsInv, ExitInv, MidiInInv, [Next]_vars
               PROVE  ExitInv' /\ MidiInInv'
    BY DEF RingInv
  <2>1. CASE UNCHANGED vars
    <3>1. UNCHANGED <<submitted, done, render, jobs, host, blocks, unsent, owed, carryMidi>>
      BY <2>1 DEF vars, cursors, hostData
    <3>2. /\ Filled' = Filled /\ Rendered' = Rendered /\ Given' = Given
          /\ \A k : J(k)' = J(k)
      BY <3>1 DEF Filled, Rendered, Given, J, Slot
    <3> QED BY <3>1, <3>2, RunsKept, ExitStep
  <2>2. MidiInInv'
    BY <2>1, RunsHost, RunsRender, RunsClient DEF Next
  <2> QED BY <2>2, ExitStep
<1>3. TypeOK /\ RingInv /\ MidiInInv => MidiInOrder
  BY RunsInOrder DEF RingInv
<1> QED BY <1>1, <1>2, <1>3, RingCorrect, PTL DEF Spec

=============================================================================
