--------------------------- MODULE PairTransport ---------------------------
(***************************************************************************)
(* The Monomachine's pair transport (mdhardware.cpp, mddsp.cpp): the audio *)
(* thread runs the ColdFire (UC), one worker runs both DSPs. Each side is  *)
(* gated by the positions the other publishes, the UC's words and commands *)
(* reach a DSP through a dated stream, and both sides sleep on one         *)
(* TransportSignal.                                                        *)
(*                                                                         *)
(* Time: a UC cycle is Num units long, a DSP cycle Den units. Both DSPs    *)
(* count from the origin of the rate lock, latched at the same cycle.      *)
(***************************************************************************)
EXTENDS Naturals, Sequences, FiniteSetsExt

CONSTANTS
    Num, Den,       \* units of a UC cycle and of a DSP cycle
    Frame,          \* DSP cycles of a codec frame, the longest chunk
    Quantum,        \* the scheduler's quantum, in units
    MinChunk,       \* DSP cycles the worker gathers when nobody waits
    Clamp,          \* catchUpMaxDspCycles
    Safety,         \* half the safety margin of the host audio input, in units
    BpThreshold,    \* words of backlog a DSP runs with
    BpRelease,      \* UC cycles backpressure may hold a DSP
    RingSize,       \* room of a host-to-DSP stream
    Handoffs        \* the sessions: leads, positions and registers at the handoff,
                    \* calls of advance(), what the firmwares do on the host ports,
                    \* and how far past its stop the rest of a block takes a DSP

Dsps == {1, 2}
Mixer == 1
Peer(i) == 3 - i
Infinite == 10000

\* What a session is made of: what the pair takes over at the handoff, and what follows.
HostOp == [op : {"data", "command", "read"}, dsp : Dsps]
Session ==
    [lead : [dsp : Nat, uc : Nat], uc : Nat, pos : [Dsps -> Nat], rx : [Dsps -> Nat],
     busy : [Dsps -> BOOLEAN], blocks : Nat, block : Nat, host : Seq(HostOp),
     words : [Dsps -> Nat], over : Nat]

ASSUME PairAssumption ==
    /\ {Num, Den, Frame, MinChunk, Clamp, BpRelease, RingSize} \subseteq Nat \ {0}
    /\ {Quantum, Safety, BpThreshold} \subseteq Nat
ASSUME HandoffsAssumption == Handoffs \subseteq Session

VARIABLES
    setup,      \* this session
    lead,       \* its leads: [dsp |-> UC cycles, uc |-> units]
    blocks,     \* calls of advance() so far
    ucAt,       \* where the audio thread is
    site, on,   \* the wait it is in, and the DSP it is about
    uc,         \* m_schedUcCyclesDone
    sub,        \* end of the slice, in units
    cache,      \* m_pairDspMinCache, in units
    left,       \* what the UC's firmware still does on the host ports
    stream,     \* m_hostToDsp of each DSP
    tx,         \* dates of a DSP's words the UC's firmware has not read
    wkAt,       \* where the worker is
    gate,       \* the gates this turn found, 0 for a DSP that does not run
    linkTo,     \* <<>>, or the DSP a link write catches up and the cycle to reach
    dsp,        \* each DSP: position, receive register, host command, last landing
    since,      \* m_pairBpSince
    stored,     \* positions and holds as their owner published them
    shown,      \* ... and as the other thread sees them
    indulged,   \* history: a DSP was allowed past the UC for a blocked item
    late,       \* history: an item that nothing blocked landed late
    notifying, asleep

ucVars == <<ucAt, site, on, sub, cache, left, blocks>>
wkVars == <<wkAt, gate, linkTo, dsp, since, indulged, late>>
vars == <<setup, lead, ucVars, uc, stream, tx, wkVars, stored, shown, notifying, asleep>>

INSTANCE TransportSignal WITH Threads <- {"uc", "worker"}

Target == blocks * setup.block
UcPos(u) == u * Num
Deadline(u) == (u * Num) \div Den
ReadyCycle(c) == (c * Den + (Num - 1)) \div Num
Cycles(units) == units \div Den

\* Mutant: the UC's lead is what was asked for, even with no DSP lead.
AsAsked(l) == l.uc

\* With no DSP lead the gates would close on each other: the UC gets a chunk.
Raised(l) == IF l.dsp = 0 THEN Max({l.uc, (MinChunk + 1) * Den}) ELSE l.uc

Init ==
    /\ setup \in Handoffs
    /\ lead = [dsp |-> setup.lead.dsp, uc |-> Raised(setup.lead)]
    /\ uc = setup.uc /\ left = setup.host
    /\ dsp = [i \in Dsps |-> [pos |-> setup.pos[i], rx |-> setup.rx[i], busy |-> setup.busy[i],
                              last |-> 0, words |-> setup.words[i], stuck |-> FALSE]]
    /\ stored = [uc |-> setup.uc, pos |-> setup.pos, held |-> <<FALSE, FALSE>>]
    /\ indulged = (\E i \in Dsps : setup.pos[i] > Deadline(setup.uc + lead.dsp))
    /\ shown = stored
    /\ blocks = 1 /\ ucAt = "decide" /\ site = "none" /\ on = 0 /\ sub = 0 /\ cache = 0
    /\ stream = <<<<>>, <<>>>> /\ tx = <<<<>>, <<>>>>
    /\ wkAt = "turn" /\ gate = <<0, 0>> /\ linkTo = <<>>
    /\ since = <<0, 0>> /\ late = FALSE
    /\ SignalInit

-----------------------------------------------------------------------------
(* What a thread stores stays in its store buffer until it is flushed.     *)

Flushed(t) == IF t = "uc" THEN [shown EXCEPT !.uc = stored.uc]
                          ELSE [stored EXCEPT !.uc = shown.uc]
FlushOf(t) == shown' = Flushed(t)

\* Mutant: notify() without its fence reads the waiters while the position is in the buffer.
FenceWithoutFlush(t) ==
    /\ NotifyAll(t)
    /\ UNCHANGED <<setup, lead, ucVars, uc, stream, tx, wkVars, stored, shown>>

Fence(t) ==
    /\ NotifyAll(t)
    /\ FlushOf(t)
    /\ UNCHANGED <<setup, lead, ucVars, uc, stream, tx, wkVars, stored>>

\* The store may as well become visible before the fence.
Drain(t) ==
    /\ t \in notifying /\ shown # Flushed(t)
    /\ FlushOf(t)
    /\ UNCHANGED <<setup, lead, ucVars, uc, stream, tx, wkVars, stored, notifying, asleep>>

-----------------------------------------------------------------------------
(* The audio thread.                                                       *)

\* The slower DSP as the UC sees it; a DSP held by backpressure does not count.
DspMin ==
    LET counted == {i \in Dsps : ~shown.held[i]}
    IN IF counted = {} THEN Infinite ELSE Min({shown.pos[i] * Den : i \in counted})

UcReady ==
    CASE site = "lead" -> DspMin + lead.uc > UcPos(uc)
      [] site = "room" -> Len(stream[on]) < RingSize
      [] site = "time" -> shown.pos[on] >= Deadline(uc) \/ shown.held[on]
      [] site = "mixer" -> \/ shown.pos[Mixer] >= Min({Cycles(Target), Deadline(uc)})
                           \/ shown.held[Mixer]
      [] OTHER -> FALSE

\* The audio thread is in waitTransport(): the worker runs even short chunks.
Urgent == ucAt = "round"
Blocked(i) == site = "room" /\ on = i

Publish == stored' = [stored EXCEPT !.uc = uc]
StartWait(where, d) == ucAt' = "wait" /\ site' = where /\ on' = d /\ Notify("uc")

UcUnchanged == UNCHANGED <<setup, lead, tx, wkVars, shown, asleep>>

Advance ==
    /\ Free("uc") /\ ucAt = "idle" /\ blocks < setup.blocks
    /\ blocks' = blocks + 1 /\ ucAt' = "step" /\ Notify("uc")
    /\ UNCHANGED <<site, on, sub, cache, left, uc, stream, stored>> /\ UcUnchanged

Step ==
    /\ Free("uc") /\ ucAt = "step"
    /\ Publish /\ Notify("uc") /\ ucAt' = "decide"
    /\ UNCHANGED <<site, on, sub, cache, left, blocks, uc, stream>> /\ UcUnchanged

Refreshed == IF cache + lead.uc < UcPos(uc) + Quantum THEN DspMin ELSE cache

Decide ==
    /\ Free("uc") /\ ucAt = "decide"
    /\ \/ /\ UcPos(uc) >= Target
          /\ StartWait("mixer", Mixer) /\ Publish
          /\ UNCHANGED <<sub, cache>>
       \/ /\ UcPos(uc) < Target
          /\ cache' = Refreshed
          /\ \/ /\ UcPos(uc) >= Refreshed + lead.uc
                /\ StartWait("lead", 0) /\ Publish
                /\ UNCHANGED sub
             \/ /\ UcPos(uc) < Refreshed + lead.uc
                /\ sub' = Min({UcPos(uc) + Quantum, Target, Refreshed + lead.uc})
                /\ ucAt' = "slice"
                /\ UNCHANGED <<site, on, stored, notifying>>
    /\ UNCHANGED <<left, blocks, uc, stream>> /\ UcUnchanged

\* A stretch of instructions of one UC cycle here, 128 cycles or more, and its publication.
Execute ==
    /\ Free("uc") /\ ucAt = "slice"
    /\ uc' = uc + 1
    /\ IF UcPos(uc + 1) >= sub THEN ucAt' = "step" /\ sub' = 0 ELSE UNCHANGED <<ucAt, sub>>
    /\ stored' = [stored EXCEPT !.uc = uc + 1] /\ Notify("uc")
    /\ UNCHANGED <<site, on, cache, left, blocks, stream>> /\ UcUnchanged

Push(d, kind) ==
    /\ stream' = [stream EXCEPT ![d] = Append(@, [kind |-> kind, uc |-> uc, ahead |-> indulged])]
    /\ left' = Tail(left)
    /\ Notify("uc")

\* The firmware writes a data word or a command, or reads the command register.
HostAccess ==
    /\ Free("uc") /\ ucAt = "slice" /\ left # <<>>
    /\ LET op == Head(left) IN
          \/ /\ op.op # "read" /\ Len(stream[op.dsp]) < RingSize
             /\ Push(op.dsp, op.op)
             /\ UNCHANGED <<ucAt, site, on, stored>>
          \/ /\ op.op # "read" /\ Len(stream[op.dsp]) = RingSize
             /\ StartWait("room", op.dsp)
             /\ UNCHANGED <<left, stream, stored>>
          \/ /\ op.op = "read"
             /\ StartWait("time", op.dsp) /\ Publish
             /\ left' = Tail(left)
             /\ UNCHANGED stream
    /\ UNCHANGED <<sub, cache, blocks, uc>> /\ UcUnchanged

\* The room is there and m_hostWriteBlocked withdrawn: the word goes out.
PushAfterWait ==
    /\ Free("uc") /\ ucAt = "push"
    /\ Push(Head(left).dsp, Head(left).op)
    /\ ucAt' = "slice"
    /\ UNCHANGED <<site, on, sub, cache, blocks, uc, stored>> /\ UcUnchanged

\* The UC takes a DSP's word that is due and the firmware reads it from its latch, in one
\* step.  In the code the read comes later and is the only one of the two to lower the
\* backlog of a word taken from the timed queue, without a notify of its own
\* (setHostPumpWakeCallback, mddsp.cpp:600-604); the UC notifies before each of its waits, so
\* the worker is told before the two can both sleep.
ReadWord ==
    /\ Free("uc") /\ ucAt = "slice"
    /\ \E i \in Dsps :
          /\ tx[i] # <<>> /\ ReadyCycle(Head(tx[i])) <= uc
          /\ tx' = [tx EXCEPT ![i] = Tail(@)]
    /\ Notify("uc")
    /\ UNCHANGED <<setup, lead, ucVars, uc, stream, wkVars, stored, shown, asleep>>

\* A wait returns, satisfied or given up; setHostWriteBlocked(false) notifies.
Resume ==
    /\ site' = "none" /\ on' = 0
    /\ ucAt' = CASE site = "lead" -> "step" [] site = "room" -> "push"
                 [] site = "time" -> "slice" [] OTHER -> "idle"
    /\ cache' = IF site = "lead" THEN DspMin ELSE cache
    /\ IF site = "room" THEN Notify("uc") ELSE UNCHANGED notifying
    /\ UNCHANGED <<sub, left, blocks>>

\* waitTransport(): raise the urgency, a full barrier, and notify.
BeginWait ==
    /\ Free("uc") /\ ucAt = "wait"
    /\ \/ UcReady /\ Resume /\ UNCHANGED shown
       \/ /\ ~UcReady
          /\ FlushOf("uc") /\ Notify("uc") /\ ucAt' = "round"
          /\ UNCHANGED <<site, on, sub, cache, left, blocks>>
    /\ UNCHANGED <<setup, lead, uc, stream, tx, wkVars, stored, asleep>>

\* A round stores the position again, without a notification, and sleeps on a
\* false predicate. Whoever wakes it starts another.
Round ==
    /\ Free("uc") /\ ucAt = "round"
    /\ \/ UcReady /\ Resume /\ UNCHANGED <<stored, shown, asleep>>
       \/ /\ ~UcReady
          /\ Publish /\ shown' = [shown EXCEPT !.uc = uc] /\ Sleep("uc")
          /\ UNCHANGED <<ucVars, notifying>>
    /\ UNCHANGED <<setup, lead, uc, stream, tx, wkVars>>

\* 200 microseconds without a wake-up: another round, or the wait is given up.
RoundEnds ==
    /\ TimesOut("uc")
    /\ \/ UNCHANGED <<ucVars, notifying>>
       \/ ~UcReady /\ site # "room" /\ Resume
    /\ UNCHANGED <<setup, lead, uc, stream, tx, wkVars, stored, shown>>

-----------------------------------------------------------------------------
(* The worker. A DSP lands what its stream holds for its own time.         *)

DrainStart(d, item) == Max({Deadline(item.uc), d.last})

\* Whether the head lands: a word waits for its register, a command for the
\* words before it and for the last command, each no longer than the clamp.  Left out: a
\* word also waits while the receive ring is full (mddsp.cpp:476-477), which takes more words
\* at once than the runs' firmware sends.
Lands(d, item) ==
    LET start == DrainStart(d, item)
        overdue == d.pos >= start + Clamp
    IN /\ Deadline(item.uc) <= d.pos
       /\ IF item.kind = "data"
             THEN d.rx = 0 \/ overdue
             ELSE (d.rx = 0 \/ d.pos >= start + 4 * Clamp) /\ (~d.busy \/ overdue)

\* A word that found its register free, before a DSP that nothing let run ahead,
\* by more than a chunk and a link write can take it past their ends.
TooLate(d, item) ==
    /\ ~d.stuck /\ ~item.ahead
    /\ d.pos > Deadline(item.uc + lead.dsp) + 2 * setup.over

\* The DSP once the first n of the items have landed.
AfterLanding(d, items, n) ==
    [d EXCEPT !.rx = @ + Cardinality({k \in 1 .. n : items[k].kind = "data"}),
              !.busy = @ \/ \E k \in 1 .. n : items[k].kind = "command",
              !.last = IF n = 0 THEN @ ELSE d.pos]

\* How many land: all in front of the first that does not.
Landing(d, items) ==
    Cardinality({n \in DOMAIN items :
                    \A k \in 1 .. n : Lands(AfterLanding(d, items, k - 1), items[k])})

\* applyHostToDspStream(): the DSP afterwards, how much landed, whether too late.
Serve(d, items) ==
    LET n == Landing(d, items)
        blocked == n < Len(items) /\ Deadline(items[n + 1].uc) <= d.pos
    IN [d |-> [AfterLanding(d, items, n) EXCEPT !.stuck = blocked],
        n |-> n, late |-> \E k \in 1 .. n : TooLate(d, items[k])]

Served(i) == Serve(dsp[i], stream[i])
Rest(i, n) == [stream EXCEPT ![i] = SubSeq(@, n + 1, Len(@))]

\* The allowance of a head that is due and blocked, 0 without one.
BlockedAllowance(d, items) ==
    IF items = <<>> \/ Deadline(Head(items).uc) > d.pos THEN 0
    ELSE LET start == DrainStart(d, Head(items)) IN
         IF Head(items).kind = "data" THEN IF d.rx > 0 THEN start + Clamp ELSE 0
         ELSE IF d.rx > 0 \/ d.busy THEN start + 5 * Clamp ELSE 0

Allowance(d, items, i) ==
    IF Blocked(i) /\ items # <<>>
       THEN Max({BlockedAllowance(d, items), DrainStart(d, Head(items)) + Clamp})
       ELSE BlockedAllowance(d, items)

BaseGate == Min({Cycles(Target + Quantum), Deadline(shown.uc + lead.dsp)})

\* Not past the host audio queued, except for a UC stalled on a full stream.
Allowed(d, items) ==
    LET most == Max({Allowance(d[i], items[i], i) : i \in Dsps})
    IN IF \E i \in Dsps : Blocked(i) THEN most ELSE Min({most, Cycles(Target + Safety)})

\* Backpressure: a DSP with too many words for the UC stays where it is, until
\* they are read or the release window of UC time is over.
HoldBegan(i) == IF since[i] = 0 THEN shown.uc + 1 ELSE since[i]
Backlogged(i) == Len(tx[i]) > BpThreshold
Holds(i) == Backlogged(i) /\ shown.uc - (HoldBegan(i) - 1) < BpRelease

GateOf(d, items, i) ==
    IF Allowed(d, items) > BaseGate THEN Allowed(d, items)
    ELSE IF Holds(i) THEN Min({BaseGate, d[i].pos}) ELSE BaseGate

Runs(d, items, i) ==
    d[i].pos + (IF Urgent THEN 1 ELSE MinChunk) <= GateOf(d, items, i)

WkUnchanged == UNCHANGED <<setup, lead, ucVars, uc, shown, asleep>>

\* runnable(i): land what is due, find the gate, hold or release the DSP.
\* w is what the worker knows before, and the result what it knows after.
Landed(w, i) ==
    LET s == Serve(w.dsp[i], w.stream[i])
    IN [w EXCEPT !.dsp[i] = s.d, !.stream[i] = SubSeq(@, s.n + 1, Len(@)),
                 !.late = @ \/ s.late, !.tells = @ \/ s.n > 0]

Gated(w, i) ==
    LET passes == Allowed(w.dsp, w.stream) > BaseGate
        held == IF passes THEN w.held[i] ELSE Holds(i)
    IN [w EXCEPT !.gate[i] = IF Runs(w.dsp, w.stream, i) THEN GateOf(w.dsp, w.stream, i) ELSE 0,
                 !.since[i] = IF passes THEN @ ELSE IF Backlogged(i) THEN HoldBegan(i) ELSE 0,
                 !.held[i] = held,
                 !.passes = @ \/ passes,
                 !.tells = @ \/ held # w.held[i]]

\* A turn looks at both DSPs; with both gated it announces m_producerParked.
Turn ==
    /\ Free("worker") /\ wkAt = "turn"
    /\ \E w1 \in {Landed([dsp |-> dsp, stream |-> stream, gate |-> gate, since |-> since,
                          held |-> stored.held, passes |-> FALSE, late |-> late,
                          tells |-> FALSE], 1)} :
       \E w2 \in {Gated(w1, 1)} : \E w3 \in {Landed(w2, 2)} : \E w \in {Gated(w3, 2)} :
          /\ dsp' = w.dsp /\ stream' = w.stream /\ gate' = w.gate /\ since' = w.since
          /\ stored' = [stored EXCEPT !.held = w.held]
          /\ late' = w.late
          /\ indulged' = \/ w.passes
                         \/ /\ indulged
                            /\ \E i \in Dsps : w.dsp[i].pos > Deadline(shown.uc + lead.dsp)
          /\ wkAt' = IF w.gate = <<0, 0>> THEN "parked" ELSE "chunk"
          /\ IF w.tells \/ w.gate = <<0, 0>> THEN Notify("worker") ELSE UNCHANGED notifying
    /\ UNCHANGED <<linkTo, tx>> /\ WkUnchanged

\* What the firmware of a DSP may do on the way to cycle end: read its register
\* there or at once, when a due word behind it lands on that read; finish its
\* host command; write w words for the UC.
RunTo(d, items, end, read, busy, w) ==
    LET c == IF read = "early" THEN d.pos + 1 ELSE end
        lands == /\ read # "none" /\ d.rx = 1 /\ items # <<>> /\ Head(items).kind = "data"
                 /\ Deadline(Head(items).uc) <= c
    IN [d |-> [d EXCEPT !.pos = end, !.rx = IF read = "none" \/ lands THEN @ ELSE @ - 1,
                        !.last = IF lands THEN c ELSE @, !.busy = busy, !.words = @ - w],
        n |-> IF lands THEN 1 ELSE 0, w |-> w]

Ran(d, items, stop) ==
    {RunTo(d, items, end, read, busy, w) :
        end \in stop .. stop + setup.over,
        read \in IF d.rx = 0 THEN {"none"} ELSE {"none", "early", "late"},
        busy \in {FALSE, d.busy}, w \in {0, Min({1, d.words})}}

Sent(i, w, at) == IF w = 0 THEN tx ELSE [tx EXCEPT ![i] = Append(@, at)]

PublishDsps(d) == stored' = [stored EXCEPT !.pos = [i \in Dsps |-> d[i].pos]] /\ Notify("worker")

\* Mutant: a chunk that does not end where the next item is due.
StopPastTheItem(i, s, items) == Min({gate[i], s.pos + Frame})

\* One codec frame at most, no further than the gate or the next item.
Stop(i, s, items) ==
    Min({gate[i], s.pos + Frame}
            \cup (IF items # <<>> /\ Deadline(Head(items).uc) > s.pos
                     THEN {Deadline(Head(items).uc)} ELSE {}))

Laggard == IF gate[1] # 0 /\ (gate[2] = 0 \/ dsp[1].pos <= dsp[2].pos) THEN 1 ELSE 2

\* runPairChunk() on the laggard. A link write on the way first brings the
\* other DSP to its cycle.
Chunk ==
    /\ Free("worker") /\ wkAt = "chunk"
    /\ gate' = <<0, 0>>
    /\ LET i == Laggard IN
       \E s \in {Served(i)} : \E items \in {Rest(i, s.n)[i]} :
       \E r \in Ran(s.d, items, Stop(i, s.d, items)) :
          /\ dsp' = [dsp EXCEPT ![i] = r.d]
          /\ stream' = Rest(i, s.n + r.n)
          /\ tx' = Sent(i, r.w, r.d.pos)
          /\ late' = (late \/ s.late)
          /\ \/ /\ wkAt' = "turn" /\ UNCHANGED linkTo /\ PublishDsps(dsp')
             \/ /\ ~Backlogged(Peer(i))
                /\ dsp[Peer(i)].pos < r.d.pos
                /\ linkTo' = <<Peer(i), Min({r.d.pos, dsp[Peer(i)].pos + Clamp})>>
                /\ wkAt' = "link" /\ UNCHANGED <<stored, notifying>>
    /\ UNCHANGED since /\ UNCHANGED indulged /\ WkUnchanged

\* schedCatchUpDspToDsp(): the other DSP up to the link write, landing its own
\* items on the way, unless its backlog stops it.
Link ==
    /\ Free("worker") /\ wkAt = "link"
    /\ LET i == linkTo[1] IN
       \/ /\ dsp[i].pos < linkTo[2] /\ ~Backlogged(i)
          /\ \E s \in {Served(i)} : \E items \in {Rest(i, s.n)[i]} :
             LET due == IF items = <<>> THEN 0 ELSE Deadline(Head(items).uc)
                 stop == IF due > s.d.pos THEN Min({linkTo[2], due}) ELSE linkTo[2]
             IN \E r \in Ran(s.d, items, stop) :
                   /\ dsp' = [dsp EXCEPT ![i] = r.d]
                   /\ stream' = Rest(i, s.n + r.n)
                   /\ tx' = Sent(i, r.w, r.d.pos)
                   /\ late' = (late \/ s.late)
                   /\ IF s.n + r.n > 0 THEN Notify("worker") ELSE UNCHANGED notifying
          /\ UNCHANGED <<wkAt, linkTo, stored>>
       \/ /\ dsp[i].pos >= linkTo[2] \/ Backlogged(i)
          /\ wkAt' = "turn" /\ linkTo' = <<>> /\ PublishDsps(dsp)
          /\ UNCHANGED <<dsp, stream, tx, late>>
    /\ UNCHANGED <<gate, since, indulged>> /\ WkUnchanged

\* The wait's predicate: gates are read, nothing lands.
WouldRun == \E i \in Dsps : Runs(dsp, stream, i)

Park ==
    /\ Free("worker") /\ wkAt = "parked"
    /\ \/ WouldRun /\ wkAt' = "turn" /\ UNCHANGED <<shown, asleep>>
       \/ ~WouldRun /\ FlushOf("worker") /\ Sleep("worker") /\ UNCHANGED wkAt
    /\ UNCHANGED <<setup, lead, ucVars, uc, stream, tx, gate, linkTo, dsp, since, indulged, late,
                   stored, notifying>>

\* 500 microseconds: the next turn.
ParkEnds ==
    /\ TimesOut("worker") /\ wkAt' = "turn"
    /\ UNCHANGED <<setup, lead, ucVars, uc, stream, tx, gate, linkTo, dsp, since, indulged, late,
                   stored, shown, notifying>>

-----------------------------------------------------------------------------
UcRuns ==
    \/ Step \/ Decide \/ Execute \/ HostAccess \/ PushAfterWait \/ ReadWord
    \/ BeginWait \/ Round \/ Fence("uc")

WorkerRuns == Turn \/ Chunk \/ Link \/ Park \/ ParkEnds \/ Fence("worker")

Next ==
    \/ Advance \/ UcRuns \/ RoundEnds
    \/ WorkerRuns
    \/ Drain("uc") \/ Drain("worker")

Spec == Init /\ [][Next]_vars

\* Both threads run, stores become visible and the worker's wait is bounded. The
\* rounds of the UC's waits are not counted on: what ends a wait is the worker.
FairSpec ==
    /\ Spec
    /\ WF_vars(UcRuns)
    /\ WF_vars(WorkerRuns)

\* notify() promises that "a waiter already registered will be notified"
\* (mdtransportsignal.h:31-35): with both threads asleep, neither has missed
\* what would let it run.
NoLostWakeup ==
    asleep = {"uc", "worker"} => ~UcReady /\ ~WouldRun

\* A word or command of the UC lands in a DSP "that much late in DSP time"
\* (mdtransportpolicy.h:28-30): within the DSPs' lead, although a DSP runs
\* whole chunks, lands words on its firmware's reads and is brought up to the
\* other one's link writes. Except behind an unread register or an unfinished
\* command, and what is written while a DSP is ahead for one that was blocked.
WordsOnTime == ~late

\* "The gates must not close on each other" (mdhardware.cpp:2313): each side
\* waits for the other within its lead, with the UC also behind a full stream
\* or an exact read and a DSP held by backpressure, and still every block
\* ends, without the time limits of the UC's waits.
BlockEnds == (ucAt # "idle") ~> (ucAt = "idle")

\* "keep the UC within that lead of the slower DSP" (mdhardware.cpp:1938-1942):
\* with no DSP held, a slice never starts a whole lead beyond even the faster.
LeadKept ==
    [][ucAt = "decide" /\ ucAt' = "slice" /\ (\A i \in Dsps : ~shown.held[i])
           => \E i \in Dsps : UcPos(uc) < shown.pos[i] * Den + lead.uc]_vars
=============================================================================
