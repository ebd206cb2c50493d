# TLA+ models of the Machinedrum / Monomachine emulator

The repository is a fork of an emulator framework whose own part is the
Elektron instruments under `src/source/elektron/md`: a ColdFire processor (the
"UC"), two DSPs on threads of their own, the MIDI and SysEx paths into the
firmware, and a plug-in that renders one latency behind its host. The models here
are about that part. They are translated from the C++ sources; where a behaviour belongs to the
instrument's firmware, which is not in the repository, it is marked external and
follows what the sources and their tests record of it.

Contents: 1 the system, 2 modules, 3 runs, 4 fairness, 5 proofs, 6 what the
code disagrees with, 7 what is not modelled, 8 the plan.

`PROJECT.json` has the machine-readable side: the components, the lines every
definition models (`map`), the hazards with the properties that watch them, the
runs, a mutant for every property, the findings and the theorems.

To check: `tlc -config AsyncRender_safety.cfg AsyncRender`, and so on for the
table in section 3 (the module is named there); `tlapm` on `AsyncRenderProofs.tla`,
`AsyncRenderStreamProofs.tla`, `MidiIngressProofs.tla`, `TurboTransferProofs.tla`,
`DeviceProofs.tla`, `PairTransportProofs.tla`, `ChainPlayerProofs.tla` and
`RingArithmetic.tla` for the proofs.

## 1. The system

Paths without a directory are in `src/source/elektron/md/mdLib`.

### Threads

| thread | runs | shares |
|---|---|---|
| host audio | `Plugin::process`, `AsyncRender::process` | job ring, audio FIFO, the plug-in's lock |
| render | `AsyncRender::threadFunc`, which calls the device | the same ring and FIFO, the device while it is not paused |
| UC | `Hardware::processUC`, one instruction at a time; either the render thread or a helper | everything of `Hardware` between two instructions |
| two DSP workers | `Hardware::pairWorkerLoop`, `producerWorkerLoop` | dated transport, gates, `TransportSignal` |
| message / editor | the editor's timers and dialogs, state save and restore | the plug-in's lock, `AsyncRender::pause`, tickets of an import |
| pads, automation | `RealtimeMidiByteQueue::tryPush` | the lock-free command ring |

### Components

For each: state, operations, how it meets the others, what is hard about it, and what
makes it correct. The status of each is in `PROJECT.json`.

**AsyncRender** (`mdasyncrender.h/.cpp`). State: a ring of 16 jobs with three
absolute positions (`m_submitted`, `m_done`, `m_harvested`), a ring of 65536
stereo frames with two positions, the gap and the MIDI carried over dropped
blocks, `m_hold`/`m_parked`/`m_exit`/`m_running`. Operations: `process`,
`finish`, `pause`, `resume`, `start`, `stop`, the thread loop. Hard: the host,
the render thread and several clients interleave; waits take place under the plug-in's
lock; positions are reset by a restart; release/acquire pairs are the only
synchronisation of the ring. Correct if the output is the input, late by exactly the
latency the plug-in reports; no slot or cell is used by two threads; MIDI is neither lost nor
reordered; a paused device is not rendered; and every wait ends.

**TurboMidiTransfer** (`mdturbomidi.h/.cpp`). State: a phase, a state and an
error, the file with its cursor and message index, the Sample Dump state
(packet number, retries, WAIT), the queue of responses, the control bytes to
send. Operations: `start`, `cancel`, `resumeReceiveMode`, `service`,
`observeTransmitByte`, `retirePayload`. It owns the MIDI wire from start to
release. Hard: lost, late, repeated and corrupt replies, numbers that wrap,
steps the user has to confirm, a cancellation at any point. Correct if what is
reported as received or complete was received, the wire is left clean, nothing
goes out before the user has prepared the instrument, and the transfer ends.

**MIDI ingress** (part of `mdhardware.cpp`, `mdscheduledmidi.h`,
`mdrealtimemidiqueue.h`). State: the heap of scheduled events, the ring
`m_midiIn` with its byte cursor, the lock-free command ring, the boundary a
transfer records. Three sources share one receive queue. Correct if messages are
never split, events arrive in time order, nothing is lost, what was queued
before a transfer crosses before it and what came later waits, and none of the
waits is circular.

**Transport of the two sides** (`mdhardware.cpp` 1920-3281, `mdtransportsignal.h`,
`mddsp.cpp`, `mdtransportpolicy.h`). State: the positions of the UC and the DSPs in
emulated time, the leads, the stream of dated words and commands to each DSP, the
backpressure a DSP is held with, who sleeps. UC and DSPs run on threads of their own
(one worker for both DSPs on the Monomachine, the Pair mode); each is gated by the
positions the other publishes, and both sleep on one signal. Correct if the leads keep
their bounds, the gates never close on each other, no wake-up is lost, and words
land at their date.

**Device and its restore** (`mddevice.cpp`, `mdsyseximport.h`,
`mdJucePlugin/mdPluginProcessor.cpp`). State: the live machine and its epoch, the
requested project, a candidate machine that boots beside the live one, the status and
generation of the restore, the import ticket. A prepared machine is committed later
under the lock, by the host's thread, by the processor's timer after a reboot, or the
timer reboots the live machine with its own contents; import dialogs hold tickets which
a restore or a replaced machine invalidates. Correct if a save never gives anything
but the project loaded last or what is played, no edit is lost to a reboot, a load
ends, and a stale ticket does nothing.

**Plugin** (`src/source/synthLib/plugin.cpp`). The lock, `DevicePause`, MIDI
queues, latency, state. Correct if nobody uses a device another thread has
replaced, the latency reported is the one rendered, and each MIDI message reaches
the device once.

**ChainPlayer, HostSync, DumpRequestTracker, Monomachine pattern writer**
(`mdchainplayer.cpp`, `mdhostsync.cpp`, `mdautomationsync.cpp`,
`mdmmpatternwriter.cpp`). Each talks to the firmware by requests whose answers
may be late: a chain of patterns against what really plays, a change verified by a later dump, a
status request repeated after its deadline. Correct if a late answer is not
taken for the current one and a lost one is asked for again.

**Progress publisher** (`mdsysextransfer.h`). A sequence lock with one writer.
Correct if a reader never returns a mixture of two publications.

**Host audio input** (`mdhostaudioqueue.h`). Numbered frames between the
plug-in and the emulated inputs. Correct if a frame is heard at its own number
or not at all, over drops and resets.

**Formats, panel, flash, ROM, editor, upstream framework, other synthesizers,
vendored code**: in `PROJECT.json`, with the reason they are left aside.

## 2. Modules

| module | models | notes |
|---|---|---|
| `AsyncRender` | `AsyncRender` and the part of the plug-in's lock it needs | three kinds of process |
| `AsyncRenderProofs` | theorems about it: types, the pause, the job ring and the FIFO's positions | |
| `AsyncRenderStreamProofs` | theorems about it: what the host hears, the MIDI in and out | |
| `TurboTransfer` | `TurboMidiTransfer`, the instrument, the user | `service()` is one action |
| `TurboTransferProofs` | theorems about it | |
| `MCTurboTransfer` | files for its instances | |
| `MCTurboScenarios` | two instances that one run checks | its variable says which of them it is |
| `MidiIngress` | the three sources of MIDI and the port | the pump byte by byte |
| `MidiIngressProofs` | theorems about it | |
| `RingArithmetic` | lemmas about positions, ring cells and least elements | used by the proofs |
| `PatternChain` | the passes of a chain of patterns, as operators | |
| `ChainPlayer` | the player, the transport, the machine, other senders | one action per event |
| `ChainPlayerProofs` | theorems about both | |
| `MCChainPlayer` | chains and lengths; checks that `passAt` and the pass after agree | |
| `HostProject` | what a host may rely on when it loads and saves | abstract |
| `DeviceRestore` | device, restores, reboots, imports | implements `HostProject` |
| `HostSync` | the host's clock and transport settings in the machine | serviced by a device |
| `DeviceSession` | `DeviceRestore` and `HostSync` composed | |
| `DeviceProofs` | theorems about `DeviceRestore`, `DeviceSession` and its `HostSync` | |
| `MCDeviceSession` | scenarios | |
| `TransportSignal` | `notify()` and `waitFor()` | instantiated by `PairTransport` |
| `PairTransport` | audio thread and worker of the Pair mode | store buffers |
| `PairTransportProofs` | theorems about it: wake-ups and the dates of words | |
| `MCPairTransport` | sessions | |

A comment `Mutant:` marks an operator which is a plausible bug in place of the
definition that follows it; a property is worth its place only if such a
replacement breaks it.

### AsyncRender

Every function is cut where another thread can observe it: `process()` into
entry (with `harvest()`), the wait for a slot, filling it and publishing it, the wait for
audio, the copy and the advance; the thread loop into the test at the top, parking,
unparking, taking a job, rendering, writing, publishing and completing. A
client goes `finish`, `pause`, takes the lock, perhaps `stop` and `start`, and
`resume`s. `host.pc`, `render` and `client` are those places.

* A frame of audio is its position in the host's stream, a rendered frame keeps
  the number of its input. So "the output is the input, late by the latency" is
  an equation between numbers (`FifoContent`, `OutputDelayed`).
* MIDI: one event per block, named by the block; rendering yields one, named by the
  block's first frame. Order and exactly-once delivery are equations between sequences
  (`MidiInOrder`, `MidiOutOrder`). `owed` is history: the events the device is still to see,
  from the call that brought them to the block that renders them. It survives a restart, which
  `start()` makes lose only what it clears with `m_carryMidi` (`unsent` counts those events).
* `StoreBuffer = TRUE` lets the release store of `m_parked = false` be seen
  late (`parkedStore`, `RenderFlush`), as x86 and C++ allow. The other variables
  are read by waits that poll, for which lateness is only delay.
* A condition-variable wait is a guard, because every wait in the code has a
  time limit and looks at its predicate again.

### TurboTransfer

Calls are serialized by the plug-in's lock, so `start`, `cancel`, one
`service()`, one confirmation and one byte on either line are each one action. A
message has two halves, so that it can be cut; its content is its place in the
file. One half is admitted by a call of `service()` or none: pacing is that
choice. Deadlines are counted in ticks up to `PhaseLimit` (`WaitLimit` for a
WAIT). `service()` is the composition parse, phase handler, pump, drain, in the
code's order, each an operator from host record to host record.

The instrument (`Take`, `Faulty`, `Device*`) is external. It receives samples
in order, answers ACK, NAK, WAIT or CANCEL as `mdturbomidi.cpp:275-277`, `mdLibTest/sdsFirmwareTest.cpp`
and `sdsFaultWire.h` record of MD 1.63, and shows a bounded number of faults: a
lost, repeated, malformed or delayed reply, a missed or refused message, an unrelated
message, a cancellation. `LateReplies` says whether an answer may come after the
deadline of what it answers.

Left out: the speed codes and why a negotiation falls back (it falls back or not), active
sensing and the pauses between bytes, the assembly of a reply from bytes, and the
overflow of the 4096 byte FIFO behind `observeTransmitByte`. The guard that the
ingress is drained is in `MidiIngress`. The machine's model does not change
within a behaviour.

### MidiIngress

`pump` is the place of `processUC()` between two instructions: `cpu` (scheduled
events, calls under the lock), the four stages of `pumpMidiIngress`
(`finish`, `before`, `realtime`, `general`), `exec`, and `service`. The port
takes one byte per step and firmware reads one per instruction that reads.
`tryPush` has two steps, copying behind the write position and one store which
publishes. The transfer is only what it does to the wire: bytes in a row, a
cancellation that ends an open message with EOX (failures leave it the same
way), and a release once the port is empty. A frame is one cycle (the
conversion between them is monotone). That a project restore holds all of this
back is left out.

### PatternChain, ChainPlayer

An action is one event the host, another sender or the machine's answer brings, with
everything `process()` or `observe()` does to it. `machine` is external: how the
instrument commits a pattern, lets a later one wait and treats STOP is what
`mdchainplayer.h` and `patternChainFirmwareTest` record. Times are ticks; patterns
have 1 to 3 steps of two ticks instead of up to 64 of six, and the commit comes 3
ticks before the end. `inStep` and `misled` are history: `inStep` says the
player had its chance to ask for every change since the start, `misled` that what it takes
the next start to play is a belief it has no way to check (`StartBelief` names the three kinds;
section 6 quotes what the code says of them). `WrapAssumption` keeps the ticks of
one song below the wrap of a `uint64_t`, which no song reaches; only the difference to the last
request, which may be below zero, is modelled with its wrap.

### HostProject, DeviceRestore, HostSync, DeviceSession

Everything under the plug-in's lock is one action; a step without the lock reads
what an earlier one put into `loads` (calls of `setState` under way) or
`timer` (the processor's two services). Contents of the patch memory and the flash are
named by the number of the input that made them (`inputs`, history), so two contents
are equal only when they have the same origin. `Prepared` gives every machine that
preparing a project may yield: none, one that is ready, or one that has to learn its
factory flash first. What a machine has learnt, its boot and its fitness are choices
of `Process`. The transfer is reduced to its states, its ticket and who touched it.

`HostProject` knows none of this: a project, what sounds, whether a load is open. The
mapping is `project <- Saved, sounding <- Content(live), loading <- Pending`.

`HostSync` is the component of one block: the answers since the last one, the target,
the ordering of `service()`; the machine's firmware, its user and the controller's
polls are actions of their own. `DeviceSession` runs it within `Process`, resets it in
the actions that change `device` or `epoch`, and passes it the condition under
which the device keeps its hands off. Its assumptions say what the enumerations of the code
say: both clock settings are among `Settings`, the limits are numbers, and an empty
`std::optional` is no slot, no pair of machine and slot, and no request.

### TransportSignal, PairTransport

The audio thread (`ucAt`) and the worker (`wkAt`) step by what the other can
observe: a slice of instructions and its publication, a host access, the begin and each
round of a wait; a turn of the gates, a chunk, a link write's catch-up, the parking.
Every publication is a store followed by `Notify`, whose fence (`Fence`) is a step of
its own; `Drain` lets the store be seen before. A wait on the signal registers with the
fence and then evaluates its predicate, as one step, since only the other thread's
notification can come between and it would find the registration.

A UC cycle is `Num` units, a DSP cycle `Den`, so dates do not divide evenly; a
chunk's and a frame's length, the clamp, the safety margin and the backpressure threshold
are a few cycles. How DSP firmware treats its register and its host command is a choice of
`Ran`. Several words' latches and their bookkeeping in `mddsp.cpp` are one
queue with the register's count.

## 3. Runs

All of them use the definitions of the modules as they are; a cfg only gives
constants their values.

| run | module, cfg | question | bounds and why |
|---|---|---|---|
| async_safety | `AsyncRender`, `AsyncRender_safety.cfg` | slots, cells, audio and MIDI right under pauses, drops, a restart and late stores? | two slots are the fewest with one busy and one free; a FIFO of 8 frames with blocks of 1 and 2 wraps, is overrun by the host and reaches the gap's cap of 4; latency 7 is above the cap of half the FIFO; 4 blocks between two starts wrap the job ring twice. About 2.2 million states |
| async_live | `AsyncRender`, `AsyncRender_live.cfg` | does every wait end, and does the thread catch up? a paused device untouched? | two clients nest and overlap; one slot makes the wait for a slot happen at each block, and blocks longer than the latency the wait for audio; two blocks between two starts make one of them meet a pause or a full ring. Stores are seen at once: see section 6 |
| async_unpark_race | `AsyncRender`, `AsyncRender_unpark_race.cfg` | finding | one client, two blocks, `StoreBuffer` |
| async_offline_drop | `AsyncRender`, `AsyncRender_offline_drop.cfg` | finding | one client, no restart, three blocks: one fills the only slot, two are dropped |
| turbo_faults | `MCTurboScenarios`, `TurboTransfer_faults.cfg` | is what is acknowledged or complete received? is the wire left clean, the outcome true, the user asked first? does a transfer end? | two instances. One transfer with any two faults but a repeated reply, and late replies: a kit around a sample, two samples in a row of which one has a name, a sample of `PacketModulus + 1` packets whose number wraps. Two transfers on either machine, with one fault of any kind, a repeated reply among them, two cancellations and stale confirmations. 2 retries; 2 responses; a port of one message. The response queue does overflow here. About 650 thousand states |
| turbo_late_ack | `MCTurboTransfer`, `TurboTransfer_late_ack.cfg` | finding | two transfers, one cancellation, one refused packet |
| midi_ingress | `MidiIngress`, `MidiIngress.cfg` | is a message ever split, reordered, lost or stuck? | a port of 2 bytes under events of 3, so every event is interrupted; a command ring of 3 under commands of 2, so it wraps and refuses; `m_midiIn` of 1; two latencies, so a reduction reorders deadlines. About 224 thousand states; deadlock is checked |
| chain_player | `MCChainPlayer`, `ChainPlayer.cfg` | does the machine play the chain, over late requests, other senders, restarts in the middle and outdated answers? | patterns of 1 to 3 steps: one shorter than the commit, one longer than another; chains of 0, 2 and 3 entries; 16 ticks go round each; two selections or chains of others; deadlock is checked |
| device_session | `MCDeviceSession`, `DeviceSession.cfg` | is a project kept, does a load end, does an import hit what it was opened for, does HostSync change only what it read, and does it settle? | each scenario is one pair of conflicts: two loads with an edit, a load with a save and an edit, a load with two imports, a load and an exchange with an import, an exchange; HostSync beside the reboot of a Machinedrum and beside an exchange. Two slots, three settings, two attempts. About 216 thousand states |
| host_sync_stale_dump | `MCDeviceSession`, `DeviceSession_stale_dump.cfg` | finding | the scenarios of device_session; HostSync beside the reboot of a Machinedrum |
| pair_transport | `MCPairTransport`, `PairTransport.cfg` | can both sides sleep, are words late, does every block end? | quiet sessions with the policy's leads and with none, words for both DSPs with and without overshoot, a full register under words and commands, reads of the command register, backpressure of both DSPs. About 550 thousand states |
| pair_lead | `MCPairTransport`, `PairTransport_lead.cfg` | finding | both DSPs held, one longer block |

`CHECK_DEADLOCK FALSE` stands where the bounds stop the system: a transfer that
is over may be the last one, and the two findings of `AsyncRender` stop at their
last block; a `DeviceSession` and a `PairTransport` end when their scenario is used up
(`BlockEnds`, `LoadsEnd` and `SyncSettles` say that they do not stop before). `AsyncRender`
itself (safety and live), `MidiIngress` and `ChainPlayer` are checked for deadlock.

What the properties are about, in the order of the hazards they watch:

* *Two threads at one place.* `SlotReuse`, `FifoNoRace`, `FifoHasRoom`: the host
  never fills a slot that is rendered or not yet harvested; never copies a cell that is being
  written; the render thread is never kept waiting by a full FIFO, whatever the gap
  and the latency. `PauseExcludesRender`: a client that holds the device has it alone.
* *What is heard.* `FifoContent`, `OutputDelayed`, `MidiInOrder`, `MidiOutOrder`:
  dropped blocks become silence of their own length, and their MIDI goes with the next
  block. Once the gap's cap has cut frames (`cut # 0`) the audio plays early, so the
  first two are stated for `cut = 0`. What a restart discards is said at the two properties:
  MIDI rendered and not collected, and that of blocks dropped since the last one handed over.
* *Waits.* `ProcessReturns`, `PauseReturns`, `FinishReturnsOrRestart`,
  `RenderCatchesUp`: in particular offline, where the host waits under the lock a client
  wants. `ProcessReturns` speaks of the wait for a slot and of the calls that hand their block
  over; that all calls return (`EveryProcessReturns`) is violated, section 6.
* *Transfers.* `CompleteMeansDelivered`, `AcknowledgedMeansReceived`,
  `NoSampleOvertaken`, `PositionsAgree`, `SentOnlyWhenReady`,
  `WireReleasedClean`, `OutcomeIsTrue`, `TransferEnds`. Replies are lost, late, malformed or
  (one of them, and nothing else) repeated. A repeated ACK of a header beside a missed or
  refused first packet is not covered: it is taken for that packet's, by the same comparison
  as in `turbo_late_ack`.
* *The wire.* `NoMessageSplit`, `EventsInTimeOrder`, `EventsKept`,
  `CommandsInOrder`, `BoundaryHeld`, `TransferReleases`, `EventsArrive`.
* *A chain.* `PlaysTheChain`: pattern and position at every clock, whenever the player
  had time to ask, and until a selection or another chain comes while it plays (`inStep`, which
  the next start renews). `StartBelief`: what it takes for the pattern START plays is that,
  but for the beliefs of section 6.
* *A project.* `KeepsProject` is the refinement of `HostProject`; `LoadsEnd`;
  `ImportsIntoItsProject`.
* *The host's settings.* `ChangesWhatItRead`: of the machine of now and the slot reported last.
  `StartsOverFromARead`: the same of every dump; violated, section 6. `SyncSettles`: a lost
  change is repeated or reported as failed at last; that a dump of before the change never
  passes for its verification is not asked.
* *Two clocks.* `NoLostWakeup`: with both threads asleep neither can run.
  `WordsOnTime`: a word that nothing blocked lands within the DSPs' lead. `BlockEnds`:
  the gates do not close on each other, and no time limit of the UC's waits is needed.

## 4. Fairness

* `AsyncRender`: weak fairness of each thread's own steps: a `process()` under
  way, the render loop, a buffered store, a client's waits and its work inside a scope.
  Nobody is made to call `process()` or to pause. Taking the lock has strong
  fairness: the mutex is not fair and may go to another thread, but a client that
  can take it again and again gets it at last.
* `TurboTransfer`: `service()` is called after every instruction and time passes
  with it; the instrument reads and sends; the user answers a step that is
  shown. The last is the one assumption about a person; without it a transfer waits for
  ever, which is what the code means it to do.
* `MidiIngress`: the processor runs (weak), its firmware reads its UARTs again
  and again (strong, for an instruction that reads), a producer that has copied a
  command publishes it (weak).

* `DeviceRestore`, `DeviceSession`: a thread that has begun a load goes on with it, and so
  does the timer with what is ready; the host renders blocks, and a candidate that is
  rendered takes its project on, or not, at last (weak fairness of `Process /\ Rendered`);
  what HostSync waits for becomes due, the firmware takes messages and the controller
  polls. Nobody has to load, edit, save, import or exchange.
* `PairTransport`: both threads run and their stores become visible. The 500 microseconds
  of the worker's wait do pass, because the code relies on them (below, section 6); the
  200 of the UC's do not have to.
* `ChainPlayer` states safety only.

## 5. Proofs

The proofs hold for every value of the constants that satisfies the named assumptions.

**`AsyncRenderProofs!TypeCorrect`**: `Spec => []TypeOK`, for all sizes, latencies, clients and both
settings of `StoreBuffer`. Besides types it says that the FIFO's unsigned
difference never becomes negative where it is used as a count.

**`AsyncRenderProofs!PauseCorrect`**: `Spec => []PauseExcludesRender`, if
`StoreBuffer = FALSE`. The property is not inductive: that a client which is in has
the device alone depends on how it came in and on what the other clients do. The
invariant `PauseInv` adds that `hold` is the number of clients between `pause`
and `resume` (so it is a cardinality, and one client's `resume` cannot end another's
pause), that a thread which is rendering has not said it is parked, that a
client past its wait found the thread parked or stopped and this stays so while
it holds, and that only one client is inside the lock. With a store buffer the theorem is
false, which is `async_unpark_race`.

**`AsyncRenderProofs!SlotsCorrect`, `RoomCorrect`, `NoRaceCorrect`**: `SlotReuse`,
`FifoHasRoom` and `FifoNoRace`, for any ring, FIFO, blocks, latencies and clients, store
buffers included. None is inductive: a full FIFO or a reused slot is the end of a
long sequence of drops, stalls and restarts. The invariant `RingInv` has four parts.
`PlacesInv`: who holds the lock, and that without a thread nothing runs. `JobsInv`: the
positions are in order and at most a ring apart, and a slot has MIDI only from its
rendering to its collection. `FramesInv`: no job's gap is longer than half the FIFO, each
job's gap starts where the frames of the one before it end or later, and the frames of the
first job not written go to the FIFO at most the latency behind the host's own position of
them.
`CopyInv`: what the host is about to copy is there. `FramesInv` is what a drop threatens
(the host moves on and the gap grows with it) and what the cap keeps: latency, gap and
block then always fit, as a block is at most half the FIFO. That two positions less than
the ring apart are different cells is `RingArithmetic!ModInjective`.

**`AsyncRenderStreamProofs!ContentCorrect`, `OutputCorrect`**: `FifoContent` and
`OutputDelayed`: the host hears its input late by exactly the latency, or silence. While
the cap has cut nothing, the bounds of `FramesInv` are equalities (`ExactInv`); the gaps
in front of the jobs are exactly frames that were dropped, and the blocks have none
(`DroppedInv`); so the cells a job is written to hold what is expected at their positions,
and the cells still to be read are others (`CellsInv`, from `FifoHasRoom` and
`RingArithmetic!ModDistance`). What is dropped later is behind everything queued, so it
changes what is expected of no cell.

**`AsyncRenderStreamProofs!MidiOutCorrect`**: `MidiOutOrder`. `MidiInv` says which block
every job in the ring is, and that it carries that block's MIDI from its rendering
to its collection; `harvest()` then appends the next blocks' to what was given.

**`AsyncRenderStreamProofs!MidiInCorrect`**: `MidiInOrder`. The invariant `MidiInInv` says that
there is a function `e` from blocks to counts of events such that the device has seen the
first `e[Rendered]` of the host's events, the job of block `k` carries those from `e[k]` to
`e[k + 1]`, what is carried over dropped blocks is the rest (as many as `unsent`), and `owed` is
all from `e[Rendered]` on. A restart finds every job rendered (`ExitInv`), so what it takes off
`owed` is what was carried, and nothing is left of it. The MIDI pending in the
ring (`PendingMidi`, a recursive function) is then one run of events: a least block for which
it is not cannot exist (`RingArithmetic!Least`). This is how the project avoids the induction
theorems, which the provers cannot instantiate.

**`MidiIngressProofs!WireWhole`**: `Spec => []NoMessageSplit`. The invariant has one part per
source: the ring holds whole commands one after another, published or only
copied (`RingWhole`); a message that is open at the end of the wire goes on at the
front of its own source (`CommandOpen`, `EventOpen`, `FileOpen`); and the stage
of the pump tells which can be open (`PumpPlaces`). A step then sends either the
next byte of the open message or, with none open, a first byte.

**`MidiIngressProofs!TypeCorrect`, `EventsOrdered`, `NoEventLost`**: the types, with the
capacities of ring and batch; `EventsInTimeOrder` and `EventsKept`. `OrderInv` follows an
event through its queues: an entry of the heap is an event accepted, at its position plus the
latency (`HeapTrue`); what has left the heap belongs before all that is still in it
(`HeapPassed`, which a change of latency must not disturb); `m_midiIn` is in order and the wire
is ahead of it, but for the event that is half sent (`QueuesOrdered`); and an event accepted is
scheduled, queued or sent (`NoneLost`).

**`MidiIngressProofs!CommandsOrdered`, `BoundaryKept`**: `CommandsInOrder` and
`BoundaryHeld`. For the first, `CommandInv`: the commands in the ring are numbered in turn from
the first not sent on, also where one is only half sent or half copied. For the second,
`FileInv`: while a file owns the wire the ring positions before its boundary are those of
the commands accepted before the file, and none accepted later is on the wire or in front of
what a past file left.

**`TurboTransferProofs!TypeCorrect`, `PositionsCorrect`, `SamplesInTurn`, `WireClean`,
`OutcomeTrue`, `SentWhenReady`**: `TypeOK`, `PositionsAgree`, `NoSampleOvertaken`,
`WireReleasedClean`, `OutcomeIsTrue` and `SentOnlyWhenReady`, for any files, any capacities of
port and response queue, any number of retries and of faults. They rest on one
invariant, `TransferInv`, as none of them is inductive: what a phase
may do next depends on where in the file the transfer is, what is still in the port and what
the instrument was shown. Its host part is `Stage(t, queue)`, a conjunction of named parts.
`Places`: which phases have a wire to send, own the MIDI path, or are between two messages, and
how far into its message the payload's cursor then is. `Handshake`: inside a sample the
handshake is on and expects the current message's number. `Screens`: the receive screen is the
current message's, and was shown, or still the previous one's. `Queued`: a half message at the
end of the port has its other half waiting in the wire or in the payload, and the Sample Dump
messages in the port are of the current message. `Outcome`: who gave the transfer up.
`Stage` takes the host's members and the port as parameters because `service()` is one action
composed of operators on them: it is shown to hold after each operator (a reply
taken, a deadline passed, bytes sent, a message finished), so it holds after the composition. The
lemmas about the cursor (`Offset` is twice the messages before) and about the ends of
a port are shared by them. That the first packet not received is well-defined uses that the
numbers are well-founded.

**`TurboTransferProofs!AcknowledgedReceived`, `CompleteDelivered`**:
`AcknowledgedMeansReceived` and `CompleteMeansDelivered`, for any number of faults and transfers
and with replies as late as they like. They assume what the code cannot tell from an answer: no
reply is repeated (`"duplicate" \notin Faults`; `turbo_faults` checks one repeated reply
without other faults), and a transfer after the first starts when the
instrument has nothing left to say (`StartsQuiet`; the first needs no assumption). Both are
needed: a repeated ACK of a header is taken for the one of a missed first packet, which has the
same number, and `turbo_late_ack` shows the other. `PacketModulus > 1` is the code's 128. The
invariant `AckInv` says, through `Track`, what the replies still between instrument and host can
do. `Answers`: each of them is about the current message, in order in each of the three queues and
from one to the next (`Verdicts`, `InTurn`), and behind one that moves the transfer on
(`Decides`: an ACK, or a NAK for another packet) there is none that would move it again or send
it back (`Settles`). This is why a late reply does no harm: taking an answer clears
`m_responses`, and what comes after it settles nothing. `Sampling`: the instrument is inside a
sample, and expects the packet, exactly where the host is. `Sent`: every message before the
current one was taken or is whole in the port, each second half behind its first. `Received`:
the sample messages before the current one were taken; it also holds after the transfer was
given up. `Track` is kept by the operators of `service()` one by one, as `Stage` is. For the
instrument, what it says next is shown to fit behind all it has said (`Fits`, `Taken`), for each
message and each fault (`Left`, `Heard`).

**`DeviceProofs!ProjectKept`**: `Spec => KeepsProject`, the refinement of
`HostProject`, for both machines and any budgets. It assumes that `None` is neither a
number nor a project. Every step of the device is one of the host's or none: a commit is
`Complete` only because the machine was built for the project asked for last, which the
committing thread cannot see. The invariant `Kept` says so: a load whose device and
generation are still the present ones found the restore in "Preparing" and prepared the
requested project (`LoadFits`), no two loads have the same (`LoadsDiffer`), a candidate
was built for the requested project and lives only while it boots (`RequestKept`), what the
timer may still commit was built for it (`TimerFits`), and a project of a Monomachine
brings its flash (`Fits`; without it a commit would empty the flash). The reboot that
follows the learning of the factory flash is a stutter when no load is open, and
`Anticipate` when one is.

**`DeviceProofs!ImportsCorrect`**: `Spec => []ImportsIntoItsProject`. Inductive with
`TransferOfTheTicket`: what an import started, or has left over, belongs to the ticket the
device still knows.

**`DeviceProofs!RestoreTypeCorrect`** is the type invariant both rest on, of every variable: the
machines and tickets (`MachineTypes`), the loads, the timer's work and the transfer
(`ThreadTypes`), and what is published, what is on disk and the bounds (`StatusTypes`); and
**`DeviceProofs!SessionKept`** carries all three over to the device with its
HostSync: the composed step is a step of the device or leaves it alone.

**`PairTransportProofs!NoWakeupLost`**: `Spec => []NoLostWakeup`, for any clocks, leads, limits,
sessions and firmwares that `PairAssumption` and `HandoffsAssumption` allow; the latter only
says of what a session's numbers and sequences are made. The invariant `WakeupInv` adds to the types
(`Types`) where a wait can be and that the UC's position is stored when it changes (`UcPlaces`),
that what a thread stored is seen by the other unless it is still before its
fence, that nobody sleeps and announces at once (`Signal`), and the core: a sleeper's predicate
is false unless the other thread is in `notify()`, the worker in the middle of a link write, or
the UC out of its wait (`Slept`). `Slept` is what a fence out of place would break. Its proof is by what a
step does to the signal (`UcTells`, `WorkerTells`): it announces, it passes a fence and wakes
everybody, it touches nothing the predicates read, or it goes to sleep on a false one.

**`PairTransportProofs!WordsArriveOnTime`**: `Spec => []WordsOnTime`, under the same
assumptions. The invariant `InTime` says, besides that nothing was late, that each DSP's stream is
in the order of its dates and the DSP is too late for nothing that is in it (`OnTime`), and
that as long as no DSP was let past the UC for a blocked item each is within its lead
plus the blocks a chunk and a link write may finish (`Leads`). The second is what a word
just written needs, the first what the words still waiting need: after
`applyHostToDspStream()` the first of them is either blocked or still to come, and
a chunk stops at its date. A step's effect on streams and positions is stated once per operator
(`LandedTakes`, `GatedTakes`, `TurnTakes`, `MovesTakes`, `ChunkTakes`, `LinkTakes`).

**`DeviceProofs!ChangesCorrect`**: `SessionSpec => ChangesWhatItRead`, an action property, and
`SyncTypeCorrect`: the types of what HostSync keeps. The invariant `SyncInv` says that the answers
waiting are those of the machine of now (a reboot or an exchange empties the line with it), that
a HostSync which was served remembers the machine and slot of then, and that a dump it keeps
and did not hear early is of that machine and slot. The service first compares machine and
slot with those of now (`Epoch`, `Begun`), so what it then sends rests on a dump of the machine of
now and of the slot reported last. What is
known after the block's answers (`Known`) is a recursive function, and its types follow from
a least answer, as above.

**`ChainPlayerProofs!PassesFollow`**: for every chain, `PassAt` keeps a pass until its last tick
and then gives the pass which `NextPass` names, starting there. The starts of the entries are
sums of their lengths (`EntryStart`); that they grow, and that each round of the chain lasts the
last sum, follows from a least entry for which it fails.

**`ChainPlayerProofs!ChainIsPlayed`, `BeliefIsTrue`, `TypeCorrect`**: `PlaysTheChain`,
`StartBelief` (with its three exceptions) and `TypeOK`, under `ChainsAssumption` (patterns have their real length or one
nobody knows, which is 0) and `WrapAssumption`. The invariant `PlayerInv` relates player and
machine. `MachineInv`: both play or neither does, and the machine has committed a pattern only
in the last ticks of its own. `BeliefInv`: unless misled, what the player expects the next START
to play is what the machine will play, running or not. `RestInv` and `PositionedInv`: at rest, and after a SONG POSITION, what START or
CONTINUE will play. `InStepInv`: in step, the machine is at the tick of the chain's pass, and it
either has the next pattern waiting in time (`Settled`), or the player's request for it is on
the way to the pass in which it takes effect (`Asked`); at the end of the pass `PassesFollow`
says that both go on to the same one.

Only model-checked:

* All liveness: the prover has no rules for fairness and `ENABLED`.

## 6. Where code and text disagree

1. **A pause can return while the thread renders** (`async_unpark_race`,
   `mdasyncrender.cpp:294`). Leaving a pause the thread stores `m_parked = false` with
   release order and then loads `m_hold`. Nothing orders a store before a later
   load, so a `pause()` in that moment can still read `m_parked` as true while the thread read
   `m_hold` as zero. `mdasyncrender.h:73` promises "Returns once the render thread
   holds between two blocks". A sequentially consistent fence between the two, as
   `mdtransportsignal.h` has, closes it: the theorem of section 5.
2. **An offline call waits for audio that cannot come** (`async_offline_drop`,
   `mdasyncrender.cpp:224`). With all slots busy and the thread parked `process()` drops its
   block (line 168). It may read `m_parked` as true when the pause was resumed and the
   thread has not yet said that it leaves (line 294). The call then comes to its audio and
   finds too little, and nobody parked: it waits for the frames of its own block, which are only
   written as the next block's gap, behind the call that waits. The thread renders what is queued
   and goes idle; the plug-in's lock is held, and a client takes it before it drops it to pause
   (`plugin.cpp:52`, `:188`), so none gets as far. It needs more dropped frames than the
   latency: a block longer than it, or an earlier call of the same pause dropped as well.
   `mdasyncrender.h:40-41` promises that `process()` "does not wait for audio that cannot come".
   A call that drops its block could leave out the wait for audio.
3. **A late ACK of an earlier transfer** (`turbo_late_ack`,
   `mdturbomidi.cpp:282`). A reply is matched by packet number only, and a header
   expects number 0 as the first packet does. The late ACK of a cancelled
   transfer's header shifts every answer by one; the instrument may have refused the packet
   that is then counted as acknowledged. `AcknowledgedMeansReceived` holds where each
   transfer finds the instrument with nothing left to say: a theorem of section 5.

4. **A dump of the machine before** (`host_sync_stale_dump`, `mdhostsync.cpp:173`). `service()`
   starts over when machine or slot are not those it was last served for. Dumps are
   taken also while the device keeps its hands off and does not call it (`mddevice.cpp:765-790`).
   One that the controller's poll brings while the first machine learns its factory flash is
   kept when the timer reboots that machine; HostSync, served for the first time then, has
   nothing to compare with, and changes the new machine with the old one's dump.
   `mdhostsync.cpp:171-172` says "must be read again before anything is changed on it".
   `ChangesWhatItRead` is what does hold, for dumps heard when it was served (`early` marks the
   others).
5. **A lead lost for good** (`pair_lead`, `mdhardware.cpp:1962`). The UC re-reads
   the DSPs' minimum only while the cached one would cap its slice. If backpressure
   holds both DSPs at that moment the minimum is infinite, the cache keeps it, and the UC
   is never kept within its lead again, although `mdhardware.cpp:1939` promises that.
   The mixer's wait at the end of each block still bounds it to a block.

Remarks without a run:

* Frames cut by the gap's cap make the output play early for good (the cap is at half the
  FIFO, seconds of dropped audio). Once more than the latency was cut, the host is ahead of all
  that is ever rendered: an offline call waits for ever and in real time every block is silent,
  until the next `start()`. `ProcessReturns` is stated for `cut <= delay`.
* `finish()` waits for an absolute position (`mdasyncrender.cpp:92`), which `start()` sets back
  to zero; if it is not scheduled while another client pauses, restarts and resumes, it waits
  for blocks the new thread has not been given. `FinishReturnsOrRestart` is what does hold.
* MIDI of a block dropped before a restart, with no block handed over in between, is lost:
  `start()` clears `m_carryMidi` (`mdasyncrender.cpp:51`), where line 161-163 says "Its MIDI goes
  with the next block". `MidiInOrder` leaves out these events and no others.
* A block is also dropped in real time when the ring is full without a pause, where
  `mdasyncrender.h:79` and `:147` speak of pauses.
* `mdchainplayer.h:25-26` says the player "catches up at its next change of pattern". When
  an edit changes lengths so that the ends of the chain's and the machine's passes
  no longer meet, the position stays shifted; hence `inStep`.
* The player believes three things it cannot tell from the truth, hence `misled`: what it knew
  before a selection on the panel; an answer to a status request that was under way when
  something else changed the pattern; and a timely answer at rest, which shows the pattern
  loaded, while another waits in the machine that the player has lost sight of (someone else's,
  selected while it played, or its own after a late start or a new chain). Of the last two
  `mdchainplayer.cpp:72` says "unknown until the next start", and `mdchainplayer.h:50` that the
  status is that of a machine "stopped with nothing asked for"; `observe()`
  (`mdchainplayer.cpp:168`) only asks whether the player's own request waits.
* The macro's last key acts on the slot that is active then (`mdhostsync.cpp:70`). A slot the
  user selects while it runs, before a status tells of it, gets the transport setting that was
  meant for the other.
* A save during the restore of a project without flash gives that project, still without
  samples; a device exchanged at that moment starts without the old one's samples. A
  restore that fails leaves a save with the live machine's contents.
* A parked worker does not land a word due exactly at its closed gate before its
  500 microseconds are over; `mdhardware.cpp:2723-2725` says so of its wait.

## 7. What is not modelled

Rendering itself, the instruction sets and the chips: what they compute is not a matter of
this code's state machines. Byte formats and serialisation: sequential, and
tested against recorded messages in the repository. The editor's drawing, file
input, the ROM tables. Upstream's other synthesizers, its framework, network
and bridge, and vendored code. Each is a component of `PROJECT.json` with `not_modelled` and its
reason.

Within what is modelled:

* `DeviceRestore`: the time an instrument needs to become ready for MIDI, the panel, the
  live kit and the RAM recording mode; the Monomachine's pattern writer, which
  excludes an import while busy.
* `HostSync`: names of keys; the macro is a number of steps whose last one counts.
* `PairTransport`: that the firmware reads a word from its latch later than the UC takes it
  from the DSP (`ReadWord` is both; the later read alone lowers the backlog without a
  notification, but the UC notifies before each of its waits); the wait for a full receive ring,
  which no session's firmware fills (`Lands`); the serial scheduler and the Parallel mode with its two workers; the
  handoff's conditions; the hold of DSP2, which no policy switches on; what a link word is.
* `ChainPlayer`: `setEntries` and `setLength`, which build the chain handed over. Its
  variables' types (`TypeOK`), like `HostSync`'s (`SyncTypeOK`), are proved and no run checks
  them: the runs ask deeper questions.
* Progress publisher: one writer, and readers that try again until they have read one
  publication; its question is one of memory orders, below what an interleaving model of
  shared variables with store buffers can ask.

## 8. Plan

What is left, the most interaction first:

1. `PluginAccess`: lock, `DevicePause`, latency, MIDI fragments, composed with `AsyncRender`
   through pause and resume and with `DeviceRestore` through `setDevice`.
2. `DumpRequests`: requests with deadlines against late answers, like `HostSync`'s.
3. `HostAudioInput`: frames numbered across drops and resets; the Parallel mode's workers
   as a second client of `TransportSignal`.
4. `AsyncDelay`, a delay line with silence for drops, and `AsyncRender` shown to implement it.

To prove: that `AsyncRender` implements `AsyncDelay`.
