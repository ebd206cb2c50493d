----------------------------- MODULE MidiIngress -----------------------------
(***************************************************************************)
(* How bytes get onto the emulated MIDI wire (mdLib/mdhardware.cpp,        *)
(* mdscheduledmidi.h, mdrealtimemidiqueue.h).  Three sources share the     *)
(* UART's receive queue, the port:                                         *)
(*   events    MIDI of the host: a heap of deadlines (m_scheduledMidi),    *)
(*             then a ring (m_midiIn) whose front is pumped byte by byte;  *)
(*   commands  short SysEx messages of another thread through a lock-free  *)
(*             byte ring (m_realtimeMidiIn);                               *)
(*   files     a SysEx transfer, which owns the wire while it runs.        *)
(*                                                                         *)
(* A byte carries its source, the number of its message and its place in   *)
(* it.  line is every byte the port ever got, so the port's contents are   *)
(* its last Len(line) - taken bytes.  The transfer is reduced to what it   *)
(* does to the wire, its bytes in a row, a cancellation and an end;        *)
(* TurboTransfer models the rest.  One frame is one cycle of the           *)
(* processor: the conversion between the two is monotone.  A restore of a  *)
(* project, which holds all of this back, is left out.                     *)
(***************************************************************************)
EXTENDS Integers, Sequences, FiniteSets

CONSTANTS
    EventSizes,         \* bytes of a host event
    CommandSizes,       \* bytes of a realtime command
    FileSizes,          \* bytes of a file
    RealtimeCapacity,   \* bytes m_realtimeMidiIn holds (64)
    MidiInCapacity,     \* events m_midiIn holds (16384)
    ScheduledCapacity,  \* events m_scheduledMidi holds (16384)
    PortCapacity,       \* bytes the UART's receive queue holds
    PanelCapacity,      \* pad pulses the panel's UART holds
    Offsets,            \* offsets of an event in the host's block
    Latencies,          \* values of hardwareLatency()
    MaxTime,            \* bound: frames; every event accepted is due by then
    MaxEvents,          \* bound: host events
    MaxCommands,        \* bound: commands
    MaxFiles            \* bound: transfers started

ASSUME SizesAssumption ==
    /\ EventSizes \subseteq Nat \ {0} /\ CommandSizes \subseteq Nat \ {0}
    /\ FileSizes \subseteq Nat \ {0}
ASSUME CapacitiesAssumption ==
    /\ RealtimeCapacity \in Nat \ {0} /\ MidiInCapacity \in Nat
    /\ ScheduledCapacity \in Nat /\ PortCapacity \in Nat /\ PanelCapacity \in Nat
ASSUME TimesAssumption ==
    Offsets \subseteq Nat /\ Latencies \subseteq Nat /\ Latencies # {} /\ MaxTime \in Nat
ASSUME BoundsAssumption == MaxEvents \in Nat /\ MaxCommands \in Nat /\ MaxFiles \in Nat

VARIABLES
    scheduled,          \* m_scheduledMidi, a heap: a set of entries
    midiIn, cursor,     \* m_midiIn, m_midiInByteCursor
    ring, rtWrite, rtRead,      \* m_realtimeMidiIn
    copied,             \* bytes tryPush has copied and not published yet
    file,               \* the transfer
    pump,               \* where processUC() is; "cpu" between two instructions
    line, taken,        \* every byte the port got; how many the firmware took
    panel,              \* pad pulses in the panel's UART
    now, latency,       \* frames rendered; the latency of hardwareLatency()
    accepted,           \* history: for each event its position and whether it is a pad
    pads,               \* history: events delivered as pads, in order
    commands,           \* history: commands published
    files               \* history: for each transfer the commands published before

eventVars == <<scheduled, midiIn, cursor>>
ringVars == <<ring, rtWrite, rtRead, copied, commands>>
timeVars == <<now, latency, accepted>>
vars == <<eventVars, ringVars, timeVars, file, files, pump, line, taken, panel, pads>>

Sources == {"event", "command", "file", "eox"}
Byte == [src : Sources, no : Nat, at : Nat, of : Nat]
MkByte(src, no, at, of) == [src |-> src, no |-> no, at |-> at, of |-> of]
NoByte == MkByte("eox", 0, 1, 1)

\* The last byte of a message, and the byte that continues one.
IsLast(b) == b.at = b.of
Following(b) == [b EXCEPT !.at = @ + 1]

Cell(i) == i % RealtimeCapacity
Entry == [id : Nat, size : Nat, pad : BOOLEAN, cycle : Nat, sample : Nat]

NoFile == [owns |-> FALSE, no |-> 0, size |-> 0, sent |-> 0, boundary |-> 0,
           cancelled |-> FALSE, eox |-> FALSE]

Init ==
    /\ scheduled = {} /\ midiIn = <<>> /\ cursor = 0
    /\ ring = [i \in 0 .. RealtimeCapacity - 1 |-> NoByte]
    /\ rtWrite = 0 /\ rtRead = 0 /\ copied = 0
    /\ file = NoFile /\ files = <<>>
    /\ pump = "cpu" /\ line = <<>> /\ taken = 0 /\ panel = 0
    /\ now = 0 /\ latency \in Latencies
    /\ accepted = <<>> /\ pads = <<>> /\ commands = 0

PortFull == Len(line) - taken >= PortCapacity
Send(b) == line' = Append(line, b)

----------------------------------------------------------------------------
(***************************************************************************)
(* The host's events: scheduleMidi(), retimeMidi(), pumpScheduledMidi().   *)
(* All run under the plug-in's lock, between two instructions.             *)
(***************************************************************************)
Deadline(sample, extra) == sample + extra

\* An event that does not fit is refused and counted.
ScheduleMidi(size, pad, offset) ==
    /\ pump = "cpu" /\ Len(accepted) < MaxEvents
    /\ \A extra \in Latencies : Deadline(now + offset, extra) <= MaxTime
    /\ Cardinality(scheduled) < ScheduledCapacity
    /\ scheduled' = scheduled \cup
            {[id |-> Len(accepted) + 1, size |-> size, pad |-> pad,
              cycle |-> Deadline(now + offset, latency), sample |-> now + offset]}
    /\ accepted' = Append(accepted, [sample |-> now + offset, pad |-> pad])
    /\ UNCHANGED <<midiIn, cursor, ringVars, now, latency, file, files, pump, line, taken,
                   panel, pads>>

\* Mutant: only what is scheduled from now on gets the new latency.
RetimeMidiNew(extra) ==
    /\ pump = "cpu" /\ extra # latency
    /\ latency' = extra
    /\ UNCHANGED <<eventVars, ringVars, now, accepted, file, files, pump, line, taken, panel,
                   pads>>

\* The latency changes: every deadline is computed again from its position.
RetimeMidi(extra) ==
    /\ pump = "cpu" /\ extra # latency
    /\ latency' = extra
    /\ scheduled' = {[e EXCEPT !.cycle = Deadline(e.sample, extra)] : e \in scheduled}
    /\ UNCHANGED <<midiIn, cursor, ringVars, now, accepted, file, files, pump, line, taken,
                   panel, pads>>

Later(a, b) == a.cycle > b.cycle \/ (a.cycle = b.cycle /\ a.id > b.id)
Ready(e) ==
    /\ e \in scheduled /\ e.cycle <= now
    /\ \A other \in scheduled \ {e} : Later(other, e)

HasRoom(e) == IF e.pad THEN panel < PanelCapacity ELSE Len(midiIn) < MidiInCapacity

\* Mutant: the front leaves the heap also when its queue is full.
PumpScheduledMidiLossy ==
    /\ pump = "cpu"
    /\ \E e \in scheduled :
        /\ Ready(e)
        /\ scheduled' = scheduled \ {e}
        /\ midiIn' = IF ~e.pad /\ HasRoom(e)
                     THEN Append(midiIn, [id |-> e.id, size |-> e.size]) ELSE midiIn
        /\ IF e.pad /\ HasRoom(e) THEN panel' = panel + 1 /\ pads' = Append(pads, e.id)
           ELSE UNCHANGED <<panel, pads>>
    /\ UNCHANGED <<cursor, ringVars, timeVars, file, files, pump, line, taken>>

\* The front of the heap is due: a pad pulse or one more event in m_midiIn.
PumpScheduledMidi ==
    /\ pump = "cpu"
    /\ \E e \in scheduled :
        /\ Ready(e) /\ HasRoom(e)
        /\ scheduled' = scheduled \ {e}
        /\ \/ /\ e.pad
              /\ panel' = panel + 1 /\ pads' = Append(pads, e.id)
              /\ UNCHANGED midiIn
           \/ /\ ~e.pad
              /\ midiIn' = Append(midiIn, [id |-> e.id, size |-> e.size])
              /\ UNCHANGED <<panel, pads>>
    /\ UNCHANGED <<cursor, ringVars, timeVars, file, files, pump, line, taken>>

----------------------------------------------------------------------------
(***************************************************************************)
(* The realtime commands: tryPush() runs on its own thread.                *)
(***************************************************************************)
CommandByte(no, size, k) == MkByte("command", no, k, size)

\* Mutant: one byte too many.
RoomForOneMore(size) == size <= RealtimeCapacity - (rtWrite - rtRead) + 1

RoomFor(size) == size <= RealtimeCapacity - (rtWrite - rtRead)

\* The bytes are copied behind the write position, or the command is refused.
PushCopy(size) ==
    /\ copied = 0 /\ commands < MaxCommands /\ RoomFor(size)
    /\ copied' = size
    /\ ring' = [c \in DOMAIN ring |->
                    IF \E k \in 1 .. size : c = Cell(rtWrite + k - 1)
                    THEN CommandByte(commands + 1, size,
                            CHOOSE k \in 1 .. size : c = Cell(rtWrite + k - 1))
                    ELSE ring[c]]
    /\ UNCHANGED <<eventVars, rtWrite, rtRead, commands, timeVars, file, files, pump, line,
                   taken, panel, pads>>

\* Mutant: each byte is published on its own.
PushPublishBytewise ==
    /\ copied > 0
    /\ rtWrite' = rtWrite + 1 /\ copied' = copied - 1
    /\ commands' = IF copied = 1 THEN commands + 1 ELSE commands
    /\ UNCHANGED <<eventVars, ring, rtRead, timeVars, file, files, pump, line, taken, panel,
                   pads>>

\* One store publishes them all.
PushPublish ==
    /\ copied > 0
    /\ rtWrite' = rtWrite + copied /\ copied' = 0
    /\ commands' = commands + 1
    /\ UNCHANGED <<eventVars, ring, rtRead, timeVars, file, files, pump, line, taken, panel,
                   pads>>

----------------------------------------------------------------------------
(***************************************************************************)
(* pumpMidiIngress(), one byte per step.                                   *)
(***************************************************************************)
RealtimeEmpty == rtRead = rtWrite
SizeBefore(boundary) == IF rtRead < boundary THEN boundary - rtRead ELSE 0

Scheduled == \A e \in scheduled : Ready(e) => ~HasRoom(e)

\* Where processUC() enters it, or that it does not when no source has anything.
EnterAt ==
    CASE file.owns /\ cursor # 0 -> "finish"
      [] file.owns /\ cursor = 0 -> "before"
      [] ~file.owns /\ cursor # 0 -> "general"
      [] ~file.owns /\ cursor = 0 /\ (midiIn # <<>> \/ ~RealtimeEmpty) -> "realtime"
      [] OTHER -> "exec"

PumpEnter ==
    /\ pump = "cpu" /\ Scheduled
    /\ pump' = EnterAt
    /\ UNCHANGED <<eventVars, ringVars, timeVars, file, files, line, taken, panel, pads>>

\* Mutant: the boundary is not looked at.
RealtimeDueAll == ~RealtimeEmpty

\* pumpRealtime(): while the transfer owns the wire, only up to its boundary.
RealtimeDue == ~RealtimeEmpty /\ (pump = "before" => SizeBefore(file.boundary) # 0)

PumpRealtimeByte ==
    /\ pump \in {"before", "realtime"} /\ RealtimeDue /\ ~PortFull
    /\ Send(ring[Cell(rtRead)]) /\ rtRead' = rtRead + 1
    /\ UNCHANGED <<eventVars, ring, rtWrite, copied, commands, timeVars, file, files, pump,
                   taken, panel, pads>>

\* Mutant: a byte the port has no room for is popped all the same.
PumpRealtimeEndLossy ==
    /\ pump \in {"before", "realtime"} /\ (RealtimeDue => PortFull)
    /\ pump' = IF pump = "realtime" /\ ~RealtimeDue /\ midiIn # <<>> THEN "general" ELSE "exec"
    /\ rtRead' = IF RealtimeDue THEN rtRead + 1 ELSE rtRead
    /\ UNCHANGED <<eventVars, ring, rtWrite, copied, commands, timeVars, file, files, line,
                   taken, panel, pads>>

PumpRealtimeEnd ==
    /\ pump \in {"before", "realtime"} /\ (RealtimeDue => PortFull)
    /\ pump' = IF pump = "realtime" /\ ~RealtimeDue /\ midiIn # <<>> THEN "general" ELSE "exec"
    /\ UNCHANGED <<eventVars, ringVars, timeVars, file, files, line, taken, panel, pads>>

\* pumpGeneralFront(): the front event, byte after byte, until the port is full.
PumpGeneralByte ==
    /\ pump \in {"finish", "general"} /\ ~PortFull
    /\ Send(MkByte("event", Head(midiIn).id, cursor + 1, Head(midiIn).size))
    /\ IF cursor + 1 < Head(midiIn).size
       THEN cursor' = cursor + 1 /\ UNCHANGED <<midiIn, pump>>
       ELSE /\ cursor' = 0 /\ midiIn' = Tail(midiIn)
            /\ pump' = IF pump = "finish" THEN "before" ELSE "realtime"
    /\ UNCHANGED <<scheduled, ringVars, timeVars, file, files, taken, panel, pads>>

PumpGeneralFull ==
    /\ pump \in {"finish", "general"} /\ PortFull
    /\ pump' = "exec"
    /\ UNCHANGED <<eventVars, ringVars, timeVars, file, files, line, taken, panel, pads>>

----------------------------------------------------------------------------
(***************************************************************************)
(* The transfer, as far as the wire sees it.                               *)
(***************************************************************************)
\* startMidiSysexTransfer(): the boundary is where the producer is now.
StartTransfer(size) ==
    /\ pump = "cpu" /\ ~file.owns /\ Len(files) < MaxFiles
    /\ file' = [NoFile EXCEPT !.owns = TRUE, !.no = Len(files) + 1, !.size = size,
                              !.boundary = rtWrite]
    /\ files' = Append(files, commands)
    /\ UNCHANGED <<eventVars, ringVars, timeVars, pump, line, taken, panel, pads>>

CancelTransfer ==
    /\ pump = "cpu" /\ file.owns /\ ~file.cancelled
    /\ file' = [file EXCEPT !.cancelled = TRUE, !.eox = TRUE]
    /\ UNCHANGED <<eventVars, ringVars, timeVars, files, pump, line, taken, panel, pads>>

\* Mutant: everything queued must go out first, what was queued later too.
IngressDrainedAll == cursor = 0 /\ RealtimeEmpty

\* service() is told whether what was there before the start has gone out.
IngressDrained == cursor = 0 /\ SizeBefore(file.boundary) = 0

FileByte(k) == MkByte("file", file.no, k, file.size)
FileDone == IF file.cancelled THEN ~file.eox ELSE file.sent = file.size

\* One call of service(): it sends a byte, ends the transfer, or does neither.
ServiceByte ==
    /\ pump = "service" /\ IngressDrained /\ ~PortFull /\ ~FileDone
    /\ pump' = "cpu"
    /\ IF file.cancelled
       THEN Send(MkByte("eox", file.no, 1, 1)) /\ file' = [file EXCEPT !.eox = FALSE]
       ELSE Send(FileByte(file.sent + 1)) /\ file' = [file EXCEPT !.sent = @ + 1]
    /\ UNCHANGED <<eventVars, ringVars, timeVars, files, taken, panel, pads>>

ServiceEnd ==
    /\ pump = "service" /\ IngressDrained /\ FileDone /\ taken = Len(line)
    /\ pump' = "cpu"
    /\ file' = [file EXCEPT !.owns = FALSE]
    /\ UNCHANGED <<eventVars, ringVars, timeVars, files, line, taken, panel, pads>>

ServiceNothing ==
    /\ pump = "service"
    /\ ~IngressDrained \/ (FileDone /\ taken # Len(line)) \/ (~FileDone /\ PortFull)
    /\ pump' = "cpu"
    /\ UNCHANGED <<eventVars, ringVars, timeVars, file, files, line, taken, panel, pads>>

----------------------------------------------------------------------------
(***************************************************************************)
(* exec(): an instruction of the firmware, which may read its UARTs, and   *)
(* the time it takes.                                                      *)
(***************************************************************************)
Exec(reads) ==
    /\ pump = "exec"
    /\ pump' = IF file.owns THEN "service" ELSE "cpu"
    /\ taken' = IF reads /\ taken < Len(line) THEN taken + 1 ELSE taken
    /\ panel' = IF reads /\ panel > 0 THEN panel - 1 ELSE panel
    /\ now' = IF reads /\ now < MaxTime THEN now + 1 ELSE now
    /\ UNCHANGED <<eventVars, ringVars, latency, accepted, file, files, line, pads>>

PumpNext ==
    \/ PumpScheduledMidi \/ PumpEnter
    \/ PumpRealtimeByte \/ PumpRealtimeEnd \/ PumpGeneralByte \/ PumpGeneralFull

ServiceNext == ServiceByte \/ ServiceEnd \/ ServiceNothing

\* processUC(), one instruction after another.
ProcessUC == PumpNext \/ ServiceNext \/ \E reads \in BOOLEAN : Exec(reads)

Next ==
    \/ \E size \in EventSizes, pad \in BOOLEAN, offset \in Offsets :
            ScheduleMidi(size, pad, offset)
    \/ \E extra \in Latencies : RetimeMidi(extra)
    \/ \E size \in CommandSizes : PushCopy(size)
    \/ PushPublish
    \/ \E size \in FileSizes : StartTransfer(size)
    \/ CancelTransfer
    \/ ProcessUC

Spec == Init /\ [][Next]_vars

(***************************************************************************)
(* The processor runs, its firmware reads its UARTs again and again, and a *)
(* producer that copied a command publishes it.                            *)
(***************************************************************************)
Fairness ==
    /\ WF_vars(ProcessUC) /\ SF_vars(Exec(TRUE)) /\ WF_vars(PushPublish)

FairSpec == Spec /\ Fairness

----------------------------------------------------------------------------
(***************************************************************************)
(* Properties                                                              *)
(***************************************************************************)
Pumps == {"cpu", "finish", "before", "realtime", "general", "exec", "service"}
File == [owns : BOOLEAN, no : Nat, size : Nat, sent : Nat, boundary : Nat,
         cancelled : BOOLEAN, eox : BOOLEAN]

\* Every variable holds a value of its type and every queue is within its capacity.
TypeOK ==
    /\ scheduled \subseteq Entry
    /\ midiIn \in Seq([id : Nat, size : Nat \ {0}]) /\ Len(midiIn) <= MidiInCapacity
    /\ cursor \in Nat
    /\ ring \in [0 .. RealtimeCapacity - 1 -> Byte]
    /\ rtWrite \in Nat /\ rtRead \in Nat /\ copied \in Nat
    /\ rtRead <= rtWrite /\ rtWrite + copied - rtRead <= RealtimeCapacity
    /\ file \in File /\ pump \in Pumps
    /\ line \in Seq(Byte) /\ taken \in 0 .. Len(line) /\ Len(line) - taken <= PortCapacity
    /\ panel \in 0 .. PanelCapacity
    /\ now \in Nat /\ latency \in Latencies
    /\ accepted \in Seq([sample : Nat, pad : BOOLEAN]) /\ pads \in Seq(Nat)
    /\ commands \in Nat /\ files \in Seq(Nat)

\* b may come right after a on the wire: the next byte of the same message, the
\* first of another, or the end that cuts a cancelled file.
MayFollow(a, b) ==
    \/ ~IsLast(a) /\ b = Following(a)
    \/ IsLast(a) /\ b.at = 1
    \/ a.src = "file" /\ b = MkByte("eox", a.no, 1, 1)

\* No message is split: whatever source stops in the middle because the port is
\* full, whoever takes the wire then, its bytes reach the port in one piece
\* ("never splits an event already admitted", mdhardware.cpp:3750).
NoMessageSplit ==
    /\ line # <<>> => line[1].at = 1
    /\ \A i \in 1 .. Len(line) - 1 : MayFollow(line[i], line[i + 1])

\* The places on the wire where a message of a source starts.
Starts(src) == {i \in DOMAIN line : line[i].src = src /\ line[i].at = 1}
Before(a, b) ==
    \/ accepted[a].sample < accepted[b].sample
    \/ accepted[a].sample = accepted[b].sample /\ a < b

\* The host's events reach the wire, and its pads the panel, in the order of
\* their positions, also when the latency is reduced under way ("a reduction
\* cannot let a newer Note Off/Stop overtake an older Note On/Start").
EventsInTimeOrder ==
    /\ \A i, j \in Starts("event") : i < j => Before(line[i].no, line[j].no)
    /\ \A i, j \in DOMAIN pads : i < j => Before(pads[i], pads[j])

\* An event accepted is in exactly one of the queues or was delivered; full
\* queues and transfers delay it and never lose it.
EventsKept ==
    LET queued == {e.id : e \in scheduled}
        inRing == {midiIn[i].id : i \in DOMAIN midiIn}
        sent   == {line[i].no : i \in {k \in DOMAIN line : line[k].src = "event" /\ IsLast(line[k])}}
        padded == {pads[i] : i \in DOMAIN pads}
    IN /\ queued \cup inRing \cup sent \cup padded = 1 .. Len(accepted)
       /\ queued \cap (inRing \cup sent \cup padded) = {} /\ inRing \cap sent = {}

\* Commands reach the wire in the order they were published, none twice or lost.
CommandsInOrder ==
    /\ \A i, j \in Starts("command") : i < j => line[i].no < line[j].no
    /\ \E n \in 0 .. commands :
          /\ {line[i].no : i \in Starts("command")} = 1 .. n
          /\ RealtimeEmpty => n = commands

\* The commands published before a transfer started, and no other, cross before
\* its first byte ("Realtime bytes queued before start also cross before its
\* payload"); later ones wait until it has released the wire.
BoundaryHeld ==
    \A i, j \in DOMAIN line :
        line[i].src = "command" /\ line[j].src \in {"file", "eox"} =>
            (line[i].no <= files[line[j].no] <=> i < j)

\* A transfer gets the wire, is sent or cancelled, and releases it.
TransferReleases == file.owns ~> ~file.owns

Delivered(n) ==
    \/ \E i \in DOMAIN pads : pads[i] = n
    \/ \E i \in DOMAIN line : line[i].src = "event" /\ line[i].no = n /\ IsLast(line[i])

\* Every event accepted is delivered, after any transfers.
EventsArrive == \A n \in 1 .. MaxEvents : Len(accepted) >= n ~> Len(accepted) >= n /\ Delivered(n)
=============================================================================
