-------------------------- MODULE MidiIngressProofs --------------------------
(***************************************************************************)
(* Theorems about MidiIngress, for every value of its constants, whatever  *)
(* the capacities and the number of events, commands and transfers: no     *)
(* message is split, no queue overruns, the host's events arrive in order  *)
(* and none is lost, the commands arrive in order, and a transfer's        *)
(* boundary holds.                                                         *)
(***************************************************************************)
EXTENDS MidiIngress, RingArithmetic, SequenceTheorems, TLAPS

----------------------------------------------------------------------------
(***************************************************************************)
(* The inductive invariant                                                 *)
(***************************************************************************)
\* The parts of the type the argument needs.
Types ==
    /\ line \in Seq(Byte)
    /\ ring \in [0 .. RealtimeCapacity - 1 -> Byte]
    /\ rtWrite \in Nat /\ rtRead \in Nat /\ copied \in Nat /\ commands \in Nat
    /\ rtRead <= rtWrite /\ rtWrite + copied - rtRead <= RealtimeCapacity
    /\ midiIn \in Seq([id : Nat, size : Nat \ {0}]) /\ cursor \in Nat
    /\ scheduled \subseteq Entry /\ \A e \in scheduled : e.size # 0
    /\ file \in File /\ files \in Seq(Nat) /\ accepted \in Seq([sample : Nat, pad : BOOLEAN])
    /\ now \in Nat /\ latency \in Nat /\ pump \in Pumps

\* The byte at a position of the ring, and what lies between two positions.
RingAt(p) == ring[Cell(p)]

\* Published or only copied, the ring holds whole commands, one after another.
RingWhole ==
    /\ \A p \in rtRead .. rtWrite + copied - 1 : RingAt(p).src = "command"
    /\ \A p \in rtRead + 1 .. rtWrite + copied - 1 : MayFollow(RingAt(p - 1), RingAt(p))
    /\ rtRead < rtWrite => IsLast(RingAt(rtWrite - 1))
    /\ copied > 0 => RingAt(rtWrite).at = 1 /\ IsLast(RingAt(rtWrite + copied - 1))

\* The message that is open at the end of the wire, if any.
LastByte == line[Len(line)]
Open(src) == line # <<>> /\ ~IsLast(LastByte) /\ LastByte.src = src

\* An open command goes on in the ring; without one the ring is at the start of one.
CommandOpen ==
    /\ Open("command") => rtRead < rtWrite /\ RingAt(rtRead) = Following(LastByte)
    /\ ~Open("command") /\ rtRead < rtWrite => RingAt(rtRead).at = 1

\* An open event is the front of m_midiIn, up to the cursor.
EventOpen ==
    /\ cursor # 0 => Open("event")
    /\ Open("event") =>
        /\ midiIn # <<>> /\ 0 < cursor /\ cursor < Head(midiIn).size
        /\ LastByte = MkByte("event", Head(midiIn).id, cursor, Head(midiIn).size)

\* A file sends after everything before it, up to the boundary.
FileOpen ==
    /\ file.owns =>
        /\ file.sent <= file.size /\ 0 < file.size
        /\ file.eox => file.cancelled
        /\ rtRead <= file.boundary /\ file.boundary <= rtWrite
        /\ rtRead < file.boundary => IsLast(RingAt(file.boundary - 1))
        /\ rtRead = file.boundary => ~Open("command")
    /\ file.owns /\ file.sent > 0 /\ (file.cancelled => file.eox) =>
        line # <<>> /\ LastByte = FileByte(file.sent)
    /\ file.owns /\ file.sent > 0 => IngressDrained
    /\ Open("file") =>
        /\ file.owns /\ file.sent > 0 /\ (file.cancelled => file.eox)
    /\ ~Open("eox")

\* Where processUC() is tells what can be open.
PumpPlaces ==
    /\ pump = "finish" => file.owns /\ cursor # 0
    /\ pump = "before" => file.owns /\ cursor = 0
    /\ pump = "realtime" => ~file.owns /\ cursor = 0
    /\ pump = "general" => ~file.owns /\ midiIn # <<>> /\ ~Open("command")
    /\ pump = "service" => file.owns

Inv ==
    Types /\ NoMessageSplit /\ RingWhole /\ CommandOpen /\ EventOpen /\ FileOpen /\ PumpPlaces

----------------------------------------------------------------------------
(***************************************************************************)
(* What the steps have in common                                           *)
(***************************************************************************)
core == <<line, ring, rtWrite, rtRead, copied, midiIn, cursor, file>>

\* A position of the ring falls on one of its cells.
LEMMA CellType == \A p \in Nat : Cell(p) \in 0 .. RealtimeCapacity - 1
BY CapacitiesAssumption DEF Cell

\* The bytes in the ring are bytes.
LEMMA RingAtType == ASSUME Types, NEW p \in Nat PROVE RingAt(p) \in Byte
BY CellType DEF Types, RingAt

\* The last byte of a wire that is not empty is a byte.
LEMMA LastByteType == ASSUME Types, line # <<>> PROVE LastByte \in Byte
<1>1. Len(line) \in 1 .. Len(line)
  BY DEF Types
<1> QED BY <1>1 DEF Types, LastByte

\* A step that touches none of the queues keeps everything said about them.
LEMMA CoreUnchanged ==
    ASSUME Inv, UNCHANGED core
    PROVE  NoMessageSplit' /\ RingWhole' /\ CommandOpen' /\ EventOpen' /\ FileOpen'
<1> USE DEF core
<1>1. NoMessageSplit'
  BY DEF Inv, NoMessageSplit
<1>2. RingWhole'
  BY DEF Inv, RingWhole, RingAt
<1>3. CommandOpen'
  BY DEF Inv, CommandOpen, Open, LastByte, RingAt
<1>4. EventOpen'
  BY DEF Inv, EventOpen, Open, LastByte
<1>5. FileOpen'
  BY DEF Inv, FileOpen, Open, LastByte, RingAt, FileByte, IngressDrained, SizeBefore
<1> QED BY <1>1, <1>2, <1>3, <1>4, <1>5

\* A byte that may follow the last one keeps the wire whole and becomes the last.
LEMMA SendKeeps ==
    ASSUME Types, NoMessageSplit, NEW b \in Byte, Send(b),
           line = <<>> => b.at = 1, line # <<>> => MayFollow(LastByte, b)
    PROVE  /\ NoMessageSplit'
           /\ line' \in Seq(Byte) /\ line' # <<>> /\ LastByte' = b
<1>1. line \in Seq(Byte) /\ line' = Append(line, b)
  BY DEF Types, Send
<1>2. /\ line' \in Seq(Byte) /\ Len(line') = Len(line) + 1 /\ line'[Len(line) + 1] = b
      /\ \A i \in 1 .. Len(line) : line'[i] = line[i]
      /\ Len(line) \in Nat
  BY <1>1
<1>3. line' # <<>> /\ LastByte' = b
  BY <1>2 DEF LastByte
<1>4. line' # <<>> => line'[1].at = 1
  <2>1. CASE line = <<>>
    BY <1>2, <2>1
  <2>2. CASE line # <<>>
    <3>1. 1 \in 1 .. Len(line)
      BY <1>1, <2>2
    <3> QED BY <1>2, <2>2, <3>1 DEF NoMessageSplit
  <2> QED BY <2>1, <2>2
<1>5. ASSUME NEW i \in 1 .. Len(line') - 1 PROVE MayFollow(line'[i], line'[i + 1])
  <2>1. CASE i = Len(line)
    <3>1. line # <<>> /\ line'[i] = LastByte /\ line'[i + 1] = b
      BY <1>1, <1>2, <1>5, <2>1 DEF LastByte
    <3> QED BY <3>1
  <2>2. CASE i # Len(line)
    <3>1. i \in 1 .. Len(line) - 1 /\ i + 1 \in 1 .. Len(line)
      BY <1>2, <1>5, <2>2
    <3>2. line'[i] = line[i] /\ line'[i + 1] = line[i + 1]
      BY <1>2, <3>1
    <3> QED BY <3>1, <3>2 DEF NoMessageSplit
  <2> QED BY <2>1, <2>2
<1> QED BY <1>2, <1>3, <1>4, <1>5 DEF NoMessageSplit

----------------------------------------------------------------------------
(***************************************************************************)
(* The steps that leave the wire alone                                     *)
(***************************************************************************)
LEMMA InvInit == Init => Inv
<1> SUFFICES ASSUME Init PROVE Inv
  OBVIOUS
<1>1. NoByte \in Byte /\ NoFile \in File
  BY DEF NoByte, MkByte, Byte, Sources, NoFile, File
<1>2. Types
  BY <1>1, CapacitiesAssumption, TimesAssumption DEF Init, Types, Pumps
<1>3. line = <<>> /\ Len(line) = 0
  BY DEF Init
<1>4. NoMessageSplit
  BY <1>3 DEF NoMessageSplit
<1>5. RingWhole
  BY DEF Init, RingWhole
<1>6. CommandOpen /\ EventOpen /\ FileOpen /\ PumpPlaces
  BY <1>3 DEF Init, CommandOpen, EventOpen, FileOpen, PumpPlaces, Open, NoFile
<1> QED BY <1>2, <1>4, <1>5, <1>6 DEF Inv

\* The host's events and the latency.
LEMMA InvSchedule ==
    ASSUME Inv, NEW size \in EventSizes, NEW pad \in BOOLEAN, NEW offset \in Offsets,
           ScheduleMidi(size, pad, offset)
    PROVE  Inv'
<1> USE DEF eventVars, ringVars, timeVars
<1>1. UNCHANGED core /\ UNCHANGED pump
  BY DEF ScheduleMidi, core
<1>2. /\ size \in Nat \ {0} /\ now + offset \in Nat
      /\ Deadline(now + offset, latency) \in Nat /\ Len(accepted) + 1 \in Nat
  BY SizesAssumption, TimesAssumption DEF Inv, Types, Deadline
<1>3. scheduled' \subseteq Entry /\ \A e \in scheduled' : e.size # 0
  BY <1>2 DEF Inv, Types, Entry, ScheduleMidi
<1>4. accepted' \in Seq([sample : Nat, pad : BOOLEAN])
  BY <1>2 DEF Inv, Types, ScheduleMidi
<1>5. Types'
  BY <1>3, <1>4 DEF Inv, Types, ScheduleMidi
<1>6. PumpPlaces'
  BY <1>1 DEF Inv, PumpPlaces, core, Open, LastByte
<1> QED BY <1>1, <1>5, <1>6, CoreUnchanged DEF Inv

LEMMA InvRetime ==
    ASSUME Inv, NEW extra \in Latencies, RetimeMidi(extra)
    PROVE  Inv'
<1> USE DEF eventVars, ringVars, timeVars
<1>1. UNCHANGED core /\ UNCHANGED pump
  BY DEF RetimeMidi, core
<1>2. extra \in Nat
  BY TimesAssumption
<1>3. \A e \in scheduled : /\ [e EXCEPT !.cycle = Deadline(e.sample, extra)] \in Entry
                           /\ [e EXCEPT !.cycle = Deadline(e.sample, extra)].size # 0
  <2> SUFFICES ASSUME NEW e \in scheduled
               PROVE  /\ [e EXCEPT !.cycle = Deadline(e.sample, extra)] \in Entry
                      /\ [e EXCEPT !.cycle = Deadline(e.sample, extra)].size # 0
    OBVIOUS
  <2>1. e \in Entry /\ e.size # 0
    BY DEF Inv, Types
  <2>2. Deadline(e.sample, extra) \in Nat
    BY <1>2, <2>1 DEF Entry, Deadline
  <2> QED BY <2>1, <2>2 DEF Entry
<1>4. scheduled' \subseteq Entry /\ \A e \in scheduled' : e.size # 0
  BY <1>3 DEF RetimeMidi
<1>5. Types'
  BY <1>2, <1>4 DEF Inv, Types, RetimeMidi
<1>6. PumpPlaces'
  BY <1>1 DEF Inv, PumpPlaces, core, Open, LastByte
<1> QED BY <1>1, <1>5, <1>6, CoreUnchanged DEF Inv

\* The steps of processUC() that only move on.
LEMMA InvMoves ==
    ASSUME Inv,
           \/ PumpEnter \/ PumpRealtimeEnd \/ PumpGeneralFull \/ ServiceNothing
           \/ \E reads \in BOOLEAN : Exec(reads)
    PROVE  Inv'
<1> USE DEF eventVars, ringVars, timeVars
<1>1. UNCHANGED core /\ UNCHANGED <<copied, commands, scheduled, files, accepted, latency>>
  BY DEF PumpEnter, PumpRealtimeEnd, PumpGeneralFull, ServiceNothing, Exec, core
<1>2. pump' \in Pumps /\ now' \in Nat
  <2>1. now \in Nat
    BY DEF Inv, Types
  <2>2. CASE PumpEnter
    BY <2>1, <2>2 DEF Pumps, PumpEnter, EnterAt
  <2>3. CASE PumpRealtimeEnd
    BY <2>1, <2>3 DEF Pumps, PumpRealtimeEnd
  <2>4. CASE PumpGeneralFull \/ ServiceNothing
    BY <2>1, <2>4 DEF Pumps, PumpGeneralFull, ServiceNothing
  <2>5. CASE \E reads \in BOOLEAN : Exec(reads)
    BY <2>1, <2>5 DEF Pumps, Exec
  <2> QED BY <2>2, <2>3, <2>4, <2>5
<1>3. Types'
  BY <1>1, <1>2 DEF Inv, Types, core
<1>4. PumpPlaces'
  <2>1. CASE PumpEnter
    BY <2>1 DEF Inv, EventOpen, PumpPlaces, PumpEnter, EnterAt, Open, LastByte
  <2>2. CASE PumpRealtimeEnd
    <3>1. UNCHANGED <<file, line, midiIn, cursor>>
      BY <2>2 DEF PumpRealtimeEnd
    <3>2. pump' \in {"general", "exec"}
      BY <2>2 DEF PumpRealtimeEnd
    <3>3. pump' = "general" => pump = "realtime" /\ rtRead = rtWrite /\ midiIn # <<>>
      BY <2>2 DEF PumpRealtimeEnd, RealtimeDue, RealtimeEmpty
    <3>4. pump' = "general" => ~file.owns
      BY <3>3 DEF Inv, PumpPlaces
    <3>5. pump' = "general" => ~Open("command")
      BY <3>3 DEF Inv, CommandOpen, Types
    <3>6. Open("command")' = Open("command")
      BY <3>1 DEF Open, LastByte
    <3> QED BY <3>1, <3>2, <3>3, <3>4, <3>5, <3>6 DEF PumpPlaces
  <2>3. CASE PumpGeneralFull \/ ServiceNothing \/ \E reads \in BOOLEAN : Exec(reads)
    BY <2>3 DEF PumpPlaces, PumpGeneralFull, ServiceNothing, Exec
  <2> QED BY <2>1, <2>2, <2>3
<1> QED BY <1>1, <1>3, <1>4, CoreUnchanged DEF Inv

\* An event that is due joins m_midiIn behind its front, or is a pad.
LEMMA InvScheduled == Inv /\ PumpScheduledMidi => Inv'
<1> SUFFICES ASSUME Inv, PumpScheduledMidi PROVE Inv'
  OBVIOUS
<1> USE DEF eventVars, ringVars, timeVars
<1>1. UNCHANGED <<line, ring, rtWrite, rtRead, copied, cursor, file, pump>>
  BY DEF PumpScheduledMidi
<1>2. /\ midiIn' \in Seq([id : Nat, size : Nat \ {0}])
      /\ midiIn # <<>> => midiIn' # <<>> /\ Head(midiIn') = Head(midiIn)
  <2>1. CASE midiIn' = midiIn
    BY <2>1 DEF Inv, Types
  <2>2. ASSUME NEW e \in scheduled, midiIn' = Append(midiIn, [id |-> e.id, size |-> e.size])
        PROVE  /\ midiIn' \in Seq([id : Nat, size : Nat \ {0}])
               /\ midiIn # <<>> => midiIn' # <<>> /\ Head(midiIn') = Head(midiIn)
    <3>1. [id |-> e.id, size |-> e.size] \in [id : Nat, size : Nat \ {0}]
      BY DEF Inv, Types, Entry
    <3> DEFINE new == [id |-> e.id, size |-> e.size]
               Events == [id : Nat, size : Nat \ {0}]
    <3>2. midiIn \in Seq(Events) /\ new \in Events /\ midiIn' = Append(midiIn, new)
      BY <2>2, <3>1 DEF Inv, Types
    <3> HIDE DEF new, Events
    <3>3. midiIn' \in Seq(Events) /\ midiIn' # <<>>
      BY <3>2
    <3>4. midiIn # <<>> => Head(midiIn') = Head(midiIn)
      BY <3>2
    <3> QED BY <3>3, <3>4 DEF Events
  <2> QED BY <2>1, <2>2 DEF PumpScheduledMidi
<1>3. scheduled' \subseteq scheduled
  BY DEF PumpScheduledMidi
<1>4. Types'
  BY <1>2, <1>3 DEF Inv, Types, PumpScheduledMidi
<1>5. NoMessageSplit' /\ RingWhole' /\ CommandOpen' /\ FileOpen'
  BY <1>1 DEF Inv, NoMessageSplit, RingWhole, RingAt, CommandOpen, FileOpen, Open, LastByte,
              FileByte, IngressDrained, SizeBefore
<1>6. EventOpen' /\ PumpPlaces'
  BY <1>1, <1>2 DEF Inv, EventOpen, PumpPlaces, PumpScheduledMidi, Open, LastByte
<1> QED BY <1>4, <1>5, <1>6 DEF Inv

\* Copied commands are published.
LEMMA InvPublish == Inv /\ PushPublish => Inv'
<1> SUFFICES ASSUME Inv, PushPublish PROVE Inv'
  OBVIOUS
<1> USE DEF eventVars, ringVars, timeVars
<1>1. /\ UNCHANGED <<line, ring, rtRead, midiIn, cursor, file, pump>>
      /\ copied > 0 /\ copied' = 0 /\ rtWrite' = rtWrite + copied
  BY DEF PushPublish
<1>2. Types'
  BY <1>1 DEF Inv, Types, PushPublish
<1>3. RingWhole'
  BY <1>1 DEF Inv, Types, RingWhole, RingAt
<1>4. CommandOpen'
  BY <1>1 DEF Inv, Types, RingWhole, CommandOpen, RingAt, Open, LastByte
<1>5. FileOpen'
  <2>1. /\ Open("file")' = Open("file") /\ Open("command")' = Open("command")
        /\ Open("eox")' = Open("eox") /\ LastByte' = LastByte
        /\ \A p : RingAt(p)' = RingAt(p)
        /\ IngressDrained' = IngressDrained /\ FileByte(file.sent)' = FileByte(file.sent)
    BY <1>1 DEF Open, LastByte, RingAt, IngressDrained, SizeBefore, FileByte
  <2>2. file.owns => file.boundary <= rtWrite'
    BY <1>1 DEF Inv, Types, File, FileOpen
  <2>3. RingAt(file.boundary - 1)' = RingAt(file.boundary - 1)
    BY <1>1 DEF RingAt
  <2> QED BY <1>1, <2>1, <2>2, <2>3 DEF Inv, FileOpen
<1>6. NoMessageSplit' /\ EventOpen' /\ PumpPlaces'
  BY <1>1 DEF Inv, NoMessageSplit, EventOpen, PumpPlaces, Open, LastByte
<1> QED BY <1>2, <1>3, <1>4, <1>5, <1>6 DEF Inv

----------------------------------------------------------------------------
(***************************************************************************)
(* A command is copied into the ring behind the write position.            *)
(***************************************************************************)
\* What the copy leaves and what it writes.
LEMMA Copied ==
    ASSUME Types, copied = 0, NEW size \in CommandSizes, PushCopy(size)
    PROVE  /\ \A p \in rtRead .. rtWrite - 1 : RingAt(p)' = RingAt(p)
           /\ \A k \in 1 .. size :
                RingAt(rtWrite + k - 1)' = CommandByte(commands + 1, size, k)
           /\ ring' \in [0 .. RealtimeCapacity - 1 -> Byte]
           /\ size \in Nat \ {0} /\ rtWrite + size - rtRead <= RealtimeCapacity
<1>1. /\ size \in Nat \ {0} /\ rtWrite \in Nat /\ rtRead \in Nat /\ rtRead <= rtWrite
      /\ rtWrite + size - rtRead <= RealtimeCapacity
      /\ DOMAIN ring = 0 .. RealtimeCapacity - 1 /\ commands \in Nat
      /\ RealtimeCapacity \in Nat \ {0}
  BY SizesAssumption, CapacitiesAssumption DEF Types, PushCopy, RoomFor
<1> DEFINE Hit(c, k) == c = Cell(rtWrite + k - 1)
           new(c) == IF \E k \in 1 .. size : Hit(c, k)
                     THEN CommandByte(commands + 1, size, CHOOSE k \in 1 .. size : Hit(c, k))
                     ELSE ring[c]
<1>2. ring' = [c \in 0 .. RealtimeCapacity - 1 |-> new(c)]
  BY <1>1 DEF PushCopy
<1>3. \A k \in 1 .. size : CommandByte(commands + 1, size, k) \in Byte
  BY <1>1 DEF CommandByte, MkByte, Byte, Sources
<1>4. ASSUME NEW c \in 0 .. RealtimeCapacity - 1 PROVE new(c) \in Byte
  <2>1. CASE \E k \in 1 .. size : Hit(c, k)
    <3> DEFINE j == CHOOSE k \in 1 .. size : Hit(c, k)
    <3>1. j \in 1 .. size
      BY <2>1
    <3> QED BY <1>3, <2>1, <3>1
  <2>2. CASE ~\E k \in 1 .. size : Hit(c, k)
    BY <2>2 DEF Types
  <2> QED BY <2>1, <2>2
<1>5. ring' \in [0 .. RealtimeCapacity - 1 -> Byte]
  <2> HIDE DEF new
  <2> QED BY <1>2, <1>4
<1>6. ASSUME NEW p \in Nat, NEW q \in Nat, p < q, q - p < RealtimeCapacity
      PROVE  Cell(p) # Cell(q)
  BY <1>1, <1>6, ModInjective DEF Cell
<1>7. ASSUME NEW p \in rtRead .. rtWrite - 1 PROVE RingAt(p)' = RingAt(p)
  <2>1. p \in Nat /\ Cell(p) \in 0 .. RealtimeCapacity - 1
    BY <1>1, <1>7, CellType
  <2>2. ASSUME NEW k \in 1 .. size PROVE ~Hit(Cell(p), k)
    <3> DEFINE q == rtWrite + k - 1
    <3>1. q \in Nat /\ p < q /\ q - p < RealtimeCapacity
      BY <1>1, <1>7, <2>2
    <3> HIDE DEF q
    <3>2. Cell(p) # Cell(q)
      BY <1>6, <2>1, <3>1
    <3> QED BY <3>2 DEF Hit, q
  <2>3. ring'[Cell(p)] = ring[Cell(p)]
    BY <1>2, <2>1, <2>2
  <2> QED BY <2>3 DEF RingAt, Cell
<1>8. ASSUME NEW k \in 1 .. size
      PROVE  RingAt(rtWrite + k - 1)' = CommandByte(commands + 1, size, k)
  <2> DEFINE c == Cell(rtWrite + k - 1)
             j == CHOOSE i \in 1 .. size : Hit(c, i)
  <2>1. rtWrite + k - 1 \in Nat /\ c \in 0 .. RealtimeCapacity - 1
    BY <1>1, <1>8, CellType
  <2>2. j \in 1 .. size /\ Hit(c, j)
    BY <1>8
  <2>3. j = k
    <3>1. rtWrite + j - 1 \in Nat /\ Cell(rtWrite + j - 1) = Cell(rtWrite + k - 1)
      BY <1>1, <2>2
    <3>2. CASE j < k
      BY <1>1, <1>6, <1>8, <2>1, <2>2, <3>1, <3>2
    <3>3. CASE k < j
      BY <1>1, <1>6, <1>8, <2>1, <2>2, <3>1, <3>3
    <3> QED BY <1>8, <2>2, <3>2, <3>3
  <2>4. ring'[c] = CommandByte(commands + 1, size, k)
    BY <1>2, <1>8, <2>1, <2>2, <2>3
  <2>5. RingAt(rtWrite + k - 1)' = ring'[Cell(rtWrite' + k - 1)]
    BY DEF RingAt, Cell
  <2>6. rtWrite' = rtWrite
    BY DEF PushCopy
  <2> QED BY <2>4, <2>5, <2>6
<1> QED BY <1>1, <1>5, <1>7, <1>8

LEMMA InvCopy ==
    ASSUME Inv, NEW size \in CommandSizes, PushCopy(size)
    PROVE  Inv'
<1> USE DEF eventVars, ringVars, timeVars
<1>1. /\ UNCHANGED <<line, rtWrite, rtRead, midiIn, cursor, file, pump, commands>>
      /\ copied = 0 /\ copied' = size
  BY DEF PushCopy
<1>2. /\ \A p \in rtRead .. rtWrite - 1 : RingAt(p)' = RingAt(p)
      /\ \A k \in 1 .. size : RingAt(rtWrite + k - 1)' = CommandByte(commands + 1, size, k)
      /\ ring' \in [0 .. RealtimeCapacity - 1 -> Byte]
      /\ size \in Nat \ {0} /\ rtWrite + size - rtRead <= RealtimeCapacity
      /\ rtWrite \in Nat /\ rtRead \in Nat /\ rtRead <= rtWrite
  BY <1>1, Copied DEF Inv, Types
<1>3. Types'
  BY <1>1, <1>2 DEF Inv, Types, PushCopy
<1>4. \A k \in 1 .. size :
        LET b == CommandByte(commands + 1, size, k)
        IN b.src = "command" /\ b.at = k /\ b.of = size /\ b.no = commands + 1
  BY DEF CommandByte, MkByte
<1>5. RingWhole'
  <2> DEFINE At(p) == ring'[Cell(p)]
  <2>1. \A p \in rtRead .. rtWrite - 1 : At(p) = RingAt(p)
    BY <1>1, <1>2 DEF RingAt, Cell
  <2>2. \A k \in 1 .. size : At(rtWrite + k - 1) = CommandByte(commands + 1, size, k)
    BY <1>1, <1>2 DEF RingAt, Cell
  <2>3. ASSUME NEW p \in rtWrite .. rtWrite + size - 1
        PROVE  /\ p - rtWrite + 1 \in 1 .. size
               /\ At(p) = CommandByte(commands + 1, size, p - rtWrite + 1)
    <3>1. p - rtWrite + 1 \in 1 .. size /\ p = rtWrite + (p - rtWrite + 1) - 1
      BY <1>2, <2>3
    <3> QED BY <2>2, <3>1
  <2>4. ASSUME NEW p \in rtRead .. rtWrite + size - 1 PROVE At(p).src = "command"
    <3>1. CASE p < rtWrite
      <4>1. p \in rtRead .. rtWrite - 1 /\ p \in rtRead .. rtWrite + copied - 1
        BY <1>1, <1>2, <2>4, <3>1
      <4> QED BY <2>1, <4>1 DEF Inv, RingWhole
    <3>2. CASE p >= rtWrite
      BY <1>2, <1>4, <2>3, <2>4, <3>2
    <3> QED BY <1>2, <2>4, <3>1, <3>2
  <2>5. ASSUME NEW p \in rtRead + 1 .. rtWrite + size - 1 PROVE MayFollow(At(p - 1), At(p))
    <3>1. CASE p < rtWrite
      <4>1. p \in rtRead + 1 .. rtWrite + copied - 1
            /\ p \in rtRead .. rtWrite - 1 /\ p - 1 \in rtRead .. rtWrite - 1
        BY <1>1, <1>2, <2>5, <3>1
      <4> QED BY <2>1, <4>1 DEF Inv, RingWhole
    <3>2. CASE p = rtWrite
      <4>1. p - 1 = rtWrite - 1 /\ rtRead < rtWrite /\ p - 1 \in rtRead .. rtWrite - 1
        BY <1>2, <2>5, <3>2
      <4>2. IsLast(At(p - 1))
        BY <2>1, <4>1 DEF Inv, RingWhole
      <4>3. At(p).at = 1
        <5>1. p \in rtWrite .. rtWrite + size - 1 /\ p - rtWrite + 1 = 1
          BY <1>2, <3>2
        <5> QED BY <1>4, <2>3, <5>1
      <4> QED BY <4>2, <4>3 DEF MayFollow
    <3>3. CASE p > rtWrite
      <4>1. /\ p \in rtWrite .. rtWrite + size - 1 /\ p - 1 \in rtWrite .. rtWrite + size - 1
            /\ p - rtWrite + 1 = (p - 1 - rtWrite + 1) + 1
            /\ p - 1 - rtWrite + 1 < size
        BY <1>2, <2>5, <3>3
      <4>2. /\ At(p) = CommandByte(commands + 1, size, p - rtWrite + 1)
            /\ At(p - 1) = CommandByte(commands + 1, size, p - 1 - rtWrite + 1)
        BY <2>3, <4>1
      <4>3. At(p) = Following(At(p - 1))
        BY <4>1, <4>2 DEF CommandByte, MkByte, Following
      <4>4. ~IsLast(At(p - 1))
        <5>1. At(p - 1).at = p - 1 - rtWrite + 1 /\ At(p - 1).of = size
          BY <4>2 DEF CommandByte, MkByte
        <5> QED BY <4>1, <5>1, <1>2 DEF IsLast
      <4> QED BY <4>3, <4>4 DEF MayFollow
    <3> QED BY <1>2, <2>5, <3>1, <3>2, <3>3
  <2>6. rtRead < rtWrite => IsLast(At(rtWrite - 1))
    <3>1. rtRead < rtWrite => rtWrite - 1 \in rtRead .. rtWrite - 1
      BY <1>2
    <3> QED BY <2>1, <3>1 DEF Inv, RingWhole
  <2>7. At(rtWrite).at = 1 /\ IsLast(At(rtWrite + size - 1))
    <3>1. /\ rtWrite \in rtWrite .. rtWrite + size - 1
          /\ rtWrite + size - 1 \in rtWrite .. rtWrite + size - 1
          /\ rtWrite - rtWrite + 1 = 1 /\ rtWrite + size - 1 - rtWrite + 1 = size
      BY <1>2
    <3>2. At(rtWrite) = CommandByte(commands + 1, size, rtWrite - rtWrite + 1)
      BY <2>3, <3>1
    <3> DEFINE last == rtWrite + size - 1
    <3> HIDE DEF last, At
    <3>3. At(last) = CommandByte(commands + 1, size, last - rtWrite + 1)
      BY <2>3, <3>1 DEF last
    <3>4. last - rtWrite + 1 = size
      BY <1>2 DEF last
    <3>5. At(last) = CommandByte(commands + 1, size, size)
      BY <3>3, <3>4
    <3>6. At(rtWrite) = CommandByte(commands + 1, size, 1)
      BY <3>1, <3>2
    <3>7. IsLast(At(last)) /\ At(rtWrite).at = 1
      BY <3>5, <3>6 DEF CommandByte, MkByte, IsLast
    <3> QED BY <3>7 DEF last
  <2>8. \A p : RingAt(p)' = ring'[Cell(p)]
    BY DEF RingAt, Cell
  <2> HIDE DEF At
  <2> QED
    BY <1>1, <2>4, <2>5, <2>6, <2>7 DEF RingWhole, RingAt, Cell, At
<1>6. rtRead < rtWrite => ring'[Cell(rtRead)] = ring[Cell(rtRead)]
  <2>1. rtRead < rtWrite => rtRead \in rtRead .. rtWrite - 1
    BY <1>2
  <2>2. \A p \in rtRead .. rtWrite - 1 : ring'[Cell(p)] = ring[Cell(p)]
    BY <1>2 DEF RingAt, Cell
  <2> QED BY <2>1, <2>2
<1>7. CommandOpen'
  BY <1>1, <1>6 DEF Inv, CommandOpen, Open, LastByte, RingAt, Cell
<1>8. FileOpen'
  <2>1. file.owns /\ rtRead < file.boundary => file.boundary - 1 \in rtRead .. rtWrite - 1
    <3>1. rtRead \in Nat /\ rtWrite \in Nat /\ file.boundary \in Nat
      BY DEF Inv, Types, File
    <3>2. file.owns => file.boundary <= rtWrite
      BY DEF Inv, FileOpen
    <3> QED BY <3>1, <3>2
  <2>2. \A p \in rtRead .. rtWrite - 1 : ring'[Cell(p)] = ring[Cell(p)]
    BY <1>2 DEF RingAt, Cell
  <2>4. file.owns /\ rtRead < file.boundary =>
            ring'[Cell(file.boundary - 1)] = ring[Cell(file.boundary - 1)]
    BY <2>1, <2>2
  <2>3. /\ Open("file")' = Open("file") /\ Open("command")' = Open("command")
        /\ Open("eox")' = Open("eox") /\ LastByte' = LastByte
        /\ IngressDrained' = IngressDrained /\ FileByte(file.sent)' = FileByte(file.sent)
    BY <1>1 DEF Open, LastByte, IngressDrained, SizeBefore, FileByte
  <2> QED BY <1>1, <2>4, <2>3 DEF Inv, FileOpen, RingAt, Cell
<1>9. NoMessageSplit' /\ EventOpen' /\ PumpPlaces'
  BY <1>1 DEF Inv, NoMessageSplit, EventOpen, PumpPlaces, Open, LastByte
<1> QED BY <1>3, <1>5, <1>7, <1>8, <1>9 DEF Inv

----------------------------------------------------------------------------
(***************************************************************************)
(* The steps that put a byte on the wire                                   *)
(***************************************************************************)
\* When no message is open, the next byte is the first of one.
LEMMA NothingOpen ==
    ASSUME Types, ~Open("event"), ~Open("command"), ~Open("file"), ~Open("eox"), line # <<>>
    PROVE  IsLast(LastByte)
<1>1. LastByte.src \in Sources
  BY LastByteType DEF Byte
<1> QED BY <1>1 DEF Open, Sources

\* The next byte of a command.
LEMMA InvRealtimeByte == Inv /\ PumpRealtimeByte => Inv'
<1> SUFFICES ASSUME Inv, PumpRealtimeByte PROVE Inv'
  OBVIOUS
<1> USE DEF eventVars, ringVars, timeVars
<1> DEFINE b == RingAt(rtRead)
<1>1. /\ UNCHANGED <<ring, rtWrite, copied, midiIn, cursor, file, pump>>
      /\ rtRead < rtWrite /\ rtRead' = rtRead + 1 /\ Send(b)
      /\ rtRead \in Nat /\ rtWrite \in Nat /\ copied \in Nat
  BY DEF Inv, Types, PumpRealtimeByte, RealtimeDue, RealtimeEmpty, RingAt
<1>2. cursor = 0 /\ ~Open("event")
  BY DEF Inv, PumpPlaces, EventOpen, PumpRealtimeByte, Open
<1>3. file.owns => rtRead < file.boundary /\ ~(file.sent > 0)
  BY <1>1 DEF Inv, PumpPlaces, FileOpen, PumpRealtimeByte, RealtimeDue, SizeBefore, IngressDrained
<1>4. ~Open("file") /\ ~Open("eox")
  BY <1>3 DEF Inv, FileOpen
<1>5. b \in Byte /\ b.src = "command"
  <2>1. rtRead \in rtRead .. rtWrite + copied - 1
    BY <1>1
  <2> QED BY <1>1, <2>1, RingAtType DEF Inv, RingWhole
<1>6. line # <<>> => MayFollow(LastByte, b)
  <2>1. CASE Open("command")
    BY <2>1 DEF Inv, CommandOpen, MayFollow, Open
  <2>2. CASE ~Open("command")
    BY <1>1, <1>2, <1>4, <2>2, NothingOpen DEF Inv, CommandOpen, MayFollow
  <2> QED BY <2>1, <2>2
<1>7. line = <<>> => b.at = 1
  BY <1>1 DEF Inv, CommandOpen, Open
<1>8. NoMessageSplit' /\ line' \in Seq(Byte) /\ line' # <<>> /\ LastByte' = b
  <2> HIDE DEF b
  <2> QED BY <1>1, <1>5, <1>6, <1>7, SendKeeps DEF Inv
<1>9. Types'
  <2>1. rtRead' \in Nat /\ rtRead' <= rtWrite /\ rtWrite + copied - rtRead' <= RealtimeCapacity
    BY <1>1, CapacitiesAssumption DEF Inv, Types
  <2> HIDE DEF b
  <2> QED BY <1>1, <1>8, <2>1 DEF Inv, Types, PumpRealtimeByte
<1>10. \A p : RingAt(p)' = RingAt(p)
  BY <1>1 DEF RingAt
<1>11. RingWhole'
  <2>1. \A p \in rtRead' .. (rtWrite + copied - 1)' : p \in rtRead .. rtWrite + copied - 1
    BY <1>1
  <2>2. \A p \in rtRead' + 1 .. (rtWrite + copied - 1)' :
            p \in rtRead + 1 .. rtWrite + copied - 1
    BY <1>1
  <2>3. \A p \in rtRead' .. (rtWrite + copied - 1)' : RingAt(p)'.src = "command"
    BY <1>1, <2>1 DEF Inv, RingWhole, RingAt
  <2>4. \A p \in rtRead' + 1 .. (rtWrite + copied - 1)' : MayFollow(RingAt(p - 1), RingAt(p))'
    BY <1>1, <2>2 DEF Inv, RingWhole, RingAt, MayFollow
  <2> QED BY <1>1, <2>3, <2>4 DEF Inv, RingWhole, RingAt
<1>12. CommandOpen'
  <2>1. ~IsLast(b) => rtRead + 1 < rtWrite
    <3>1. rtRead + 1 = rtWrite => rtWrite - 1 = rtRead
      BY <1>1
    <3>2. rtRead + 1 = rtWrite => IsLast(b)
      BY <1>1, <3>1 DEF Inv, RingWhole
    <3> QED BY <1>1, <3>2
  <2>2. rtRead + 1 < rtWrite => MayFollow(b, RingAt(rtRead + 1))
    <3> DEFINE q == rtRead + 1
    <3>1. q < rtWrite => q \in rtRead + 1 .. rtWrite + copied - 1
      BY <1>1
    <3>2. q - 1 = rtRead
      BY <1>1
    <3>3. \A p \in rtRead + 1 .. rtWrite + copied - 1 : MayFollow(RingAt(p - 1), RingAt(p))
      BY DEF Inv, RingWhole
    <3> HIDE DEF q
    <3>4. q < rtWrite => MayFollow(RingAt(q - 1), RingAt(q))
      BY <3>1, <3>3
    <3> QED BY <3>2, <3>4 DEF q
  <2>3. RingAt(rtRead)' = RingAt(rtRead + 1)
    BY <1>1 DEF RingAt
  <2>4. Open("command")' <=> ~IsLast(b)
    BY <1>5, <1>8 DEF Open
  <2> HIDE DEF b
  <2>5. ~IsLast(b) => RingAt(rtRead + 1) = Following(b)
    BY <1>5, <2>1, <2>2 DEF MayFollow
  <2>6. IsLast(b) /\ rtRead + 1 < rtWrite => RingAt(rtRead + 1).at = 1
    BY <1>5, <2>2 DEF MayFollow
  <2> QED BY <1>1, <1>8, <2>1, <2>3, <2>4, <2>5, <2>6 DEF CommandOpen
<1>13. EventOpen'
  BY <1>1, <1>2, <1>5, <1>8 DEF EventOpen, Open
<1>14. FileOpen'
  <2>1. ~Open("file")' /\ ~Open("eox")'
    BY <1>5, <1>8 DEF Open
  <2>2. CASE ~file.owns
    BY <1>1, <2>1, <2>2 DEF FileOpen
  <2>3. CASE file.owns
    <3>1. /\ file.boundary \in Nat /\ rtRead + 1 <= file.boundary
          /\ file.boundary - 1 = rtRead \/ rtRead + 1 < file.boundary
      BY <1>1, <1>3, <2>3 DEF Inv, Types, File
    <3>2. IsLast(RingAt(file.boundary - 1))
      BY <1>3, <2>3 DEF Inv, FileOpen
    <3>3. rtRead + 1 = file.boundary => ~Open("command")'
      BY <1>1, <1>8, <3>1, <3>2 DEF Open
    <3>4. RingAt(file.boundary - 1)' = RingAt(file.boundary - 1)
      BY <1>1 DEF RingAt
    <3>5. /\ file.sent <= file.size /\ 0 < file.size /\ (file.eox => file.cancelled)
          /\ file.boundary <= rtWrite
      BY <2>3 DEF Inv, FileOpen
    <3> QED BY <1>1, <1>3, <2>1, <2>3, <3>1, <3>2, <3>3, <3>4, <3>5 DEF FileOpen
  <2> QED BY <2>2, <2>3
<1>15. PumpPlaces'
  BY <1>1 DEF Inv, PumpPlaces, PumpRealtimeByte
<1> QED BY <1>8, <1>9, <1>11, <1>12, <1>13, <1>14, <1>15 DEF Inv

\* The next byte of the front event.
LEMMA InvGeneralByte == Inv /\ PumpGeneralByte => Inv'
<1> SUFFICES ASSUME Inv, PumpGeneralByte PROVE Inv'
  OBVIOUS
<1> USE DEF eventVars, ringVars, timeVars
<1> DEFINE front == Head(midiIn)
           b == MkByte("event", front.id, cursor + 1, front.size)
<1>1. UNCHANGED <<ring, rtWrite, rtRead, copied, file>> /\ Send(b)
  BY DEF PumpGeneralByte
<1>2. midiIn # <<>> /\ ~Open("command") /\ (file.owns => cursor # 0)
  BY DEF Inv, PumpPlaces, EventOpen, PumpGeneralByte, Open
<1>3. /\ front.id \in Nat /\ front.size \in Nat \ {0} /\ cursor \in Nat
      /\ Tail(midiIn) \in Seq([id : Nat, size : Nat \ {0}])
  <2> DEFINE Events == [id : Nat, size : Nat \ {0}]
  <2>1. midiIn \in Seq(Events) /\ cursor \in Nat
    BY DEF Inv, Types
  <2> HIDE DEF Events
  <2>2. front \in Events /\ Tail(midiIn) \in Seq(Events)
    BY <1>2, <2>1
  <2> QED BY <2>1, <2>2 DEF Events
<1>4. file.owns => ~(file.sent > 0)
  BY <1>2 DEF Inv, FileOpen, IngressDrained
<1>5. ~Open("file") /\ ~Open("eox")
  BY <1>4 DEF Inv, FileOpen
<1>6. b \in Byte
  BY <1>3 DEF MkByte, Byte, Sources
<1>7. b.src = "event" /\ b.at = cursor + 1 /\ b.of = front.size
  BY DEF MkByte
<1>8. line # <<>> => MayFollow(LastByte, b)
  <2>1. CASE Open("event")
    <3>1. LastByte = MkByte("event", front.id, cursor, front.size) /\ ~IsLast(LastByte)
      BY <2>1 DEF Inv, EventOpen, Open
    <3>2. b = Following(LastByte)
      <4>1. PICK n, c, z : n = front.id /\ c = cursor /\ z = front.size
        OBVIOUS
      <4>2. Following(MkByte("event", n, c, z)) = MkByte("event", n, c + 1, z)
        BY DEF MkByte, Following
      <4> QED BY <3>1, <4>1, <4>2
    <3> QED BY <3>1, <3>2 DEF MayFollow
  <2>2. CASE ~Open("event")
    <3>1. cursor = 0
      BY <2>2 DEF Inv, EventOpen
    <3>2. line # <<>> => IsLast(LastByte)
      BY <1>2, <1>5, <2>2, NothingOpen DEF Inv
    <3> QED BY <1>7, <3>1, <3>2 DEF MayFollow
  <2> QED BY <2>1, <2>2
<1>9. line = <<>> => b.at = 1
  BY <1>3, <1>7 DEF Inv, EventOpen, Open
<1>10. NoMessageSplit' /\ line' \in Seq(Byte) /\ line' # <<>> /\ LastByte' = b
  <2> HIDE DEF b
  <2> QED BY <1>1, <1>6, <1>8, <1>9, SendKeeps DEF Inv
<1>11. cursor < front.size
  BY <1>3 DEF Inv, EventOpen
<1>12. \/ cursor + 1 < front.size /\ cursor' = cursor + 1 /\ UNCHANGED <<midiIn, pump>>
       \/ /\ cursor + 1 = front.size /\ cursor' = 0 /\ midiIn' = Tail(midiIn)
          /\ pump' = IF pump = "finish" THEN "before" ELSE "realtime"
  BY <1>3, <1>11 DEF PumpGeneralByte
<1>13. Types'
  <2>1. midiIn' \in Seq([id : Nat, size : Nat \ {0}]) /\ cursor' \in Nat /\ pump' \in Pumps
    <3>1. midiIn' = midiIn \/ midiIn' = Tail(midiIn)
      BY <1>12
    <3>2. midiIn' \in Seq([id : Nat, size : Nat \ {0}])
      BY <1>3, <3>1 DEF Inv, Types
    <3>3. cursor' \in Nat
      BY <1>3, <1>12
    <3>4. pump' \in Pumps
      <4>1. pump \in Pumps
        BY DEF Inv, Types
      <4> QED BY <1>12, <4>1 DEF Pumps
    <3> QED BY <3>2, <3>3, <3>4
  <2> QED BY <1>1, <1>10, <2>1 DEF Inv, Types, PumpGeneralByte
<1>14. RingWhole'
  BY <1>1 DEF Inv, RingWhole, RingAt
<1>15. ~Open("command")' /\ ~Open("file")' /\ ~Open("eox")'
  BY <1>7, <1>10 DEF Open
<1>16. CommandOpen'
  BY <1>1, <1>2, <1>15 DEF Inv, CommandOpen, RingAt
<1>17. EventOpen'
  <2>1. Open("event")' <=> cursor + 1 # front.size
    BY <1>7, <1>10 DEF Open, IsLast
  <2>2. CASE cursor + 1 < front.size /\ cursor' = cursor + 1 /\ UNCHANGED <<midiIn, pump>>
    BY <1>2, <1>3, <1>10, <2>1, <2>2 DEF EventOpen
  <2>3. CASE cursor + 1 = front.size /\ cursor' = 0
    BY <2>1, <2>3 DEF EventOpen
  <2> QED BY <1>12, <2>2, <2>3
<1>18. FileOpen'
  BY <1>1, <1>4, <1>15 DEF Inv, FileOpen, RingAt
<1>19. PumpPlaces'
  <2>1. CASE cursor + 1 < front.size /\ cursor' = cursor + 1 /\ UNCHANGED <<midiIn, pump>>
    BY <1>1, <1>3, <1>15, <2>1 DEF Inv, PumpPlaces, PumpGeneralByte
  <2>2. CASE cursor' = 0 /\ pump' = IF pump = "finish" THEN "before" ELSE "realtime"
    BY <1>1, <2>2 DEF Inv, PumpPlaces, PumpGeneralByte
  <2> QED BY <1>12, <2>1, <2>2
<1> QED BY <1>10, <1>13, <1>14, <1>16, <1>17, <1>18, <1>19 DEF Inv

----------------------------------------------------------------------------
(***************************************************************************)
(* The transfer                                                            *)
(***************************************************************************)
LEMMA InvStart ==
    ASSUME Inv, NEW size \in FileSizes, StartTransfer(size)
    PROVE  Inv'
<1> USE DEF eventVars, ringVars, timeVars
<1>1. /\ UNCHANGED <<line, ring, rtWrite, rtRead, copied, midiIn, cursor, pump>>
      /\ pump = "cpu" /\ ~file.owns
  BY DEF StartTransfer
<1>2. size \in Nat \ {0} /\ rtWrite \in Nat /\ rtRead \in Nat /\ rtRead <= rtWrite
  BY SizesAssumption DEF Inv, Types
<1>3. Len(files) + 1 \in Nat /\ files' \in Seq(Nat)
  BY DEF Inv, Types, StartTransfer
<1>4. /\ file' \in File /\ file'.owns = TRUE /\ file'.size = size /\ file'.sent = 0
      /\ file'.boundary = rtWrite /\ file'.cancelled = FALSE /\ file'.eox = FALSE
  BY <1>2, <1>3 DEF StartTransfer, NoFile, File
<1>5. Types'
  BY <1>1, <1>3, <1>4 DEF Inv, Types, StartTransfer
<1>6. NoMessageSplit' /\ RingWhole' /\ CommandOpen' /\ EventOpen' /\ PumpPlaces'
  BY <1>1 DEF Inv, NoMessageSplit, RingWhole, RingAt, CommandOpen, EventOpen, PumpPlaces, Open,
              LastByte
<1>7. FileOpen'
  <2>1. ~Open("file")' /\ ~Open("eox")' /\ (rtRead = rtWrite => ~Open("command")')
    BY <1>1, <1>2 DEF Inv, FileOpen, CommandOpen, Open, LastByte
  <2>2. rtRead < rtWrite => IsLast(RingAt(rtWrite - 1)')
    BY <1>1 DEF Inv, RingWhole, RingAt
  <2>3. RingAt(file.boundary - 1)' = RingAt(rtWrite - 1)'
    BY <1>1, <1>4 DEF RingAt
  <2> QED BY <1>1, <1>2, <1>4, <2>1, <2>2, <2>3 DEF FileOpen
<1> QED BY <1>5, <1>6, <1>7 DEF Inv

LEMMA InvCancel == Inv /\ CancelTransfer => Inv'
<1> SUFFICES ASSUME Inv, CancelTransfer PROVE Inv'
  OBVIOUS
<1> USE DEF eventVars, ringVars, timeVars
<1>1. /\ UNCHANGED <<line, ring, rtWrite, rtRead, copied, midiIn, cursor, pump>>
      /\ pump = "cpu" /\ file.owns /\ ~file.cancelled
  BY DEF CancelTransfer
<1>2. /\ file' \in File /\ file'.owns = TRUE /\ file'.cancelled = TRUE /\ file'.eox = TRUE
      /\ file'.size = file.size /\ file'.sent = file.sent /\ file'.no = file.no
      /\ file'.boundary = file.boundary
  BY <1>1 DEF Inv, Types, CancelTransfer, File
<1>3. Types'
  BY <1>1, <1>2 DEF Inv, Types, CancelTransfer
<1>4. NoMessageSplit' /\ RingWhole' /\ CommandOpen' /\ EventOpen' /\ PumpPlaces'
  BY <1>1 DEF Inv, NoMessageSplit, RingWhole, RingAt, CommandOpen, EventOpen, PumpPlaces, Open,
              LastByte
<1>5. FileOpen'
  BY <1>1, <1>2 DEF Inv, FileOpen, Open, LastByte, RingAt, FileByte, IngressDrained, SizeBefore
<1> QED BY <1>3, <1>4, <1>5 DEF Inv

\* The transfer's next byte, or the end that cuts it.
LEMMA InvServiceByte == Inv /\ ServiceByte => Inv'
<1> SUFFICES ASSUME Inv, ServiceByte PROVE Inv'
  OBVIOUS
<1> USE DEF eventVars, ringVars, timeVars
<1>1. /\ UNCHANGED <<ring, rtWrite, rtRead, copied, midiIn, cursor>>
      /\ pump = "service" /\ pump' = "cpu" /\ IngressDrained /\ ~FileDone
      /\ file.owns /\ file \in File /\ rtRead \in Nat
  BY DEF Inv, Types, PumpPlaces, ServiceByte
<1>2. /\ rtRead = file.boundary /\ cursor = 0
      /\ ~Open("event") /\ ~Open("command") /\ ~Open("eox")
  BY <1>1 DEF Inv, FileOpen, EventOpen, IngressDrained, SizeBefore, File
<1> DEFINE b == IF file.cancelled THEN MkByte("eox", file.no, 1, 1) ELSE FileByte(file.sent + 1)
<1>3. Send(b)
  BY DEF ServiceByte
<1>4. b \in Byte /\ b.src \in {"file", "eox"}
  BY <1>1 DEF MkByte, FileByte, Byte, Sources, File
<1>5. file.cancelled => file.eox
  BY <1>1 DEF FileDone
<1>6. ~file.cancelled => file.sent + 1 <= file.size
  BY <1>1 DEF FileDone, Inv, FileOpen, File
<1>7. line # <<>> => MayFollow(LastByte, b)
  <2>1. CASE Open("file")
    <3>1. LastByte = FileByte(file.sent) /\ ~IsLast(LastByte)
      BY <1>1, <2>1 DEF Inv, FileOpen, Open
    <3>2. CASE file.cancelled
      BY <3>1, <3>2 DEF MayFollow, FileByte, MkByte
    <3>3. CASE ~file.cancelled
      <4>1. b = Following(LastByte)
        BY <1>1, <3>1, <3>3 DEF FileByte, MkByte, Following, File
      <4> QED BY <3>1, <4>1 DEF MayFollow
    <3> QED BY <3>2, <3>3
  <2>2. CASE ~Open("file")
    <3>1. line # <<>> => IsLast(LastByte)
      BY <1>2, <2>2, NothingOpen DEF Inv
    <3>2. ~file.cancelled => file.sent = 0
      <4>1. ASSUME ~file.cancelled, file.sent > 0 PROVE FALSE
        <5>1. line # <<>> /\ LastByte = FileByte(file.sent)
          BY <1>1, <4>1 DEF Inv, FileOpen
        <5>2. LastByte.at = file.sent /\ LastByte.of = file.size /\ LastByte.src = "file"
          BY <5>1 DEF FileByte, MkByte
        <5>3. file.sent # file.size
          BY <1>1, <1>6, <4>1 DEF File
        <5> QED BY <2>2, <5>1, <5>2, <5>3 DEF Open, IsLast
      <4> QED BY <1>1, <4>1 DEF File
    <3>3. b.at = 1
      BY <3>2 DEF FileByte, MkByte
    <3> QED BY <3>1, <3>3 DEF MayFollow
  <2> QED BY <2>1, <2>2
<1>8. line = <<>> => b.at = 1
  <2>1. line = <<>> => file.cancelled \/ file.sent = 0
    BY <1>1 DEF Inv, FileOpen, File
  <2> QED BY <2>1 DEF FileByte, MkByte
<1>9. NoMessageSplit' /\ line' \in Seq(Byte) /\ line' # <<>> /\ LastByte' = b
  <2> HIDE DEF b
  <2> QED BY <1>3, <1>4, <1>7, <1>8, SendKeeps DEF Inv
<1>10. /\ file' \in File /\ file'.owns = TRUE /\ file'.no = file.no /\ file'.size = file.size
       /\ file'.boundary = file.boundary /\ file'.cancelled = file.cancelled
       /\ file.cancelled => file'.sent = file.sent /\ file'.eox = FALSE
       /\ ~file.cancelled => file'.sent = file.sent + 1 /\ file'.eox = file.eox
  <2>1. CASE file.cancelled
    <3>1. file' = [file EXCEPT !.eox = FALSE]
      BY <2>1 DEF ServiceByte
    <3> QED BY <1>1, <2>1, <3>1 DEF File
  <2>2. CASE ~file.cancelled
    <3>1. file' = [file EXCEPT !.sent = @ + 1]
      BY <2>2 DEF ServiceByte
    <3> QED BY <1>1, <2>2, <3>1 DEF File
  <2> QED BY <2>1, <2>2
<1>11. Types'
  BY <1>1, <1>9, <1>10 DEF Inv, Types, ServiceByte, Pumps
<1>12. RingWhole'
  BY <1>1 DEF Inv, RingWhole, RingAt
<1>13. ~Open("command")' /\ ~Open("event")'
  BY <1>4, <1>9 DEF Open
<1>14. CommandOpen' /\ EventOpen' /\ PumpPlaces'
  BY <1>1, <1>2, <1>13 DEF Inv, CommandOpen, EventOpen, PumpPlaces, RingAt
<1>15. FileOpen'
  <2>1. IngressDrained'
    BY <1>1, <1>10 DEF IngressDrained, SizeBefore
  <2>2. /\ file'.sent <= file'.size /\ 0 < file'.size /\ (file'.eox => file'.cancelled)
        /\ rtRead' <= file'.boundary /\ file'.boundary <= rtWrite' /\ ~(rtRead' < file'.boundary)
    BY <1>1, <1>2, <1>6, <1>10 DEF Inv, FileOpen, File
  <2>3. CASE file.cancelled
    <3>1. b = MkByte("eox", file.no, 1, 1)
      BY <2>3
    <3>2. b.src = "eox" /\ IsLast(b)
      BY <3>1 DEF MkByte, IsLast
    <3>3. ~Open("file")' /\ ~Open("eox")'
      BY <1>9, <3>2 DEF Open
    <3> QED BY <1>10, <1>13, <2>1, <2>2, <2>3, <3>3 DEF FileOpen
  <2>4. CASE ~file.cancelled
    <3>1. b = FileByte(file.sent + 1)
      BY <2>4
    <3>2. LastByte' = FileByte(file.sent)'
      BY <1>9, <1>10, <2>4, <3>1 DEF FileByte
    <3>3. ~Open("eox")'
      BY <1>9, <3>1 DEF Open, FileByte, MkByte
    <3>4. file'.sent > 0
      BY <1>1, <1>10, <2>4 DEF File
    <3> QED BY <1>9, <1>10, <1>13, <2>1, <2>2, <2>4, <3>2, <3>3, <3>4 DEF FileOpen
  <2> QED BY <2>3, <2>4
<1> QED BY <1>9, <1>11, <1>12, <1>14, <1>15 DEF Inv

\* The transfer releases the wire.
LEMMA InvServiceEnd == Inv /\ ServiceEnd => Inv'
<1> SUFFICES ASSUME Inv, ServiceEnd PROVE Inv'
  OBVIOUS
<1> USE DEF eventVars, ringVars, timeVars
<1>1. /\ UNCHANGED <<line, ring, rtWrite, rtRead, copied, midiIn, cursor>>
      /\ pump' = "cpu" /\ FileDone /\ file \in File
  BY DEF Inv, Types, ServiceEnd
<1>2. file' \in File /\ file'.owns = FALSE
  BY <1>1 DEF ServiceEnd, File
<1>3. ~Open("file")
  <2>1. ASSUME Open("file") PROVE FALSE
    <3>1. LastByte = FileByte(file.sent) /\ (file.cancelled => file.eox) /\ ~IsLast(LastByte)
      BY <2>1 DEF Inv, FileOpen, Open
    <3>2. file.sent = file.size
      BY <1>1, <3>1 DEF FileDone
    <3> QED BY <3>1, <3>2 DEF FileByte, MkByte, IsLast
  <2> QED BY <2>1
<1>4. Types'
  BY <1>1, <1>2 DEF Inv, Types, ServiceEnd, Pumps
<1>5. NoMessageSplit' /\ RingWhole' /\ CommandOpen' /\ EventOpen' /\ PumpPlaces'
  BY <1>1 DEF Inv, NoMessageSplit, RingWhole, RingAt, CommandOpen, EventOpen, PumpPlaces, Open,
              LastByte
<1>6. FileOpen'
  BY <1>1, <1>2, <1>3 DEF Inv, FileOpen, Open, LastByte
<1> QED BY <1>4, <1>5, <1>6 DEF Inv

----------------------------------------------------------------------------
(***************************************************************************)
(* The theorem                                                             *)
(***************************************************************************)
LEMMA InvNext == Inv /\ [Next]_vars => Inv'
<1> SUFFICES ASSUME Inv, [Next]_vars PROVE Inv'
  OBVIOUS
<1>1. CASE Next
  BY <1>1, InvSchedule, InvRetime, InvCopy, InvPublish, InvStart, InvCancel, InvScheduled,
     InvMoves, InvRealtimeByte, InvGeneralByte, InvServiceByte, InvServiceEnd
     DEF Next, ProcessUC, PumpNext, ServiceNext
<1>2. CASE UNCHANGED vars
  <2>1. UNCHANGED core
    BY <1>2 DEF vars, core, eventVars, ringVars
  <2>2. Types' /\ PumpPlaces'
    BY <1>2 DEF Inv, Types, PumpPlaces, Open, LastByte, vars, eventVars, ringVars, timeVars
  <2> QED BY <2>1, <2>2, CoreUnchanged DEF Inv
<1> QED BY <1>1, <1>2

\* Whatever the capacities, the sizes and the number of events, commands and
\* transfers, every message reaches the wire in one piece.
THEOREM WireWhole == Spec => []NoMessageSplit
<1>1. Inv => NoMessageSplit
  BY DEF Inv
<1> QED BY InvInit, InvNext, <1>1, PTL DEF Spec

----------------------------------------------------------------------------
(***************************************************************************)
(* The type invariant.                                                     *)
(***************************************************************************)
\* The capacities hold: what the types say besides Types.
Bounds ==
    /\ Len(midiIn) <= MidiInCapacity
    /\ taken \in 0 .. Len(line) /\ Len(line) - taken <= PortCapacity
    /\ panel \in 0 .. PanelCapacity
    /\ latency \in Latencies /\ pads \in Seq(Nat)

LEMMA BoundsStep == ASSUME Inv, Bounds, [Next]_vars PROVE Bounds'
<1> USE DEF eventVars, ringVars, timeVars
<1>0. /\ line \in Seq(Byte) /\ Len(line) \in Nat /\ taken \in Nat /\ taken <= Len(line)
      /\ midiIn \in Seq([id : Nat, size : Nat \ {0}]) /\ Len(midiIn) \in Nat
      /\ PortCapacity \in Nat /\ MidiInCapacity \in Nat /\ PanelCapacity \in Nat
      /\ panel \in Nat /\ panel <= PanelCapacity
  BY CapacitiesAssumption DEF Inv, Types, Bounds
<1>1. latency' \in Latencies
  BY DEF Next, ProcessUC, PumpNext, ServiceNext, ScheduleMidi, RetimeMidi, PushCopy,
         PushPublish, StartTransfer, CancelTransfer, PumpScheduledMidi, PumpEnter,
         PumpRealtimeByte, PumpRealtimeEnd, PumpGeneralByte, PumpGeneralFull, ServiceByte,
         ServiceEnd, ServiceNothing, Exec, Bounds, vars
<1>2. Len(midiIn') <= MidiInCapacity
  <2>1. CASE PumpScheduledMidi
    <3>1. CASE midiIn' = midiIn
      BY <3>1 DEF Bounds
    <3>2. ASSUME NEW e \in scheduled, HasRoom(e), ~e.pad,
                 midiIn' = Append(midiIn, [id |-> e.id, size |-> e.size])
          PROVE  Len(midiIn') <= MidiInCapacity
      <4>1. Len(midiIn) < MidiInCapacity
        BY <3>2 DEF HasRoom
      <4>2. Len(midiIn') = Len(midiIn) + 1
        <5> DEFINE item == [id |-> e.id, size |-> e.size]
        <5>1. midiIn' = Append(midiIn, item)
          BY <3>2
        <5> HIDE DEF item
        <5> QED BY <1>0, <5>1
      <4> QED BY <1>0, <4>1, <4>2
    <3> QED BY <2>1, <3>1, <3>2 DEF PumpScheduledMidi
  <2>2. CASE PumpGeneralByte
    <3>1. midiIn # <<>>
      BY <2>2 DEF PumpGeneralByte, Inv, PumpPlaces, EventOpen
    <3>2. midiIn' = midiIn \/ midiIn' = Tail(midiIn)
      BY <2>2 DEF PumpGeneralByte
    <3> QED BY <1>0, <3>1, <3>2 DEF Bounds
  <2>3. CASE midiIn' = midiIn
    BY <2>3 DEF Bounds
  <2> QED BY <2>1, <2>2, <2>3
       DEF Next, ProcessUC, PumpNext, ServiceNext, ScheduleMidi, RetimeMidi, PushCopy,
           PushPublish, StartTransfer, CancelTransfer, PumpEnter, PumpRealtimeByte,
           PumpRealtimeEnd, PumpGeneralFull, ServiceByte, ServiceEnd, ServiceNothing, Exec, vars
<1>3. taken' \in 0 .. Len(line') /\ Len(line') - taken' <= PortCapacity
  <2>1. CASE taken' = taken /\ line' = line
    BY <2>1 DEF Bounds
  <2>2. ASSUME taken' = taken, ~PortFull, NEW b, Send(b)
        PROVE  taken' \in 0 .. Len(line') /\ Len(line') - taken' <= PortCapacity
    <3>1. Len(line') = Len(line) + 1
      BY <1>0, <2>2 DEF Send
    <3> QED BY <1>0, <2>2, <3>1 DEF PortFull
  <2>3. CASE line' = line /\ taken' = taken + 1 /\ taken < Len(line)
    BY <1>0, <2>3 DEF Bounds
  <2>4. CASE PumpRealtimeByte \/ PumpGeneralByte \/ ServiceByte
    BY <2>2, <2>4 DEF PumpRealtimeByte, PumpGeneralByte, ServiceByte
  <2>5. CASE \E reads \in BOOLEAN : Exec(reads)
    BY <2>1, <2>3, <2>5 DEF Exec
  <2> QED BY <2>1, <2>4, <2>5
       DEF Next, ProcessUC, PumpNext, ServiceNext, ScheduleMidi, RetimeMidi, PushCopy,
           PushPublish, StartTransfer, CancelTransfer, PumpScheduledMidi, PumpEnter,
           PumpRealtimeEnd, PumpGeneralFull, ServiceEnd, ServiceNothing, vars
<1>4. panel' \in 0 .. PanelCapacity /\ pads' \in Seq(Nat)
  <2>1. CASE PumpScheduledMidi
    <3>1. PICK e \in scheduled :
              \/ panel < PanelCapacity /\ panel' = panel + 1 /\ pads' = Append(pads, e.id)
              \/ panel' = panel /\ pads' = pads
      BY <2>1 DEF PumpScheduledMidi, HasRoom
    <3>2. e.id \in Nat /\ pads \in Seq(Nat)
      BY DEF Inv, Types, Entry, Bounds
    <3>3. pads' \in Seq(Nat)
      BY <3>1, <3>2
    <3>4. panel' \in 0 .. PanelCapacity
      BY <1>0, <3>1
    <3> QED BY <3>3, <3>4
  <2>2. CASE \E reads \in BOOLEAN : Exec(reads)
    <3>1. pads' = pads /\ (panel' = panel \/ (panel > 0 /\ panel' = panel - 1))
      BY <2>2 DEF Exec
    <3> QED BY <1>0, <3>1 DEF Bounds
  <2>3. CASE panel' = panel /\ pads' = pads
    BY <2>3 DEF Bounds
  <2> QED BY <2>1, <2>2, <2>3
       DEF Next, ProcessUC, PumpNext, ServiceNext, ScheduleMidi, RetimeMidi, PushCopy,
           PushPublish, StartTransfer, CancelTransfer, PumpEnter, PumpRealtimeByte,
           PumpRealtimeEnd, PumpGeneralByte, PumpGeneralFull, ServiceByte, ServiceEnd,
           ServiceNothing, vars
<1> QED BY <1>1, <1>2, <1>3, <1>4 DEF Bounds

\* Every queue keeps within its capacity and every variable its type, for any capacities,
\* sizes and number of messages (mdrealtimemidiqueue.h 22-28, mdscheduledmidi.h,
\* mdhardware.cpp 3631-3720).
THEOREM TypeCorrect == Spec => []TypeOK
<1>1. Init => Bounds
  BY CapacitiesAssumption DEF Init, Bounds
<1>2. Inv /\ Bounds => TypeOK
  <2> SUFFICES ASSUME Inv, Bounds PROVE TypeOK
    OBVIOUS
  <2>1. Types
    BY DEF Inv
  <2> QED BY <2>1 DEF Types, Bounds, TypeOK
<1>3. Inv /\ Bounds /\ [Next]_vars => Bounds'
  BY BoundsStep
<1> QED BY InvInit, InvNext, <1>1, <1>2, <1>3, PTL DEF Spec

----------------------------------------------------------------------------
(***************************************************************************)
(* The host's events.                                                      *)
(***************************************************************************)
\* d was accepted, its time has come, and nothing scheduled belongs before it.
Passed(d) ==
    /\ d \in 1 .. Len(accepted) /\ accepted[d].sample <= now
    /\ \A e \in scheduled : Before(d, e.id)

\* The heap's entries are events accepted, each at its position plus the latency.
HeapTrue ==
    /\ \A e \in scheduled :
          /\ e.id \in 1 .. Len(accepted) /\ e.sample = accepted[e.id].sample
          /\ e.cycle = Deadline(e.sample, latency)
    /\ \A e, f \in scheduled : e.id = f.id => e = f

\* What has left the heap has passed what is still in it.
HeapPassed ==
    /\ \A i \in DOMAIN midiIn : Passed(midiIn[i].id)
    /\ \A i \in DOMAIN pads : Passed(pads[i])
    /\ \A i \in DOMAIN line : line[i].src = "event" => Passed(line[i].no)

\* The ring and the pads are in order, and the wire is ahead of the ring but for the event
\* that is half sent.
QueuesOrdered ==
    /\ \A i, j \in DOMAIN midiIn : i < j => Before(midiIn[i].id, midiIn[j].id)
    /\ \A i \in DOMAIN line, j \in DOMAIN midiIn :
          line[i].src = "event" =>
            \/ Before(line[i].no, midiIn[j].id)
            \/ /\ j = 1 /\ line[i].no = midiIn[1].id
               /\ line[i].at <= cursor /\ line[i].of = midiIn[1].size
    /\ EventsInTimeOrder

Sent(n) == \E i \in DOMAIN line : line[i].src = "event" /\ IsLast(line[i]) /\ line[i].no = n

\* No event accepted is lost.
NoneLost ==
    \A n \in 1 .. Len(accepted) :
        \/ \E e \in scheduled : e.id = n
        \/ \E i \in DOMAIN midiIn : midiIn[i].id = n
        \/ Sent(n)
        \/ \E i \in DOMAIN pads : pads[i] = n

OrderInv == HeapTrue /\ HeapPassed /\ QueuesOrdered /\ NoneLost

----------------------------------------------------------------------------
(***************************************************************************)
(* The commands and the files.                                             *)
(***************************************************************************)
InRing == rtRead .. rtWrite + copied - 1

\* The numbers of the commands in the ring.
RingNumbered ==
    /\ \A p \in InRing : RingAt(p).at >= 1
    /\ \A p \in rtRead + 1 .. rtWrite + copied - 1 :
          RingAt(p).no = RingAt(p - 1).no + (IF IsLast(RingAt(p - 1)) THEN 1 ELSE 0)
    /\ \A p \in rtRead .. rtWrite - 1 : RingAt(p).no <= commands
    /\ \A p \in rtWrite .. rtWrite + copied - 1 : RingAt(p).no = commands + 1
    /\ rtRead < rtWrite => RingAt(rtWrite - 1).no = commands

\* The first n commands are on the wire, the last of them perhaps not whole.
SentUpTo(n) ==
    /\ {line[i].no : i \in Starts("command")} = 1 .. n
    /\ \A i \in DOMAIN line : line[i].src = "command" => line[i].no <= n
    /\ rtRead = rtWrite => n = commands
    /\ rtRead < rtWrite => RingAt(rtRead).no = n + (IF RingAt(rtRead).at = 1 THEN 1 ELSE 0)

CommandInv ==
    /\ RingNumbered
    /\ \A i, j \in Starts("command") : i < j => line[i].no < line[j].no
    /\ \E n \in 0 .. commands : SentUpTo(n)

\* Which commands a file waits for, and which wait for it.
FileInv ==
    /\ \A k \in DOMAIN files : files[k] <= commands
    /\ file.owns =>
        /\ file.no \in DOMAIN files
        /\ \A p \in InRing : RingAt(p).no <= files[file.no] <=> p < file.boundary
        /\ \A i \in DOMAIN line : line[i].src = "command" => line[i].no <= files[file.no]
    /\ \A j \in DOMAIN line :
        line[j].src \in {"file", "eox"} =>
            /\ line[j].no \in DOMAIN files
            /\ \A p \in InRing : RingAt(p).no > files[line[j].no]
    /\ BoundaryHeld

----------------------------------------------------------------------------
(* Steps that leave the host's events where they are.                      *)

\* What sending a byte does to the wire.
LEMMA SentByte ==
    ASSUME Types, NEW b \in Byte, Send(b)
    PROVE  /\ Len(line) \in Nat /\ DOMAIN line = 1 .. Len(line)
           /\ DOMAIN line' = 1 .. Len(line) + 1
           /\ \A i \in DOMAIN line : line'[i] = line[i]
           /\ line'[Len(line) + 1] = b
<1>1. line \in Seq(Byte) /\ line' = Append(line, b)
  BY DEF Types, Send
<1> QED BY <1>1

\* Positions of events are numbers.
LEMMA SampleType ==
    ASSUME Types
    PROVE  /\ Len(accepted) \in Nat
           /\ \A d \in 1 .. Len(accepted) : accepted[d].sample \in Nat
<1>1. accepted \in Seq([sample : Nat, pad : BOOLEAN])
  BY DEF Types
<1>2. \A d \in 1 .. Len(accepted) : accepted[d] \in [sample : Nat, pad : BOOLEAN]
  BY <1>1, ElementOfSeq
<1> QED BY <1>1, <1>2

LEMMA OrderStill ==
    ASSUME Types, OrderInv, UNCHANGED <<scheduled, midiIn, cursor, accepted, pads, latency>>,
           now' \in Nat, now <= now',
           \A i \in DOMAIN line : i \in DOMAIN line' /\ line'[i] = line[i],
           \A i \in DOMAIN line' : line'[i].src = "event" => i \in DOMAIN line
    PROVE  OrderInv'
<1>1. ASSUME NEW d, Passed(d) PROVE Passed(d)'
  <2>1. accepted[d].sample \in Nat /\ now \in Nat
    BY <1>1, SampleType DEF Passed, Types
  <2> QED BY <1>1, <2>1 DEF Passed, Before
<1>2. HeapTrue'
  BY DEF OrderInv, HeapTrue
<1>3. HeapPassed'
  BY <1>1 DEF OrderInv, HeapPassed
<1>4. \A a, b : Before(a, b)' <=> Before(a, b)
  BY DEF Before
<1>5. \A i : i \in Starts("event")' => i \in Starts("event")
  BY DEF Starts
<1>6. EventsInTimeOrder'
  BY <1>4, <1>5 DEF OrderInv, QueuesOrdered, EventsInTimeOrder, Starts
<1>7. QueuesOrdered'
  BY <1>4, <1>6 DEF OrderInv, QueuesOrdered
<1>8. ASSUME NEW n, Sent(n) PROVE Sent(n)'
  BY <1>8 DEF Sent
<1>9. NoneLost'
  BY <1>8 DEF OrderInv, NoneLost
<1> QED BY <1>2, <1>3, <1>7, <1>9 DEF OrderInv

\* The steps of the commands, the files, the firmware and the time.
LEMMA OrderOthers ==
    ASSUME Inv, OrderInv,
           \/ \E size \in CommandSizes : PushCopy(size)
           \/ PushPublish \/ CancelTransfer
           \/ \E size \in FileSizes : StartTransfer(size)
           \/ PumpEnter \/ PumpRealtimeByte \/ PumpRealtimeEnd \/ PumpGeneralFull
           \/ ServiceNext \/ \E reads \in BOOLEAN : Exec(reads)
    PROVE  OrderInv'
<1> USE DEF eventVars, ringVars, timeVars, ServiceNext
<1>1. Types /\ now \in Nat
  BY DEF Inv, Types
<1>2. UNCHANGED <<scheduled, midiIn, cursor, accepted, pads, latency>>
  BY DEF PushCopy, PushPublish, CancelTransfer, StartTransfer, PumpEnter, PumpRealtimeByte,
         PumpRealtimeEnd, PumpGeneralFull, ServiceByte, ServiceEnd, ServiceNothing, Exec
<1>3. now' \in Nat /\ now <= now'
  <2>1. now' = now \/ now' = now + 1
    BY DEF PushCopy, PushPublish, CancelTransfer, StartTransfer, PumpEnter, PumpRealtimeByte,
           PumpRealtimeEnd, PumpGeneralFull, ServiceByte, ServiceEnd, ServiceNothing, Exec
  <2> QED BY <1>1, <2>1
<1>4. line' = line \/ \E b \in Byte : b.src # "event" /\ Send(b)
  <2>1. CASE PumpRealtimeByte
    <3>1. RingAt(rtRead) \in Byte /\ Send(RingAt(rtRead))
      BY <1>1, <2>1, RingAtType DEF PumpRealtimeByte, RingAt, Types
    <3>2. rtRead \in rtRead .. rtWrite + copied - 1
      BY <1>1, <2>1 DEF PumpRealtimeByte, RealtimeDue, RealtimeEmpty, Types
    <3>3. RingAt(rtRead).src = "command"
      BY <3>2 DEF Inv, RingWhole
    <3> QED BY <3>1, <3>3
  <2>2. CASE ServiceByte
    <3>1. /\ file.no \in Nat /\ file.size \in Nat /\ file.sent + 1 \in Nat
      BY <1>1 DEF Types, File
    <3>2. MkByte("eox", file.no, 1, 1) \in Byte /\ FileByte(file.sent + 1) \in Byte
      BY <3>1 DEF MkByte, FileByte, Byte, Sources
    <3>3. Send(MkByte("eox", file.no, 1, 1)) \/ Send(FileByte(file.sent + 1))
      BY <2>2 DEF ServiceByte
    <3> QED BY <3>2, <3>3 DEF MkByte, FileByte
  <2> QED
    BY <2>1, <2>2
       DEF PushCopy, PushPublish, CancelTransfer, StartTransfer, PumpEnter, PumpRealtimeEnd,
           PumpGeneralFull, ServiceEnd, ServiceNothing, Exec
<1>5. /\ \A i \in DOMAIN line : i \in DOMAIN line' /\ line'[i] = line[i]
      /\ \A i \in DOMAIN line' : line'[i].src = "event" => i \in DOMAIN line
  <2>1. CASE line' = line
    BY <2>1
  <2>2. ASSUME NEW b \in Byte, b.src # "event", Send(b)
        PROVE  /\ \A i \in DOMAIN line : i \in DOMAIN line' /\ line'[i] = line[i]
               /\ \A i \in DOMAIN line' : line'[i].src = "event" => i \in DOMAIN line
    BY <1>1, <2>2, SentByte
  <2> QED BY <1>4, <2>1, <2>2
<1> QED BY <1>1, <1>2, <1>3, <1>5, OrderStill

----------------------------------------------------------------------------
(* An event is accepted; the latency changes.                              *)

LEMMA OrderSchedule ==
    ASSUME Inv, OrderInv, NEW size \in EventSizes, NEW pad \in BOOLEAN, NEW offset \in Offsets,
           ScheduleMidi(size, pad, offset)
    PROVE  OrderInv'
<1> USE DEF eventVars, ringVars, timeVars
<1>0. PICK id : id = Len(accepted) + 1
  OBVIOUS
<1> DEFINE new == [id |-> id, size |-> size, pad |-> pad,
                   cycle |-> Deadline(now + offset, latency), sample |-> now + offset]
<1>1. /\ UNCHANGED <<midiIn, cursor, pads, line, now, latency>>
      /\ scheduled' = scheduled \cup {new}
      /\ accepted' = Append(accepted, [sample |-> now + offset, pad |-> pad])
  BY <1>0 DEF ScheduleMidi
<1>2. /\ now \in Nat /\ offset \in Nat /\ Len(accepted) \in Nat
      /\ \A d \in 1 .. Len(accepted) : accepted[d].sample \in Nat
  BY SampleType, TimesAssumption DEF Inv, Types
<1>3. /\ id \in Nat /\ Len(accepted) < id
      /\ Len(accepted') = id
      /\ \A d \in 1 .. Len(accepted) : accepted'[d] = accepted[d]
      /\ accepted'[id] = [sample |-> now + offset, pad |-> pad]
  BY <1>0, <1>1 DEF Inv, Types
<1>4. accepted'[id].sample = now + offset
  BY <1>3
<1>5. new.id = id /\ new.sample = now + offset /\ new.cycle = Deadline(now + offset, latency)
  OBVIOUS
<1> HIDE DEF new
<1>6. \A a, b \in 1 .. Len(accepted) : Before(a, b)' <=> Before(a, b)
  BY <1>3 DEF Before
<1>7. ASSUME NEW d, Passed(d) PROVE Passed(d)'
  <2>1. d \in 1 .. Len(accepted) /\ accepted[d].sample <= now
    BY <1>7 DEF Passed
  <2>2. d \in 1 .. Len(accepted') /\ accepted'[d].sample <= now'
    BY <1>1, <1>2, <1>3, <2>1
  <2>3. Before(d, id)'
    <3>1. accepted'[d].sample <= accepted'[id].sample /\ d < id
      BY <1>1, <1>2, <1>3, <1>4, <2>1
    <3>2. accepted'[d].sample \in Nat /\ accepted'[id].sample \in Nat
      BY <1>2, <1>3, <1>4, <2>1
    <3> QED BY <3>1, <3>2 DEF Before
  <2>4. ASSUME NEW e \in scheduled PROVE Before(d, e.id)'
    <3>1. Before(d, e.id) /\ e.id \in 1 .. Len(accepted)
      BY <1>7 DEF Passed, OrderInv, HeapTrue
    <3> QED BY <1>6, <2>1, <3>1
  <2> QED BY <1>1, <1>5, <2>2, <2>3, <2>4 DEF Passed
<1>8. HeapTrue'
  <2>1. ASSUME NEW e \in scheduled
        PROVE  /\ e.id \in 1 .. Len(accepted) /\ e.id # id
               /\ e.sample = accepted'[e.id].sample /\ e.cycle = Deadline(e.sample, latency)
    BY <1>2, <1>3 DEF OrderInv, HeapTrue
  <2>2. \A e, f \in scheduled : e.id = f.id => e = f
    BY DEF OrderInv, HeapTrue
  <2>3. \A n \in 1 .. Len(accepted) : n \in 1 .. Len(accepted')
    BY <1>0, <1>2, <1>3
  <2>4. id \in 1 .. Len(accepted')
    BY <1>2, <1>3
  <2>5. \A e \in scheduled' :
          /\ e.id \in 1 .. Len(accepted') /\ e.sample = accepted'[e.id].sample
          /\ e.cycle = Deadline(e.sample, latency')
    BY <1>1, <1>4, <1>5, <2>1, <2>3, <2>4
  <2>6. \A e, f \in scheduled' : e.id = f.id => e = f
    BY <1>1, <1>5, <2>1, <2>2
  <2> QED BY <2>5, <2>6 DEF HeapTrue, Deadline
<1>9. HeapPassed'
  BY <1>1, <1>7 DEF OrderInv, HeapPassed
<1>10. QueuesOrdered'
  <2>1. /\ \A i \in DOMAIN midiIn : midiIn[i].id \in 1 .. Len(accepted)
        /\ \A i \in DOMAIN pads : pads[i] \in 1 .. Len(accepted)
        /\ \A i \in DOMAIN line : line[i].src = "event" => line[i].no \in 1 .. Len(accepted)
    BY DEF OrderInv, HeapPassed, Passed
  <2>2. EventsInTimeOrder'
    BY <1>1, <1>6, <2>1 DEF OrderInv, QueuesOrdered, EventsInTimeOrder, Starts
  <2> QED BY <1>1, <1>6, <2>1, <2>2 DEF OrderInv, QueuesOrdered
<1>11. NoneLost'
  <2>1. \A n : Sent(n)' <=> Sent(n)
    BY <1>1 DEF Sent
  <2>2. \A n \in 1 .. Len(accepted') : n \in 1 .. Len(accepted) \/ n = id
    BY <1>0, <1>2, <1>3
  <2> QED BY <1>1, <1>5, <2>1, <2>2 DEF OrderInv, NoneLost
<1> QED BY <1>8, <1>9, <1>10, <1>11 DEF OrderInv

LEMMA OrderRetime ==
    ASSUME Inv, OrderInv, NEW extra \in Latencies, RetimeMidi(extra)
    PROVE  OrderInv'
<1> USE DEF eventVars, ringVars, timeVars
<1> DEFINE retimed(e) == [e EXCEPT !.cycle = Deadline(e.sample, extra)]
<1>1. /\ UNCHANGED <<midiIn, cursor, pads, line, now, accepted>> /\ latency' = extra
      /\ scheduled' = {retimed(e) : e \in scheduled}
  BY DEF RetimeMidi
<1>2. ASSUME NEW e \in scheduled
      PROVE  /\ retimed(e).id = e.id /\ retimed(e).sample = e.sample
             /\ retimed(e).cycle = Deadline(e.sample, extra)
  BY DEF Inv, Types, Entry
<1> HIDE DEF retimed
<1>3. \A a, b : Before(a, b)' <=> Before(a, b)
  BY <1>1 DEF Before
<1>4. ASSUME NEW d, Passed(d) PROVE Passed(d)'
  BY <1>1, <1>2, <1>3, <1>4 DEF Passed
<1>5. HeapTrue'
  BY <1>1, <1>2 DEF OrderInv, HeapTrue, Deadline
<1>6. HeapPassed'
  BY <1>1, <1>4 DEF OrderInv, HeapPassed
<1>7. QueuesOrdered'
  BY <1>1, <1>3 DEF OrderInv, QueuesOrdered, EventsInTimeOrder, Starts
<1>8. NoneLost'
  <2>1. \A n : Sent(n)' <=> Sent(n)
    BY <1>1 DEF Sent
  <2>2. \A e \in scheduled : \E f \in scheduled' : f.id = e.id
    BY <1>1, <1>2
  <2> QED BY <1>1, <2>1, <2>2 DEF OrderInv, NoneLost
<1> QED BY <1>5, <1>6, <1>7, <1>8 DEF OrderInv

----------------------------------------------------------------------------
(* The front of the heap leaves it.                                        *)

LEMMA OrderScheduled == ASSUME Inv, TypeOK, OrderInv, PumpScheduledMidi PROVE OrderInv'
<1> USE DEF eventVars, ringVars, timeVars
<1>1. PICK e \in scheduled :
          /\ Ready(e) /\ scheduled' = scheduled \ {e}
          /\ \/ pads' = Append(pads, e.id) /\ midiIn' = midiIn
             \/ midiIn' = Append(midiIn, [id |-> e.id, size |-> e.size]) /\ pads' = pads
  BY DEF PumpScheduledMidi
<1>2. UNCHANGED <<cursor, line, now, latency, accepted>>
  BY DEF PumpScheduledMidi
<1>3. \A a, b : Before(a, b)' <=> Before(a, b)
  BY <1>2 DEF Before
<1>4. Passed(e.id)'
  <2>1. /\ e \in Entry /\ now \in Nat /\ latency \in Nat
        /\ e.id \in 1 .. Len(accepted) /\ e.sample = accepted[e.id].sample
        /\ e.cycle = e.sample + latency /\ e.cycle <= now
    BY <1>1 DEF Inv, Types, OrderInv, HeapTrue, Deadline, Ready
  <2>2. e.sample \in Nat
    BY <2>1 DEF Entry
  <2>3. accepted[e.id].sample <= now
    BY <2>1, <2>2
  <2>4. ASSUME NEW f \in scheduled, f # e PROVE Before(e.id, f.id)
    <3>1. Later(f, e)
      BY <1>1, <2>4 DEF Ready
    <3>2. /\ f.id \in 1 .. Len(accepted) /\ f.sample = accepted[f.id].sample
          /\ f.cycle = f.sample + latency
      BY DEF OrderInv, HeapTrue, Deadline
    <3>3. f.sample \in Nat /\ f.id \in Nat
      BY <3>2 DEF Inv, Types, Entry
    <3>4. f.sample + latency > e.sample + latency => f.sample > e.sample
      BY <2>1, <2>2, <3>3
    <3>5. f.sample + latency = e.sample + latency => f.sample = e.sample
      BY <2>1, <2>2, <3>3
    <3>6. \/ f.sample > e.sample
          \/ f.sample = e.sample /\ f.id > e.id
      BY <2>1, <3>1, <3>2, <3>4, <3>5 DEF Later
    <3> QED BY <2>1, <2>2, <3>2, <3>3, <3>6 DEF Before
  <2>5. \A f \in scheduled' : Before(e.id, f.id)'
    BY <1>1, <1>3, <2>4
  <2> QED BY <1>2, <2>1, <2>3, <2>5 DEF Passed
<1>5. ASSUME NEW d, Passed(d) PROVE Passed(d)' /\ Before(d, e.id)
  BY <1>1, <1>2, <1>3, <1>5 DEF Passed
<1>6. HeapTrue'
  BY <1>1, <1>2 DEF OrderInv, HeapTrue, Deadline
<1>7. \A n : Sent(n)' <=> Sent(n)
  BY <1>2 DEF Sent
<1>8. NoneLost' /\ HeapPassed' /\ QueuesOrdered'
  <2>1. CASE pads' = Append(pads, e.id) /\ midiIn' = midiIn
    <3>1. /\ Len(pads) \in Nat /\ DOMAIN pads = 1 .. Len(pads)
          /\ DOMAIN pads' = 1 .. Len(pads) + 1
          /\ \A i \in DOMAIN pads : pads'[i] = pads[i]
          /\ pads'[Len(pads) + 1] = e.id
      <4>1. pads \in Seq(Nat) /\ scheduled \subseteq Entry
        BY DEF TypeOK
      <4>2. e.id \in Nat
        BY <1>1, <4>1 DEF Entry
      <4> QED BY <2>1, <4>1, <4>2
    <3>2. HeapPassed'
      BY <1>2, <1>4, <1>5, <2>1, <3>1 DEF OrderInv, HeapPassed
    <3>3. \A i, j \in DOMAIN pads' : i < j => Before(pads'[i], pads'[j])
      <4> SUFFICES ASSUME NEW i \in DOMAIN pads', NEW j \in DOMAIN pads', i < j
                   PROVE  Before(pads'[i], pads'[j])
        OBVIOUS
      <4>1. i \in DOMAIN pads
        BY <3>1
      <4>2. CASE j \in DOMAIN pads
        BY <3>1, <4>1, <4>2 DEF OrderInv, QueuesOrdered, EventsInTimeOrder
      <4>3. CASE j \notin DOMAIN pads
        <5>1. Passed(pads[i]) /\ pads'[i] = pads[i] /\ pads'[j] = e.id
          BY <3>1, <4>1, <4>3 DEF OrderInv, HeapPassed
        <5> QED BY <1>5, <5>1
      <4> QED BY <4>2, <4>3
    <3>4. QueuesOrdered'
      BY <1>2, <1>3, <2>1, <3>3 DEF OrderInv, QueuesOrdered, EventsInTimeOrder, Starts
    <3>5. /\ \A n : (\E i \in DOMAIN pads : pads[i] = n) => \E i \in DOMAIN pads' : pads'[i] = n
          /\ \E i \in DOMAIN pads' : pads'[i] = e.id
      BY <3>1
    <3>6. NoneLost'
      BY <1>1, <1>2, <1>7, <2>1, <3>5 DEF OrderInv, NoneLost
    <3> QED BY <3>2, <3>4, <3>6
  <2>2. CASE midiIn' = Append(midiIn, [id |-> e.id, size |-> e.size]) /\ pads' = pads
    <3>1. /\ Len(midiIn) \in Nat /\ DOMAIN midiIn = 1 .. Len(midiIn)
          /\ DOMAIN midiIn' = 1 .. Len(midiIn) + 1
          /\ \A i \in DOMAIN midiIn : midiIn'[i] = midiIn[i]
          /\ midiIn'[Len(midiIn) + 1].id = e.id
      <4> DEFINE item == [id |-> e.id, size |-> e.size]
      <4>1. item.id = e.id
        OBVIOUS
      <4>2. midiIn \in Seq([id : Nat, size : Nat \ {0}]) /\ midiIn' = Append(midiIn, item)
        BY <2>2 DEF Inv, Types
      <4> HIDE DEF item
      <4> QED BY <4>1, <4>2
    <3>2. HeapPassed'
      BY <1>2, <1>4, <1>5, <2>2, <3>1 DEF OrderInv, HeapPassed
    <3>3. \A i, j \in DOMAIN midiIn' : i < j => Before(midiIn'[i].id, midiIn'[j].id)
      <4> SUFFICES ASSUME NEW i \in DOMAIN midiIn', NEW j \in DOMAIN midiIn', i < j
                   PROVE  Before(midiIn'[i].id, midiIn'[j].id)
        OBVIOUS
      <4>1. i \in DOMAIN midiIn
        BY <3>1
      <4>2. CASE j \in DOMAIN midiIn
        BY <3>1, <4>1, <4>2 DEF OrderInv, QueuesOrdered
      <4>3. CASE j \notin DOMAIN midiIn
        <5>1. Passed(midiIn[i].id) /\ midiIn'[i] = midiIn[i] /\ midiIn'[j].id = e.id
          BY <3>1, <4>1, <4>3 DEF OrderInv, HeapPassed
        <5> QED BY <1>5, <5>1
      <4> QED BY <4>2, <4>3
    <3>4. ASSUME NEW i \in DOMAIN line, NEW j \in DOMAIN midiIn', line[i].src = "event"
          PROVE  \/ Before(line[i].no, midiIn'[j].id)
                 \/ /\ j = 1 /\ line[i].no = midiIn'[1].id
                    /\ line[i].at <= cursor /\ line[i].of = midiIn'[1].size
      <4>1. CASE j \in DOMAIN midiIn
        BY <3>1, <3>4, <4>1 DEF OrderInv, QueuesOrdered
      <4>2. CASE j \notin DOMAIN midiIn
        <5>1. Passed(line[i].no) /\ midiIn'[j].id = e.id
          BY <3>1, <3>4, <4>2 DEF OrderInv, HeapPassed
        <5> QED BY <1>5, <5>1
      <4> QED BY <4>1, <4>2
    <3>5. QueuesOrdered'
      BY <1>2, <1>3, <2>2, <3>3, <3>4 DEF OrderInv, QueuesOrdered, EventsInTimeOrder, Starts
    <3>6. /\ \A n : (\E i \in DOMAIN midiIn : midiIn[i].id = n) =>
                        \E i \in DOMAIN midiIn' : midiIn'[i].id = n
          /\ \E i \in DOMAIN midiIn' : midiIn'[i].id = e.id
      BY <3>1
    <3>7. NoneLost'
      BY <1>1, <1>2, <1>7, <2>2, <3>6 DEF OrderInv, NoneLost
    <3> QED BY <3>2, <3>5, <3>7
  <2> QED BY <1>1, <2>1, <2>2
<1> QED BY <1>6, <1>8 DEF OrderInv

----------------------------------------------------------------------------
(* The next byte of the front of m_midiIn.                                 *)

\* The front of a queue that is not empty, and what is left without it.
LEMMA Front ==
    ASSUME NEW S, NEW q \in Seq(S), q # <<>>
    PROVE  /\ Len(q) \in Nat /\ DOMAIN q = 1 .. Len(q) /\ 1 \in DOMAIN q
           /\ Head(q) = q[1] /\ q[1] \in S
           /\ DOMAIN Tail(q) = 1 .. Len(q) - 1
           /\ \A j \in DOMAIN Tail(q) : /\ j + 1 \in DOMAIN q /\ Tail(q)[j] = q[j + 1]
                                        /\ 1 < j + 1
           /\ \A j \in DOMAIN q : j = 1 \/ j - 1 \in DOMAIN Tail(q)
  OBVIOUS

LEMMA OrderGeneralByte == ASSUME Inv, OrderInv, PumpGeneralByte PROVE OrderInv'
<1> USE DEF eventVars, ringVars, timeVars
<1>1. PICK front : front = Head(midiIn)
  OBVIOUS
<1>2. PICK b : b = MkByte("event", front.id, cursor + 1, front.size)
  OBVIOUS
<1>3. PICK n : n = Len(line) + 1
  OBVIOUS
<1>4. /\ UNCHANGED <<scheduled, accepted, pads, now, latency>> /\ Send(b)
      /\ \/ cursor + 1 < front.size /\ cursor' = cursor + 1 /\ midiIn' = midiIn
         \/ ~(cursor + 1 < front.size) /\ cursor' = 0 /\ midiIn' = Tail(midiIn)
  BY <1>1, <1>2 DEF PumpGeneralByte
<1>5. /\ midiIn # <<>> /\ midiIn \in Seq([id : Nat, size : Nat \ {0}]) /\ cursor \in Nat
      /\ cursor # 0 => cursor < front.size
  BY <1>1, <1>4 DEF PumpGeneralByte, Inv, Types, PumpPlaces, EventOpen
<1>6. /\ Len(midiIn) \in Nat /\ DOMAIN midiIn = 1 .. Len(midiIn) /\ 1 \in DOMAIN midiIn
      /\ front = midiIn[1] /\ front \in [id : Nat, size : Nat \ {0}]
  <2>1. /\ Len(midiIn) \in Nat /\ DOMAIN midiIn = 1 .. Len(midiIn) /\ 1 \in DOMAIN midiIn
        /\ Head(midiIn) = midiIn[1] /\ midiIn[1] \in [id : Nat, size : Nat \ {0}]
    BY <1>5, Front
  <2> QED BY <1>1, <2>1
<1>7. cursor < front.size /\ front.id \in Nat /\ front.size \in Nat
  BY <1>5, <1>6
<1>8. /\ b \in Byte /\ b.src = "event" /\ b.no = front.id /\ b.at = cursor + 1
      /\ b.of = front.size
  BY <1>2, <1>5, <1>7 DEF MkByte, Byte, Sources
<1>9. /\ DOMAIN line = 1 .. Len(line) /\ DOMAIN line' = 1 .. n /\ n \in Nat /\ n \in 1 .. n
      /\ \A i \in DOMAIN line : i < n /\ line'[i] = line[i]
      /\ line'[n] = b /\ \A i \in DOMAIN line' : i \in DOMAIN line \/ i = n
  BY <1>3, <1>4, <1>8, SentByte DEF Inv
<1>10. /\ \A a, c : Before(a, c)' <=> Before(a, c)
       /\ \A d : Passed(d)' <=> Passed(d)
  BY <1>4 DEF Before, Passed
<1>11. Passed(front.id)
  BY <1>6 DEF OrderInv, HeapPassed
<1>12. /\ \A i \in DOMAIN line' : line'[i].src = "event" => Passed(line'[i].no)
       /\ \A i \in DOMAIN pads : Passed(pads[i])
  BY <1>8, <1>9, <1>11 DEF OrderInv, HeapPassed
<1>13. EventsInTimeOrder'
  <2>1. ASSUME NEW i \in DOMAIN line, line[i].src = "event", line[i].at = 1, cursor = 0
        PROVE  Before(line[i].no, front.id)
    BY <1>6, <2>1 DEF OrderInv, QueuesOrdered
  <2>2. ASSUME NEW i \in Starts("event")', NEW j \in Starts("event")', i < j
        PROVE  Before(line'[i].no, line'[j].no)
    <3>1. i \in DOMAIN line /\ line[i].src = "event" /\ line[i].at = 1 /\ line'[i] = line[i]
      BY <1>9, <2>2 DEF Starts
    <3>2. CASE j \in DOMAIN line
      BY <1>9, <2>2, <3>1, <3>2 DEF OrderInv, QueuesOrdered, EventsInTimeOrder, Starts
    <3>3. CASE j = n
      <4>1. b.at = 1
        BY <1>9, <2>2, <3>3 DEF Starts
      <4>2. cursor = 0
        BY <1>5, <1>8, <4>1
      <4> QED BY <1>8, <1>9, <2>1, <3>1, <3>3, <4>2
    <3> QED BY <1>9, <3>2, <3>3 DEF Starts
  <2>3. \A i, j \in DOMAIN pads : i < j => Before(pads[i], pads[j])
    BY DEF OrderInv, QueuesOrdered, EventsInTimeOrder
  <2> QED BY <1>4, <1>10, <2>2, <2>3 DEF EventsInTimeOrder
<1>14. HeapTrue'
  BY <1>4 DEF OrderInv, HeapTrue, Deadline
<1>15. ASSUME NEW m, Sent(m) PROVE Sent(m)'
  BY <1>9, <1>15 DEF Sent
<1>16. CASE cursor' = cursor + 1 /\ midiIn' = midiIn
  <2>1. HeapPassed'
    BY <1>4, <1>10, <1>12, <1>16 DEF OrderInv, HeapPassed
  <2>2. ASSUME NEW i \in DOMAIN line', NEW j \in DOMAIN midiIn, line'[i].src = "event"
        PROVE  \/ Before(line'[i].no, midiIn[j].id)
               \/ /\ j = 1 /\ line'[i].no = midiIn[1].id
                  /\ line'[i].at <= cursor + 1 /\ line'[i].of = midiIn[1].size
    <3>1. CASE i \in DOMAIN line
      <4>1. \/ Before(line[i].no, midiIn[j].id)
            \/ /\ j = 1 /\ line[i].no = midiIn[1].id
               /\ line[i].at <= cursor /\ line[i].of = midiIn[1].size
        BY <1>9, <2>2, <3>1 DEF OrderInv, QueuesOrdered
      <4>2. line[i].at \in Nat
        <5>1. line[i] \in Byte
          BY <3>1 DEF Inv, Types
        <5> QED BY <5>1 DEF Byte
      <4> QED BY <1>5, <1>9, <3>1, <4>1, <4>2
    <3>2. CASE i = n
      <4>1. j = 1 \/ 1 < j
        BY <1>6
      <4>2. 1 < j => Before(midiIn[1].id, midiIn[j].id)
        BY <1>6 DEF OrderInv, QueuesOrdered
      <4> QED BY <1>5, <1>6, <1>8, <1>9, <3>2, <4>1, <4>2
    <3> QED BY <1>9, <3>1, <3>2
  <2>3. QueuesOrdered'
    BY <1>10, <1>13, <1>16, <2>2 DEF OrderInv, QueuesOrdered
  <2>4. NoneLost'
    BY <1>4, <1>15, <1>16 DEF OrderInv, NoneLost
  <2> QED BY <1>14, <2>1, <2>3, <2>4 DEF OrderInv
<1>17. CASE ~(cursor + 1 < front.size) /\ cursor' = 0 /\ midiIn' = Tail(midiIn)
  <2>1. /\ DOMAIN midiIn' = 1 .. Len(midiIn) - 1
        /\ \A j \in DOMAIN midiIn' : /\ j + 1 \in DOMAIN midiIn /\ midiIn'[j] = midiIn[j + 1]
                                     /\ 1 < j + 1
        /\ \A j \in DOMAIN midiIn : j = 1 \/ j - 1 \in DOMAIN midiIn'
    BY <1>5, <1>17, Front
  <2>2. HeapPassed'
    BY <1>4, <1>10, <1>12, <2>1 DEF OrderInv, HeapPassed
  <2>3. ASSUME NEW i \in DOMAIN midiIn', NEW j \in DOMAIN midiIn', i < j
        PROVE  Before(midiIn'[i].id, midiIn'[j].id)
    <3>1. i + 1 \in DOMAIN midiIn /\ j + 1 \in DOMAIN midiIn /\ i + 1 < j + 1
      BY <2>1, <2>3
    <3> QED BY <2>1, <3>1 DEF OrderInv, QueuesOrdered
  <2>4. ASSUME NEW i \in DOMAIN line', NEW j \in DOMAIN midiIn', line'[i].src = "event"
        PROVE  Before(line'[i].no, midiIn'[j].id)
    <3>1. j + 1 \in DOMAIN midiIn /\ midiIn'[j] = midiIn[j + 1] /\ 1 < j + 1
      BY <2>1
    <3>2. CASE i \in DOMAIN line
      <4>1. j + 1 # 1
        BY <1>6, <3>1
      <4> QED BY <1>9, <2>4, <3>1, <3>2, <4>1 DEF OrderInv, QueuesOrdered
    <3>3. CASE i = n
      <4>1. Before(midiIn[1].id, midiIn[j + 1].id)
        BY <1>6, <3>1 DEF OrderInv, QueuesOrdered
      <4> QED BY <1>6, <1>8, <1>9, <3>1, <3>3, <4>1
    <3> QED BY <1>9, <3>2, <3>3
  <2>5. QueuesOrdered'
    BY <1>10, <1>13, <2>3, <2>4 DEF OrderInv, QueuesOrdered
  <2>6. Sent(front.id)'
    <3>1. cursor + 1 = front.size
      BY <1>5, <1>7, <1>17
    <3>2. IsLast(b)
      BY <1>8, <3>1 DEF IsLast
    <3>3. n \in DOMAIN line' /\ line'[n].src = "event" /\ IsLast(line'[n]) /\ line'[n].no = front.id
      BY <1>8, <1>9, <3>2
    <3> QED BY <3>3 DEF Sent
  <2>7. NoneLost'
    <3> SUFFICES ASSUME NEW m \in 1 .. Len(accepted)
                 PROVE  \/ \E e \in scheduled' : e.id = m
                        \/ \E i \in DOMAIN midiIn' : midiIn'[i].id = m
                        \/ Sent(m)'
                        \/ \E i \in DOMAIN pads' : pads'[i] = m
      BY <1>4 DEF NoneLost
    <3>1. ASSUME NEW j \in DOMAIN midiIn, midiIn[j].id = m
          PROVE  (\E i \in DOMAIN midiIn' : midiIn'[i].id = m) \/ Sent(m)'
      <4>1. CASE j = 1
        BY <1>6, <2>6, <3>1, <4>1
      <4>2. CASE j - 1 \in DOMAIN midiIn'
        <5>1. midiIn'[j - 1] = midiIn[j - 1 + 1] /\ j - 1 + 1 = j
          BY <1>6, <2>1, <4>2
        <5> QED BY <3>1, <4>2, <5>1
      <4> QED BY <2>1, <4>1, <4>2
    <3> QED BY <1>4, <1>15, <3>1 DEF OrderInv, NoneLost
  <2> QED BY <1>14, <2>2, <2>5, <2>7 DEF OrderInv
<1> QED BY <1>4, <1>16, <1>17

----------------------------------------------------------------------------
LEMMA OrderInit == Init => OrderInv
<1> SUFFICES ASSUME Init PROVE OrderInv
  OBVIOUS
<1>1. scheduled = {} /\ midiIn = <<>> /\ line = <<>> /\ pads = <<>> /\ accepted = <<>>
  BY DEF Init
<1> QED BY <1>1 DEF OrderInv, HeapTrue, HeapPassed, QueuesOrdered, EventsInTimeOrder, Starts,
                    NoneLost

LEMMA OrderStep == ASSUME Inv, TypeOK, OrderInv, [Next]_vars PROVE OrderInv'
<1>1. CASE Next
  BY <1>1, OrderSchedule, OrderRetime, OrderScheduled, OrderGeneralByte, OrderOthers
     DEF Next, ProcessUC, PumpNext
<1>2. CASE UNCHANGED vars
  <2>1. /\ UNCHANGED <<scheduled, midiIn, cursor, accepted, pads, latency, now, line>>
        /\ Types /\ now \in Nat
    BY <1>2 DEF vars, eventVars, timeVars, Inv, Types
  <2> QED BY <2>1, OrderStill
<1> QED BY <1>1, <1>2

\* The host's events are in one place each: the heap, m_midiIn, the wire or the panel.
LEMMA OrderKeeps == ASSUME Inv, OrderInv PROVE EventsKept
<1> DEFINE queued == {e.id : e \in scheduled}
           inRing == {midiIn[i].id : i \in DOMAIN midiIn}
           sent   == {line[i].no : i \in {k \in DOMAIN line : line[k].src = "event" /\ IsLast(line[k])}}
           padded == {pads[i] : i \in DOMAIN pads}
<1>1. \A d \in 1 .. Len(accepted) : ~Before(d, d)
  <2>1. \A d \in 1 .. Len(accepted) : accepted[d].sample \in Nat
    BY SampleType DEF Inv
  <2> QED BY <2>1, SampleType DEF Before, Inv
<1>2. \A d \in inRing \cup sent \cup padded : Passed(d)
  BY DEF OrderInv, HeapPassed
<1>3. queued \cup inRing \cup sent \cup padded = 1 .. Len(accepted)
  <2>1. \A d \in queued : d \in 1 .. Len(accepted)
    BY DEF OrderInv, HeapTrue
  <2>2. \A d \in inRing \cup sent \cup padded : d \in 1 .. Len(accepted)
    BY <1>2 DEF Passed
  <2>3. \A m \in 1 .. Len(accepted) : m \in queued \cup inRing \cup sent \cup padded
    BY DEF OrderInv, NoneLost, Sent
  <2> QED BY <2>1, <2>2, <2>3
<1>4. queued \cap (inRing \cup sent \cup padded) = {}
  BY <1>1, <1>2 DEF Passed
<1>5. ASSUME NEW i \in DOMAIN line, line[i].src = "event", IsLast(line[i]),
             NEW j \in DOMAIN midiIn, line[i].no = midiIn[j].id
      PROVE  FALSE
  <2>1. Passed(line[i].no)
    BY <1>5 DEF OrderInv, HeapPassed
  <2>2. ~Before(line[i].no, midiIn[j].id)
    BY <1>1, <1>5, <2>1 DEF Passed
  <2>3. line[i].at <= cursor /\ line[i].of = midiIn[1].size /\ 1 \in DOMAIN midiIn
    BY <1>5, <2>2 DEF OrderInv, QueuesOrdered
  <2>4. /\ midiIn \in Seq([id : Nat, size : Nat \ {0}]) /\ midiIn # <<>>
        /\ line[i] \in Byte /\ cursor \in Nat
    BY <2>3 DEF Inv, Types
  <2>5. Head(midiIn) = midiIn[1] /\ midiIn[1].size \in Nat \ {0}
    <3>1. midiIn[1] \in [id : Nat, size : Nat \ {0}] /\ Head(midiIn) = midiIn[1]
      BY <2>4, Front
    <3> QED BY <3>1
  <2>6. cursor < midiIn[1].size
    BY <2>4, <2>5 DEF Inv, EventOpen
  <2> QED BY <1>5, <2>3, <2>4, <2>5, <2>6 DEF IsLast, Byte
<1>6. inRing \cap sent = {}
  BY <1>5
<1> QED BY <1>3, <1>4, <1>6 DEF EventsKept

\* The host's events cross in the order of their positions in the host's time, whatever the
\* latency does under way (Hardware::retimeMidi, mdhardware.cpp 3620-3629, and
\* pumpScheduledMidi, 3648-3688).
THEOREM EventsOrdered == Spec => []EventsInTimeOrder
<1>1. OrderInv => EventsInTimeOrder
  BY DEF OrderInv, QueuesOrdered
<1>2. Inv /\ TypeOK /\ OrderInv /\ [Next]_vars => OrderInv'
  BY OrderStep
<1> QED BY InvInit, InvNext, TypeCorrect, OrderInit, <1>1, <1>2, PTL DEF Spec

\* Full queues and transfers delay the host's events; none is lost or doubled
\* (mdhardware.cpp 3631-3688, 3722-3746).
THEOREM NoEventLost == Spec => []EventsKept
<1>1. Inv /\ OrderInv => EventsKept
  BY OrderKeeps
<1>2. Inv /\ TypeOK /\ OrderInv /\ [Next]_vars => OrderInv'
  BY OrderStep
<1> QED BY InvInit, InvNext, TypeCorrect, OrderInit, <1>1, <1>2, PTL DEF Spec

----------------------------------------------------------------------------
(***************************************************************************)
(* The commands in their order.                                            *)
(***************************************************************************)
LEMMA RingTypes ==
    ASSUME Inv
    PROVE  /\ Types /\ rtRead \in Nat /\ rtWrite \in Nat /\ copied \in Nat /\ commands \in Nat
           /\ rtRead <= rtWrite
           /\ \A p \in Nat : /\ RingAt(p) \in Byte
                             /\ RingAt(p).no \in Nat /\ RingAt(p).at \in Nat
<1>1. Types
  BY DEF Inv
<1>2. \A p \in Nat : RingAt(p) \in Byte
  BY <1>1, RingAtType
<1> QED BY <1>1, <1>2 DEF Types, Byte

LEMMA LineBytes ==
    ASSUME Types, NEW i \in DOMAIN line
    PROVE  line[i] \in Byte /\ line[i].no \in Nat /\ line[i].at \in Nat
<1>1. line[i] \in Byte
  BY DEF Types
<1> QED BY <1>1 DEF Byte

LEMMA CommandStill ==
    ASSUME CommandInv, UNCHANGED <<ring, rtWrite, rtRead, copied, commands>>,
           \A i \in DOMAIN line : i \in DOMAIN line' /\ line'[i] = line[i],
           \A i \in DOMAIN line' : line'[i].src = "command" => i \in DOMAIN line
    PROVE  CommandInv'
<1>1. \A p : RingAt(p)' = RingAt(p)
  BY DEF RingAt
<1>2. RingNumbered'
  BY <1>1 DEF CommandInv, RingNumbered, InRing, RingAt
<1>3. Starts("command")' = Starts("command")
  BY DEF Starts
<1>4. \A i, j \in Starts("command")' : i < j => line'[i].no < line'[j].no
  BY <1>3 DEF CommandInv, Starts
<1>5. ASSUME NEW n \in 0 .. commands, SentUpTo(n) PROVE SentUpTo(n)'
  <2>1. {line'[i].no : i \in Starts("command")'} = 1 .. n
    BY <1>3, <1>5 DEF SentUpTo, Starts
  <2> QED BY <1>5, <2>1 DEF SentUpTo, RingAt
<1> QED BY <1>2, <1>4, <1>5 DEF CommandInv

LEMMA CommandCopy ==
    ASSUME Inv, CommandInv, NEW size \in CommandSizes, PushCopy(size)
    PROVE  CommandInv'
<1> USE DEF eventVars, ringVars, timeVars
<1>1. /\ UNCHANGED <<line, rtWrite, rtRead, commands>> /\ copied = 0 /\ copied' = size
  BY DEF PushCopy
<1>2. /\ rtRead \in Nat /\ rtWrite \in Nat /\ commands \in Nat /\ rtRead <= rtWrite
      /\ size \in Nat \ {0} /\ Types
  BY <1>1, RingTypes, Copied
<1>3. \A p \in rtRead .. rtWrite - 1 : RingAt(p)' = RingAt(p)
  BY <1>1, <1>2, Copied
<1>4. ASSUME NEW p \in rtWrite .. rtWrite + size - 1
      PROVE  /\ RingAt(p)'.no = commands + 1 /\ RingAt(p)'.at = p - rtWrite + 1
             /\ RingAt(p)'.of = size
  <2>1. PICK k \in 1 .. size : k = p - rtWrite + 1 /\ p = rtWrite + k - 1
    BY <1>2
  <2>2. ring'[Cell(rtWrite + k - 1)] = CommandByte(commands + 1, size, k)
    BY <1>1, <1>2, Copied DEF RingAt
  <2>3. RingAt(p)' = CommandByte(commands + 1, size, k)
    BY <2>1, <2>2 DEF RingAt
  <2> QED BY <2>1, <2>3 DEF CommandByte, MkByte
<1>5. RingNumbered'
  <2>1. \A p \in rtRead .. rtWrite + size - 1 : RingAt(p)'.at >= 1
    <3> SUFFICES ASSUME NEW p \in rtRead .. rtWrite + size - 1 PROVE RingAt(p)'.at >= 1
      OBVIOUS
    <3>1. CASE p < rtWrite
      <4>1. p \in rtRead .. rtWrite - 1 /\ p \in InRing
        BY <1>1, <1>2, <3>1 DEF InRing
      <4> QED BY <1>3, <4>1 DEF CommandInv, RingNumbered
    <3>2. CASE ~(p < rtWrite)
      <4>1. p \in rtWrite .. rtWrite + size - 1
        BY <1>2, <3>2
      <4> QED BY <1>2, <1>4, <4>1
    <3> QED BY <3>1, <3>2
  <2>2. ASSUME NEW p \in rtRead + 1 .. rtWrite + size - 1
        PROVE  RingAt(p)'.no = RingAt(p - 1)'.no + (IF IsLast(RingAt(p - 1)') THEN 1 ELSE 0)
    <3>1. CASE p < rtWrite
      <4>1. /\ p \in rtRead .. rtWrite - 1 /\ p - 1 \in rtRead .. rtWrite - 1
            /\ p \in rtRead + 1 .. rtWrite + copied - 1
        BY <1>1, <1>2, <3>1
      <4>2. RingAt(p)' = RingAt(p) /\ RingAt(p - 1)' = RingAt(p - 1)
        BY <1>3, <4>1
      <4> QED BY <4>1, <4>2 DEF CommandInv, RingNumbered
    <3>2. CASE p = rtWrite
      <4>1. rtRead < rtWrite /\ p - 1 = rtWrite - 1 /\ p - 1 \in rtRead .. rtWrite - 1
        BY <1>2, <3>2
      <4>2. RingAt(p - 1)' = RingAt(p - 1)
        BY <1>3, <4>1
      <4>3. IsLast(RingAt(p - 1)) /\ RingAt(p - 1).no = commands
        BY <4>1 DEF CommandInv, RingNumbered, Inv, RingWhole
      <4>4. RingAt(p)'.no = commands + 1
        <5>1. p \in rtWrite .. rtWrite + size - 1
          BY <1>2, <3>2
        <5> QED BY <1>4, <5>1
      <4> QED BY <4>2, <4>3, <4>4
    <3>3. CASE p > rtWrite
      <4>1. p \in rtWrite .. rtWrite + size - 1 /\ p - 1 \in rtWrite .. rtWrite + size - 1
        BY <1>2, <3>3
      <4>2. /\ RingAt(p)'.no = commands + 1
            /\ RingAt(p - 1)'.no = commands + 1 /\ RingAt(p - 1)'.of = size
            /\ RingAt(p - 1)'.at = p - 1 - rtWrite + 1
        BY <1>4, <4>1
      <4>3. ~IsLast(RingAt(p - 1)')
        BY <1>2, <4>1, <4>2 DEF IsLast
      <4> QED BY <1>2, <4>2, <4>3
    <3> QED BY <1>2, <3>1, <3>2, <3>3
  <2>3. \A p \in rtRead .. rtWrite - 1 : RingAt(p)'.no <= commands
    BY <1>3 DEF CommandInv, RingNumbered
  <2>4. \A p \in rtWrite .. rtWrite + size - 1 : RingAt(p)'.no = commands + 1
    BY <1>4
  <2>5. rtRead < rtWrite => RingAt(rtWrite - 1)'.no = commands
    <3>1. rtRead < rtWrite => rtWrite - 1 \in rtRead .. rtWrite - 1
      BY <1>2
    <3>2. rtRead < rtWrite => RingAt(rtWrite - 1).no = commands
      BY DEF CommandInv, RingNumbered
    <3>3. \A p \in rtRead .. rtWrite - 1 : ring'[Cell(p)] = ring[Cell(p)]
      BY <1>3 DEF RingAt
    <3> QED BY <1>1, <3>1, <3>2, <3>3 DEF RingAt
  <2> QED BY <1>1, <2>1, <2>2, <2>3, <2>4, <2>5 DEF RingNumbered, InRing, RingAt
<1>6. ASSUME NEW n \in 0 .. commands, SentUpTo(n) PROVE SentUpTo(n)'
  <2>1. rtRead < rtWrite => rtRead \in rtRead .. rtWrite - 1
    BY <1>2
  <2>2. \A p \in rtRead .. rtWrite - 1 : ring'[Cell(p)] = ring[Cell(p)]
    BY <1>3 DEF RingAt
  <2>3. rtRead < rtWrite => ring'[Cell(rtRead)] = ring[Cell(rtRead)]
    BY <2>1, <2>2
  <2> QED BY <1>1, <1>6, <2>3 DEF SentUpTo, Starts, RingAt
<1> QED BY <1>1, <1>5, <1>6 DEF CommandInv, Starts

LEMMA CommandPublish == ASSUME Inv, CommandInv, PushPublish PROVE CommandInv'
<1> USE DEF eventVars, ringVars, timeVars
<1>1. /\ UNCHANGED <<line, ring, rtRead>> /\ copied > 0 /\ copied' = 0
      /\ rtWrite' = rtWrite + copied /\ commands' = commands + 1
  BY DEF PushPublish
<1>2. /\ rtRead \in Nat /\ rtWrite \in Nat /\ copied \in Nat /\ commands \in Nat
      /\ rtRead <= rtWrite
  BY RingTypes
<1>3. \A p : RingAt(p)' = RingAt(p)
  BY <1>1 DEF RingAt
<1>4. PICK w : w = rtWrite + copied
  OBVIOUS
<1>5. /\ w \in Nat /\ rtWrite < w /\ rtWrite' = w /\ w - 1 \in rtWrite .. rtWrite + copied - 1
      /\ rtRead .. rtWrite + copied - 1 = rtRead .. w - 1
      /\ rtRead + 1 .. rtWrite + copied - 1 = rtRead + 1 .. w - 1
      /\ w + 0 - 1 = w - 1 /\ w .. w + 0 - 1 = {}
  BY <1>1, <1>2, <1>4
<1>6. RingNumbered'
  <2>1. \A p \in rtRead .. w - 1 : RingAt(p).at >= 1
    BY <1>5 DEF CommandInv, RingNumbered, InRing
  <2>2. \A p \in rtRead + 1 .. w - 1 :
            RingAt(p).no = RingAt(p - 1).no + (IF IsLast(RingAt(p - 1)) THEN 1 ELSE 0)
    BY <1>5 DEF CommandInv, RingNumbered
  <2>3. \A p \in rtRead .. w - 1 : RingAt(p).no <= commands + 1
    <3> SUFFICES ASSUME NEW p \in rtRead .. w - 1 PROVE RingAt(p).no <= commands + 1
      OBVIOUS
    <3>1. p \in rtRead .. rtWrite - 1 \/ p \in rtWrite .. rtWrite + copied - 1
      BY <1>2, <1>4
    <3>2. p \in Nat
      BY <1>2, <1>5
    <3> QED BY <1>2, <3>1, <3>2, RingTypes DEF CommandInv, RingNumbered
  <2>4. RingAt(w - 1).no = commands + 1
    BY <1>5 DEF CommandInv, RingNumbered
  <2>5. ring'[Cell(rtWrite' - 1)] = RingAt(w - 1)
    BY <1>1, <1>5 DEF RingAt
  <2> QED BY <1>1, <1>3, <1>5, <2>1, <2>2, <2>3, <2>4, <2>5 DEF RingNumbered, InRing, RingAt
<1>7. ASSUME NEW n \in 0 .. commands, SentUpTo(n) PROVE SentUpTo(n)' /\ n \in 0 .. commands'
  <2>1. n \in 0 .. commands'
    BY <1>1, <1>2
  <2>2. RingAt(rtRead).no = n + (IF RingAt(rtRead).at = 1 THEN 1 ELSE 0)
    <3>1. CASE rtRead < rtWrite
      BY <1>7, <3>1 DEF SentUpTo
    <3>2. CASE rtRead = rtWrite
      <4>1. rtWrite \in rtWrite .. rtWrite + copied - 1
        BY <1>1, <1>2
      <4>2. n = commands /\ RingAt(rtWrite).no = commands + 1 /\ RingAt(rtWrite).at = 1
        BY <1>1, <1>7, <3>2, <4>1 DEF SentUpTo, CommandInv, RingNumbered, Inv, RingWhole
      <4> QED BY <3>2, <4>2
    <3> QED BY <1>2, <3>1, <3>2
  <2>3. rtRead # rtWrite'
    BY <1>2, <1>5
  <2>4. RingAt(rtRead)' = RingAt(rtRead)
    BY <1>1 DEF RingAt
  <2> QED BY <1>1, <1>7, <2>1, <2>2, <2>3, <2>4 DEF SentUpTo, Starts
<1> QED BY <1>1, <1>6, <1>7 DEF CommandInv, Starts

\* The byte an event or a transfer sends is a byte of its own source.
LEMMA EventByte ==
    ASSUME Inv, PumpGeneralByte
    PROVE  \E b \in Byte : b.src = "event" /\ Send(b)
<1>1. midiIn # <<>> /\ midiIn \in Seq([id : Nat, size : Nat \ {0}]) /\ cursor \in Nat
  BY DEF PumpGeneralByte, Inv, Types, PumpPlaces, EventOpen
<1>2. Head(midiIn) \in [id : Nat, size : Nat \ {0}]
  <2>1. Head(midiIn) = midiIn[1] /\ midiIn[1] \in [id : Nat, size : Nat \ {0}]
    BY <1>1, Front
  <2> QED BY <2>1
<1>3. Head(midiIn).id \in Nat /\ Head(midiIn).size \in Nat /\ cursor + 1 \in Nat
  BY <1>1, <1>2
<1> DEFINE b == MkByte("event", Head(midiIn).id, cursor + 1, Head(midiIn).size)
<1>4. b \in Byte /\ b.src = "event"
  BY <1>3 DEF MkByte, Byte, Sources
<1>5. Send(b)
  BY DEF PumpGeneralByte
<1> QED BY <1>4, <1>5

LEMMA TransferByte ==
    ASSUME Inv, ServiceByte
    PROVE  \E b \in Byte : /\ b.src \in {"file", "eox"} /\ b.no = file.no /\ Send(b)
<1>1. /\ file.no \in Nat /\ file.size \in Nat /\ file.sent + 1 \in Nat
  BY DEF Inv, Types, File
<1>2. MkByte("eox", file.no, 1, 1) \in Byte /\ FileByte(file.sent + 1) \in Byte
  BY <1>1 DEF MkByte, FileByte, Byte, Sources
<1>3. Send(MkByte("eox", file.no, 1, 1)) \/ Send(FileByte(file.sent + 1))
  BY DEF ServiceByte
<1> QED BY <1>2, <1>3 DEF MkByte, FileByte

\* The next byte of the ring goes onto the wire.
LEMMA CommandPop == ASSUME Inv, CommandInv, PumpRealtimeByte PROVE CommandInv'
<1> USE DEF eventVars, ringVars, timeVars
<1>1. PICK b : b = RingAt(rtRead)
  OBVIOUS
<1>2. PICK r : r = rtRead + 1
  OBVIOUS
<1>3. /\ Types /\ rtRead \in Nat /\ rtWrite \in Nat /\ copied \in Nat /\ commands \in Nat
      /\ b \in Byte /\ b.no \in Nat /\ b.at \in Nat
  BY <1>1, RingTypes
<1>4. /\ UNCHANGED <<ring, rtWrite, copied, commands>>
      /\ rtRead < rtWrite /\ rtRead' = r /\ Send(b) /\ r \in Nat /\ r - 1 = rtRead
      /\ rtRead \in rtRead .. rtWrite - 1 /\ rtRead \in rtRead .. rtWrite + copied - 1
  <2>1. /\ UNCHANGED <<ring, rtWrite, copied, commands>> /\ rtRead # rtWrite
        /\ rtRead' = r /\ Send(b)
    BY <1>1, <1>2 DEF PumpRealtimeByte, RealtimeDue, RealtimeEmpty, RingAt
  <2>2. rtRead < rtWrite
    BY <2>1 DEF Inv, Types
  <2> QED BY <1>2, <1>3, <2>1, <2>2
<1>5. /\ b.src = "command" /\ b.at >= 1 /\ b.no <= commands
  BY <1>1, <1>4 DEF Inv, RingWhole, CommandInv, RingNumbered, InRing
<1>6. /\ Len(line) \in Nat /\ DOMAIN line = 1 .. Len(line) /\ DOMAIN line' = 1 .. Len(line) + 1
      /\ \A i \in DOMAIN line : line'[i] = line[i]
      /\ line'[Len(line) + 1] = b
  BY <1>3, <1>4, SentByte
<1>7. PICK last : last = Len(line) + 1
  OBVIOUS
<1>8. /\ line'[last] = b /\ last \in DOMAIN line' /\ last \notin DOMAIN line
      /\ \A i \in DOMAIN line' : i \in DOMAIN line \/ i = last
      /\ \A i \in DOMAIN line : i \in DOMAIN line' /\ i < last
  BY <1>6, <1>7
<1>9. PICK n \in 0 .. commands : SentUpTo(n)
  BY DEF CommandInv
<1>10. b.no = n + (IF b.at = 1 THEN 1 ELSE 0)
  BY <1>1, <1>4, <1>9 DEF SentUpTo
<1>11. \A i \in DOMAIN line : line[i].no \in Nat
  BY <1>3, LineBytes
<1>12. \A i \in Starts("command")' :
            \/ i \in Starts("command") /\ line'[i].no = line[i].no /\ i < last
            \/ i = last /\ line'[i].no = n + 1 /\ b.at = 1
  BY <1>6, <1>8, <1>10 DEF Starts
<1>13. \A i \in Starts("command") : i \in Starts("command")' /\ line'[i].no = line[i].no
  BY <1>6, <1>8 DEF Starts
<1>14. b.at = 1 => last \in Starts("command")' /\ line'[last].no = n + 1
  BY <1>5, <1>8, <1>10 DEF Starts
<1>15. \A i \in Starts("command") : line[i].no \in 1 .. n
  BY <1>9 DEF SentUpTo
<1>16. {line'[i].no : i \in Starts("command")'} = 1 .. b.no
  <2>1. \A i \in Starts("command")' : line'[i].no \in 1 .. b.no
    BY <1>9, <1>10, <1>12, <1>15
  <2>2. ASSUME NEW m \in 1 .. b.no PROVE \E i \in Starts("command")' : line'[i].no = m
    <3>1. CASE m \in 1 .. n
      <4>1. PICK i \in Starts("command") : line[i].no = m
        BY <1>9, <3>1 DEF SentUpTo
      <4> QED BY <1>13, <4>1
    <3>2. CASE m \notin 1 .. n
      <4>1. m = n + 1 /\ b.at = 1
        BY <1>9, <1>10, <2>2, <3>2
      <4> QED BY <1>14, <4>1
    <3> QED BY <3>1, <3>2
  <2> QED BY <2>1, <2>2
<1>17. \A i, j \in Starts("command")' : i < j => line'[i].no < line'[j].no
  <2> SUFFICES ASSUME NEW i \in Starts("command")', NEW j \in Starts("command")', i < j
               PROVE  line'[i].no < line'[j].no
    OBVIOUS
  <2>1. i \in Starts("command") /\ line'[i].no = line[i].no
    <3>1. i \in DOMAIN line' /\ j \in DOMAIN line' /\ i # last
      BY <1>6, <1>7 DEF Starts
    <3> QED BY <1>12, <3>1
  <2>2. CASE j \in Starts("command")
    BY <1>13, <2>1, <2>2 DEF CommandInv
  <2>3. CASE line'[j].no = n + 1
    BY <1>9, <1>15, <2>1, <2>3
  <2> QED BY <1>12, <2>2, <2>3
<1>18. \A i \in DOMAIN line' : line'[i].src = "command" => line'[i].no <= b.no
  <2>1. \A i \in DOMAIN line : line[i].src = "command" => line[i].no <= b.no
    BY <1>9, <1>10, <1>11 DEF SentUpTo
  <2> QED BY <1>3, <1>6, <1>8, <2>1
<1>19. rtWrite = r => b.no = commands
  <2>1. rtWrite = r => rtWrite - 1 = rtRead
    BY <1>2, <1>3
  <2>2. RingAt(rtWrite - 1).no = commands
    BY <1>4 DEF CommandInv, RingNumbered
  <2> QED BY <1>1, <2>1, <2>2
<1>20. r < rtWrite => RingAt(r).no = b.no + (IF RingAt(r).at = 1 THEN 1 ELSE 0)
  <2> SUFFICES ASSUME r < rtWrite PROVE RingAt(r).no = b.no + (IF RingAt(r).at = 1 THEN 1 ELSE 0)
    OBVIOUS
  <2>1. r \in rtRead + 1 .. rtWrite + copied - 1
    BY <1>2, <1>3
  <2>2. RingAt(r).no = RingAt(r - 1).no + (IF IsLast(RingAt(r - 1)) THEN 1 ELSE 0)
    BY <2>1 DEF CommandInv, RingNumbered
  <2>3. MayFollow(RingAt(r - 1), RingAt(r))
    BY <2>1 DEF Inv, RingWhole
  <2>4. RingAt(r - 1) = b
    BY <1>1, <1>4
  <2>5. CASE IsLast(b)
    BY <1>5, <2>2, <2>3, <2>4, <2>5 DEF MayFollow
  <2>6. CASE ~IsLast(b)
    <3>1. RingAt(r) = Following(b)
      BY <1>5, <2>3, <2>4, <2>6 DEF MayFollow
    <3>2. RingAt(r).at = b.at + 1
      BY <1>3, <3>1 DEF Following, Byte
    <3> QED BY <1>3, <1>5, <2>2, <2>4, <2>6, <3>2
  <2> QED BY <2>5, <2>6
<1>21. /\ \A p : RingAt(p)' = RingAt(p) /\ RingAt(rtRead)' = RingAt(r)
  BY <1>4 DEF RingAt
<1>22. SentUpTo(b.no)'
  <2>1. ring'[Cell(r)] = RingAt(r)
    BY <1>4 DEF RingAt
  <2> HIDE DEF RingAt
  <2>2. (rtRead < rtWrite => RingAt(rtRead).no = b.no + (IF RingAt(rtRead).at = 1 THEN 1 ELSE 0))'
    BY <1>4, <1>20, <1>21
  <2>3. (\A i \in DOMAIN line : line[i].src = "command" => line[i].no <= b.no)'
    BY <1>18
  <2>4. ({line[i].no : i \in Starts("command")} = 1 .. b.no)'
    BY <1>16
  <2>5. (rtRead = rtWrite => b.no = commands)'
    BY <1>4, <1>19
  <2> QED BY <2>2, <2>3, <2>4, <2>5 DEF SentUpTo
<1>23. RingNumbered'
  <2>1. /\ \A p \in r .. rtWrite + copied - 1 : p \in InRing
        /\ \A p \in r + 1 .. rtWrite + copied - 1 : p \in rtRead + 1 .. rtWrite + copied - 1
        /\ \A p \in r .. rtWrite - 1 : p \in rtRead .. rtWrite - 1
        /\ r < rtWrite => rtRead < rtWrite
    BY <1>2, <1>3 DEF InRing
  <2>2. \A p \in r .. rtWrite + copied - 1 : RingAt(p).at >= 1
    BY <2>1 DEF CommandInv, RingNumbered
  <2>3. \A p \in r + 1 .. rtWrite + copied - 1 :
            RingAt(p).no = RingAt(p - 1).no + (IF IsLast(RingAt(p - 1)) THEN 1 ELSE 0)
    BY <2>1 DEF CommandInv, RingNumbered
  <2>4. \A p \in r .. rtWrite - 1 : RingAt(p).no <= commands
    BY <2>1 DEF CommandInv, RingNumbered
  <2>5. /\ \A p \in rtWrite .. rtWrite + copied - 1 : RingAt(p).no = commands + 1
        /\ r < rtWrite => RingAt(rtWrite - 1).no = commands
    BY <2>1 DEF CommandInv, RingNumbered
  <2>6. RingAt(rtWrite - 1)' = RingAt(rtWrite - 1)
    BY <1>4 DEF RingAt
  <2> QED BY <1>4, <1>21, <2>2, <2>3, <2>4, <2>5, <2>6 DEF RingNumbered, InRing
<1>24. b.no \in (0 .. commands)'
  BY <1>3, <1>4, <1>5
<1> QED BY <1>17, <1>22, <1>23, <1>24 DEF CommandInv

LEMMA CommandInit == Init => CommandInv
<1> SUFFICES ASSUME Init PROVE CommandInv
  OBVIOUS
<1>1. line = <<>> /\ rtRead = 0 /\ rtWrite = 0 /\ copied = 0 /\ commands = 0
  BY DEF Init
<1>2. Starts("command") = {} /\ DOMAIN line = {}
  BY <1>1 DEF Starts
<1>3. RingNumbered
  BY <1>1 DEF RingNumbered, InRing
<1>4. SentUpTo(0)
  BY <1>1, <1>2 DEF SentUpTo
<1> QED BY <1>1, <1>2, <1>3, <1>4 DEF CommandInv

\* The steps of the events, the files, the firmware and the time leave the commands.
LEMMA CommandOthers ==
    ASSUME Inv, CommandInv,
           \/ \E size \in EventSizes, pad \in BOOLEAN, offset \in Offsets :
                    ScheduleMidi(size, pad, offset)
           \/ \E extra \in Latencies : RetimeMidi(extra)
           \/ \E size \in FileSizes : StartTransfer(size)
           \/ CancelTransfer \/ PumpScheduledMidi \/ PumpEnter \/ PumpRealtimeEnd
           \/ PumpGeneralByte \/ PumpGeneralFull \/ ServiceNext
           \/ \E reads \in BOOLEAN : Exec(reads)
    PROVE  CommandInv'
<1> USE DEF eventVars, ringVars, timeVars, ServiceNext
<1>1. Types
  BY DEF Inv
<1>2. UNCHANGED <<ring, rtWrite, rtRead, copied, commands>>
  BY DEF ScheduleMidi, RetimeMidi, StartTransfer, CancelTransfer, PumpScheduledMidi, PumpEnter,
         PumpRealtimeEnd, PumpGeneralByte, PumpGeneralFull, ServiceByte, ServiceEnd,
         ServiceNothing, Exec
<1>3. line' = line \/ \E b \in Byte : b.src # "command" /\ Send(b)
  <2>1. CASE PumpGeneralByte
    BY <2>1, EventByte
  <2>2. CASE ServiceByte
    BY <2>2, TransferByte
  <2> QED
    BY <2>1, <2>2
       DEF ScheduleMidi, RetimeMidi, StartTransfer, CancelTransfer, PumpScheduledMidi, PumpEnter,
           PumpRealtimeEnd, PumpGeneralFull, ServiceEnd, ServiceNothing, Exec
<1>4. /\ \A i \in DOMAIN line : i \in DOMAIN line' /\ line'[i] = line[i]
      /\ \A i \in DOMAIN line' : line'[i].src = "command" => i \in DOMAIN line
  <2>1. CASE line' = line
    BY <2>1
  <2>2. ASSUME NEW b \in Byte, b.src # "command", Send(b)
        PROVE  /\ \A i \in DOMAIN line : i \in DOMAIN line' /\ line'[i] = line[i]
               /\ \A i \in DOMAIN line' : line'[i].src = "command" => i \in DOMAIN line
    BY <1>1, <2>2, SentByte
  <2> QED BY <1>3, <2>1, <2>2
<1> QED BY <1>2, <1>4, CommandStill

LEMMA CommandStep == ASSUME Inv, CommandInv, [Next]_vars PROVE CommandInv'
<1>1. CASE Next
  BY <1>1, CommandCopy, CommandPublish, CommandPop, CommandOthers
     DEF Next, ProcessUC, PumpNext
<1>2. CASE UNCHANGED vars
  <2>1. UNCHANGED <<ring, rtWrite, rtRead, copied, commands, line>>
    BY <1>2 DEF vars, ringVars
  <2> QED BY <2>1, CommandStill
<1> QED BY <1>1, <1>2

\* The commands cross in the order they were pushed, each once, and all of them when the
\* ring is empty (mdrealtimemidiqueue.h 20-51).
THEOREM CommandsOrdered == Spec => []CommandsInOrder
<1>1. CommandInv => CommandsInOrder
  BY DEF CommandInv, SentUpTo, CommandsInOrder, RealtimeEmpty
<1>2. Inv /\ CommandInv /\ [Next]_vars => CommandInv'
  BY CommandStep
<1> QED BY InvInit, InvNext, CommandInit, <1>1, <1>2, PTL DEF Spec

----------------------------------------------------------------------------
(***************************************************************************)
(* The boundary of a transfer.                                             *)
(***************************************************************************)
LEMMA FilesType ==
    ASSUME Types
    PROVE  /\ Len(files) \in Nat /\ DOMAIN files = 1 .. Len(files)
           /\ \A k \in DOMAIN files : files[k] \in Nat
BY DEF Types

\* A step that at most appends bytes of events, ends the transfer or changes what it sends.
LEMMA FileStill ==
    ASSUME FileInv, UNCHANGED <<ring, rtWrite, rtRead, copied, commands, files>>,
           file'.owns => file.owns /\ file'.no = file.no /\ file'.boundary = file.boundary,
           \A i \in DOMAIN line : i \in DOMAIN line' /\ line'[i] = line[i],
           \A i \in DOMAIN line' :
                line'[i].src \in {"command", "file", "eox"} => i \in DOMAIN line
    PROVE  FileInv'
<1>1. \A p : RingAt(p)' = RingAt(p)
  BY DEF RingAt
<1>2. InRing' = InRing
  BY DEF InRing
<1>3. \A k \in DOMAIN files' : files'[k] <= commands'
  BY DEF FileInv
<1>4. file'.owns =>
        /\ file'.no \in DOMAIN files'
        /\ \A p \in InRing' : RingAt(p)'.no <= files'[file'.no] <=> p < file'.boundary
        /\ \A i \in DOMAIN line' : line'[i].src = "command" => line'[i].no <= files'[file'.no]
  BY <1>1, <1>2 DEF FileInv
<1>5. \A j \in DOMAIN line' :
        line'[j].src \in {"file", "eox"} =>
            /\ line'[j].no \in DOMAIN files'
            /\ \A p \in InRing' : RingAt(p)'.no > files'[line'[j].no]
  BY <1>1, <1>2 DEF FileInv
<1>6. BoundaryHeld'
  BY DEF FileInv, BoundaryHeld
<1> QED BY <1>1, <1>2, <1>3, <1>4, <1>5, <1>6 DEF FileInv

LEMMA FileOthers ==
    ASSUME Inv, FileInv,
           \/ \E size \in EventSizes, pad \in BOOLEAN, offset \in Offsets :
                    ScheduleMidi(size, pad, offset)
           \/ \E extra \in Latencies : RetimeMidi(extra)
           \/ CancelTransfer \/ PumpScheduledMidi \/ PumpEnter \/ PumpRealtimeEnd
           \/ PumpGeneralByte \/ PumpGeneralFull \/ ServiceEnd \/ ServiceNothing
           \/ \E reads \in BOOLEAN : Exec(reads)
    PROVE  FileInv'
<1> USE DEF eventVars, ringVars, timeVars
<1>1. Types /\ file \in File
  BY DEF Inv, Types
<1>2. UNCHANGED <<ring, rtWrite, rtRead, copied, commands, files>>
  BY DEF ScheduleMidi, RetimeMidi, CancelTransfer, PumpScheduledMidi, PumpEnter,
         PumpRealtimeEnd, PumpGeneralByte, PumpGeneralFull, ServiceEnd, ServiceNothing, Exec
<1>3. file'.owns => file.owns /\ file'.no = file.no /\ file'.boundary = file.boundary
  <2>1. CASE CancelTransfer
    BY <1>1, <2>1 DEF CancelTransfer, File
  <2>2. CASE ServiceEnd
    BY <1>1, <2>2 DEF ServiceEnd, File
  <2>3. CASE file' = file
    BY <2>3
  <2> QED
    BY <2>1, <2>2, <2>3
       DEF ScheduleMidi, RetimeMidi, PumpScheduledMidi, PumpEnter, PumpRealtimeEnd,
           PumpGeneralByte, PumpGeneralFull, ServiceNothing, Exec
<1>4. line' = line \/ \E b \in Byte : b.src = "event" /\ Send(b)
  <2>1. CASE PumpGeneralByte
    BY <2>1, EventByte
  <2> QED
    BY <2>1
       DEF ScheduleMidi, RetimeMidi, CancelTransfer, PumpScheduledMidi, PumpEnter,
           PumpRealtimeEnd, PumpGeneralFull, ServiceEnd, ServiceNothing, Exec
<1>5. /\ \A i \in DOMAIN line : i \in DOMAIN line' /\ line'[i] = line[i]
      /\ \A i \in DOMAIN line' :
            line'[i].src \in {"command", "file", "eox"} => i \in DOMAIN line
  <2>1. CASE line' = line
    BY <2>1
  <2>2. ASSUME NEW b \in Byte, b.src = "event", Send(b)
        PROVE  /\ \A i \in DOMAIN line : i \in DOMAIN line' /\ line'[i] = line[i]
               /\ \A i \in DOMAIN line' :
                     line'[i].src \in {"command", "file", "eox"} => i \in DOMAIN line
    BY <1>1, <2>2, SentByte
  <2> QED BY <1>4, <2>1, <2>2
<1> QED BY <1>2, <1>3, <1>5, FileStill

LEMMA FileCopy ==
    ASSUME Inv, FileInv, NEW size \in CommandSizes, PushCopy(size)
    PROVE  FileInv'
<1> USE DEF eventVars, ringVars, timeVars
<1>1. /\ UNCHANGED <<line, rtWrite, rtRead, commands, file, files>> /\ copied = 0
      /\ copied' = size
  BY DEF PushCopy
<1>2. /\ rtRead \in Nat /\ rtWrite \in Nat /\ commands \in Nat /\ rtRead <= rtWrite
      /\ size \in Nat \ {0} /\ Types
  BY <1>1, RingTypes, Copied
<1>3. \A p \in rtRead .. rtWrite - 1 : p \in InRing /\ RingAt(p)' = RingAt(p)
  BY <1>1, <1>2, Copied DEF InRing
<1>4. \A p \in rtWrite .. rtWrite + size - 1 : RingAt(p)'.no = commands + 1
  <2> SUFFICES ASSUME NEW p \in rtWrite .. rtWrite + size - 1
               PROVE  RingAt(p)'.no = commands + 1
    OBVIOUS
  <2>1. PICK k \in 1 .. size : p = rtWrite + k - 1
    <3>1. p - rtWrite + 1 \in 1 .. size /\ p = rtWrite + (p - rtWrite + 1) - 1
      BY <1>2
    <3> QED BY <3>1
  <2>2. ring'[Cell(rtWrite + k - 1)] = CommandByte(commands + 1, size, k)
    BY <1>1, <1>2, Copied DEF RingAt
  <2>3. RingAt(p)' = CommandByte(commands + 1, size, k)
    BY <2>1, <2>2 DEF RingAt
  <2> QED BY <2>3 DEF CommandByte, MkByte
<1>5. \A p \in InRing' : p \in rtRead .. rtWrite - 1 \/ p \in rtWrite .. rtWrite + size - 1
  BY <1>1, <1>2 DEF InRing
<1>6. \A k \in DOMAIN files : files[k] \in Nat /\ files[k] <= commands
  BY <1>2, FilesType DEF FileInv
<1>7. ASSUME file.owns, NEW p \in InRing'
      PROVE  RingAt(p)'.no <= files[file.no] <=> p < file.boundary
  <2>1. file.no \in DOMAIN files /\ file.boundary \in Nat /\ file.boundary <= rtWrite
    BY <1>7 DEF FileInv, Inv, Types, File, FileOpen
  <2>2. CASE p \in rtRead .. rtWrite - 1
    BY <1>3, <1>7, <2>2 DEF FileInv
  <2>3. CASE p \in rtWrite .. rtWrite + size - 1
    <3>1. RingAt(p)'.no = commands + 1
      BY <1>4, <2>3
    <3>2. ~(p < file.boundary)
      BY <1>2, <2>1, <2>3
    <3>3. ~(commands + 1 <= files[file.no])
      BY <1>2, <1>6, <2>1
    <3> QED BY <3>1, <3>2, <3>3
  <2> QED BY <1>5, <2>2, <2>3
<1>8. ASSUME NEW j \in DOMAIN line, line[j].src \in {"file", "eox"}, NEW p \in InRing'
      PROVE  line[j].no \in DOMAIN files /\ RingAt(p)'.no > files[line[j].no]
  <2>1. line[j].no \in DOMAIN files
    BY <1>8 DEF FileInv
  <2>2. CASE p \in rtRead .. rtWrite - 1
    BY <1>3, <1>8, <2>1, <2>2 DEF FileInv
  <2>3. CASE p \in rtWrite .. rtWrite + size - 1
    <3>1. commands + 1 > files[line[j].no]
      BY <1>2, <1>6, <2>1
    <3> QED BY <1>4, <2>1, <2>3, <3>1
  <2> QED BY <1>5, <2>2, <2>3
<1>9. BoundaryHeld'
  BY <1>1 DEF FileInv, BoundaryHeld
<1>10. \A j \in DOMAIN line : line[j].src \in {"file", "eox"} => line[j].no \in DOMAIN files
  BY DEF FileInv
<1>11. file.owns => /\ file.no \in DOMAIN files
                    /\ \A i \in DOMAIN line : line[i].src = "command" => line[i].no <= files[file.no]
  BY DEF FileInv
<1> QED BY <1>1, <1>6, <1>7, <1>8, <1>9, <1>10, <1>11 DEF FileInv

LEMMA FilePublish == ASSUME Inv, FileInv, PushPublish PROVE FileInv'
<1> USE DEF eventVars, ringVars, timeVars
<1>1. /\ UNCHANGED <<line, ring, rtRead, file, files>> /\ copied' = 0
      /\ rtWrite' = rtWrite + copied /\ commands' = commands + 1
  BY DEF PushPublish
<1>2. /\ rtRead \in Nat /\ rtWrite \in Nat /\ copied \in Nat /\ commands \in Nat /\ Types
  BY RingTypes
<1>3. InRing' = InRing
  <2>1. rtWrite + copied + 0 - 1 = rtWrite + copied - 1
    BY <1>2
  <2> QED BY <1>1, <2>1 DEF InRing
<1>4. \A p : RingAt(p)' = RingAt(p)
  BY <1>1 DEF RingAt
<1>5. \A k \in DOMAIN files : files[k] <= commands + 1
  BY <1>2, FilesType DEF FileInv
<1>6. file.owns =>
        /\ file.no \in DOMAIN files
        /\ \A p \in InRing : RingAt(p).no <= files[file.no] <=> p < file.boundary
        /\ \A i \in DOMAIN line : line[i].src = "command" => line[i].no <= files[file.no]
  BY DEF FileInv
<1>7. \A j \in DOMAIN line :
        line[j].src \in {"file", "eox"} =>
            /\ line[j].no \in DOMAIN files
            /\ \A p \in InRing : RingAt(p).no > files[line[j].no]
  BY DEF FileInv
<1>8. BoundaryHeld'
  BY <1>1 DEF FileInv, BoundaryHeld
<1> HIDE DEF InRing, RingAt
<1> QED BY <1>1, <1>3, <1>4, <1>5, <1>6, <1>7, <1>8 DEF FileInv

\* A byte of a command that crosses while a transfer owns the wire is one from before it.
LEMMA FilePop == ASSUME Inv, FileInv, PumpRealtimeByte PROVE FileInv'
<1> USE DEF eventVars, ringVars, timeVars
<1>1. PICK b : b = RingAt(rtRead)
  OBVIOUS
<1>2. /\ Types /\ rtRead \in Nat /\ rtWrite \in Nat /\ copied \in Nat
      /\ b \in Byte /\ b.no \in Nat
  BY <1>1, RingTypes
<1>3. /\ UNCHANGED <<ring, rtWrite, copied, commands, file, files>> /\ rtRead # rtWrite
      /\ rtRead' = rtRead + 1 /\ Send(b)
  BY <1>1 DEF PumpRealtimeByte, RealtimeDue, RealtimeEmpty, RingAt
<1>4. rtRead \in InRing /\ \A p \in InRing' : p \in InRing
  <2>1. rtRead < rtWrite
    BY <1>3 DEF Inv, Types
  <2> QED BY <1>2, <1>3, <2>1 DEF InRing
<1>5. b.src = "command"
  BY <1>1, <1>4 DEF Inv, RingWhole, InRing
<1>6. \A p : RingAt(p)' = ring[Cell(p)] /\ RingAt(p) = ring[Cell(p)]
  BY <1>3 DEF RingAt
<1>7. /\ DOMAIN line = 1 .. Len(line) /\ Len(line) \in Nat
      /\ DOMAIN line' = 1 .. Len(line) + 1
      /\ \A i \in DOMAIN line : line'[i] = line[i]
      /\ line'[Len(line) + 1] = b
  BY <1>2, <1>3, SentByte
<1>8. PICK last : last = Len(line) + 1
  OBVIOUS
<1>9. /\ line'[last] = b /\ \A i \in DOMAIN line' : i \in DOMAIN line \/ i = last
      /\ \A i \in DOMAIN line : i < last /\ ~(last < i)
  BY <1>7, <1>8
<1>10. \A j \in DOMAIN line' : line'[j].src \in {"file", "eox"} => j \in DOMAIN line
  BY <1>5, <1>9
<1>11. \A j \in DOMAIN line : line[j].src \in {"file", "eox"} =>
            line[j].no \in DOMAIN files /\ ~(b.no <= files[line[j].no])
  <2> SUFFICES ASSUME NEW j \in DOMAIN line, line[j].src \in {"file", "eox"}
               PROVE  line[j].no \in DOMAIN files /\ ~(b.no <= files[line[j].no])
    OBVIOUS
  <2>1. line[j].no \in DOMAIN files /\ b.no > files[line[j].no]
    BY <1>1, <1>4 DEF FileInv
  <2> QED BY <1>2, <2>1, FilesType
<1>12. file.owns => b.no <= files[file.no]
  <2> SUFFICES ASSUME file.owns PROVE b.no <= files[file.no]
    OBVIOUS
  <2>1. pump = "before"
    BY DEF PumpRealtimeByte, Inv, PumpPlaces
  <2>2. rtRead < file.boundary
    BY <2>1 DEF PumpRealtimeByte, RealtimeDue, SizeBefore
  <2> QED BY <1>1, <1>4, <2>2 DEF FileInv
<1>13. BoundaryHeld'
  <2> SUFFICES ASSUME NEW i \in DOMAIN line', NEW j \in DOMAIN line', line'[i].src = "command",
                      line'[j].src \in {"file", "eox"}
               PROVE  line'[i].no <= files[line'[j].no] <=> i < j
    BY <1>3 DEF BoundaryHeld
  <2>1. j \in DOMAIN line /\ line'[j] = line[j]
    BY <1>7, <1>10
  <2>2. CASE i \in DOMAIN line
    BY <1>7, <2>1, <2>2 DEF FileInv, BoundaryHeld
  <2>3. CASE i = last
    BY <1>9, <1>11, <2>1, <2>3
  <2> QED BY <1>9, <2>2, <2>3
<1>14. file.owns =>
        /\ file.no \in DOMAIN files
        /\ \A p \in InRing' : ring[Cell(p)].no <= files[file.no] <=> p < file.boundary
        /\ \A i \in DOMAIN line' : line'[i].src = "command" => line'[i].no <= files[file.no]
  <2>1. file.owns =>
        /\ file.no \in DOMAIN files
        /\ \A p \in InRing' : ring[Cell(p)].no <= files[file.no] <=> p < file.boundary
    BY <1>4, <1>6 DEF FileInv
  <2>2. file.owns =>
            \A i \in DOMAIN line' : line'[i].src = "command" => line'[i].no <= files[file.no]
    BY <1>7, <1>9, <1>12 DEF FileInv
  <2> QED BY <2>1, <2>2
<1>15. \A j \in DOMAIN line' :
        line'[j].src \in {"file", "eox"} =>
            /\ line'[j].no \in DOMAIN files
            /\ \A p \in InRing' : ring[Cell(p)].no > files[line'[j].no]
  BY <1>4, <1>6, <1>7, <1>10 DEF FileInv
<1>16. \A k \in DOMAIN files : files[k] <= commands
  BY DEF FileInv
<1> QED BY <1>3, <1>6, <1>13, <1>14, <1>15, <1>16 DEF FileInv

\* A transfer starts with the commands published so far before it.
LEMMA FileStart ==
    ASSUME Inv, CommandInv, FileInv, NEW size \in FileSizes, StartTransfer(size)
    PROVE  FileInv'
<1> USE DEF eventVars, ringVars, timeVars
<1>1. PICK no : no = Len(files) + 1
  OBVIOUS
<1>2. /\ UNCHANGED <<line, ring, rtWrite, rtRead, copied, commands>>
      /\ files' = Append(files, commands)
  BY DEF StartTransfer
<1>3. /\ Types /\ rtRead \in Nat /\ rtWrite \in Nat /\ copied \in Nat /\ commands \in Nat
      /\ files \in Seq(Nat)
  BY RingTypes DEF Inv, Types
<1>4. /\ DOMAIN files' = 1 .. no /\ files'[no] = commands /\ no \in DOMAIN files'
      /\ \A k \in DOMAIN files : k \in DOMAIN files' /\ files'[k] = files[k]
      /\ \A k \in DOMAIN files' : k \in DOMAIN files \/ k = no
  BY <1>1, <1>2, <1>3
<1>5. file'.no = no /\ file'.boundary = rtWrite
  BY <1>1 DEF StartTransfer, NoFile
<1>6. InRing' = InRing /\ \A p : RingAt(p)' = RingAt(p)
  BY <1>2 DEF InRing, RingAt
<1>7. \A p \in InRing : RingAt(p).no <= commands <=> p < rtWrite
  <2> SUFFICES ASSUME NEW p \in InRing PROVE RingAt(p).no <= commands <=> p < rtWrite
    OBVIOUS
  <2>1. CASE p < rtWrite
    <3>1. p \in rtRead .. rtWrite - 1
      BY <1>3, <2>1 DEF InRing
    <3> QED BY <2>1, <3>1 DEF CommandInv, RingNumbered
  <2>2. CASE ~(p < rtWrite)
    <3>1. p \in rtWrite .. rtWrite + copied - 1
      BY <1>3, <2>2 DEF InRing
    <3>2. RingAt(p).no = commands + 1
      BY <3>1 DEF CommandInv, RingNumbered
    <3> QED BY <1>3, <2>2, <3>2
  <2> QED BY <2>1, <2>2
<1>8. \A i \in DOMAIN line : line[i].src = "command" => line[i].no <= commands
  <2>1. PICK n \in 0 .. commands : SentUpTo(n)
    BY DEF CommandInv
  <2> QED BY <1>3, <2>1, LineBytes DEF SentUpTo
<1>9. \A j \in DOMAIN line : line[j].src \in {"file", "eox"} =>
            /\ line[j].no \in DOMAIN files' /\ files'[line[j].no] = files[line[j].no]
            /\ \A p \in InRing : RingAt(p).no > files[line[j].no]
  BY <1>4 DEF FileInv
<1>10. BoundaryHeld'
  BY <1>2, <1>9 DEF FileInv, BoundaryHeld
<1>11. \A k \in DOMAIN files' : files'[k] <= commands
  BY <1>3, <1>4 DEF FileInv
<1>12. /\ \A p \in InRing : RingAt(p).no <= files'[no] <=> p < rtWrite
       /\ \A i \in DOMAIN line : line[i].src = "command" => line[i].no <= files'[no]
  BY <1>4, <1>7, <1>8
<1> HIDE DEF InRing, RingAt
<1> QED BY <1>2, <1>4, <1>5, <1>6, <1>9, <1>10, <1>11, <1>12 DEF FileInv

\* The transfer's byte comes after every command from before its boundary.
LEMMA FileServiceByte == ASSUME Inv, FileInv, ServiceByte PROVE FileInv'
<1> USE DEF eventVars, ringVars, timeVars
<1>1. /\ UNCHANGED <<ring, rtWrite, rtRead, copied, commands, files>> /\ IngressDrained
      /\ file.owns /\ Types /\ file \in File
  BY DEF ServiceByte, Inv, PumpPlaces, Types
<1>2. PICK b \in Byte : b.src \in {"file", "eox"} /\ b.no = file.no /\ Send(b)
  BY TransferByte
<1>3. file'.owns = file.owns /\ file'.no = file.no /\ file'.boundary = file.boundary
  <2>1. file' = [file EXCEPT !.eox = FALSE] \/ file' = [file EXCEPT !.sent = @ + 1]
    BY DEF ServiceByte
  <2> QED BY <1>1, <2>1 DEF File
<1>4. /\ DOMAIN line = 1 .. Len(line) /\ Len(line) \in Nat
      /\ DOMAIN line' = 1 .. Len(line) + 1
      /\ \A i \in DOMAIN line : line'[i] = line[i]
      /\ line'[Len(line) + 1] = b
  BY <1>1, <1>2, SentByte
<1>5. PICK last : last = Len(line) + 1
  OBVIOUS
<1>6. /\ line'[last] = b /\ \A i \in DOMAIN line' : i \in DOMAIN line \/ i = last
      /\ \A i \in DOMAIN line : i \in DOMAIN line' /\ i < last
  BY <1>4, <1>5
<1>7. \A p : RingAt(p)' = ring[Cell(p)] /\ RingAt(p) = ring[Cell(p)]
  BY <1>1 DEF RingAt
<1>8. InRing' = InRing
  BY <1>1 DEF InRing
<1>9. /\ file.no \in DOMAIN files
      /\ \A p \in InRing : RingAt(p).no <= files[file.no] <=> p < file.boundary
      /\ \A i \in DOMAIN line : line[i].src = "command" => line[i].no <= files[file.no]
  BY <1>1 DEF FileInv
<1>10. \A p \in InRing : ring[Cell(p)].no > files[file.no]
  <2> SUFFICES ASSUME NEW p \in InRing PROVE RingAt(p).no > files[file.no]
    BY <1>7
  <2>1. /\ rtRead \in Nat /\ rtWrite \in Nat /\ copied \in Nat /\ file.boundary \in Nat
        /\ files[file.no] \in Nat
    BY <1>1, <1>9, FilesType, RingTypes DEF File
  <2>2. ~(rtRead < file.boundary)
    BY <1>1, <2>1 DEF IngressDrained, SizeBefore
  <2>3. p \in Nat /\ ~(p < file.boundary)
    BY <2>1, <2>2 DEF InRing
  <2>4. RingAt(p).no \in Nat /\ ~(RingAt(p).no <= files[file.no])
    BY <1>9, <2>3, RingTypes
  <2> QED BY <2>1, <2>4
<1>11. \A i \in DOMAIN line' : line'[i].src = "command" => i \in DOMAIN line
  BY <1>2, <1>6
<1>12. BoundaryHeld'
  <2> SUFFICES ASSUME NEW i \in DOMAIN line', NEW j \in DOMAIN line', line'[i].src = "command",
                      line'[j].src \in {"file", "eox"}
               PROVE  line'[i].no <= files[line'[j].no] <=> i < j
    BY <1>1 DEF BoundaryHeld
  <2>1. i \in DOMAIN line /\ line'[i] = line[i] /\ i < last
    BY <1>4, <1>6, <1>11
  <2>2. CASE j \in DOMAIN line
    BY <1>4, <2>1, <2>2 DEF FileInv, BoundaryHeld
  <2>3. CASE j = last
    BY <1>2, <1>6, <1>9, <2>1, <2>3
  <2> QED BY <1>6, <2>2, <2>3
<1>13. \A j \in DOMAIN line' :
        line'[j].src \in {"file", "eox"} =>
            /\ line'[j].no \in DOMAIN files
            /\ \A p \in InRing : ring[Cell(p)].no > files[line'[j].no]
  <2>1. \A j \in DOMAIN line :
        line[j].src \in {"file", "eox"} =>
            /\ line[j].no \in DOMAIN files
            /\ \A p \in InRing : ring[Cell(p)].no > files[line[j].no]
    BY <1>7 DEF FileInv
  <2>2. line'[last].no \in DOMAIN files /\ \A p \in InRing : ring[Cell(p)].no > files[line'[last].no]
    BY <1>2, <1>6, <1>9, <1>10
  <2> QED BY <1>4, <1>6, <2>1, <2>2
<1>14. \A i \in DOMAIN line' : line'[i].src = "command" => line'[i].no <= files[file.no]
  BY <1>4, <1>9, <1>11
<1>15. \A k \in DOMAIN files : files[k] <= commands
  BY DEF FileInv
<1> HIDE DEF InRing, RingAt
<1> QED BY <1>1, <1>3, <1>7, <1>8, <1>9, <1>12, <1>13, <1>14, <1>15 DEF FileInv

LEMMA FileStep == ASSUME Inv, CommandInv, FileInv, [Next]_vars PROVE FileInv'
<1>1. CASE Next
  BY <1>1, FileCopy, FilePublish, FilePop, FileStart, FileServiceByte, FileOthers
     DEF Next, ProcessUC, PumpNext, ServiceNext
<1>2. CASE UNCHANGED vars
  <2>1. UNCHANGED <<ring, rtWrite, rtRead, copied, commands, line, file, files>>
    BY <1>2 DEF vars, ringVars
  <2> QED BY <2>1, FileStill
<1> QED BY <1>1, <1>2

\* The commands published before a transfer cross before its first byte, and the later ones
\* wait for its end (Hardware::startMidiSysexTransfer, mdhardware.cpp 3774-3783, pumpRealtime, 3704-3720,
\* and what service() is told, 1505-1510).
THEOREM BoundaryKept == Spec => []BoundaryHeld
<1>1. Init => FileInv
  <2> SUFFICES ASSUME Init PROVE FileInv
    OBVIOUS
  <2>1. line = <<>> /\ files = <<>> /\ file = NoFile
    BY DEF Init
  <2>2. DOMAIN line = {} /\ DOMAIN files = {} /\ ~file.owns
    BY <2>1 DEF NoFile
  <2> QED BY <2>2 DEF FileInv, BoundaryHeld
<1>2. FileInv => BoundaryHeld
  BY DEF FileInv
<1>3. Inv /\ CommandInv /\ FileInv /\ [Next]_vars => FileInv'
  BY FileStep
<1>4. Inv /\ CommandInv /\ [Next]_vars => CommandInv'
  BY CommandStep
<1> QED BY InvInit, InvNext, CommandInit, <1>1, <1>2, <1>3, <1>4, PTL DEF Spec
=============================================================================
