------------------------- MODULE TurboTransferProofs -------------------------
(***************************************************************************)
(* Theorems about TurboTransfer, for every set of files the parser accepts *)
(* and for every value of the limits, whatever faults the instrument shows *)
(* and however late it answers: the members keep their ranges, position,   *)
(* handshake and phase agree, no sample message overtakes another, nothing *)
(* the user must prepare for is sent early, the wire is released clean and *)
(* the outcome is what happened.  And where the instrument gives no reply  *)
(* twice, what was acknowledged arrived, and a complete file arrived whole.*)
(*                                                                         *)
(* The inductive invariant TransferInv has one part, Stage, that holds     *)
(* also inside a call of service(), for the host's members t and the queue *)
(* as far as the call has changed them: each of its operators is shown to  *)
(* keep Stage, and service() is their composition.  AckInv is built the    *)
(* same way from Track, which says what the replies that are anywhere      *)
(* between the instrument and serviceSds() can still do.                   *)
(***************************************************************************)
EXTENDS TurboTransfer, RingArithmetic, FiniteSetTheorems, SequenceTheorems

----------------------------------------------------------------------------
(***************************************************************************)
(* The inductive invariant                                                 *)
(***************************************************************************)
Commands == {"SdsCancel", "SpeedRequest", "SpeedNegotiation", "FirstTest", "SecondTest"}
HalfType == [kind : MessageKinds \cup Commands \cup {"Eox", "None"}, at : Nat, packet : Nat,
             part : 0 .. 2]
ReplyType == [kind : SdsReplies \cup {"SpeedReport", "SpeedAcknowledgement", "FirstTestResult",
                                      "SecondTestResult", "Other"},
              packet : Nat, good : BOOLEAN]
HostType == [phase : Phases, state : States, id : Nat, held : BOOLEAN, model : Models,
             messageIndex : Nat \ {0}, payloadCursor : Nat, sdsActive : BOOLEAN,
             sdsWaiting : BOOLEAN, sdsPacket : 0 .. PacketModulus - 1,
             packetRetries : 0 .. MaxRetries, acknowledgedSamples : Nat,
             receiveKind : MessageKinds, error : Errors, captureTransmit : BOOLEAN,
             phaseTime : Nat, sdsWaitTime : Nat, wire : Seq(HalfType),
             transmit : Seq(ReplyType), responses : Seq(ReplyType)]
DeviceType == [partial : HalfType, got : SUBSET Nat, sample : Nat, want : Nat,
               replies : Seq(ReplyType)]

\* The halves of commands, and those of the payload's messages.
Command(h) == h = Eox \/ (h.kind \in Commands /\ h.at = 0 /\ h.part \in {1, 2})
OfPayload(h) ==
    /\ h.kind \in MessageKinds /\ h.part \in {1, 2}
    /\ h.at \in 1 .. Len(payload) /\ h.kind = payload[h.at].kind

\* Nothing here ends a sample early.
NoCancel(s) == \A n \in DOMAIN s : s[n].kind # "SdsCancel"

\* What is left of a sequence once its first elements were taken.
Tails(s, all) == \E k \in Nat : \A a \in DOMAIN s : a + k \in DOMAIN all /\ s[a] = all[a + k]

\* How far into its message the payload's cursor is.
Into(t) == t.payloadCursor - Offset(t.messageIndex)

\* The phases of a transfer that was not given up, and those between two messages.
GivenUp == {"Idle", "DrainCancellation"}
Between == Phases \ (GivenUp \cup {"Payload", "DrainSds", "WaitSds"})
SendPhases == DOMAIN WaitPhase

\* The host's members, whatever the rest: a wire is a run of whole commands from somewhere on.
Members(t) ==
    /\ t \in HostType
    /\ Len(t.responses) <= ResponseCapacity
    /\ \A i \in DOMAIN t.wire : Command(t.wire[i])
    /\ t.wire # <<>> => t.wire[Len(t.wire)].part = 2

\* Phase and state, phase and wire, phase and position agree.
Places(t) ==
    /\ t.state \in OwningStates <=> t.phase # "Idle"
    /\ t.wire # <<>> => t.phase \in SendPhases \cup {"DrainCancellation"}
    /\ t.messageIndex <= Len(payload) + 1 /\ t.payloadCursor <= Size
    /\ t.phase \in Between => Into(t) = 0
    /\ t.phase = "Payload" => Into(t) \in 0 .. 1
    /\ t.phase \in {"DrainSds", "WaitSds"} =>
        Into(t) = 2 /\ t.messageIndex <= Len(payload) /\ Current(t).kind \in SdsKinds
    /\ t.phase \in Between \ {"DrainPayload"} => t.messageIndex <= Len(payload)

\* Inside a sample the handshake is on, and it is about the current message.
Handshake(t) ==
    t.phase \notin GivenUp /\ t.messageIndex <= Len(payload) =>
        /\ Current(t).kind = "SdsPacket" => t.sdsActive
        /\ Current(t).kind = "SampleName" /\ t.messageIndex > 1 =>
            (payload[t.messageIndex - 1].kind = "SdsHeader" => t.sdsActive)
        /\ Current(t).kind \in SdsKinds /\ Into(t) > 0 =>
            /\ t.sdsActive
            /\ t.sdsPacket = IF Current(t).kind = "SdsHeader" THEN 0 ELSE Current(t).packet

\* NeedsUser() for a machine; ready: nothing to prepare, or the editor showed the step.
NeedsUserOn(model, i) ==
    /\ i > 1
    /\ IF model = "Monomachine" THEN payload[i].kind # payload[i - 1].kind
       ELSE payload[i - 1].last /\ payload[i].kind # "SdsHeader"
ReadyFor(t, i) == NeedsUserOn(t.model, i) => <<t.id, i>> \in shown

\* The receive screen is the current message's, and shown, or the previous message's.
Screens(t) ==
    t.phase \notin GivenUp /\ t.messageIndex <= Len(payload) =>
        IF t.model = "Monomachine"
        THEN \/ t.receiveKind = Current(t).kind /\ ReadyFor(t, t.messageIndex)
             \/ /\ Into(t) = 0 /\ t.messageIndex > 1
                /\ t.receiveKind = payload[t.messageIndex - 1].kind
        ELSE t.phase # "WaitReceiveMode" => ReadyFor(t, t.messageIndex)

\* The message at the end of what was sent is open.
OpenEnd(queue) ==
    IF queue = <<>> THEN device.partial # NoHalf ELSE queue[Len(queue)].part = 1

\* What is in the port, and when nothing is.
Queued(t, queue) ==
    /\ queue \in Seq(HalfType) /\ Len(queue) <= PortCapacity
    /\ \A i \in DOMAIN queue :
        /\ Command(queue[i]) \/ OfPayload(queue[i])
        /\ queue[i].kind \in SdsKinds /\ t.phase # "DrainCancellation" =>
            queue[i].at = t.messageIndex
        /\ queue[i].at # 0 => ReadyFor(t, queue[i].at)
    /\ t.phase \in {"Idle", "WaitSds", "WaitReceiveMode"} => queue = <<>>
    /\ OpenEnd(queue) => t.wire # <<>> \/ (t.phase = "Payload" /\ Into(t) = 1)

\* Who gave the transfer up, and what that left.
Outcome(t) ==
    /\ t.phase \notin GivenUp => ~cancelled
    /\ t.phase = "DrainCancellation" =>
        /\ t.error = "None" <=> cancelled
        /\ ~t.captureTransmit /\ t.transmit = <<>> /\ t.responses = <<>>
    /\ t.state = "Cancelled" => cancelled
    /\ t.state \in {"Complete", "Failed"} => ~cancelled

Stage(t, queue) ==
    /\ Members(t) /\ Places(t) /\ Handshake(t) /\ Screens(t) /\ Queued(t, queue) /\ Outcome(t)

\* The instrument: what it is in the middle of, and what it took.
DeviceInv ==
    /\ device \in DeviceType /\ device.got \subseteq 1 .. Len(payload)
    /\ device.partial # NoHalf =>
        device.partial.part = 1 /\ (Command(device.partial) \/ OfPayload(device.partial))

TransferInv ==
    /\ payload \in Payloads[host.model] \cup {<<>>}
    /\ host.phase # "Idle" => payload # <<>>
    /\ seen # NoStep => seen \in shown
    /\ transfers \in Nat
    /\ DeviceInv /\ Stage(host, port)

----------------------------------------------------------------------------
(***************************************************************************)
(* What the operators on the host's members change                         *)
(***************************************************************************)
LEMMA CommandWire ==
    ASSUME NEW s \in Seq(HalfType), \A i \in DOMAIN s : Command(s[i]),
           NEW kind \in Commands, NEW packet \in Nat
    PROVE  /\ s \o Whole(kind, packet) \in Seq(HalfType) /\ s \o Whole(kind, packet) # <<>>
           /\ \A i \in DOMAIN (s \o Whole(kind, packet)) : Command((s \o Whole(kind, packet))[i])
           /\ (s \o Whole(kind, packet))[Len(s \o Whole(kind, packet))].part = 2
           /\ kind # "SdsCancel" /\ NoCancel(s) => NoCancel(s \o Whole(kind, packet))
<1> DEFINE a == Half(kind, 0, packet, 1)
           b == Half(kind, 0, packet, 2)
<1>1. /\ a \in HalfType /\ b \in HalfType /\ Command(a) /\ Command(b) /\ b.part = 2
      /\ a.kind = kind /\ b.kind = kind
  BY DEF Half, HalfType, Command
<1>2. Whole(kind, packet) = <<a, b>>
  BY DEF Whole
<1> HIDE DEF a, b
<1>3. /\ s \o <<a, b>> \in Seq(HalfType) /\ Len(s \o <<a, b>>) = Len(s) + 2 /\ Len(s) \in Nat
      /\ \A i \in 1 .. Len(s) : (s \o <<a, b>>)[i] = s[i]
      /\ (s \o <<a, b>>)[Len(s) + 1] = a /\ (s \o <<a, b>>)[Len(s) + 2] = b
  BY <1>1
<1>4. s \o <<a, b>> # <<>>
  BY <1>3
<1>5. \A i \in DOMAIN (s \o <<a, b>>) : i \in 1 .. Len(s) \/ i = Len(s) + 1 \/ i = Len(s) + 2
  BY <1>3
<1>6. \A i \in DOMAIN (s \o <<a, b>>) : Command((s \o <<a, b>>)[i])
  BY <1>1, <1>3, <1>5
<1>7. kind # "SdsCancel" /\ NoCancel(s) => NoCancel(s \o <<a, b>>)
  BY <1>1, <1>3, <1>5 DEF NoCancel
<1> QED BY <1>1, <1>2, <1>3, <1>4, <1>6, <1>7

LEMMA FarewellWire ==
    ASSUME NEW t \in HostType
    PROVE  /\ Farewell(t) \in Seq(HalfType) /\ Farewell(t) # <<>>
           /\ \A i \in DOMAIN Farewell(t) : Command(Farewell(t)[i])
           /\ Farewell(t)[Len(Farewell(t))].part = 2
<1>1. Eox \in HalfType /\ Command(Eox) /\ Eox.part = 2
  BY DEF Eox, Half, HalfType, Command
<1>2. <<Eox>> \in Seq(HalfType) /\ \A i \in DOMAIN <<Eox>> : Command(<<Eox>>[i])
  BY <1>1
<1>3. CASE t.sdsActive
  <2>1. Farewell(t) = <<Eox>> \o Whole("SdsCancel", t.sdsPacket)
    BY <1>3 DEF Farewell
  <2>2. t.sdsPacket \in Nat
    BY LimitsAssumption DEF HostType
  <2>3. PICK w : w = <<Eox>>
    OBVIOUS
  <2>4. w \in Seq(HalfType) /\ \A i \in DOMAIN w : Command(w[i])
    BY <1>2, <2>3
  <2>5. "SdsCancel" \in Commands
    BY DEF Commands
  <2>6. PICK v : v = w \o Whole("SdsCancel", t.sdsPacket)
    OBVIOUS
  <2>7. v \in Seq(HalfType) /\ v # <<>> /\ (\A i \in DOMAIN v : Command(v[i])) /\ v[Len(v)].part = 2
    BY <2>2, <2>4, <2>5, <2>6, CommandWire
  <2> QED BY <2>1, <2>3, <2>6, <2>7
<1>4. CASE ~t.sdsActive
  <2>1. Farewell(t) = <<Eox>>
    BY <1>1, <1>4 DEF Farewell
  <2>2. Len(<<Eox>>) = 1 /\ <<Eox>>[1] = Eox /\ <<Eox>> # <<>>
    OBVIOUS
  <2>3. <<Eox>>[Len(<<Eox>>)].part = 2
    BY <1>1, <2>2
  <2> QED BY <1>2, <2>1, <2>2, <2>3
<1> QED BY <1>3, <1>4

LEMMA AbortFields ==
    ASSUME NEW t \in HostType, NEW error \in Errors
    PROVE  LET a == AbortPayload(t, error) IN
           /\ a \in HostType /\ a.phase = "DrainCancellation" /\ a.state = "Cancelling"
           /\ a.error = error /\ a.captureTransmit = FALSE
           /\ a.transmit = <<>> /\ a.responses = <<>> /\ a.wire = Farewell(t)
           /\ a.id = t.id /\ a.model = t.model /\ a.messageIndex = t.messageIndex
           /\ a.payloadCursor = t.payloadCursor /\ a.sdsActive = t.sdsActive
           /\ a.receiveKind = t.receiveKind
<1>1. Farewell(t) \in Seq(HalfType)
  BY FarewellWire
<1>2. /\ "DrainCancellation" \in Phases /\ "Cancelling" \in States
      /\ <<>> \in Seq(ReplyType) /\ 0 \in Nat /\ FALSE \in BOOLEAN
  BY DEF Phases, States, OwningStates
<1> QED BY <1>1, <1>2 DEF AbortPayload, HostType

LEMMA RetryFields ==
    ASSUME NEW t \in HostType, ~RetriesSpent(t)
    PROVE  LET a == RetrySds(t) IN
           /\ a \in HostType /\ a.phase = "Payload" /\ a.state = "Retrying"
           /\ a.payloadCursor = Offset(t.messageIndex) /\ a.responses = <<>>
           /\ a.transmit = t.transmit
           /\ a.wire = t.wire /\ a.id = t.id /\ a.model = t.model
           /\ a.messageIndex = t.messageIndex /\ a.sdsActive = t.sdsActive
           /\ a.sdsPacket = t.sdsPacket /\ a.receiveKind = t.receiveKind
<1>1. t.packetRetries + 1 \in 0 .. MaxRetries
  BY LimitsAssumption DEF HostType, RetriesSpent
<1>2. Offset(t.messageIndex) \in Nat
  BY DEF HostType, Offset
<1>3. "Payload" \in Phases /\ "Retrying" \in States /\ <<>> \in Seq(ReplyType)
  BY DEF Phases, States, OwningStates
<1>4. RetrySds(t) \in HostType
  BY <1>1, <1>2, <1>3 DEF RetrySds, Rewound, HostType
<1> QED BY <1>4 DEF RetrySds, Rewound, HostType

LEMMA AcknowledgedFields ==
    ASSUME NEW t \in HostType, Current(t).last \in BOOLEAN
    PROVE  LET a == Acknowledged(t) IN
           /\ a \in HostType
           /\ \/ a.phase = "Payload" /\ a.state = "Sending"
              \/ a.phase = "WaitReceiveMode" /\ a.state = "WaitingForReceiveMode"
           /\ a.phase = "WaitReceiveMode" <=> Current(t).last /\ NeedsReady(a)
           /\ a.messageIndex = t.messageIndex + 1 /\ a.responses = <<>>
           /\ a.transmit = t.transmit
           /\ a.sdsActive <=> t.sdsActive /\ ~Current(t).last
           /\ a.payloadCursor = t.payloadCursor /\ a.wire = t.wire /\ a.id = t.id
           /\ a.model = t.model /\ a.receiveKind = t.receiveKind
<1> DEFINE finished == Current(t).last
           next == [t EXCEPT !.acknowledgedSamples = IF finished THEN @ + 1 ELSE @,
                             !.sdsActive = @ /\ ~finished, !.messageIndex = @ + 1,
                             !.sdsWaiting = FALSE, !.packetRetries = 0, !.sdsWaitTime = 0,
                             !.phase = "Payload", !.phaseTime = 0, !.responses = <<>>,
                             !.state = "Sending"]
<1>1. /\ (IF finished THEN t.acknowledgedSamples + 1 ELSE t.acknowledgedSamples) \in Nat
      /\ t.messageIndex + 1 \in Nat \ {0} /\ 0 \in 0 .. MaxRetries
  BY LimitsAssumption DEF HostType
<1>2. (t.sdsActive /\ ~finished) \in BOOLEAN
  OBVIOUS
<1>3. /\ {"Payload", "WaitReceiveMode"} \subseteq Phases
      /\ {"Sending", "WaitingForReceiveMode"} \subseteq States /\ <<>> \in Seq(ReplyType)
  BY DEF Phases, States, OwningStates
<1>4. /\ next \in HostType /\ next.phase = "Payload" /\ next.state = "Sending"
      /\ next.messageIndex = t.messageIndex + 1 /\ next.responses = <<>>
      /\ next.sdsActive = (t.sdsActive /\ ~finished)
      /\ next.payloadCursor = t.payloadCursor /\ next.wire = t.wire /\ next.id = t.id
      /\ next.model = t.model /\ next.receiveKind = t.receiveKind
  <2>1. next \in HostType
    BY <1>1, <1>2, <1>3 DEF HostType
  <2>2. next.phase = "Payload" /\ next.state = "Sending" /\ next.responses = <<>>
    BY DEF HostType
  <2>3. next.messageIndex = t.messageIndex + 1
    BY DEF HostType
  <2>4. next.sdsActive = (t.sdsActive /\ ~finished)
    BY DEF HostType
  <2>5. /\ next.payloadCursor = t.payloadCursor /\ next.wire = t.wire /\ next.id = t.id
        /\ next.model = t.model /\ next.receiveKind = t.receiveKind
    BY DEF HostType
  <2> QED BY <2>1, <2>2, <2>3, <2>4, <2>5
<1>8. next.transmit = t.transmit
  BY DEF HostType
<1>5. Acknowledged(t) = IF finished /\ NeedsReady(next)
                        THEN [next EXCEPT !.phase = "WaitReceiveMode",
                                          !.state = "WaitingForReceiveMode"]
                        ELSE next
  BY DEF Acknowledged
<1> HIDE DEF next, finished
<1>6. CASE finished /\ NeedsReady(next)
  <2> DEFINE a == [next EXCEPT !.phase = "WaitReceiveMode", !.state = "WaitingForReceiveMode"]
  <2>1. /\ a \in HostType /\ a.phase = "WaitReceiveMode" /\ a.state = "WaitingForReceiveMode"
        /\ a.messageIndex = next.messageIndex /\ a.responses = next.responses
        /\ a.transmit = next.transmit
        /\ a.sdsActive = next.sdsActive
        /\ a.payloadCursor = next.payloadCursor /\ a.wire = next.wire /\ a.id = next.id
        /\ a.model = next.model /\ a.receiveKind = next.receiveKind
    BY <1>3, <1>4, <1>8 DEF HostType
  <2>2. Acknowledged(t) = a
    BY <1>5, <1>6
  <2> HIDE DEF a
  <2>3. NeedsReady(a)
    BY <1>6, <2>1 DEF NeedsReady, Current
  <2> QED BY <1>4, <1>6, <1>8, <2>1, <2>2, <2>3 DEF finished
<1>7. CASE ~(finished /\ NeedsReady(next))
  BY <1>4, <1>5, <1>7, <1>8 DEF finished
<1> QED BY <1>6, <1>7

----------------------------------------------------------------------------
(***************************************************************************)
(* The payload                                                             *)
(***************************************************************************)
LEMMA PayloadFacts ==
    ASSUME NEW model \in Models, payload \in Payloads[model] \cup {<<>>}
    PROVE  /\ payload \in Seq(Message) /\ Len(payload) \in Nat /\ DOMAIN payload = 1 .. Len(payload)
           /\ \A i \in 1 .. Len(payload) :
                /\ payload[i] \in Message
                /\ payload[i].kind \in MessageKinds /\ payload[i].packet \in Nat
                /\ payload[i].last \in BOOLEAN
                /\ payload[i].kind = "SdsHeader" =>
                    i < Len(payload) /\ payload[i + 1].kind \in {"SdsPacket", "SampleName"}
                /\ payload[i].kind = "SdsPacket" =>
                    /\ i > 1 /\ payload[i - 1].kind \in SdsKinds \cup {"SampleName"}
                    /\ payload[i - 1].kind = "SampleName" =>
                        i > 2 /\ payload[i - 2].kind = "SdsHeader"
                    /\ payload[i].packet \in 0 .. PacketModulus - 1
                /\ payload[i].last =>
                    /\ payload[i].kind = "SdsPacket"
                    /\ i = Len(payload) \/ payload[i + 1].kind # "SdsPacket"
                /\ model = "Monomachine" => payload[i].kind \in {"UserDump", "DigiPro"}
<1>1. payload \in Seq(Message) /\ (payload # <<>> => WellFormed(payload, model))
  <2>1. CASE payload \in Payloads[model]
    BY <2>1, PayloadsAssumption
  <2>2. CASE payload = <<>>
    BY <2>2
  <2> QED BY <2>1, <2>2
<1>2. Len(payload) \in Nat /\ DOMAIN payload = 1 .. Len(payload)
  BY <1>1
<1>3. ASSUME NEW i \in 1 .. Len(payload)
      PROVE  /\ payload[i] \in Message
             /\ payload[i].kind \in MessageKinds /\ payload[i].packet \in Nat
             /\ payload[i].last \in BOOLEAN
  <2>1. payload[i] \in Message
    BY <1>1, <1>3, ElementOfSeq
  <2> QED BY <2>1 DEF Message
<1>4. ASSUME NEW i \in 1 .. Len(payload) PROVE payload # <<>>
  BY <1>1, <1>4
<1>5. ASSUME NEW i \in 1 .. Len(payload), payload[i].kind = "SdsPacket"
      PROVE  payload[i].packet \in 0 .. PacketModulus - 1
  <2>1. payload[i].packet = Cardinality(PacketsBefore(payload, i)) % PacketModulus
    BY <1>1, <1>4, <1>5 DEF WellFormed
  <2>2. IsFiniteSet(1 .. i - 1) /\ PacketsBefore(payload, i) \subseteq 1 .. i - 1
    <3>1. i - 1 \in Int /\ 1 \in Int
      BY <1>2
    <3> QED BY <3>1, FS_Interval DEF PacketsBefore
  <2>3. Cardinality(PacketsBefore(payload, i)) \in Nat
    BY <2>2, FS_Subset, FS_CardinalityType
  <2> QED BY <2>1, <2>3, LimitsAssumption
<1>6. ASSUME NEW i \in 1 .. Len(payload)
      PROVE  /\ payload[i].kind = "SdsHeader" =>
                    i < Len(payload) /\ payload[i + 1].kind \in {"SdsPacket", "SampleName"}
             /\ payload[i].kind = "SdsPacket" =>
                    /\ i > 1 /\ payload[i - 1].kind \in SdsKinds \cup {"SampleName"}
                    /\ payload[i - 1].kind = "SampleName" =>
                        i > 2 /\ payload[i - 2].kind = "SdsHeader"
             /\ payload[i].last =>
                    /\ payload[i].kind = "SdsPacket"
                    /\ i = Len(payload) \/ payload[i + 1].kind # "SdsPacket"
             /\ model = "Monomachine" => payload[i].kind \in {"UserDump", "DigiPro"}
  <2>1. WellFormed(payload, model)
    BY <1>1, <1>4, <1>6
  <2>2. payload[i].kind = "SdsHeader" =>
            i < Len(payload) /\ payload[i + 1].kind \in {"SdsPacket", "SampleName"}
    BY <1>6, <2>1 DEF WellFormed
  <2>3. payload[i].kind = "SdsPacket" =>
            /\ i > 1 /\ payload[i - 1].kind \in SdsKinds \cup {"SampleName"}
            /\ payload[i - 1].kind = "SampleName" => i > 2 /\ payload[i - 2].kind = "SdsHeader"
    BY <1>6, <2>1 DEF WellFormed
  <2>4. payload[i].last => payload[i].kind = "SdsPacket"
    BY <1>6, <2>1 DEF WellFormed
  <2>5. payload[i].last => i = Len(payload) \/ payload[i + 1].kind # "SdsPacket"
    BY <1>6, <2>1, <2>4 DEF WellFormed
  <2>6. model = "Monomachine" => payload[i].kind \in {"UserDump", "DigiPro"}
    BY <1>6, <2>1 DEF WellFormed
  <2> QED BY <2>2, <2>3, <2>4, <2>5, <2>6
<1>7. ASSUME NEW i \in 1 .. Len(payload), payload[i].kind = "SdsPacket"
      PROVE  /\ i > 1 /\ payload[i - 1].kind \in SdsKinds \cup {"SampleName"}
             /\ payload[i - 1].kind = "SampleName" => i > 2 /\ payload[i - 2].kind = "SdsHeader"
             /\ payload[i].packet \in 0 .. PacketModulus - 1
  BY <1>5, <1>6, <1>7, Zenon
<1> QED BY <1>1, <1>2, <1>3, <1>6, <1>7, Zenon

\* What is sent belongs to a transfer that has a file.
Loaded(t) == t \in HostType /\ payload \in Payloads[t.model] \cup {<<>>}

LEMMA LoadedFacts ==
    ASSUME NEW t, Loaded(t)
    PROVE  /\ t.messageIndex \in Nat \ {0} /\ t.payloadCursor \in Nat /\ t.model \in Models
           /\ Offset(t.messageIndex) \in Nat /\ Into(t) \in Int
           /\ Len(payload) \in Nat /\ Size = 2 * Len(payload) /\ Size \in Nat
           /\ t.messageIndex <= Len(payload) => t.messageIndex \in 1 .. Len(payload)
<1>1. t.messageIndex \in Nat \ {0} /\ t.payloadCursor \in Nat /\ t.model \in Models
  BY DEF Loaded, HostType
<1>2. Len(payload) \in Nat
  BY <1>1, PayloadFacts DEF Loaded
<1> QED BY <1>1, <1>2 DEF Offset, Into, Size

----------------------------------------------------------------------------
(***************************************************************************)
(* The stages of a call of service()                                       *)
(***************************************************************************)
\* Members that the invariant relates to nothing else may change.
LEMMA StageSame ==
    ASSUME NEW t, NEW queue, Stage(t, queue), NEW a \in HostType,
           Len(a.responses) <= ResponseCapacity,
           a.phase = t.phase, a.state = t.state, a.wire = t.wire,
           a.messageIndex = t.messageIndex, a.payloadCursor = t.payloadCursor,
           a.sdsActive = t.sdsActive, a.sdsPacket = t.sdsPacket, a.id = t.id,
           a.model = t.model, a.receiveKind = t.receiveKind, a.error = t.error,
           t.phase = "DrainCancellation" =>
                ~a.captureTransmit /\ a.transmit = <<>> /\ a.responses = <<>>
    PROVE  Stage(a, queue)
<1>1. Into(a) = Into(t) /\ Current(a) = Current(t) /\ \A i : ReadyFor(a, i) <=> ReadyFor(t, i)
  BY DEF Into, Current, ReadyFor
<1>2. Members(a)
  BY DEF Stage, Members
<1>3. Places(a)
  BY <1>1 DEF Stage, Places
<1>4. Handshake(a)
  BY <1>1 DEF Stage, Handshake
<1>5. Screens(a)
  BY <1>1 DEF Stage, Screens
<1>6. Queued(a, queue)
  BY <1>1 DEF Stage, Queued
<1>7. Outcome(a)
  BY DEF Stage, Outcome
<1> QED BY <1>2, <1>3, <1>4, <1>5, <1>6, <1>7 DEF Stage

\* Giving up keeps what is on the wire and follows it with the farewell.
LEMMA AbortStage ==
    ASSUME NEW t, NEW queue, Stage(t, queue), t.phase \notin GivenUp,
           NEW error \in Errors \ {"None"}
    PROVE  Stage(AbortPayload(t, error), queue)
<1>1. t \in HostType
  BY DEF Stage, Members
<1>2. PICK a : a = AbortPayload(t, error)
  OBVIOUS
<1>3. /\ a \in HostType /\ a.phase = "DrainCancellation" /\ a.state = "Cancelling"
      /\ a.error = error /\ a.captureTransmit = FALSE
      /\ a.transmit = <<>> /\ a.responses = <<>> /\ a.wire = Farewell(t)
      /\ a.id = t.id /\ a.model = t.model /\ a.messageIndex = t.messageIndex
      /\ a.payloadCursor = t.payloadCursor
  <2>1. error \in Errors
    OBVIOUS
  <2> QED BY <1>1, <1>2, <2>1, AbortFields
<1>4. /\ a.wire # <<>> /\ a.wire[Len(a.wire)].part = 2
      /\ \A i \in DOMAIN a.wire : Command(a.wire[i])
  BY <1>1, <1>3, FarewellWire
<1>5. Members(a)
  BY <1>3, <1>4, LimitsAssumption DEF Members
<1>6. Places(a)
  BY <1>3 DEF Stage, Places, OwningStates, Between, GivenUp
<1>7. Handshake(a) /\ Screens(a)
  BY <1>3 DEF Handshake, Screens, GivenUp
<1>8. Queued(a, queue)
  <2>1. \A i : ReadyFor(a, i) <=> ReadyFor(t, i)
    BY <1>3 DEF ReadyFor
  <2> QED BY <1>3, <1>4, <2>1 DEF Stage, Queued
<1>9. Outcome(a)
  BY <1>3 DEF Stage, Outcome, GivenUp
<1> QED BY <1>2, <1>5, <1>6, <1>7, <1>8, <1>9 DEF Stage

LEMMA ParseStage ==
    ASSUME NEW t, NEW queue, Stage(t, queue), t.phase # "Idle"
    PROVE  LET r == ParseTransmit(t) IN
           /\ Stage(r, queue) /\ r.phase # "Idle" /\ r.model = t.model
           /\ r.messageIndex = t.messageIndex
           /\ \/ r.phase = "DrainCancellation" /\ r.state = "Cancelling"
              \/ /\ r.phase = t.phase /\ r.state = t.state /\ r.wire = t.wire
                 /\ r.payloadCursor = t.payloadCursor /\ r.transmit = <<>>
                 /\ r.responses = QueuedResponses(t.responses \o t.transmit)
<1>1. /\ t \in HostType /\ t.responses \in Seq(ReplyType) /\ t.transmit \in Seq(ReplyType)
      /\ ResponseCapacity \in Nat
  BY LimitsAssumption DEF Stage, Members, HostType
<1>2. PICK all : all = t.responses \o t.transmit
  OBVIOUS
<1>3. all \in Seq(ReplyType) /\ Len(all) \in Nat
  <2>1. all \in Seq(ReplyType)
    BY <1>1, <1>2, ConcatProperties
  <2> QED BY <2>1
<1>4. /\ QueuedResponses(all) \in Seq(ReplyType)
      /\ Len(QueuedResponses(all)) <= ResponseCapacity
      /\ all = <<>> => QueuedResponses(all) = <<>>
  <2>1. PICK n : n = Smaller(Len(all), ResponseCapacity)
    OBVIOUS
  <2>2. n \in Nat /\ n <= Len(all) /\ n <= ResponseCapacity
    BY <1>1, <1>3, <2>1 DEF Smaller
  <2>3. SubSeq(all, 1, n) \in Seq(ReplyType) /\ Len(SubSeq(all, 1, n)) = n
    BY <1>3, <2>2, SubSeqProperties
  <2>4. all = <<>> => n = 0
    BY <2>2
  <2> QED BY <2>1, <2>2, <2>3, <2>4 DEF QueuedResponses
<1>5. PICK p : p = [t EXCEPT !.transmit = <<>>, !.responses = QueuedResponses(all)]
  OBVIOUS
<1>6. /\ p \in HostType /\ p.transmit = <<>> /\ p.responses = QueuedResponses(all)
      /\ p.phase = t.phase /\ p.state = t.state /\ p.wire = t.wire
      /\ p.messageIndex = t.messageIndex /\ p.payloadCursor = t.payloadCursor
      /\ p.sdsActive = t.sdsActive /\ p.sdsPacket = t.sdsPacket /\ p.id = t.id
      /\ p.model = t.model /\ p.receiveKind = t.receiveKind /\ p.error = t.error
      /\ p.captureTransmit = t.captureTransmit
  <2>1. PICK r : r = QueuedResponses(all)
    OBVIOUS
  <2>2. r \in Seq(ReplyType) /\ <<>> \in Seq(ReplyType)
    BY <1>4, <2>1
  <2>3. PICK s : s = <<>>
    OBVIOUS
  <2>4. s \in Seq(ReplyType) /\ p = [t EXCEPT !.transmit = s, !.responses = r]
    BY <1>5, <2>1, <2>2, <2>3
  <2>5. /\ p \in HostType /\ p.transmit = s /\ p.responses = r
        /\ p.phase = t.phase /\ p.state = t.state /\ p.wire = t.wire
        /\ p.messageIndex = t.messageIndex /\ p.payloadCursor = t.payloadCursor
        /\ p.sdsActive = t.sdsActive /\ p.sdsPacket = t.sdsPacket /\ p.id = t.id
        /\ p.model = t.model /\ p.receiveKind = t.receiveKind /\ p.error = t.error
        /\ p.captureTransmit = t.captureTransmit
    BY <1>1, <2>2, <2>4 DEF HostType
  <2> QED BY <2>1, <2>3, <2>5
<1>7. t.phase = "DrainCancellation" => all = <<>> /\ ~p.captureTransmit
  BY <1>1, <1>2, <1>6 DEF Stage, Outcome
<1>8. Stage(p, queue)
  BY <1>4, <1>6, <1>7, StageSame
<1>9. ParseTransmit(t) = IF Len(all) > ResponseCapacity /\ t.sdsActive
                         THEN AbortPayload(p, "ResponseOverflow") ELSE p
  BY <1>2, <1>5 DEF ParseTransmit
<1>10. CASE Len(all) > ResponseCapacity /\ t.sdsActive
  <2>1. all # <<>>
    BY <1>1, <1>10
  <2>2. p.phase \notin GivenUp
    BY <1>6, <1>7, <2>1 DEF GivenUp
  <2>3. "ResponseOverflow" \in Errors \ {"None"}
    BY DEF Errors
  <2>4. PICK a : a = AbortPayload(p, "ResponseOverflow")
    OBVIOUS
  <2>5. /\ a.phase = "DrainCancellation" /\ a.state = "Cancelling" /\ a.model = p.model
        /\ a.messageIndex = p.messageIndex
    BY <1>6, <2>3, <2>4, AbortFields
  <2>6. Stage(a, queue)
    BY <1>8, <2>2, <2>3, <2>4, AbortStage
  <2>7. ParseTransmit(t) = a
    BY <1>9, <1>10, <2>4
  <2> QED BY <1>6, <2>5, <2>6, <2>7
<1>11. CASE ~(Len(all) > ResponseCapacity /\ t.sdsActive)
  BY <1>2, <1>6, <1>8, <1>9, <1>11
<1> QED BY <1>10, <1>11

LEMMA ElapsedStage ==
    ASSUME NEW t, NEW queue, Stage(t, queue), NEW ticks \in {0, 1}
    PROVE  LET a == Elapsed(t, ticks) IN
           /\ Stage(a, queue) /\ a.phase = t.phase /\ a.model = t.model
           /\ a.state = t.state /\ a.wire = t.wire /\ a.messageIndex = t.messageIndex
           /\ a.payloadCursor = t.payloadCursor
           /\ a.transmit = t.transmit /\ a.responses = t.responses
<1>1. t \in HostType /\ t.phaseTime \in Nat /\ t.sdsWaitTime \in Nat
  BY DEF Stage, Members, HostType
<1>2. /\ Smaller(t.phaseTime + ticks, PhaseLimit) \in Nat
      /\ Smaller(t.sdsWaitTime + ticks, WaitLimit) \in Nat
  BY <1>1, LimitsAssumption DEF Smaller
<1>3. PICK a : a = Elapsed(t, ticks)
  OBVIOUS
<1>4. /\ a \in HostType /\ a.transmit = t.transmit /\ a.responses = t.responses
      /\ a.phase = t.phase /\ a.state = t.state /\ a.wire = t.wire
      /\ a.messageIndex = t.messageIndex /\ a.payloadCursor = t.payloadCursor
      /\ a.sdsActive = t.sdsActive /\ a.sdsPacket = t.sdsPacket /\ a.id = t.id
      /\ a.model = t.model /\ a.receiveKind = t.receiveKind /\ a.error = t.error
      /\ a.captureTransmit = t.captureTransmit
  BY <1>1, <1>2, <1>3 DEF Elapsed, HostType
<1>5. Stage(a, queue)
  BY <1>4, StageSame DEF Stage, Members, Outcome
<1> QED BY <1>3, <1>4, <1>5

----------------------------------------------------------------------------
(* The Sample Dump handshake.                                              *)

\* Where a call of service() finds a transfer that waits for an answer.
LEMMA Waiting ==
    ASSUME NEW t, NEW queue, Loaded(t), Stage(t, queue), t.phase = "WaitSds"
    PROVE  /\ queue = <<>> /\ t.wire = <<>> /\ Into(t) = 2 /\ ~OpenEnd(queue)
           /\ t.messageIndex \in 1 .. Len(payload) /\ Current(t).kind \in SdsKinds
           /\ t.sdsActive /\ ~cancelled
           /\ t.sdsPacket = IF Current(t).kind = "SdsHeader" THEN 0 ELSE Current(t).packet
<1>1. /\ queue = <<>> /\ t.wire = <<>> /\ Into(t) = 2 /\ t.messageIndex <= Len(payload)
      /\ Current(t).kind \in SdsKinds /\ ~cancelled
  BY DEF Stage, Queued, Places, Outcome, SendPhases, WaitPhase, GivenUp
<1>2. t.messageIndex \in 1 .. Len(payload)
  BY <1>1, LoadedFacts
<1>3. ~OpenEnd(queue)
  BY <1>1 DEF Stage, Queued
<1>4. t.sdsActive /\ t.sdsPacket = IF Current(t).kind = "SdsHeader" THEN 0 ELSE Current(t).packet
  BY <1>1 DEF Stage, Handshake, GivenUp
<1> QED BY <1>1, <1>2, <1>3, <1>4

LEMMA RetryStage ==
    ASSUME NEW t, NEW queue, Loaded(t), Stage(t, queue), t.phase = "WaitSds", ~RetriesSpent(t)
    PROVE  Stage(RetrySds(t), queue)
<1>1. PICK a : a = RetrySds(t)
  OBVIOUS
<1>2. /\ a \in HostType /\ a.phase = "Payload" /\ a.state = "Retrying"
      /\ a.payloadCursor = Offset(t.messageIndex) /\ a.responses = <<>>
      /\ a.wire = t.wire /\ a.id = t.id /\ a.model = t.model
      /\ a.messageIndex = t.messageIndex /\ a.sdsActive = t.sdsActive
      /\ a.receiveKind = t.receiveKind
  BY <1>1, RetryFields DEF Loaded
<1>3. /\ queue = <<>> /\ a.wire = <<>> /\ ~OpenEnd(queue) /\ ~cancelled
      /\ Into(t) = 2 /\ t.messageIndex \in 1 .. Len(payload)
  BY <1>2, Waiting
<1>4. Into(a) = 0 /\ a.payloadCursor \in Nat /\ a.payloadCursor <= Size
  <2>1. PICK m, l : m = t.messageIndex /\ l = Len(payload)
    OBVIOUS
  <2>2. m \in Nat \ {0} /\ l \in Nat /\ m <= l /\ Size = 2 * l
    BY <1>3, <2>1, LoadedFacts
  <2>3. a.payloadCursor = 2 * (m - 1) /\ a.messageIndex = m
    BY <1>2, <2>1 DEF Offset
  <2>4. Into(a) = 2 * (m - 1) - 2 * (m - 1)
    BY <2>3 DEF Into, Offset
  <2> QED BY <2>2, <2>3, <2>4
<1>5. Current(a) = Current(t) /\ \A i : ReadyFor(a, i) <=> ReadyFor(t, i)
  BY <1>2 DEF Current, ReadyFor
<1>6. Members(a)
  BY <1>2, <1>3, LimitsAssumption DEF Members
<1>7. Places(a)
  BY <1>2, <1>3, <1>4, LoadedFacts DEF Places, OwningStates, Between
<1>8. Handshake(a)
  BY <1>2, <1>4, <1>5 DEF Stage, Handshake, GivenUp
<1>9. Screens(a)
  BY <1>2, <1>3, <1>4, <1>5 DEF Stage, Screens, GivenUp
<1>10. Queued(a, queue)
  BY <1>2, <1>3, LimitsAssumption DEF Stage, Queued
<1>11. Outcome(a)
  BY <1>2, <1>3 DEF Outcome
<1> QED BY <1>1, <1>6, <1>7, <1>8, <1>9, <1>10, <1>11 DEF Stage

LEMMA AcknowledgedStage ==
    ASSUME NEW t, NEW queue, Loaded(t), Stage(t, queue), t.phase = "WaitSds"
    PROVE  Stage(Acknowledged(t), queue)
<1>1. PICK a : a = Acknowledged(t)
  OBVIOUS
<1>2. PICK m : m = t.messageIndex
  OBVIOUS
<1>14. PICK n : n = m + 1
  OBVIOUS
<1>3. /\ queue = <<>> /\ t.wire = <<>> /\ ~OpenEnd(queue) /\ ~cancelled /\ t.sdsActive
      /\ Into(t) = 2 /\ m \in 1 .. Len(payload) /\ m \in Nat /\ Len(payload) \in Nat
      /\ payload[m].kind \in SdsKinds /\ Current(t) = payload[m] /\ t.model \in Models
  BY <1>2, Waiting, LoadedFacts DEF Current
<1>4. /\ payload[m].last \in BOOLEAN
      /\ payload[m].last =>
            payload[m].kind = "SdsPacket" /\ (m = Len(payload) \/ payload[n].kind # "SdsPacket")
  BY <1>3, <1>14, PayloadFacts DEF Loaded
<1>5. /\ a \in HostType
      /\ \/ a.phase = "Payload" /\ a.state = "Sending"
         \/ a.phase = "WaitReceiveMode" /\ a.state = "WaitingForReceiveMode"
      /\ a.phase = "WaitReceiveMode" <=> payload[m].last /\ NeedsReady(a)
      /\ a.messageIndex = n /\ a.responses = <<>>
      /\ a.sdsActive <=> ~payload[m].last
      /\ a.payloadCursor = t.payloadCursor /\ a.wire = <<>> /\ a.id = t.id
      /\ a.model = t.model /\ a.receiveKind = t.receiveKind
  BY <1>1, <1>2, <1>3, <1>4, <1>14, AcknowledgedFields DEF Loaded
<1>13. a.messageIndex = n /\ a.payloadCursor = t.payloadCursor
  BY <1>5, Zenon
<1>6. Into(a) = 0 /\ a.payloadCursor <= Size /\ n - 1 = m /\ n > 1 /\ n <= Len(payload) + 1
  <2>1. a.payloadCursor <= Size
    BY <1>5 DEF Stage, Places
  <2>2. PICK c : c = t.payloadCursor
    OBVIOUS
  <2>3. c \in Nat /\ c - 2 * (m - 1) = 2 /\ m \in Nat \ {0} /\ n \in Nat
    <3>1. /\ Into(t) = 2 /\ m \in 1 .. Len(payload) /\ Len(payload) \in Nat
      BY <1>3
    <3>2. Into(t) = c - 2 * (m - 1)
      BY <1>2, <2>2 DEF Into, Offset
    <3>3. c \in Nat
      BY <2>2, LoadedFacts
    <3> QED BY <1>14, <3>1, <3>2, <3>3
  <2>4. c - 2 * (n - 1) = 0 /\ n - 1 = m /\ n > 1
    BY <1>14, <2>3
  <2>5. n <= Len(payload) + 1
    BY <1>3, <1>14
  <2>6. Into(a) = c - 2 * (n - 1)
    BY <1>13, <2>2, <2>3 DEF Into, Offset
  <2> QED BY <2>1, <2>4, <2>5, <2>6
<1>7. Members(a)
  BY <1>5, LimitsAssumption DEF Members
<1>8. Places(a)
  <2>1. a.phase = "WaitReceiveMode" => a.messageIndex <= Len(payload)
    BY <1>5 DEF NeedsReady
  <2>2. a.state \in OwningStates /\ a.phase \in {"Payload", "WaitReceiveMode"}
    BY <1>5 DEF OwningStates
  <2>3. a.messageIndex <= Len(payload) + 1
    BY <1>6, <1>13
  <2>4. a.wire = <<>>
    BY <1>5
  <2>5. /\ a.state \in OwningStates <=> a.phase # "Idle"
        /\ a.wire # <<>> => a.phase \in SendPhases \cup {"DrainCancellation"}
        /\ a.phase \notin {"DrainSds", "WaitSds"}
    BY <2>2, <2>4
  <2>6. a.phase = "Payload" => Into(a) \in 0 .. 1
    BY <1>6
  <2>7. a.phase \in Between \ {"DrainPayload"} => a.messageIndex <= Len(payload)
    BY <2>1, <2>2 DEF Between
  <2> QED BY <1>6, <2>3, <2>5, <2>6, <2>7 DEF Places
<1>9. Handshake(a)
  <2> SUFFICES ASSUME n <= Len(payload) PROVE Handshake(a)
    BY <1>5 DEF Handshake
  <2>1. payload[n].kind = "SdsPacket" => a.sdsActive
    <3>1. m # Len(payload)
      <4>1. m \in Nat /\ Len(payload) \in Nat /\ n = m + 1 /\ n <= Len(payload)
        <5>1. m \in Nat /\ Len(payload) \in Nat
          BY <1>3
        <5> QED BY <1>14, <5>1
      <4> QED BY <4>1
    <3> QED BY <1>4, <1>5, <3>1
  <2>2. payload[m].kind = "SdsHeader" => a.sdsActive
    BY <1>4, <1>5
  <2>3. Current(a) = payload[n] /\ payload[a.messageIndex - 1] = payload[m]
    BY <1>6, <1>13 DEF Current
  <2> QED BY <1>6, <2>1, <2>2, <2>3 DEF Handshake
<1>10. Screens(a)
  <2> SUFFICES ASSUME n <= Len(payload) PROVE Screens(a)
    BY <1>5 DEF Screens
  <2>1. payload[a.messageIndex - 1] = payload[m] /\ a.messageIndex = n
    BY <1>6, <1>13
  <2>2. t.model = "Monomachine" => a.receiveKind = payload[m].kind
    BY <1>2, <1>3, <1>5 DEF Stage, Screens, GivenUp
  <2>3. ASSUME t.model # "Monomachine", a.phase # "WaitReceiveMode"
        PROVE  ~NeedsUserOn(t.model, n)
    <3>1. ~payload[m].last \/ payload[n].kind = "SdsHeader"
      BY <1>5, <2>3 DEF NeedsReady, Current
    <3>2. payload[n - 1] = payload[m]
      BY <1>6
    <3> QED BY <2>3, <3>1, <3>2 DEF NeedsUserOn
  <2> QED BY <1>5, <1>6, <2>1, <2>2, <2>3 DEF Screens, ReadyFor
<1>11. Queued(a, queue)
  BY <1>3, <1>5, LimitsAssumption DEF Stage, Queued
<1>12. Outcome(a)
  BY <1>3, <1>5 DEF Outcome
<1> QED BY <1>1, <1>7, <1>8, <1>9, <1>10, <1>11, <1>12 DEF Stage

LEMMA SdsStage ==
    ASSUME NEW t, NEW queue, Loaded(t), Stage(t, queue), t.phase = "WaitSds"
    PROVE  Stage(ServiceSds(t), queue) /\ ServiceSds(t).model = t.model
<1> DEFINE first == SelectInSeq(t.responses, LAMBDA r : ForThisPacket(t, r))
           waits == t.sdsWaiting \/ (first # 0 /\ t.responses[first].kind = "WAIT")
           w == [t EXCEPT !.responses = <<>>, !.sdsWaiting = waits]
<1>1. \/ ServiceSds(t) = AbortPayload(w, "DeviceCancelled")
      \/ ServiceSds(t) = RetrySds(w)
      \/ ServiceSds(t) = Acknowledged(w)
      \/ ServiceSds(t) = AbortPayload(w, "ReplyTimedOut")
      \/ ServiceSds(t) = w
  BY DEF ServiceSds
<1>2. waits \in BOOLEAN
  OBVIOUS
<1>3. PICK a : a = w
  OBVIOUS
<1>4. /\ a \in HostType /\ a.responses = <<>> /\ a.transmit = t.transmit
      /\ a.phase = t.phase /\ a.state = t.state /\ a.wire = t.wire
      /\ a.messageIndex = t.messageIndex /\ a.payloadCursor = t.payloadCursor
      /\ a.sdsActive = t.sdsActive /\ a.sdsPacket = t.sdsPacket /\ a.id = t.id
      /\ a.model = t.model /\ a.receiveKind = t.receiveKind /\ a.error = t.error
  <2> HIDE DEF waits
  <2>1. <<>> \in Seq(ReplyType) /\ t \in HostType
    BY DEF Loaded
  <2> QED BY <1>2, <1>3, <2>1 DEF HostType
<1>5. Stage(a, queue)
  BY <1>4, LimitsAssumption, StageSame
<1>6. Loaded(a) /\ a.phase = "WaitSds" /\ a.phase \notin GivenUp
  BY <1>4 DEF Loaded, GivenUp
<1>7. {"DeviceCancelled", "ReplyTimedOut", "RetryLimit"} \subseteq Errors \ {"None"}
  BY DEF Errors
<1>8. ASSUME NEW error \in Errors \ {"None"}, NEW r, r = AbortPayload(a, error)
      PROVE  Stage(r, queue) /\ r.model = t.model
  BY <1>4, <1>5, <1>6, <1>8, AbortStage, AbortFields
<1>9. ASSUME NEW r, r = RetrySds(a) PROVE Stage(r, queue) /\ r.model = t.model
  <2>1. CASE RetriesSpent(a)
    <3>1. r = AbortPayload(a, "RetryLimit")
      BY <1>9, <2>1 DEF RetrySds
    <3> QED BY <1>7, <1>8, <3>1
  <2>2. CASE ~RetriesSpent(a)
    BY <1>4, <1>5, <1>6, <1>9, <2>2, RetryStage, RetryFields
  <2> QED BY <2>1, <2>2
<1>10. ASSUME NEW r, r = Acknowledged(a) PROVE Stage(r, queue) /\ r.model = t.model
  <2>1. Current(a).last \in BOOLEAN
    <3>1. a.messageIndex \in 1 .. Len(payload) /\ a.model \in Models
      BY <1>5, <1>6, Waiting, LoadedFacts
    <3> QED BY <1>6, <3>1, PayloadFacts DEF Loaded, Current
  <2> QED BY <1>4, <1>5, <1>6, <1>10, <2>1, AcknowledgedStage, AcknowledgedFields
<1> HIDE DEF w
<1>11. PICK r : r = ServiceSds(t)
  OBVIOUS
<1> QED BY <1>1, <1>3, <1>4, <1>5, <1>7, <1>8, <1>9, <1>10, <1>11

----------------------------------------------------------------------------
(* The negotiation: nothing of the payload moves.                          *)
Negotiates == SendPhases \cup DOMAIN Answer
                         \cup {"BeginNegotiation", "SettleLink", "WaitFallbackReset"}

\* What a step of the negotiation leaves of the host's members.
Onward(t, a) ==
    /\ a.transmit = t.transmit /\ Tails(a.responses, t.responses)
    /\ NoCancel(t.wire) => NoCancel(a.wire)
    /\ Members(a) /\ a.state \in OwningStates /\ a.phase \in Negotiates \cup {"Payload"}
    /\ a.wire # <<>> => a.phase \in SendPhases
    /\ a.messageIndex = t.messageIndex /\ a.payloadCursor = t.payloadCursor
    /\ a.sdsActive = t.sdsActive /\ a.sdsPacket = t.sdsPacket /\ a.id = t.id
    /\ a.model = t.model /\ a.receiveKind = t.receiveKind

\* The members an operator of the negotiation starts from.
Negotiating(t) ==
    /\ Members(t) /\ t.state \in OwningStates /\ t.phase \in Negotiates
    /\ t.wire # <<>> => t.phase \in SendPhases

LEMMA FirstIn ==
    ASSUME NEW I, I \subseteq Nat, I # {}
    PROVE  Min(I) \in I
<1>1. PICK x \in I : \A y \in I : ~ (<<y, x>> \in OpToRel(<, Nat))
  BY NatLessThanWellFounded, WFMin
<1>2. \A y \in I : ~(y < x)
  BY <1>1 DEF OpToRel
<1>3. \A y \in I : x =< y
  BY <1>2
<1> QED BY <1>1, <1>3 DEF Min

LEMMA TailsFacts ==
    ASSUME NEW S, NEW s \in Seq(S)
    PROVE  Tails(<<>>, s) /\ Tails(s, s)
<1>1. Tails(<<>>, s)
  BY DEF Tails
<1>2. \A a \in DOMAIN s : a + 0 \in DOMAIN s /\ s[a] = s[a + 0]
  OBVIOUS
<1>3. Tails(s, s)
  BY <1>2 DEF Tails
<1> QED BY <1>1, <1>3

LEMMA TailsTail ==
    ASSUME NEW S, NEW s \in Seq(S), NEW r \in Seq(S), NEW q \in Seq(S), Tails(q, r), Tails(r, s)
    PROVE  Tails(q, s)
<1>1. PICK k \in Nat : \A a \in DOMAIN q : a + k \in DOMAIN r /\ q[a] = r[a + k]
  BY DEF Tails
<1>2. PICK l \in Nat : \A a \in DOMAIN r : a + l \in DOMAIN s /\ r[a] = s[a + l]
  BY DEF Tails
<1>3. \A a \in DOMAIN q : a + (k + l) \in DOMAIN s /\ q[a] = s[a + (k + l)]
  <2> TAKE a \in DOMAIN q
  <2>1. /\ a + k \in DOMAIN r /\ q[a] = r[a + k]
        /\ (a + k) + l \in DOMAIN s /\ r[a + k] = s[(a + k) + l]
    BY <1>1, <1>2
  <2>2. a \in Nat /\ (a + k) + l = a + (k + l)
    OBVIOUS
  <2> QED BY <2>1, <2>2
<1>4. k + l \in Nat
  OBVIOUS
<1> QED BY <1>3, <1>4 DEF Tails

LEMMA LinkStage ==
    ASSUME NEW t, NEW queue, NEW a, Loaded(t), Stage(t, queue), t.phase \in Negotiates,
           Onward(t, a), OpenEnd(queue) => a.wire # <<>>
    PROVE  Stage(a, queue)
<1>1. Into(a) = Into(t) /\ Current(a) = Current(t) /\ \A i : ReadyFor(a, i) <=> ReadyFor(t, i)
  BY DEF Into, Current, ReadyFor, Onward
<1>2. /\ t.phase \in Between \ {"DrainPayload"} /\ t.phase # "WaitReceiveMode"
      /\ t.phase \notin GivenUp
  BY DEF Negotiates, SendPhases, WaitPhase, Answer, Between, Phases, GivenUp
<1>3. /\ a.phase \notin GivenUp
      /\ a.phase \notin {"DrainSds", "WaitSds", "WaitReceiveMode", "DrainCancellation", "Idle"}
  BY DEF Onward, Negotiates, SendPhases, WaitPhase, Answer, GivenUp
<1>4. /\ Into(t) = 0 /\ t.messageIndex <= Len(payload) /\ t.payloadCursor <= Size
      /\ t.messageIndex <= Len(payload) + 1
  BY <1>2 DEF Stage, Places
<1>5. Members(a)
  BY DEF Onward
<1>6. Places(a)
  <2>1. /\ a.state \in OwningStates <=> a.phase # "Idle"
        /\ a.wire # <<>> => a.phase \in SendPhases \cup {"DrainCancellation"}
    BY <1>3 DEF Onward
  <2>2. /\ a.messageIndex <= Len(payload) + 1 /\ a.payloadCursor <= Size
        /\ a.messageIndex <= Len(payload)
    BY <1>4 DEF Onward
  <2>3. Into(a) = 0 /\ Into(a) \in 0 .. 1
    BY <1>1, <1>4
  <2> QED BY <1>3, <2>1, <2>2, <2>3 DEF Places
<1>7. Handshake(a)
  BY <1>1, <1>2 DEF Stage, Handshake, Onward
<1>8. Screens(a)
  BY <1>1, <1>2 DEF Stage, Screens, Onward
<1>9. Queued(a, queue)
  BY <1>1, <1>2, <1>3 DEF Stage, Queued, Onward, GivenUp
<1>10. Outcome(a)
  <2>1. ~cancelled
    BY <1>2 DEF Stage, Outcome
  <2>2. a.state \notin {"Complete", "Failed", "Cancelled"}
    BY DEF Onward, OwningStates
  <2> QED BY <1>3, <2>1, <2>2 DEF Outcome
<1> QED BY <1>5, <1>6, <1>7, <1>8, <1>9, <1>10 DEF Stage

LEMMA BeginOnward ==
    ASSUME NEW t, Negotiating(t), t.wire = <<>>
    PROVE  Onward(t, BeginPayload(t))
<1>1. t \in HostType
  BY DEF Negotiating, Members
<1>2. PICK a : a = BeginPayload(t)
  OBVIOUS
<1>3. "Payload" \in Phases /\ "Sending" \in States /\ <<>> \in Seq(ReplyType)
  BY DEF Phases, States, OwningStates
<1>4. /\ a \in HostType /\ a.phase = "Payload" /\ a.state = "Sending" /\ a.responses = <<>>
      /\ a.transmit = t.transmit /\ a.wire = t.wire /\ a.messageIndex = t.messageIndex
      /\ a.payloadCursor = t.payloadCursor /\ a.sdsActive = t.sdsActive
      /\ a.sdsPacket = t.sdsPacket /\ a.id = t.id /\ a.model = t.model
      /\ a.receiveKind = t.receiveKind
  BY <1>1, <1>2, <1>3 DEF BeginPayload, HostType
<1>5. Members(a)
  BY <1>4, LimitsAssumption DEF Members
<1>6. Tails(a.responses, t.responses)
  BY <1>1, <1>4, TailsFacts DEF HostType
<1> QED BY <1>2, <1>4, <1>5, <1>6 DEF Onward, OwningStates

LEMMA FallBackOnward ==
    ASSUME NEW t, Negotiating(t), NEW waits \in BOOLEAN
    PROVE  /\ Onward(t, FallBack(t, waits))
           /\ FallBack(t, waits).wire = <<>>
<1>1. t \in HostType
  BY DEF Negotiating, Members
<1>2. PICK a : a = FallBack(t, waits)
  OBVIOUS
<1>3. /\ {"Payload", "WaitFallbackReset"} \subseteq Phases /\ "Sending" \in States
      /\ <<>> \in Seq(ReplyType) /\ <<>> \in Seq(HalfType)
  BY DEF Phases, States, OwningStates
<1>4. /\ a \in HostType /\ a.phase = IF waits THEN "WaitFallbackReset" ELSE "Payload"
      /\ a.state \in {t.state, "Sending"} /\ a.responses = <<>> /\ a.transmit = t.transmit
      /\ a.wire = <<>> /\ a.messageIndex = t.messageIndex
      /\ a.payloadCursor = t.payloadCursor /\ a.sdsActive = t.sdsActive
      /\ a.sdsPacket = t.sdsPacket /\ a.id = t.id /\ a.model = t.model
      /\ a.receiveKind = t.receiveKind
  <2>1. CASE waits
    BY <1>1, <1>2, <1>3, <2>1 DEF FallBack, HostType
  <2>2. CASE ~waits
    BY <1>1, <1>2, <1>3, <2>2 DEF FallBack, BeginPayload, HostType
  <2> QED BY <2>1, <2>2
<1>5. Members(a)
  BY <1>4, LimitsAssumption DEF Members
<1>6. a.state \in OwningStates /\ a.phase \in Negotiates \cup {"Payload"}
  BY <1>4 DEF Negotiating, OwningStates, Negotiates
<1>7. Tails(a.responses, t.responses) /\ NoCancel(a.wire)
  BY <1>1, <1>4, TailsFacts DEF HostType, NoCancel
<1> QED BY <1>2, <1>4, <1>5, <1>6, <1>7 DEF Onward

LEMMA QueueOnward ==
    ASSUME NEW t, Negotiating(t), NEW command \in DOMAIN SendPhase
    PROVE  Onward(t, QueueMessage(t, command)) /\ QueueMessage(t, command).wire # <<>>
<1>1. /\ t \in HostType /\ t.wire \in Seq(HalfType) /\ \A i \in DOMAIN t.wire : Command(t.wire[i])
      /\ Len(t.responses) <= ResponseCapacity
  BY DEF Negotiating, Members, HostType
<1>2. command \in Commands /\ command # "SdsCancel" /\ SendPhase[command] \in SendPhases
  BY DEF SendPhase, Commands, SendPhases, WaitPhase
<1>3. PICK w : w = t.wire \o Whole(command, 0)
  OBVIOUS
<1>4. /\ w \in Seq(HalfType) /\ w # <<>> /\ w[Len(w)].part = 2
      /\ \A i \in DOMAIN w : Command(w[i])
      /\ NoCancel(t.wire) => NoCancel(w)
  BY <1>1, <1>2, <1>3, CommandWire
<1>5. PICK p : p = SendPhase[command]
  OBVIOUS
<1>6. PICK a : a = [t EXCEPT !.wire = w, !.phase = p, !.phaseTime = 0]
  OBVIOUS
<1>7. p \in SendPhases /\ p \in Phases
  BY <1>2, <1>5 DEF SendPhases, WaitPhase, Phases
<1>8. /\ a \in HostType /\ a.phase = p /\ a.state = t.state /\ a.responses = t.responses
      /\ a.transmit = t.transmit
      /\ a.wire = w /\ a.messageIndex = t.messageIndex
      /\ a.payloadCursor = t.payloadCursor /\ a.sdsActive = t.sdsActive
      /\ a.sdsPacket = t.sdsPacket /\ a.id = t.id /\ a.model = t.model
      /\ a.receiveKind = t.receiveKind
  BY <1>1, <1>4, <1>6, <1>7 DEF HostType
<1>9. Members(a)
  BY <1>1, <1>4, <1>8 DEF Members
<1>10. a = QueueMessage(t, command)
  BY <1>3, <1>5, <1>6 DEF QueueMessage
<1>11. Tails(a.responses, t.responses)
  BY <1>1, <1>8, TailsFacts DEF HostType
<1> QED BY <1>4, <1>7, <1>8, <1>9, <1>10, <1>11 DEF Onward, Negotiating, Negotiates

LEMMA AnsweredOnward ==
    ASSUME NEW t, Negotiating(t), t.phase \in DOMAIN Answer, t.wire = <<>>, NEW good
    PROVE  Onward(t, Answered(t, good))
<1>1. PICK a : a = Answered(t, good)
  OBVIOUS
<1>2. \/ a = FallBack(t, t.phase \in LinkTests)
      \/ a = [t EXCEPT !.phase = "SettleLink", !.phaseTime = 0]
      \/ t.phase # "WaitSecondTestResult" /\ a = QueueMessage(t, NextCommand[t.phase])
  BY <1>1 DEF Answered
<1>3. CASE a = FallBack(t, t.phase \in LinkTests)
  <2>1. (t.phase \in LinkTests) \in BOOLEAN
    OBVIOUS
  <2> QED BY <1>1, <1>3, <2>1, FallBackOnward
<1>4. CASE a = [t EXCEPT !.phase = "SettleLink", !.phaseTime = 0]
  <2>1. t \in HostType /\ "SettleLink" \in Phases
    BY DEF Negotiating, Members, Phases
  <2>2. /\ a \in HostType /\ a.phase = "SettleLink" /\ a.state = t.state
        /\ a.responses = t.responses /\ a.transmit = t.transmit
        /\ a.wire = t.wire /\ a.messageIndex = t.messageIndex
        /\ a.payloadCursor = t.payloadCursor /\ a.sdsActive = t.sdsActive
        /\ a.sdsPacket = t.sdsPacket /\ a.id = t.id /\ a.model = t.model
        /\ a.receiveKind = t.receiveKind
    BY <1>4, <2>1 DEF HostType
  <2>3. Members(a)
    BY <2>2 DEF Members, Negotiating
  <2>4. Tails(a.responses, t.responses)
    BY <2>1, <2>2, TailsFacts DEF HostType
  <2> QED BY <1>1, <2>2, <2>3, <2>4 DEF Onward, Negotiating, Negotiates
<1>5. CASE t.phase # "WaitSecondTestResult" /\ a = QueueMessage(t, NextCommand[t.phase])
  <2>1. NextCommand[t.phase] \in DOMAIN SendPhase
    BY <1>5 DEF NextCommand, SendPhase, Answer
  <2> QED BY <1>1, <1>5, <2>1, QueueOnward
<1> QED BY <1>2, <1>3, <1>4, <1>5

LEMMA AwaitOnward ==
    ASSUME NEW t, Negotiating(t), t.phase \in DOMAIN Answer, t.wire = <<>>
    PROVE  Onward(t, AwaitAnswer(t))
<1> DEFINE I == {i \in 1 .. Len(t.responses) : t.responses[i].kind = Answer[t.phase]}
           k == IF I # {} THEN Min(I) ELSE 0
<1>1. /\ t \in HostType /\ t.responses \in Seq(ReplyType) /\ Len(t.responses) \in Nat
      /\ Len(t.responses) <= ResponseCapacity
  BY DEF Negotiating, Members, HostType
<1>2. k \in 0 .. Len(t.responses)
  <2>1. I # {} => Min(I) \in I
    <3>1. I \subseteq Nat
      OBVIOUS
    <3> HIDE DEF I
    <3> QED BY <3>1, FirstIn
  <2> QED BY <1>1, <2>1
<1>3. k = SelectInSeq(t.responses, LAMBDA r : r.kind = Answer[t.phase])
  BY DEF SelectInSeq
<1> HIDE DEF k
<1>4. PICK rest : rest = From(t.responses, k)
  OBVIOUS
<1>5. rest \in Seq(ReplyType) /\ Len(rest) <= ResponseCapacity /\ Tails(rest, t.responses)
  <2>1. CASE k = 0
    BY <1>1, <1>4, <2>1, LimitsAssumption, TailsFacts DEF From
  <2>2. CASE k # 0
    <3>1. PICK n : n = Len(t.responses)
      OBVIOUS
    <3>2. n \in Nat /\ k + 1 \in Int /\ k + 1 > 0 /\ k \in Nat /\ n <= ResponseCapacity
      BY <1>1, <1>2, <3>1
    <3>3. \A i \in k + 1 .. n : t.responses[i] \in ReplyType
      BY <1>1, <3>1, <3>2, ElementOfSeq
    <3>4. /\ SubSeq(t.responses, k + 1, n) \in Seq(ReplyType)
          /\ Len(SubSeq(t.responses, k + 1, n)) = IF k + 1 <= n THEN n - (k + 1) + 1 ELSE 0
          /\ \A i \in 1 .. Len(SubSeq(t.responses, k + 1, n)) :
                SubSeq(t.responses, k + 1, n)[i] = t.responses[k + 1 + i - 1]
      BY <3>2, <3>3, SubSeqProperties
    <3>5. Len(SubSeq(t.responses, k + 1, n)) <= ResponseCapacity
      BY <3>2, <3>4, LimitsAssumption
    <3>6. rest = SubSeq(t.responses, k + 1, n)
      BY <1>4, <2>2, <3>1 DEF From
    <3>7. \A a \in DOMAIN rest : a + k \in DOMAIN t.responses /\ rest[a] = t.responses[a + k]
      <4> TAKE a \in DOMAIN rest
      <4>1. a \in 1 .. Len(rest) /\ rest[a] = t.responses[k + 1 + a - 1]
        BY <3>4, <3>6
      <4>2. PICK l : l = Len(rest)
        OBVIOUS
      <4>3. a \in 1 .. l /\ l = IF k + 1 <= n THEN n - (k + 1) + 1 ELSE 0
        BY <3>4, <3>6, <4>1, <4>2
      <4>4. k + 1 + a - 1 = a + k /\ a + k \in 1 .. n
        BY <3>2, <4>3
      <4> QED BY <1>1, <3>1, <4>1, <4>4
    <3>8. Tails(rest, t.responses)
      BY <3>2, <3>7 DEF Tails
    <3> QED BY <3>4, <3>5, <3>6, <3>8
  <2> QED BY <2>1, <2>2
<1>6. PICK taken : taken = [t EXCEPT !.responses = rest]
  OBVIOUS
<1>7. /\ taken \in HostType /\ taken.phase = t.phase /\ taken.state = t.state
      /\ taken.responses = rest /\ taken.transmit = t.transmit
      /\ taken.wire = t.wire /\ taken.messageIndex = t.messageIndex
      /\ taken.payloadCursor = t.payloadCursor /\ taken.sdsActive = t.sdsActive
      /\ taken.sdsPacket = t.sdsPacket /\ taken.id = t.id /\ taken.model = t.model
      /\ taken.receiveKind = t.receiveKind
  BY <1>1, <1>5, <1>6 DEF HostType
<1>8. Members(taken)
  BY <1>5, <1>7 DEF Members, Negotiating
<1>9. Negotiating(taken)
  BY <1>7, <1>8 DEF Negotiating
<1>10. PICK a : a = AwaitAnswer(t)
  OBVIOUS
<1>11. \/ \E good : a = Answered(taken, good)
       \/ a = FallBack(taken, t.phase \in LinkTests)
       \/ a = taken
  <2>1. a = IF k # 0 THEN Answered(taken, t.responses[k].good)
            ELSE IF t.phaseTime = PhaseLimit THEN FallBack(taken, t.phase \in LinkTests)
            ELSE taken
    BY <1>3, <1>4, <1>6, <1>10 DEF AwaitAnswer
  <2> QED BY <2>1
<1>12. Onward(taken, a)
  <2>1. CASE \E good : a = Answered(taken, good)
    BY <1>7, <1>9, <2>1, AnsweredOnward
  <2>2. CASE a = FallBack(taken, t.phase \in LinkTests)
    <3>1. (t.phase \in LinkTests) \in BOOLEAN
      OBVIOUS
    <3> QED BY <1>9, <2>2, <3>1, FallBackOnward
  <2>3. CASE a = taken
    BY <1>1, <1>5, <1>7, <1>9, <2>3, TailsFacts DEF Onward, Negotiating
  <2> QED BY <1>11, <2>1, <2>2, <2>3
<1>13. Tails(a.responses, t.responses)
  <2>1. a.responses \in Seq(ReplyType) /\ Tails(a.responses, rest)
    BY <1>7, <1>12 DEF Onward, Members, HostType
  <2> QED BY <1>1, <1>5, <2>1, TailsTail
<1>14. Onward(t, a)
  BY <1>7, <1>12, <1>13 DEF Onward
<1> QED BY <1>10, <1>14

LEMMA NegotiationStage ==
    ASSUME NEW t, NEW queue, Loaded(t), Stage(t, queue)
    PROVE  /\ Stage(ServiceNegotiation(t), queue) /\ ServiceNegotiation(t).model = t.model
           /\ \/ ServiceNegotiation(t) = t
              \/ t.phase \in Negotiates /\ Onward(t, ServiceNegotiation(t))
<1>1. PICK a : a = ServiceNegotiation(t)
  OBVIOUS
<1>2. CASE t.phase = "BeginNegotiation"
  <2>1. PICK b : b = [t EXCEPT !.captureTransmit = TRUE, !.state = "NegotiatingTurbo"]
    OBVIOUS
  <2>2. t \in HostType /\ "NegotiatingTurbo" \in States
    BY DEF Loaded, States, OwningStates
  <2>3. /\ b \in HostType /\ b.phase = t.phase /\ b.state = "NegotiatingTurbo"
        /\ b.responses = t.responses /\ b.transmit = t.transmit
        /\ b.wire = t.wire /\ b.messageIndex = t.messageIndex
        /\ b.payloadCursor = t.payloadCursor /\ b.sdsActive = t.sdsActive
        /\ b.sdsPacket = t.sdsPacket /\ b.id = t.id /\ b.model = t.model
        /\ b.receiveKind = t.receiveKind
    BY <2>1, <2>2 DEF HostType
  <2>4. Members(b)
    BY <2>3 DEF Stage, Members
  <2>5. t.wire = <<>>
    BY <1>2 DEF Stage, Places, SendPhases, WaitPhase
  <2>6. Negotiating(b)
    BY <1>2, <2>3, <2>4, <2>5 DEF Negotiating, Negotiates, OwningStates
  <2>7. a = QueueMessage(b, "SpeedRequest")
    BY <1>1, <1>2, <2>1 DEF ServiceNegotiation
  <2>8. Onward(b, a) /\ a.wire # <<>>
    BY <2>6, <2>7, QueueOnward DEF SendPhase
  <2>9. Onward(t, a)
    BY <2>3, <2>8 DEF Onward
  <2>10. Stage(a, queue)
    BY <1>2, <2>8, <2>9, LinkStage DEF Negotiates
  <2> QED BY <1>1, <1>2, <2>9, <2>10 DEF Onward, Negotiates
<1>3. CASE t.phase \in DOMAIN Answer
  <2>1. /\ t.phase \notin SendPhases \cup {"BeginNegotiation", "DrainCancellation", "Idle",
                                           "Payload", "DrainSds", "WaitSds"}
        /\ t.phase \in Negotiates
    BY <1>3 DEF Answer, SendPhases, WaitPhase, Negotiates
  <2>2. t.wire = <<>> /\ t.state \in OwningStates
    BY <2>1 DEF Stage, Places
  <2>3. Negotiating(t)
    BY <2>1, <2>2 DEF Negotiating, Stage
  <2>4. ~OpenEnd(queue)
    BY <2>1, <2>2 DEF Stage, Queued
  <2>5. a = AwaitAnswer(t)
    BY <1>1, <1>3, <2>1 DEF ServiceNegotiation
  <2>6. Onward(t, a)
    BY <1>3, <2>2, <2>3, <2>5, AwaitOnward
  <2>7. Stage(a, queue)
    BY <2>1, <2>4, <2>6, LinkStage
  <2> QED BY <1>1, <2>1, <2>6, <2>7 DEF Onward
<1>4. CASE t.phase \in {"SettleLink", "WaitFallbackReset"} /\ a = BeginPayload(t)
  <2>1. t.phase \in Negotiates /\ t.phase # "Idle"
    BY <1>4 DEF Negotiates
  <2>2. t.wire = <<>> /\ t.state \in OwningStates
    BY <1>4 DEF Stage, Places, SendPhases, WaitPhase
  <2>3. Negotiating(t)
    BY <2>1, <2>2 DEF Negotiating, Stage
  <2>4. ~OpenEnd(queue)
    BY <1>4, <2>2 DEF Stage, Queued
  <2>5. Onward(t, a)
    BY <1>4, <2>2, <2>3, BeginOnward
  <2>6. Stage(a, queue)
    BY <2>1, <2>4, <2>5, LinkStage
  <2> QED BY <1>1, <2>1, <2>5, <2>6 DEF Onward
<1>5. CASE a = t
  BY <1>1, <1>5
<1> QED BY <1>1, <1>2, <1>3, <1>4, <1>5 DEF ServiceNegotiation

----------------------------------------------------------------------------
(* The pump.                                                               *)
LEMMA QueueAppend ==
    ASSUME NEW queue \in Seq(HalfType), NEW h \in HalfType
    PROVE  /\ queue \o <<h>> \in Seq(HalfType) /\ queue \o <<h>> # <<>>
           /\ Len(queue \o <<h>>) = Len(queue) + 1
           /\ \A i \in DOMAIN (queue \o <<h>>) :
                \/ i \in DOMAIN queue /\ (queue \o <<h>>)[i] = queue[i]
                \/ (queue \o <<h>>)[i] = h
           /\ (queue \o <<h>>)[Len(queue \o <<h>>)] = h
<1>1. PICK q : q = Append(queue, h)
  OBVIOUS
<1>2. q = queue \o <<h>>
  BY <1>1, AppendIsConcat
<1>3. /\ q \in Seq(HalfType) /\ q # <<>> /\ Len(q) = Len(queue) + 1
      /\ \A i \in 1 .. Len(queue) : q[i] = queue[i]
      /\ q[Len(queue) + 1] = h
  BY <1>1, AppendProperties
<1>4. Len(queue) \in Nat /\ DOMAIN queue = 1 .. Len(queue) /\ DOMAIN q = 1 .. Len(queue) + 1
  BY <1>3
<1>5. \A i \in DOMAIN q : i \in 1 .. Len(queue) \/ i = Len(queue) + 1
  BY <1>4
<1> QED BY <1>2, <1>3, <1>4, <1>5

\* One half of a command leaves the wire.
LEMMA WirePumped ==
    ASSUME NEW t, NEW queue, Stage(t, queue), t.wire # <<>>, Len(queue) < PortCapacity,
           NEW a, a = [t EXCEPT !.wire = Tail(@)]
    PROVE  Stage(a, queue \o <<Head(t.wire)>>) /\ a.model = t.model
<1>1. /\ t \in HostType /\ t.wire \in Seq(HalfType) /\ queue \in Seq(HalfType)
      /\ Len(queue) \in Nat /\ Len(queue) <= PortCapacity
      /\ \A i \in DOMAIN t.wire : Command(t.wire[i])
      /\ t.wire[Len(t.wire)].part = 2
  BY DEF Stage, Members, HostType, Queued
<1>2. PICK h : h = Head(t.wire)
  OBVIOUS
<1>3. PICK w : w = Tail(t.wire)
  OBVIOUS
<1>4. PICK n : n = Len(t.wire)
  OBVIOUS
<1>5. /\ h \in HalfType /\ w \in Seq(HalfType) /\ Len(w) = n - 1 /\ n \in Nat \ {0}
      /\ \A i \in 1 .. Len(w) : w[i] = t.wire[i + 1]
      /\ DOMAIN t.wire = 1 .. n
  BY <1>1, <1>2, <1>3, <1>4, HeadTailProperties, EmptySeq
<1>6. h = t.wire[1] /\ Command(h)
  <2>1. h = t.wire[1]
    BY <1>1, <1>2
  <2>2. 1 \in DOMAIN t.wire
    BY <1>5
  <2> QED BY <1>1, <2>1, <2>2
<1>7. h.at = 0 /\ h.kind \notin SdsKinds
  BY <1>6 DEF Command, Eox, Half, Commands, SdsKinds
<1>8. \A i \in DOMAIN w : Command(w[i])
  <2> TAKE i \in DOMAIN w
  <2>1. i \in 1 .. n - 1 /\ DOMAIN w = 1 .. Len(w)
    BY <1>5
  <2>2. i + 1 \in 1 .. n
    BY <1>5, <2>1
  <2> QED BY <1>1, <1>5, <2>1, <2>2
<1>9. w # <<>> => w[Len(w)].part = 2
  <2> SUFFICES ASSUME w # <<>> PROVE w[Len(w)].part = 2
    OBVIOUS
  <2>1. n - 1 \in 1 .. n - 1 /\ (n - 1) + 1 = n
    BY <1>5, EmptySeq
  <2>2. w[n - 1] = t.wire[n]
    BY <1>5, <2>1
  <2> QED BY <1>1, <1>4, <1>5, <2>2
<1>10. w = <<>> => h.part = 2
  <2> SUFFICES ASSUME w = <<>> PROVE h.part = 2
    OBVIOUS
  <2>1. n = 1
    BY <1>5
  <2> QED BY <1>1, <1>4, <1>6, <2>1
<1>11. /\ a \in HostType /\ a.wire = w /\ a.phase = t.phase /\ a.state = t.state
       /\ a.responses = t.responses /\ a.transmit = t.transmit
       /\ a.captureTransmit = t.captureTransmit /\ a.error = t.error
       /\ a.messageIndex = t.messageIndex
       /\ a.payloadCursor = t.payloadCursor /\ a.sdsActive = t.sdsActive
       /\ a.sdsPacket = t.sdsPacket /\ a.id = t.id /\ a.model = t.model
       /\ a.receiveKind = t.receiveKind
  BY <1>1, <1>3, <1>5 DEF HostType
<1>12. Into(a) = Into(t) /\ Current(a) = Current(t) /\ \A i : ReadyFor(a, i) <=> ReadyFor(t, i)
  BY <1>11 DEF Into, Current, ReadyFor
<1>13. Members(a)
  BY <1>8, <1>9, <1>11 DEF Stage, Members
<1>14. Places(a)
  BY <1>11, <1>12 DEF Stage, Places
<1>15. Handshake(a) /\ Screens(a)
  BY <1>11, <1>12 DEF Stage, Handshake, Screens
<1>16. PICK q : q = queue \o <<h>>
  OBVIOUS
<1>17. /\ q \in Seq(HalfType) /\ q # <<>> /\ Len(q) = Len(queue) + 1
       /\ \A i \in DOMAIN q : (i \in DOMAIN queue /\ q[i] = queue[i]) \/ q[i] = h
       /\ q[Len(q)] = h
  BY <1>1, <1>5, <1>16, QueueAppend
<1>18. Queued(a, q)
  <2>1. Len(q) <= PortCapacity
    BY <1>1, <1>17, LimitsAssumption
  <2>2. a.phase \notin {"Idle", "WaitSds", "WaitReceiveMode"}
    BY <1>11 DEF Stage, Places, SendPhases, WaitPhase
  <2>3. OpenEnd(q) => a.wire # <<>>
    BY <1>10, <1>11, <1>17 DEF OpenEnd
  <2>4. \A i \in DOMAIN q :
            /\ Command(q[i]) \/ OfPayload(q[i])
            /\ q[i].kind \in SdsKinds /\ a.phase # "DrainCancellation" => q[i].at = a.messageIndex
            /\ q[i].at # 0 => ReadyFor(a, q[i].at)
    BY <1>6, <1>7, <1>11, <1>12, <1>17 DEF Stage, Queued
  <2> QED BY <1>17, <2>1, <2>2, <2>3, <2>4 DEF Queued
<1>19. Outcome(a)
  BY <1>11 DEF Stage, Outcome
<1> QED BY <1>2, <1>11, <1>13, <1>14, <1>15, <1>16, <1>18, <1>19 DEF Stage

\* Where the pump finds a payload that is not at its end.
LEMMA Pumping ==
    ASSUME NEW t, NEW queue, Loaded(t), Stage(t, queue), PayloadLeft(t)
    PROVE  /\ t.phase = "Payload" /\ t.wire = <<>> /\ Into(t) \in {0, 1}
           /\ t.messageIndex \in 1 .. Len(payload) /\ ~cancelled
           /\ AtMessageStart(t) <=> Into(t) = 0
           /\ OpenEnd(queue) => Into(t) = 1
<1>1. t.phase = "Payload" /\ t.payloadCursor < Size
  BY DEF PayloadLeft
<1>2. /\ t.wire = <<>> /\ Into(t) \in 0 .. 1 /\ ~cancelled
      /\ OpenEnd(queue) => Into(t) = 1
  BY <1>1 DEF Stage, Places, Queued, Outcome, SendPhases, WaitPhase, GivenUp
<1>3. PICK m, c, n : m = t.messageIndex /\ c = t.payloadCursor /\ n = Len(payload)
  OBVIOUS
<1>4. /\ m \in Nat \ {0} /\ c \in Nat /\ n \in Nat /\ c < 2 * n
      /\ c - 2 * (m - 1) \in 0 .. 1 /\ Into(t) = c - 2 * (m - 1)
  BY <1>1, <1>2, <1>3, LoadedFacts DEF Into, Offset
<1>5. m \in 1 .. n /\ Into(t) \in {0, 1}
  BY <1>4
<1>6. AtMessageStart(t) <=> Into(t) = 0
  BY <1>3, <1>4 DEF AtMessageStart, Offset
<1> QED BY <1>1, <1>2, <1>3, <1>5, <1>6

LEMMA OtherScreenStage ==
    ASSUME NEW t, NEW queue, Loaded(t), Stage(t, queue), PayloadLeft(t), NeedsOtherScreen(t),
           NEW a, a = [t EXCEPT !.phase = "DrainReceiveMode"]
    PROVE  Stage(a, queue) /\ a.model = t.model
<1>1. /\ t.phase = "Payload" /\ t.wire = <<>> /\ t.messageIndex \in 1 .. Len(payload)
      /\ ~cancelled /\ Into(t) = 0 /\ ~OpenEnd(queue) /\ t.model = "Monomachine"
  <2>1. Into(t) = 0 /\ t.model = "Monomachine"
    BY Pumping DEF NeedsOtherScreen
  <2> QED BY <2>1, Pumping
<1>2. t \in HostType /\ "DrainReceiveMode" \in Phases
  BY DEF Loaded, Phases
<1>3. /\ a \in HostType /\ a.phase = "DrainReceiveMode" /\ a.wire = t.wire /\ a.state = t.state
      /\ a.responses = t.responses /\ a.messageIndex = t.messageIndex
      /\ a.payloadCursor = t.payloadCursor /\ a.sdsActive = t.sdsActive
      /\ a.sdsPacket = t.sdsPacket /\ a.id = t.id /\ a.model = t.model
      /\ a.receiveKind = t.receiveKind
  BY <1>2 DEF HostType
<1>4. Into(a) = Into(t) /\ Current(a) = Current(t) /\ \A i : ReadyFor(a, i) <=> ReadyFor(t, i)
  BY <1>3 DEF Into, Current, ReadyFor
<1>5. Members(a)
  BY <1>3 DEF Stage, Members
<1>6. Places(a)
  <2>1. t.state \in OwningStates /\ t.messageIndex <= Len(payload) + 1 /\ t.payloadCursor <= Size
    BY <1>1 DEF Stage, Places
  <2>2. t.messageIndex <= Len(payload)
    BY <1>1, LoadedFacts
  <2> QED BY <1>1, <1>3, <1>4, <2>1, <2>2 DEF Places
<1>7. Handshake(a) /\ Screens(a)
  BY <1>1, <1>3, <1>4 DEF Stage, Handshake, Screens, GivenUp
<1>8. Queued(a, queue)
  BY <1>1, <1>3, <1>4 DEF Stage, Queued
<1>9. Outcome(a)
  BY <1>1, <1>3 DEF Stage, Outcome, OwningStates
<1> QED BY <1>3, <1>5, <1>6, <1>7, <1>8, <1>9 DEF Stage

\* Opening a message leaves the handshake about it, and it may be sent.
LEMMA OpenedStage ==
    ASSUME NEW t, NEW queue, Loaded(t), Stage(t, queue), PayloadLeft(t), ~NeedsOtherScreen(t)
    PROVE  LET b == Opened(t) IN
           /\ Stage(b, queue) /\ Loaded(b) /\ PayloadLeft(b)
           /\ b.phase = t.phase /\ b.messageIndex = t.messageIndex
           /\ b.payloadCursor = t.payloadCursor /\ b.model = t.model
           /\ b.state = t.state /\ b.wire = t.wire
           /\ b.responses = t.responses /\ b.transmit = t.transmit
           /\ Current(b).kind \in SdsKinds =>
                /\ b.sdsActive
                /\ b.sdsPacket = IF Current(b).kind = "SdsHeader" THEN 0 ELSE Current(b).packet
           /\ ReadyFor(b, b.messageIndex)
           /\ b.model = "Monomachine" => b.receiveKind = Current(b).kind
<1>1. /\ t.phase = "Payload" /\ t.wire = <<>> /\ Into(t) \in {0, 1}
      /\ t.messageIndex \in 1 .. Len(payload) /\ ~cancelled
      /\ AtMessageStart(t) <=> Into(t) = 0
      /\ OpenEnd(queue) => Into(t) = 1
  BY Pumping
<1>2. PICK b : b = Opened(t)
  OBVIOUS
<1>3. PICK c : c = Current(t)
  OBVIOUS
<1>4. t.messageIndex <= Len(payload) /\ t \in HostType /\ t.model \in Models
  BY <1>1, LoadedFacts DEF Loaded
<1>5. c.kind = "SdsPacket" => c.packet \in 0 .. PacketModulus - 1
  BY <1>1, <1>3, <1>4, PayloadFacts DEF Loaded, Current
<1>6. /\ b \in HostType /\ b.phase = t.phase /\ b.wire = t.wire /\ b.state = t.state
      /\ b.responses = t.responses /\ b.transmit = t.transmit /\ b.error = t.error
      /\ b.captureTransmit = t.captureTransmit
      /\ b.messageIndex = t.messageIndex /\ b.payloadCursor = t.payloadCursor
      /\ b.id = t.id /\ b.model = t.model /\ b.receiveKind = t.receiveKind
  <2>1. 0 \in 0 .. PacketModulus - 1 /\ TRUE \in BOOLEAN
    BY LimitsAssumption
  <2>2. PICK p : p = c.packet
    OBVIOUS
  <2>3. \/ b = [t EXCEPT !.sdsActive = TRUE, !.sdsPacket = 0]
        \/ c.kind = "SdsPacket" /\ b = [t EXCEPT !.sdsPacket = p]
        \/ b = t
    BY <1>2, <1>3, <2>2 DEF Opened
  <2>4. CASE b = [t EXCEPT !.sdsActive = TRUE, !.sdsPacket = 0]
    BY <1>4, <2>1, <2>4 DEF HostType
  <2>5. CASE c.kind = "SdsPacket" /\ b = [t EXCEPT !.sdsPacket = p]
    <3>1. p \in 0 .. PacketModulus - 1
      BY <1>5, <2>2, <2>5
    <3> QED BY <1>4, <2>5, <3>1 DEF HostType
  <2>6. CASE b = t
    BY <1>4, <2>6
  <2> QED BY <2>3, <2>4, <2>5, <2>6
<1>7. /\ Into(t) = 0 /\ c.kind = "SdsHeader" => b.sdsActive = TRUE /\ b.sdsPacket = 0
      /\ Into(t) = 0 /\ c.kind = "SdsPacket" => b.sdsActive = t.sdsActive /\ b.sdsPacket = c.packet
      /\ Into(t) # 0 \/ c.kind \notin SdsKinds => b = t
  BY <1>1, <1>2, <1>3, <1>4, <1>6 DEF Opened, HostType, SdsKinds
<1>8. /\ c.kind = "SdsPacket" => t.sdsActive
      /\ c.kind = "SampleName" /\ t.messageIndex > 1 =>
            (payload[t.messageIndex - 1].kind = "SdsHeader" => t.sdsActive)
      /\ c.kind \in SdsKinds /\ Into(t) > 0 =>
            /\ t.sdsActive
            /\ t.sdsPacket = IF c.kind = "SdsHeader" THEN 0 ELSE c.packet
  BY <1>1, <1>3, <1>4 DEF Stage, Handshake, GivenUp
<1>9. c.kind \in SdsKinds =>
        b.sdsActive /\ b.sdsPacket = IF c.kind = "SdsHeader" THEN 0 ELSE c.packet
  <2> SUFFICES ASSUME c.kind \in SdsKinds
               PROVE  b.sdsActive /\ b.sdsPacket = IF c.kind = "SdsHeader" THEN 0 ELSE c.packet
    OBVIOUS
  <2>1. CASE Into(t) = 0
    BY <1>7, <1>8, <2>1 DEF SdsKinds
  <2>2. CASE Into(t) # 0
    <3>1. Into(t) > 0 /\ b = t
      BY <1>1, <1>7, <2>2
    <3> QED BY <1>8, <3>1
  <2> QED BY <2>1, <2>2
<1>10. Into(b) = Into(t) /\ Current(b) = c /\ \A i : ReadyFor(b, i) <=> ReadyFor(t, i)
  BY <1>3, <1>6 DEF Into, Current, ReadyFor
<1>11. ReadyFor(t, t.messageIndex) /\ (t.model = "Monomachine" => t.receiveKind = c.kind)
  <2>1. CASE t.model = "Monomachine"
    <3>1. Into(t) = 0 => t.receiveKind = c.kind
      BY <1>1, <1>3, <2>1 DEF NeedsOtherScreen
    <3>2. \/ t.receiveKind = c.kind /\ ReadyFor(t, t.messageIndex)
          \/ /\ Into(t) = 0 /\ t.messageIndex > 1
             /\ t.receiveKind = payload[t.messageIndex - 1].kind
      BY <1>1, <1>3, <1>4, <2>1 DEF Stage, Screens, GivenUp
    <3>3. c.kind = payload[t.messageIndex - 1].kind => ReadyFor(t, t.messageIndex)
      BY <1>3, <2>1 DEF ReadyFor, NeedsUserOn, Current
    <3> QED BY <3>1, <3>2, <3>3
  <2>2. CASE t.model # "Monomachine"
    BY <1>1, <1>4, <2>2 DEF Stage, Screens, GivenUp
  <2> QED BY <2>1, <2>2
<1>12. Members(b)
  BY <1>6 DEF Stage, Members
<1>13. Places(b)
  BY <1>3, <1>6, <1>10 DEF Stage, Places
<1>14. Handshake(b)
  <2>1. c.kind = "SdsPacket" => b.sdsActive
    BY <1>9 DEF SdsKinds
  <2>2. c.kind = "SampleName" => b.sdsActive = t.sdsActive
    BY <1>7 DEF SdsKinds
  <2> QED BY <1>6, <1>8, <1>9, <1>10, <2>1, <2>2 DEF Handshake
<1>15. Screens(b)
  BY <1>6, <1>10, <1>11 DEF Screens
<1>16. Queued(b, queue)
  BY <1>6, <1>10 DEF Stage, Queued
<1>17. Outcome(b)
  BY <1>6 DEF Stage, Outcome
<1>18. Loaded(b) /\ PayloadLeft(b)
  BY <1>6 DEF Loaded, PayloadLeft, Size
<1> QED BY <1>2, <1>6, <1>9, <1>10, <1>11, <1>12, <1>13, <1>14, <1>15, <1>16, <1>17, <1>18
        DEF Stage

\* A half of the payload goes into the port.
LEMMA AdmittedStage ==
    ASSUME NEW b, NEW queue, Loaded(b), Stage(b, queue), PayloadLeft(b),
           Len(queue) < PortCapacity,
           Current(b).kind \in SdsKinds =>
                /\ b.sdsActive
                /\ b.sdsPacket = IF Current(b).kind = "SdsHeader" THEN 0 ELSE Current(b).packet,
           ReadyFor(b, b.messageIndex),
           b.model = "Monomachine" => b.receiveKind = Current(b).kind
    PROVE  /\ Stage(Admitted(b), queue \o <<NextHalf(b)>>)
           /\ Admitted(b).model = b.model
<1>1. PICK m, c, n, l : m = b.messageIndex /\ c = b.payloadCursor /\ n = m + 1 /\ l = Len(payload)
  OBVIOUS
<1>2. /\ b.phase = "Payload" /\ b.wire = <<>> /\ Into(b) \in {0, 1} /\ ~cancelled
      /\ m \in 1 .. l
  BY <1>1, Pumping
<1>3. /\ m \in Nat \ {0} /\ c \in Nat /\ l \in Nat /\ Into(b) = c - 2 * (m - 1) /\ Size = 2 * l
      /\ b.model \in Models /\ b \in HostType
  BY <1>1, LoadedFacts DEF Into, Offset, Loaded
<1>4. n \in Nat \ {0} /\ n - 1 = m /\ n > 1 /\ m <= l /\ n <= l + 1
  <2>1. m \in Nat \ {0} /\ l \in Nat /\ m \in 1 .. l /\ n = m + 1
    BY <1>1, <1>2, <1>3
  <2> QED BY <2>1
<1>5. PICK k : k = payload[m].kind
  OBVIOUS
<1>6. /\ Current(b) = payload[m] /\ k \in MessageKinds /\ payload[m].packet \in Nat
      /\ payload[m].last \in BOOLEAN /\ (payload[m].last => k = "SdsPacket")
  BY <1>1, <1>2, <1>3, <1>5, PayloadFacts DEF Loaded, Current
<1>7. PICK h : h = NextHalf(b)
  OBVIOUS
<1>8. /\ h \in HalfType /\ h.kind = k /\ h.at = m /\ OfPayload(h)
      /\ h.part = IF Into(b) = 0 THEN 1 ELSE 2
  <2>1. PICK part : part = Into(b) + 1
    OBVIOUS
  <2>2. h = [kind |-> k, at |-> m, packet |-> payload[m].packet, part |-> part]
    BY <1>1, <1>5, <1>6, <1>7, <2>1 DEF NextHalf, Half, Into
  <2>3. part \in {1, 2} /\ part \in 0 .. 2 /\ part = IF Into(b) = 0 THEN 1 ELSE 2
    BY <1>2, <2>1
  <2>4. h \in HalfType
    BY <1>3, <1>6, <2>2, <2>3 DEF HalfType
  <2>5. OfPayload(h)
    BY <1>1, <1>2, <1>5, <1>6, <2>2, <2>3 DEF OfPayload
  <2> QED BY <2>2, <2>3, <2>4, <2>5
<1>9. PICK q : q = queue \o <<h>>
  OBVIOUS
<1>10. /\ queue \in Seq(HalfType) /\ q \in Seq(HalfType) /\ q # <<>> /\ Len(q) = Len(queue) + 1
       /\ \A i \in DOMAIN q : (i \in DOMAIN queue /\ q[i] = queue[i]) \/ q[i] = h
       /\ q[Len(q)] = h
  BY <1>8, <1>9, QueueAppend DEF Stage, Queued
<1>11. Len(q) <= PortCapacity /\ (OpenEnd(q) => Into(b) = 0)
  <2>1. Len(q) <= PortCapacity
    BY <1>10, LimitsAssumption
  <2> QED BY <1>8, <1>10, <2>1 DEF OpenEnd
<1>12. PICK ends : ends = (c + 1 = 2 * m)
  OBVIOUS
<1>13. ends = (Into(b) = 1)
  <2>1. c + 1 = 2 * m <=> c - 2 * (m - 1) = 1
    BY <1>3
  <2> QED BY <1>3, <1>12, <2>1
<1>14. PICK p : p = IF ends /\ k \in SdsKinds THEN "DrainSds" ELSE "Payload"
  OBVIOUS
<1>15. PICK e : e = IF ends /\ k \notin SdsKinds THEN n ELSE m
  OBVIOUS
<1>16. PICK a : a = [b EXCEPT !.payloadCursor = c + 1, !.phase = p, !.messageIndex = e]
  OBVIOUS
<1>17. a = Admitted(b)
  <2>1. Offset(b.messageIndex + 1) = 2 * m
    BY <1>1, <1>3 DEF Offset
  <2>2. ends = (b.payloadCursor + 1 = Offset(b.messageIndex + 1))
    BY <1>1, <1>12, <2>1
  <2>3. AwaitsAnswer(b) <=> k \in SdsKinds
    BY <1>5, <1>6 DEF AwaitsAnswer
  <2> QED BY <1>1, <1>2, <1>14, <1>15, <1>16, <2>2, <2>3 DEF Admitted
<1>18. /\ a \in HostType /\ a.phase = p /\ a.messageIndex = e /\ a.payloadCursor = c + 1
       /\ a.wire = <<>> /\ a.state = b.state /\ a.responses = b.responses
       /\ a.sdsActive = b.sdsActive /\ a.sdsPacket = b.sdsPacket /\ a.id = b.id
       /\ a.model = b.model /\ a.receiveKind = b.receiveKind
  <2>1. c + 1 \in Nat /\ e \in Nat \ {0} /\ p \in Phases
    BY <1>3, <1>4, <1>14, <1>15 DEF Phases
  <2> QED BY <1>2, <1>3, <1>16, <2>1 DEF HostType
<1>19. \A i : ReadyFor(a, i) <=> ReadyFor(b, i)
  BY <1>18 DEF ReadyFor
<1>20. b.state \in OwningStates
  BY <1>2 DEF Stage, Places
<1>21. Members(a)
  BY <1>18 DEF Stage, Members
<1>22. Outcome(a)
  BY <1>2, <1>14, <1>18, <1>20 DEF Outcome, OwningStates
<1>23. CASE Into(b) = 0
  <2>1. p = "Payload" /\ e = m
    <3>1. Into(b) # 1
      BY <1>23
    <3>2. ~ends
      BY <1>13, <3>1
    <3> QED BY <1>14, <1>15, <3>2
  <2>2. Into(a) = 1 /\ a.payloadCursor <= Size /\ a.messageIndex <= Len(payload)
    <3>1. c - 2 * (m - 1) = 0 /\ m <= l
      BY <1>3, <1>4, <1>23
    <3>2. (c + 1) - 2 * (m - 1) = 1 /\ c + 1 <= 2 * l
      BY <1>3, <3>1
    <3> QED BY <1>1, <1>3, <1>4, <1>18, <2>1, <3>2 DEF Into, Offset
  <2>3. Current(a) = Current(b)
    BY <1>1, <1>18, <2>1 DEF Current
  <2>4. Places(a)
    <3>1. a.messageIndex <= Len(payload) + 1
      BY <1>1, <1>4, <1>18, <2>1
    <3> QED BY <1>18, <1>20, <2>1, <2>2, <3>1 DEF Places, Between
  <2>5. Handshake(a)
    <3>1. /\ Current(b).kind = "SdsPacket" => b.sdsActive
          /\ Current(b).kind = "SampleName" /\ b.messageIndex > 1 =>
                (payload[b.messageIndex - 1].kind = "SdsHeader" => b.sdsActive)
      BY <1>1, <1>2, <1>4 DEF Stage, Handshake, GivenUp
    <3> QED BY <1>1, <1>18, <2>1, <2>3, <3>1 DEF Handshake
  <2>6. Screens(a)
    BY <1>1, <1>18, <1>19, <2>1, <2>3 DEF Screens
  <2>7. Queued(a, q)
    <3>1. \A i \in DOMAIN q :
            /\ Command(q[i]) \/ OfPayload(q[i])
            /\ q[i].kind \in SdsKinds /\ a.phase # "DrainCancellation" => q[i].at = a.messageIndex
            /\ q[i].at # 0 => ReadyFor(a, q[i].at)
      BY <1>1, <1>2, <1>8, <1>10, <1>18, <1>19, <2>1 DEF Stage, Queued
    <3> QED BY <1>10, <1>11, <1>18, <2>1, <2>2, <3>1 DEF Queued
  <2> QED BY <1>7, <1>9, <1>17, <1>18, <1>21, <1>22, <2>1, <2>4, <2>5, <2>6, <2>7 DEF Stage
<1>24. CASE Into(b) = 1 /\ k \in SdsKinds
  <2>1. p = "DrainSds" /\ e = m
    BY <1>13, <1>14, <1>15, <1>24
  <2>2. Into(a) = 2 /\ a.payloadCursor <= Size /\ a.messageIndex <= Len(payload)
    <3>1. c - 2 * (m - 1) = 1 /\ m <= l
      BY <1>3, <1>4, <1>24
    <3>2. (c + 1) - 2 * (m - 1) = 2 /\ c + 1 <= 2 * l
      BY <1>3, <3>1
    <3> QED BY <1>1, <1>3, <1>4, <1>18, <2>1, <3>2 DEF Into, Offset
  <2>3. Current(a) = Current(b) /\ Current(a).kind \in SdsKinds
    BY <1>1, <1>5, <1>6, <1>18, <1>24, <2>1 DEF Current
  <2>4. Places(a)
    <3>1. a.messageIndex <= Len(payload) + 1
      BY <1>1, <1>4, <1>18, <2>1
    <3> QED BY <1>18, <1>20, <2>1, <2>2, <2>3, <3>1 DEF Places, Between
  <2>5. Handshake(a)
    BY <1>18, <2>3 DEF Handshake, SdsKinds
  <2>6. Screens(a)
    BY <1>1, <1>18, <1>19, <2>1, <2>3 DEF Screens
  <2>7. Queued(a, q)
    <3>1. \A i \in DOMAIN q :
            /\ Command(q[i]) \/ OfPayload(q[i])
            /\ q[i].kind \in SdsKinds /\ a.phase # "DrainCancellation" => q[i].at = a.messageIndex
            /\ q[i].at # 0 => ReadyFor(a, q[i].at)
      BY <1>1, <1>2, <1>8, <1>10, <1>18, <1>19, <2>1 DEF Stage, Queued
    <3>2. ~OpenEnd(q)
      BY <1>11, <1>24
    <3> QED BY <1>10, <1>11, <1>18, <2>1, <3>1, <3>2 DEF Queued
  <2> QED BY <1>7, <1>9, <1>17, <1>18, <1>21, <1>22, <2>1, <2>4, <2>5, <2>6, <2>7 DEF Stage
<1>25. CASE Into(b) = 1 /\ k \notin SdsKinds
  <2>1. p = "Payload" /\ e = n
    BY <1>13, <1>14, <1>15, <1>25
  <2>2. Into(a) = 0 /\ a.payloadCursor <= Size /\ a.messageIndex <= Len(payload) + 1
    <3>1. c - 2 * (m - 1) = 1 /\ m <= l
      BY <1>3, <1>4, <1>25
    <3>2. (c + 1) - 2 * (n - 1) = 0 /\ c + 1 <= 2 * l
      BY <1>3, <1>4, <3>1
    <3> QED BY <1>1, <1>3, <1>4, <1>18, <2>1, <3>2 DEF Into, Offset
  <2>3. a.messageIndex = n /\ Current(a) = payload[n] /\ payload[n - 1] = payload[m]
    BY <1>4, <1>18, <2>1 DEF Current
  <2>4. Places(a)
    BY <1>18, <1>20, <2>1, <2>2 DEF Places, Between
  <2>5. Handshake(a)
    <3> SUFFICES ASSUME n <= Len(payload) PROVE Handshake(a)
      BY <2>3 DEF Handshake
    <3>1. n \in 1 .. Len(payload)
      BY <1>1, <1>3, <1>4
    <3>2. payload[n].kind = "SdsPacket" => a.sdsActive
      <4> SUFFICES ASSUME payload[n].kind = "SdsPacket" PROVE a.sdsActive
        OBVIOUS
      <4>1. /\ payload[n - 1].kind \in SdsKinds \cup {"SampleName"}
            /\ payload[n - 1].kind = "SampleName" => n > 2 /\ payload[n - 2].kind = "SdsHeader"
        BY <1>3, <3>1, PayloadFacts DEF Loaded
      <4>2. n - 2 = m - 1 /\ (n > 2 => m > 1)
        BY <1>3, <1>4
      <4>3. k = "SampleName" /\ m > 1 /\ payload[m - 1].kind = "SdsHeader"
        BY <1>5, <1>25, <2>3, <4>1, <4>2
      <4>4. b.sdsActive
        BY <1>1, <1>2, <1>4, <1>5, <1>6, <4>3 DEF Stage, Handshake, GivenUp
      <4> QED BY <1>18, <4>4
    <3>3. payload[m].kind # "SdsHeader"
      BY <1>5, <1>25 DEF SdsKinds
    <3> QED BY <2>2, <2>3, <3>2, <3>3 DEF Handshake
  <2>6. Screens(a)
    <3> SUFFICES ASSUME n <= Len(payload) PROVE Screens(a)
      BY <2>3 DEF Screens
    <3>1. b.model = "Monomachine" => a.receiveKind = payload[n - 1].kind
      BY <1>6, <1>18, <2>3
    <3>2. ~payload[n - 1].last
      BY <1>6, <1>25, <2>3 DEF SdsKinds
    <3>3. b.model # "Monomachine" => ReadyFor(a, n)
      BY <1>18, <3>2 DEF ReadyFor, NeedsUserOn
    <3> QED BY <1>4, <1>18, <2>2, <2>3, <3>1, <3>3 DEF Screens
  <2>7. Queued(a, q)
    <3>1. ASSUME NEW i \in DOMAIN q
          PROVE /\ Command(q[i]) \/ OfPayload(q[i])
                /\ q[i].kind \notin SdsKinds
                /\ q[i].at # 0 => ReadyFor(a, q[i].at)
      <4>1. CASE q[i] = h
        BY <1>1, <1>8, <1>19, <1>25, <4>1
      <4>2. CASE i \in DOMAIN queue /\ q[i] = queue[i]
        <5>1. /\ Command(q[i]) \/ OfPayload(q[i])
              /\ q[i].kind \in SdsKinds => q[i].at = m
              /\ q[i].at # 0 => ReadyFor(a, q[i].at)
          BY <1>1, <1>2, <1>19, <4>2 DEF Stage, Queued
        <5>2. Command(q[i]) => q[i].kind \notin SdsKinds
          BY DEF Command, Eox, Half, Commands, SdsKinds
        <5>3. OfPayload(q[i]) /\ q[i].at = m => q[i].kind = k
          BY <1>5 DEF OfPayload
        <5> QED BY <1>25, <5>1, <5>2, <5>3
      <4> QED BY <1>10, <4>1, <4>2
    <3>2. ~OpenEnd(q)
      BY <1>11, <1>25
    <3> QED BY <1>10, <1>11, <1>18, <2>1, <3>1, <3>2 DEF Queued
  <2> QED BY <1>7, <1>9, <1>17, <1>18, <1>21, <1>22, <2>1, <2>4, <2>5, <2>6, <2>7 DEF Stage
<1> QED BY <1>2, <1>23, <1>24, <1>25

LEMMA PumpStage ==
    ASSUME NEW t, Loaded(t), Stage(t, port)
    PROVE  /\ Stage(PumpWire(t).host, port \o PumpWire(t).bytes)
           /\ PumpWire(t).host.model = t.model
<1>1. port \in Seq(HalfType) /\ Len(port) \in Nat /\ port \o <<>> = port
  BY ConcatEmptySeq DEF Stage, Queued
<1>2. PICK r : r = PumpWire(t)
  OBVIOUS
<1>3. CASE t.wire # <<>> /\ ~PortFull
  <2>1. /\ r.host = [t EXCEPT !.wire = Tail(@)] /\ r.bytes = <<Head(t.wire)>>
        /\ Len(port) < PortCapacity
    BY <1>1, <1>2, <1>3, LimitsAssumption DEF PumpWire, PortFull
  <2> QED BY <1>2, <1>3, <2>1, WirePumped
<1>4. CASE r = [host |-> t, bytes |-> <<>>]
  BY <1>1, <1>2, <1>4
<1>5. CASE PayloadLeft(t) /\ NeedsOtherScreen(t) /\ t.wire = <<>>
  <2>1. r.host = [t EXCEPT !.phase = "DrainReceiveMode"] /\ r.bytes = <<>>
    BY <1>2, <1>5 DEF PumpWire
  <2> QED BY <1>1, <1>2, <1>5, <2>1, OtherScreenStage
<1>6. CASE PayloadLeft(t) /\ ~NeedsOtherScreen(t) /\ t.wire = <<>>
  <2>1. PICK b : b = Opened(t)
    OBVIOUS
  <2>2. /\ Stage(b, port) /\ Loaded(b) /\ PayloadLeft(b)
        /\ b.phase = t.phase /\ b.messageIndex = t.messageIndex
        /\ b.payloadCursor = t.payloadCursor /\ b.model = t.model
        /\ Current(b).kind \in SdsKinds =>
             /\ b.sdsActive
             /\ b.sdsPacket = IF Current(b).kind = "SdsHeader" THEN 0 ELSE Current(b).packet
        /\ ReadyFor(b, b.messageIndex)
        /\ b.model = "Monomachine" => b.receiveKind = Current(b).kind
    BY <1>6, <2>1, OpenedStage
  <2>3. CASE PortFull
    <3>1. r.host = b /\ r.bytes = <<>>
      BY <1>2, <1>6, <2>1, <2>3 DEF PumpWire
    <3> QED BY <1>1, <1>2, <2>2, <3>1
  <2>4. CASE ~PortFull
    <3>1. r.host = Admitted(b) /\ r.bytes = <<NextHalf(t)>>
      BY <1>2, <1>6, <2>1, <2>4 DEF PumpWire
    <3>2. NextHalf(t) = NextHalf(b)
      BY <2>2 DEF NextHalf, Current
    <3>3. Len(port) < PortCapacity
      BY <1>1, <2>4, LimitsAssumption DEF PortFull
    <3>4. PICK h : h = NextHalf(b)
      OBVIOUS
    <3>5. PICK a : a = Admitted(b)
      OBVIOUS
    <3>6. Stage(a, port \o <<h>>) /\ a.model = b.model
      BY <2>2, <3>3, <3>4, <3>5, AdmittedStage
    <3> QED BY <1>2, <2>2, <3>1, <3>2, <3>4, <3>5, <3>6
  <2> QED BY <2>3, <2>4
<1> QED BY <1>2, <1>3, <1>4, <1>5, <1>6 DEF PumpWire

----------------------------------------------------------------------------
(* The end of a call of service().                                         *)

\* Only the phase, the state, the deadline and the capture differ.
Rephased(t, a) ==
    /\ a \in HostType /\ a.wire = t.wire /\ a.responses = t.responses /\ a.error = t.error
    /\ a.transmit = t.transmit
    /\ a.messageIndex = t.messageIndex /\ a.payloadCursor = t.payloadCursor
    /\ a.sdsActive = t.sdsActive /\ a.sdsPacket = t.sdsPacket /\ a.id = t.id
    /\ a.model = t.model /\ a.receiveKind = t.receiveKind

LEMMA RephasedFacts ==
    ASSUME NEW t, NEW queue, Stage(t, queue), NEW a, Rephased(t, a)
    PROVE  /\ Into(a) = Into(t) /\ Current(a) = Current(t) /\ Members(a)
           /\ \A i : ReadyFor(a, i) <=> ReadyFor(t, i)
BY DEF Rephased, Into, Current, ReadyFor, Stage, Members

LEMMA SentStage ==
    ASSUME NEW t, NEW queue, Loaded(t), Stage(t, queue), t.phase \in DOMAIN WaitPhase,
           t.wire = <<>>, NEW a, a = [t EXCEPT !.phase = WaitPhase[t.phase], !.phaseTime = 0]
    PROVE  Stage(a, queue) /\ a.model = t.model
<1>1. PICK p : p = WaitPhase[t.phase]
  OBVIOUS
<1>2. p \in DOMAIN Answer /\ p \in Phases /\ t.phase \in Negotiates /\ t.phase # "Payload"
  BY <1>1 DEF WaitPhase, Answer, Phases, Negotiates, SendPhases
<1>3. Rephased(t, a) /\ a.phase = p /\ a.state = t.state
  BY <1>1, <1>2 DEF Loaded, HostType, Rephased
<1>4. Members(a)
  BY <1>3, RephasedFacts
<1>5. t.state \in OwningStates /\ ~OpenEnd(queue)
  BY <1>2 DEF Stage, Places, Queued, WaitPhase
<1>6. Onward(t, a)
  <2>1. Tails(a.responses, t.responses)
    BY <1>3, TailsFacts DEF Rephased, Loaded, HostType
  <2> QED BY <1>2, <1>3, <1>4, <1>5, <2>1 DEF Onward, Rephased, Negotiates
<1> QED BY <1>2, <1>5, <1>6, LinkStage DEF Onward

LEMMA SampleSentStage ==
    ASSUME NEW t, NEW queue, Loaded(t), Stage(t, queue), t.phase = "DrainSds", queue = <<>>,
           NEW a,
           a = [t EXCEPT !.phase = "WaitSds", !.phaseTime = 0, !.state = "WaitingForDevice"]
    PROVE  Stage(a, queue) /\ a.model = t.model
<1>1. "WaitSds" \in Phases /\ "WaitingForDevice" \in States
  BY DEF Phases, States, OwningStates
<1>2. Rephased(t, a) /\ a.phase = "WaitSds" /\ a.state = "WaitingForDevice"
  BY <1>1 DEF Loaded, HostType, Rephased
<1>3. /\ Into(a) = Into(t) /\ Current(a) = Current(t) /\ Members(a)
      /\ \A i : ReadyFor(a, i) <=> ReadyFor(t, i)
  BY <1>2, RephasedFacts
<1>4. t.wire = <<>> /\ ~OpenEnd(queue) /\ ~cancelled
  BY DEF Stage, Places, Queued, Outcome, SendPhases, WaitPhase, GivenUp
<1>5. Places(a)
  BY <1>2, <1>3, <1>4 DEF Stage, Places, OwningStates, Rephased, Between
<1>6. Handshake(a) /\ Screens(a)
  BY <1>2, <1>3 DEF Stage, Handshake, Screens, Rephased, GivenUp
<1>7. Queued(a, queue)
  BY <1>2, <1>4, LimitsAssumption DEF Stage, Queued
<1>8. Outcome(a)
  BY <1>2, <1>4 DEF Outcome
<1> QED BY <1>2, <1>3, <1>5, <1>6, <1>7, <1>8 DEF Stage, Rephased

LEMMA ScreenSentStage ==
    ASSUME NEW t, NEW queue, Loaded(t), Stage(t, queue), t.phase = "DrainReceiveMode",
           queue = <<>>, NEW a,
           a = [t EXCEPT !.phase = "WaitReceiveMode", !.state = "WaitingForReceiveMode"]
    PROVE  Stage(a, queue) /\ a.model = t.model
<1>1. "WaitReceiveMode" \in Phases /\ "WaitingForReceiveMode" \in States
  BY DEF Phases, States, OwningStates
<1>2. Rephased(t, a) /\ a.phase = "WaitReceiveMode" /\ a.state = "WaitingForReceiveMode"
  BY <1>1 DEF Loaded, HostType, Rephased
<1>3. /\ Into(a) = Into(t) /\ Current(a) = Current(t) /\ Members(a)
      /\ \A i : ReadyFor(a, i) <=> ReadyFor(t, i)
  BY <1>2, RephasedFacts
<1>4. t.wire = <<>> /\ ~OpenEnd(queue) /\ ~cancelled
  BY DEF Stage, Places, Queued, Outcome, SendPhases, WaitPhase, GivenUp
<1>5. Into(t) = 0 /\ t.messageIndex <= Len(payload)
  BY DEF Stage, Places, Between, Phases, GivenUp
<1>6. Places(a)
  BY <1>2, <1>3, <1>4, <1>5 DEF Stage, Places, OwningStates, Rephased
<1>7. Handshake(a) /\ Screens(a)
  BY <1>2, <1>3 DEF Stage, Handshake, Screens, Rephased, GivenUp
<1>8. Queued(a, queue)
  BY <1>2, <1>4, LimitsAssumption DEF Stage, Queued
<1>9. Outcome(a)
  BY <1>2, <1>4 DEF Outcome
<1> QED BY <1>2, <1>3, <1>6, <1>7, <1>8, <1>9 DEF Stage, Rephased

\* A payload at its end is between two messages, as one that drains is.
LEMMA AtTheEnd ==
    ASSUME NEW t, NEW queue, Loaded(t), Stage(t, queue),
           t.phase = "DrainPayload" \/ (t.phase = "Payload" /\ t.payloadCursor >= Size)
    PROVE  /\ t.wire = <<>> /\ Into(t) = 0 /\ ~OpenEnd(queue) /\ ~cancelled
           /\ t.messageIndex <= Len(payload) + 1
<1>1. Into(t) = 0
  <2>1. CASE t.phase = "DrainPayload"
    BY <2>1 DEF Stage, Places, Between, Phases, GivenUp
  <2>2. CASE t.phase = "Payload" /\ t.payloadCursor >= Size
    <3>1. PICK c, m, l : c = t.payloadCursor /\ m = t.messageIndex /\ l = Len(payload)
      OBVIOUS
    <3>2. /\ c \in Nat /\ m \in Nat /\ l \in Nat /\ Into(t) = c - 2 * (m - 1) /\ Size = 2 * l
      BY <3>1, LoadedFacts DEF Into, Offset
    <3>3. Into(t) \in 0 .. 1 /\ c <= Size /\ c >= Size
      BY <2>2, <3>1 DEF Stage, Places
    <3>4. c = 2 * l /\ 2 * l - 2 * (m - 1) \in 0 .. 1
      BY <3>2, <3>3
    <3>5. PICK d : d = l - (m - 1)
      OBVIOUS
    <3>6. d \in Int /\ Into(t) = 2 * d /\ 2 * d \in 0 .. 1
      BY <3>2, <3>4, <3>5
    <3> QED BY <3>6
  <2> QED BY <2>1, <2>2
<1> QED BY <1>1 DEF Stage, Places, Queued, Outcome, SendPhases, WaitPhase, GivenUp

LEMMA EndStage ==
    ASSUME NEW t, NEW queue, Loaded(t), Stage(t, queue),
           t.phase = "DrainPayload" \/ (t.phase = "Payload" /\ t.payloadCursor >= Size),
           NEW a,
           \/ a = [t EXCEPT !.phase = "DrainPayload"]
           \/ /\ queue = <<>>
              /\ a = [t EXCEPT !.phase = "Idle", !.state = "Complete", !.captureTransmit = FALSE]
    PROVE  Stage(a, queue) /\ a.model = t.model
<1>1. /\ t.wire = <<>> /\ Into(t) = 0 /\ ~OpenEnd(queue) /\ ~cancelled
      /\ t.messageIndex <= Len(payload) + 1
  BY AtTheEnd
<1>2. {"DrainPayload", "Idle"} \subseteq Phases /\ "Complete" \in States
  BY DEF Phases, States, OwningStates
<1>3. /\ Rephased(t, a)
      /\ \/ a.phase = "DrainPayload" /\ a.state = t.state
         \/ a.phase = "Idle" /\ a.state = "Complete" /\ queue = <<>>
  <2>1. CASE a = [t EXCEPT !.phase = "DrainPayload"]
    BY <1>2, <2>1 DEF Loaded, HostType, Rephased
  <2>2. CASE /\ queue = <<>>
             /\ a = [t EXCEPT !.phase = "Idle", !.state = "Complete", !.captureTransmit = FALSE]
    BY <1>2, <2>2 DEF Loaded, HostType, Rephased
  <2> QED BY <2>1, <2>2
<1>4. /\ Into(a) = Into(t) /\ Current(a) = Current(t) /\ Members(a)
      /\ \A i : ReadyFor(a, i) <=> ReadyFor(t, i)
  BY <1>3, RephasedFacts
<1>5. t.state \in OwningStates /\ t.payloadCursor <= Size /\ t.phase \notin GivenUp
  BY DEF Stage, Places, GivenUp
<1>6. Places(a)
  <2>1. a.state \in OwningStates <=> a.phase # "Idle"
    BY <1>3, <1>5 DEF OwningStates
  <2>2. a.wire = <<>> /\ a.messageIndex <= Len(payload) + 1 /\ a.payloadCursor <= Size
    BY <1>1, <1>3, <1>5 DEF Rephased
  <2>3. /\ a.phase \notin Between \ {"DrainPayload"}
        /\ a.phase \notin {"Payload", "DrainSds", "WaitSds"}
    BY <1>3 DEF Between, GivenUp
  <2> QED BY <1>1, <1>4, <2>1, <2>2, <2>3 DEF Places
<1>7. Handshake(a) /\ Screens(a)
  <2>1. t.phase # "WaitReceiveMode" /\ a.phase \in {"DrainPayload", "Idle"}
    BY <1>3
  <2> QED BY <1>3, <1>4, <1>5, <2>1 DEF Stage, Handshake, Screens, Rephased
<1>8. Queued(a, queue)
  BY <1>1, <1>3, <1>4 DEF Stage, Queued, Rephased
<1>9. Outcome(a)
  BY <1>1, <1>3, <1>5 DEF Outcome, OwningStates
<1> QED BY <1>3, <1>4, <1>6, <1>7, <1>8, <1>9 DEF Stage, Rephased

LEMMA CancelledStage ==
    ASSUME NEW t, NEW queue, Loaded(t), Stage(t, queue), t.phase = "DrainCancellation",
           t.wire = <<>>, queue = <<>>, NEW a,
           a = [t EXCEPT !.phase = "Idle",
                         !.state = IF t.error = "None" THEN "Cancelled" ELSE "Failed"]
    PROVE  Stage(a, queue) /\ a.model = t.model
<1>1. PICK s : s = IF t.error = "None" THEN "Cancelled" ELSE "Failed"
  OBVIOUS
<1>2. "Idle" \in Phases /\ s \in States /\ s \in {"Cancelled", "Failed"}
  BY <1>1 DEF Phases, States
<1>3. Rephased(t, a) /\ a.phase = "Idle" /\ a.state = s
  BY <1>1, <1>2 DEF Loaded, HostType, Rephased
<1>4. Members(a)
  BY <1>3, RephasedFacts
<1>5. Places(a)
  <2>1. t.messageIndex <= Len(payload) + 1 /\ t.payloadCursor <= Size
    BY DEF Stage, Places
  <2> QED BY <1>2, <1>3, <2>1 DEF Places, OwningStates, Rephased, Between, GivenUp
<1>6. Handshake(a) /\ Screens(a)
  BY <1>3 DEF Handshake, Screens, GivenUp
<1>7. Queued(a, queue)
  BY <1>3, LimitsAssumption DEF Stage, Queued
<1>8. Outcome(a)
  BY <1>1, <1>2, <1>3 DEF Stage, Outcome, GivenUp
<1> QED BY <1>3, <1>4, <1>5, <1>6, <1>7, <1>8 DEF Stage, Rephased

LEMMA DrainStage ==
    ASSUME NEW t, NEW queue, Loaded(t), Stage(t, queue)
    PROVE  Stage(Drained(t, queue), queue) /\ Drained(t, queue).model = t.model
<1>1. PICK a : a = Drained(t, queue)
  OBVIOUS
<1>2. CASE t.phase \in DOMAIN WaitPhase /\ t.wire = <<>>
  <2>1. t.phase \notin {"DrainSds", "DrainReceiveMode", "DrainPayload", "Payload",
                        "DrainCancellation"}
    BY <1>2 DEF WaitPhase
  <2>2. a = [t EXCEPT !.phase = WaitPhase[t.phase], !.phaseTime = 0]
    BY <1>1, <1>2, <2>1 DEF Drained
  <2> QED BY <1>1, <1>2, <2>2, SentStage
<1>3. CASE t.phase = "DrainSds" /\ queue = <<>>
  <2>1. t.phase \notin DOMAIN WaitPhase
    BY <1>3 DEF WaitPhase
  <2>2. a = [t EXCEPT !.phase = "WaitSds", !.phaseTime = 0, !.state = "WaitingForDevice"]
    BY <1>1, <1>3, <2>1 DEF Drained
  <2> QED BY <1>1, <1>3, <2>2, SampleSentStage
<1>4. CASE t.phase = "DrainReceiveMode" /\ queue = <<>>
  <2>1. t.phase \notin DOMAIN WaitPhase
    BY <1>4 DEF WaitPhase
  <2>2. a = [t EXCEPT !.phase = "WaitReceiveMode", !.state = "WaitingForReceiveMode"]
    BY <1>1, <1>4, <2>1 DEF Drained
  <2> QED BY <1>1, <1>4, <2>2, ScreenSentStage
<1>5. CASE t.phase = "DrainPayload" \/ (t.phase = "Payload" /\ t.payloadCursor >= Size)
  <2>1. t.phase \notin DOMAIN WaitPhase /\ t.phase \in {"DrainPayload", "Payload"}
    BY <1>5 DEF WaitPhase
  <2>2. \/ a = [t EXCEPT !.phase = "DrainPayload"]
        \/ /\ queue = <<>>
           /\ a = [t EXCEPT !.phase = "Idle", !.state = "Complete", !.captureTransmit = FALSE]
    BY <1>1, <1>5, <2>1 DEF Drained, Finished
  <2> QED BY <1>1, <1>5, <2>2, EndStage
<1>6. CASE t.phase = "DrainCancellation" /\ t.wire = <<>> /\ queue = <<>>
  <2>1. t.phase \notin DOMAIN WaitPhase
    BY <1>6 DEF WaitPhase
  <2>2. a = [t EXCEPT !.phase = "Idle",
                      !.state = IF t.error = "None" THEN "Cancelled" ELSE "Failed"]
    BY <1>1, <1>6, <2>1 DEF Drained
  <2> QED BY <1>1, <1>6, <2>2, CancelledStage
<1>7. CASE /\ ~(t.phase \in DOMAIN WaitPhase /\ t.wire = <<>>)
           /\ ~(t.phase = "DrainSds" /\ queue = <<>>)
           /\ ~(t.phase = "DrainReceiveMode" /\ queue = <<>>)
           /\ ~(t.phase = "DrainPayload" \/ (t.phase = "Payload" /\ t.payloadCursor >= Size))
           /\ ~(t.phase = "DrainCancellation" /\ t.wire = <<>> /\ queue = <<>>)
  <2>1. a = t
    BY <1>1, <1>7 DEF Drained
  <2> QED BY <1>1, <2>1
<1> QED BY <1>2, <1>3, <1>4, <1>5, <1>6, <1>7

----------------------------------------------------------------------------
(***************************************************************************)
(* What a step leaves true of the host it does not change, or changed to T *)
(***************************************************************************)
LEMMA HostKept ==
    ASSUME payload' = payload, NEW T, host' = T, Members(T), Places(T), Handshake(T)
    PROVE  Members(host)' /\ Places(host)' /\ Handshake(host)'
<1>1. Members(host)'
  BY DEF Members, Command, Eox, Half
<1>2. Places(host)'
  BY DEF Places, Into, Offset, Current, Size
<1>3. Handshake(host)'
  BY DEF Handshake, Into, Offset, Current
<1> QED BY <1>1, <1>2, <1>3

LEMMA ScreensKept ==
    ASSUME payload' = payload, shown \subseteq shown', NEW T, host' = T, Screens(T)
    PROVE  Screens(host)'
BY DEF Screens, Into, Offset, Current, ReadyFor, NeedsUserOn

LEMMA QueuedKept ==
    ASSUME payload' = payload, shown \subseteq shown', NEW T, host' = T, NEW P, NEW Q, port' = Q,
           Queued(T, P), Q \in Seq(HalfType), Len(Q) <= PortCapacity, P = <<>> => Q = <<>>,
           \A i \in DOMAIN Q : \E j \in DOMAIN P : Q[i] = P[j],
           OpenEnd(port)' => OpenEnd(P)
    PROVE  Queued(host, port)'
<1>1. ASSUME NEW i \in DOMAIN Q
      PROVE  /\ Command(port[i])' \/ OfPayload(port[i])'
             /\ Q[i].kind \in SdsKinds /\ T.phase # "DrainCancellation" => Q[i].at = T.messageIndex
             /\ Q[i].at # 0 => ReadyFor(host, port[i].at)'
  <2>1. /\ Command(Q[i]) \/ OfPayload(Q[i])
        /\ Q[i].kind \in SdsKinds /\ T.phase # "DrainCancellation" => Q[i].at = T.messageIndex
        /\ Q[i].at # 0 => ReadyFor(T, Q[i].at)
    BY <1>1 DEF Queued
  <2>2. Command(Q[i]) \/ OfPayload(Q[i]) => Command(port[i])' \/ OfPayload(port[i])'
    BY DEF Command, OfPayload, Eox, Half
  <2>3. ReadyFor(T, Q[i].at) => ReadyFor(host, port[i].at)'
    BY DEF ReadyFor, NeedsUserOn
  <2> QED BY <2>1, <2>2, <2>3
<1>2. /\ T.phase \in {"Idle", "WaitSds", "WaitReceiveMode"} => Q = <<>>
      /\ OpenEnd(P) => T.wire # <<>> \/ (T.phase = "Payload" /\ Into(T) = 1)
  BY DEF Queued
<1>3. Into(T) = Into(host)'
  BY DEF Into, Offset
<1>4. OpenEnd(port)' => T.wire # <<>> \/ (T.phase = "Payload" /\ Into(host)' = 1)
  BY <1>2, <1>3
<1> QED BY <1>1, <1>2, <1>4 DEF Queued

LEMMA OutcomeKept ==
    ASSUME cancelled' = cancelled, NEW T, host' = T, Outcome(T)
    PROVE  Outcome(host)'
BY DEF Outcome

LEMMA StageKept ==
    ASSUME UNCHANGED <<payload, cancelled>>, shown \subseteq shown',
           device'.partial = device.partial, NEW T, NEW Q,
           host' = T, port' = Q, Stage(T, Q)
    PROVE  Stage(host, port)'
<1>1. OpenEnd(port)' => OpenEnd(Q)
  BY DEF OpenEnd, NoHalf, Half
<1>2. Members(T) /\ Places(T) /\ Handshake(T) /\ Screens(T) /\ Queued(T, Q) /\ Outcome(T)
  BY DEF Stage
<1>3. Members(host)' /\ Places(host)' /\ Handshake(host)'
  BY <1>2, HostKept
<1>4. Screens(host)'
  BY <1>2, ScreensKept
<1>5. Queued(host, port)'
  <2>1. Q \in Seq(HalfType) /\ Len(Q) <= PortCapacity
    BY <1>2 DEF Queued
  <2> QED BY <1>1, <1>2, <2>1, QueuedKept
<1>6. Outcome(host)'
  BY <1>2, OutcomeKept
<1> QED BY <1>3, <1>4, <1>5, <1>6 DEF Stage

LEMMA DeviceKept ==
    ASSUME payload' = payload, device' = device, DeviceInv
    PROVE  DeviceInv'
BY DEF DeviceInv, Command, OfPayload, Eox, Half, NoHalf

LEMMA LoadedHost ==
    ASSUME TransferInv
    PROVE  /\ Loaded(host) /\ Stage(host, port) /\ port \in Seq(HalfType) /\ DeviceInv
           /\ OwnsMidiWire <=> host.phase # "Idle"
BY DEF TransferInv, Loaded, Stage, Members, Queued, OwnsMidiWire, Places

----------------------------------------------------------------------------
(***************************************************************************)
(* The actions                                                             *)
(***************************************************************************)
LEMMA InvService ==
    ASSUME TransferInv, NEW ticks \in {0, 1}, NEW pump \in BOOLEAN, Service(ticks, pump)
    PROVE  TransferInv'
<1>1. /\ host.phase # "Idle" /\ Loaded(host) /\ Stage(host, port) /\ port \in Seq(HalfType)
      /\ DeviceInv
  BY LoadedHost DEF Service
<1>2. UNCHANGED <<payload, device, seen, transfers, shown, cancelled>>
  BY DEF Service, counters
<1>3. PICK t : t = Elapsed(ParseTransmit(host), ticks)
  OBVIOUS
<1>4. PICK s : s = IF t.phase = "WaitSds" THEN ServiceSds(t) ELSE ServiceNegotiation(t)
  OBVIOUS
<1>5. PICK p : p = IF pump THEN PumpWire(s) ELSE [host |-> s, bytes |-> <<>>]
  OBVIOUS
<1>6. PICK Q : Q = port \o p.bytes
  OBVIOUS
<1>7. PICK T : T = Drained(p.host, Q)
  OBVIOUS
<1>8. port' = Q /\ host' = T
  BY <1>3, <1>4, <1>5, <1>6, <1>7 DEF Service
<1>9. Stage(t, port) /\ t.model = host.model /\ Loaded(t)
  <2>1. PICK h : h = host
    OBVIOUS
  <2>2. PICK r : r = ParseTransmit(h)
    OBVIOUS
  <2>3. Stage(r, port) /\ r.model = h.model
    BY <1>1, <2>1, <2>2, ParseStage
  <2>4. t = Elapsed(r, ticks)
    BY <1>3, <2>1, <2>2
  <2>5. Stage(t, port) /\ t.model = h.model
    BY <2>3, <2>4, ElapsedStage
  <2> QED BY <1>1, <2>1, <2>5 DEF Loaded, Stage, Members
<1>10. Stage(s, port) /\ s.model = host.model /\ Loaded(s)
  <2>1. Stage(s, port) /\ s.model = t.model
    BY <1>4, <1>9, SdsStage, NegotiationStage
  <2> QED BY <1>1, <1>9, <2>1 DEF Loaded, Stage, Members
<1>11. Stage(p.host, Q) /\ p.host.model = host.model /\ Loaded(p.host)
  <2>1. Stage(p.host, Q) /\ p.host.model = s.model
    <3>1. CASE pump
      BY <1>5, <1>6, <1>10, <3>1, PumpStage
    <3>2. CASE ~pump
      <4>1. p.host = s /\ Q = port
        BY <1>1, <1>5, <1>6, <3>2, ConcatEmptySeq
      <4> QED BY <1>10, <4>1
    <3> QED BY <3>1, <3>2
  <2> QED BY <1>1, <1>10, <2>1 DEF Loaded, Stage, Members
<1>12. Stage(T, Q) /\ T.model = host.model
  BY <1>7, <1>11, DrainStage
<1>13. Stage(host, port)'
  <2>1. device'.partial = device.partial /\ shown \subseteq shown'
    BY <1>2
  <2> QED BY <1>2, <1>8, <1>12, <2>1, StageKept
<1>14. DeviceInv'
  BY <1>1, <1>2, DeviceKept
<1>15. /\ payload' \in Payloads[host'.model] \cup {<<>>}
       /\ payload' # <<>>
  BY <1>1, <1>2, <1>8, <1>12 DEF TransferInv
<1> QED BY <1>2, <1>13, <1>14, <1>15 DEF TransferInv, NoStep

LEMMA FirstMessage ==
    ASSUME NEW model \in Models, NEW p \in Payloads[model]
    PROVE  /\ p \in Seq(Message) /\ p # <<>> /\ Len(p) \in Nat /\ 1 <= Len(p)
           /\ p[1].kind \in MessageKinds /\ p[1].kind # "SdsPacket"
<1>1. p \in Seq(Message) /\ WellFormed(p, model)
  BY PayloadsAssumption
<1>2. p # <<>> /\ Len(p) \in Nat \ {0}
  BY <1>1, EmptySeq DEF WellFormed
<1>3. 1 \in 1 .. Len(p)
  BY <1>2
<1>4. p[1] \in Message
  BY <1>1, <1>3, ElementOfSeq
<1>5. p[1].kind # "SdsPacket"
  BY <1>1, <1>3 DEF WellFormed
<1> QED BY <1>1, <1>2, <1>4, <1>5 DEF Message

LEMMA InvStart == ASSUME TransferInv, Start PROVE TransferInv'
<1>1. host.phase = "Idle" /\ Loaded(host) /\ Stage(host, port) /\ DeviceInv
  BY LoadedHost DEF Start
<1>2. PICK p : p = payload'
  OBVIOUS
<1>3. PICK model : model = host.model
  OBVIOUS
<1>4. p \in Payloads[model] /\ model \in Models
  BY <1>1, <1>2, <1>3 DEF Start, Loaded, HostType
<1>5. /\ p # <<>> /\ Len(p) \in Nat /\ 1 <= Len(p)
      /\ p[1].kind \in MessageKinds /\ p[1].kind # "SdsPacket"
  BY <1>4, FirstMessage
<1>6. PICK T : T = host'
  OBVIOUS
<1>7. PICK k : k = p[1].kind
  OBVIOUS
<1>8. PICK i : i = Idle(model)
  OBVIOUS
<1>9. i \in HostType
  <2>1. /\ "Idle" \in Phases /\ "Idle" \in States /\ 1 \in Nat \ {0} /\ 0 \in Nat
        /\ 0 \in 0 .. PacketModulus - 1 /\ 0 \in 0 .. MaxRetries
        /\ "UserDump" \in MessageKinds /\ "None" \in Errors
    BY LimitsAssumption DEF Phases, States, MessageKinds, Errors
  <2>2. PICK e : e = <<>>
    OBVIOUS
  <2>3. e \in Seq(HalfType) /\ e \in Seq(ReplyType)
    BY <2>2
  <2>4. i = [phase |-> "Idle", state |-> "Idle", id |-> 0, held |-> FALSE, model |-> model,
             messageIndex |-> 1, payloadCursor |-> 0, sdsActive |-> FALSE,
             sdsWaiting |-> FALSE, sdsPacket |-> 0, packetRetries |-> 0,
             acknowledgedSamples |-> 0, receiveKind |-> "UserDump", error |-> "None",
             captureTransmit |-> FALSE, phaseTime |-> 0, sdsWaitTime |-> 0,
             wire |-> e, transmit |-> e, responses |-> e]
    BY <1>8, <2>2 DEF Idle
  <2> QED BY <1>4, <2>1, <2>3, <2>4 DEF HostType
<1>10. /\ i.messageIndex = 1 /\ i.payloadCursor = 0 /\ i.wire = <<>> /\ i.responses = <<>>
       /\ i.model = model
  BY <1>8 DEF Idle
<1>11. PICK id : id = transfers + 1
  OBVIOUS
<1>12. id \in Nat /\ transfers' \in Nat
  BY <1>11 DEF TransferInv, Start
<1>13. T = [i EXCEPT !.phase = "BeginNegotiation", !.state = "Queued", !.id = id,
                     !.held = TRUE, !.receiveKind = k]
  BY <1>2, <1>3, <1>6, <1>7, <1>8, <1>11 DEF Start
<1>14. /\ T \in HostType /\ T.phase = "BeginNegotiation" /\ T.state = "Queued"
       /\ T.messageIndex = 1 /\ T.payloadCursor = 0 /\ T.wire = <<>> /\ T.responses = <<>>
       /\ T.model = model /\ T.receiveKind = k
  <2>1. "BeginNegotiation" \in Phases /\ "Queued" \in States /\ k \in MessageKinds
    BY <1>5, <1>7 DEF Phases, States, OwningStates
  <2>2. /\ T \in HostType /\ T.phase = "BeginNegotiation" /\ T.state = "Queued"
        /\ T.messageIndex = i.messageIndex /\ T.payloadCursor = i.payloadCursor
        /\ T.wire = i.wire /\ T.responses = i.responses /\ T.model = i.model
        /\ T.receiveKind = k
    BY <1>9, <1>12, <1>13, <2>1 DEF HostType
  <2> QED BY <1>10, <2>2
<1>15. /\ UNCHANGED <<port, seen, shown>> /\ cancelled' = FALSE
       /\ device' = [device EXCEPT !.got = {}]
  BY DEF Start
<1>16. port = <<>> /\ device.partial = NoHalf
  <2>1. port = <<>> /\ host.wire = <<>>
    BY <1>1 DEF Stage, Queued, Places, SendPhases, WaitPhase
  <2>2. ~OpenEnd(port)
    BY <1>1, <2>1 DEF Stage, Queued
  <2> QED BY <2>1, <2>2 DEF OpenEnd
<1>17. Into(T)' = 0 /\ Current(T)' = p[1] /\ Into(T) = 0
  BY <1>2, <1>14 DEF Into, Offset, Current
<1>18. Members(host)'
  BY <1>6, <1>14, LimitsAssumption DEF Members
<1>19. Places(host)'
  <2>1. Size' = 2 * Len(p) /\ Into(host)' = 0 /\ host' = T
    BY <1>2, <1>6, <1>17 DEF Size, Into, Offset
  <2>2. T.payloadCursor <= 2 * Len(p) /\ T.messageIndex <= Len(p) /\ T.messageIndex <= Len(p) + 1
    BY <1>5, <1>14
  <2> QED BY <1>2, <1>14, <2>1, <2>2 DEF Places, OwningStates
<1>20. Handshake(host)'
  <2>1. Current(host)' = p[1] /\ Into(host)' = 0
    BY <1>6, <1>17 DEF Current, Into, Offset
  <2> QED BY <1>5, <1>6, <1>14, <2>1 DEF Handshake
<1>21. Screens(host)'
  <2>1. Current(host)' = p[1] /\ ReadyFor(host, host.messageIndex)'
    BY <1>6, <1>14, <1>17 DEF Current, ReadyFor, NeedsUserOn
  <2> QED BY <1>6, <1>7, <1>14, <2>1 DEF Screens
<1>22. device' \in DeviceType /\ device'.partial = NoHalf /\ device'.got = {}
  BY <1>1, <1>15, <1>16 DEF DeviceInv, DeviceType
<1>23. Queued(host, port)'
  <2>1. ~OpenEnd(port)'
    BY <1>15, <1>16, <1>22 DEF OpenEnd, NoHalf, Half
  <2> QED BY <1>15, <1>16, <2>1, LimitsAssumption DEF Queued
<1>24. Outcome(host)'
  BY <1>6, <1>14, <1>15 DEF Outcome
<1>25. DeviceInv'
  BY <1>22 DEF DeviceInv, NoHalf, Half
<1>26. Stage(host, port)'
  BY <1>18, <1>19, <1>20, <1>21, <1>23, <1>24 DEF Stage
<1> QED BY <1>2, <1>4, <1>5, <1>6, <1>12, <1>14, <1>15, <1>25, <1>26 DEF TransferInv, NoStep

LEMMA InvCancel == ASSUME TransferInv, Cancel PROVE TransferInv'
<1>1. /\ host.phase # "Idle" /\ Loaded(host) /\ Stage(host, port) /\ DeviceInv
      /\ host \in HostType
  BY LoadedHost DEF Cancel, Loaded
<1>2. /\ UNCHANGED <<payload, port, device, seen, transfers, shown>> /\ cancelled' = TRUE
  BY DEF Cancel
<1>3. PICK h : h = host
  OBVIOUS
<1>4. PICK a : a = AbortPayload(h, "None")
  OBVIOUS
<1>5. /\ a \in HostType /\ a.phase = "DrainCancellation" /\ a.state = "Cancelling"
      /\ a.error = "None" /\ a.captureTransmit = FALSE
      /\ a.transmit = <<>> /\ a.responses = <<>> /\ a.wire = Farewell(h)
      /\ a.id = h.id /\ a.model = h.model /\ a.messageIndex = h.messageIndex
  <2>1. "None" \in Errors /\ h \in HostType
    BY <1>1, <1>3 DEF Errors
  <2> QED BY <1>4, <2>1, AbortFields
<1>6. PICK T : T = [a EXCEPT !.held = FALSE, !.payloadCursor = 0]
  OBVIOUS
<1>7. /\ T \in HostType /\ T.phase = "DrainCancellation" /\ T.state = "Cancelling"
      /\ T.error = "None" /\ T.captureTransmit = FALSE
      /\ T.transmit = <<>> /\ T.responses = <<>> /\ T.wire = Farewell(h)
      /\ T.id = h.id /\ T.model = h.model /\ T.messageIndex = h.messageIndex
      /\ T.payloadCursor = 0
  BY <1>5, <1>6 DEF HostType
<1>8. host' = T
  BY <1>3, <1>4, <1>6 DEF Cancel
<1>9. PICK w : w = T.wire
  OBVIOUS
<1>10. w # <<>> /\ w[Len(w)].part = 2 /\ \A i \in DOMAIN w : Command(w[i])
  BY <1>1, <1>3, <1>7, <1>9, FarewellWire
<1>11. Members(T)
  BY <1>7, <1>9, <1>10, LimitsAssumption DEF Members
<1>12. Places(T)
  <2>1. T.messageIndex <= Len(payload) + 1
    BY <1>1, <1>3, <1>7 DEF Stage, Places
  <2>2. 0 <= Size
    BY <1>1, LoadedFacts
  <2> QED BY <1>7, <2>1, <2>2 DEF Places, OwningStates, Between, GivenUp
<1>13. Handshake(T) /\ Screens(T)
  BY <1>7 DEF Handshake, Screens, GivenUp
<1>14. PICK Q : Q = port
  OBVIOUS
<1>15. Queued(T, Q)
  <2>1. \A i : ReadyFor(T, i) <=> ReadyFor(h, i)
    BY <1>7 DEF ReadyFor
  <2>2. Queued(h, Q)
    BY <1>1, <1>3, <1>14 DEF Stage
  <2> QED BY <1>7, <1>9, <1>10, <2>1, <2>2 DEF Queued
<1>16. OpenEnd(port)' => OpenEnd(Q)
  BY <1>2, <1>14 DEF OpenEnd, NoHalf, Half
<1>17. Members(host)' /\ Places(host)' /\ Handshake(host)'
  BY <1>2, <1>8, <1>11, <1>12, <1>13, HostKept
<1>18. Screens(host)'
  BY <1>2, <1>8, <1>13, ScreensKept
<1>19. Queued(host, port)'
  <2>1. Q \in Seq(HalfType) /\ Len(Q) <= PortCapacity /\ port' = Q /\ shown \subseteq shown'
    BY <1>2, <1>14, <1>15 DEF Queued
  <2> QED BY <1>2, <1>8, <1>15, <1>16, <2>1, QueuedKept
<1>20. Outcome(host)'
  BY <1>2, <1>7, <1>8 DEF Outcome, GivenUp
<1>21. DeviceInv'
  BY <1>1, <1>2, DeviceKept
<1>22. payload' \in Payloads[host'.model] \cup {<<>>} /\ payload' # <<>>
  BY <1>1, <1>2, <1>3, <1>7, <1>8 DEF TransferInv
<1> QED BY <1>2, <1>17, <1>18, <1>19, <1>20, <1>21, <1>22 DEF TransferInv, Stage, NoStep

LEMMA InvRetirePayload == ASSUME TransferInv, RetirePayload PROVE TransferInv'
<1>1. host.phase = "Idle" /\ Loaded(host) /\ Stage(host, port) /\ DeviceInv /\ host \in HostType
  BY LoadedHost DEF RetirePayload, Loaded
<1>2. UNCHANGED <<payload, port, device, seen, transfers, shown, cancelled>>
  BY DEF RetirePayload, counters
<1>3. PICK h : h = host
  OBVIOUS
<1>4. PICK T : T = [h EXCEPT !.held = FALSE, !.payloadCursor = 0]
  OBVIOUS
<1>5. host' = T /\ h \in HostType /\ h.phase = "Idle"
  BY <1>1, <1>3, <1>4 DEF RetirePayload
<1>6. /\ T \in HostType
      /\ T.phase = h.phase /\ T.state = h.state /\ T.wire = h.wire /\ T.error = h.error
      /\ T.responses = h.responses /\ T.id = h.id /\ T.model = h.model
      /\ T.messageIndex = h.messageIndex /\ T.payloadCursor = 0
  BY <1>4, <1>5 DEF HostType
<1>7. PICK Q : Q = port
  OBVIOUS
<1>8. Stage(h, Q)
  BY <1>1, <1>3, <1>7
<1>9. h.wire = <<>> /\ Q = <<>> /\ ~OpenEnd(Q)
  BY <1>5, <1>8 DEF Stage, Places, Queued, SendPhases, WaitPhase
<1>10. Members(T)
  BY <1>6, <1>8 DEF Stage, Members
<1>11. Places(T)
  <2>1. 0 <= Size
    BY <1>1, LoadedFacts
  <2> QED BY <1>5, <1>6, <1>8, <1>9, <2>1 DEF Stage, Places, Between, GivenUp
<1>12. Handshake(T) /\ Screens(T)
  BY <1>5, <1>6 DEF Handshake, Screens, GivenUp
<1>13. Queued(T, Q)
  BY <1>6, <1>9, LimitsAssumption DEF Queued
<1>14. Outcome(T)
  BY <1>5, <1>6, <1>8 DEF Stage, Outcome
<1>15. Stage(host, port)'
  <2>1. device'.partial = device.partial /\ shown \subseteq shown' /\ port' = Q
    BY <1>2, <1>7
  <2>2. Stage(T, Q)
    BY <1>10, <1>11, <1>12, <1>13, <1>14 DEF Stage
  <2> QED BY <1>2, <1>5, <2>1, <2>2, StageKept
<1>16. DeviceInv'
  BY <1>1, <1>2, DeviceKept
<1>17. payload' \in Payloads[host'.model] \cup {<<>>} /\ host'.phase = "Idle"
  BY <1>2, <1>3, <1>5, <1>6 DEF TransferInv
<1> QED BY <1>2, <1>15, <1>16, <1>17 DEF TransferInv, NoStep

\* The user is shown the step the transfer waits at.
LEMMA InvShowReceiveStep == ASSUME TransferInv, ShowReceiveStep PROVE TransferInv'
<1>1. Loaded(host) /\ Stage(host, port) /\ DeviceInv
  BY LoadedHost
<1>2. /\ UNCHANGED <<host, payload, port, device, transfers, cancelled>>
      /\ shown \subseteq shown' /\ seen' \in shown'
  BY DEF ShowReceiveStep, counters
<1>3. PICK T, Q : T = host /\ Q = port
  OBVIOUS
<1>4. Stage(host, port)'
  <2>1. Stage(T, Q) /\ host' = T /\ port' = Q /\ device'.partial = device.partial
    BY <1>1, <1>2, <1>3
  <2> QED BY <1>2, <2>1, StageKept
<1>5. DeviceInv'
  BY <1>1, <1>2, DeviceKept
<1> QED BY <1>2, <1>4, <1>5 DEF TransferInv, NoStep

\* The step the user was shown is resumed, so the message that waited is ready.
LEMMA InvResumeReceiveMode == ASSUME TransferInv, ResumeReceiveMode PROVE TransferInv'
<1>1. Loaded(host) /\ Stage(host, port) /\ DeviceInv /\ host \in HostType
  BY LoadedHost DEF Loaded
<1>2. /\ UNCHANGED <<payload, port, device, seen, transfers, shown, cancelled>>
      /\ host.phase = "WaitReceiveMode" /\ <<host.id, host.messageIndex>> \in shown
  BY DEF ResumeReceiveMode, counters, Confirms, TransferInv
<1>3. PICK h, Q : h = host /\ Q = port
  OBVIOUS
<1>4. PICK k, p : /\ k = Current(h).kind
                  /\ p = IF h.model = "Machinedrum" THEN "WaitFallbackReset" ELSE "Payload"
  OBVIOUS
<1>5. PICK T : T = [h EXCEPT !.receiveKind = k, !.phase = p, !.phaseTime = 0,
                             !.state = "Sending"]
  OBVIOUS
<1>6. host' = T
  BY <1>3, <1>4, <1>5 DEF ResumeReceiveMode
<1>7. /\ Stage(h, Q) /\ Loaded(h) /\ h \in HostType /\ h.phase = "WaitReceiveMode"
      /\ <<h.id, h.messageIndex>> \in shown
  BY <1>1, <1>2, <1>3
<1>8. /\ h.wire = <<>> /\ Into(h) = 0 /\ Q = <<>> /\ ~OpenEnd(Q) /\ ~cancelled
      /\ h.messageIndex <= Len(payload)
  BY <1>7 DEF Stage, Places, Queued, Outcome, SendPhases, WaitPhase, Between, Phases, GivenUp
<1>9. k \in MessageKinds
  BY <1>4, <1>7, <1>8, LoadedFacts, PayloadFacts DEF Loaded, Current
<1>10. /\ T \in HostType /\ T.phase = p /\ T.state = "Sending" /\ T.receiveKind = k
       /\ T.wire = h.wire /\ T.responses = h.responses /\ T.id = h.id /\ T.model = h.model
       /\ T.messageIndex = h.messageIndex /\ T.payloadCursor = h.payloadCursor
       /\ T.sdsActive = h.sdsActive /\ T.sdsPacket = h.sdsPacket
  <2>1. p \in Phases /\ "Sending" \in States
    BY <1>4 DEF Phases, States, OwningStates
  <2> QED BY <1>5, <1>7, <1>9, <2>1 DEF HostType
<1>11. Into(T) = Into(h) /\ Current(T) = Current(h)
  BY <1>10 DEF Into, Current
<1>12. p \in {"WaitFallbackReset", "Payload"}
  BY <1>4
<1>13. Members(T)
  BY <1>7, <1>10 DEF Stage, Members
<1>14. Places(T)
  <2>1. h.messageIndex <= Len(payload) + 1 /\ h.payloadCursor <= Size
    BY <1>7 DEF Stage, Places
  <2> QED BY <1>8, <1>10, <1>11, <1>12, <2>1 DEF Places, OwningStates
<1>15. Handshake(T)
  BY <1>7, <1>10, <1>11 DEF Stage, Handshake, GivenUp
<1>16. ReadyFor(T, T.messageIndex)
  BY <1>7, <1>10 DEF ReadyFor
<1>17. Screens(T)
  BY <1>4, <1>10, <1>11, <1>16 DEF Screens
<1>18. Queued(T, Q)
  BY <1>8, <1>10, <1>12, LimitsAssumption DEF Queued
<1>19. Outcome(T)
  BY <1>8, <1>10, <1>12 DEF Outcome
<1>20. Stage(T, Q)
  BY <1>13, <1>14, <1>15, <1>17, <1>18, <1>19 DEF Stage
<1>21. Stage(host, port)'
  <2>1. device'.partial = device.partial /\ shown \subseteq shown' /\ port' = Q
    BY <1>2, <1>3
  <2> QED BY <1>2, <1>6, <1>20, <2>1, StageKept
<1>22. DeviceInv'
  BY <1>1, <1>2, DeviceKept
<1>23. payload' \in Payloads[host'.model] \cup {<<>>} /\ payload' # <<>>
  BY <1>2, <1>3, <1>6, <1>10 DEF TransferInv
<1> QED BY <1>2, <1>21, <1>22, <1>23 DEF TransferInv, NoStep

----------------------------------------------------------------------------
(* The instrument.                                                         *)

\* What is left of the queue once the instrument took its first half.
LEMMA QueueTaken ==
    ASSUME TransferInv, port # <<>>, port' = Tail(port),
           UNCHANGED <<host, payload, shown, cancelled>>,
           device'.partial # NoHalf => Head(port).part = 1
    PROVE  Stage(host, port)'
<1>1. Stage(host, port) /\ port \in Seq(HalfType)
  BY LoadedHost
<1>2. PICK T, P, Q : T = host /\ P = port /\ Q = Tail(port)
  OBVIOUS
<1>3. /\ Members(T) /\ Places(T) /\ Handshake(T) /\ Screens(T) /\ Queued(T, P) /\ Outcome(T)
      /\ host' = T /\ port' = Q
  BY <1>1, <1>2 DEF Stage
<1>4. PICK n : n = Len(P)
  OBVIOUS
<1>5. /\ P # <<>> /\ P \in Seq(HalfType) /\ n \in Nat \ {0} /\ DOMAIN P = 1 .. n
      /\ Q \in Seq(HalfType) /\ Len(Q) = n - 1 /\ DOMAIN Q = 1 .. n - 1
      /\ \A i \in 1 .. n - 1 : Q[i] = P[i + 1]
  BY <1>1, <1>2, <1>4, HeadTailProperties, EmptySeq
<1>6. Len(Q) <= PortCapacity
  <2>1. n <= PortCapacity /\ PortCapacity \in Nat
    BY <1>3, <1>4, LimitsAssumption DEF Queued
  <2> QED BY <1>5, <2>1
<1>7. \A i \in DOMAIN Q : \E j \in DOMAIN P : Q[i] = P[j]
  <2> TAKE i \in DOMAIN Q
  <2>1. i + 1 \in DOMAIN P /\ Q[i] = P[i + 1]
    BY <1>5
  <2> QED BY <2>1
<1>8. OpenEnd(port)' => OpenEnd(P)
  <2>1. CASE n = 1
    <3>1. Q = <<>>
      BY <1>5, <2>1
    <3>2. Head(port) = P[n]
      BY <1>1, <1>2, <2>1
    <3>3. OpenEnd(port)' => device'.partial # NoHalf
      BY <1>3, <3>1 DEF OpenEnd, NoHalf, Half
    <3> QED BY <1>4, <1>5, <3>2, <3>3 DEF OpenEnd
  <2>2. CASE n # 1
    <3>1. n - 1 \in 1 .. n - 1 /\ (n - 1) + 1 = n
      BY <1>5, <2>2
    <3>2. Q # <<>> /\ Q[Len(Q)] = P[n]
      BY <1>5, <3>1
    <3>3. OpenEnd(port)' => P[n].part = 1
      BY <1>3, <3>2 DEF OpenEnd
    <3> QED BY <1>4, <1>5, <3>3 DEF OpenEnd
  <2> QED BY <2>1, <2>2
<1>9. Members(host)' /\ Places(host)' /\ Handshake(host)'
  BY <1>3, HostKept
<1>10. Screens(host)'
  BY <1>3, ScreensKept
<1>11. Queued(host, port)'
  BY <1>3, <1>5, <1>6, <1>7, <1>8, QueuedKept
<1>12. Outcome(host)'
  BY <1>3, OutcomeKept
<1> QED BY <1>9, <1>10, <1>11, <1>12 DEF Stage

\* The half the instrument takes next.
LEMMA NextTaken ==
    ASSUME TransferInv, port # <<>>
    PROVE  /\ Head(port) \in HalfType
           /\ Command(Head(port)) \/ OfPayload(Head(port))
<1>1. port \in Seq(HalfType) /\ Queued(host, port)
  BY LoadedHost DEF Stage
<1>2. Head(port) \in HalfType /\ Head(port) = port[1] /\ 1 \in DOMAIN port
  BY <1>1, HeadTailProperties, EmptySeq
<1> QED BY <1>1, <1>2 DEF Queued

LEMMA InvDeviceByte == ASSUME TransferInv, DeviceByte PROVE TransferInv'
<1>1. /\ port # <<>> /\ port' = Tail(port)
      /\ UNCHANGED <<host, payload, seen, transfers, shown, cancelled>>
  BY DEF DeviceByte, counters
<1>2. PICK h : h = Head(port)
  OBVIOUS
<1>3. h \in HalfType /\ (Command(h) \/ OfPayload(h))
  BY <1>1, <1>2, NextTaken
<1>4. NoHalf \in HalfType
  BY DEF NoHalf, Half, HalfType
<1>5. PICK p : p = IF h.part = 1 THEN h ELSE NoHalf
  OBVIOUS
<1>6. device' = [device EXCEPT !.partial = p]
  BY <1>2, <1>5 DEF DeviceByte
<1>7. device \in DeviceType /\ device.got \subseteq 1 .. Len(payload)
  BY LoadedHost DEF DeviceInv
<1>8. p \in HalfType /\ (p # NoHalf => p = h /\ h.part = 1)
  BY <1>3, <1>4, <1>5
<1>9. device' \in DeviceType /\ device'.partial = p /\ device'.got = device.got
  BY <1>6, <1>7, <1>8 DEF DeviceType
<1>10. Stage(host, port)'
  <2>1. device'.partial # NoHalf => Head(port).part = 1
    BY <1>2, <1>8, <1>9
  <2> QED BY <1>1, <2>1, QueueTaken
<1>11. DeviceInv'
  <2>1. p # NoHalf => p.part = 1 /\ (Command(p)' \/ OfPayload(p)')
    BY <1>1, <1>3, <1>8 DEF Command, OfPayload, Eox, Half
  <2> QED BY <1>1, <1>7, <1>9, <2>1 DEF DeviceInv, NoHalf, Half, Command, OfPayload, Eox
<1> QED BY <1>1, <1>10, <1>11 DEF TransferInv, NoStep

\* A device that took a message, or answered it badly.
Sound(d) == d \in DeviceType /\ d.got \subseteq 1 .. Len(payload) /\ d.partial = NoHalf

LEMMA ReplyTypes ==
    ASSUME NEW kind \in SdsReplies \cup {"SpeedReport", "SpeedAcknowledgement",
                                         "FirstTestResult", "SecondTestResult", "Other"},
           NEW packet \in Nat
    PROVE  Reply(kind, packet) \in ReplyType /\ <<Reply(kind, packet)>> \in Seq(ReplyType)
<1>1. Reply(kind, packet) \in ReplyType
  BY DEF Reply, ReplyType
<1> QED BY <1>1

LEMMA TakeFacts ==
    ASSUME NEW d, Sound(d), NEW m \in HalfType, m # Eox, Command(m) \/ OfPayload(m)
    PROVE  /\ Sound(Take(d, m).to) /\ Take(d, m).reply \in Seq(ReplyType)
           /\ m.kind \in {"SpeedRequest", "FirstTest"} =>
                \E r \in ReplyType : Take(d, m).reply = <<r>>
<1>1. /\ d \in DeviceType /\ m.packet \in Nat /\ Expected(d) \in Nat
      /\ d.got \subseteq 1 .. Len(payload) /\ d.partial = NoHalf
  BY LimitsAssumption DEF Sound, DeviceType, HalfType, Expected
<1>2. PICK x : x = Take(d, m)
  OBVIOUS
<1>3. CASE OfPayload(m)
  <2>1. m.kind \in MessageKinds /\ m.at \in 1 .. Len(payload) /\ m.at \in Nat
    BY <1>3 DEF OfPayload, HalfType
  <2>2. PICK got : got = d.got \cup {m.at}
    OBVIOUS
  <2>3. got \in SUBSET Nat /\ got \subseteq 1 .. Len(payload)
    BY <1>1, <2>1, <2>2 DEF DeviceType
  <2>4. \/ x.to = [d EXCEPT !.got = got, !.sample = m.at, !.want = 0]
        \/ x.to = d
        \/ \E s \in {0, d.sample} : x.to = [d EXCEPT !.got = got, !.want = @ + 1, !.sample = s]
        \/ x.to = [d EXCEPT !.got = got]
    <3>1. CASE m.kind = "SdsHeader"
      BY <1>2, <2>2, <3>1 DEF Take, MessageKinds, SdsKinds
    <3>2. CASE m.kind = "SdsPacket" /\ d.sample # 0 /\ m.packet = Expected(d)
      <4>1. PICK s : s = IF payload[m.at].last THEN 0 ELSE d.sample
        OBVIOUS
      <4>2. x.to = [d EXCEPT !.got = got, !.want = @ + 1, !.sample = s]
        <5>1. x.to = [d EXCEPT !.got = @ \cup {m.at}, !.want = @ + 1,
                               !.sample = IF payload[m.at].last THEN 0 ELSE @]
          BY <1>2, <3>2 DEF Take, MessageKinds, SdsKinds
        <5> QED BY <1>1, <2>2, <4>1, <5>1 DEF DeviceType
      <4>3. s \in {0, d.sample}
        BY <4>1
      <4> QED BY <4>2, <4>3
    <3>3. CASE m.kind = "SdsPacket" /\ ~(d.sample # 0 /\ m.packet = Expected(d))
      BY <1>2, <2>2, <3>3 DEF Take, MessageKinds, SdsKinds
    <3>4. CASE m.kind \in MessageKinds \ SdsKinds
      BY <1>2, <2>2, <3>4 DEF Take, MessageKinds, SdsKinds
    <3> QED BY <2>1, <3>1, <3>2, <3>3, <3>4 DEF SdsKinds
  <2>5. Sound(x.to)
    <3>1. d.want + 1 \in Nat /\ d.sample \in Nat /\ 0 \in Nat
      BY <1>1 DEF DeviceType
    <3>2. CASE x.to = [d EXCEPT !.got = got, !.sample = m.at, !.want = 0]
      BY <1>1, <2>1, <2>3, <3>1, <3>2 DEF Sound, DeviceType
    <3>3. CASE x.to = d
      BY <3>3
    <3>4. CASE \E s \in {0, d.sample} : x.to = [d EXCEPT !.got = got, !.want = @ + 1, !.sample = s]
      BY <1>1, <2>3, <3>1, <3>4 DEF Sound, DeviceType
    <3>5. CASE x.to = [d EXCEPT !.got = got]
      BY <1>1, <2>3, <3>5 DEF Sound, DeviceType
    <3> QED BY <2>4, <3>2, <3>3, <3>4, <3>5
  <2>6. x.reply \in Seq(ReplyType)
    <3>1. /\ x.reply \in {<<>>, <<Reply("ACK", 0)>>, <<Reply("WAIT", 0)>>,
                          <<Reply("ACK", m.packet)>>, <<Reply("NAK", Expected(d))>>}
      BY <1>2, <2>1 DEF Take, MessageKinds, SdsKinds
    <3> QED BY <1>1, <3>1, ReplyTypes, EmptySeq DEF SdsReplies
  <2>7. m.kind \notin {"SpeedRequest", "FirstTest"}
    BY <2>1 DEF MessageKinds, SdsKinds
  <2> QED BY <1>2, <2>5, <2>6, <2>7
<1>4. CASE Command(m)
  <2>1. m.kind \in Commands
    BY <1>4 DEF Command
  <2>2. x.to = d \/ x.to = [d EXCEPT !.sample = 0]
    BY <1>2, <2>1 DEF Take, Commands, MessageKinds, SdsKinds
  <2>3. Sound(x.to)
    BY <1>1, <2>2 DEF Sound, DeviceType
  <2>4. \/ m.kind \notin {"SpeedRequest", "FirstTest"} /\ x.reply = <<>>
        \/ \E kind \in {"SpeedReport", "SpeedAcknowledgement", "FirstTestResult",
                        "SecondTestResult"} : x.reply = <<Reply(kind, 0)>>
    BY <1>2, <2>1 DEF Take, Commands, MessageKinds, SdsKinds
  <2> QED BY <1>2, <2>3, <2>4, ReplyTypes, EmptySeq
<1> QED BY <1>3, <1>4

LEMMA SayFacts ==
    ASSUME NEW d, Sound(d), NEW replies \in Seq(ReplyType)
    PROVE  Sound(Say(d, replies))
<1>1. d \in DeviceType /\ d.replies \in Seq(ReplyType)
  BY DEF Sound, DeviceType
<1>2. PICK r : r = d.replies \o replies
  OBVIOUS
<1>3. r \in Seq(ReplyType)
  BY <1>1, <1>2, ConcatProperties
<1>4. Say(d, replies) = [d EXCEPT !.replies = r]
  BY <1>2 DEF Say
<1> QED BY <1>1, <1>3, <1>4 DEF Sound, DeviceType

LEMMA FaultyFacts ==
    ASSUME NEW d, Sound(d), NEW m \in HalfType, m # Eox, Command(m) \/ OfPayload(m),
           NEW fault \in Faults, CanShow(d, m, fault)
    PROVE  Sound(Faulty(d, m, fault))
<1>1. PICK x : x = Take(d, m)
  OBVIOUS
<1>2. /\ Sound(x.to) /\ x.reply \in Seq(ReplyType)
      /\ m.kind \in {"SpeedRequest", "FirstTest"} => \E r \in ReplyType : x.reply = <<r>>
  BY <1>1, TakeFacts
<1>3. m.packet \in Nat /\ Expected(d) \in Nat /\ d \in DeviceType
  BY LimitsAssumption DEF Sound, DeviceType, HalfType, Expected
<1>4. /\ <<Reply("WAIT", m.packet)>> \in Seq(ReplyType) /\ <<Reply("Other", 0)>> \in Seq(ReplyType)
      /\ <<Reply("NAK", Expected(d))>> \in Seq(ReplyType)
      /\ <<Reply("CANCEL", m.packet)>> \in Seq(ReplyType)
  BY <1>3, ReplyTypes DEF SdsReplies
<1>5. PICK y : y = Faulty(d, m, fault)
  OBVIOUS
<1>6. CASE fault \in {"lose", "miss"}
  BY <1>1, <1>2, <1>5, <1>6 DEF Faulty
<1>7. CASE fault = "duplicate"
  <2>1. x.reply \o x.reply \in Seq(ReplyType)
    BY <1>2, ConcatProperties
  <2>2. y = Say(x.to, x.reply \o x.reply)
    BY <1>1, <1>5, <1>7 DEF Faulty
  <2> QED BY <1>2, <1>5, <2>1, <2>2, SayFacts
<1>8. CASE fault = "bad"
  <2>1. m.kind \in {"SpeedRequest", "FirstTest"}
    BY <1>8 DEF CanShow
  <2>2. PICK r \in ReplyType : x.reply = <<r>>
    BY <1>2, <2>1
  <2>3. PICK b : b = [r EXCEPT !.good = FALSE]
    OBVIOUS
  <2>4. b \in ReplyType
    BY <2>2, <2>3 DEF ReplyType
  <2>5. <<b>> \in Seq(ReplyType)
    BY <2>4
  <2>6. y = Say(x.to, <<b>>)
    BY <1>1, <1>5, <1>8, <2>2, <2>3 DEF Faulty
  <2> QED BY <1>2, <1>5, <2>5, <2>6, SayFacts
<1>9. CASE fault \in {"wait", "noise"}
  <2>1. PICK w : w \in Seq(ReplyType) /\ y = Say(x.to, w \o x.reply)
    <3>1. y = Say(x.to, <<Reply("WAIT", m.packet)>> \o x.reply)
          \/ y = Say(x.to, <<Reply("Other", 0)>> \o x.reply)
      BY <1>1, <1>5, <1>9 DEF Faulty
    <3> QED BY <1>4, <3>1
  <2>2. w \o x.reply \in Seq(ReplyType)
    BY <1>2, <2>1, ConcatProperties
  <2> QED BY <1>2, <1>5, <2>1, <2>2, SayFacts
<1>10. CASE fault = "reject"
  <2>1. y = Say(d, <<Reply("NAK", Expected(d))>>)
    BY <1>5, <1>10 DEF Faulty
  <2> QED BY <1>4, <1>5, <2>1, SayFacts
<1>11. CASE fault = "cancel"
  <2>1. PICK e : e = [d EXCEPT !.sample = 0]
    OBVIOUS
  <2>2. Sound(e)
    BY <1>3, <2>1 DEF Sound, DeviceType
  <2>3. y = Say(e, <<Reply("CANCEL", m.packet)>>)
    BY <1>5, <1>11, <2>1 DEF Faulty
  <2> QED BY <1>4, <1>5, <2>2, <2>3, SayFacts
<1> QED BY <1>6, <1>7, <1>8, <1>9, <1>10, <1>11, FaultsAssumption

LEMMA InvDeviceMessage == ASSUME TransferInv, DeviceMessage PROVE TransferInv'
<1>1. /\ port # <<>> /\ port' = Tail(port) /\ Completes(device, Head(port))
      /\ UNCHANGED <<host, payload, seen, transfers, shown, cancelled>>
  BY DEF DeviceMessage
<1>2. PICK m, d : m = Head(port) /\ d = [device EXCEPT !.partial = NoHalf]
  OBVIOUS
<1>3. m \in HalfType /\ (Command(m) \/ OfPayload(m)) /\ m # Eox
  BY <1>1, <1>2, NextTaken DEF Completes
<1>4. Sound(d)
  <2>1. device \in DeviceType /\ device.got \subseteq 1 .. Len(payload)
    BY LoadedHost DEF DeviceInv
  <2>2. NoHalf \in HalfType
    BY DEF NoHalf, Half, HalfType
  <2> QED BY <1>2, <2>1, <2>2 DEF Sound, DeviceType
<1>5. \/ device' = Say(Take(d, m).to, Take(d, m).reply)
      \/ \E fault \in Faults : CanShow(d, m, fault) /\ device' = Faulty(d, m, fault)
  BY <1>2 DEF DeviceMessage
<1>6. PICK e : e = device'
  OBVIOUS
<1>7. Sound(e)
  <2>1. CASE e = Say(Take(d, m).to, Take(d, m).reply)
    BY <1>3, <1>4, <2>1, TakeFacts, SayFacts
  <2>2. CASE \E fault \in Faults : CanShow(d, m, fault) /\ e = Faulty(d, m, fault)
    BY <1>3, <1>4, <2>2, FaultyFacts
  <2> QED BY <1>5, <1>6, <2>1, <2>2
<1>8. Stage(host, port)'
  <2>1. device'.partial = NoHalf
    BY <1>6, <1>7 DEF Sound
  <2> QED BY <1>1, <2>1, QueueTaken
<1>9. DeviceInv'
  BY <1>1, <1>6, <1>7 DEF DeviceInv, Sound, NoHalf, Half
<1> QED BY <1>1, <1>8, <1>9 DEF TransferInv, NoStep

LEMMA InvDeviceReply == ASSUME TransferInv, DeviceReply PROVE TransferInv'
<1>1. /\ device.replies # <<>> /\ device' = [device EXCEPT !.replies = Tail(@)]
      /\ UNCHANGED <<payload, port, seen, transfers, shown, cancelled>>
  BY DEF DeviceReply, counters
<1>2. Loaded(host) /\ Stage(host, port) /\ DeviceInv /\ host \in HostType
  BY LoadedHost DEF Loaded
<1>3. device \in DeviceType /\ device.replies \in Seq(ReplyType)
  BY <1>2 DEF DeviceInv, DeviceType
<1>4. PICK r, s : r = Head(device.replies) /\ s = Tail(device.replies)
  OBVIOUS
<1>5. r \in ReplyType /\ s \in Seq(ReplyType)
  BY <1>1, <1>3, <1>4, HeadTailProperties
<1>6. /\ device' \in DeviceType /\ device'.partial = device.partial /\ device'.got = device.got
  BY <1>1, <1>3, <1>4, <1>5 DEF DeviceType
<1>7. DeviceInv'
  BY <1>1, <1>2, <1>6 DEF DeviceInv, Command, OfPayload, Eox, Half, NoHalf
<1>8. PICK h, Q : h = host /\ Q = port
  OBVIOUS
<1>9. PICK T : T = IF h.captureTransmit THEN [h EXCEPT !.transmit = Append(@, r)] ELSE h
  OBVIOUS
<1>10. host' = T /\ h \in HostType /\ Stage(h, Q) /\ port' = Q
  BY <1>1, <1>2, <1>4, <1>8, <1>9 DEF DeviceReply
<1>11. Stage(T, Q) /\ T.model = h.model /\ T.phase = h.phase
  <2>1. CASE h.captureTransmit
    <3>1. PICK w : w = Append(h.transmit, r)
      OBVIOUS
    <3>2. w \in Seq(ReplyType)
      BY <1>5, <1>10, <3>1, AppendProperties DEF HostType
    <3>3. T = [h EXCEPT !.transmit = w]
      BY <1>9, <2>1, <3>1
    <3>4. /\ T \in HostType /\ T.responses = h.responses
          /\ T.phase = h.phase /\ T.state = h.state /\ T.wire = h.wire
          /\ T.messageIndex = h.messageIndex /\ T.payloadCursor = h.payloadCursor
          /\ T.sdsActive = h.sdsActive /\ T.sdsPacket = h.sdsPacket /\ T.id = h.id
          /\ T.model = h.model /\ T.receiveKind = h.receiveKind /\ T.error = h.error
      BY <1>10, <3>2, <3>3 DEF HostType
    <3>5. h.phase # "DrainCancellation" /\ Len(h.responses) <= ResponseCapacity
      BY <1>10, <2>1 DEF Stage, Outcome, Members
    <3> QED BY <1>10, <3>4, <3>5, StageSame
  <2>2. CASE ~h.captureTransmit
    BY <1>9, <1>10, <2>2
  <2> QED BY <2>1, <2>2
<1>12. Stage(host, port)'
  BY <1>1, <1>6, <1>10, <1>11, StageKept
<1>13. /\ payload' \in Payloads[host'.model] \cup {<<>>}
       /\ host'.phase # "Idle" => payload' # <<>>
  BY <1>1, <1>8, <1>10, <1>11 DEF TransferInv
<1> QED BY <1>1, <1>7, <1>12, <1>13 DEF TransferInv, NoStep

----------------------------------------------------------------------------
(***************************************************************************)
(* The inductive invariant holds                                           *)
(***************************************************************************)
LEMMA InvInit == Init => TransferInv
<1> SUFFICES ASSUME Init PROVE TransferInv
  OBVIOUS
<1>1. PICK model \in Models : host = Idle(model)
  BY DEF Init
<1>2. /\ "Idle" \in Phases /\ "Idle" \in States /\ 1 \in Nat \ {0} /\ 0 \in Nat
      /\ 0 \in 0 .. PacketModulus - 1 /\ 0 \in 0 .. MaxRetries
      /\ "UserDump" \in MessageKinds /\ "None" \in Errors
      /\ <<>> \in Seq(HalfType) /\ <<>> \in Seq(ReplyType)
  BY LimitsAssumption DEF Phases, States, MessageKinds, Errors
<1>3. host \in HostType
  BY <1>1, <1>2 DEF Idle, HostType
<1>4. /\ host.phase = "Idle" /\ host.state = "Idle" /\ host.wire = <<>>
      /\ host.responses = <<>> /\ host.messageIndex = 1 /\ host.payloadCursor = 0
      /\ host.model \in Models
  BY <1>1 DEF Idle
<1>5. /\ payload = <<>> /\ port = <<>> /\ device = NewDevice /\ seen = NoStep
      /\ transfers = 0 /\ cancelled = FALSE
  BY DEF Init
<1>6. device \in DeviceType /\ device.partial = NoHalf /\ device.got = {}
  <2>1. NoHalf \in HalfType
    BY DEF NoHalf, Half, HalfType
  <2> QED BY <1>2, <1>5, <2>1 DEF NewDevice, DeviceType
<1>7. DeviceInv
  BY <1>6 DEF DeviceInv
<1>8. Members(host)
  BY <1>3, <1>4, LimitsAssumption DEF Members
<1>9. Places(host)
  <2>1. Size = 0
    BY <1>5 DEF Size
  <2> QED BY <1>4, <1>5, <2>1 DEF Places, OwningStates, Between, GivenUp
<1>10. Handshake(host) /\ Screens(host)
  BY <1>4 DEF Handshake, Screens, GivenUp
<1>11. Queued(host, port)
  <2>1. ~OpenEnd(port)
    BY <1>5, <1>6 DEF OpenEnd
  <2> QED BY <1>2, <1>5, <2>1, LimitsAssumption DEF Queued
<1>12. Outcome(host)
  BY <1>4, <1>5 DEF Outcome, GivenUp
<1> QED BY <1>2, <1>4, <1>5, <1>7, <1>8, <1>9, <1>10, <1>11, <1>12 DEF TransferInv, Stage

LEMMA InvNext == TransferInv /\ [Next]_vars => TransferInv'
<1> SUFFICES ASSUME TransferInv, [Next]_vars PROVE TransferInv'
  OBVIOUS
<1>1. CASE Start
  BY <1>1, InvStart
<1>2. CASE Cancel
  BY <1>2, InvCancel
<1>3. CASE RetirePayload
  BY <1>3, InvRetirePayload
<1>4. CASE \E ticks \in {0, 1}, pump \in BOOLEAN : Service(ticks, pump)
  BY <1>4, InvService
<1>5. CASE ShowReceiveStep
  BY <1>5, InvShowReceiveStep
<1>6. CASE ResumeReceiveMode
  BY <1>6, InvResumeReceiveMode
<1>7. CASE DeviceByte
  BY <1>7, InvDeviceByte
<1>8. CASE DeviceMessage
  BY <1>8, InvDeviceMessage
<1>9. CASE DeviceReply
  BY <1>9, InvDeviceReply
<1>10. CASE UNCHANGED vars
  <2>1. /\ UNCHANGED <<host, payload, port, device, seen, shown, transfers, cancelled>>
        /\ device'.partial = device.partial /\ shown \subseteq shown'
    BY <1>10 DEF vars
  <2>2. PICK T, Q : T = host /\ Q = port
    OBVIOUS
  <2>3. Stage(host, port)'
    <3>1. Stage(T, Q) /\ host' = T /\ port' = Q
      BY <2>1, <2>2, LoadedHost
    <3> QED BY <2>1, <3>1, StageKept
  <2>4. DeviceInv'
    BY <2>1, LoadedHost, DeviceKept
  <2> QED BY <2>1, <2>3, <2>4 DEF TransferInv, NoStep
<1> QED BY <1>1, <1>2, <1>3, <1>4, <1>5, <1>6, <1>7, <1>8, <1>9, <1>10 DEF Next

LEMMA InvHolds == Spec => []TransferInv
BY InvInit, InvNext, PTL DEF Spec

----------------------------------------------------------------------------
(***************************************************************************)
(* What follows                                                            *)
(***************************************************************************)
\* The members of TurboMidiTransfer (mdturbomidi.h) keep their ranges: the cursor stays in
\* the payload and the message index at most one behind it, packet numbers wrap, retries are
\* counted to the limit, and neither m_responses nor the receive queue holds more than fits.
THEOREM TypeCorrect == Spec => []TypeOK
<1>1. TransferInv => TypeOK
  <2> SUFFICES ASSUME TransferInv PROVE TypeOK
    OBVIOUS
  <2>1. /\ host \in HostType /\ host.messageIndex <= Len(payload) + 1
        /\ host.payloadCursor <= Size /\ Len(host.responses) <= ResponseCapacity
        /\ Len(port) <= PortCapacity /\ device.got \subseteq 1 .. Len(payload)
    BY DEF TransferInv, Stage, Members, Places, Queued, DeviceInv
  <2>2. /\ host.messageIndex \in Nat \ {0} /\ host.payloadCursor \in Nat
        /\ Len(payload) \in Nat /\ Size \in Nat
    BY LoadedHost, LoadedFacts
  <2>3. host.messageIndex \in 1 .. Len(payload) + 1 /\ host.payloadCursor \in 0 .. Size
    BY <2>1, <2>2
  <2>4. payload \in Payloads[host.model] \cup {<<>>}
    BY DEF TransferInv
  <2> QED BY <2>1, <2>3, <2>4 DEF TypeOK, HostType
<1> QED BY <1>1, InvHolds, PTL

\* pumpWire(), takeSdsResponse() and the retry (mdturbomidi.cpp) move the cursor, the message
\* index and the packet number apart from each other: they speak of the same message whenever
\* a half is sent and whenever an answer is awaited, whatever was lost or repeated.
THEOREM PositionsCorrect == Spec => []PositionsAgree
<1>1. TransferInv => PositionsAgree
  <2> SUFFICES ASSUME TransferInv PROVE PositionsAgree
    OBVIOUS
  <2>1. Stage(host, port) /\ Into(host) = host.payloadCursor - Offset(host.messageIndex)
    BY LoadedHost DEF Into
  <2>2. host.phase = "Payload" => Into(host) \in 0 .. 1
    BY <2>1 DEF Stage, Places
  <2>3. ASSUME host.phase \in {"DrainSds", "WaitSds"}
        PROVE  /\ Into(host) = 2 /\ host.sdsActive
               /\ host.sdsPacket = IF Current(host).kind = "SdsHeader" THEN 0
                                   ELSE Current(host).packet
    BY <2>1, <2>3 DEF Stage, Places, Handshake, GivenUp
  <2> QED BY <2>1, <2>2, <2>3 DEF PositionsAgree
<1> QED BY <1>1, InvHolds, PTL

\* serviceSds() (mdturbomidi.cpp) takes an ACK only once the port has drained and rewinds to
\* the same message: a sample message in the UART's queue is always the current one.
THEOREM SamplesInTurn == Spec => []NoSampleOvertaken
<1>1. TransferInv => NoSampleOvertaken
  BY LoadedHost DEF Stage, Queued, NoSampleOvertaken, Range
<1> QED BY <1>1, InvHolds, PTL

\* A transfer that ended, however it ended, left nothing on the wire and no message open in
\* the instrument (abortPayload()'s end of message, DrainCancellation and DrainPayload).
THEOREM WireClean == Spec => []WireReleasedClean
<1>1. TransferInv => WireReleasedClean
  <2> SUFFICES ASSUME TransferInv, ~OwnsMidiWire
               PROVE  port = <<>> /\ host.wire = <<>> /\ device.partial = NoHalf
    BY DEF WireReleasedClean
  <2>1. Stage(host, port) /\ host.phase = "Idle"
    BY LoadedHost
  <2>2. port = <<>> /\ host.wire = <<>>
    BY <2>1 DEF Stage, Places, Queued, SendPhases, WaitPhase
  <2>3. ~OpenEnd(port)
    BY <2>1, <2>2 DEF Stage, Queued
  <2> QED BY <2>2, <2>3 DEF OpenEnd
<1> QED BY <1>1, InvHolds, PTL

\* The result the editor reports (cancel(), abortPayload() and the end of service()): a
\* cancelled transfer is one that was cancelled, and a cancelled one never ends as complete
\* or failed.
THEOREM OutcomeTrue == Spec => []OutcomeIsTrue
<1>1. TransferInv => OutcomeIsTrue
  BY LoadedHost DEF Stage, Outcome, OutcomeIsTrue
<1> QED BY <1>1, InvHolds, PTL

\* resumeReceiveMode() lets a message the user must prepare for out only after the editor
\* showed that step of that transfer: nothing of it is in the port before.
THEOREM SentWhenReady == Spec => []SentOnlyWhenReady
<1>1. TransferInv => SentOnlyWhenReady
  <2> SUFFICES ASSUME TransferInv, NEW h \in Range(port), h.at # 0, NeedsUser(h.at)
               PROVE  <<host.id, h.at>> \in shown
    BY DEF SentOnlyWhenReady
  <2>1. PICK i \in DOMAIN port : h = port[i]
    BY DEF Range
  <2>2. ReadyFor(host, h.at)
    BY <2>1, LoadedHost DEF Stage, Queued
  <2> QED BY <2>2 DEF ReadyFor, NeedsUserOn, NeedsUser
<1> QED BY <1>1, InvHolds, PTL

----------------------------------------------------------------------------
(***************************************************************************)
(* What an acknowledgement is worth                                        *)
(*                                                                         *)
(* While a transfer goes on, all that is between instrument and host, the  *)
(* replies in the instrument, on their way and in m_responses, is about    *)
(* the current message, and in order: behind the answer that moves the     *)
(* transfer on there is none that would move it again or send it back.     *)
(* The operators name what they speak of, so that they can be about a step *)
(* before it is complete: payload p, instrument d, message i, host t.      *)
(***************************************************************************)
Live(t) == t.phase \notin GivenUp
NextOf(number) == (number + 1) % PacketModulus

\* A reply the instrument can have given to message i, and one that moves a transfer on.
Allowed(p, d, i, r) ==
    /\ r.kind = "ACK" => i \in 1 .. Len(p) /\ p[i].kind \in SdsKinds /\ i \in d.got
    /\ r.kind = "NAK" =>
        /\ r.good /\ i \in 1 .. Len(p) /\ p[i].kind = "SdsPacket"
        /\ \/ r.packet = p[i].packet
           \/ r.packet = NextOf(p[i].packet) /\ i \in d.got /\ ~p[i].last
Decides(p, i, r) == r.kind = "ACK" \/ (r.kind = "NAK" /\ r.packet # p[i].packet)
Settles(p, i, r, later) ==
    Decides(p, i, r) =>
        later.kind # "ACK" /\ (later.kind = "NAK" => later.packet # p[i].packet)

\* The replies of one place are in order, and those of a place ahead of another's.
Verdicts(p, d, i, s) ==
    /\ \A a \in DOMAIN s : Allowed(p, d, i, s[a])
    /\ \A a, b \in DOMAIN s : a < b => Settles(p, i, s[a], s[b])
InTurn(p, i, r, s) == \A a \in DOMAIN r, b \in DOMAIN s : Settles(p, i, r[a], s[b])
Answers(p, d, t) ==
    LET i == t.messageIndex IN
    /\ Verdicts(p, d, i, t.responses) /\ Verdicts(p, d, i, t.transmit)
    /\ Verdicts(p, d, i, d.replies)
    /\ InTurn(p, i, t.responses, t.transmit) /\ InTurn(p, i, t.responses, d.replies)
    /\ InTurn(p, i, t.transmit, d.replies)

\* The instrument is inside a sample exactly where the host is.
Sampling(p, d, i) ==
    /\ d.sample # 0 =>
        /\ i \in 1 .. Len(p)
        /\ \/ p[i].kind = "SdsHeader" /\ i \in d.got /\ Expected(d) = 0
           \/ /\ p[i].kind = "SampleName" /\ i > 1 /\ p[i - 1].kind = "SdsHeader"
              /\ Expected(d) = 0
           \/ /\ p[i].kind = "SdsPacket" /\ (i \in d.got => ~p[i].last)
              /\ Expected(d) = IF i \in d.got THEN NextOf(p[i].packet) ELSE p[i].packet
    /\ i \in d.got /\ p[i].kind = "SdsHeader" => d.sample # 0

\* The half before the nth of the queue; the instrument has the one before the first.
Before(d, queue, n) == IF n = 1 THEN d.partial ELSE queue[n - 1]
Carries(queue, j) == \E n \in DOMAIN queue : queue[n].at = j /\ queue[n].part = 2

\* No half of a message is lost: its second half follows the first.
Sent(p, d, t, queue) ==
    /\ d.got \subseteq 1 .. t.messageIndex
    /\ \A n \in DOMAIN queue :
        queue[n].at # 0 =>
            /\ queue[n].at <= t.messageIndex /\ queue[n].packet = p[queue[n].at].packet
            /\ queue[n].part = 2 => Before(d, queue, n) = [queue[n] EXCEPT !.part = 1]
    /\ NoCancel(queue) /\ NoCancel(t.wire)
    /\ t.phase = "Payload" /\ Into(t) = 1 =>
        Before(d, queue, Len(queue) + 1) =
            Half(p[t.messageIndex].kind, t.messageIndex, p[t.messageIndex].packet, 1)
    /\ t.phase = "DrainPayload" => t.messageIndex = Len(p) + 1
    /\ \A j \in 1 .. t.messageIndex - 1 : j \in d.got \/ Carries(queue, j)

\* What the transfer has moved past arrived.
Received(p, d, t) ==
    /\ t.phase # "Idle" => \A j \in 1 .. t.messageIndex - 1 : p[j].kind \in SdsKinds => j \in d.got
    /\ t.state = "Complete" => d.got = 1 .. Len(p)

Track(p, d, t, queue) ==
    /\ Live(t) => Answers(p, d, t) /\ Sampling(p, d, t.messageIndex) /\ Sent(p, d, t, queue)
    /\ Received(p, d, t)

\* Before its first transfer nothing was said.
Fresh == host.phase = "Idle" /\ host.state = "Idle" /\ port = <<>> /\ device = NewDevice

AckInv ==
    /\ transfers = 0 => Fresh
    /\ Track(payload, device, host, port)

----------------------------------------------------------------------------
(* The numbers of the packets.                                             *)
LEMMA NextRemainder ==
    ASSUME NEW c \in Nat
    PROVE  (c + 1) % PacketModulus = NextOf(c % PacketModulus)
<1>1. PacketModulus \in Nat \ {0}
  BY LimitsAssumption
<1>2. PICK n, q, r : n = PacketModulus /\ q = c \div PacketModulus /\ r = c % PacketModulus
  OBVIOUS
<1>3. n \in Nat \ {0} /\ q \in Int /\ r \in 0 .. n - 1 /\ c = n * q + r
  BY <1>1, <1>2
<1>4. CASE r + 1 \in 0 .. n - 1
  <2>1. ((r + 1) + n * q) % n = r + 1 /\ (r + 1) % n = r + 1
    <3>1. ((r + 1) + n * q) % n = r + 1
      BY <1>3, <1>4, ModUnique
    <3>2. (r + 1) % n = r + 1
      BY <1>3, <1>4
    <3> QED BY <3>1, <3>2
  <2>2. c + 1 = (r + 1) + n * q
    BY <1>3
  <2> QED BY <1>2, <2>1, <2>2 DEF NextOf
<1>5. CASE r + 1 = n
  <2>1. (0 + n * (q + 1)) % n = 0 /\ n % n = 0
    <3>1. 0 \in 0 .. n - 1 /\ q + 1 \in Int
      BY <1>3
    <3>2. (0 + n * (q + 1)) % n = 0
      BY <1>3, <3>1, ModUnique
    <3>3. (0 + n * 1) % n = 0 /\ 0 + n * 1 = n
      BY <1>3, <3>1, ModUnique
    <3> QED BY <3>2, <3>3
  <2>2. c + 1 = 0 + n * (q + 1)
    BY <1>3, <1>5
  <2> QED BY <1>2, <1>5, <2>1, <2>2 DEF NextOf
<1> QED BY <1>3, <1>4, <1>5

LEMMA NextDiffers ==
    ASSUME PacketModulus > 1, NEW number \in 0 .. PacketModulus - 1
    PROVE  NextOf(number) # number /\ NextOf(number) \in Nat
<1>1. PICK n : n = PacketModulus
  OBVIOUS
<1>2. n \in Nat \ {0} /\ n > 1 /\ number \in 0 .. n - 1
  BY <1>1, LimitsAssumption
<1>3. CASE number + 1 \in 0 .. n - 1
  <2>1. (number + 1) % n = number + 1
    BY <1>2, <1>3
  <2> QED BY <1>1, <1>2, <2>1 DEF NextOf
<1>4. CASE number + 1 = n
  <2>1. (0 + n * 1) % n = 0 /\ 0 + n * 1 = n
    BY <1>2, ModUnique
  <2> QED BY <1>1, <1>2, <1>4, <2>1 DEF NextOf
<1> QED BY <1>2, <1>3, <1>4

\* parseMidiSysexFile: the first packet of a sample has number zero, each other the next one.
LEMMA Numbering ==
    ASSUME NEW model \in Models, NEW p \in Payloads[model], NEW i \in 1 .. Len(p)
    PROVE  /\ p[i].kind = "SdsHeader" =>
                /\ i < Len(p) /\ p[i + 1].kind \in {"SdsPacket", "SampleName"}
                /\ p[i + 1].kind = "SdsPacket" => p[i + 1].packet = 0
           /\ p[i].kind = "SampleName" /\ i > 1 =>
                (p[i - 1].kind = "SdsHeader" =>
                    i < Len(p) /\ p[i + 1].kind = "SdsPacket" /\ p[i + 1].packet = 0)
           /\ p[i].kind = "SdsPacket" /\ ~p[i].last =>
                /\ i < Len(p) /\ p[i + 1].kind = "SdsPacket"
                /\ p[i + 1].packet = NextOf(p[i].packet)
<1>1. p \in Seq(Message) /\ WellFormed(p, model) /\ Len(p) \in Nat
  BY PayloadsAssumption
<1>2. \A j \in 1 .. Len(p) :
        p[j].kind = "SdsPacket" => p[j].packet = Cardinality(PacketsBefore(p, j)) % PacketModulus
  BY <1>1 DEF WellFormed
<1>3. ASSUME NEW j \in 1 .. Len(p), p[j].kind = "SdsPacket", PacketsBefore(p, j) = {}
      PROVE  p[j].packet = 0
  <2>1. Cardinality(PacketsBefore(p, j)) = 0
    BY <1>3, FS_EmptySet
  <2>2. 0 % PacketModulus = 0
    BY LimitsAssumption
  <2> QED BY <1>2, <1>3, <2>1, <2>2
<1>4. ASSUME p[i].kind = "SdsHeader"
      PROVE  /\ i < Len(p) /\ p[i + 1].kind \in {"SdsPacket", "SampleName"}
             /\ p[i + 1].kind = "SampleName" => i + 1 < Len(p) /\ p[i + 2].kind = "SdsPacket"
  BY <1>1, <1>4 DEF WellFormed
<1>5. ASSUME p[i].kind = "SdsHeader", p[i + 1].kind = "SdsPacket" PROVE p[i + 1].packet = 0
  <2>1. i + 1 \in 1 .. Len(p)
    BY <1>1, <1>4, <1>5
  <2>2. PacketsBefore(p, i + 1) = {}
    <3> SUFFICES ASSUME NEW j \in PacketsBefore(p, i + 1) PROVE FALSE
      OBVIOUS
    <3>1. j \in 1 .. (i + 1) - 1 /\ \A k \in j .. i + 1 : p[k].kind # "SdsHeader"
      BY DEF PacketsBefore
    <3>2. i \in j .. i + 1
      BY <3>1
    <3> QED BY <1>5, <3>1, <3>2
  <2> QED BY <1>3, <1>5, <2>1, <2>2
<1>6. ASSUME p[i].kind = "SampleName", i > 1, p[i - 1].kind = "SdsHeader"
      PROVE  i < Len(p) /\ p[i + 1].kind = "SdsPacket" /\ p[i + 1].packet = 0
  <2>1. i - 1 \in 1 .. Len(p) /\ (i - 1) + 1 = i /\ (i - 1) + 2 = i + 1
    BY <1>6
  <2>2. i < Len(p) /\ p[i + 1].kind = "SdsPacket"
    BY <1>1, <1>6, <2>1 DEF WellFormed
  <2>3. i + 1 \in 1 .. Len(p)
    BY <1>1, <2>2
  <2>4. PacketsBefore(p, i + 1) = {}
    <3> SUFFICES ASSUME NEW j \in PacketsBefore(p, i + 1) PROVE FALSE
      OBVIOUS
    <3>1. /\ j \in 1 .. (i + 1) - 1 /\ p[j].kind = "SdsPacket"
          /\ \A k \in j .. i + 1 : p[k].kind # "SdsHeader"
      BY DEF PacketsBefore
    <3>2. j # i
      BY <1>6, <3>1
    <3>3. i - 1 \in j .. i + 1
      BY <3>1, <3>2
    <3> QED BY <1>6, <3>1, <3>3
  <2> QED BY <1>3, <2>2, <2>3, <2>4
<1>7. ASSUME p[i].kind = "SdsPacket", ~p[i].last
      PROVE  /\ i < Len(p) /\ p[i + 1].kind = "SdsPacket"
             /\ p[i + 1].packet = NextOf(p[i].packet)
  <2>1. i < Len(p) /\ p[i + 1].kind = "SdsPacket"
    BY <1>1, <1>7 DEF WellFormed
  <2>2. i + 1 \in 1 .. Len(p) /\ i \in Nat /\ (i + 1) - 1 = i
    BY <1>1, <2>1
  <2>3. PICK S : S = PacketsBefore(p, i)
    OBVIOUS
  <2>4. IsFiniteSet(S) /\ i \notin S /\ Cardinality(S) \in Nat
    <3>1. S \subseteq 1 .. i - 1 /\ IsFiniteSet(1 .. i - 1)
      <4>1. 1 \in Int /\ i - 1 \in Int
        BY <2>2
      <4> QED BY <2>3, <4>1, FS_Interval DEF PacketsBefore
    <3>2. IsFiniteSet(S)
      BY <3>1, FS_Subset
    <3> QED BY <2>2, <3>1, <3>2, FS_CardinalityType
  <2>5. PacketsBefore(p, i + 1) = S \cup {i}
    <3>1. ASSUME NEW j \in 1 .. i - 1
          PROVE  (\A k \in j .. i + 1 : p[k].kind # "SdsHeader")
                    <=> (\A k \in j .. i : p[k].kind # "SdsHeader")
      <4>1. \A k \in j .. i + 1 : k \in j .. i \/ k = i + 1
        BY <2>2
      <4>2. \A k \in j .. i : k \in j .. i + 1
        BY <2>2
      <4> QED BY <2>1, <4>1, <4>2
    <3>2. \A k \in i .. i + 1 : p[k].kind # "SdsHeader"
      <4>1. \A k \in i .. i + 1 : k = i \/ k = i + 1
        BY <2>2
      <4> QED BY <1>7, <2>1, <4>1
    <3>3. \A j : j \in 1 .. (i + 1) - 1 <=> j \in 1 .. i - 1 \/ j = i
      BY <2>2
    <3> QED BY <1>7, <2>3, <3>1, <3>2, <3>3 DEF PacketsBefore
  <2>6. PICK c \in Nat : c = Cardinality(S)
    BY <2>4
  <2>7. Cardinality(S \cup {i}) = c + 1
    BY <2>4, <2>6, FS_AddElement
  <2>8. p[i].packet = c % PacketModulus /\ p[i + 1].packet = (c + 1) % PacketModulus
    BY <1>2, <1>7, <2>1, <2>2, <2>3, <2>5, <2>6, <2>7
  <2> QED BY <2>1, <2>8, NextRemainder
<1> QED BY <1>4, <1>5, <1>6, <1>7

----------------------------------------------------------------------------
(* Replies in order.                                                       *)
LEMMA VerdictsKept ==
    ASSUME NEW p, NEW i, NEW d, NEW e, d.got \subseteq e.got,
           NEW s \in Seq(ReplyType), NEW q \in Seq(ReplyType), Tails(q, s), Verdicts(p, d, i, s)
    PROVE  Verdicts(p, e, i, q)
<1>1. PICK k \in Nat : \A a \in DOMAIN q : a + k \in DOMAIN s /\ q[a] = s[a + k]
  BY DEF Tails
<1>2. ASSUME NEW a \in DOMAIN q PROVE Allowed(p, e, i, q[a])
  <2>1. Allowed(p, d, i, q[a])
    BY <1>1, <1>2 DEF Verdicts
  <2> QED BY <2>1 DEF Allowed
<1>3. ASSUME NEW a \in DOMAIN q, NEW b \in DOMAIN q, a < b PROVE Settles(p, i, q[a], q[b])
  <2>1. a + k \in DOMAIN s /\ b + k \in DOMAIN s /\ q[a] = s[a + k] /\ q[b] = s[b + k]
    BY <1>1, <1>3
  <2>2. a + k < b + k
    BY <1>3
  <2> QED BY <2>1, <2>2 DEF Verdicts
<1> QED BY <1>2, <1>3 DEF Verdicts

LEMMA InTurnKept ==
    ASSUME NEW p, NEW i, NEW r, NEW s, NEW q, NEW u, Tails(q, r), Tails(u, s), InTurn(p, i, r, s)
    PROVE  InTurn(p, i, q, u)
BY DEF Tails, InTurn

LEMMA AnswersKept ==
    ASSUME NEW p, NEW d \in DeviceType, NEW e \in DeviceType, NEW t \in HostType,
           NEW a \in HostType, a.messageIndex = t.messageIndex, d.got \subseteq e.got,
           Tails(a.responses, t.responses), Tails(a.transmit, t.transmit),
           Tails(e.replies, d.replies), Answers(p, d, t)
    PROVE  Answers(p, e, a)
<1>1. /\ a.responses \in Seq(ReplyType) /\ t.responses \in Seq(ReplyType)
      /\ a.transmit \in Seq(ReplyType) /\ t.transmit \in Seq(ReplyType)
      /\ d.replies \in Seq(ReplyType) /\ e.replies \in Seq(ReplyType)
  BY DEF HostType, DeviceType
<1>2. PICK i : i = t.messageIndex
  OBVIOUS
<1>3. /\ Verdicts(p, d, i, t.responses) /\ Verdicts(p, d, i, t.transmit)
      /\ Verdicts(p, d, i, d.replies)
      /\ InTurn(p, i, t.responses, t.transmit) /\ InTurn(p, i, t.responses, d.replies)
      /\ InTurn(p, i, t.transmit, d.replies)
  BY <1>2 DEF Answers
<1>4. Verdicts(p, e, i, a.responses)
  BY <1>1, <1>3, VerdictsKept
<1>5. Verdicts(p, e, i, a.transmit)
  BY <1>1, <1>3, VerdictsKept
<1>6. Verdicts(p, e, i, e.replies)
  BY <1>1, <1>3, VerdictsKept
<1>7. /\ InTurn(p, i, a.responses, a.transmit) /\ InTurn(p, i, a.responses, e.replies)
      /\ InTurn(p, i, a.transmit, e.replies)
  BY <1>3, InTurnKept
<1> QED BY <1>2, <1>4, <1>5, <1>6, <1>7 DEF Answers

LEMMA VerdictsAppend ==
    ASSUME NEW p, NEW i, NEW d, NEW s \in Seq(ReplyType), NEW r \in ReplyType,
           Verdicts(p, d, i, s), Allowed(p, d, i, r), \A a \in DOMAIN s : Settles(p, i, s[a], r)
    PROVE  Verdicts(p, d, i, Append(s, r))
<1>1. PICK q, n : q = Append(s, r) /\ n = Len(s)
  OBVIOUS
<1>2. /\ n \in Nat /\ q \in Seq(ReplyType) /\ DOMAIN q = 1 .. n + 1 /\ DOMAIN s = 1 .. n
      /\ \A a \in 1 .. n : q[a] = s[a]
      /\ q[n + 1] = r
  BY <1>1, AppendProperties
<1>3. \A a \in DOMAIN q : a \in DOMAIN s \/ a = n + 1
  BY <1>2
<1>4. \A a \in DOMAIN q : Allowed(p, d, i, q[a])
  BY <1>2, <1>3 DEF Verdicts
<1>5. ASSUME NEW a \in DOMAIN q, NEW b \in DOMAIN q, a < b PROVE Settles(p, i, q[a], q[b])
  <2>1. a \in DOMAIN s /\ (b \in DOMAIN s \/ b = n + 1)
    BY <1>2, <1>5
  <2> QED BY <1>2, <1>5, <2>1 DEF Verdicts
<1> QED BY <1>1, <1>4, <1>5 DEF Verdicts

LEMMA InTurnAppend ==
    ASSUME NEW p, NEW i, NEW s \in Seq(ReplyType), NEW u, NEW r \in ReplyType
    PROVE  /\ InTurn(p, i, u, s) /\ (\A a \in DOMAIN u : Settles(p, i, u[a], r)) =>
                InTurn(p, i, u, Append(s, r))
           /\ InTurn(p, i, s, u) /\ (\A b \in DOMAIN u : Settles(p, i, r, u[b])) =>
                InTurn(p, i, Append(s, r), u)
<1>1. PICK q, n : q = Append(s, r) /\ n = Len(s)
  OBVIOUS
<1>2. /\ n \in Nat /\ q \in Seq(ReplyType) /\ DOMAIN q = 1 .. n + 1 /\ DOMAIN s = 1 .. n
      /\ \A a \in 1 .. n : q[a] = s[a]
      /\ q[n + 1] = r
  BY <1>1, AppendProperties
<1>3. \A a \in DOMAIN q : (a \in DOMAIN s /\ q[a] = s[a]) \/ q[a] = r
  <2>1. \A a \in DOMAIN q : a \in DOMAIN s \/ a = n + 1
    BY <1>2
  <2> QED BY <1>2, <2>1
<1> QED BY <1>1, <1>3 DEF InTurn

LEMMA VerdictsConcat ==
    ASSUME NEW p, NEW i, NEW d, NEW r \in Seq(ReplyType), NEW s \in Seq(ReplyType),
           Verdicts(p, d, i, r), Verdicts(p, d, i, s), InTurn(p, i, r, s)
    PROVE  /\ Verdicts(p, d, i, r \o s)
           /\ \A u : InTurn(p, i, r, u) /\ InTurn(p, i, s, u) => InTurn(p, i, r \o s, u)
<1>1. PICK q, n, m : q = r \o s /\ n = Len(r) /\ m = Len(s)
  OBVIOUS
<1>2. /\ n \in Nat /\ m \in Nat /\ q \in Seq(ReplyType) /\ DOMAIN q = 1 .. n + m
      /\ DOMAIN r = 1 .. n /\ DOMAIN s = 1 .. m
      /\ \A a \in 1 .. n + m : q[a] = IF a <= n THEN r[a] ELSE s[a - n]
  BY <1>1, ConcatProperties
<1>3. ASSUME NEW a \in DOMAIN q
      PROVE  \/ a <= n /\ a \in DOMAIN r /\ q[a] = r[a]
             \/ a > n /\ a - n \in DOMAIN s /\ q[a] = s[a - n]
  <2>1. a \in 1 .. n + m
    BY <1>2, <1>3
  <2>2. CASE a <= n
    BY <1>2, <2>1, <2>2
  <2>3. CASE a > n
    <3>1. a - n \in 1 .. m
      BY <1>2, <2>1, <2>3
    <3> QED BY <1>2, <2>1, <2>3, <3>1
  <2> QED BY <1>2, <2>1, <2>2, <2>3
<1>4. \A a \in DOMAIN q : Allowed(p, d, i, q[a])
  BY <1>3 DEF Verdicts
<1>5. ASSUME NEW a \in DOMAIN q, NEW b \in DOMAIN q, a < b PROVE Settles(p, i, q[a], q[b])
  <2>1. CASE b <= n
    <3>1. a <= n
      BY <1>2, <1>5, <2>1
    <3>2. ~(a > n) /\ ~(b > n)
      BY <1>2, <2>1, <3>1
    <3>3. a \in DOMAIN r /\ q[a] = r[a] /\ b \in DOMAIN r /\ q[b] = r[b]
      BY <1>3, <3>2
    <3> QED BY <1>5, <3>3 DEF Verdicts
  <2>2. CASE a > n
    <3>1. b > n
      BY <1>2, <1>5, <2>2
    <3>2. ~(a <= n) /\ ~(b <= n)
      BY <1>2, <2>2, <3>1
    <3>3. a - n \in DOMAIN s /\ q[a] = s[a - n] /\ b - n \in DOMAIN s /\ q[b] = s[b - n]
      BY <1>3, <3>2
    <3>4. a - n < b - n
      BY <1>2, <1>5
    <3> QED BY <3>3, <3>4 DEF Verdicts
  <2>3. CASE a <= n /\ b > n
    <3>1. ~(a > n) /\ ~(b <= n)
      BY <1>2, <2>3
    <3>2. a \in DOMAIN r /\ q[a] = r[a] /\ b - n \in DOMAIN s /\ q[b] = s[b - n]
      BY <1>3, <3>1
    <3> QED BY <3>2 DEF InTurn
  <2> QED BY <1>2, <2>1, <2>2, <2>3
<1>6. \A u : InTurn(p, i, r, u) /\ InTurn(p, i, s, u) => InTurn(p, i, q, u)
  BY <1>3 DEF InTurn
<1> QED BY <1>1, <1>4, <1>5, <1>6 DEF Verdicts

\* Nothing in a place can acknowledge message i, or refuse it.
Spent(p, i, s) ==
    \A a \in DOMAIN s : s[a].kind # "ACK" /\ (s[a].kind = "NAK" => s[a].packet # p[i].packet)

LEMMA SpentVerdicts ==
    ASSUME NEW model \in Models, NEW p \in Payloads[model], NEW d, NEW i \in 1 .. Len(p), NEW s,
           Verdicts(p, d, i, s), Spent(p, i, s)
    PROVE  /\ Verdicts(p, d, i + 1, s)
           /\ \A u : InTurn(p, i + 1, s, u)
<1>1. ASSUME NEW a \in DOMAIN s
      PROVE  Allowed(p, d, i + 1, s[a]) /\ ~Decides(p, i + 1, s[a])
  <2>1. PICK r : r = s[a]
    OBVIOUS
  <2>2. /\ r.kind # "ACK" /\ (r.kind = "NAK" => r.packet # p[i].packet) /\ Allowed(p, d, i, r)
    BY <1>1, <2>1 DEF Spent, Verdicts
  <2>3. CASE r.kind # "NAK"
    BY <2>1, <2>2, <2>3 DEF Allowed, Decides
  <2>4. CASE r.kind = "NAK"
    <3>1. /\ r.good /\ p[i].kind = "SdsPacket" /\ ~p[i].last /\ r.packet = NextOf(p[i].packet)
      BY <2>2, <2>4 DEF Allowed
    <3>2. i < Len(p) /\ p[i + 1].kind = "SdsPacket" /\ p[i + 1].packet = NextOf(p[i].packet)
      BY <3>1, Numbering
    <3>3. i + 1 \in 1 .. Len(p)
      <4>1. Len(p) \in Nat
        BY FirstMessage
      <4> QED BY <3>2, <4>1
    <3> QED BY <2>1, <2>2, <3>1, <3>2, <3>3 DEF Allowed, Decides
  <2> QED BY <2>3, <2>4
<1> QED BY <1>1 DEF Verdicts, InTurn, Settles

\* The next message: nothing that is still on its way can be taken for its answer.
LEMMA StepOn ==
    ASSUME NEW model \in Models, NEW p \in Payloads[model], NEW d, NEW i \in 1 .. Len(p),
           d.got \subseteq 1 .. i, p[i].kind \in SdsKinds => i \in d.got,
           Sampling(p, d, i),
           NEW a, a.messageIndex = i + 1,
           Verdicts(p, d, i, a.responses), Spent(p, i, a.responses),
           Verdicts(p, d, i, a.transmit), Spent(p, i, a.transmit),
           Verdicts(p, d, i, d.replies), Spent(p, i, d.replies)
    PROVE  Answers(p, d, a) /\ Sampling(p, d, i + 1)
<1>1. Answers(p, d, a)
  BY SpentVerdicts DEF Answers
<1>2. Len(p) \in Nat /\ i \in Nat /\ (i + 1) - 1 = i /\ i + 1 > 1
  BY FirstMessage
<1>3. i + 1 \notin d.got
  BY <1>2
<1>4. ASSUME d.sample # 0
      PROVE  /\ i + 1 \in 1 .. Len(p)
             /\ \/ p[i + 1].kind = "SampleName" /\ p[i].kind = "SdsHeader" /\ Expected(d) = 0
                \/ p[i + 1].kind = "SdsPacket" /\ Expected(d) = p[i + 1].packet
  <2>1. CASE p[i].kind = "SdsHeader" /\ i \in d.got /\ Expected(d) = 0
    BY <1>2, <2>1, Numbering
  <2>2. CASE p[i].kind = "SampleName" /\ i > 1 /\ p[i - 1].kind = "SdsHeader" /\ Expected(d) = 0
    BY <1>2, <2>2, Numbering
  <2>3. CASE /\ p[i].kind = "SdsPacket" /\ (i \in d.got => ~p[i].last)
             /\ Expected(d) = IF i \in d.got THEN NextOf(p[i].packet) ELSE p[i].packet
    <3>1. ~p[i].last /\ Expected(d) = NextOf(p[i].packet)
      BY <2>3 DEF SdsKinds
    <3> QED BY <1>2, <2>3, <3>1, Numbering
  <2> QED BY <1>4, <2>1, <2>2, <2>3 DEF Sampling
<1>5. Sampling(p, d, i + 1)
  BY <1>2, <1>3, <1>4 DEF Sampling
<1> QED BY <1>1, <1>5

\* An answer that moves the transfer on is that the message arrived, and the last of its kind.
LEMMA MovedOn ==
    ASSUME NEW model \in Models, NEW p \in Payloads[model], NEW d \in DeviceType,
           NEW t \in HostType, NEW i, i = t.messageIndex,
           NEW k \in DOMAIN t.responses, t.responses[k].kind \in {"ACK", "NAK"},
           Decides(p, i, t.responses[k]), Answers(p, d, t), Sampling(p, d, i),
           d.got \subseteq 1 .. i,
           NEW a, a.messageIndex = i + 1, a.responses = <<>>, a.transmit = t.transmit
    PROVE  /\ i \in 1 .. Len(p) /\ p[i].kind \in SdsKinds /\ i \in d.got
           /\ Answers(p, d, a) /\ Sampling(p, d, i + 1)
<1>1. PICK r : r = t.responses[k]
  OBVIOUS
<1>2. /\ Allowed(p, d, i, r) /\ Decides(p, i, r) /\ r.kind \in {"ACK", "NAK"}
      /\ Verdicts(p, d, i, t.transmit) /\ Verdicts(p, d, i, d.replies)
      /\ \A b \in DOMAIN t.transmit : Settles(p, i, r, t.transmit[b])
      /\ \A b \in DOMAIN d.replies : Settles(p, i, r, d.replies[b])
  BY <1>1 DEF Answers, Verdicts, InTurn
<1>3. i \in 1 .. Len(p) /\ p[i].kind \in SdsKinds /\ i \in d.got
  BY <1>2 DEF Allowed, Decides, SdsKinds
<1>4. Spent(p, i, t.transmit) /\ Spent(p, i, d.replies)
  BY <1>2 DEF Spent, Settles
<1>5. Verdicts(p, d, i, <<>>) /\ Spent(p, i, <<>>)
  BY DEF Verdicts, Spent
<1>6. /\ Verdicts(p, d, i, a.responses) /\ Spent(p, i, a.responses)
      /\ Verdicts(p, d, i, a.transmit) /\ Spent(p, i, a.transmit)
  BY <1>2, <1>4, <1>5
<1> QED BY <1>2, <1>3, <1>4, <1>6, StepOn

\* A message without an answer has none on its way.
LEMMA Unanswered ==
    ASSUME NEW p, NEW d, NEW i, p[i].kind \notin SdsKinds, NEW s, Verdicts(p, d, i, s)
    PROVE  Spent(p, i, s)
BY DEF Verdicts, Allowed, Spent, SdsKinds

----------------------------------------------------------------------------
(* The stages of a call of service().                                      *)

\* The members Track speaks of stay, or the transfer is over.
LEMMA SameTrack ==
    ASSUME NEW p, NEW d \in DeviceType, NEW t \in HostType, NEW a \in HostType, NEW queue,
           Track(p, d, t, queue), a.messageIndex = t.messageIndex,
           a.phase # "Idle" => t.phase # "Idle", a.state = "Complete" => t.state = "Complete",
           Live(a) =>
                /\ Live(t) /\ (NoCancel(t.wire) => NoCancel(a.wire))
                /\ Tails(a.responses, t.responses) /\ Tails(a.transmit, t.transmit)
                /\ a.phase = "Payload" /\ Into(a) = 1 => t.phase = "Payload" /\ Into(t) = 1
                /\ a.phase = "DrainPayload" =>
                        t.phase = "DrainPayload" \/ a.messageIndex = Len(p) + 1
    PROVE  Track(p, d, a, queue)
<1>1. Received(p, d, a)
  BY DEF Track, Received
<1>2. ASSUME Live(a) PROVE Answers(p, d, a)
  <2>1. Tails(d.replies, d.replies)
    BY TailsFacts DEF DeviceType
  <2> QED BY <1>2, <2>1, AnswersKept DEF Track
<1>3. ASSUME Live(a) PROVE Sampling(p, d, a.messageIndex) /\ Sent(p, d, a, queue)
  BY <1>3 DEF Track, Sent
<1> QED BY <1>1, <1>2, <1>3 DEF Track

\* A half was put behind the others; a message that has no answer may end with it.
LEMMA SentAppend ==
    ASSUME NEW p, NEW d, NEW t, NEW a, NEW queue \in Seq(HalfType), NEW h \in HalfType,
           Sent(p, d, t, queue), t.messageIndex \in Nat \ {0},
           \/ a.messageIndex = t.messageIndex
           \/ a.messageIndex = t.messageIndex + 1 /\ h.at = t.messageIndex /\ h.part = 2,
           h.kind # "SdsCancel", NoCancel(a.wire), a.phase # "DrainPayload",
           h.at # 0 =>
                /\ h.at <= t.messageIndex /\ h.packet = p[h.at].packet
                /\ h.part = 2 => Before(d, queue, Len(queue) + 1) = [h EXCEPT !.part = 1],
           a.phase = "Payload" /\ Into(a) = 1 =>
                h = Half(p[a.messageIndex].kind, a.messageIndex, p[a.messageIndex].packet, 1)
    PROVE  Sent(p, d, a, queue \o <<h>>)
<1>1. PICK q, n : q = queue \o <<h>> /\ n = Len(queue)
  OBVIOUS
<1>2. PICK i, m : i = t.messageIndex /\ m = a.messageIndex
  OBVIOUS
<1>3. /\ n \in Nat /\ DOMAIN queue = 1 .. n /\ DOMAIN q = 1 .. n + 1 /\ Len(q) = n + 1
      /\ \A k \in 1 .. n : q[k] = queue[k]
      /\ q[n + 1] = h /\ q \in Seq(HalfType)
  <2>1. q = Append(queue, h)
    BY <1>1, AppendIsConcat
  <2> QED BY <1>1, <2>1, AppendProperties
<1>4. i \in Nat \ {0} /\ m \in Nat \ {0} /\ (m = i \/ m = i + 1) /\ i <= m
  BY <1>2
<1>5. \A k \in 1 .. n + 1 : Before(d, q, k) = Before(d, queue, k)
  <2> TAKE k \in 1 .. n + 1
  <2>1. k = 1 \/ k - 1 \in 1 .. n
    BY <1>3
  <2> QED BY <1>3, <2>1 DEF Before
<1>6. d.got \subseteq 1 .. m
  <2>1. \A j \in 1 .. i : j \in 1 .. m
    BY <1>4
  <2> QED BY <1>2, <2>1 DEF Sent
<1>7. ASSUME NEW k \in DOMAIN q, q[k].at # 0
      PROVE  /\ q[k].at <= m /\ q[k].packet = p[q[k].at].packet
             /\ q[k].part = 2 => Before(d, q, k) = [q[k] EXCEPT !.part = 1]
  <2>1. k \in 1 .. n \/ k = n + 1
    BY <1>3
  <2>2. /\ q[k].at <= i /\ q[k].packet = p[q[k].at].packet
        /\ q[k].part = 2 => Before(d, queue, k) = [q[k] EXCEPT !.part = 1]
    <3>1. CASE k \in 1 .. n
      BY <1>2, <1>3, <1>7, <3>1 DEF Sent
    <3>2. CASE k = n + 1
      BY <1>1, <1>2, <1>3, <1>7, <3>2
    <3> QED BY <2>1, <3>1, <3>2
  <2>3. q[k].at \in Nat
    <3>1. q[k] \in HalfType
      BY <1>3, <1>7, ElementOfSeq
    <3> QED BY <3>1 DEF HalfType
  <2>4. q[k].at <= m
    BY <1>4, <2>2, <2>3
  <2> QED BY <1>3, <1>5, <2>2, <2>4
<1>8. NoCancel(q)
  <2>1. \A k \in DOMAIN q : k \in DOMAIN queue \/ k = n + 1
    BY <1>3
  <2> QED BY <1>3, <2>1 DEF Sent, NoCancel
<1>9. ASSUME a.phase = "Payload", Into(a) = 1
      PROVE  Before(d, q, Len(q) + 1) = Half(p[m].kind, m, p[m].packet, 1)
  <2>1. (n + 1) + 1 # 1 /\ ((n + 1) + 1) - 1 = n + 1
    BY <1>3
  <2> QED BY <1>2, <1>3, <1>9, <2>1 DEF Before
<1>10. ASSUME NEW j \in 1 .. m - 1 PROVE j \in d.got \/ Carries(q, j)
  <2>1. CASE j \in 1 .. i - 1
    <3>1. j \in d.got \/ Carries(queue, j)
      BY <1>2, <2>1 DEF Sent
    <3>2. \A k \in DOMAIN queue : k \in DOMAIN q /\ q[k] = queue[k]
      BY <1>3
    <3> QED BY <3>1, <3>2 DEF Carries
  <2>2. CASE j \notin 1 .. i - 1
    <3>1. j = i /\ m = i + 1
      BY <1>4, <1>10, <2>2
    <3>2. h.at = j /\ h.part = 2
      BY <1>2, <1>4, <3>1
    <3>3. n + 1 \in DOMAIN q
      BY <1>3
    <3> QED BY <1>3, <3>2, <3>3 DEF Carries
  <2> QED BY <2>1, <2>2
<1> QED BY <1>1, <1>2, <1>6, <1>7, <1>8, <1>9, <1>10 DEF Sent

\* What a call of service() starts from, and what each of its stages leaves.
Tracked(t, queue) ==
    /\ Loaded(t) /\ payload # <<>> /\ DeviceInv
    /\ Stage(t, queue) /\ Track(payload, device, t, queue)

LEMMA TrackedFacts ==
    ASSUME NEW t, NEW queue, Tracked(t, queue)
    PROVE  /\ t \in HostType /\ t.model \in Models /\ payload \in Payloads[t.model]
           /\ device \in DeviceType /\ device.got \subseteq 1 .. Len(payload)
           /\ t.messageIndex \in Nat \ {0} /\ Len(payload) \in Nat /\ queue \in Seq(HalfType)
           /\ t.responses \in Seq(ReplyType) /\ t.transmit \in Seq(ReplyType)
           /\ device.replies \in Seq(ReplyType)
           /\ Tails(<<>>, t.responses) /\ Tails(t.responses, t.responses)
           /\ Tails(t.transmit, t.transmit) /\ Tails(<<>>, t.transmit)
<1>1. /\ t \in HostType /\ t.model \in Models /\ payload \in Payloads[t.model]
      /\ device \in DeviceType /\ device.got \subseteq 1 .. Len(payload)
      /\ t.messageIndex \in Nat \ {0} /\ Len(payload) \in Nat /\ queue \in Seq(HalfType)
  BY LoadedFacts DEF Tracked, Loaded, DeviceInv, Stage, Queued
<1>2. /\ t.responses \in Seq(ReplyType) /\ t.transmit \in Seq(ReplyType)
      /\ device.replies \in Seq(ReplyType)
  BY <1>1 DEF HostType, DeviceType
<1> QED BY <1>1, <1>2, TailsFacts

LEMMA TrackedNext ==
    ASSUME NEW t, NEW queue, Tracked(t, queue), NEW a, NEW q, a.model = t.model,
           Stage(a, q), Track(payload, device, a, q)
    PROVE  Tracked(a, q)
BY DEF Tracked, Loaded, Stage, Members

\* A stage that moves no message, or ends the transfer.
LEMMA SameTracked ==
    ASSUME NEW t, NEW queue, Tracked(t, queue), NEW a, a.model = t.model, Stage(a, queue),
           a.messageIndex = t.messageIndex,
           a.phase # "Idle" => t.phase # "Idle", a.state = "Complete" => t.state = "Complete",
           Live(a) =>
                /\ Live(t) /\ (NoCancel(t.wire) => NoCancel(a.wire))
                /\ Tails(a.responses, t.responses) /\ Tails(a.transmit, t.transmit)
                /\ a.phase = "Payload" /\ Into(a) = 1 => t.phase = "Payload" /\ Into(t) = 1
                /\ a.phase = "DrainPayload" =>
                        t.phase = "DrainPayload" \/ a.messageIndex = Len(payload) + 1
    PROVE  Tracked(a, queue)
<1>1. Track(payload, device, a, queue)
  <2>1. t \in HostType /\ a \in HostType /\ device \in DeviceType
    BY TrackedFacts DEF Stage, Members
  <2>2. Track(payload, device, t, queue)
    BY DEF Tracked
  <2> QED BY <2>1, <2>2, SameTrack
<1> QED BY <1>1, TrackedNext

LEMMA ParseTracked ==
    ASSUME NEW t, NEW queue, Tracked(t, queue), t.phase # "Idle"
    PROVE  Tracked(ParseTransmit(t), queue) /\ ParseTransmit(t).phase # "Idle"
<1>1. PICK r : r = ParseTransmit(t)
  OBVIOUS
<1>2. /\ Stage(r, queue) /\ r.phase # "Idle" /\ r.model = t.model
      /\ r.messageIndex = t.messageIndex
      /\ \/ r.phase = "DrainCancellation" /\ r.state = "Cancelling"
         \/ /\ r.phase = t.phase /\ r.state = t.state /\ r.wire = t.wire
            /\ r.payloadCursor = t.payloadCursor /\ r.transmit = <<>>
            /\ r.responses = QueuedResponses(t.responses \o t.transmit)
  BY <1>1, ParseStage DEF Tracked
<1>3. CASE r.phase = "DrainCancellation" /\ r.state = "Cancelling"
  <2>1. ~Live(r)
    BY <1>3 DEF Live, GivenUp
  <2> QED BY <1>1, <1>2, <1>3, <2>1, SameTracked
<1>4. CASE /\ r.phase = t.phase /\ r.state = t.state /\ r.wire = t.wire
           /\ r.payloadCursor = t.payloadCursor /\ r.transmit = <<>>
           /\ r.responses = QueuedResponses(t.responses \o t.transmit)
  <2>1. Into(r) = Into(t) /\ (Live(r) <=> Live(t))
    BY <1>2, <1>4 DEF Into, Live
  <2>2. ASSUME Live(r) PROVE Answers(payload, device, r)
    <3>1. PICK i, all : i = t.messageIndex /\ all = t.responses \o t.transmit
      OBVIOUS
    <3>2. /\ Verdicts(payload, device, i, t.responses) /\ Verdicts(payload, device, i, t.transmit)
          /\ Verdicts(payload, device, i, device.replies)
          /\ InTurn(payload, i, t.responses, t.transmit)
          /\ InTurn(payload, i, t.responses, device.replies)
          /\ InTurn(payload, i, t.transmit, device.replies)
      BY <2>1, <2>2, <3>1 DEF Tracked, Track, Answers
    <3>3. t.responses \in Seq(ReplyType) /\ t.transmit \in Seq(ReplyType)
      BY TrackedFacts
    <3>4. Verdicts(payload, device, i, all) /\ InTurn(payload, i, all, device.replies)
      BY <3>1, <3>2, <3>3, VerdictsConcat
    <3>5. all \in Seq(ReplyType) /\ Len(all) \in Nat
      <4>1. all \in Seq(ReplyType)
        BY <3>1, <3>3, ConcatProperties
      <4> QED BY <4>1
    <3>6. PICK n : n = Smaller(Len(all), ResponseCapacity)
      OBVIOUS
    <3>7. n \in Nat /\ n <= Len(all)
      BY <3>5, <3>6, LimitsAssumption DEF Smaller
    <3>8. PICK s : s = SubSeq(all, 1, n)
      OBVIOUS
    <3>9. /\ s \in Seq(ReplyType) /\ Len(s) = n /\ r.responses = s
          /\ \A b \in 1 .. n : s[b] = all[b]
      <4>1. /\ s \in Seq(ReplyType) /\ Len(s) = n
            /\ \A b \in 1 .. n : s[b] = all[b]
        BY <3>5, <3>7, <3>8, SubSeqProperties
      <4> QED BY <1>4, <3>1, <3>6, <3>8, <4>1 DEF QueuedResponses
    <3>10. Tails(s, all)
      <4>1. \A b \in DOMAIN s : b + 0 \in DOMAIN all /\ s[b] = all[b + 0]
        BY <3>5, <3>7, <3>9
      <4> QED BY <4>1 DEF Tails
    <3>11. Tails(device.replies, device.replies)
      BY TrackedFacts, TailsFacts
    <3>12. Verdicts(payload, device, i, s) /\ InTurn(payload, i, s, device.replies)
      BY <3>4, <3>5, <3>9, <3>10, <3>11, VerdictsKept, InTurnKept
    <3>13. /\ Verdicts(payload, device, i, r.transmit) /\ InTurn(payload, i, s, r.transmit)
           /\ InTurn(payload, i, r.transmit, device.replies)
      BY <1>4 DEF Verdicts, InTurn
    <3> QED BY <1>2, <3>1, <3>2, <3>9, <3>12, <3>13 DEF Answers
  <2>3. Track(payload, device, r, queue)
    BY <1>2, <1>4, <2>1, <2>2 DEF Tracked, Track, Sent, Received
  <2> QED BY <1>1, <1>2, <2>3, TrackedNext
<1> QED BY <1>2, <1>3, <1>4

LEMMA ElapsedTracked ==
    ASSUME NEW t, NEW queue, Tracked(t, queue), NEW ticks \in {0, 1}
    PROVE  Tracked(Elapsed(t, ticks), queue)
<1>1. PICK a : a = Elapsed(t, ticks)
  OBVIOUS
<1>2. /\ Stage(a, queue) /\ a.phase = t.phase /\ a.model = t.model
      /\ a.state = t.state /\ a.wire = t.wire /\ a.messageIndex = t.messageIndex
      /\ a.payloadCursor = t.payloadCursor
      /\ a.transmit = t.transmit /\ a.responses = t.responses
  BY <1>1, ElapsedStage DEF Tracked
<1>3. Into(a) = Into(t) /\ (Live(a) => Live(t))
  BY <1>2 DEF Into, Live
<1> QED BY <1>1, <1>2, <1>3, TrackedFacts, SameTracked

LEMMA NegotiationTracked ==
    ASSUME NEW t, NEW queue, Tracked(t, queue)
    PROVE  Tracked(ServiceNegotiation(t), queue)
<1>1. PICK a : a = ServiceNegotiation(t)
  OBVIOUS
<1>2. /\ Stage(a, queue) /\ a.model = t.model
      /\ a = t \/ (t.phase \in Negotiates /\ Onward(t, a))
  BY <1>1, NegotiationStage DEF Tracked
<1>3. CASE t.phase \in Negotiates /\ Onward(t, a)
  <2>1. t.phase \notin GivenUp /\ Into(t) = 0
    <3>1. t.phase \in Between
      BY <1>3 DEF Negotiates, SendPhases, WaitPhase, Answer, Between, Phases, GivenUp
    <3> QED BY <3>1 DEF Tracked, Stage, Places, Between
  <2>2. Into(a) = Into(t) /\ a.state # "Complete" /\ a.phase # "DrainPayload"
    BY <1>3 DEF Onward, Into, OwningStates, Negotiates, SendPhases, WaitPhase, Answer
  <2>3. /\ a.messageIndex = t.messageIndex /\ a.transmit = t.transmit
        /\ Tails(a.responses, t.responses) /\ (NoCancel(t.wire) => NoCancel(a.wire))
    BY <1>3 DEF Onward
  <2>4. Tails(a.transmit, t.transmit) /\ Live(t) /\ t.phase # "Idle"
    BY <2>1, <2>3, TrackedFacts DEF Live, GivenUp
  <2> QED BY <1>1, <1>2, <2>1, <2>2, <2>3, <2>4, SameTracked
<1>4. CASE a = t
  BY <1>1, <1>4
<1> QED BY <1>2, <1>3, <1>4

\* The answer acknowledges the message: it arrived, and nothing older can acknowledge the next.
LEMMA AcknowledgedTracked ==
    ASSUME NEW t, NEW queue, Tracked(t, queue), t.phase = "WaitSds",
           NEW k \in DOMAIN t.responses, ForThisPacket(t, t.responses[k]),
           t.responses[k].kind \notin {"WAIT", "CANCEL"}, ~Refuses(t, t.responses[k]),
           NEW w, w \in HostType, w.phase = t.phase, w.state = t.state, w.wire = t.wire,
           w.messageIndex = t.messageIndex, w.payloadCursor = t.payloadCursor,
           w.model = t.model, w.transmit = t.transmit,
           NEW a, a = Acknowledged(w), Stage(a, queue)
    PROVE  Tracked(a, queue)
<1>1. PICK i, r : i = t.messageIndex /\ r = t.responses[k]
  OBVIOUS
<1>2. /\ queue = <<>> /\ t.wire = <<>> /\ Into(t) = 2 /\ i \in 1 .. Len(payload)
      /\ payload[i].kind \in SdsKinds
      /\ t.sdsPacket = IF payload[i].kind = "SdsHeader" THEN 0 ELSE payload[i].packet
  BY <1>1, Waiting DEF Tracked, Current
<1>3. /\ t \in HostType /\ t.model \in Models /\ payload \in Payloads[t.model]
      /\ device \in DeviceType /\ t.responses \in Seq(ReplyType) /\ i \in Nat \ {0}
      /\ Len(payload) \in Nat
  BY <1>1, TrackedFacts
<1>4. /\ Answers(payload, device, t) /\ Sampling(payload, device, i) /\ Sent(payload, device, t, queue)
      /\ Received(payload, device, t)
  BY <1>1 DEF Tracked, Track, Live, GivenUp
<1>5. r.kind \in {"ACK", "NAK"} /\ Decides(payload, i, r)
  <2>1. r \in ReplyType
    <3>1. t.responses[k] \in ReplyType
      BY <1>3, ElementOfSeq
    <3> QED BY <1>1, <3>1
  <2>2. r.kind \in SdsReplies
    BY <1>1 DEF ForThisPacket
  <2>3. r.kind \in {"ACK", "NAK"}
    BY <1>1, <2>2 DEF SdsReplies
  <2>4. ASSUME r.kind = "NAK" PROVE r.packet # payload[i].packet
    <3>1. /\ r.good /\ payload[i].kind = "SdsPacket"
      BY <1>1, <1>4, <2>4 DEF Answers, Verdicts, Allowed
    <3>2. r = [kind |-> "NAK", packet |-> r.packet, good |-> TRUE]
      BY <2>1, <2>4, <3>1 DEF ReplyType
    <3>3. t.sdsPacket = payload[i].packet
      BY <1>2, <3>1
    <3> QED BY <1>1, <3>2, <3>3 DEF Refuses, Reply
  <2> QED BY <2>3, <2>4 DEF Decides
<1>6. Current(w).last \in BOOLEAN
  BY <1>1, <1>2, <1>3, PayloadFacts DEF Current
<1>7. /\ a.phase \in {"Payload", "WaitReceiveMode"} /\ a.state \in {"Sending", "WaitingForReceiveMode"}
      /\ a.messageIndex = i + 1 /\ a.responses = <<>> /\ a.transmit = t.transmit
      /\ a.payloadCursor = t.payloadCursor /\ a.wire = <<>> /\ a.model = t.model
  BY <1>1, <1>2, <1>6, AcknowledgedFields
<1>8. device.got \subseteq 1 .. i
  BY <1>1, <1>4 DEF Sent
<1>9. /\ i \in device.got /\ Answers(payload, device, a) /\ Sampling(payload, device, i + 1)
  BY <1>1, <1>3, <1>4, <1>5, <1>7, <1>8, MovedOn
<1>10. \A j \in 1 .. (i + 1) - 1 : j \in device.got
  <2> TAKE j \in 1 .. (i + 1) - 1
  <2>1. j = i \/ j \in 1 .. i - 1
    BY <1>3
  <2>2. ~Carries(queue, j)
    BY <1>2 DEF Carries
  <2> QED BY <1>1, <1>4, <1>9, <2>1, <2>2 DEF Sent
<1>11. Into(a) # 1
  <2>1. PICK c : c = t.payloadCursor
    OBVIOUS
  <2>2. c \in Nat /\ c - 2 * (i - 1) = 2
    BY <1>1, <1>2, <1>3, <2>1 DEF Into, Offset, HostType
  <2>3. Into(a) = c - 2 * ((i + 1) - 1)
    BY <1>7, <2>1 DEF Into, Offset
  <2> QED BY <1>3, <2>2, <2>3
<1>12. Sent(payload, device, a, queue)
  <2>1. \A j \in 1 .. i : j \in 1 .. i + 1
    BY <1>3
  <2>2. device.got \subseteq 1 .. a.messageIndex
    BY <1>7, <1>8, <2>1
  <2>3. NoCancel(queue) /\ NoCancel(a.wire)
    BY <1>2, <1>7 DEF NoCancel
  <2> QED BY <1>2, <1>7, <1>10, <1>11, <2>2, <2>3 DEF Sent
<1>13. Received(payload, device, a)
  BY <1>7, <1>10 DEF Received
<1> QED BY <1>7, <1>9, <1>12, <1>13, TrackedNext DEF Track

LEMMA SdsTracked ==
    ASSUME NEW t, NEW queue, Tracked(t, queue), t.phase = "WaitSds"
    PROVE  Tracked(ServiceSds(t), queue)
<1> DEFINE First(r) == ForThisPacket(t, r)
           Found(r) == ForThisPacket(t, r) /\ r.kind # "WAIT"
           first == SelectInSeq(t.responses, LAMBDA r : ForThisPacket(t, r))
           n == SelectInSeq(t.responses, LAMBDA r : ForThisPacket(t, r) /\ r.kind # "WAIT")
           waits == t.sdsWaiting \/ (first # 0 /\ t.responses[first].kind = "WAIT")
           v == [t EXCEPT !.responses = <<>>, !.sdsWaiting = waits]
<1>1. PICK k, w : k = n /\ w = v
  OBVIOUS
<1>2. PICK a : a = ServiceSds(t)
  OBVIOUS
<1> SUFFICES Tracked(a, queue)
  BY <1>2
<1>3. \/ a = AbortPayload(w, "DeviceCancelled")
      \/ a = RetrySds(w)
      \/ /\ a = Acknowledged(w) /\ k # 0 /\ t.responses[k].kind # "CANCEL"
         /\ ~Refuses(t, t.responses[k])
      \/ a = AbortPayload(w, "ReplyTimedOut")
      \/ a = w
  <2>1. \/ ServiceSds(t) = AbortPayload(v, "DeviceCancelled")
        \/ ServiceSds(t) = RetrySds(v)
        \/ /\ ServiceSds(t) = Acknowledged(v) /\ n # 0 /\ t.responses[n].kind # "CANCEL"
           /\ ~Refuses(t, t.responses[n])
        \/ ServiceSds(t) = AbortPayload(v, "ReplyTimedOut")
        \/ ServiceSds(t) = v
    <3>1. CASE n # 0 /\ t.responses[n].kind = "CANCEL"
      BY <3>1 DEF ServiceSds
    <3>2. CASE n # 0 /\ Refuses(t, t.responses[n])
      BY <3>2 DEF ServiceSds
    <3>3. CASE n # 0 /\ t.responses[n].kind # "CANCEL" /\ ~Refuses(t, t.responses[n])
      BY <3>3 DEF ServiceSds
    <3>4. CASE n = 0
      BY <3>4 DEF ServiceSds
    <3> QED BY <3>1, <3>2, <3>3, <3>4
  <2> HIDE DEF n, v
  <2> QED BY <1>1, <1>2, <2>1
<1>4. k # 0 => k \in DOMAIN t.responses /\ ForThisPacket(t, t.responses[k])
                /\ t.responses[k].kind # "WAIT"
  <2> DEFINE I == {j \in 1 .. Len(t.responses) :
                    ForThisPacket(t, t.responses[j]) /\ t.responses[j].kind # "WAIT"}
  <2>1. k = IF I # {} THEN Min(I) ELSE 0
    BY <1>1 DEF SelectInSeq
  <2>2. I # {} => Min(I) \in I
    <3>1. I \subseteq Nat
      OBVIOUS
    <3> HIDE DEF I
    <3> QED BY <3>1, FirstIn
  <2>3. t.responses \in Seq(ReplyType)
    BY TrackedFacts
  <2> QED BY <2>1, <2>2, <2>3
<1>5. /\ w \in HostType /\ w.responses = <<>> /\ w.transmit = t.transmit
      /\ w.phase = t.phase /\ w.state = t.state /\ w.wire = t.wire
      /\ w.messageIndex = t.messageIndex /\ w.payloadCursor = t.payloadCursor
      /\ w.model = t.model
  <2>1. waits \in BOOLEAN
    OBVIOUS
  <2> HIDE DEF waits
  <2>2. <<>> \in Seq(ReplyType) /\ t \in HostType
    BY DEF Tracked, Loaded
  <2> QED BY <1>1, <2>1, <2>2 DEF HostType
<1> HIDE DEF n, v
<1>6. Stage(a, queue) /\ a.model = t.model
  BY <1>2, SdsStage DEF Tracked
<1>7. t.phase # "Idle"
  OBVIOUS
<1>8. ASSUME NEW error \in Errors, a = AbortPayload(w, error) PROVE Tracked(a, queue)
  <2>1. a.phase = "DrainCancellation" /\ a.state = "Cancelling" /\ a.messageIndex = t.messageIndex
    BY <1>5, <1>8, AbortFields
  <2>2. ~Live(a)
    BY <2>1 DEF Live, GivenUp
  <2> QED BY <1>6, <2>1, <2>2, SameTracked
<1>9. {"DeviceCancelled", "ReplyTimedOut", "RetryLimit"} \subseteq Errors
  BY DEF Errors
<1>10. CASE a = RetrySds(w)
  <2>1. CASE RetriesSpent(w)
    <3>1. a = AbortPayload(w, "RetryLimit")
      BY <1>10, <2>1 DEF RetrySds
    <3> QED BY <1>8, <1>9, <3>1
  <2>2. CASE ~RetriesSpent(w)
    <3>1. /\ a.phase = "Payload" /\ a.state = "Retrying" /\ a.responses = <<>>
          /\ a.payloadCursor = Offset(t.messageIndex) /\ a.transmit = t.transmit
          /\ a.wire = t.wire /\ a.messageIndex = t.messageIndex
      BY <1>5, <1>10, <2>2, RetryFields
    <3>2. Into(a) # 1
      <4>1. t.messageIndex \in Nat \ {0}
        BY TrackedFacts
      <4>2. Into(a) = 2 * (t.messageIndex - 1) - 2 * (t.messageIndex - 1)
        BY <3>1 DEF Into, Offset
      <4> QED BY <4>1, <4>2
    <3>3. Tails(a.responses, t.responses) /\ Tails(a.transmit, t.transmit) /\ Live(t)
      BY <3>1, TrackedFacts DEF Live, GivenUp
    <3> QED BY <1>6, <3>1, <3>2, <3>3, SameTracked
  <2> QED BY <2>1, <2>2
<1>11. CASE a = w
  <2>1. Tails(a.responses, t.responses) /\ Tails(a.transmit, t.transmit) /\ Live(t)
    BY <1>5, <1>11, TrackedFacts DEF Live, GivenUp
  <2> QED BY <1>5, <1>6, <1>11, <2>1, SameTracked
<1>12. CASE /\ a = Acknowledged(w) /\ k # 0 /\ t.responses[k].kind # "CANCEL"
            /\ ~Refuses(t, t.responses[k])
  BY <1>4, <1>5, <1>6, <1>12, AcknowledgedTracked
<1> QED BY <1>2, <1>3, <1>8, <1>9, <1>10, <1>11, <1>12

\* A half of the payload leaves, and with the last one of a message without an answer the message.
LEMMA AdmittedFields ==
    ASSUME NEW b, NEW queue, Loaded(b), Stage(b, queue), PayloadLeft(b)
    PROVE  LET a == Admitted(b)
               h == NextHalf(b)
           IN
           /\ h \in HalfType /\ h.kind # "SdsCancel"
           /\ h = Half(Current(b).kind, b.messageIndex, Current(b).packet, Into(b) + 1)
           /\ a.state = b.state /\ a.wire = b.wire /\ a.model = b.model
           /\ a.responses = b.responses /\ a.transmit = b.transmit
           /\ \/ Into(b) = 0 /\ a.phase = "Payload" /\ a.messageIndex = b.messageIndex
              \/ /\ Into(b) = 1 /\ a.phase = "DrainSds" /\ a.messageIndex = b.messageIndex
              \/ /\ Into(b) = 1 /\ a.phase = "Payload" /\ a.messageIndex = b.messageIndex + 1
                 /\ Into(a) = 0 /\ Current(b).kind \notin SdsKinds
<1>1. PICK m, c, k, n : m = b.messageIndex /\ c = b.payloadCursor /\ k = Current(b).kind
                        /\ n = Current(b).packet
  OBVIOUS
<1>2. b.phase = "Payload" /\ Into(b) \in {0, 1} /\ m \in 1 .. Len(payload)
  BY <1>1, Pumping
<1>3. m \in Nat \ {0} /\ c \in Nat /\ b.model \in Models /\ b \in HostType /\ Into(b) = c - 2 * (m - 1)
  BY <1>1, LoadedFacts DEF Into, Offset, Loaded
<1>4. k \in MessageKinds /\ n \in Nat
  BY <1>1, <1>2, <1>3, PayloadFacts DEF Loaded, Current
<1>5. PICK h : h = NextHalf(b)
  OBVIOUS
<1>6. /\ h \in HalfType /\ h.kind # "SdsCancel"
      /\ h = Half(Current(b).kind, b.messageIndex, Current(b).packet, Into(b) + 1)
  <2>1. PICK part : part = Into(b) + 1
    OBVIOUS
  <2>2. h = [kind |-> k, at |-> m, packet |-> n, part |-> part]
    BY <1>1, <1>5, <2>1 DEF NextHalf, Half, Into
  <2>3. part \in 0 .. 2
    BY <1>2, <2>1
  <2>4. h \in HalfType
    BY <1>3, <1>4, <2>2, <2>3 DEF HalfType
  <2>5. h.kind # "SdsCancel"
    BY <1>4, <2>2 DEF MessageKinds, SdsKinds
  <2> QED BY <1>1, <2>1, <2>2, <2>4, <2>5 DEF Half
<1>7. PICK ends : ends = (c + 1 = 2 * m)
  OBVIOUS
<1>8. ends = (Into(b) = 1)
  <2>1. c + 1 = 2 * m <=> c - 2 * (m - 1) = 1
    BY <1>3
  <2> QED BY <1>3, <1>7, <2>1
<1>9. PICK p : p = IF ends /\ k \in SdsKinds THEN "DrainSds" ELSE "Payload"
  OBVIOUS
<1>10. PICK e : e = IF ends /\ k \notin SdsKinds THEN m + 1 ELSE m
  OBVIOUS
<1>11. PICK a : a = [b EXCEPT !.payloadCursor = c + 1, !.phase = p, !.messageIndex = e]
  OBVIOUS
<1>12. a = Admitted(b)
  <2>1. Offset(b.messageIndex + 1) = 2 * m
    BY <1>1, <1>3 DEF Offset
  <2>2. ends = (b.payloadCursor + 1 = Offset(b.messageIndex + 1))
    BY <1>1, <1>7, <2>1
  <2>3. AwaitsAnswer(b) <=> k \in SdsKinds
    BY <1>1 DEF AwaitsAnswer
  <2> QED BY <1>1, <1>2, <1>9, <1>10, <1>11, <2>2, <2>3 DEF Admitted
<1>13. /\ a.phase = p /\ a.messageIndex = e /\ a.payloadCursor = c + 1
       /\ a.state = b.state /\ a.wire = b.wire /\ a.model = b.model
       /\ a.responses = b.responses /\ a.transmit = b.transmit
  BY <1>3, <1>11 DEF HostType
<1>14. CASE Into(b) = 0
  <2>1. p = "Payload" /\ e = m
    <3>1. Into(b) # 1
      BY <1>14
    <3> QED BY <1>8, <1>9, <1>10, <3>1
  <2> QED BY <1>1, <1>5, <1>6, <1>12, <1>13, <1>14, <2>1
<1>15. CASE Into(b) = 1 /\ k \in SdsKinds
  <2>1. p = "DrainSds" /\ e = m
    BY <1>8, <1>9, <1>10, <1>15
  <2> QED BY <1>1, <1>5, <1>6, <1>12, <1>13, <1>15, <2>1
<1>16. CASE Into(b) = 1 /\ k \notin SdsKinds
  <2>1. p = "Payload" /\ e = m + 1
    BY <1>8, <1>9, <1>10, <1>16
  <2>2. Into(a) = 0
    <3>1. Into(a) = (c + 1) - 2 * ((m + 1) - 1)
      BY <1>13, <2>1 DEF Into, Offset
    <3>2. c - 2 * (m - 1) = 1
      BY <1>3, <1>16
    <3> QED BY <1>3, <3>1, <3>2
  <2> QED BY <1>1, <1>5, <1>6, <1>12, <1>13, <1>16, <2>1, <2>2
<1> QED BY <1>2, <1>14, <1>15, <1>16

LEMMA AdmittedTracked ==
    ASSUME NEW b, NEW queue, Tracked(b, queue), PayloadLeft(b),
           Stage(Admitted(b), queue \o <<NextHalf(b)>>)
    PROVE  Tracked(Admitted(b), queue \o <<NextHalf(b)>>)
<1>1. PICK a, h, i : a = Admitted(b) /\ h = NextHalf(b) /\ i = b.messageIndex
  OBVIOUS
<1>2. /\ h \in HalfType /\ h.kind # "SdsCancel"
      /\ h = Half(payload[i].kind, i, payload[i].packet, Into(b) + 1)
      /\ a.state = b.state /\ a.wire = b.wire /\ a.model = b.model
      /\ a.responses = b.responses /\ a.transmit = b.transmit
      /\ \/ Into(b) = 0 /\ a.phase = "Payload" /\ a.messageIndex = i
         \/ /\ Into(b) = 1 /\ a.phase = "DrainSds" /\ a.messageIndex = i
         \/ /\ Into(b) = 1 /\ a.phase = "Payload" /\ a.messageIndex = i + 1
            /\ Into(a) = 0 /\ payload[i].kind \notin SdsKinds
  BY <1>1, AdmittedFields DEF Tracked, Current
<1>3. /\ b.phase = "Payload" /\ b.wire = <<>> /\ Into(b) \in {0, 1}
      /\ i \in 1 .. Len(payload)
  BY <1>1, Pumping DEF Tracked
<1>4. /\ b.model \in Models /\ payload \in Payloads[b.model] /\ device \in DeviceType
      /\ i \in Nat \ {0} /\ queue \in Seq(HalfType)
  BY <1>1, TrackedFacts
<1>5. /\ Answers(payload, device, b) /\ Sampling(payload, device, i)
      /\ Sent(payload, device, b, queue) /\ Received(payload, device, b)
  BY <1>1, <1>3 DEF Tracked, Track, Live, GivenUp
<1>6. a.phase # "DrainPayload" /\ NoCancel(a.wire)
  BY <1>2, <1>3 DEF NoCancel
<1>7. /\ h.at = i /\ h.packet = payload[h.at].packet /\ h.part = Into(b) + 1
      /\ [h EXCEPT !.part = 1] = Half(payload[i].kind, i, payload[i].packet, 1)
  BY <1>2 DEF Half
<1>8. h.part = 2 => Before(device, queue, Len(queue) + 1) = [h EXCEPT !.part = 1]
  <2> SUFFICES ASSUME h.part = 2 PROVE Before(device, queue, Len(queue) + 1) = [h EXCEPT !.part = 1]
    OBVIOUS
  <2>1. Into(b) = 1
    BY <1>3, <1>7
  <2> QED BY <1>1, <1>3, <1>5, <1>7, <2>1 DEF Sent
<1>9. ASSUME a.phase = "Payload", Into(a) = 1
      PROVE  h = Half(payload[a.messageIndex].kind, a.messageIndex, payload[a.messageIndex].packet, 1)
  <2>1. Into(b) = 0 /\ a.messageIndex = i
    BY <1>2, <1>9
  <2> QED BY <1>2, <2>1
<1>10. \/ a.messageIndex = i
       \/ a.messageIndex = i + 1 /\ h.at = i /\ h.part = 2
  BY <1>2, <1>7
<1>11. h.at <= i
  BY <1>4, <1>7
<1>12. Sent(payload, device, a, queue \o <<h>>)
  BY <1>1, <1>2, <1>4, <1>5, <1>6, <1>7, <1>8, <1>9, <1>10, <1>11, SentAppend
<1>13. Answers(payload, device, a) /\ Sampling(payload, device, a.messageIndex)
  <2>1. CASE a.messageIndex = i
    BY <1>1, <1>2, <1>5, <2>1 DEF Answers
  <2>2. CASE a.messageIndex = i + 1 /\ payload[i].kind \notin SdsKinds
    <3>1. /\ Verdicts(payload, device, i, a.responses) /\ Verdicts(payload, device, i, a.transmit)
          /\ Verdicts(payload, device, i, device.replies)
      BY <1>1, <1>2, <1>5 DEF Answers
    <3>2. /\ Spent(payload, i, a.responses) /\ Spent(payload, i, a.transmit)
          /\ Spent(payload, i, device.replies)
      BY <2>2, <3>1, Unanswered
    <3>3. device.got \subseteq 1 .. i
      BY <1>1, <1>5 DEF Sent
    <3> QED BY <1>3, <1>4, <1>5, <2>2, <3>1, <3>2, <3>3, StepOn
  <2> QED BY <1>2, <2>1, <2>2
<1>14. Received(payload, device, a)
  <2>1. \A j \in 1 .. i - 1 : payload[j].kind \in SdsKinds => j \in device.got
    BY <1>1, <1>3, <1>5 DEF Received
  <2>2. \A j \in 1 .. (i + 1) - 1 : j \in 1 .. i - 1 \/ j = i
    BY <1>4
  <2>3. \A j \in 1 .. a.messageIndex - 1 : payload[j].kind \in SdsKinds => j \in device.got
    BY <1>2, <2>1, <2>2
  <2> QED BY <1>2, <1>5, <2>3 DEF Received
<1> QED BY <1>1, <1>2, <1>12, <1>13, <1>14, TrackedNext DEF Track

LEMMA WireTracked ==
    ASSUME NEW t, NEW queue, Tracked(t, queue), t.wire # <<>>,
           NEW a, a = [t EXCEPT !.wire = Tail(@)], Stage(a, queue \o <<Head(t.wire)>>)
    PROVE  Tracked(a, queue \o <<Head(t.wire)>>)
<1>1. /\ t \in HostType /\ queue \in Seq(HalfType) /\ t.messageIndex \in Nat \ {0}
      /\ t.wire \in Seq(HalfType)
  BY TrackedFacts DEF HostType
<1>2. PICK h, w, n : h = Head(t.wire) /\ w = Tail(t.wire) /\ n = Len(t.wire)
  OBVIOUS
<1>3. /\ h \in HalfType /\ w \in Seq(HalfType) /\ Len(w) = n - 1 /\ n \in Nat \ {0}
      /\ \A k \in 1 .. Len(w) : w[k] = t.wire[k + 1]
      /\ DOMAIN t.wire = 1 .. n /\ h = t.wire[1]
  BY <1>1, <1>2, HeadTailProperties, EmptySeq
<1>4. h.at = 0
  <2>1. \A k \in DOMAIN t.wire : Command(t.wire[k])
    BY DEF Tracked, Stage, Members
  <2>2. 1 \in DOMAIN t.wire
    BY <1>3
  <2>3. Command(h)
    BY <1>3, <2>1, <2>2
  <2> QED BY <2>3 DEF Command, Eox, Half
<1>5. /\ a.wire = w /\ a.phase = t.phase /\ a.state = t.state /\ a.model = t.model
      /\ a.messageIndex = t.messageIndex /\ a.payloadCursor = t.payloadCursor
      /\ a.responses = t.responses /\ a.transmit = t.transmit
  BY <1>1, <1>2 DEF HostType
<1>6. a.phase \in SendPhases \cup {"DrainCancellation"}
  BY <1>5 DEF Tracked, Stage, Places
<1>7. ASSUME Live(a)
      PROVE  /\ Answers(payload, device, a) /\ Sampling(payload, device, a.messageIndex)
             /\ Sent(payload, device, a, queue \o <<h>>)
  <2>1. Live(t)
    BY <1>5, <1>7 DEF Live
  <2>2. /\ Answers(payload, device, t) /\ Sampling(payload, device, t.messageIndex)
        /\ Sent(payload, device, t, queue)
    BY <2>1 DEF Tracked, Track
  <2>3. Answers(payload, device, a) /\ Sampling(payload, device, a.messageIndex)
    BY <1>5, <2>2 DEF Answers
  <2>4. h.kind # "SdsCancel" /\ NoCancel(a.wire)
    <3>1. NoCancel(t.wire)
      BY <2>2 DEF Sent
    <3>2. \A k \in DOMAIN w : k + 1 \in DOMAIN t.wire /\ w[k] = t.wire[k + 1]
      BY <1>3
    <3>3. 1 \in DOMAIN t.wire
      BY <1>3
    <3> QED BY <1>3, <1>5, <3>1, <3>2, <3>3 DEF NoCancel
  <2>5. a.phase # "Payload" /\ a.phase # "DrainPayload"
    BY <1>6 DEF SendPhases, WaitPhase
  <2> QED BY <1>1, <1>3, <1>4, <1>5, <2>2, <2>3, <2>4, <2>5, SentAppend
<1>8. Received(payload, device, a)
  BY <1>5 DEF Tracked, Track, Received
<1>9. Track(payload, device, a, queue \o <<h>>)
  BY <1>7, <1>8 DEF Track
<1> QED BY <1>2, <1>5, <1>9, TrackedNext

LEMMA PumpTracked ==
    ASSUME NEW t, Tracked(t, port)
    PROVE  Tracked(PumpWire(t).host, port \o PumpWire(t).bytes)
<1>1. /\ port \in Seq(HalfType) /\ port \o <<>> = port /\ Loaded(t) /\ Stage(t, port)
      /\ Len(port) \in Nat
  BY ConcatEmptySeq DEF Tracked, Stage, Queued
<1>2. PICK r : r = PumpWire(t)
  OBVIOUS
<1>3. Stage(r.host, port \o r.bytes) /\ r.host.model = t.model
  BY <1>1, <1>2, PumpStage
<1>4. CASE t.wire # <<>> /\ ~PortFull
  <2>1. r.host = [t EXCEPT !.wire = Tail(@)] /\ r.bytes = <<Head(t.wire)>>
    BY <1>2, <1>4 DEF PumpWire
  <2> QED BY <1>2, <1>3, <1>4, <2>1, WireTracked
<1>5. CASE r = [host |-> t, bytes |-> <<>>]
  BY <1>1, <1>2, <1>5
<1>6. CASE PayloadLeft(t) /\ NeedsOtherScreen(t) /\ t.wire = <<>>
  <2>1. PICK a : a = [t EXCEPT !.phase = "DrainReceiveMode"]
    OBVIOUS
  <2>2. r.host = a /\ r.bytes = <<>>
    BY <1>2, <1>6, <2>1 DEF PumpWire
  <2>3. /\ a.phase = "DrainReceiveMode" /\ a.state = t.state /\ a.messageIndex = t.messageIndex
        /\ a.responses = t.responses /\ a.transmit = t.transmit /\ a.wire = t.wire
    BY <1>1, <2>1 DEF Loaded, HostType
  <2>4. t.phase = "Payload"
    BY <1>6 DEF PayloadLeft
  <2>5. Live(t) /\ t.phase # "Idle"
    BY <2>4 DEF Live, GivenUp
  <2>6. Tracked(a, port)
    BY <1>1, <1>3, <2>2, <2>3, <2>5, TrackedFacts, SameTracked
  <2> QED BY <1>1, <1>2, <2>2, <2>6
<1>7. CASE PayloadLeft(t) /\ ~NeedsOtherScreen(t) /\ t.wire = <<>>
  <2>1. PICK b : b = Opened(t)
    OBVIOUS
  <2>2. /\ Stage(b, port) /\ Loaded(b) /\ PayloadLeft(b)
        /\ b.phase = t.phase /\ b.messageIndex = t.messageIndex
        /\ b.payloadCursor = t.payloadCursor /\ b.model = t.model
        /\ b.state = t.state /\ b.wire = t.wire
        /\ b.responses = t.responses /\ b.transmit = t.transmit
    BY <1>1, <1>7, <2>1, OpenedStage
  <2>3. Into(b) = Into(t) /\ (Live(b) => Live(t))
    BY <2>2 DEF Into, Live
  <2>4. Tracked(b, port)
    BY <2>2, <2>3, TrackedFacts, SameTracked
  <2>5. CASE PortFull
    <3>1. r.host = b /\ r.bytes = <<>>
      BY <1>2, <1>7, <2>1, <2>5 DEF PumpWire
    <3> QED BY <1>1, <1>2, <2>4, <3>1
  <2>6. CASE ~PortFull
    <3>1. r.host = Admitted(b) /\ r.bytes = <<NextHalf(t)>>
      BY <1>2, <1>7, <2>1, <2>6 DEF PumpWire
    <3>2. NextHalf(t) = NextHalf(b)
      BY <2>2 DEF NextHalf, Current
    <3>3. PICK h, a : h = NextHalf(b) /\ a = Admitted(b)
      OBVIOUS
    <3>4. Stage(a, port \o <<h>>)
      BY <1>3, <3>1, <3>2, <3>3
    <3>5. Tracked(a, port \o <<h>>)
      BY <2>2, <2>4, <3>3, <3>4, AdmittedTracked
    <3> QED BY <1>2, <3>1, <3>2, <3>3, <3>5
  <2> QED BY <2>5, <2>6
<1> QED BY <1>2, <1>4, <1>5, <1>6, <1>7 DEF PumpWire

LEMMA DrainTracked ==
    ASSUME NEW t, NEW queue, Tracked(t, queue)
    PROVE  Tracked(Drained(t, queue), queue)
<1>1. PICK a : a = Drained(t, queue)
  OBVIOUS
<1>2. /\ Loaded(t) /\ Stage(t, queue) /\ t \in HostType /\ Stage(a, queue) /\ a.model = t.model
  BY <1>1, DrainStage DEF Tracked, Loaded
<1> SUFFICES Tracked(a, queue)
  BY <1>1
<1>3. ASSUME a.messageIndex = t.messageIndex, a.responses = t.responses, a.transmit = t.transmit,
             a.wire = t.wire, t.phase \notin GivenUp, a.state # "Complete", a.phase # "Payload",
             a.phase = "DrainPayload" => a.messageIndex = Len(payload) + 1
      PROVE  Tracked(a, queue)
  <2>1. Live(t) /\ t.phase # "Idle"
    BY <1>3 DEF Live, GivenUp
  <2> QED BY <1>2, <1>3, <2>1, TrackedFacts, SameTracked
<1>4. CASE t.phase \in DOMAIN WaitPhase /\ t.wire = <<>>
  <2>1. PICK p : p = WaitPhase[t.phase]
    OBVIOUS
  <2>2. /\ p \notin {"Payload", "DrainPayload"} /\ t.phase # "Idle" /\ t.phase \notin GivenUp
        /\ t.phase \notin {"DrainSds", "DrainReceiveMode", "DrainPayload", "Payload",
                           "DrainCancellation"}
    BY <1>4, <2>1 DEF WaitPhase, GivenUp
  <2>3. a = [t EXCEPT !.phase = p, !.phaseTime = 0]
    BY <1>1, <1>4, <2>1, <2>2 DEF Drained
  <2>4. /\ a.phase = p /\ a.state = t.state /\ a.messageIndex = t.messageIndex
        /\ a.responses = t.responses /\ a.transmit = t.transmit /\ a.wire = t.wire
    BY <1>2, <2>3 DEF HostType
  <2>5. t.state # "Complete"
    BY <1>2, <2>2 DEF Stage, Places, OwningStates
  <2> QED BY <1>3, <2>2, <2>4, <2>5
<1>5. CASE t.phase = "DrainSds" /\ queue = <<>>
  <2>1. t.phase \notin DOMAIN WaitPhase /\ t.phase \notin GivenUp
    BY <1>5 DEF WaitPhase, GivenUp
  <2>2. a = [t EXCEPT !.phase = "WaitSds", !.phaseTime = 0, !.state = "WaitingForDevice"]
    BY <1>1, <1>5, <2>1 DEF Drained
  <2>3. /\ a.phase = "WaitSds" /\ a.state = "WaitingForDevice" /\ a.messageIndex = t.messageIndex
        /\ a.responses = t.responses /\ a.transmit = t.transmit /\ a.wire = t.wire
    BY <1>2, <2>2 DEF HostType
  <2> QED BY <1>3, <2>1, <2>3
<1>6. CASE t.phase = "DrainReceiveMode" /\ queue = <<>>
  <2>1. t.phase \notin DOMAIN WaitPhase /\ t.phase \notin GivenUp
    BY <1>6 DEF WaitPhase, GivenUp
  <2>2. a = [t EXCEPT !.phase = "WaitReceiveMode", !.state = "WaitingForReceiveMode"]
    BY <1>1, <1>6, <2>1 DEF Drained
  <2>3. /\ a.phase = "WaitReceiveMode" /\ a.state = "WaitingForReceiveMode"
        /\ a.messageIndex = t.messageIndex
        /\ a.responses = t.responses /\ a.transmit = t.transmit /\ a.wire = t.wire
    BY <1>2, <2>2 DEF HostType
  <2> QED BY <1>3, <2>1, <2>3
<1>7. CASE t.phase = "DrainPayload" \/ (t.phase = "Payload" /\ t.payloadCursor >= Size)
  <2>1. /\ t.phase \notin DOMAIN WaitPhase /\ t.phase \in {"DrainPayload", "Payload"}
        /\ t.phase \notin GivenUp /\ Live(t)
    BY <1>7 DEF WaitPhase, GivenUp, Live
  <2>2. \/ a = [t EXCEPT !.phase = "DrainPayload"]
        \/ /\ queue = <<>>
           /\ a = [t EXCEPT !.phase = "Idle", !.state = "Complete", !.captureTransmit = FALSE]
    BY <1>1, <1>7, <2>1 DEF Drained, Finished
  <2>3. Sent(payload, device, t, queue)
    BY <2>1 DEF Tracked, Track
  <2>4. t.messageIndex = Len(payload) + 1
    <3>1. CASE t.phase = "DrainPayload"
      BY <2>3, <3>1 DEF Sent
    <3>2. CASE t.phase = "Payload" /\ t.payloadCursor >= Size
      <4>1. PICK c, m, l : c = t.payloadCursor /\ m = t.messageIndex /\ l = Len(payload)
        OBVIOUS
      <4>2. /\ c \in Nat /\ m \in Nat /\ l \in Nat /\ Into(t) = c - 2 * (m - 1) /\ Size = 2 * l
        BY <1>2, <4>1, LoadedFacts DEF Into, Offset
      <4>3. Into(t) = 0 /\ m <= l + 1 /\ c >= Size
        BY <1>2, <1>7, <3>2, <4>1, AtTheEnd
      <4> QED BY <4>1, <4>2, <4>3
    <3> QED BY <1>7, <3>1, <3>2
  <2>5. CASE a = [t EXCEPT !.phase = "DrainPayload"]
    <3>1. /\ a.phase = "DrainPayload" /\ a.state = t.state /\ a.messageIndex = t.messageIndex
          /\ a.responses = t.responses /\ a.transmit = t.transmit /\ a.wire = t.wire
      BY <1>2, <2>5 DEF HostType
    <3>2. t.state # "Complete"
      BY <1>2, <2>1 DEF Stage, Places, OwningStates, GivenUp
    <3> QED BY <1>3, <2>1, <2>4, <3>1, <3>2
  <2>6. CASE /\ queue = <<>>
             /\ a = [t EXCEPT !.phase = "Idle", !.state = "Complete", !.captureTransmit = FALSE]
    <3>1. a.phase = "Idle"
      BY <1>2, <2>6 DEF HostType
    <3>2. device.got \subseteq 1 .. Len(payload) /\ Len(payload) \in Nat
      BY TrackedFacts
    <3>3. \A j \in 1 .. Len(payload) : j \in device.got
      <4> TAKE j \in 1 .. Len(payload)
      <4>1. j \in 1 .. t.messageIndex - 1
        BY <2>4, <3>2
      <4>2. ~Carries(queue, j)
        BY <2>6 DEF Carries
      <4> QED BY <2>3, <4>1, <4>2 DEF Sent
    <3>4. device.got = 1 .. Len(payload)
      BY <3>2, <3>3
    <3>5. Track(payload, device, a, queue)
      BY <3>1, <3>4 DEF Track, Received, Live, GivenUp
    <3> QED BY <1>2, <3>5, TrackedNext
  <2> QED BY <2>2, <2>5, <2>6
<1>8. CASE t.phase = "DrainCancellation" /\ t.wire = <<>> /\ queue = <<>>
  <2>1. t.phase \notin DOMAIN WaitPhase
    BY <1>8 DEF WaitPhase
  <2>2. PICK s : s = IF t.error = "None" THEN "Cancelled" ELSE "Failed"
    OBVIOUS
  <2>3. a = [t EXCEPT !.phase = "Idle", !.state = s]
    BY <1>1, <1>8, <2>1, <2>2 DEF Drained
  <2>4. a.phase = "Idle" /\ a.state = s
    BY <1>2, <2>3 DEF HostType
  <2>5. a.state # "Complete"
    BY <2>2, <2>4
  <2>6. Track(payload, device, a, queue)
    BY <2>4, <2>5 DEF Track, Received, Live, GivenUp
  <2> QED BY <1>2, <2>6, TrackedNext
<1>9. CASE /\ ~(t.phase \in DOMAIN WaitPhase /\ t.wire = <<>>)
           /\ ~(t.phase = "DrainSds" /\ queue = <<>>)
           /\ ~(t.phase = "DrainReceiveMode" /\ queue = <<>>)
           /\ ~(t.phase = "DrainPayload" \/ (t.phase = "Payload" /\ t.payloadCursor >= Size))
           /\ ~(t.phase = "DrainCancellation" /\ t.wire = <<>> /\ queue = <<>>)
  <2>1. a = t
    BY <1>1, <1>9 DEF Drained
  <2> QED BY <2>1
<1> QED BY <1>4, <1>5, <1>6, <1>7, <1>8, <1>9

----------------------------------------------------------------------------
(* The actions of the host.                                                *)
LEMMA TrackedHost ==
    ASSUME TransferInv, AckInv, host.phase # "Idle"
    PROVE  Tracked(host, port) /\ transfers # 0
BY LoadedHost DEF TransferInv, AckInv, Fresh, Tracked

LEMMA AckService ==
    ASSUME TransferInv, AckInv, NEW ticks \in {0, 1}, NEW pump \in BOOLEAN, Service(ticks, pump)
    PROVE  AckInv'
<1>1. Tracked(host, port) /\ host.phase # "Idle" /\ transfers # 0
  BY LoadedHost, TrackedHost DEF Service
<1>2. UNCHANGED <<payload, device, transfers>>
  BY DEF Service, counters
<1>3. PICK t : t = Elapsed(ParseTransmit(host), ticks)
  OBVIOUS
<1>4. PICK s : s = IF t.phase = "WaitSds" THEN ServiceSds(t) ELSE ServiceNegotiation(t)
  OBVIOUS
<1>5. PICK p : p = IF pump THEN PumpWire(s) ELSE [host |-> s, bytes |-> <<>>]
  OBVIOUS
<1>6. PICK Q : Q = port \o p.bytes
  OBVIOUS
<1>7. PICK T : T = Drained(p.host, Q)
  OBVIOUS
<1>8. port' = Q /\ host' = T
  BY <1>3, <1>4, <1>5, <1>6, <1>7 DEF Service
<1>9. Tracked(t, port)
  <2>1. PICK h : h = host
    OBVIOUS
  <2>2. PICK r : r = ParseTransmit(h)
    OBVIOUS
  <2>3. Tracked(r, port)
    BY <1>1, <2>1, <2>2, ParseTracked
  <2>4. t = Elapsed(r, ticks)
    BY <1>3, <2>1, <2>2
  <2> QED BY <2>3, <2>4, ElapsedTracked
<1>10. Tracked(s, port)
  BY <1>4, <1>9, SdsTracked, NegotiationTracked
<1>11. Tracked(p.host, Q)
  <2>1. CASE pump
    BY <1>5, <1>6, <1>10, <2>1, PumpTracked
  <2>2. CASE ~pump
    <3>1. p.host = s /\ Q = port
      <4>1. port \in Seq(HalfType)
        BY LoadedHost
      <4> QED BY <1>5, <1>6, <2>2, <4>1, ConcatEmptySeq
    <3> QED BY <1>10, <3>1
  <2> QED BY <2>1, <2>2
<1>12. Tracked(T, Q)
  BY <1>7, <1>11, DrainTracked
<1>13. Track(payload', device', host', port')
  BY <1>2, <1>8, <1>12 DEF Tracked
<1> QED BY <1>1, <1>2, <1>13 DEF AckInv

\* The members Track speaks of are not touched, or the transfer is given up.
LEMMA AckHost ==
    ASSUME TransferInv, AckInv, UNCHANGED <<payload, port, device, transfers>>,
           host' \in HostType, host'.messageIndex = host.messageIndex,
           host.phase # "Idle" \/ (host'.phase = host.phase /\ host'.state = host.state),
           host'.state = "Complete" => host.state = "Complete",
           Live(host') =>
                /\ Live(host) /\ host'.wire = host.wire /\ host'.payloadCursor = host.payloadCursor
                /\ host'.responses = host.responses /\ host'.transmit = host.transmit
                /\ host'.phase # "DrainPayload"
                /\ host'.phase = "Payload" => host.phase = "Payload" \/ Into(host) # 1
    PROVE  AckInv'
<1>1. PICK h : h = host'
  OBVIOUS
<1>2. host \in HostType /\ h \in HostType /\ device \in DeviceType
  BY <1>1 DEF TransferInv, Stage, Members, DeviceInv
<1>3. ASSUME Live(h)
      PROVE  /\ Into(h) = Into(host) /\ Tails(h.responses, host.responses)
             /\ Tails(h.transmit, host.transmit)
  <2>1. Into(h) = Into(host)
    BY <1>1, <1>3 DEF Into
  <2>2. host.responses \in Seq(ReplyType) /\ host.transmit \in Seq(ReplyType)
    BY <1>2 DEF HostType
  <2>3. h.responses = host.responses /\ h.transmit = host.transmit
    BY <1>1, <1>3
  <2> QED BY <2>1, <2>2, <2>3, TailsFacts
<1>4. Track(payload, device, h, port)
  <2>1. Track(payload, device, host, port)
    BY DEF AckInv
  <2>2. h.phase # "Idle" => host.phase # "Idle"
    BY <1>1
  <2> QED BY <1>1, <1>2, <1>3, <2>1, <2>2, SameTrack
<1>5. Track(payload', device', host', port')
  BY <1>1, <1>4
<1>6. transfers' = 0 => Fresh'
  <2>1. transfers' = 0 => Fresh
    BY DEF AckInv
  <2>2. Fresh => host'.phase = "Idle" /\ host'.state = "Idle"
    BY DEF Fresh
  <2> QED BY <2>1, <2>2 DEF Fresh, NewDevice, NoHalf, Half
<1> QED BY <1>5, <1>6 DEF AckInv

LEMMA AckSame ==
    ASSUME AckInv, UNCHANGED <<host, payload, port, device, transfers>>
    PROVE  AckInv'
<1>1. Track(payload', device', host', port')
  BY DEF AckInv
<1>2. transfers' = 0 => Fresh'
  BY DEF AckInv, Fresh, NewDevice, NoHalf, Half
<1> QED BY <1>1, <1>2 DEF AckInv

\* A transfer starts on an instrument that has nothing left to say: before the first one it
\* said nothing.
Quiet == device.replies = <<>> /\ device.sample = 0

LEMMA AckStart ==
    ASSUME TransferInv, AckInv, Start, transfers # 0 => Quiet
    PROVE  AckInv'
<1>1. transfers' # 0
  BY DEF TransferInv, Start
<1>2. port = <<>> /\ Quiet /\ device \in DeviceType
  <2>1. Stage(host, port) /\ host.phase = "Idle" /\ device \in DeviceType
    BY LoadedHost DEF Start, DeviceInv
  <2>2. Quiet
    BY DEF AckInv, Fresh, NewDevice, Quiet
  <2> QED BY <2>1, <2>2 DEF Stage, Queued
<1>3. PICK p, d, t, q : p = payload' /\ d = device' /\ t = host' /\ q = port'
  OBVIOUS
<1>4. /\ q = <<>> /\ d.got = {} /\ d.sample = 0 /\ d.replies = <<>>
  BY <1>2, <1>3 DEF Start, Quiet, DeviceType
<1>5. /\ t.phase = "BeginNegotiation" /\ t.state = "Queued" /\ t.messageIndex = 1
      /\ t.responses = <<>> /\ t.transmit = <<>> /\ t.wire = <<>>
  BY <1>3 DEF Start, Idle
<1>6. Answers(p, d, t)
  BY <1>4, <1>5 DEF Answers, Verdicts, InTurn
<1>7. Sampling(p, d, t.messageIndex)
  BY <1>4 DEF Sampling
<1>8. Sent(p, d, t, q)
  <2>1. 1 .. t.messageIndex - 1 = {}
    BY <1>5
  <2> QED BY <1>4, <1>5, <2>1 DEF Sent, NoCancel
<1>9. Received(p, d, t)
  <2>1. 1 .. t.messageIndex - 1 = {}
    BY <1>5
  <2> QED BY <1>5, <2>1 DEF Received
<1>10. Track(payload', device', host', port')
  BY <1>3, <1>6, <1>7, <1>8, <1>9 DEF Track
<1> QED BY <1>1, <1>10 DEF AckInv

LEMMA AckCancel == ASSUME TransferInv, AckInv, Cancel PROVE AckInv'
<1>1. host.phase # "Idle" /\ host \in HostType
  BY LoadedHost DEF Cancel, Loaded
<1>2. UNCHANGED <<payload, port, device, transfers>>
  BY DEF Cancel
<1>3. PICK h, a, T : /\ h = host /\ a = AbortPayload(h, "None")
                     /\ T = [a EXCEPT !.held = FALSE, !.payloadCursor = 0]
  OBVIOUS
<1>4. /\ a \in HostType /\ a.phase = "DrainCancellation" /\ a.state = "Cancelling"
      /\ a.messageIndex = h.messageIndex
  <2>1. "None" \in Errors
    BY DEF Errors
  <2> QED BY <1>1, <1>3, <2>1, AbortFields
<1>5. /\ T \in HostType /\ T.phase = "DrainCancellation" /\ T.state = "Cancelling"
      /\ T.messageIndex = h.messageIndex
  BY <1>3, <1>4 DEF HostType
<1>6. host' = T
  BY <1>3 DEF Cancel
<1>7. ~Live(T)
  BY <1>5 DEF Live, GivenUp
<1> QED BY <1>1, <1>2, <1>3, <1>5, <1>6, <1>7, AckHost

LEMMA AckRetirePayload == ASSUME TransferInv, AckInv, RetirePayload PROVE AckInv'
<1>1. host.phase = "Idle" /\ host \in HostType
  BY LoadedHost DEF RetirePayload, Loaded
<1>2. UNCHANGED <<payload, port, device, transfers>>
  BY DEF RetirePayload, counters
<1>3. PICK h, T : h = host /\ T = [h EXCEPT !.held = FALSE, !.payloadCursor = 0]
  OBVIOUS
<1>4. /\ T \in HostType /\ T.phase = h.phase /\ T.state = h.state
      /\ T.messageIndex = h.messageIndex
  BY <1>1, <1>3 DEF HostType
<1>5. host' = T
  BY <1>3 DEF RetirePayload
<1>6. ~Live(T)
  BY <1>1, <1>3, <1>4 DEF Live, GivenUp
<1> QED BY <1>2, <1>3, <1>4, <1>5, <1>6, AckHost

LEMMA AckResumeReceiveMode == ASSUME TransferInv, AckInv, ResumeReceiveMode PROVE AckInv'
<1>1. /\ UNCHANGED <<payload, port, device, transfers>> /\ host.phase = "WaitReceiveMode"
      /\ Stage(host, port)
  BY LoadedHost DEF ResumeReceiveMode, counters
<1>2. PICK h, k, p, T :
        /\ h = host /\ k = Current(h).kind
        /\ p = IF h.model = "Machinedrum" THEN "WaitFallbackReset" ELSE "Payload"
        /\ T = [h EXCEPT !.receiveKind = k, !.phase = p, !.phaseTime = 0, !.state = "Sending"]
  OBVIOUS
<1>3. host' = T
  BY <1>2 DEF ResumeReceiveMode
<1>4. h \in HostType /\ Into(h) = 0 /\ h.phase = "WaitReceiveMode"
  BY <1>1, <1>2 DEF Stage, Members, Places, Between, Phases, GivenUp
<1>5. T \in HostType
  <2>1. TransferInv'
    BY InvResumeReceiveMode
  <2> QED BY <1>3, <2>1 DEF TransferInv, Stage, Members
<1>6. /\ T.phase = p /\ T.state = "Sending" /\ T.wire = h.wire /\ T.responses = h.responses
      /\ T.messageIndex = h.messageIndex /\ T.payloadCursor = h.payloadCursor
      /\ T.transmit = h.transmit
  BY <1>2, <1>4 DEF HostType
<1>7. p # "DrainPayload" /\ Live(h) /\ Into(h) # 1
  BY <1>2, <1>4 DEF Live, GivenUp
<1> QED BY <1>1, <1>2, <1>3, <1>4, <1>5, <1>6, <1>7, AckHost

----------------------------------------------------------------------------
(* The actions of the instrument.                                          *)

\* A reply that moves nothing, and one that may follow all that was said before.
Harmless(r) == r.kind \notin {"ACK", "NAK"}
Fits(p, d, e, i, r) ==
    Allowed(p, e, i, r) /\ \A q : Allowed(p, d, i, q) => Settles(p, i, q, r)

LEMMA HarmlessFits ==
    ASSUME NEW p, NEW d, NEW e, NEW i, NEW r, Harmless(r)
    PROVE  Fits(p, d, e, i, r)
BY DEF Harmless, Fits, Allowed, Settles

\* The instrument says one thing more, or nothing.
LEMMA SaidAnswers ==
    ASSUME NEW p, NEW d \in DeviceType, NEW e \in DeviceType, NEW t \in HostType,
           d.got \subseteq e.got, Answers(p, d, t), NEW s, e.replies = d.replies \o s,
           s = <<>> \/ \E r \in ReplyType : s = <<r>> /\ Fits(p, d, e, t.messageIndex, r)
    PROVE  Answers(p, e, t)
<1>1. /\ t.responses \in Seq(ReplyType) /\ t.transmit \in Seq(ReplyType)
      /\ d.replies \in Seq(ReplyType)
  BY DEF HostType, DeviceType
<1>2. /\ Tails(t.responses, t.responses) /\ Tails(t.transmit, t.transmit)
      /\ Tails(d.replies, d.replies)
  BY <1>1, TailsFacts
<1>3. CASE s = <<>>
  <2>1. e.replies = d.replies
    BY <1>1, <1>3, ConcatEmptySeq
  <2> QED BY <1>2, <2>1, AnswersKept
<1>4. CASE \E r \in ReplyType : s = <<r>> /\ Fits(p, d, e, t.messageIndex, r)
  <2>1. PICK r \in ReplyType : s = <<r>> /\ Fits(p, d, e, t.messageIndex, r)
    BY <1>4
  <2>2. PICK i, q : i = t.messageIndex /\ q = d.replies
    OBVIOUS
  <2>3. e.replies = Append(q, r) /\ q \in Seq(ReplyType)
    <3>1. q \in Seq(ReplyType) /\ e.replies = q \o <<r>>
      BY <1>1, <2>1, <2>2
    <3> QED BY <3>1, AppendIsConcat
  <2>4. /\ Verdicts(p, d, i, t.responses) /\ Verdicts(p, d, i, t.transmit) /\ Verdicts(p, d, i, q)
        /\ InTurn(p, i, t.responses, t.transmit) /\ InTurn(p, i, t.responses, q)
        /\ InTurn(p, i, t.transmit, q)
    BY <2>2 DEF Answers
  <2>5. \A x : Allowed(p, d, i, x) => Settles(p, i, x, r)
    BY <2>1, <2>2 DEF Fits
  <2>6. /\ \A a \in DOMAIN q : Settles(p, i, q[a], r)
        /\ \A a \in DOMAIN t.responses : Settles(p, i, t.responses[a], r)
        /\ \A a \in DOMAIN t.transmit : Settles(p, i, t.transmit[a], r)
    BY <2>4, <2>5 DEF Verdicts
  <2>7. /\ Verdicts(p, e, i, t.responses) /\ Verdicts(p, e, i, t.transmit) /\ Verdicts(p, e, i, q)
    BY <1>1, <1>2, <2>2, <2>3, <2>4, VerdictsKept
  <2>8. Allowed(p, e, i, r)
    BY <2>1, <2>2 DEF Fits
  <2>9. Verdicts(p, e, i, Append(q, r))
    BY <2>3, <2>6, <2>7, <2>8, VerdictsAppend
  <2>10. InTurn(p, i, t.responses, Append(q, r)) /\ InTurn(p, i, t.transmit, Append(q, r))
    BY <2>3, <2>4, <2>6, InTurnAppend
  <2> QED BY <2>2, <2>3, <2>4, <2>7, <2>9, <2>10 DEF Answers
<1> QED BY <1>3, <1>4

\* The reply at the head of the instrument's queue is on its way, or nobody listens to it.
LEMMA ReplyAnswers ==
    ASSUME NEW p, NEW d \in DeviceType, NEW e \in DeviceType, NEW t \in HostType,
           NEW a \in HostType, d.replies # <<>>, e.replies = Tail(d.replies), e.got = d.got,
           a.messageIndex = t.messageIndex, a.responses = t.responses,
           a.transmit = t.transmit \/ a.transmit = Append(t.transmit, Head(d.replies)),
           Answers(p, d, t)
    PROVE  Answers(p, e, a)
<1>1. PICK q, r, s, w, i : /\ q = d.replies /\ r = Head(q) /\ s = Tail(q) /\ w = t.transmit
                           /\ i = t.messageIndex
  OBVIOUS
<1>2. /\ t.responses \in Seq(ReplyType) /\ w \in Seq(ReplyType) /\ q \in Seq(ReplyType)
  BY <1>1 DEF HostType, DeviceType
<1>3. /\ r \in ReplyType /\ s \in Seq(ReplyType) /\ r = q[1] /\ 1 \in DOMAIN q
      /\ \A k \in DOMAIN s : k + 1 \in DOMAIN q /\ s[k] = q[k + 1] /\ 1 < k + 1
  BY <1>1, <1>2, HeadTailProperties, EmptySeq
<1>4. Tails(s, q)
  BY <1>3 DEF Tails
<1>5. Tails(t.responses, t.responses) /\ Tails(w, w)
  BY <1>2, TailsFacts
<1>6. CASE a.transmit = t.transmit
  BY <1>1, <1>4, <1>5, <1>6, AnswersKept
<1>7. CASE a.transmit = Append(t.transmit, Head(d.replies))
  <2>1. /\ Verdicts(p, d, i, t.responses) /\ Verdicts(p, d, i, w) /\ Verdicts(p, d, i, q)
        /\ InTurn(p, i, t.responses, w) /\ InTurn(p, i, t.responses, q) /\ InTurn(p, i, w, q)
    BY <1>1 DEF Answers
  <2>2. /\ Verdicts(p, e, i, t.responses) /\ Verdicts(p, e, i, w) /\ Verdicts(p, e, i, q)
    BY <2>1 DEF Verdicts, Allowed
  <2>3. Verdicts(p, e, i, s)
    <3>1. e.got \subseteq e.got
      OBVIOUS
    <3> QED BY <1>2, <1>3, <1>4, <2>2, <3>1, VerdictsKept
  <2>4. /\ InTurn(p, i, t.responses, s) /\ InTurn(p, i, w, s)
    BY <1>4, <1>5, <2>1, InTurnKept
  <2>5. /\ Allowed(p, e, i, r)
        /\ \A k \in DOMAIN s : Settles(p, i, r, s[k])
        /\ \A k \in DOMAIN w : Settles(p, i, w[k], r)
        /\ \A k \in DOMAIN t.responses : Settles(p, i, t.responses[k], r)
    <3>1. Allowed(p, e, i, r)
      BY <1>3, <2>2 DEF Verdicts
    <3>2. \A k \in DOMAIN s : Settles(p, i, r, s[k])
      BY <1>3, <2>2 DEF Verdicts
    <3>3. /\ \A k \in DOMAIN w : Settles(p, i, w[k], r)
          /\ \A k \in DOMAIN t.responses : Settles(p, i, t.responses[k], r)
      BY <1>3, <2>1 DEF InTurn
    <3> QED BY <3>1, <3>2, <3>3
  <2>6. Verdicts(p, e, i, Append(w, r))
    BY <1>2, <1>3, <2>2, <2>5, VerdictsAppend
  <2>7. InTurn(p, i, t.responses, Append(w, r)) /\ InTurn(p, i, Append(w, r), s)
    BY <1>2, <1>3, <2>1, <2>4, <2>5, InTurnAppend
  <2>8. /\ a.messageIndex = i /\ a.responses = t.responses /\ a.transmit = Append(w, r)
        /\ e.replies = s
    BY <1>1, <1>7
  <2> QED BY <2>2, <2>3, <2>4, <2>6, <2>7, <2>8 DEF Answers
<1> QED BY <1>6, <1>7

\* What Track says besides the replies depends on the rest alone.
LEMMA SamplingSame ==
    ASSUME NEW p, NEW d, NEW e, NEW i, e.got = d.got, e.sample = d.sample, e.want = d.want,
           Sampling(p, d, i)
    PROVE  Sampling(p, e, i)
BY DEF Sampling, Expected

LEMMA AckDeviceReply == ASSUME TransferInv, AckInv, DeviceReply PROVE AckInv'
<1>1. /\ device.replies # <<>> /\ device' = [device EXCEPT !.replies = Tail(@)]
      /\ UNCHANGED <<payload, port, transfers>>
  BY DEF DeviceReply, counters
<1>2. host \in HostType /\ host' \in HostType /\ device \in DeviceType /\ device' \in DeviceType
  <2>1. TransferInv'
    BY InvDeviceReply
  <2> QED BY <2>1 DEF TransferInv, Stage, Members, DeviceInv
<1>3. PICK p, d, e, t, a, q, r :
        /\ p = payload /\ d = device /\ e = device' /\ t = host /\ a = host' /\ q = port
        /\ r = Head(d.replies)
  OBVIOUS
<1>4. /\ e.replies = Tail(d.replies) /\ e.got = d.got /\ e.sample = d.sample /\ e.want = d.want
      /\ e.partial = d.partial
  BY <1>1, <1>2, <1>3 DEF DeviceType
<1>5. /\ a.messageIndex = t.messageIndex /\ a.responses = t.responses /\ a.phase = t.phase
      /\ a.state = t.state /\ a.wire = t.wire /\ a.payloadCursor = t.payloadCursor
      /\ a.transmit = t.transmit \/ a.transmit = Append(t.transmit, r)
  <2>1. a = IF t.captureTransmit THEN [t EXCEPT !.transmit = Append(@, r)] ELSE t
    BY <1>3 DEF DeviceReply
  <2> QED BY <1>2, <1>3, <2>1 DEF HostType
<1>6. Track(p, d, t, q)
  BY <1>3 DEF AckInv
<1>7. Received(p, e, a)
  BY <1>4, <1>5, <1>6 DEF Track, Received
<1>8. ASSUME Live(a)
      PROVE  Answers(p, e, a) /\ Sampling(p, e, a.messageIndex) /\ Sent(p, e, a, q)
  <2>1. Answers(p, d, t) /\ Sampling(p, d, t.messageIndex) /\ Sent(p, d, t, q)
    BY <1>5, <1>6, <1>8 DEF Track, Live
  <2>2. Answers(p, e, a)
    <3>1. /\ d \in DeviceType /\ e \in DeviceType /\ t \in HostType /\ a \in HostType
          /\ d.replies # <<>> /\ e.replies = Tail(d.replies) /\ e.got = d.got
      BY <1>1, <1>2, <1>3, <1>4
    <3>2. /\ a.messageIndex = t.messageIndex /\ a.responses = t.responses
          /\ a.transmit = t.transmit \/ a.transmit = Append(t.transmit, Head(d.replies))
      BY <1>3, <1>5
    <3> QED BY <2>1, <3>1, <3>2, ReplyAnswers
  <2>3. Sampling(p, e, a.messageIndex)
    BY <1>4, <1>5, <2>1, SamplingSame
  <2>4. Into(a) = Into(t) /\ \A n : Before(e, q, n) = Before(d, q, n)
    BY <1>4, <1>5 DEF Into, Before
  <2>5. Sent(p, e, a, q)
    BY <1>4, <1>5, <2>1, <2>4 DEF Sent
  <2> QED BY <2>2, <2>3, <2>5
<1>9. Track(payload', device', host', port')
  <2>1. Track(p, e, a, q)
    BY <1>7, <1>8 DEF Track
  <2> QED BY <1>1, <1>3, <2>1
<1>10. transfers' # 0
  BY <1>1 DEF AckInv, Fresh, NewDevice
<1> QED BY <1>9, <1>10 DEF AckInv

\* The first half of the queue is taken: what it started is kept, what it ended arrived.
LEMMA SentTaken ==
    ASSUME NEW p, NEW d, NEW e, NEW t \in HostType, NEW queue \in Seq(HalfType), queue # <<>>,
           Sent(p, d, t, queue), d.got \subseteq e.got, e.got \subseteq 1 .. t.messageIndex,
           queue[1].part = 1 => e.partial = queue[1],
           queue[1].part = 2 /\ queue[1].at \in 1 .. t.messageIndex - 1 => queue[1].at \in e.got
    PROVE  Sent(p, e, t, Tail(queue))
<1>1. PICK q, n, i : q = Tail(queue) /\ n = Len(queue) /\ i = t.messageIndex
  OBVIOUS
<1>2. /\ n \in Nat \ {0} /\ DOMAIN queue = 1 .. n /\ q \in Seq(HalfType) /\ Len(q) = n - 1
      /\ DOMAIN q = 1 .. n - 1 /\ \A k \in 1 .. n - 1 : q[k] = queue[k + 1]
      /\ 1 \in DOMAIN queue
  BY <1>1, HeadTailProperties, EmptySeq
<1>3. \A k \in DOMAIN q : k + 1 \in DOMAIN queue /\ q[k] = queue[k + 1]
  BY <1>2
\* Where the half before one in the queue has part 1, it is still before it.
<1>4. ASSUME NEW k \in 1 .. n, Before(d, queue, k + 1).part = 1
      PROVE  Before(e, q, k) = Before(d, queue, k + 1)
  <2>1. k \in Nat \ {0} /\ k + 1 # 1 /\ (k + 1) - 1 = k
    BY <1>2
  <2>2. Before(d, queue, k + 1) = queue[k]
    BY <2>1 DEF Before
  <2>3. CASE k = 1
    BY <1>4, <2>2, <2>3 DEF Before
  <2>4. CASE k # 1
    <3>1. k - 1 \in 1 .. n - 1 /\ (k - 1) + 1 = k
      BY <1>2, <2>4
    <3>2. q[k - 1] = queue[k]
      BY <1>2, <3>1
    <3> QED BY <2>2, <2>4, <3>2 DEF Before
  <2> QED BY <2>3, <2>4
<1>5. ASSUME NEW k \in DOMAIN q, q[k].at # 0
      PROVE  /\ q[k].at <= i /\ q[k].packet = p[q[k].at].packet
             /\ q[k].part = 2 => Before(e, q, k) = [q[k] EXCEPT !.part = 1]
  <2>1. k + 1 \in DOMAIN queue /\ q[k] = queue[k + 1]
    BY <1>3
  <2>2. /\ q[k].at <= i /\ q[k].packet = p[q[k].at].packet
        /\ q[k].part = 2 => Before(d, queue, k + 1) = [q[k] EXCEPT !.part = 1]
    BY <1>1, <1>5, <2>1 DEF Sent
  <2>3. q[k] \in HalfType
    BY <1>2, ElementOfSeq
  <2>4. [q[k] EXCEPT !.part = 1].part = 1
    BY <2>3 DEF HalfType
  <2>5. k \in 1 .. n
    BY <1>2
  <2> QED BY <1>4, <2>2, <2>4, <2>5
<1>6. NoCancel(q) /\ NoCancel(t.wire)
  BY <1>3 DEF Sent, NoCancel
<1>7. ASSUME t.phase = "Payload", Into(t) = 1
      PROVE  Before(e, q, Len(q) + 1) = Half(p[i].kind, i, p[i].packet, 1)
  <2>1. Before(d, queue, n + 1) = Half(p[i].kind, i, p[i].packet, 1)
    BY <1>1, <1>7 DEF Sent
  <2>2. Before(d, queue, n + 1).part = 1
    BY <2>1 DEF Half
  <2>3. n \in 1 .. n /\ Len(q) + 1 = n
    BY <1>2
  <2> QED BY <1>4, <2>1, <2>2, <2>3
<1>8. ASSUME NEW j \in 1 .. i - 1 PROVE j \in e.got \/ Carries(q, j)
  <2>1. CASE j \in d.got
    BY <2>1
  <2>2. CASE Carries(queue, j)
    <3>1. PICK k \in DOMAIN queue : queue[k].at = j /\ queue[k].part = 2
      BY <2>2 DEF Carries
    <3>2. CASE k = 1
      BY <1>1, <1>8, <3>1, <3>2
    <3>3. CASE k # 1
      <4>1. k - 1 \in 1 .. n - 1 /\ (k - 1) + 1 = k
        BY <1>2, <3>3
      <4>2. k - 1 \in DOMAIN q /\ q[k - 1] = queue[k]
        BY <1>2, <4>1
      <4> QED BY <3>1, <4>2 DEF Carries
    <3> QED BY <3>2, <3>3
  <2>3. j \in d.got \/ Carries(queue, j)
    BY <1>1, <1>8 DEF Sent
  <2> QED BY <2>1, <2>2, <2>3
<1>9. t.phase = "DrainPayload" => i = Len(p) + 1
  BY <1>1 DEF Sent
<1> QED BY <1>1, <1>5, <1>6, <1>7, <1>8, <1>9 DEF Sent

\* A half that waits is of a transfer that goes on.
LEMMA TakenFrom ==
    ASSUME TransferInv, AckInv, port # <<>>
    PROVE  /\ host \in HostType /\ device \in DeviceType /\ port \in Seq(HalfType)
           /\ host.phase # "Idle" /\ host.state # "Complete" /\ transfers # 0
           /\ port[1] = Head(port) /\ 1 \in DOMAIN port /\ Head(port) \in HalfType
           /\ Live(host) <=> host.phase # "DrainCancellation"
           /\ host.messageIndex \in Nat \ {0}
           /\ host.model \in Models /\ payload \in Payloads[host.model]
<1>1. /\ Loaded(host) /\ Stage(host, port) /\ port \in Seq(HalfType) /\ DeviceInv
  BY LoadedHost
<1>2. host.phase # "Idle"
  BY <1>1 DEF Stage, Queued
<1>3. host.state # "Complete"
  BY <1>1, <1>2 DEF Stage, Places, OwningStates
<1>4. port[1] = Head(port) /\ 1 \in DOMAIN port /\ Head(port) \in HalfType
  BY <1>1, HeadTailProperties, EmptySeq
<1>5. Live(host) <=> host.phase # "DrainCancellation"
  BY <1>2 DEF Live, GivenUp
<1>6. transfers # 0 /\ Tracked(host, port)
  BY <1>2, TrackedHost
<1>7. /\ host.messageIndex \in Nat \ {0} /\ host.model \in Models
      /\ payload \in Payloads[host.model]
  BY <1>6, TrackedFacts
<1> QED BY <1>1, <1>2, <1>3, <1>4, <1>5, <1>6, <1>7 DEF Loaded, DeviceInv

LEMMA AckDeviceByte == ASSUME TransferInv, AckInv, DeviceByte PROVE AckInv'
<1>1. /\ port # <<>> /\ port' = Tail(port) /\ ~Completes(device, Head(port))
      /\ UNCHANGED <<host, payload, transfers>>
  BY DEF DeviceByte, counters
<1>2. PICK p, d, e, t, q, h, i : /\ p = payload /\ d = device /\ e = device' /\ t = host /\ q = port
                                 /\ h = Head(port) /\ i = host.messageIndex
  OBVIOUS
<1>3. /\ t \in HostType /\ d \in DeviceType /\ q \in Seq(HalfType) /\ q # <<>>
      /\ transfers # 0 /\ q[1] = h /\ 1 \in DOMAIN q /\ h \in HalfType /\ i \in Nat \ {0}
  BY <1>1, <1>2, TakenFrom
<1>4. PICK half : half = IF h.part = 1 THEN h ELSE NoHalf
  OBVIOUS
<1>5. e = [d EXCEPT !.partial = half]
  BY <1>2, <1>4 DEF DeviceByte
<1>6. e \in DeviceType
  <2>1. TransferInv'
    BY InvDeviceByte
  <2> QED BY <1>2, <2>1 DEF TransferInv, DeviceInv
<1>7. /\ e.got = d.got /\ e.sample = d.sample /\ e.want = d.want /\ e.replies = d.replies
      /\ e.partial = half
  BY <1>3, <1>5 DEF DeviceType
<1>8. Track(p, d, t, q)
  BY <1>2 DEF AckInv
<1>9. Received(p, e, t)
  BY <1>7, <1>8 DEF Track, Received
<1>10. ASSUME Live(t)
       PROVE  Answers(p, e, t) /\ Sampling(p, e, i) /\ Sent(p, e, t, Tail(q))
  <2>1. Answers(p, d, t) /\ Sampling(p, d, i) /\ Sent(p, d, t, q)
    BY <1>2, <1>8, <1>10 DEF Track
  <2>2. Answers(p, e, t)
    BY <1>7, <2>1 DEF Answers, Verdicts, Allowed
  <2>3. Sampling(p, e, i)
    BY <1>7, <2>1, SamplingSame
  <2>4. h.part # 2 \/ h.at = 0
    <3> SUFFICES ASSUME h.part = 2, h.at # 0 PROVE FALSE
      OBVIOUS
    <3>1. Before(d, q, 1) = [h EXCEPT !.part = 1]
      BY <1>3, <2>1 DEF Sent
    <3>2. d.partial = [h EXCEPT !.part = 1]
      BY <3>1 DEF Before
    <3>3. h # Eox
      BY DEF Eox, Half
    <3> QED BY <1>1, <1>2, <3>2, <3>3 DEF Completes
  <2>5. 0 \notin 1 .. i - 1
    OBVIOUS
  <2>6. h.part = 1 => e.partial = h
    BY <1>4, <1>7
  <2>7. e.got \subseteq 1 .. t.messageIndex
    BY <1>7, <2>1 DEF Sent
  <2>8. Sent(p, e, t, Tail(q))
    BY <1>2, <1>3, <1>7, <2>1, <2>4, <2>5, <2>6, <2>7, SentTaken
  <2> QED BY <2>2, <2>3, <2>8
<1>11. Track(payload', device', host', port')
  <2>1. Track(p, e, t, Tail(q))
    BY <1>2, <1>9, <1>10 DEF Track
  <2> QED BY <1>1, <1>2, <2>1
<1> QED BY <1>1, <1>3, <1>11 DEF AckInv

\* What a message that arrived whole leaves of the instrument, whatever the reply.
LEMMA TakeKeeps ==
    ASSUME NEW d \in DeviceType, NEW m \in HalfType, m # Eox, Command(m) \/ OfPayload(m)
    PROVE  /\ d.got \subseteq Take(d, m).to.got /\ Take(d, m).to.replies = d.replies
           /\ Take(d, m).to.partial = d.partial
<1>1. PICK x : x = Take(d, m)
  OBVIOUS
<1>2. CASE m.kind = "SdsHeader" /\ d.sample = 0
  <2>1. x.to = [d EXCEPT !.got = @ \cup {m.at}, !.sample = m.at, !.want = 0]
    BY <1>1, <1>2 DEF Take, MessageKinds, SdsKinds
  <2>2. /\ x.to.got = d.got \cup {m.at} /\ x.to.replies = d.replies
        /\ x.to.partial = d.partial
    BY <2>1 DEF DeviceType
  <2> QED BY <1>1, <2>2
<1>3. CASE m.kind = "SdsPacket" /\ d.sample # 0 /\ m.packet = Expected(d)
  <2>1. x.to = [d EXCEPT !.got = @ \cup {m.at}, !.want = @ + 1,
                         !.sample = IF payload[m.at].last THEN 0 ELSE @]
    BY <1>1, <1>3 DEF Take, MessageKinds, SdsKinds
  <2>2. /\ x.to.got = d.got \cup {m.at} /\ x.to.replies = d.replies
        /\ x.to.partial = d.partial
    BY <2>1 DEF DeviceType
  <2> QED BY <1>1, <2>2
<1>4. CASE m.kind \in MessageKinds \ SdsKinds
  <2>1. x.to = [d EXCEPT !.got = @ \cup {m.at}]
    BY <1>1, <1>4 DEF Take, MessageKinds, SdsKinds
  <2>2. /\ x.to.got = d.got \cup {m.at} /\ x.to.replies = d.replies
        /\ x.to.partial = d.partial
    BY <2>1 DEF DeviceType
  <2> QED BY <1>1, <2>2
<1>5. CASE m.kind = "SdsCancel"
  <2>1. x.to = [d EXCEPT !.sample = 0]
    BY <1>1, <1>5 DEF Take, MessageKinds, SdsKinds
  <2>2. x.to.got = d.got /\ x.to.replies = d.replies /\ x.to.partial = d.partial
    BY <2>1 DEF DeviceType
  <2> QED BY <1>1, <2>2
<1>6. CASE \/ m.kind = "SdsHeader" /\ d.sample # 0
           \/ m.kind = "SdsPacket" /\ ~(d.sample # 0 /\ m.packet = Expected(d))
           \/ m.kind \in Commands \ {"SdsCancel"}
  <2>1. x.to = d
    BY <1>1, <1>6 DEF Take, Commands, MessageKinds, SdsKinds
  <2> QED BY <1>1, <2>1
<1>7. m.kind \in Commands \cup MessageKinds
  BY DEF Command, OfPayload
<1> QED BY <1>2, <1>3, <1>4, <1>5, <1>6, <1>7 DEF SdsKinds

\* What taking a message of the transfer under way leaves true, and that its reply fits.
Taken(d, e, i, s) ==
    /\ d.got \subseteq e.got /\ e.got \subseteq 1 .. i /\ Sampling(payload, e, i)
    /\ s = <<>> \/ \E r \in ReplyType : s = <<r>> /\ Fits(payload, d, e, i, r)

\* A command, or a message that has no answer.
LEMMA TakenQuiet ==
    ASSUME NEW d \in DeviceType, NEW m \in HalfType, NEW i \in Nat \ {0}, Sampling(payload, d, i),
           d.got \subseteq 1 .. i, m.kind # "SdsCancel", m.kind \notin SdsKinds, m # Eox,
           Command(m) \/ (OfPayload(m) /\ m.at <= i)
    PROVE  /\ Taken(d, Take(d, m).to, i, Take(d, m).reply)
           /\ \A n \in DOMAIN Take(d, m).reply : Harmless(Take(d, m).reply[n])
           /\ OfPayload(m) => m.at \in Take(d, m).to.got /\ Take(d, m).reply = <<>>
<1>1. PICK x, e : x = Take(d, m) /\ e = x.to
  OBVIOUS
<1>2. CASE Command(m)
  <2>1. m.kind \in Commands \ {"SdsCancel"}
    BY <1>2 DEF Command
  <2>2. /\ e = d
        /\ \E kind \in {"SpeedReport", "SpeedAcknowledgement", "FirstTestResult",
                        "SecondTestResult"} : x.reply = <<Reply(kind, 0)>>
    BY <1>1, <2>1 DEF Take, Commands, MessageKinds, SdsKinds
  <2>3. PICK kind \in {"SpeedReport", "SpeedAcknowledgement", "FirstTestResult",
                       "SecondTestResult"} : x.reply = <<Reply(kind, 0)>>
    BY <2>2
  <2>4. Reply(kind, 0) \in ReplyType
    BY ReplyTypes
  <2>5. Harmless(Reply(kind, 0))
    BY DEF Harmless, Reply
  <2>6. ~OfPayload(m)
    BY <2>1 DEF OfPayload, MessageKinds, SdsKinds, Commands
  <2>7. \A n \in DOMAIN x.reply : Harmless(x.reply[n])
    BY <2>3, <2>5
  <2>8. Taken(d, e, i, x.reply)
    BY <2>2, <2>3, <2>4, <2>5, HarmlessFits DEF Taken
  <2> QED BY <1>1, <2>6, <2>7, <2>8
<1>3. CASE OfPayload(m) /\ m.at <= i
  <2>1. m.kind \in MessageKinds \ SdsKinds /\ payload[m.at].kind = m.kind /\ m.at \in Nat \ {0}
    BY <1>3 DEF OfPayload, HalfType
  <2>2. PICK got : got = d.got \cup {m.at}
    OBVIOUS
  <2>3. x.reply = <<>> /\ e = [d EXCEPT !.got = got]
    BY <1>1, <2>1, <2>2 DEF Take, MessageKinds, SdsKinds
  <2>4. e.got = got /\ e.sample = d.sample /\ e.want = d.want
    BY <2>3 DEF DeviceType
  <2>5. m.at \in 1 .. i
    BY <1>3, <2>1
  <2>6. payload[i].kind \in SdsKinds => (i \in got <=> i \in d.got)
    BY <2>1, <2>2
  <2>7. Sampling(payload, e, i)
    <3>1. Expected(e) = Expected(d)
      BY <2>4 DEF Expected
    <3> QED BY <2>4, <2>6, <3>1 DEF Sampling, SdsKinds
  <2> QED BY <1>1, <2>2, <2>3, <2>4, <2>5, <2>7 DEF Taken
<1> QED BY <1>2, <1>3

\* Nothing said before can have acknowledged a message that did not arrive.
LEMMA NotYet ==
    ASSUME NEW p, NEW d, NEW i, i \notin d.got, NEW q, Allowed(p, d, i, q)
    PROVE  ~Decides(p, i, q)
BY DEF Allowed, Decides

\* The header of the current sample.
LEMMA TakenHeader ==
    ASSUME NEW d \in DeviceType, NEW m \in HalfType, NEW i \in Nat \ {0}, Sampling(payload, d, i),
           d.got \subseteq 1 .. i, m.kind = "SdsHeader", OfPayload(m), m.at = i
    PROVE  Taken(d, Take(d, m).to, i, Take(d, m).reply)
<1>1. PICK x, e : x = Take(d, m) /\ e = x.to
  OBVIOUS
<1>2. i \in 1 .. Len(payload) /\ payload[i].kind = "SdsHeader"
  BY DEF OfPayload
<1>3. CASE d.sample # 0
  <2>1. e = d /\ x.reply = <<Reply("WAIT", 0)>>
    BY <1>1, <1>3 DEF Take, MessageKinds, SdsKinds
  <2>2. Reply("WAIT", 0) \in ReplyType /\ Harmless(Reply("WAIT", 0))
    BY ReplyTypes DEF Harmless, Reply, SdsReplies
  <2> QED BY <1>1, <2>1, <2>2, HarmlessFits DEF Taken
<1>4. CASE d.sample = 0
  <2>1. PICK got : got = d.got \cup {i}
    OBVIOUS
  <2>2. e = [d EXCEPT !.got = got, !.sample = i, !.want = 0] /\ x.reply = <<Reply("ACK", 0)>>
    BY <1>1, <1>4, <2>1 DEF Take, MessageKinds, SdsKinds, DeviceType
  <2>3. e.got = got /\ e.sample = i /\ e.want = 0
    BY <2>2 DEF DeviceType
  <2>4. i \notin d.got
    BY <1>2, <1>4 DEF Sampling
  <2>5. Expected(e) = 0
    BY <2>3, LimitsAssumption DEF Expected
  <2>6. Sampling(payload, e, i)
    BY <1>2, <2>1, <2>3, <2>5 DEF Sampling
  <2>7. PICK r : r = Reply("ACK", 0)
    OBVIOUS
  <2>8. r \in ReplyType /\ r.kind = "ACK"
    BY <2>7, ReplyTypes DEF Reply, SdsReplies
  <2>9. Allowed(payload, e, i, r)
    BY <1>2, <2>1, <2>3, <2>8 DEF Allowed, SdsKinds
  <2>10. Fits(payload, d, e, i, r)
    BY <2>4, <2>9, NotYet DEF Fits, Settles
  <2>11. d.got \subseteq e.got /\ e.got \subseteq 1 .. i
    BY <2>1, <2>3
  <2> QED BY <1>1, <2>2, <2>6, <2>7, <2>8, <2>10, <2>11 DEF Taken
<1> QED BY <1>3, <1>4

\* A NAK asks for the packet the instrument wants: the current one, or the next where it has it.
LEMMA RefusalFits ==
    ASSUME PacketModulus > 1, NEW d \in DeviceType, NEW i \in 1 .. Len(payload),
           payload[i].kind = "SdsPacket", payload[i].packet \in 0 .. PacketModulus - 1,
           Sampling(payload, d, i), d.sample # 0
    PROVE  /\ Reply("NAK", Expected(d)) \in ReplyType
           /\ Fits(payload, d, d, i, Reply("NAK", Expected(d)))
           /\ payload[i].packet = Expected(d) <=> i \notin d.got
<1>1. PICK n, w, r : n = payload[i].packet /\ w = Expected(d) /\ r = Reply("NAK", w)
  OBVIOUS
<1>2. NextOf(n) # n /\ NextOf(n) \in Nat /\ n \in Nat
  <2>1. n \in 0 .. PacketModulus - 1
    BY <1>1
  <2> QED BY <2>1, NextDiffers
<1>3. /\ i \in d.got => ~payload[i].last
      /\ w = IF i \in d.got THEN NextOf(n) ELSE n
  BY <1>1 DEF Sampling
<1>4. w \in Nat /\ r.kind = "NAK" /\ r.packet = w /\ r.good
  BY <1>1, <1>2, <1>3 DEF Reply
<1>5. r \in ReplyType
  BY <1>1, <1>4, ReplyTypes DEF SdsReplies
<1>6. Allowed(payload, d, i, r)
  BY <1>1, <1>3, <1>4 DEF Allowed
<1>7. ASSUME NEW q, Allowed(payload, d, i, q) PROVE Settles(payload, i, q, r)
  <2>1. CASE i \in d.got
    BY <1>1, <1>2, <1>3, <1>4, <2>1 DEF Settles
  <2>2. CASE i \notin d.got
    BY <1>7, <2>2, NotYet DEF Settles
  <2> QED BY <2>1, <2>2
<1>8. n = w <=> i \notin d.got
  BY <1>2, <1>3
<1> QED BY <1>1, <1>5, <1>6, <1>7, <1>8 DEF Fits

\* The current packet of a sample.
LEMMA TakenPacket ==
    ASSUME PacketModulus > 1, NEW d \in DeviceType, NEW m \in HalfType, NEW i \in Nat \ {0},
           Sampling(payload, d, i), d.got \subseteq 1 .. i, m.kind = "SdsPacket", OfPayload(m),
           m.at = i, m.packet = payload[i].packet, payload[i].packet \in 0 .. PacketModulus - 1
    PROVE  Taken(d, Take(d, m).to, i, Take(d, m).reply)
<1>1. PICK x, e : x = Take(d, m) /\ e = x.to
  OBVIOUS
<1>2. i \in 1 .. Len(payload) /\ payload[i].kind = "SdsPacket"
  BY DEF OfPayload
<1>3. CASE d.sample = 0
  <2>1. e = d /\ x.reply = <<>>
    BY <1>1, <1>3 DEF Take, MessageKinds, SdsKinds
  <2> QED BY <1>1, <2>1 DEF Taken
<1>4. CASE d.sample # 0 /\ m.packet # Expected(d)
  <2>1. e = d /\ x.reply = <<Reply("NAK", Expected(d))>>
    BY <1>1, <1>4 DEF Take, MessageKinds, SdsKinds
  <2>2. Reply("NAK", Expected(d)) \in ReplyType /\ Fits(payload, d, d, i, Reply("NAK", Expected(d)))
    BY <1>2, <1>4, RefusalFits
  <2> QED BY <1>1, <2>1, <2>2 DEF Taken
<1>5. CASE d.sample # 0 /\ m.packet = Expected(d)
  <2>1. i \notin d.got
    BY <1>2, <1>5, RefusalFits
  <2>2. PICK got, s, w : /\ got = d.got \cup {i} /\ w = d.want + 1
                         /\ s = IF payload[i].last THEN 0 ELSE d.sample
    OBVIOUS
  <2>3. x.reply = <<Reply("ACK", m.packet)>> /\ e = [d EXCEPT !.got = got, !.sample = s, !.want = w]
    <3>1. /\ x.reply = <<Reply("ACK", m.packet)>>
          /\ x.to = [d EXCEPT !.got = @ \cup {m.at}, !.want = @ + 1,
                              !.sample = IF payload[m.at].last THEN 0 ELSE @]
      BY <1>1, <1>5 DEF Take, MessageKinds, SdsKinds
    <3> QED BY <1>1, <2>2, <3>1 DEF DeviceType
  <2>4. e.got = got /\ e.sample = s /\ e.want = w
    BY <2>3 DEF DeviceType
  <2>5. Expected(e) = NextOf(Expected(d))
    <3>1. d.want \in Nat
      BY DEF DeviceType
    <3> QED BY <2>2, <2>4, <3>1, NextRemainder DEF Expected
  <2>6. Sampling(payload, e, i)
    <3>1. s # 0 => ~payload[i].last
      BY <2>2
    <3>2. Expected(e) = NextOf(payload[i].packet)
      BY <1>5, <2>5
    <3> QED BY <1>2, <2>2, <2>4, <3>1, <3>2 DEF Sampling
  <2>7. PICK r : r = Reply("ACK", m.packet)
    OBVIOUS
  <2>8. r \in ReplyType /\ r.kind = "ACK"
    BY <2>7, ReplyTypes DEF Reply, SdsReplies, HalfType
  <2>9. Allowed(payload, e, i, r)
    BY <1>2, <2>2, <2>4, <2>8 DEF Allowed, SdsKinds
  <2>10. Fits(payload, d, e, i, r)
    BY <2>1, <2>9, NotYet DEF Fits, Settles
  <2>11. d.got \subseteq e.got /\ e.got \subseteq 1 .. i
    BY <2>2, <2>4
  <2> QED BY <1>1, <2>3, <2>6, <2>7, <2>8, <2>10, <2>11 DEF Taken
<1> QED BY <1>3, <1>4, <1>5

\* What a message that arrived whole may leave, the faults of the instrument included.
Left(d, m, x, f) ==
    \/ f = Say(x.to, x.reply)
    \/ x.reply # <<>> /\ f = x.to
    \/ /\ m.kind \in {"SpeedRequest", "FirstTest"}
       /\ f = Say(x.to, <<[x.reply[1] EXCEPT !.good = FALSE]>>)
    \/ /\ x.reply # <<>> \/ m.kind \in SdsKinds
       /\ \E w \in ReplyType : Harmless(w) /\ f = Say(x.to, <<w>> \o x.reply)
    \/ m.kind \in SdsKinds /\ f = d
    \/ m.kind = "SdsPacket" /\ d.sample # 0 /\ f = Say(d, <<Reply("NAK", Expected(d))>>)
    \/ /\ m.kind = "SdsPacket" \/ (m.kind = "SdsHeader" /\ d.sample = 0)
       /\ f = Say([d EXCEPT !.sample = 0], <<Reply("CANCEL", m.packet)>>)

LEMMA Outcomes ==
    ASSUME "duplicate" \notin Faults, NEW d \in DeviceType, NEW m \in HalfType, NEW x,
           x = Take(d, m), NEW f,
           \/ f = Say(Take(d, m).to, Take(d, m).reply)
           \/ \E fault \in Faults : CanShow(d, m, fault) /\ f = Faulty(d, m, fault)
    PROVE  Left(d, m, x, f)
<1>1. CASE f = Say(Take(d, m).to, Take(d, m).reply)
  BY <1>1 DEF Left
<1>2. CASE \E fault \in Faults : CanShow(d, m, fault) /\ f = Faulty(d, m, fault)
  <2>1. PICK fault \in Faults : CanShow(d, m, fault) /\ f = Faulty(d, m, fault)
    BY <1>2
  <2>2. fault \in {"lose", "miss", "reject", "wait", "cancel", "bad", "noise"}
    BY <2>1, FaultsAssumption
  <2>3. CASE fault = "lose"
    BY <2>1, <2>3 DEF Faulty, CanShow, Left
  <2>4. CASE fault = "bad"
    BY <2>1, <2>4 DEF Faulty, CanShow, Left
  <2>5. CASE fault = "miss"
    BY <2>1, <2>5 DEF Faulty, CanShow, Left
  <2>6. CASE fault = "reject"
    BY <2>1, <2>6 DEF Faulty, CanShow, Left
  <2>7. CASE fault = "cancel"
    BY <2>1, <2>7 DEF Faulty, CanShow, Left, SdsKinds
  <2>8. CASE fault = "wait"
    <3>1. m.kind \in SdsKinds /\ f = Say(x.to, <<Reply("WAIT", m.packet)>> \o x.reply)
      BY <2>1, <2>8 DEF Faulty, CanShow
    <3>2. m.packet \in Nat
      BY DEF HalfType
    <3>3. Reply("WAIT", m.packet) \in ReplyType /\ Harmless(Reply("WAIT", m.packet))
      BY <3>2, ReplyTypes DEF Harmless, Reply, SdsReplies
    <3> QED BY <3>1, <3>3 DEF Left
  <2>9. CASE fault = "noise"
    <3>1. x.reply # <<>> /\ f = Say(x.to, <<Reply("Other", 0)>> \o x.reply)
      BY <2>1, <2>9 DEF Faulty, CanShow
    <3>2. Reply("Other", 0) \in ReplyType /\ Harmless(Reply("Other", 0))
      BY ReplyTypes DEF Harmless, Reply
    <3> QED BY <3>1, <3>2 DEF Left
  <2> QED BY <2>2, <2>3, <2>4, <2>5, <2>6, <2>7, <2>8, <2>9
<1> QED BY <1>1, <1>2

LEMMA SayFields ==
    ASSUME NEW d \in DeviceType, NEW s
    PROVE  /\ Say(d, s).got = d.got /\ Say(d, s).sample = d.sample /\ Say(d, s).want = d.want
           /\ Say(d, s).partial = d.partial /\ Say(d, s).replies = d.replies \o s
<1>1. PICK r : r = d.replies \o s
  OBVIOUS
<1>2. Say(d, s) = [d EXCEPT !.replies = r]
  BY <1>1 DEF Say
<1> QED BY <1>1, <1>2 DEF DeviceType

\* The instrument e says s, and is then f: one thing, or nothing.
LEMMA Spoken ==
    ASSUME NEW d \in DeviceType, NEW e, NEW f \in DeviceType, NEW t \in HostType, NEW i, NEW s,
           i = t.messageIndex, Answers(payload, d, t), Taken(d, e, i, s),
           f.got = e.got, f.sample = e.sample, f.want = e.want, f.replies = d.replies \o s
    PROVE  /\ Answers(payload, f, t) /\ Sampling(payload, f, i)
           /\ d.got \subseteq f.got /\ f.got \subseteq 1 .. i
<1>1. s = <<>> \/ \E r \in ReplyType : s = <<r>> /\ Fits(payload, d, f, i, r)
  BY DEF Taken, Fits, Allowed
<1>2. Answers(payload, f, t)
  BY <1>1, SaidAnswers DEF Taken
<1>3. Sampling(payload, f, i)
  BY SamplingSame DEF Taken
<1> QED BY <1>2, <1>3 DEF Taken

\* The same behind a word that moves nothing.
Behind(w, s) == <<w>> \o s

LEMMA SpokenLater ==
    ASSUME NEW d \in DeviceType, NEW f \in DeviceType, NEW t \in HostType, NEW s,
           Answers(payload, d, t), Taken(d, f, t.messageIndex, s),
           NEW w \in ReplyType, Harmless(w), f.replies = d.replies \o Behind(w, s)
    PROVE  /\ Answers(payload, f, t) /\ Sampling(payload, f, t.messageIndex)
           /\ d.got \subseteq f.got /\ f.got \subseteq 1 .. t.messageIndex
<1>1. PICK a, b : a = d.replies /\ b = a \o <<w>>
  OBVIOUS
<1>2. /\ a \in Seq(ReplyType) /\ <<w>> \in Seq(ReplyType) /\ s \in Seq(ReplyType)
  <2>1. a \in Seq(ReplyType) /\ <<w>> \in Seq(ReplyType)
    BY <1>1 DEF DeviceType
  <2>2. s = <<>> \/ \E r \in ReplyType : s = <<r>>
    BY DEF Taken
  <2>3. CASE s = <<>>
    BY <2>1, <2>3, EmptySeq
  <2>4. CASE \E r \in ReplyType : s = <<r>>
    <3>1. PICK r \in ReplyType : s = <<r>>
      BY <2>4
    <3>2. <<r>> \in Seq(ReplyType)
      OBVIOUS
    <3> QED BY <2>1, <3>1, <3>2
  <2> QED BY <2>1, <2>2, <2>3, <2>4
<1>3. b \in Seq(ReplyType) /\ f.replies = b \o s
  <2>1. PICK v : v = <<w>>
    OBVIOUS
  <2>2. a \o (v \o s) = (a \o v) \o s
    BY <1>2, <2>1, ConcatAssociative
  <2>3. a \o v \in Seq(ReplyType)
    BY <1>2, <2>1, ConcatProperties
  <2> QED BY <1>1, <2>1, <2>2, <2>3 DEF Behind
<1>4. PICK g : g = [d EXCEPT !.replies = b]
  OBVIOUS
<1>5. g \in DeviceType /\ g.replies = b /\ g.got = d.got
  BY <1>3, <1>4 DEF DeviceType
<1>6. Answers(payload, g, t)
  <2>1. Fits(payload, d, g, t.messageIndex, w)
    BY HarmlessFits
  <2>2. g.replies = d.replies \o <<w>> /\ d.got \subseteq g.got
    BY <1>1, <1>5
  <2> QED BY <1>5, <2>1, <2>2, SaidAnswers
<1>7. Taken(g, f, t.messageIndex, s)
  BY <1>5 DEF Taken, Fits, Allowed
<1>8. /\ Answers(payload, f, t) /\ Sampling(payload, f, t.messageIndex)
      /\ g.got \subseteq f.got /\ f.got \subseteq 1 .. t.messageIndex
  BY <1>3, <1>5, <1>6, <1>7, Spoken
<1> QED BY <1>5, <1>8

\* A message of the transfer under way, whatever fault the instrument shows.
LEMMA Heard ==
    ASSUME "duplicate" \notin Faults, PacketModulus > 1,
           NEW d, Sound(d), NEW m \in HalfType, m # Eox, m.kind # "SdsCancel",
           NEW f \in DeviceType, NEW t \in HostType, NEW i \in Nat \ {0}, i = t.messageIndex,
           Answers(payload, d, t), Sampling(payload, d, i), d.got \subseteq 1 .. i,
           Command(m) \/ (OfPayload(m) /\ m.at <= i),
           m.kind \in SdsKinds =>
                /\ OfPayload(m) /\ m.at = i /\ m.packet = payload[i].packet
                /\ m.kind = "SdsPacket" => payload[i].packet \in 0 .. PacketModulus - 1,
           \/ f = Say(Take(d, m).to, Take(d, m).reply)
           \/ \E fault \in Faults : CanShow(d, m, fault) /\ f = Faulty(d, m, fault)
    PROVE  /\ Answers(payload, f, t) /\ Sampling(payload, f, i)
           /\ d.got \subseteq f.got /\ f.got \subseteq 1 .. i
           /\ OfPayload(m) /\ m.kind \notin SdsKinds => m.at \in f.got
<1>1. PICK x, e : x = Take(d, m) /\ e = x.to
  OBVIOUS
<1>2. d \in DeviceType /\ e \in DeviceType /\ d.replies \in Seq(ReplyType)
  BY <1>1, TakeFacts DEF Sound, DeviceType
<1>3. e.replies = d.replies
  BY <1>1, <1>2, TakeKeeps
<1>4. Taken(d, e, i, x.reply)
  <2>1. CASE m.kind \notin SdsKinds
    BY <1>1, <1>2, <2>1, TakenQuiet
  <2>2. CASE m.kind = "SdsHeader"
    BY <1>1, <1>2, <2>2, TakenHeader DEF SdsKinds
  <2>3. CASE m.kind = "SdsPacket"
    BY <1>1, <1>2, <2>3, TakenPacket DEF SdsKinds
  <2> QED BY <2>1, <2>2, <2>3 DEF SdsKinds
\* A message that has no answer only arrives.
<1>5. ASSUME m.kind \notin SdsKinds, OfPayload(m) PROVE m.at \in e.got /\ x.reply = <<>>
  BY <1>1, <1>2, <1>5, TakenQuiet
<1>6. ASSUME NEW s, f = Say(e, s), Taken(d, e, i, s)
      PROVE  /\ Answers(payload, f, t) /\ Sampling(payload, f, i) /\ f.got = e.got
             /\ d.got \subseteq f.got /\ f.got \subseteq 1 .. i
  <2>1. /\ f.got = e.got /\ f.sample = e.sample /\ f.want = e.want
        /\ f.replies = d.replies \o s
    <3>1. /\ Say(e, s).got = e.got /\ Say(e, s).sample = e.sample
          /\ Say(e, s).want = e.want /\ Say(e, s).replies = e.replies \o s
      BY <1>2, SayFields
    <3> QED BY <1>3, <1>6, <3>1
  <2> QED BY <1>2, <1>6, <2>1, Spoken
<1>7. ASSUME NEW g \in DeviceType, g.got = d.got, Sampling(payload, g, i), g.replies = d.replies,
             NEW r \in ReplyType, Fits(payload, d, d, i, r), f = Say(g, <<r>>)
      PROVE  /\ Answers(payload, f, t) /\ Sampling(payload, f, i)
             /\ d.got \subseteq f.got /\ f.got \subseteq 1 .. i
  <2>1. Taken(d, g, i, <<r>>)
    BY <1>7 DEF Taken, Fits, Allowed
  <2>2. /\ f.got = g.got /\ f.sample = g.sample /\ f.want = g.want
        /\ f.replies = d.replies \o <<r>>
    BY <1>7, SayFields
  <2> QED BY <1>2, <2>1, <2>2, Spoken
<1>8. CASE f = Say(x.to, x.reply)
  BY <1>1, <1>4, <1>5, <1>6, <1>8
<1>9. CASE x.reply # <<>> /\ f = x.to
  <2>1. Taken(d, e, i, <<>>)
    BY <1>4 DEF Taken
  <2>2. f.replies = d.replies \o <<>>
    BY <1>1, <1>2, <1>3, <1>9, ConcatEmptySeq
  <2>3. /\ Answers(payload, f, t) /\ Sampling(payload, f, i)
        /\ d.got \subseteq f.got /\ f.got \subseteq 1 .. i
    BY <1>1, <1>2, <1>9, <2>1, <2>2, Spoken
  <2> QED BY <1>1, <1>5, <1>9, <2>3
<1>10. CASE /\ m.kind \in {"SpeedRequest", "FirstTest"}
            /\ f = Say(x.to, <<[x.reply[1] EXCEPT !.good = FALSE]>>)
  <2>1. m.kind \notin MessageKinds
    BY <1>10 DEF MessageKinds, SdsKinds
  <2>2. PICK r \in ReplyType : x.reply = <<r>>
    BY <1>1, <1>10, TakeFacts
  <2>3. Harmless(r)
    <3>1. m.kind \notin SdsKinds
      BY <2>1 DEF MessageKinds
    <3>2. \A n \in DOMAIN x.reply : Harmless(x.reply[n])
      BY <1>1, <1>2, <3>1, TakenQuiet
    <3> QED BY <2>2, <3>2
  <2>4. PICK b : b = [r EXCEPT !.good = FALSE]
    OBVIOUS
  <2>5. b \in ReplyType /\ Harmless(b)
    BY <2>3, <2>4 DEF ReplyType, Harmless
  <2>6. f = Say(e, <<b>>)
    BY <1>1, <1>10, <2>2, <2>4
  <2>7. Taken(d, e, i, <<b>>)
    BY <1>4, <2>5, HarmlessFits DEF Taken
  <2> QED BY <1>6, <2>1, <2>6, <2>7 DEF OfPayload
<1>11. CASE /\ x.reply # <<>> \/ m.kind \in SdsKinds
            /\ \E w \in ReplyType : Harmless(w) /\ f = Say(x.to, <<w>> \o x.reply)
  <2>1. PICK w \in ReplyType : Harmless(w) /\ f = Say(e, <<w>> \o x.reply)
    BY <1>1, <1>11
  <2>2. PICK s : s = Behind(w, x.reply)
    OBVIOUS
  <2>3. f = Say(e, s)
    BY <2>1, <2>2 DEF Behind
  <2>4. /\ f.got = e.got /\ f.sample = e.sample /\ f.want = e.want
        /\ f.replies = d.replies \o s
    <3>1. /\ Say(e, s).got = e.got /\ Say(e, s).sample = e.sample
          /\ Say(e, s).want = e.want /\ Say(e, s).replies = e.replies \o s
      BY <1>2, SayFields
    <3> QED BY <1>3, <2>3, <3>1
  <2>5. /\ Answers(payload, f, t) /\ Sampling(payload, f, i)
        /\ d.got \subseteq f.got /\ f.got \subseteq 1 .. i
    <3>1. w \in ReplyType /\ Harmless(w) /\ f.replies = d.replies \o Behind(w, x.reply)
      BY <2>1, <2>2, <2>4
    <3>2. Taken(d, f, t.messageIndex, x.reply)
      <4>1. Sampling(payload, e, i)
        BY <1>4 DEF Taken
      <4>2. Sampling(payload, f, i)
        BY <2>4, <4>1, SamplingSame
      <4> QED BY <1>4, <2>4, <4>2 DEF Taken, Fits, Allowed
    <3> QED BY <1>2, <3>1, <3>2, SpokenLater
  <2> QED BY <1>5, <1>11, <2>5
<1>12. CASE m.kind \in SdsKinds /\ f = d
  BY <1>12
<1>13. CASE /\ m.kind = "SdsPacket" /\ d.sample # 0
            /\ f = Say(d, <<Reply("NAK", Expected(d))>>)
  <2>1. m.kind \in SdsKinds
    BY <1>13 DEF SdsKinds
  <2>2. /\ Reply("NAK", Expected(d)) \in ReplyType
        /\ Fits(payload, d, d, i, Reply("NAK", Expected(d)))
    <3>1. i \in 1 .. Len(payload) /\ payload[i].kind = "SdsPacket"
      BY <1>13, <2>1 DEF OfPayload
    <3> QED BY <1>2, <1>13, <2>1, <3>1, RefusalFits
  <2> QED BY <1>2, <1>7, <1>13, <2>1, <2>2
<1>14. CASE /\ m.kind = "SdsPacket" \/ (m.kind = "SdsHeader" /\ d.sample = 0)
            /\ f = Say([d EXCEPT !.sample = 0], <<Reply("CANCEL", m.packet)>>)
  <2>1. m.kind \in SdsKinds /\ payload[i].kind = m.kind
    BY <1>14 DEF SdsKinds, OfPayload
  <2>2. PICK g : g = [d EXCEPT !.sample = 0]
    OBVIOUS
  <2>3. g \in DeviceType /\ g.got = d.got /\ g.sample = 0 /\ g.replies = d.replies
    BY <1>2, <2>2 DEF DeviceType
  <2>4. Sampling(payload, g, i)
    BY <1>14, <2>1, <2>3 DEF Sampling
  <2>5. PICK r : r = Reply("CANCEL", m.packet)
    OBVIOUS
  <2>6. r \in ReplyType /\ Fits(payload, d, d, i, r)
    <3>1. m.packet \in Nat
      BY DEF HalfType
    <3>2. r \in ReplyType /\ Harmless(r)
      BY <2>5, <3>1, ReplyTypes DEF Harmless, Reply, SdsReplies
    <3> QED BY <3>2, HarmlessFits
  <2> QED BY <1>7, <1>14, <2>1, <2>2, <2>3, <2>4, <2>5, <2>6
<1>15. Left(d, m, x, f)
  BY <1>1, <1>2, Outcomes
<1> QED BY <1>8, <1>9, <1>10, <1>11, <1>12, <1>13, <1>14, <1>15 DEF Left

\* No message undoes what arrived, whatever fault the instrument shows.
LEMMA GotGrows ==
    ASSUME NEW c, NEW d, Sound(d), d.got = c.got, NEW m \in HalfType, m # Eox,
           Command(m) \/ OfPayload(m), NEW f,
           \/ f = Say(Take(d, m).to, Take(d, m).reply)
           \/ \E fault \in Faults : CanShow(d, m, fault) /\ f = Faulty(d, m, fault)
    PROVE  c.got \subseteq f.got
<1>1. PICK e : e = Take(d, m).to
  OBVIOUS
<1>2. e \in DeviceType /\ d \in DeviceType /\ d.got \subseteq e.got
  BY <1>1, TakeFacts, TakeKeeps DEF Sound
<1>3. PICK g : g = [d EXCEPT !.sample = 0]
  OBVIOUS
<1>4. g \in DeviceType /\ g.got = d.got
  BY <1>2, <1>3 DEF DeviceType
<1>5. /\ \A s : Say(e, s).got = e.got /\ Say(d, s).got = d.got /\ Say(g, s).got = g.got
  BY <1>2, <1>4, SayFields
<1>6. CASE f = Say(Take(d, m).to, Take(d, m).reply)
  BY <1>1, <1>2, <1>5, <1>6
<1>7. CASE \E fault \in Faults : CanShow(d, m, fault) /\ f = Faulty(d, m, fault)
  <2>1. PICK fault \in Faults : f = Faulty(d, m, fault)
    BY <1>7
  <2>2. \/ f \in {d, e} \/ \E s : f \in {Say(e, s), Say(d, s), Say(g, s)}
    BY <1>1, <1>3, <2>1, FaultsAssumption DEF Faulty
  <2> QED BY <1>2, <1>4, <1>5, <2>2
<1> QED BY <1>6, <1>7

\* The half that ends the message is the first of the queue.
LEMMA AckDeviceMessage ==
    ASSUME "duplicate" \notin Faults, PacketModulus > 1, TransferInv, AckInv, DeviceMessage
    PROVE  AckInv'
<1>1. /\ port # <<>> /\ port' = Tail(port) /\ Completes(device, Head(port))
      /\ UNCHANGED <<host, payload, transfers>>
  BY DEF DeviceMessage
<1>2. PICK p, c, d, f, t, q, m, i :
        /\ p = payload /\ c = device /\ d = [device EXCEPT !.partial = NoHalf] /\ f = device'
        /\ t = host /\ q = port /\ m = Head(port) /\ i = host.messageIndex
  OBVIOUS
<1>3. /\ t \in HostType /\ c \in DeviceType /\ q \in Seq(HalfType) /\ q # <<>>
      /\ t.phase # "Idle" /\ t.state # "Complete" /\ transfers # 0
      /\ q[1] = m /\ 1 \in DOMAIN q /\ m \in HalfType /\ i \in Nat \ {0}
      /\ Live(t) <=> t.phase # "DrainCancellation"
      /\ t.model \in Models /\ payload \in Payloads[t.model]
  BY <1>1, <1>2, TakenFrom
<1>4. (Command(m) \/ OfPayload(m)) /\ m # Eox /\ m.part = 2
  BY <1>1, <1>2, NextTaken DEF Completes
<1>5. Sound(d) /\ d.got = c.got /\ d.sample = c.sample /\ d.want = c.want
      /\ d.replies = c.replies /\ d \in DeviceType
  <2>1. c \in DeviceType /\ c.got \subseteq 1 .. Len(payload)
    BY <1>2, LoadedHost DEF DeviceInv
  <2>2. NoHalf \in HalfType
    BY DEF NoHalf, Half, HalfType
  <2> QED BY <1>2, <2>1, <2>2 DEF Sound, DeviceType
<1>6. \/ f = Say(Take(d, m).to, Take(d, m).reply)
      \/ \E fault \in Faults : CanShow(d, m, fault) /\ f = Faulty(d, m, fault)
  BY <1>2 DEF DeviceMessage
<1>7. f \in DeviceType
  <2>1. TransferInv'
    BY InvDeviceMessage
  <2> QED BY <1>2, <2>1 DEF TransferInv, DeviceInv
<1>8. Track(p, c, t, q)
  BY <1>2 DEF AckInv
<1>9. c.got \subseteq f.got
  BY <1>3, <1>4, <1>5, <1>6, <1>7, GotGrows
<1>10. Received(p, f, t)
  BY <1>3, <1>8, <1>9 DEF Track, Received
<1>11. ASSUME Live(t)
       PROVE  Answers(p, f, t) /\ Sampling(p, f, i) /\ Sent(p, f, t, Tail(q))
  <2>1. Answers(p, c, t) /\ Sampling(p, c, i) /\ Sent(p, c, t, q) /\ c.got \subseteq 1 .. i
    BY <1>2, <1>8, <1>11 DEF Track, Sent
  <2>2. Answers(payload, d, t) /\ Sampling(payload, d, i)
    <3>1. Answers(payload, d, t)
      BY <1>2, <1>5, <2>1 DEF Answers, Verdicts, Allowed
    <3> QED BY <1>2, <1>5, <2>1, <3>1, SamplingSame
  <2>3. m.kind # "SdsCancel"
    BY <1>3, <2>1 DEF Sent, NoCancel
  <2>4. /\ m.at # 0 => m.at <= i /\ m.packet = p[m.at].packet
        /\ m.kind \in SdsKinds => m.at = i
    <3>1. m.at # 0 => m.at <= i /\ m.packet = p[m.at].packet
      BY <1>2, <1>3, <2>1 DEF Sent
    <3>2. m.kind \in SdsKinds => m.at = i
      BY <1>2, <1>3, <1>11, LoadedHost DEF Stage, Queued
    <3> QED BY <3>1, <3>2
  <2>5. OfPayload(m) => m.at # 0 /\ m.at \in Nat
    BY DEF OfPayload
  <2>6. m.kind \in SdsKinds => OfPayload(m)
    BY <1>4 DEF Command, Commands, SdsKinds, Eox, Half
  <2>7. m.kind \in SdsKinds =>
            /\ OfPayload(m) /\ m.at = i /\ m.packet = payload[i].packet
            /\ m.kind = "SdsPacket" => payload[i].packet \in 0 .. PacketModulus - 1
    <3> SUFFICES ASSUME m.kind \in SdsKinds
                 PROVE  /\ OfPayload(m) /\ m.at = i /\ m.packet = payload[i].packet
                        /\ m.kind = "SdsPacket" => payload[i].packet \in 0 .. PacketModulus - 1
      OBVIOUS
    <3>1. OfPayload(m) /\ m.at = i /\ m.packet = payload[i].packet
      BY <1>2, <2>4, <2>5, <2>6
    <3>2. i \in 1 .. Len(payload) /\ payload[i].kind = m.kind
      BY <3>1 DEF OfPayload
    <3> QED BY <1>3, <3>1, <3>2, PayloadFacts
  <2>8. Command(m) \/ (OfPayload(m) /\ m.at <= i)
    BY <1>4, <2>4, <2>5
  <2>9. /\ Answers(payload, f, t) /\ Sampling(payload, f, i)
        /\ d.got \subseteq f.got /\ f.got \subseteq 1 .. i
        /\ OfPayload(m) /\ m.kind \notin SdsKinds => m.at \in f.got
    <3>1. /\ Sound(d) /\ m \in HalfType /\ m # Eox /\ m.kind # "SdsCancel" /\ f \in DeviceType
          /\ t \in HostType /\ i \in Nat \ {0} /\ i = t.messageIndex
      BY <1>2, <1>3, <1>4, <1>5, <1>7, <2>3
    <3>2. Answers(payload, d, t) /\ Sampling(payload, d, i) /\ d.got \subseteq 1 .. i
      BY <1>5, <2>1, <2>2
    <3> QED BY <1>6, <2>7, <2>8, <3>1, <3>2, Heard
  <2>10. m.at \in 1 .. i - 1 => m.at \in f.got
    <3> SUFFICES ASSUME m.at \in 1 .. i - 1 PROVE m.at \in f.got
      OBVIOUS
    <3>1. m.at # 0 /\ m.at # i
      BY <1>3
    <3>2. OfPayload(m)
      BY <1>4, <3>1 DEF Command
    <3> QED BY <2>4, <2>9, <3>1, <3>2
  <2>11. q[1].part # 1
    BY <1>3, <1>4
  <2>12. Sent(p, f, t, Tail(q))
    BY <1>2, <1>3, <1>5, <2>1, <2>9, <2>10, <2>11, SentTaken
  <2> QED BY <1>2, <2>9, <2>12
<1>12. Track(payload', device', host', port')
  <2>1. Track(p, f, t, Tail(q))
    BY <1>2, <1>10, <1>11 DEF Track
  <2> QED BY <1>1, <1>2, <2>1
<1> QED BY <1>1, <1>3, <1>12 DEF AckInv

LEMMA AckInit == Init => AckInv
<1> SUFFICES ASSUME Init PROVE AckInv
  OBVIOUS
<1>1. /\ host.phase = "Idle" /\ host.state = "Idle" /\ port = <<>> /\ device = NewDevice
  BY DEF Init, Idle
<1>2. Track(payload, device, host, port)
  BY <1>1 DEF Track, Live, GivenUp, Received
<1> QED BY <1>1, <1>2 DEF AckInv, Fresh

\* From the second transfer on: it starts once the instrument has nothing left to say.
StartsQuiet == [][Start /\ transfers # 0 => Quiet]_vars

LEMMA AckNext ==
    ASSUME "duplicate" \notin Faults, PacketModulus > 1
    PROVE  TransferInv /\ AckInv /\ [Next]_vars /\ [Start /\ transfers # 0 => Quiet]_vars => AckInv'
<1> SUFFICES ASSUME TransferInv, AckInv, [Next]_vars, [Start /\ transfers # 0 => Quiet]_vars
             PROVE  AckInv'
  OBVIOUS
<1>1. CASE UNCHANGED vars
  BY <1>1, AckSame DEF vars
<1>2. CASE Start /\ (transfers # 0 => Quiet)
  BY <1>2, AckStart
<1>3. CASE Cancel
  BY <1>3, AckCancel
<1>4. CASE RetirePayload
  BY <1>4, AckRetirePayload
<1>5. CASE \E ticks \in {0, 1}, pump \in BOOLEAN : Service(ticks, pump)
  BY <1>5, AckService
<1>6. CASE ShowReceiveStep
  BY <1>6, AckSame DEF ShowReceiveStep, counters
<1>7. CASE ResumeReceiveMode
  BY <1>7, AckResumeReceiveMode
<1>8. CASE DeviceByte
  BY <1>8, AckDeviceByte
<1>9. CASE DeviceMessage
  BY <1>9, AckDeviceMessage
<1>10. CASE DeviceReply
  BY <1>10, AckDeviceReply
<1> QED BY <1>1, <1>2, <1>3, <1>4, <1>5, <1>6, <1>7, <1>8, <1>9, <1>10 DEF Next

LEMMA AckHolds ==
    ASSUME "duplicate" \notin Faults, PacketModulus > 1
    PROVE  Spec /\ StartsQuiet => [](TransferInv /\ AckInv)
<1>1. Init => TransferInv /\ AckInv
  BY InvInit, AckInit
<1>2. /\ TransferInv /\ AckInv /\ [Next]_vars /\ [Start /\ transfers # 0 => Quiet]_vars
      => (TransferInv /\ AckInv)'
  BY InvNext, AckNext
<1> QED BY <1>1, <1>2, PTL DEF Spec, StartsQuiet

\* "ACK means received" (mdturbomidi.cpp:349): serviceSds() takes the first response that
\* speaks of the packet and discards those before it, retries with the same packet and takes a
\* NAK for the next one as an acknowledgement.  Whatever is lost, corrupted, refused, delayed
\* by a WAIT, cancelled or late, every sample message it has moved past is one the instrument
\* took.  Packet numbers may wrap in a sample of any length, so long as two in a row differ
\* (the code's modulus is 128).  Two things are assumed of the instrument, which the code can
\* not tell from an answer: it gives no reply twice, and when a later transfer starts it has
\* nothing left to say of the one before.
THEOREM AcknowledgedReceived ==
    ASSUME "duplicate" \notin Faults, PacketModulus > 1
    PROVE  Spec /\ StartsQuiet => []AcknowledgedMeansReceived
<1>1. TransferInv /\ AckInv => AcknowledgedMeansReceived
  <2> SUFFICES ASSUME TransferInv, AckInv, OwnsMidiWire, NEW j \in 1 .. host.messageIndex - 1,
                      payload[j].kind \in SdsKinds
               PROVE  j \in device.got
    BY DEF AcknowledgedMeansReceived
  <2>1. host.phase # "Idle"
    BY LoadedHost
  <2> QED BY <2>1 DEF AckInv, Track, Received
<1> QED BY <1>1, AckHolds, PTL

\* The end of service() (mdturbomidi.cpp): a transfer is reported complete once the last
\* message was admitted and the receive queue has drained.  Then the instrument has taken every
\* message of the file whole, the sample ones because they were acknowledged, the others
\* because nothing admitted is lost on the way.  The assumptions are those above.
THEOREM CompleteDelivered ==
    ASSUME "duplicate" \notin Faults, PacketModulus > 1
    PROVE  Spec /\ StartsQuiet => []CompleteMeansDelivered
<1>1. TransferInv /\ AckInv => CompleteMeansDelivered
  BY DEF AckInv, Track, Received, CompleteMeansDelivered
<1> QED BY <1>1, AckHolds, PTL
=============================================================================
