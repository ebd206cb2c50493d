---------------------------- MODULE TurboTransfer ----------------------------
(***************************************************************************)
(* md::TurboMidiTransfer (mdLib/mdturbomidi.{h,cpp}): sends a SysEx file   *)
(* to the emulated instrument.  It negotiates a faster link, pumps the     *)
(* payload into the UART's receive queue, runs the Sample Dump handshake   *)
(* (one unacknowledged message, retries, WAIT), pauses where the user must *)
(* put the instrument into a receive screen, and can be cancelled.         *)
(*                                                                         *)
(* A message is two halves, so that it can be cut in the middle; contents  *)
(* are the message's place in the payload.  Pacing is a choice: a call of  *)
(* service() admits one half or none.  Time is a count of ticks: every     *)
(* deadline of a phase is PhaseLimit ticks, the one of a WAIT WaitLimit.   *)
(* The calls are serialized by the plug-in's lock, so each is one step.    *)
(*                                                                         *)
(* The instrument is external.  Its Sample Dump behaviour is what the      *)
(* code's comments and mdLibTest/sdsFirmwareTest.cpp record of MD 1.63,    *)
(* its faults are those mdLibTest/sdsFaultWire.h and sdsTransferTest.cpp   *)
(* inject.                                                                 *)
(***************************************************************************)
EXTENDS Integers, Sequences, FiniteSets, SequencesExt

CONSTANTS
    Models,             \* machines to check, "Machinedrum" and "Monomachine"
    Payloads,           \* for each machine the files a transfer may send, as parsed
    PacketModulus,      \* packet numbers wrap here (128)
    MaxRetries,         \* retries of one message before giving up (3)
    ResponseCapacity,   \* m_responses.size() (8)
    PortCapacity,       \* halves the receive queue holds
    PhaseLimit,         \* ticks a phase waits before its deadline
    WaitLimit,          \* ticks of WaitSds before a WAIT's deadline
    LateReplies,        \* TRUE: a reply may come after its deadline
    Faults,             \* kinds of fault the instrument may show
    MaxFaults,          \* bound: faults in a behaviour
    MaxTransfers,       \* bound: calls of start()
    MaxCancels          \* bound: calls of cancel()

SdsKinds == {"SdsHeader", "SdsPacket"}
MessageKinds == SdsKinds \cup {"UserDump", "DigiPro", "SampleName"}

Message == [kind : MessageKinds, packet : Nat, last : BOOLEAN]

\* The packets of the sample message i belongs to that come before i.
PacketsBefore(p, i) ==
    {j \in 1 .. i - 1 : /\ p[j].kind = "SdsPacket"
                        /\ \A k \in j .. i : p[k].kind # "SdsHeader"}

\* What parseMidiSysexFile accepts: a sample is a header, perhaps a name, and
\* packets numbered from zero, and nothing else comes inside one.
WellFormed(p, model) ==
    /\ p # <<>>
    /\ \A i \in 1 .. Len(p) :
        /\ p[i].kind = "SdsHeader" =>
            /\ i < Len(p)
            /\ p[i + 1].kind \in {"SdsPacket", "SampleName"}
            /\ p[i + 1].kind = "SampleName" =>
                i + 1 < Len(p) /\ p[i + 2].kind = "SdsPacket"
        /\ p[i].kind = "SdsPacket" =>
            /\ i > 1 /\ p[i - 1].kind \in SdsKinds \cup {"SampleName"}
            /\ p[i - 1].kind = "SampleName" => i > 2 /\ p[i - 2].kind = "SdsHeader"
            /\ p[i].packet = Cardinality(PacketsBefore(p, i)) % PacketModulus
            /\ ~p[i].last => i < Len(p) /\ p[i + 1].kind = "SdsPacket"
            /\ p[i].last => i = Len(p) \/ p[i + 1].kind # "SdsPacket"
        /\ p[i].last => p[i].kind = "SdsPacket"
    /\ model = "Monomachine" => \A i \in 1 .. Len(p) : p[i].kind \in {"UserDump", "DigiPro"}

ASSUME ModelsAssumption == Models \subseteq {"Machinedrum", "Monomachine"}
ASSUME PayloadsAssumption ==
    \A model \in Models : \A p \in Payloads[model] : p \in Seq(Message) /\ WellFormed(p, model)
ASSUME LimitsAssumption ==
    /\ PacketModulus \in Nat \ {0} /\ MaxRetries \in Nat
    /\ ResponseCapacity \in Nat \ {0} /\ PortCapacity \in Nat \ {0}
    /\ PhaseLimit \in Nat \ {0} /\ WaitLimit \in Nat \ {0}
ASSUME FaultsAssumption ==
    /\ LateReplies \in BOOLEAN /\ MaxFaults \in Nat
    /\ Faults \subseteq {"lose", "miss", "reject", "wait", "cancel", "duplicate", "bad", "noise"}

VARIABLES
    host,       \* the members of TurboMidiTransfer
    payload,    \* the file being sent, m_payload and m_messages
    port,       \* halves in the UART's receive queue
    device,     \* the instrument
    seen,       \* the receive step the editor last showed
    faults, transfers, cancels,     \* counters the bounds apply to
    cancelled,  \* history: a cancel() was accepted in this transfer
    shown       \* history: every receive step the editor showed

vars == <<host, payload, port, device, seen, faults, transfers, cancels, cancelled, shown>>
counters == <<faults, transfers, cancels>>

NoStep == <<0, 0>>
Half(kind, at, packet, part) == [kind |-> kind, at |-> at, packet |-> packet, part |-> part]
Whole(kind, packet) == <<Half(kind, 0, packet, 1), Half(kind, 0, packet, 2)>>
Eox == Half("Eox", 0, 0, 2)
NoHalf == Half("None", 0, 0, 0)
Reply(kind, packet) == [kind |-> kind, packet |-> packet, good |-> TRUE]
SdsReplies == {"ACK", "NAK", "WAIT", "CANCEL"}

Smaller(a, b) == IF a <= b THEN a ELSE b
Size == 2 * Len(payload)
Offset(i) == 2 * (i - 1)        \* messageIndex counts from 1
Current(t) == payload[t.messageIndex]

----------------------------------------------------------------------------
(***************************************************************************)
(* start(), cancel(), retirePayload() and abortPayload().                  *)
(***************************************************************************)
OwningStates == {"Queued", "NegotiatingTurbo", "Sending", "WaitingForDevice",
                 "WaitingForReceiveMode", "Retrying", "Cancelling"}
OwnsMidiWire == host.state \in OwningStates

\* A prepared file is for the machine it is sent to, so the model never changes.
Idle(model) ==
    [phase |-> "Idle", state |-> "Idle", id |-> 0, held |-> FALSE, model |-> model,
     messageIndex |-> 1, payloadCursor |-> 0, sdsActive |-> FALSE,
     sdsWaiting |-> FALSE, sdsPacket |-> 0, packetRetries |-> 0,
     acknowledgedSamples |-> 0, receiveKind |-> "UserDump", error |-> "None",
     captureTransmit |-> FALSE, phaseTime |-> 0, sdsWaitTime |-> 0,
     wire |-> <<>>, transmit |-> <<>>, responses |-> <<>>]

NewDevice == [partial |-> NoHalf, got |-> {}, sample |-> 0, want |-> 0, replies |-> <<>>]

Init ==
    /\ host \in {Idle(model) : model \in Models}
    /\ payload = <<>> /\ port = <<>> /\ device = NewDevice
    /\ seen = NoStep /\ shown = {} /\ cancelled = FALSE
    /\ faults = 0 /\ transfers = 0 /\ cancels = 0

\* Hardware::startMidiSysexTransfer: the editor starts a file.
Start ==
    /\ ~OwnsMidiWire /\ transfers < MaxTransfers
    /\ transfers' = transfers + 1
    /\ payload' \in Payloads[host.model]
    /\ host' = [Idle(host.model) EXCEPT !.phase = "BeginNegotiation", !.state = "Queued",
                                      !.id = transfers + 1, !.held = TRUE,
                                      !.receiveKind = payload'[1].kind]
    /\ device' = [device EXCEPT !.got = {}]
    /\ cancelled' = FALSE
    /\ UNCHANGED <<port, seen, faults, cancels, shown>>

\* Mutant: the cancellation does not end the message that was cut.
FarewellNoEox(t) == IF t.sdsActive THEN Whole("SdsCancel", t.sdsPacket) ELSE <<>>

\* An end of message behind whatever prefix the port holds, and in a sample
\* transfer the Sample Dump cancellation.
Farewell(t) == <<Eox>> \o (IF t.sdsActive THEN Whole("SdsCancel", t.sdsPacket) ELSE <<>>)

AbortPayload(t, error) ==
    [t EXCEPT !.error = error, !.captureTransmit = FALSE, !.transmit = <<>>,
              !.responses = <<>>, !.phaseTime = 0, !.wire = Farewell(t),
              !.phase = "DrainCancellation", !.state = "Cancelling"]

\* Mutant: a cancel() keeps the error of an abort under way.
CancelKeepError ==
    /\ OwnsMidiWire /\ cancels < MaxCancels
    /\ cancels' = cancels + 1
    /\ host' = [AbortPayload(host, host.error) EXCEPT !.held = FALSE, !.payloadCursor = 0]
    /\ cancelled' = TRUE
    /\ UNCHANGED <<payload, port, device, seen, faults, transfers, shown>>

Cancel ==
    /\ OwnsMidiWire /\ cancels < MaxCancels
    /\ cancels' = cancels + 1
    /\ host' = [AbortPayload(host, "None") EXCEPT !.held = FALSE, !.payloadCursor = 0]
    /\ cancelled' = TRUE
    /\ UNCHANGED <<payload, port, device, seen, faults, transfers, shown>>

RetirePayload ==
    /\ ~OwnsMidiWire /\ host.held
    /\ host' = [host EXCEPT !.held = FALSE, !.payloadCursor = 0]
    /\ UNCHANGED <<payload, port, device, seen, counters, cancelled, shown>>

----------------------------------------------------------------------------
(***************************************************************************)
(* The replies: observeTransmitByte(), parseTransmitBytes(), takeResponse. *)
(***************************************************************************)
QueuedResponses(all) == SubSeq(all, 1, Smaller(Len(all), ResponseCapacity))

\* parseTransmitBytes() and service()'s overflow check: a reply that does not
\* fit the response queue ends a sample transfer.
ParseTransmit(t) ==
    LET all    == t.responses \o t.transmit
        parsed == [t EXCEPT !.transmit = <<>>, !.responses = QueuedResponses(all)]
    IN IF Len(all) > ResponseCapacity /\ t.sdsActive
       THEN AbortPayload(parsed, "ResponseOverflow") ELSE parsed

\* Every response up to the one taken is discarded.
From(responses, k) ==
    IF k = 0 THEN <<>> ELSE SubSeq(responses, k + 1, Len(responses))

----------------------------------------------------------------------------
(***************************************************************************)
(* The negotiation.                                                        *)
(***************************************************************************)
BeginPayload(t) ==
    [t EXCEPT !.phase = "Payload", !.phaseTime = 0, !.captureTransmit = TRUE,
              !.responses = <<>>, !.state = "Sending"]

FallBack(t, waitForPeerReset) ==
    LET quiet == [t EXCEPT !.captureTransmit = FALSE, !.wire = <<>>, !.responses = <<>>,
                           !.phaseTime = 0]
    IN IF waitForPeerReset THEN [quiet EXCEPT !.phase = "WaitFallbackReset"]
       ELSE BeginPayload(quiet)

\* What each wait expects, and what it sends next.
Answer == [WaitSpeedReport |-> "SpeedReport",
           WaitSpeedAcknowledgement |-> "SpeedAcknowledgement",
           WaitFirstTestResult |-> "FirstTestResult",
           WaitSecondTestResult |-> "SecondTestResult"]
NextCommand == [WaitSpeedReport |-> "SpeedNegotiation",
                WaitSpeedAcknowledgement |-> "FirstTest",
                WaitFirstTestResult |-> "SecondTest"]
SendPhase == [SpeedRequest |-> "SendSpeedRequest", SpeedNegotiation |-> "SendNegotiation",
              FirstTest |-> "SendFirstTest", SecondTest |-> "SendSecondTest"]
WaitPhase == [SendSpeedRequest |-> "WaitSpeedReport",
              SendNegotiation |-> "WaitSpeedAcknowledgement",
              SendFirstTest |-> "WaitFirstTestResult",
              SendSecondTest |-> "WaitSecondTestResult"]
LinkTests == {"WaitFirstTestResult", "WaitSecondTestResult"}

QueueMessage(t, command) ==
    [t EXCEPT !.wire = @ \o Whole(command, 0), !.phase = SendPhase[command], !.phaseTime = 0]

\* Only the speed report and the first test's echo are inspected.
Answered(t, good) ==
    IF ~good /\ t.phase \in {"WaitSpeedReport", "WaitFirstTestResult"}
    THEN FallBack(t, t.phase \in LinkTests)
    ELSE IF t.phase = "WaitSecondTestResult"
    THEN [t EXCEPT !.phase = "SettleLink", !.phaseTime = 0]
    ELSE QueueMessage(t, NextCommand[t.phase])

AwaitAnswer(t) ==
    LET k == SelectInSeq(t.responses, LAMBDA r : r.kind = Answer[t.phase])
        taken == [t EXCEPT !.responses = From(@, k)]
    IN IF k # 0 THEN Answered(taken, t.responses[k].good)
       ELSE IF t.phaseTime = PhaseLimit THEN FallBack(taken, t.phase \in LinkTests)
       ELSE taken

ServiceNegotiation(t) ==
    IF t.phase = "BeginNegotiation"
    THEN QueueMessage([t EXCEPT !.captureTransmit = TRUE, !.state = "NegotiatingTurbo"],
                      "SpeedRequest")
    ELSE IF t.phase \in DOMAIN Answer THEN AwaitAnswer(t)
    ELSE IF t.phase \in {"SettleLink", "WaitFallbackReset"} /\ t.phaseTime = PhaseLimit
    THEN BeginPayload(t)
    ELSE t

----------------------------------------------------------------------------
(***************************************************************************)
(* The Sample Dump handshake.                                              *)
(***************************************************************************)
\* The instrument answers a repeated packet whose ACK was lost with a NAK for
\* the next packet it wants.
RequestsNext(t, r) ==
    /\ r.kind = "NAK" /\ t.packetRetries > 0
    /\ Current(t).kind = "SdsPacket" /\ ~Current(t).last
    /\ r.packet = (t.sdsPacket + 1) % PacketModulus

\* takeSdsResponse(): the responses it does not skip.
ForThisPacket(t, r) ==
    /\ r.kind \in SdsReplies
    /\ r.packet = t.sdsPacket \/ RequestsNext(t, r)

\* Mutant: the payload is not wound back.
RewoundInPlace(t) == [t EXCEPT !.packetRetries = @ + 1]

Rewound(t) == [t EXCEPT !.packetRetries = @ + 1, !.payloadCursor = Offset(t.messageIndex)]

\* Mutant: one repetition more.
RetriesOverspent(t) == t.packetRetries > MaxRetries

RetriesSpent(t) == t.packetRetries >= MaxRetries

RetrySds(t) ==
    IF RetriesSpent(t) THEN AbortPayload(t, "RetryLimit")
    ELSE [Rewound(t) EXCEPT !.sdsWaiting = FALSE, !.sdsWaitTime = 0, !.phaseTime = 0,
                            !.responses = <<>>, !.phase = "Payload", !.state = "Retrying"]

\* Anything but another sample waits for the user after a sample.
NeedsReady(t) == t.messageIndex <= Len(payload) /\ Current(t).kind # "SdsHeader"

Acknowledged(t) ==
    LET finished == Current(t).last
        next == [t EXCEPT !.acknowledgedSamples = IF finished THEN @ + 1 ELSE @,
                          !.sdsActive = @ /\ ~finished, !.messageIndex = @ + 1,
                          !.sdsWaiting = FALSE, !.packetRetries = 0, !.sdsWaitTime = 0,
                          !.phase = "Payload", !.phaseTime = 0, !.responses = <<>>,
                          !.state = "Sending"]
    IN IF finished /\ NeedsReady(next)
       THEN [next EXCEPT !.phase = "WaitReceiveMode", !.state = "WaitingForReceiveMode"]
       ELSE next

\* Mutant: a WAIT has no deadline.
WaitOverNever(t) == FALSE

WaitOver(t) == t.sdsWaitTime = WaitLimit

\* Mutant: once a packet was repeated every NAK asks for the next one.
RefusesAtFirst(t, r) == r = Reply("NAK", t.sdsPacket) /\ t.packetRetries = 0

Refuses(t, r) == r = Reply("NAK", t.sdsPacket)

ServiceSds(t) ==
    LET first   == SelectInSeq(t.responses, LAMBDA r : ForThisPacket(t, r))
        k       == SelectInSeq(t.responses, LAMBDA r : ForThisPacket(t, r) /\ r.kind # "WAIT")
        verdict == t.responses[k]
        waits   == first # 0 /\ t.responses[first].kind = "WAIT"
        waited  == [t EXCEPT !.responses = <<>>, !.sdsWaiting = @ \/ waits]
    IN CASE k # 0 /\ verdict.kind = "CANCEL" -> AbortPayload(waited, "DeviceCancelled")
         [] k # 0 /\ Refuses(t, verdict) -> RetrySds(waited)
         [] k # 0 /\ verdict.kind # "CANCEL" /\ ~Refuses(t, verdict) -> Acknowledged(waited)
         [] k = 0 /\ waited.sdsWaiting /\ WaitOver(t) ->
                AbortPayload(waited, "ReplyTimedOut")
         [] k = 0 /\ ~waited.sdsWaiting /\ t.phaseTime = PhaseLimit -> RetrySds(waited)
         [] OTHER -> waited

----------------------------------------------------------------------------
(***************************************************************************)
(* pumpWire(): one half of a control message, or else of the payload.      *)
(***************************************************************************)
PortFull == Len(port) >= PortCapacity
PayloadLeft(t) == t.phase = "Payload" /\ t.payloadCursor < Size
AtMessageStart(t) == t.payloadCursor = Offset(t.messageIndex)

\* Mutant: a Monomachine file goes through in one piece.
NeedsOtherScreenNever(t) == FALSE

\* The receive screen must change first.
NeedsOtherScreen(t) ==
    AtMessageStart(t) /\ t.model = "Monomachine" /\ Current(t).kind # t.receiveKind

\* The message being started sets the handshake's state.
Opened(t) ==
    CASE AtMessageStart(t) /\ Current(t).kind = "SdsHeader" ->
            [t EXCEPT !.sdsActive = TRUE, !.sdsPacket = 0]
      [] AtMessageStart(t) /\ Current(t).kind = "SdsPacket" ->
            [t EXCEPT !.sdsPacket = Current(t).packet]
      [] OTHER -> t

\* Mutant: a header's answer is not awaited.
AwaitsAnswerNoHeader(t) == Current(t).kind = "SdsPacket"

AwaitsAnswer(t) == Current(t).kind \in SdsKinds

\* One more half admitted: a sample message ends in a wait for its answer.
Admitted(t) ==
    LET ends == t.payloadCursor + 1 = Offset(t.messageIndex + 1)
    IN [t EXCEPT !.payloadCursor = @ + 1,
                 !.phase = IF ends /\ AwaitsAnswer(t) THEN "DrainSds" ELSE @,
                 !.messageIndex = IF ends /\ ~AwaitsAnswer(t) THEN @ + 1 ELSE @]

NextHalf(t) ==
    Half(Current(t).kind, t.messageIndex, Current(t).packet,
         t.payloadCursor - Offset(t.messageIndex) + 1)

\* The host after a pump, and what it put into the port.
PumpWire(t) ==
    IF t.wire # <<>>
    THEN IF PortFull THEN [host |-> t, bytes |-> <<>>]
         ELSE [host |-> [t EXCEPT !.wire = Tail(@)], bytes |-> <<Head(t.wire)>>]
    ELSE IF ~PayloadLeft(t) THEN [host |-> t, bytes |-> <<>>]
    ELSE IF NeedsOtherScreen(t)
    THEN [host |-> [t EXCEPT !.phase = "DrainReceiveMode"], bytes |-> <<>>]
    ELSE IF PortFull THEN [host |-> Opened(t), bytes |-> <<>>]
    ELSE [host |-> Admitted(Opened(t)), bytes |-> <<NextHalf(t)>>]

----------------------------------------------------------------------------
(***************************************************************************)
(* The end of service(): the phases that wait for the port to drain.       *)
(***************************************************************************)
\* Mutant: the payload is complete once everything was admitted.
FinishedAtAdmission(t, queue) == TRUE

Finished(t, queue) == queue = <<>>

Drained(t, queue) ==
    CASE t.phase \in DOMAIN WaitPhase /\ t.wire = <<>> ->
            [t EXCEPT !.phase = WaitPhase[t.phase], !.phaseTime = 0]
      [] t.phase = "DrainSds" /\ queue = <<>> ->
            [t EXCEPT !.phase = "WaitSds", !.phaseTime = 0, !.state = "WaitingForDevice"]
      [] t.phase = "DrainReceiveMode" /\ queue = <<>> ->
            [t EXCEPT !.phase = "WaitReceiveMode", !.state = "WaitingForReceiveMode"]
      [] t.phase = "DrainPayload" \/ (t.phase = "Payload" /\ t.payloadCursor >= Size) ->
            IF ~Finished(t, queue) THEN [t EXCEPT !.phase = "DrainPayload"]
            ELSE [t EXCEPT !.phase = "Idle", !.state = "Complete", !.captureTransmit = FALSE]
      [] t.phase = "DrainCancellation" /\ t.wire = <<>> /\ queue = <<>> ->
            [t EXCEPT !.phase = "Idle",
                      !.state = IF t.error = "None" THEN "Cancelled" ELSE "Failed"]
      [] OTHER -> t

\* The phases whose deadline counts, and the two clocks.
TimedPhases == DOMAIN Answer \cup {"SettleLink", "WaitFallbackReset", "WaitSds"}
Elapsed(t, ticks) ==
    [t EXCEPT !.phaseTime = IF t.phase \in TimedPhases THEN Smaller(@ + ticks, PhaseLimit) ELSE @,
              !.sdsWaitTime = IF t.phase = "WaitSds" THEN Smaller(@ + ticks, WaitLimit) ELSE @]

\* Without LateReplies a deadline is long enough for the instrument to take
\* what is in the port and to answer, or to say that it needs longer.
MayElapse ==
    \/ LateReplies \/ host.sdsWaiting
    \/ port = <<>> /\ device.replies = <<>> /\ host.transmit = <<>>

\* service(): one phase is serviced, then the wire is pumped.
Service(ticks, pump) ==
    /\ OwnsMidiWire
    /\ ticks > 0 => MayElapse
    /\ \E t \in {Elapsed(ParseTransmit(host), ticks)} :
       \E serviced \in {IF t.phase = "WaitSds" THEN ServiceSds(t) ELSE ServiceNegotiation(t)} :
       \E pumped \in {IF pump THEN PumpWire(serviced) ELSE [host |-> serviced, bytes |-> <<>>]} :
            /\ port' = port \o pumped.bytes
            /\ host' = Drained(pumped.host, port \o pumped.bytes)
    /\ UNCHANGED <<payload, device, seen, counters, cancelled, shown>>

----------------------------------------------------------------------------
(***************************************************************************)
(* The user: the editor shows the receive step a transfer waits at, and a  *)
(* confirmation resumes the step that was shown.                           *)
(***************************************************************************)
ShowReceiveStep ==
    /\ host.state = "WaitingForReceiveMode"
    /\ seen' = <<host.id, host.messageIndex>>
    /\ shown' = shown \cup {seen'}
    /\ UNCHANGED <<host, payload, port, device, counters, cancelled>>

\* Mutant: the transfer's number is not compared.
ConfirmsAnyTransfer == seen[2] = host.messageIndex

\* The confirmation is for the transfer and the step that are waiting.
Confirms == seen = <<host.id, host.messageIndex>>

ResumeReceiveMode ==
    /\ seen # NoStep /\ host.phase = "WaitReceiveMode" /\ Confirms
    /\ host' = [host EXCEPT !.receiveKind = Current(host).kind,
                            !.phase = IF host.model = "Machinedrum" THEN "WaitFallbackReset"
                                      ELSE "Payload",
                            !.phaseTime = 0, !.state = "Sending"]
    /\ UNCHANGED <<payload, port, device, seen, counters, cancelled, shown>>

----------------------------------------------------------------------------
(***************************************************************************)
(* The instrument.  got is the set of messages of this transfer it took    *)
(* whole and in order, sample the header of the sample it is receiving,    *)
(* want the number of packets of it that it has.                           *)
(***************************************************************************)
Expected(d) == d.want % PacketModulus
Say(d, replies) == [d EXCEPT !.replies = @ \o replies]

\* What a message that arrived whole does, and the reply to it.
Take(d, m) ==
    CASE m.kind = "SdsHeader" /\ d.sample = 0 ->
            [to |-> [d EXCEPT !.got = @ \cup {m.at}, !.sample = m.at, !.want = 0],
             reply |-> <<Reply("ACK", 0)>>]
      \* MD 1.63 answers the repeated header of an open sample with WAIT.
      [] m.kind = "SdsHeader" /\ d.sample # 0 ->
            [to |-> d, reply |-> <<Reply("WAIT", 0)>>]
      [] m.kind = "SdsPacket" /\ d.sample # 0 /\ m.packet = Expected(d) ->
            [to |-> [d EXCEPT !.got = @ \cup {m.at}, !.want = @ + 1,
                              !.sample = IF payload[m.at].last THEN 0 ELSE @],
             reply |-> <<Reply("ACK", m.packet)>>]
      [] m.kind = "SdsPacket" /\ d.sample # 0 /\ m.packet # Expected(d) ->
            [to |-> d, reply |-> <<Reply("NAK", Expected(d))>>]
      [] m.kind = "SdsPacket" /\ d.sample = 0 -> [to |-> d, reply |-> <<>>]
      [] m.kind \in MessageKinds \ SdsKinds ->
            [to |-> [d EXCEPT !.got = @ \cup {m.at}], reply |-> <<>>]
      [] m.kind = "SdsCancel" -> [to |-> [d EXCEPT !.sample = 0], reply |-> <<>>]
      [] m.kind = "SpeedRequest" -> [to |-> d, reply |-> <<Reply("SpeedReport", 0)>>]
      [] m.kind = "SpeedNegotiation" -> [to |-> d, reply |-> <<Reply("SpeedAcknowledgement", 0)>>]
      [] m.kind = "FirstTest" -> [to |-> d, reply |-> <<Reply("FirstTestResult", 0)>>]
      [] m.kind = "SecondTest" -> [to |-> d, reply |-> <<Reply("SecondTestResult", 0)>>]

\* The faults: a reply is lost, repeated, malformed, preceded by a WAIT or by
\* an unrelated message; a sample message is missed, found corrupt, or
\* answered with a cancellation.
Faulty(d, m, fault) ==
    LET taken == Take(d, m) IN
    CASE fault = "lose" -> taken.to
      [] fault = "duplicate" -> Say(taken.to, taken.reply \o taken.reply)
      [] fault = "bad" -> Say(taken.to, <<[taken.reply[1] EXCEPT !.good = FALSE]>>)
      [] fault = "wait" -> Say(taken.to, <<Reply("WAIT", m.packet)>> \o taken.reply)
      [] fault = "noise" -> Say(taken.to, <<Reply("Other", 0)>> \o taken.reply)
      [] fault = "miss" -> d
      [] fault = "reject" -> Say(d, <<Reply("NAK", Expected(d))>>)
      [] fault = "cancel" -> Say([d EXCEPT !.sample = 0], <<Reply("CANCEL", m.packet)>>)

CanShow(d, m, fault) ==
    /\ fault \in {"lose", "duplicate", "bad", "noise"} => Take(d, m).reply # <<>>
    /\ fault \in {"miss", "wait", "cancel"} => m.kind \in SdsKinds
    /\ fault = "bad" => m.kind \in {"SpeedRequest", "FirstTest"}
    /\ fault = "reject" => m.kind = "SdsPacket" /\ d.sample # 0
    /\ fault = "cancel" => m.kind = "SdsPacket" \/ d.sample = 0

\* The message a half ends, or FALSE.
Completes(d, h) == h.part = 2 /\ h # Eox /\ d.partial = [h EXCEPT !.part = 1]

\* The instrument takes one half; a half that ends no message ends or starts one.
DeviceByte ==
    /\ port # <<>> /\ ~Completes(device, Head(port))
    /\ port' = Tail(port)
    /\ device' = [device EXCEPT !.partial = IF Head(port).part = 1 THEN Head(port) ELSE NoHalf]
    /\ UNCHANGED <<host, payload, seen, counters, cancelled, shown>>

DeviceMessage ==
    /\ port # <<>> /\ Completes(device, Head(port))
    /\ port' = Tail(port)
    /\ LET d == [device EXCEPT !.partial = NoHalf]
           m == Head(port)
       IN \/ /\ device' = Say(Take(d, m).to, Take(d, m).reply)
             /\ faults' = faults
          \/ /\ faults < MaxFaults /\ faults' = faults + 1
             /\ \E fault \in Faults :
                    CanShow(d, m, fault) /\ device' = Faulty(d, m, fault)
    /\ UNCHANGED <<host, payload, seen, transfers, cancels, cancelled, shown>>

\* A reply leaves the instrument: observeTransmitByte() drops it unless the
\* transfer is listening.
DeviceReply ==
    /\ device.replies # <<>>
    /\ device' = [device EXCEPT !.replies = Tail(@)]
    /\ host' = IF host.captureTransmit
               THEN [host EXCEPT !.transmit = Append(@, Head(device.replies))] ELSE host
    /\ UNCHANGED <<payload, port, seen, counters, cancelled, shown>>

Next ==
    \/ Start \/ Cancel \/ RetirePayload
    \/ \E ticks \in {0, 1}, pump \in BOOLEAN : Service(ticks, pump)
    \/ ShowReceiveStep \/ ResumeReceiveMode
    \/ DeviceByte \/ DeviceMessage \/ DeviceReply

\* The machine keeps running: service() is called after every instruction of
\* the processor and time passes with it, the instrument takes what it is sent
\* and sends what it has to say, and the user answers.
Fairness ==
    /\ WF_vars(\E ticks \in {0, 1} : Service(ticks, TRUE))
    /\ WF_vars(DeviceByte \/ DeviceMessage)
    /\ WF_vars(DeviceReply)
    /\ WF_vars(ShowReceiveStep \/ ResumeReceiveMode)

Spec == Init /\ [][Next]_vars
FairSpec == Spec /\ Fairness

----------------------------------------------------------------------------
(***************************************************************************)
(* Properties.                                                             *)
(***************************************************************************)
Phases == {"Idle", "BeginNegotiation", "SendSpeedRequest", "WaitSpeedReport",
           "SendNegotiation", "WaitSpeedAcknowledgement", "SendFirstTest",
           "WaitFirstTestResult", "SendSecondTest", "WaitSecondTestResult",
           "SettleLink", "WaitFallbackReset", "Payload", "DrainSds", "WaitSds",
           "DrainReceiveMode", "WaitReceiveMode", "DrainPayload", "DrainCancellation"}
States == OwningStates \cup {"Idle", "Complete", "Cancelled", "Failed"}
Errors == {"None", "DeviceCancelled", "RetryLimit", "ReplyTimedOut", "ResponseOverflow"}

\* Type invariant; the message index may be one past the payload and the
\* response queue never exceeds its capacity.
TypeOK ==
    /\ host.phase \in Phases /\ host.state \in States /\ host.error \in Errors
    /\ payload \in Payloads[host.model] \cup {<<>>}
    /\ host.messageIndex \in 1 .. Len(payload) + 1
    /\ host.payloadCursor \in 0 .. Size
    /\ host.sdsPacket \in 0 .. PacketModulus - 1 /\ host.packetRetries \in 0 .. MaxRetries
    /\ Len(host.responses) <= ResponseCapacity /\ Len(port) <= PortCapacity
    /\ device.got \subseteq 1 .. Len(payload)

\* A transfer reported complete reached the instrument: it took every message
\* of the file whole, also after replies that were lost, late or malformed or
\* one that was repeated, and after messages it missed, refused or found
\* corrupt.  A repeated ACK of a header together with a first packet that is
\* missed or refused is not covered: both expect number 0, as in
\* AcknowledgedSamplesAreComplete (mdturbomidi.cpp:282).
CompleteMeansDelivered == host.state = "Complete" => device.got = 1 .. Len(payload)

\* "ACK means received" (mdturbomidi.cpp:349): every sample message the
\* transfer has moved past is one the instrument took, under the same faults
\* and with the same exception as CompleteMeansDelivered.
AcknowledgedMeansReceived ==
    OwnsMidiWire =>
        \A i \in 1 .. host.messageIndex - 1 : payload[i].kind \in SdsKinds => i \in device.got

\* "The device acknowledged N complete sample(s)" (mdEditor.cpp:1862): every
\* sample counted is one whose last packet the instrument took.
AcknowledgedSamplesAreComplete ==
    host.acknowledgedSamples <= Cardinality({i \in device.got : payload[i].last})

\* Stop and wait: a sample message in the port is the current one, so that not
\* even an early ACK lets another overtake it.
NoSampleOvertaken ==
    \A h \in Range(port) : h.kind \in SdsKinds /\ host.phase # "DrainCancellation" =>
        h.at = host.messageIndex

\* The wire is released clean: nothing of the transfer is queued anywhere and
\* the instrument is not inside a message later MIDI would become part of.
WireReleasedClean ==
    ~OwnsMidiWire => port = <<>> /\ host.wire = <<>> /\ device.partial = NoHalf

\* cursor, message, packet number and phase always speak of the same message.
PositionsAgree ==
    LET offset == host.payloadCursor - Offset(host.messageIndex) IN
    /\ host.phase = "Payload" => offset \in 0 .. 1
    /\ host.phase \in {"DrainSds", "WaitSds"} =>
        /\ offset = 2 /\ host.sdsActive
        /\ host.sdsPacket = IF Current(host).kind = "SdsHeader" THEN 0 ELSE Current(host).packet

\* The messages the user must make the instrument ready for: what follows a
\* sample and is none, and on a Monomachine a change of the receive screen.
NeedsUser(i) ==
    /\ i > 1
    /\ IF host.model = "Monomachine" THEN payload[i].kind # payload[i - 1].kind
       ELSE payload[i - 1].last /\ payload[i].kind # "SdsHeader"

\* Nothing the user must prepare is sent before the editor showed that step of
\* this very transfer.
SentOnlyWhenReady ==
    \A h \in Range(port) : h.at # 0 /\ NeedsUser(h.at) => <<host.id, h.at>> \in shown

\* How a transfer ends is what happened: cancelled only by a cancel(), complete
\* or failed by the code itself only without one.
OutcomeIsTrue ==
    /\ host.state = "Cancelled" => cancelled
    /\ host.state \in {"Complete", "Failed"} => ~cancelled

\* A transfer that starts ends, whatever the instrument does.
TransferEnds == OwnsMidiWire ~> ~OwnsMidiWire
=============================================================================
