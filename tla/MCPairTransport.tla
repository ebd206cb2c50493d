------------------------- MODULE MCPairTransport -------------------------
(***************************************************************************)
(* Sessions of PairTransport for TLC.                                      *)
(***************************************************************************)
EXTENDS PairTransport

Data(i) == [op |-> "data", dsp |-> i]
Command(i) == [op |-> "command", dsp |-> i]
Read(i) == [op |-> "read", dsp |-> i]

\* The policy's leads, and no lead at all as the environment may ask for.
Policy == [dsp |-> 1, uc |-> 8]
NoLead == [dsp |-> 0, uc |-> 0]

Quiet(l) == [lead |-> l, uc |-> 1, pos |-> <<1, 2>>, rx |-> <<0, 0>>, busy |-> <<FALSE, FALSE>>,
             blocks |-> 1, block |-> 12, host |-> <<>>, words |-> <<0, 0>>, over |-> 0]

\* Nothing but time: two calls of advance() with either lead.
QuietSessions ==
    {[Quiet(l) EXCEPT !.blocks = 2, !.block = 9] : l \in {Policy, NoLead}}
\* A word for each DSP, with DSPs that stop where they are told and DSPs that
\* finish their block.
WordSessions ==
    {[Quiet(Policy) EXCEPT !.host = <<Data(1), Data(2)>>, !.over = o, !.block = 12 - 3 * o] : o \in 0 .. 1}
\* The register holds an unread word: a word and a command wait for it, and
\* behind them the UC for room in the stream.
RoomSessions ==
    {[Quiet(Policy) EXCEPT !.host = <<Data(1), Data(1)>>, !.rx[1] = 1, !.block = 9],
     [Quiet(Policy) EXCEPT !.host = <<Command(1), Command(1)>>, !.rx[1] = 1, !.block = 9,
                           !.pos = <<0, 2>>]}
\* A command behind another, and exact reads of the command register.
ReadSessions ==
    {[Quiet(NoLead) EXCEPT !.host = <<Command(2), Read(2)>>, !.busy[2] = TRUE, !.uc = 2,
                           !.pos = <<0, 1>>],
     [Quiet(Policy) EXCEPT !.host = <<Read(1)>>, !.words = <<1, 0>>]}
\* Both DSPs have a word for the UC: backpressure holds either or both.
HeldSessions == {[Quiet(Policy) EXCEPT !.words = <<1, 1>>]}

Sessions == QuietSessions \cup WordSessions \cup RoomSessions \cup ReadSessions \cup HeldSessions

\* Both DSPs held at once for as long as the UC needs to be far ahead.
BothHeldSession == {[Quiet(Policy) EXCEPT !.words = <<1, 1>>, !.block = 24]}
=============================================================================
