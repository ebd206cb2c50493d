----------------------------- MODULE PatternChain -----------------------------
(***************************************************************************)
(* A chain of patterns, each played a number of passes, looping at the end *)
(* (mdLib/mdpatternchain.h, mdpatternchain.cpp).  A chain is a sequence of *)
(* entries; positions are MIDI clock ticks since the start of the song.    *)
(***************************************************************************)
EXTENDS Integers, Sequences

CONSTANTS
    Patterns,       \* the patterns of the machine
    Length,         \* m_lengths: steps of each pattern, 0 when not known
    TicksPerStep,   \* clocks of a step (6)
    CommitTicks,    \* the machine commits its next pattern this long before the end (7 or 1)
    TickModulus     \* ticks are unsigned and wrap at this (2^64)

ASSUME LengthAssumption == Length \in [Patterns -> Nat]
ASSUME TicksAssumption ==
    /\ TicksPerStep \in Nat \ {0} /\ CommitTicks \in Nat \ {0}
    /\ TickModulus \in Nat \ {0}

Entry == [pattern : Patterns, passes : Nat \ {0}]

\* isPlayable: at least one entry, and the length of every pattern in it known.
IsPlayable(chain) ==
    chain # <<>> /\ \A i \in DOMAIN chain : Length[chain[i].pattern] # 0

PassTicks(p) == Length[p] * TicksPerStep
EntryTicks(chain, i) == PassTicks(chain[i].pattern) * chain[i].passes

\* The ticks of the entries before each entry, and of one round.
EntryStart(chain) ==
    LET start[i \in 1 .. Len(chain) + 1] ==
            IF i = 1 THEN 0 ELSE start[i - 1] + EntryTicks(chain, i - 1)
    IN  start
RoundTicks(chain) == EntryStart(chain)[Len(chain) + 1]

MkPass(i, n, start, p) ==
    [entry |-> i, pass |-> n, start |-> start, ticks |-> PassTicks(p), pattern |-> p]
End(pass) == pass.start + pass.ticks

\* passAt: the pass playing at a tick, of a playable chain.
PassAt(chain, tick) ==
    LET roundStart == tick - (tick % RoundTicks(chain))
        First(i) == roundStart + EntryStart(chain)[i]
        i == CHOOSE j \in DOMAIN chain :
                First(j) <= tick /\ tick < First(j) + EntryTicks(chain, j)
        p == chain[i].pattern
        n == (tick - First(i)) \div PassTicks(p)
    IN  MkPass(i, n, First(i) + n * PassTicks(p), p)

\* next: the pass after a pass.
NextPass(chain, pass) ==
    IF pass.pass + 1 < chain[pass.entry].passes
    THEN MkPass(pass.entry, pass.pass + 1, End(pass), pass.pattern)
    ELSE LET i == (pass.entry % Len(chain)) + 1
         IN  MkPass(i, 0, End(pass), chain[i].pattern)

\* lastRequestTick: unsigned, so a first pass no longer than the commit wraps around.
LastRequestTick(pass) == (End(pass) - CommitTicks - 1) % TickModulus
===============================================================================
