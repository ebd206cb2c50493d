------------------------------ MODULE ChainPlayer ------------------------------
(***************************************************************************)
(* Plays a PatternChain on the machine from the transport the plug-in      *)
(* sends it (mdLib/mdchainplayer.cpp): every event forwarded to the        *)
(* machine passes process(), every message of the machine observe().       *)
(*                                                                         *)
(* The machine is the environment, as mdchainplayer.h and                  *)
(* patternChainFirmwareTest describe it: it switches by itself at the end  *)
(* of the pattern it plays to the last pattern asked for, when asked       *)
(* before its commit; a later request waits one pass more; what waits at   *)
(* STOP plays at START, and the status does not show it.  The transport is *)
(* the one synthLib::MidiClock sends: START, or SONG POSITION and CONTINUE,*)
(* clocks, STOP.  Other senders select patterns between any two of its     *)
(* events, the processor's timer replaces the chain, and an answer to a    *)
(* status request reaches the player some time after the machine sent it.  *)
(***************************************************************************)
EXTENDS PatternChain

CONSTANTS
    None,           \* an empty std::optional; a pattern nobody knows
    Steps,          \* the length each pattern really has in the machine
    Chains,         \* the chains the processor may hand over
    Positions,      \* steps of a SONG POSITION
    MaxTick,        \* bound: ticks played after the start of the song
    MaxOthers       \* bound: selections and chains of others

ASSUME ChainsAssumption ==
    /\ None \notin Patterns
    /\ Steps \in [Patterns -> Nat \ {0}]
    /\ \A p \in Patterns : Length[p] \in {0, Steps[p]}
    /\ \A c \in Chains : c \in Seq(Entry)
    /\ Positions \subseteq Nat /\ MaxTick \in Nat /\ MaxOthers \in Nat
\* Within the bound no tick wraps around, only the difference of lastRequestTick.
ASSUME WrapAssumption == \A p \in Patterns : MaxTick + PassTicks(p) <= TickModulus

VARIABLES
    chain,          \* m_chain
    playing,        \* m_playing
    songPosition,   \* m_songPosition, ticks
    nextTick,       \* m_nextTick: the tick the next clock plays
    startPattern,   \* m_startPattern: the pattern START plays, when known
    startFromQueue, \* m_startFromQueue
    current,        \* m_current
    queued,         \* m_queued: asked for, takes over at queuedFrom
    queuedFrom,     \* m_queuedFrom
    published,      \* m_published: the pass for getPlaying()
    host,           \* MidiClock: "stopped", "positioned" (before CONTINUE; "disturbed" when
                    \* it was prepared on a wrong belief or something happened since) or "playing"
    machine,        \* the instrument
    answer,         \* the answer to a status request under way, or None
    others,         \* selections and chains of others so far
    inStep,         \* history: the player had its chance to ask for every change since the start
    misled          \* history: what the player takes the start to play is not its doing:
                    \* see StartBelief

playerVars == <<playing, songPosition, nextTick, startPattern, startFromQueue,
                current, queued, queuedFrom, published>>
vars == <<chain, playerVars, host, machine, answer, others, inStep, misled>>

Known == Patterns \cup {None}

Machine == [playing : BOOLEAN,      \* the transport runs
            pattern : Patterns,     \* the pattern playing, or loaded
            asked : Known,          \* asked for, not committed
            committed : Known,      \* plays at the end of this pass
            position : Nat]         \* the tick of the pattern the next clock plays

TypeOK ==
    /\ chain \in Chains /\ playing \in BOOLEAN /\ startFromQueue \in BOOLEAN
    /\ songPosition \in Nat /\ nextTick \in Nat /\ queuedFrom \in Nat
    /\ startPattern \in Known /\ current \in Known /\ queued \in Known
    /\ published \in {None} \cup [entry : Nat, pass : Nat]
    /\ host \in {"stopped", "positioned", "disturbed", "playing"}
    /\ machine \in Machine
    /\ answer \in {None} \cup [pattern : Patterns, fresh : BOOLEAN]
    /\ others \in Nat /\ inStep \in BOOLEAN /\ misled \in BOOLEAN

Init ==
    /\ chain \in Chains /\ playing = FALSE /\ songPosition = 0 /\ nextTick = 0
    /\ startPattern = None /\ startFromQueue = FALSE /\ current = None
    /\ queued = None /\ queuedFrom = 0 /\ published = None
    /\ host = "stopped" /\ answer = None /\ others = 0 /\ inStep = TRUE /\ misled = FALSE
    /\ machine \in [playing : {FALSE}, pattern : Patterns, asked : {None},
                    committed : {None}, position : {0}]

-------------------------------------------------------------------------------
(* The machine.                                                            *)

MachineTicks(p) == Steps[p] * TicksPerStep

\* What START would play: what waits plays, the later request first.
StartPlays(m) ==
    IF m.asked # None THEN m.asked
    ELSE IF m.committed # None THEN m.committed ELSE m.pattern

\* A pattern is selected: at rest it is loaded at once, else it waits.
Selected(m, p) ==
    IF m.playing THEN [m EXCEPT !.asked = p]
    ELSE [m EXCEPT !.pattern = p, !.asked = None, !.committed = None]

\* START or CONTINUE from a position, taken modulo the pattern's length.
Started(m, position) ==
    LET p == StartPlays(m)
    IN  [playing |-> TRUE, pattern |-> p, asked |-> None, committed |-> None,
         position |-> position % MachineTicks(p)]

\* One clock: the commit, the tick, and the switch at the pattern's end.
Clocked(m) ==
    LET ticks == MachineTicks(m.pattern)
        commits == m.position = ticks - CommitTicks \/ (ticks <= CommitTicks /\ m.position = 0)
        n == IF commits THEN [m EXCEPT !.committed = m.asked, !.asked = None] ELSE m
        ends == n.position + 1 = ticks
    IN  IF ~ends THEN [n EXCEPT !.position = @ + 1]
        ELSE [n EXCEPT !.position = 0, !.committed = None,
                       !.pattern = IF n.committed # None THEN n.committed ELSE @]

\* CURRENT PATTERN: the next pattern from the commit on, never what only waits.
Status(m) == IF m.playing /\ m.committed # None THEN m.committed ELSE m.pattern

\* Any answer under way was given before what happens now.
Outdated == IF answer = None THEN None ELSE [answer EXCEPT !.fresh = FALSE]

-------------------------------------------------------------------------------
(* The player.                                                             *)

\* A playable chain is followed; in process(), `chain`.
Follows == IsPlayable(chain)

\* The last tick at which the machine takes a request for the next pass, without wrapping.
InTime(pass, tick) == tick < End(pass) - CommitTicks
\* The player cannot get the next pass played, asking at this tick.
TooLate(tick) ==
    LET pass == PassAt(chain, tick)
    IN  ~InTime(pass, tick) /\ NextPass(chain, pass).pattern # pass.pattern

\* prepareStart: selects the chain's pattern at a tick unless START plays it already.
Prepares(tick) == Follows /\ startPattern # PassAt(chain, tick).pattern
Prepared(tick) ==
    IF Prepares(tick) THEN Selected(machine, PassAt(chain, tick).pattern) ELSE machine
PrepareStart(tick) ==
    /\ startPattern' = IF Prepares(tick) THEN PassAt(chain, tick).pattern ELSE startPattern
    /\ misled' = (misled /\ ~Prepares(tick))

\* started(): the machine plays from a tick what START was to play.
StartedAt(tick) ==
    /\ playing' = TRUE
    /\ nextTick' = tick
    /\ current' = startPattern'
    /\ queued' = None
    /\ startFromQueue' = FALSE
    /\ UNCHANGED <<queuedFrom, published, chain, others>>

\* M_START, from MidiClock::start at the beginning of the song.
Start ==
    /\ host = "stopped"
    /\ host' = "playing"
    /\ songPosition' = 0
    /\ PrepareStart(0)
    /\ machine' = Started(Prepared(0), 0)
    /\ StartedAt(0)
    /\ answer' = Outdated
    /\ inStep' = (~misled' /\ (Follows => ~TooLate(0)))

\* Mutant: the song position goes on to the machine as it came.
Unmoved(tick) == tick

\* The position the machine gets, into the pattern of the chain's pass.
Moved(tick) == IF Follows THEN tick - PassAt(chain, tick).start ELSE tick

\* M_SONGPOSITION: the pattern is prepared and the position moved into it.
SongPosition(step) ==
    LET tick == step * TicksPerStep
    IN  /\ host = "stopped"
        /\ songPosition' = tick
        /\ PrepareStart(tick)
        /\ host' = IF misled' THEN "disturbed" ELSE "positioned"
        /\ startFromQueue' = (startFromQueue /\ ~Prepares(tick))
        /\ machine' = [Prepared(tick) EXCEPT !.position = Moved(tick)]
        /\ answer' = IF Prepares(tick) THEN Outdated ELSE answer
        /\ inStep' = (inStep \/ Prepares(tick))
        /\ UNCHANGED <<chain, playing, nextTick, current, queued, queuedFrom, published,
                       others>>

\* M_CONTINUE, which MidiClock sends after SONG POSITION.
Continue ==
    /\ host \in {"positioned", "disturbed"}
    /\ host' = "playing"
    /\ UNCHANGED startPattern
    /\ StartedAt(songPosition)
    /\ machine' = Started(machine, machine.position)
    /\ answer' = Outdated
    /\ inStep' = (host = "positioned" /\ ~misled /\ (Follows => ~TooLate(songPosition)))
    /\ UNCHANGED <<songPosition, misled>>

\* M_STOP: what waits plays at the next start.
Stop ==
    /\ host = "playing"
    /\ host' = "stopped"
    /\ machine' = [machine EXCEPT !.playing = FALSE]
    /\ playing' = FALSE
    /\ startFromQueue' = (queued # None)
    /\ startPattern' = IF queued # None THEN queued ELSE current
    /\ queued' = None
    /\ published' = None
    /\ answer' = Outdated
    /\ UNCHANGED <<chain, songPosition, nextTick, current, queuedFrom, others, inStep,
                   misled>>

\* The pattern asked for has taken over by this tick.
TookOver == queued # None /\ nextTick >= queuedFrom

\* M_TIMINGCLOCK: the tick, then the request for the next pass's pattern, when it is
\* not what the machine would play anyway and there is time.
Clock ==
    LET pass == PassAt(chain, nextTick)
        next == NextPass(chain, pass).pattern
        after == IF queued # None THEN queued ELSE current
        asks == Follows /\ after # next /\ nextTick <= LastRequestTick(pass)
    IN  /\ host = "playing"
        /\ nextTick < MaxTick
        /\ nextTick' = nextTick + 1
        /\ current' = IF TookOver THEN queued ELSE current
        /\ queued' = IF asks THEN next ELSE IF TookOver THEN None ELSE queued
        /\ queuedFrom' = IF asks THEN End(pass) ELSE queuedFrom
        /\ published' = IF Follows THEN [entry |-> pass.entry, pass |-> pass.pass] ELSE None
        /\ machine' = IF asks THEN Selected(Clocked(machine), next) ELSE Clocked(machine)
        /\ inStep' = (inStep /\ (Follows /\ nextTick = pass.start => ~TooLate(nextTick)))
        /\ UNCHANGED <<chain, playing, songPosition, startPattern, startFromQueue,
                       host, answer, others, misled>>

OthersAct == others < MaxOthers /\ others' = others + 1

\* selectedElsewhere: someone else's selection goes by, a SET STATUS with its pattern
\* or a Program Change (seen = None), which the machine reads as it likes.
SelectElsewhere(p, seen) ==
    /\ OthersAct
    /\ machine' = Selected(machine, p)
    /\ answer' = Outdated
    /\ host' = IF host = "positioned" THEN "disturbed" ELSE host
    /\ IF playing
       THEN /\ current' = None /\ queued' = None /\ inStep' = FALSE
            /\ UNCHANGED <<startPattern, startFromQueue, misled>>
       ELSE /\ startPattern' = seen /\ startFromQueue' = FALSE
            /\ inStep' = TRUE /\ misled' = FALSE
            /\ UNCHANGED <<current, queued>>
    /\ UNCHANGED <<chain, playing, songPosition, nextTick, queuedFrom, published>>
SetStatus(p) == SelectElsewhere(p, p)
ProgramChange(p) == SelectElsewhere(p, None)

\* A pattern is selected on the machine's panel, which the player does not see.
SelectOnPanel(p) ==
    /\ OthersAct
    /\ machine' = Selected(machine, p)
    /\ answer' = Outdated
    /\ host' = IF host = "positioned" THEN "disturbed" ELSE host
    /\ inStep' = ~playing
    /\ misled' = TRUE
    /\ UNCHANGED <<chain, playerVars>>

\* The machine answers a status request of the controller.
Answer ==
    /\ answer = None
    /\ answer' = [pattern |-> Status(machine), fresh |-> TRUE]
    /\ UNCHANGED <<chain, playerVars, host, machine, others, inStep, misled>>

\* Mutant: an answer at rest is believed although a pattern of the player's waits.
BelievesAtRest == ~playing

\* A pattern waits in the machine, which its status does not show at rest.
Waits == machine.asked # None \/ machine.committed # None

\* observe: at rest, and with nothing of the player's own waiting, the status is believed.
Believes == ~playing /\ ~startFromQueue

Observe ==
    /\ answer # None
    /\ answer' = None
    /\ startPattern' = IF Believes THEN answer.pattern ELSE startPattern
    /\ misled' = IF Believes THEN ~answer.fresh \/ (Waits /\ ~inStep) ELSE misled
    /\ UNCHANGED <<chain, playing, songPosition, nextTick, startFromQueue, current, queued,
                   queuedFrom, published, host, machine, others, inStep>>

\* setChain, on the processor's thread; the next event sees it.
SetChain(c) ==
    /\ OthersAct
    /\ c # chain
    /\ chain' = c
    /\ host' = IF host = "positioned" THEN "disturbed" ELSE host
    /\ inStep' = (inStep /\ ~playing)
    /\ UNCHANGED <<playerVars, machine, answer, misled>>

Next ==
    \/ Start
    \/ \E step \in Positions : SongPosition(step)
    \/ Continue
    \/ Stop
    \/ Clock
    \/ \E p \in Patterns : SetStatus(p) \/ ProgramChange(p) \/ SelectOnPanel(p)
    \/ Answer
    \/ Observe
    \/ \E c \in Chains : SetChain(c)

Spec == Init /\ [][Next]_vars

-------------------------------------------------------------------------------
(* Properties.                                                             *)

\* While the player had its chance to ask for every change, and nobody else interferes,
\* the machine plays at every clock the pattern and the tick the chain has there
\* (mdchainplayer.cpp 42-53, 77-164 and mdpatternchain.cpp 50-82).
PlaysTheChain ==
    playing /\ inStep /\ Follows =>
        LET pass == PassAt(chain, nextTick)
        IN  machine.pattern = pass.pattern /\ machine.position = nextTick - pass.start

\* At rest, the pattern the player takes for the one START plays is the one the machine
\* will play: it neither selects what is there, which would drop the kit's unsaved changes,
\* nor leaves another in place (mdchainplayer.cpp 46, 118-129, 166-173).  Three beliefs are
\* left out (`misled`), because the player has no way to tell: one from before a selection
\* on the panel, an answer given before the machine changed, and a timely answer that shows
\* the pattern loaded while another waits that the player has lost sight of - someone
\* else's, selected while it played, or its own, taken a pass late after a late start or a
\* new chain.  There the code believes more than "stopped with nothing asked for"
\* (mdchainplayer.h:50) and "unknown until the next start" (mdchainplayer.cpp:72) say.
StartBelief ==
    ~playing /\ startPattern # None /\ ~misled => StartPlays(machine) = startPattern
===============================================================================
