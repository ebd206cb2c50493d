------------------------ MODULE PairTransportProofs ------------------------
(***************************************************************************)
(* Proofs about PairTransport: neither thread sleeps on a wake-up it       *)
(* missed, and the UC's words land within the DSPs' lead.                  *)
(*                                                                         *)
(* What the worker does in one step is long (a turn lands items and finds  *)
(* gates for both DSPs, a chunk lands, runs and publishes), so each of its *)
(* operators has a lemma that says what a step takes from the streams and  *)
(* how far it goes (LandedTakes, GatedTakes, TurnTakes, MovesTakes,        *)
(* ChunkTakes, LinkTakes); the two invariants rest on these.               *)
(***************************************************************************)
EXTENDS PairTransport, FiniteSetTheorems, SequenceTheorems, TLAPS

----------------------------------------------------------------------------
(***************************************************************************)
(* The parts of the invariants.                                            *)
(***************************************************************************)
\* A dated word or command, and a DSP.
Item == [kind : {"data", "command", "read"}, uc : Nat, ahead : BOOLEAN]
DspType == [pos : Nat, rx : Nat, busy : BOOLEAN, last : Nat, words : Nat, stuck : BOOLEAN]
View == [uc : Nat, pos : [Dsps -> Nat], held : [Dsps -> BOOLEAN]]

\* What either thread's variables are; the positions of the UC may be on their way.
Types ==
    /\ setup \in Session /\ lead \in [dsp : Nat, uc : Nat] /\ blocks \in Nat
    /\ uc \in Nat /\ left \in Seq(HostOp)
    /\ stream \in [Dsps -> Seq(Item)] /\ tx \in [Dsps -> Seq(Nat)]
    /\ gate \in [Dsps -> Nat] /\ since \in [Dsps -> Nat] /\ dsp \in [Dsps -> DspType]
    /\ wkAt \in {"turn", "chunk", "link", "parked"}
    /\ wkAt = "link" => linkTo \in Dsps \X Nat
    /\ stored \in View /\ shown \in View
    /\ indulged \in BOOLEAN /\ late \in BOOLEAN

\* Where the audio thread is, and that its position is stored as soon as it changes.
UcPlaces ==
    /\ ucAt \in {"idle", "step", "decide", "slice", "wait", "round", "push"}
    /\ site # "none" <=> ucAt \in {"wait", "round"}
    /\ ucAt = "push" \/ site = "room" => left # <<>> /\ Head(left).op # "read"
    /\ site \in {"room", "time", "mixer"} => on \in Dsps
    /\ stored.uc = uc /\ shown.uc <= uc

\* Who is in notify(), who sleeps, and what is visible outside notify().
Signal ==
    /\ notifying \subseteq {"uc", "worker"} /\ asleep \subseteq {"uc", "worker"}
    /\ notifying \cap asleep = {}
    /\ "uc" \in asleep => ucAt = "round"
    /\ "worker" \in asleep => wkAt = "parked"
    /\ "uc" \notin notifying => shown.uc = uc
    /\ "worker" \notin notifying => shown.pos = stored.pos /\ shown.held = stored.held

\* A sleeping thread's predicate is false unless the other one is about to wake it.
Slept ==
    /\ "uc" \in asleep /\ "worker" \notin notifying /\ wkAt # "link" => ~UcReady
    /\ "worker" \in asleep /\ "uc" \notin notifying /\ ucAt = "round" => ~WouldRun

----------------------------------------------------------------------------
(***************************************************************************)
(* Arithmetic: least and greatest of a few numbers, and dates.             *)
(***************************************************************************)
LEMMA MinOfTwo ==
    ASSUME NEW a \in Nat, NEW b \in Nat
    PROVE  Min({a, b}) \in {a, b} /\ Min({a, b}) <= a /\ Min({a, b}) <= b
<1>1. \E x \in {a, b} : \A y \in {a, b} : x <= y
  OBVIOUS
<1> QED BY <1>1 DEF Min

LEMMA MinOfThree ==
    ASSUME NEW a \in Nat, NEW b \in Nat, NEW c \in Nat
    PROVE  /\ Min({a, b, c}) \in {a, b, c}
           /\ Min({a, b, c}) <= a /\ Min({a, b, c}) <= b /\ Min({a, b, c}) <= c
<1>1. \E x \in {a, b, c} : \A y \in {a, b, c} : x <= y
  OBVIOUS
<1> QED BY <1>1 DEF Min

LEMMA MaxOfTwo ==
    ASSUME NEW a \in Nat, NEW b \in Nat
    PROVE  Max({a, b}) \in {a, b} /\ Max({a, b}) >= a /\ Max({a, b}) >= b
<1>1. \E x \in {a, b} : \A y \in {a, b} : x >= y
  OBVIOUS
<1> QED BY <1>1 DEF Max

\* A UC position has a date in DSP cycles, and later positions have no earlier ones.
LEMMA DeadlineNat ==
    ASSUME NEW u \in Nat
    PROVE  Deadline(u) \in Nat
<1>1. Num \in Nat /\ Den \in Nat \ {0} /\ u * Num \in Nat
  BY PairAssumption
<1> QED BY <1>1 DEF Deadline

LEMMA DivMono ==
    ASSUME NEW a \in Nat, NEW b \in Nat, a <= b, NEW d \in Nat \ {0}
    PROVE  a \div d <= b \div d
<1>1. PICK p, r : p = a \div d /\ r = b \div d
  OBVIOUS
<1>2. p \in Int /\ r \in Int /\ d * p <= a /\ b < d * r + d
  BY <1>1
<1>3. SUFFICES ASSUME r < p PROVE FALSE
  BY <1>1, <1>2
<1>4. p >= r + 1
  BY <1>2, <1>3
<1>5. d * p >= d * (r + 1)
  BY <1>2, <1>4, SMT
<1>6. d * (r + 1) = d * r + d
  BY <1>2
<1> QED BY <1>2, <1>5, <1>6

LEMMA DeadlineMono ==
    ASSUME NEW u \in Nat, NEW v \in Nat, u <= v
    PROVE  Deadline(u) <= Deadline(v)
<1>1. Num \in Nat /\ Den \in Nat \ {0}
  BY PairAssumption
<1>2. u * Num \in Nat /\ v * Num \in Nat /\ u * Num <= v * Num
  BY <1>1, SMT
<1> QED BY <1>1, <1>2, DivMono DEF Deadline

----------------------------------------------------------------------------
(***************************************************************************)
(* applyHostToDspStream(): what lands and what is left.                    *)
(***************************************************************************)
LEMMA LandingCount ==
    ASSUME NEW d, NEW items \in Seq(Item)
    PROVE  Landing(d, items) \in 0 .. Len(items)
<1> DEFINE S == {n \in DOMAIN items :
                    \A k \in 1 .. n : Lands(AfterLanding(d, items, k - 1), items[k])}
<1>1. S \subseteq 1 .. Len(items) /\ Len(items) \in Nat
  OBVIOUS
<1>2. IsFiniteSet(1 .. Len(items)) /\ Cardinality(1 .. Len(items)) = Len(items)
  <2>1. PICK n \in Nat : n = Len(items)
    BY <1>1
  <2>2. IsFiniteSet(1 .. n) /\ Cardinality(1 .. n) = IF 1 > n THEN 0 ELSE n - 1 + 1
    BY FS_Interval
  <2> HIDE DEF S
  <2> QED BY <2>1, <2>2
<1>3. IsFiniteSet(S) /\ Cardinality(S) <= Cardinality(1 .. Len(items))
  BY <1>1, <1>2, FS_Subset
<1>4. Cardinality(S) \in Nat
  BY <1>3, FS_CardinalityType
<1> HIDE DEF S
<1>5. Cardinality(S) \in 0 .. Len(items)
  BY <1>1, <1>2, <1>3, <1>4
<1> QED BY <1>5 DEF Landing, S

LEMMA AfterLandingType ==
    ASSUME NEW d \in DspType, NEW items \in Seq(Item), NEW n \in 0 .. Len(items)
    PROVE  /\ AfterLanding(d, items, n) \in DspType
           /\ AfterLanding(d, items, n).pos = d.pos
<1> DEFINE S == {k \in 1 .. n : items[k].kind = "data"}
<1>1. IsFiniteSet(1 .. n) /\ S \subseteq 1 .. n
  BY FS_Interval
<1>2. IsFiniteSet(S)
  BY <1>1, FS_Subset
<1>3. Cardinality(S) \in Nat
  BY <1>2, FS_CardinalityType
<1>4. PICK c : c = Cardinality(S)
  OBVIOUS
<1>5. PICK b \in BOOLEAN : b <=> (d.busy \/ \E k \in 1 .. n : items[k].kind = "command")
  OBVIOUS
<1> HIDE DEF S
<1>6. AfterLanding(d, items, n)
        = [d EXCEPT !.rx = @ + c, !.busy = (d.busy \/ \E k \in 1 .. n : items[k].kind = "command"),
                    !.last = IF n = 0 THEN @ ELSE d.pos]
  BY <1>4 DEF AfterLanding, S
<1>7. d.rx + c \in Nat /\ (IF n = 0 THEN d.last ELSE d.pos) \in Nat
  BY <1>3, <1>4 DEF DspType
<1> QED BY <1>5, <1>6, <1>7 DEF DspType

LEMMA ServeType ==
    ASSUME NEW d \in DspType, NEW items \in Seq(Item)
    PROVE  /\ Serve(d, items).n \in 0 .. Len(items)
           /\ Serve(d, items).d \in DspType /\ Serve(d, items).d.pos = d.pos
           /\ Serve(d, items).late \in BOOLEAN
           /\ Serve(d, items).late => \E k \in 1 .. Len(items) : TooLate(d, items[k])
           /\ Serve(d, items).d.stuck <=>
                /\ Serve(d, items).n < Len(items)
                /\ Deadline(items[Serve(d, items).n + 1].uc) <= d.pos
<1>1. PICK n : n = Landing(d, items)
  OBVIOUS
<1>2. n \in 0 .. Len(items) /\ Len(items) \in Nat
  BY <1>1, LandingCount
<1>3. PICK e : e = AfterLanding(d, items, n)
  OBVIOUS
<1>4. e \in DspType /\ e.pos = d.pos
  BY <1>2, <1>3, AfterLandingType
<1>5. Serve(d, items)
        = [d |-> [e EXCEPT !.stuck = n < Len(items) /\ Deadline(items[n + 1].uc) <= d.pos],
           n |-> n, late |-> \E k \in 1 .. n : TooLate(d, items[k])]
  BY <1>1, <1>3 DEF Serve
<1>6. (\E k \in 1 .. n : TooLate(d, items[k])) => \E k \in 1 .. Len(items) : TooLate(d, items[k])
  BY <1>2
<1>7. /\ Serve(d, items).n = n
      /\ Serve(d, items).d
           = [e EXCEPT !.stuck = n < Len(items) /\ Deadline(items[n + 1].uc) <= d.pos]
      /\ Serve(d, items).late = \E k \in 1 .. n : TooLate(d, items[k])
  BY <1>5
<1>8. PICK b \in BOOLEAN : b <=> (n < Len(items) /\ Deadline(items[n + 1].uc) <= d.pos)
  OBVIOUS
<1>9. /\ Serve(d, items).d \in DspType /\ Serve(d, items).d.pos = d.pos
      /\ Serve(d, items).d.stuck <=> (n < Len(items) /\ Deadline(items[n + 1].uc) <= d.pos)
  BY <1>4, <1>7, <1>8 DEF DspType
<1> QED BY <1>2, <1>6, <1>7, <1>9

----------------------------------------------------------------------------
(***************************************************************************)
(* pairGateCycles(): how far a DSP may go.                                 *)
(***************************************************************************)
LEMMA DrainStartNat ==
    ASSUME NEW d \in DspType, NEW item \in Item
    PROVE  DrainStart(d, item) \in Nat
<1>1. Deadline(item.uc) \in Nat /\ d.last \in Nat
  BY DeadlineNat DEF Item, DspType
<1>2. PICK a \in Nat, b \in Nat : a = Deadline(item.uc) /\ b = d.last
  BY <1>1
<1>3. Max({a, b}) \in Nat
  BY MaxOfTwo
<1> QED BY <1>2, <1>3 DEF DrainStart

LEMMA AllowanceNat ==
    ASSUME NEW d \in DspType, NEW items \in Seq(Item), NEW i \in Dsps
    PROVE  Allowance(d, items, i) \in Nat
<1>1. Clamp \in Nat
  BY PairAssumption
<1>2. BlockedAllowance(d, items) \in Nat
  <2>1. CASE items = <<>>
    BY <2>1 DEF BlockedAllowance
  <2>2. CASE items # <<>>
    <3>1. DrainStart(d, Head(items)) \in Nat
      BY <2>2, DrainStartNat
    <3>2. PICK start \in Nat : start = DrainStart(d, Head(items))
      BY <3>1
    <3>3. start + Clamp \in Nat /\ start + 5 * Clamp \in Nat
      BY <1>1
    <3> QED BY <3>2, <3>3 DEF BlockedAllowance
  <2> QED BY <2>1, <2>2
<1>3. CASE Blocked(i) /\ items # <<>>
  <2>1. DrainStart(d, Head(items)) + Clamp \in Nat
    BY <1>1, <1>3, DrainStartNat
  <2>2. PICK a \in Nat, b \in Nat :
            a = BlockedAllowance(d, items) /\ b = DrainStart(d, Head(items)) + Clamp
    BY <1>2, <2>1
  <2>3. Max({a, b}) \in Nat
    BY MaxOfTwo
  <2> QED BY <1>3, <2>2, <2>3 DEF Allowance
<1> QED BY <1>2, <1>3 DEF Allowance

\* The UC's position the worker sees, as a date with the DSPs' lead.
Ahead == Deadline(shown.uc + lead.dsp)

LEMMA CyclesNat ==
    ASSUME NEW units \in Nat
    PROVE  Cycles(units) \in Nat
<1>1. Den \in Nat \ {0}
  BY PairAssumption
<1> QED BY <1>1 DEF Cycles

LEMMA GateBounds ==
    ASSUME Types, NEW d \in [Dsps -> DspType], NEW items \in [Dsps -> Seq(Item)], NEW i \in Dsps
    PROVE  /\ Ahead \in Nat
           /\ BaseGate \in Nat /\ Allowed(d, items) \in Nat /\ GateOf(d, items, i) \in Nat
           /\ ~(Allowed(d, items) > BaseGate) => GateOf(d, items, i) <= Ahead
<1>1. /\ Target \in Nat /\ shown.uc \in Nat /\ lead.dsp \in Nat
      /\ Quantum \in Nat /\ Safety \in Nat
  <2>1. blocks \in Nat /\ setup.block \in Nat
    BY DEF Types, Session
  <2>2. shown.uc \in Nat /\ lead.dsp \in Nat
    BY DEF Types, View
  <2>3. Quantum \in Nat /\ Safety \in Nat
    BY PairAssumption
  <2>4. blocks * setup.block \in Nat
    BY <2>1, SMT
  <2> QED BY <2>2, <2>3, <2>4 DEF Target
<1>2. Ahead \in Nat
  <2>1. shown.uc + lead.dsp \in Nat
    BY <1>1
  <2> QED BY <2>1, DeadlineNat DEF Ahead
<1>3. Cycles(Target + Quantum) \in Nat /\ Cycles(Target + Safety) \in Nat
  <2>1. Target + Quantum \in Nat /\ Target + Safety \in Nat
    BY <1>1
  <2> QED BY <2>1, CyclesNat
<1>4. PICK a \in Nat, c \in Nat, e \in Nat :
          a = Ahead /\ c = Cycles(Target + Quantum) /\ e = Cycles(Target + Safety)
  BY <1>2, <1>3
<1>5. BaseGate = Min({c, a})
  BY <1>4 DEF BaseGate, Ahead
<1>6. Min({c, a}) \in {c, a} /\ Min({c, a}) <= a
  BY MinOfTwo
<1>7. PICK b \in Nat : b = BaseGate /\ b <= a
  BY <1>5, <1>6
<1>8. PICK f \in Nat, g \in Nat :
          f = Allowance(d[1], items[1], 1) /\ g = Allowance(d[2], items[2], 2)
  BY AllowanceNat DEF Dsps
<1>9. {Allowance(d[j], items[j], j) : j \in Dsps} = {f, g}
  BY <1>8 DEF Dsps
<1>10. PICK most \in Nat : most = Max({f, g})
  BY MaxOfTwo
<1>11. Min({most, e}) \in {most, e}
  BY MinOfTwo
<1>12. Allowed(d, items) \in Nat
  BY <1>4, <1>9, <1>10, <1>11 DEF Allowed
<1>13. PICK x \in Nat : x = d[i].pos
  BY DEF DspType
<1>14. Min({b, x}) \in {b, x} /\ Min({b, x}) <= b
  BY MinOfTwo
<1>15. Min({b, x}) \in Nat /\ Min({b, x}) <= a
  BY <1>7, <1>14
<1>16. GateOf(d, items, i) = IF Allowed(d, items) > b THEN Allowed(d, items)
                             ELSE IF Holds(i) THEN Min({b, x}) ELSE b
  BY <1>7, <1>13 DEF GateOf
<1>17. GateOf(d, items, i) \in Nat
  BY <1>7, <1>12, <1>15, <1>16
<1>18. ~(Allowed(d, items) > b) => GateOf(d, items, i) <= a
  BY <1>7, <1>15, <1>16
<1> QED BY <1>4, <1>7, <1>12, <1>17, <1>18

\* What the worker knows in the middle of a turn.
Turning == [dsp : [Dsps -> DspType], stream : [Dsps -> Seq(Item)], gate : [Dsps -> Nat],
            since : [Dsps -> Nat], held : [Dsps -> BOOLEAN],
            passes : BOOLEAN, late : BOOLEAN, tells : BOOLEAN]

LEMMA SubSeqItems ==
    ASSUME NEW items \in Seq(Item), NEW n \in 0 .. Len(items)
    PROVE  /\ SubSeq(items, n + 1, Len(items)) \in Seq(Item)
           /\ Len(SubSeq(items, n + 1, Len(items))) = Len(items) - n
           /\ \A k \in 1 .. Len(items) - n : SubSeq(items, n + 1, Len(items))[k] = items[k + n]
           /\ n = 0 => SubSeq(items, n + 1, Len(items)) = items
<1>1. /\ SubSeq(items, n + 1, Len(items)) \in Seq(Item)
      /\ Len(SubSeq(items, n + 1, Len(items))) = Len(items) - n
      /\ \A k \in 1 .. Len(items) - n : SubSeq(items, n + 1, Len(items))[k] = items[k + n]
  OBVIOUS
<1>2. n = 0 => SubSeq(items, n + 1, Len(items)) = items
  <2> SUFFICES ASSUME n = 0 PROVE SubSeq(items, n + 1, Len(items)) = items
    OBVIOUS
  <2> PICK s : s = SubSeq(items, n + 1, Len(items))
    OBVIOUS
  <2>1. s \in Seq(Item) /\ Len(s) = Len(items) /\ \A k \in 1 .. Len(items) : s[k] = items[k]
    BY <1>1
  <2> QED BY <2>1
<1> QED BY <1>1, <1>2

LEMMA LandedTakes ==
    ASSUME NEW w \in Turning, NEW i \in Dsps
    PROVE  LET s == Serve(w.dsp[i], w.stream[i]) IN
           /\ Landed(w, i) \in Turning
           /\ Landed(w, i).dsp = [w.dsp EXCEPT ![i] = s.d]
           /\ Landed(w, i).stream
                = [w.stream EXCEPT ![i] = SubSeq(w.stream[i], s.n + 1, Len(w.stream[i]))]
           /\ Landed(w, i).gate = w.gate /\ Landed(w, i).held = w.held
           /\ Landed(w, i).passes = w.passes
           /\ Landed(w, i).late <=> (w.late \/ s.late)
           /\ Landed(w, i).tells <=> (w.tells \/ s.n > 0)
<1>1. PICK s : s = Serve(w.dsp[i], w.stream[i])
  OBVIOUS
<1>2. /\ w.dsp \in [Dsps -> DspType] /\ w.stream \in [Dsps -> Seq(Item)]
      /\ w.late \in BOOLEAN /\ w.tells \in BOOLEAN
  BY DEF Turning
<1>3. s.n \in 0 .. Len(w.stream[i]) /\ s.d \in DspType /\ s.late \in BOOLEAN
  BY <1>1, <1>2, ServeType
<1>4. SubSeq(w.stream[i], s.n + 1, Len(w.stream[i])) \in Seq(Item)
  BY <1>2, <1>3, SubSeqItems
<1>5. PICK rest : rest = SubSeq(w.stream[i], s.n + 1, Len(w.stream[i]))
  OBVIOUS
<1>6. PICK l \in BOOLEAN, t \in BOOLEAN : (l <=> w.late \/ s.late) /\ (t <=> w.tells \/ s.n > 0)
  OBVIOUS
<1>7. Landed(w, i) = [w EXCEPT !.dsp[i] = s.d, !.stream[i] = rest,
                               !.late = w.late \/ s.late, !.tells = w.tells \/ s.n > 0]
  BY <1>1, <1>5 DEF Landed
<1>8. Landed(w, i) = [w EXCEPT !.dsp[i] = s.d, !.stream[i] = rest, !.late = l, !.tells = t]
  BY <1>6, <1>7
<1>9. /\ Landed(w, i) \in Turning
      /\ Landed(w, i).dsp = [w.dsp EXCEPT ![i] = s.d]
      /\ Landed(w, i).stream = [w.stream EXCEPT ![i] = rest]
      /\ Landed(w, i).gate = w.gate /\ Landed(w, i).held = w.held
      /\ Landed(w, i).passes = w.passes
      /\ Landed(w, i).late = l /\ Landed(w, i).tells = t
  <2>1. /\ [w.dsp EXCEPT ![i] = s.d] \in [Dsps -> DspType]
        /\ [w.stream EXCEPT ![i] = rest] \in [Dsps -> Seq(Item)]
    BY <1>2, <1>3, <1>4, <1>5
  <2>2. PICK dd, ss : dd = [w.dsp EXCEPT ![i] = s.d] /\ ss = [w.stream EXCEPT ![i] = rest]
    OBVIOUS
  <2>3. Landed(w, i) = [w EXCEPT !.dsp = dd, !.stream = ss, !.late = l, !.tells = t]
    BY <1>8, <2>2 DEF Turning
  <2>4. dd \in [Dsps -> DspType] /\ ss \in [Dsps -> Seq(Item)]
    BY <2>1, <2>2
  <2>5. /\ Landed(w, i) \in Turning
        /\ Landed(w, i).dsp = dd /\ Landed(w, i).stream = ss
        /\ Landed(w, i).gate = w.gate /\ Landed(w, i).held = w.held
        /\ Landed(w, i).passes = w.passes
        /\ Landed(w, i).late = l /\ Landed(w, i).tells = t
    BY <2>3, <2>4 DEF Turning
  <2> QED BY <2>2, <2>5
<1> QED BY <1>1, <1>5, <1>6, <1>9

LEMMA GatedTakes ==
    ASSUME Types, NEW w \in Turning, NEW i \in Dsps
    PROVE  /\ Gated(w, i) \in Turning
           /\ Gated(w, i).dsp = w.dsp /\ Gated(w, i).stream = w.stream
           /\ Gated(w, i).late = w.late
           /\ w.passes => Gated(w, i).passes
           /\ w.tells => Gated(w, i).tells
           /\ ~Gated(w, i).tells => Gated(w, i).held = w.held
           /\ \A j \in Dsps \ {i} : Gated(w, i).gate[j] = w.gate[j]
           /\ ~Gated(w, i).passes => Gated(w, i).gate[i] <= Ahead
<1>1. /\ w.dsp \in [Dsps -> DspType] /\ w.stream \in [Dsps -> Seq(Item)]
      /\ w.gate \in [Dsps -> Nat] /\ w.held \in [Dsps -> BOOLEAN] /\ w.since \in [Dsps -> Nat]
      /\ w.passes \in BOOLEAN /\ w.tells \in BOOLEAN
  BY DEF Turning
<1>2. PICK p \in BOOLEAN : p <=> Allowed(w.dsp, w.stream) > BaseGate
  OBVIOUS
<1>3. PICK h \in BOOLEAN : h <=> IF p THEN w.held[i] ELSE Holds(i)
  OBVIOUS
<1>4. HoldBegan(i) \in Nat
  BY DEF HoldBegan, Types, View
<1>5. PICK u \in Nat : u = IF p THEN w.since[i] ELSE IF Backlogged(i) THEN HoldBegan(i) ELSE 0
  BY <1>1, <1>4
<1>6. /\ Ahead \in Nat /\ GateOf(w.dsp, w.stream, i) \in Nat
      /\ ~p => GateOf(w.dsp, w.stream, i) <= Ahead
  BY <1>1, <1>2, GateBounds
<1>7. PICK g \in Nat : g = IF Runs(w.dsp, w.stream, i) THEN GateOf(w.dsp, w.stream, i) ELSE 0
  BY <1>6
<1>8. ~p => g <= Ahead
  BY <1>6, <1>7
<1>9. PICK q \in BOOLEAN, t \in BOOLEAN : (q <=> w.passes \/ p) /\ (t <=> w.tells \/ h # w.held[i])
  OBVIOUS
<1>10. Gated(w, i) = [w EXCEPT !.gate[i] = g, !.since[i] = u, !.held[i] = h,
                               !.passes = q, !.tells = t]
  <2>1. (IF Allowed(w.dsp, w.stream) > BaseGate THEN w.held[i] ELSE Holds(i)) = h
    BY <1>1, <1>2, <1>3 DEF Holds
  <2>2. (w.passes \/ Allowed(w.dsp, w.stream) > BaseGate) = q
    BY <1>2, <1>9
  <2>3. (w.tells \/ h # w.held[i]) = t
    BY <1>9
  <2>4. (IF Allowed(w.dsp, w.stream) > BaseGate THEN w.since[i]
         ELSE IF Backlogged(i) THEN HoldBegan(i) ELSE 0) = u
    BY <1>2, <1>5
  <2> QED BY <1>7, <2>1, <2>2, <2>3, <2>4 DEF Gated
<1>11. /\ Gated(w, i) \in Turning
       /\ Gated(w, i).dsp = w.dsp /\ Gated(w, i).stream = w.stream /\ Gated(w, i).late = w.late
       /\ Gated(w, i).passes = q /\ Gated(w, i).tells = t
       /\ Gated(w, i).held = [w.held EXCEPT ![i] = h]
       /\ Gated(w, i).gate = [w.gate EXCEPT ![i] = g]
  <2>1. PICK gg, ss, hh : /\ gg = [w.gate EXCEPT ![i] = g] /\ ss = [w.since EXCEPT ![i] = u]
                          /\ hh = [w.held EXCEPT ![i] = h]
    OBVIOUS
  <2>2. gg \in [Dsps -> Nat] /\ ss \in [Dsps -> Nat] /\ hh \in [Dsps -> BOOLEAN]
    BY <1>1, <2>1
  <2>3. Gated(w, i) = [w EXCEPT !.gate = gg, !.since = ss, !.held = hh, !.passes = q, !.tells = t]
    BY <1>10, <2>1 DEF Turning
  <2>4. /\ Gated(w, i) \in Turning
        /\ Gated(w, i).dsp = w.dsp /\ Gated(w, i).stream = w.stream
        /\ Gated(w, i).late = w.late
        /\ Gated(w, i).passes = q /\ Gated(w, i).tells = t
        /\ Gated(w, i).held = hh /\ Gated(w, i).gate = gg
    BY <2>2, <2>3 DEF Turning
  <2> QED BY <2>1, <2>4
<1>12. ~t => [w.held EXCEPT ![i] = h] = w.held
  BY <1>1, <1>9
<1>13. Gated(w, i).gate[i] = g /\ \A j \in Dsps \ {i} : Gated(w, i).gate[j] = w.gate[j]
  BY <1>1, <1>11
<1> QED BY <1>8, <1>9, <1>11, <1>12, <1>13

----------------------------------------------------------------------------
(***************************************************************************)
(* The worker's steps: a turn, and what a DSP does on the way to a cycle.  *)
(***************************************************************************)
\* What landed in front of a DSP, c items of its stream.
Took(i, c) ==
    /\ c \in 0 .. Len(stream[i])
    /\ stream'[i] = SubSeq(stream[i], c + 1, Len(stream[i]))

LEMMA TurnTakes ==
    ASSUME Types, Turn
    PROVE  /\ dsp' \in [Dsps -> DspType] /\ stream' \in [Dsps -> Seq(Item)]
           /\ gate' \in [Dsps -> Nat] /\ since' \in [Dsps -> Nat]
           /\ \A i \in Dsps : dsp'[i] = Served(i).d /\ Took(i, Served(i).n)
           /\ late' <=> (late \/ Served(1).late \/ Served(2).late)
           /\ stored' \in View /\ stored' = [stored EXCEPT !.held = stored'.held]
           /\ wkAt' \in {"chunk", "parked"}
           /\ "worker" \in notifying' \/ (stream' = stream /\ stored' = stored)
           /\ wkAt' = "parked" => "worker" \in notifying'
           /\ ~indulged' =>
                /\ \A i \in Dsps : gate'[i] <= Ahead
                /\ ~indulged \/ \A i \in Dsps : dsp'[i].pos <= Ahead
           /\ indulged' \in BOOLEAN /\ late' \in BOOLEAN
           /\ notifying' \in {notifying, notifying \cup {"worker"}}
<1> DEFINE Body(w) ==
        /\ dsp' = w.dsp /\ stream' = w.stream /\ gate' = w.gate /\ since' = w.since
        /\ stored' = [stored EXCEPT !.held = w.held]
        /\ late' = w.late
        /\ indulged' = \/ w.passes
                       \/ /\ indulged
                          /\ \E i \in Dsps : w.dsp[i].pos > Deadline(shown.uc + lead.dsp)
        /\ wkAt' = IF w.gate = <<0, 0>> THEN "parked" ELSE "chunk"
        /\ IF w.tells \/ w.gate = <<0, 0>> THEN Notify("worker") ELSE UNCHANGED notifying
<1>1. PICK w0 : w0 = [dsp |-> dsp, stream |-> stream, gate |-> gate, since |-> since,
                      held |-> stored.held, passes |-> FALSE, late |-> late, tells |-> FALSE]
  OBVIOUS
<1>2. \E w1 \in {Landed(w0, 1)} : \E w2 \in {Gated(w1, 1)} :
      \E w3 \in {Landed(w2, 2)} : \E w \in {Gated(w3, 2)} : Body(w)
  BY <1>1, Zenon DEF Turn
<1> HIDE DEF Body
<1>3. PICK w1, w2, w3, w : /\ w1 = Landed(w0, 1) /\ w2 = Gated(w1, 1)
                           /\ w3 = Landed(w2, 2) /\ w = Gated(w3, 2) /\ Body(w)
  BY <1>2, Zenon
<1>6. /\ dsp' = w.dsp /\ stream' = w.stream /\ gate' = w.gate /\ since' = w.since
      /\ stored' = [stored EXCEPT !.held = w.held]
      /\ late' = w.late
      /\ indulged' = \/ w.passes
                     \/ /\ indulged
                        /\ \E i \in Dsps : w.dsp[i].pos > Deadline(shown.uc + lead.dsp)
      /\ wkAt' = IF w.gate = <<0, 0>> THEN "parked" ELSE "chunk"
      /\ IF w.tells \/ w.gate = <<0, 0>> THEN Notify("worker") ELSE UNCHANGED notifying
  BY <1>3, Zenon DEF Body
<1>7. 1 \in Dsps /\ 2 \in Dsps /\ Dsps = {1, 2}
  BY DEF Dsps
<1>8. w0 \in Turning /\ stored \in View
  BY <1>1 DEF Types, Turning, View
<1>9. /\ w0.dsp = dsp /\ w0.stream = stream /\ w0.late = late /\ w0.held = stored.held
      /\ ~w0.passes /\ ~w0.tells
  BY <1>1
<1>10. /\ w1 \in Turning
       /\ w1.dsp = [dsp EXCEPT ![1] = Served(1).d]
       /\ w1.stream = [stream EXCEPT ![1] = SubSeq(stream[1], Served(1).n + 1, Len(stream[1]))]
       /\ w1.held = stored.held
       /\ w1.late <=> (late \/ Served(1).late)
       /\ w1.tells <=> Served(1).n > 0
  BY <1>3, <1>7, <1>8, <1>9, LandedTakes DEF Served
<1>11. /\ w2 \in Turning
       /\ w2.dsp = w1.dsp /\ w2.stream = w1.stream /\ w2.late = w1.late
       /\ w1.tells => w2.tells
       /\ ~w2.tells => w2.held = w1.held
       /\ ~w2.passes => w2.gate[1] <= Ahead
  BY <1>3, <1>7, <1>10, GatedTakes
<1>12. /\ dsp \in [Dsps -> DspType] /\ stream \in [Dsps -> Seq(Item)]
  BY DEF Types
<1>13. w2.dsp[2] = dsp[2] /\ w2.stream[2] = stream[2]
  BY <1>7, <1>10, <1>11, <1>12
<1>14. /\ w3 \in Turning
       /\ w3.dsp = [w2.dsp EXCEPT ![2] = Served(2).d]
       /\ w3.stream = [w2.stream EXCEPT ![2] = SubSeq(stream[2], Served(2).n + 1, Len(stream[2]))]
       /\ w3.held = w2.held /\ w3.passes = w2.passes /\ w3.gate = w2.gate
       /\ w3.late <=> (w2.late \/ Served(2).late)
       /\ w3.tells <=> (w2.tells \/ Served(2).n > 0)
  <2>1. PICK s : s = Served(2)
    OBVIOUS
  <2>2. s = Serve(w2.dsp[2], w2.stream[2])
    BY <1>13, <2>1 DEF Served
  <2>3. w2 \in Turning /\ w2.stream[2] = stream[2]
    BY <1>11, <1>13
  <2>4. /\ w3 \in Turning
        /\ w3.dsp = [w2.dsp EXCEPT ![2] = s.d]
        /\ w3.stream = [w2.stream EXCEPT ![2] = SubSeq(w2.stream[2], s.n + 1, Len(w2.stream[2]))]
        /\ w3.held = w2.held /\ w3.passes = w2.passes /\ w3.gate = w2.gate
        /\ w3.late <=> (w2.late \/ s.late)
        /\ w3.tells <=> (w2.tells \/ s.n > 0)
    BY <1>3, <1>7, <2>2, <2>3, LandedTakes
  <2> QED BY <2>1, <2>3, <2>4
<1>15. /\ w \in Turning
       /\ w.dsp = w3.dsp /\ w.stream = w3.stream /\ w.late = w3.late
       /\ w3.passes => w.passes
       /\ w3.tells => w.tells
       /\ ~w.tells => w.held = w3.held
       /\ w.gate[1] = w3.gate[1]
       /\ ~w.passes => w.gate[2] <= Ahead
  BY <1>3, <1>7, <1>14, GatedTakes
<1>16. \A i \in Dsps : Served(i).n \in 0 .. Len(stream[i])
  BY <1>12, ServeType DEF Served
<1>17. /\ dsp' \in [Dsps -> DspType] /\ stream' \in [Dsps -> Seq(Item)]
       /\ gate' \in [Dsps -> Nat] /\ since' \in [Dsps -> Nat] /\ w.held \in [Dsps -> BOOLEAN]
       /\ w.late \in BOOLEAN /\ w.passes \in BOOLEAN /\ w.tells \in BOOLEAN
  BY <1>6, <1>15 DEF Turning
<1>18. \A i \in Dsps : dsp'[i] = Served(i).d
  BY <1>6, <1>7, <1>10, <1>11, <1>12, <1>14, <1>15
<1>19. \A i \in Dsps : Took(i, Served(i).n)
  <2>1. \A i \in Dsps : stream'[i] = SubSeq(stream[i], Served(i).n + 1, Len(stream[i]))
    <3>1. w1.stream[1] = SubSeq(stream[1], Served(1).n + 1, Len(stream[1]))
      BY <1>7, <1>10, <1>12
    <3>2. w3.stream[2] = SubSeq(stream[2], Served(2).n + 1, Len(stream[2]))
      <4>1. w2.stream \in [Dsps -> Seq(Item)]
        BY <1>11 DEF Turning
      <4> QED BY <1>7, <1>14, <4>1
    <3>3. w3.stream[1] = w1.stream[1]
      <4>1. w2.stream \in [Dsps -> Seq(Item)]
        BY <1>11 DEF Turning
      <4> QED BY <1>7, <1>11, <1>14, <4>1
    <3>4. stream' = w3.stream
      BY <1>6, <1>15
    <3> QED BY <1>7, <3>1, <3>2, <3>3, <3>4
  <2> QED BY <1>16, <2>1 DEF Took
<1>20. late' <=> (late \/ Served(1).late \/ Served(2).late)
  BY <1>6, <1>10, <1>11, <1>14, <1>15, Zenon
<1>21. stored' \in View /\ stored'.held = w.held
  BY <1>6, <1>8, <1>17 DEF View
<1>22. wkAt' \in {"chunk", "parked"}
  BY <1>6
<1>23. w.tells \/ w.gate = <<0, 0>> => "worker" \in notifying'
  BY <1>6 DEF Notify
<1>24. ~w.tells => stream' = stream /\ stored' = stored
  <2> SUFFICES ASSUME ~w.tells PROVE stream' = stream /\ stored' = stored
    OBVIOUS
  <2>1. ~w3.tells /\ ~w2.tells /\ ~w1.tells
    BY <1>11, <1>14, <1>15, Zenon
  <2>2. w.held = stored.held
    BY <1>10, <1>11, <1>14, <1>15, <2>1, Zenon
  <2>3. ~(Served(1).n > 0) /\ ~(Served(2).n > 0)
    BY <1>10, <1>14, <2>1, Zenon
  <2>4. Served(1).n = 0 /\ Served(2).n = 0
    BY <1>7, <1>16, <2>3
  <2>5. \A i \in Dsps : stream'[i] = stream[i]
    <3>1. \A i \in Dsps : SubSeq(stream[i], 0 + 1, Len(stream[i])) = stream[i]
      BY <1>12, SubSeqItems
    <3> QED BY <1>7, <1>19, <2>4, <3>1 DEF Took
  <2>6. stream' = stream
    BY <1>12, <1>17, <2>5
  <2> QED BY <1>6, <1>8, <2>2, <2>6 DEF View
<1>25. ~indulged' =>
         /\ \A i \in Dsps : gate'[i] <= Ahead
         /\ ~indulged \/ \A i \in Dsps : dsp'[i].pos <= Ahead
  <2> SUFFICES ASSUME ~indulged'
               PROVE  /\ \A i \in Dsps : gate'[i] <= Ahead
                      /\ ~indulged \/ \A i \in Dsps : dsp'[i].pos <= Ahead
    OBVIOUS
  <2>1. ~w.passes /\ (~indulged \/ ~\E i \in Dsps : w.dsp[i].pos > Ahead)
    BY <1>6, Zenon DEF Ahead
  <2>2. ~w2.passes
    BY <1>14, <1>15, <2>1, Zenon
  <2>3. \A i \in Dsps : gate'[i] <= Ahead
    BY <1>6, <1>7, <1>11, <1>14, <1>15, <2>1, <2>2
  <2>4. Ahead \in Nat /\ \A i \in Dsps : dsp'[i].pos \in Nat
    BY <1>7, <1>12, <1>17, GateBounds DEF DspType
  <2>5. (~\E i \in Dsps : dsp'[i].pos > Ahead) => \A i \in Dsps : dsp'[i].pos <= Ahead
    BY <2>4
  <2> QED BY <1>6, <2>1, <2>3, <2>5
<1>26. indulged' \in BOOLEAN /\ late' \in BOOLEAN
  BY <1>6, <1>17
<1>27. notifying' \in {notifying, notifying \cup {"worker"}}
  BY <1>6 DEF Notify
<1>28. stored' = [stored EXCEPT !.held = stored'.held]
  BY <1>6, <1>21
<1>29. wkAt' = "parked" => "worker" \in notifying'
  BY <1>6, <1>23
<1> QED
  BY <1>17, <1>18, <1>19, <1>20, <1>21, <1>22, <1>23, <1>24, <1>25, <1>26, <1>27, <1>28, <1>29

LEMMA RanTakes ==
    ASSUME Types, NEW d \in DspType, NEW items \in Seq(Item), NEW stop \in Nat,
           NEW r \in Ran(d, items, stop)
    PROVE  /\ r.d \in DspType
           /\ r.d.pos >= stop /\ r.d.pos <= stop + setup.over
           /\ r.d.stuck = d.stuck
           /\ r.n \in {0, 1} /\ (r.n = 1 => items # <<>>)
           /\ r.w \in Nat
<1>1. setup.over \in Nat
  BY DEF Types, Session
<1> DEFINE E == stop .. stop + setup.over
           R == IF d.rx = 0 THEN {"none"} ELSE {"none", "early", "late"}
           B == {FALSE, d.busy}
           W == {0, Min({1, d.words})}
           Result(end, read, busy, w) == RunTo(d, items, end, read, busy, w)
<1>2. PICK end \in E, read \in R, busy \in B, w \in W : r = Result(end, read, busy, w)
  <2>1. Ran(d, items, stop)
          = {Result(end, read, busy, w) : end \in E, read \in R, busy \in B, w \in W}
    BY SMT DEF Ran
  <2> HIDE DEF E, R, B, W, Result
  <2> QED BY <2>1
<1>3. /\ d.pos \in Nat /\ d.rx \in Nat /\ d.last \in Nat /\ d.busy \in BOOLEAN
      /\ d.words \in Nat /\ d.stuck \in BOOLEAN
  BY DEF DspType
<1>4. end \in Nat /\ end >= stop /\ end <= stop + setup.over
  BY <1>1
<1>5. PICK c \in Nat : c = IF read = "early" THEN d.pos + 1 ELSE end
  BY <1>3, <1>4
<1>6. PICK lands \in BOOLEAN :
          lands <=> (/\ read # "none" /\ d.rx = 1 /\ items # <<>> /\ Head(items).kind = "data"
                     /\ Deadline(Head(items).uc) <= c)
  OBVIOUS
<1>7. PICK x \in Nat : x = IF read = "none" \/ lands THEN d.rx ELSE d.rx - 1
  BY <1>3
<1>8. PICK y \in Nat : y = IF lands THEN c ELSE d.last
  BY <1>3
<1>9. w \in Nat /\ w <= d.words
  BY <1>3, MinOfTwo
<1>10. PICK z \in Nat : z = d.words - w
  BY <1>3, <1>9
<1>11. RunTo(d, items, end, read, busy, w)
         = [d |-> [d EXCEPT !.pos = end, !.rx = x, !.last = y, !.busy = busy, !.words = z],
            n |-> IF lands THEN 1 ELSE 0, w |-> w]
  BY <1>3, <1>5, <1>6, <1>7, <1>8, <1>10 DEF RunTo, DspType
<1>12. /\ r.d = [d EXCEPT !.pos = end, !.rx = x, !.last = y, !.busy = busy, !.words = z]
       /\ r.n = (IF lands THEN 1 ELSE 0) /\ r.w = w
  BY <1>2, <1>11
<1>13. r.d \in DspType /\ r.d.pos = end /\ r.d.stuck = d.stuck
  BY <1>3, <1>4, <1>12 DEF DspType
<1>14. r.n \in {0, 1} /\ (r.n = 1 => items # <<>>)
  BY <1>6, <1>12
<1> QED BY <1>4, <1>9, <1>12, <1>13, <1>14

LEMMA RestFirst ==
    ASSUME Types, NEW i \in Dsps, NEW c \in 0 .. Len(stream[i])
    PROVE  /\ Rest(i, c) \in [Dsps -> Seq(Item)]
           /\ Rest(i, c)[i] = SubSeq(stream[i], c + 1, Len(stream[i]))
           /\ Rest(i, c)[i] \in Seq(Item) /\ Len(Rest(i, c)[i]) = Len(stream[i]) - c
           /\ Rest(i, c)[i] # <<>> => Head(Rest(i, c)[i]) = stream[i][c + 1]
           /\ \A j \in Dsps \ {i} : Rest(i, c)[j] = stream[j]
<1>1. stream \in [Dsps -> Seq(Item)]
  BY DEF Types
<1>2. PICK s : s = SubSeq(stream[i], c + 1, Len(stream[i]))
  OBVIOUS
<1>3. /\ s \in Seq(Item) /\ Len(s) = Len(stream[i]) - c
      /\ \A k \in 1 .. Len(stream[i]) - c : s[k] = stream[i][k + c]
  BY <1>1, <1>2, SubSeqItems
<1>4. Rest(i, c) = [stream EXCEPT ![i] = s]
  BY <1>2 DEF Rest
<1>5. /\ Rest(i, c) \in [Dsps -> Seq(Item)] /\ Rest(i, c)[i] = s
      /\ \A j \in Dsps \ {i} : Rest(i, c)[j] = stream[j]
  BY <1>1, <1>3, <1>4
<1>6. s # <<>> => Head(s) = stream[i][c + 1]
  <2> SUFFICES ASSUME s # <<>> PROVE Head(s) = stream[i][c + 1]
    OBVIOUS
  <2>1. Len(s) >= 1 /\ Head(s) = s[1]
    BY <1>3
  <2>2. 1 \in 1 .. Len(stream[i]) - c /\ Len(stream[i]) \in Nat
    BY <1>1, <1>3, <2>1
  <2>3. s[1] = stream[i][1 + c]
    BY <1>3, <2>2
  <2>4. c \in Nat /\ 1 + c = c + 1
    OBVIOUS
  <2> QED BY <2>1, <2>3, <2>4
<1> QED BY <1>2, <1>3, <1>5, <1>6

\* A DSP runs on to a cycle with what is left of its stream: what it is afterwards.
Moves(i, stop) ==
    LET s == Served(i) IN
    \E r \in Ran(s.d, Rest(i, s.n)[i], stop) :
        /\ dsp' = [dsp EXCEPT ![i] = r.d]
        /\ stream' = Rest(i, s.n + r.n)
        /\ tx' = Sent(i, r.w, r.d.pos)
        /\ late' = (late \/ s.late)

\* The cycle is not past the date of the item that waits in front, when that is to come.
StopsAtItem(i, stop) ==
    LET s == Served(i) IN
    s.n < Len(stream[i]) /\ ~s.d.stuck => stop <= Deadline(stream[i][s.n + 1].uc)

LEMMA MovesTakes ==
    ASSUME Types, NEW i \in Dsps, NEW stop \in Nat, Moves(i, stop)
    PROVE  /\ dsp' \in [Dsps -> DspType] /\ stream' \in [Dsps -> Seq(Item)]
           /\ tx' \in [Dsps -> Seq(Nat)]
           /\ late' <=> (late \/ Served(i).late)
           /\ dsp'[i].pos <= stop + setup.over /\ dsp'[i].stuck = Served(i).d.stuck
           /\ \E c : Took(i, c) /\ Served(i).n <= c
           /\ \A j \in Dsps \ {i} : dsp'[j] = dsp[j] /\ stream'[j] = stream[j]
<1>1. /\ dsp \in [Dsps -> DspType] /\ stream \in [Dsps -> Seq(Item)] /\ tx \in [Dsps -> Seq(Nat)]
  BY DEF Types
<1>2. PICK s : s = Served(i)
  OBVIOUS
<1>3. PICK r \in Ran(s.d, Rest(i, s.n)[i], stop) :
        /\ dsp' = [dsp EXCEPT ![i] = r.d]
        /\ stream' = Rest(i, s.n + r.n)
        /\ tx' = Sent(i, r.w, r.d.pos)
        /\ late' = (late \/ s.late)
  BY <1>2, Zenon DEF Moves
<1>4. s.n \in 0 .. Len(stream[i]) /\ s.d \in DspType
  BY <1>1, <1>2, ServeType DEF Served
<1>5. Rest(i, s.n)[i] \in Seq(Item) /\ Len(Rest(i, s.n)[i]) = Len(stream[i]) - s.n
  BY <1>4, RestFirst
<1>6. /\ r.d \in DspType
      /\ r.d.pos <= stop + setup.over
      /\ r.d.stuck = s.d.stuck
      /\ r.n \in {0, 1} /\ (r.n = 1 => Rest(i, s.n)[i] # <<>>)
      /\ r.w \in Nat
  BY <1>4, <1>5, RanTakes
<1>7. PICK c : c = s.n + r.n
  OBVIOUS
<1>8. c \in 0 .. Len(stream[i]) /\ s.n <= c
  <2>1. Len(stream[i]) \in Nat
    BY <1>1
  <2>2. CASE r.n = 0
    BY <1>4, <1>7, <2>2
  <2>3. CASE r.n = 1
    <3>1. Len(Rest(i, s.n)[i]) # 0
      BY <1>5, <1>6, <2>3
    <3> QED BY <1>4, <1>5, <1>7, <2>1, <2>3, <3>1
  <2> QED BY <1>6, <2>2, <2>3
<1>9. /\ stream' \in [Dsps -> Seq(Item)]
      /\ stream'[i] = SubSeq(stream[i], c + 1, Len(stream[i]))
      /\ \A j \in Dsps \ {i} : stream'[j] = stream[j]
  BY <1>3, <1>7, <1>8, RestFirst
<1>10. /\ dsp' \in [Dsps -> DspType] /\ dsp'[i] = r.d
       /\ \A j \in Dsps \ {i} : dsp'[j] = dsp[j]
  BY <1>1, <1>3, <1>6
<1>11. tx' \in [Dsps -> Seq(Nat)]
  <2>1. r.d.pos \in Nat
    BY <1>6 DEF DspType
  <2>2. Append(tx[i], r.d.pos) \in Seq(Nat)
    BY <1>1, <2>1
  <2> QED BY <1>1, <1>3, <2>2 DEF Sent
<1>12. late' <=> (late \/ s.late)
  BY <1>3
<1>13. Took(i, c)
  BY <1>8, <1>9 DEF Took
<1> QED BY <1>2, <1>6, <1>8, <1>9, <1>10, <1>11, <1>12, <1>13

LEMMA ChunkTakes ==
    ASSUME Types, Chunk
    PROVE  \E i \in Dsps, stop \in Nat :
              /\ Moves(i, stop) /\ StopsAtItem(i, stop) /\ stop <= gate[i]
              /\ gate' = <<0, 0>>
              /\ \/ wkAt' = "turn" /\ linkTo' = linkTo /\ PublishDsps(dsp')
                 \/ /\ wkAt' = "link" /\ linkTo' \in Dsps \X Nat
                    /\ linkTo'[2] <= dsp'[i].pos
                    /\ UNCHANGED <<stored, notifying>>
<1>1. PICK i : i = Laggard
  OBVIOUS
<1>2. i \in Dsps
  BY <1>1 DEF Laggard, Dsps
<1>3. PICK s : s = Served(i)
  OBVIOUS
<1>4. PICK items : items = Rest(i, s.n)[i]
  OBVIOUS
<1>5. PICK r \in Ran(s.d, items, Stop(i, s.d, items)) :
          /\ dsp' = [dsp EXCEPT ![i] = r.d]
          /\ stream' = Rest(i, s.n + r.n)
          /\ tx' = Sent(i, r.w, r.d.pos)
          /\ late' = (late \/ s.late)
          /\ \/ /\ wkAt' = "turn" /\ UNCHANGED linkTo /\ PublishDsps(dsp')
             \/ /\ ~Backlogged(Peer(i))
                /\ dsp[Peer(i)].pos < r.d.pos
                /\ linkTo' = <<Peer(i), Min({r.d.pos, dsp[Peer(i)].pos + Clamp})>>
                /\ wkAt' = "link" /\ UNCHANGED <<stored, notifying>>
  <2> DEFINE Body(j, s1, r) ==
          /\ dsp' = [dsp EXCEPT ![j] = r.d]
          /\ stream' = Rest(j, s1.n + r.n)
          /\ tx' = Sent(j, r.w, r.d.pos)
          /\ late' = (late \/ s1.late)
          /\ \/ /\ wkAt' = "turn" /\ UNCHANGED linkTo /\ PublishDsps(dsp')
             \/ /\ ~Backlogged(Peer(j))
                /\ dsp[Peer(j)].pos < r.d.pos
                /\ linkTo' = <<Peer(j), Min({r.d.pos, dsp[Peer(j)].pos + Clamp})>>
                /\ wkAt' = "link" /\ UNCHANGED <<stored, notifying>>
  <2>1. \E s1 \in {Served(Laggard)} : \E it \in {Rest(Laggard, s1.n)[Laggard]} :
        \E r \in Ran(s1.d, it, Stop(Laggard, s1.d, it)) : Body(Laggard, s1, r)
    BY Zenon DEF Chunk
  <2>2. \E r \in Ran(s.d, items, Stop(i, s.d, items)) : Body(i, s, r)
    <3> HIDE DEF Body
    <3> QED BY <1>1, <1>3, <1>4, <2>1
  <2> QED BY <2>2, Zenon
<1>6. PICK stop : stop = Stop(i, s.d, items)
  OBVIOUS
<1>7. /\ dsp \in [Dsps -> DspType] /\ stream \in [Dsps -> Seq(Item)] /\ gate \in [Dsps -> Nat]
  BY DEF Types
<1>8. /\ s.n \in 0 .. Len(stream[i]) /\ s.d \in DspType /\ s.d.pos = dsp[i].pos
      /\ s.d.stuck <=> s.n < Len(stream[i]) /\ Deadline(stream[i][s.n + 1].uc) <= dsp[i].pos
  BY <1>2, <1>3, <1>7, ServeType DEF Served
<1>9. /\ items \in Seq(Item) /\ Len(items) = Len(stream[i]) - s.n
      /\ items # <<>> => Head(items) = stream[i][s.n + 1]
  BY <1>2, <1>4, <1>8, RestFirst
<1>10. PICK g \in Nat, p \in Nat : g = gate[i] /\ p = s.d.pos
  BY <1>2, <1>7, <1>8 DEF DspType
<1>11. PICK q \in Nat : q = p + Frame
  BY PairAssumption
<1>12. /\ stop \in Nat /\ stop <= g
       /\ items # <<>> /\ Deadline(Head(items).uc) > p => stop <= Deadline(Head(items).uc)
  <2>1. CASE items # <<>> /\ Deadline(Head(items).uc) > p
    <3>1. Head(items) \in Item
      BY <1>9, <2>1
    <3>2. PICK e \in Nat : e = Deadline(Head(items).uc)
      BY <3>1, DeadlineNat DEF Item
    <3>3. stop = Min({g, q} \cup {e})
      BY <1>6, <1>10, <1>11, <2>1, <3>2 DEF Stop
    <3>4. {g, q} \cup {e} = {g, q, e}
      OBVIOUS
    <3>5. Min({g, q, e}) \in {g, q, e} /\ Min({g, q, e}) <= g /\ Min({g, q, e}) <= e
      BY MinOfThree
    <3> QED BY <3>2, <3>3, <3>4, <3>5
  <2>2. CASE ~(items # <<>> /\ Deadline(Head(items).uc) > p)
    <3>1. stop = Min({g, q})
      <4>1. stop = Min({g, q} \cup {})
        BY <1>6, <1>10, <1>11, <2>2 DEF Stop
      <4>2. {g, q} \cup {} = {g, q}
        OBVIOUS
      <4> QED BY <4>1, <4>2
    <3>2. Min({g, q}) \in {g, q} /\ Min({g, q}) <= g
      BY MinOfTwo
    <3> QED BY <2>2, <3>1, <3>2
  <2> QED BY <2>1, <2>2
<1>13. StopsAtItem(i, stop)
  <2> SUFFICES ASSUME s.n < Len(stream[i]), ~s.d.stuck
               PROVE  stop <= Deadline(stream[i][s.n + 1].uc)
    BY <1>3 DEF StopsAtItem
  <2>1. items # <<>>
    BY <1>7, <1>8, <1>9
  <2>2. Head(items) = stream[i][s.n + 1] /\ Head(items) \in Item
    BY <1>9, <2>1
  <2>3. Deadline(Head(items).uc) \in Nat
    BY <2>2, DeadlineNat DEF Item
  <2>4. ~(Deadline(Head(items).uc) <= p)
    BY <1>8, <1>10, <2>2
  <2>5. Deadline(Head(items).uc) > p
    BY <2>3, <2>4
  <2> QED BY <1>12, <2>1, <2>2, <2>5
<1>14. Moves(i, stop)
  <2>1. r \in Ran(s.d, Rest(i, s.n)[i], stop)
    BY <1>4, <1>5, <1>6
  <2> QED BY <1>3, <1>5, <2>1, Zenon DEF Moves
<1>15. dsp'[i] = r.d
  BY <1>2, <1>5, <1>7
<1>16. r.d.pos \in Nat
  <2>1. dsp' \in [Dsps -> DspType]
    BY <1>2, <1>12, <1>14, MovesTakes
  <2> QED BY <1>2, <1>15, <2>1 DEF DspType
<1>17. ASSUME linkTo' = <<Peer(i), Min({r.d.pos, dsp[Peer(i)].pos + Clamp})>>
       PROVE  linkTo' \in Dsps \X Nat /\ linkTo'[2] <= dsp'[i].pos
  <2>1. Peer(i) \in Dsps
    BY <1>2 DEF Peer, Dsps
  <2>2. dsp[Peer(i)].pos + Clamp \in Nat
    <3>1. dsp[Peer(i)] \in DspType
      BY <1>7, <2>1
    <3>2. dsp[Peer(i)].pos \in Nat
      BY <3>1 DEF DspType
    <3>3. Clamp \in Nat
      BY PairAssumption
    <3> QED BY <3>2, <3>3
  <2>3. PICK a \in Nat, b \in Nat : a = r.d.pos /\ b = dsp[Peer(i)].pos + Clamp
    BY <1>16, <2>2
  <2>4. Min({a, b}) \in {a, b} /\ Min({a, b}) <= a
    BY MinOfTwo
  <2> QED BY <1>15, <1>17, <2>1, <2>3, <2>4
<1>18. gate' = <<0, 0>>
  BY DEF Chunk
<1>19. \/ wkAt' = "turn" /\ linkTo' = linkTo /\ PublishDsps(dsp')
       \/ /\ wkAt' = "link" /\ linkTo' \in Dsps \X Nat
          /\ linkTo'[2] <= dsp'[i].pos
          /\ UNCHANGED <<stored, notifying>>
  BY <1>5, <1>17
<1> QED BY <1>2, <1>10, <1>12, <1>13, <1>14, <1>18, <1>19

LEMMA LinkTakes ==
    ASSUME Types, Link
    PROVE  \E i \in Dsps :
              /\ i = linkTo[1]
              /\ \/ \E stop \in Nat :
                      /\ Moves(i, stop) /\ StopsAtItem(i, stop) /\ stop <= linkTo[2]
                      /\ wkAt' = wkAt /\ linkTo' = linkTo /\ stored' = stored
                      /\ notifying' \in {notifying, notifying \cup {"worker"}}
                 \/ /\ wkAt' = "turn" /\ PublishDsps(dsp)
                    /\ UNCHANGED <<dsp, stream, tx, late>>
<1>1. wkAt = "link" /\ linkTo \in Dsps \X Nat
  BY DEF Types, Link
<1>2. PICK i : i = linkTo[1]
  OBVIOUS
<1>3. i \in Dsps /\ linkTo[2] \in Nat
  BY <1>1, <1>2
<1>4. CASE /\ wkAt' = "turn" /\ linkTo' = <<>> /\ PublishDsps(dsp)
           /\ UNCHANGED <<dsp, stream, tx, late>>
  BY <1>2, <1>3, <1>4
<1>5. ASSUME ~(/\ wkAt' = "turn" /\ linkTo' = <<>> /\ PublishDsps(dsp)
               /\ UNCHANGED <<dsp, stream, tx, late>>)
      PROVE  \E stop \in Nat :
                 /\ Moves(i, stop) /\ StopsAtItem(i, stop) /\ stop <= linkTo[2]
                 /\ wkAt' = wkAt /\ linkTo' = linkTo /\ stored' = stored
                 /\ notifying' \in {notifying, notifying \cup {"worker"}}
  <2>1. PICK s : s = Served(i)
    OBVIOUS
  <2>2. PICK items : items = Rest(i, s.n)[i]
    OBVIOUS
  <2>3. PICK due : due = IF items = <<>> THEN 0 ELSE Deadline(Head(items).uc)
    OBVIOUS
  <2>4. PICK stop : stop = IF due > s.d.pos THEN Min({linkTo[2], due}) ELSE linkTo[2]
    OBVIOUS
  <2>5. /\ \E r \in Ran(s.d, items, stop) :
             /\ dsp' = [dsp EXCEPT ![i] = r.d]
             /\ stream' = Rest(i, s.n + r.n)
             /\ tx' = Sent(i, r.w, r.d.pos)
             /\ late' = (late \/ s.late)
             /\ IF s.n + r.n > 0 THEN Notify("worker") ELSE UNCHANGED notifying
        /\ UNCHANGED <<wkAt, linkTo, stored>>
    <3> DEFINE Body(s1, it) ==
               LET due1 == IF it = <<>> THEN 0 ELSE Deadline(Head(it).uc)
                   stop1 == IF due1 > s1.d.pos THEN Min({linkTo[2], due1}) ELSE linkTo[2]
               IN \E r \in Ran(s1.d, it, stop1) :
                     /\ dsp' = [dsp EXCEPT ![i] = r.d]
                     /\ stream' = Rest(i, s1.n + r.n)
                     /\ tx' = Sent(i, r.w, r.d.pos)
                     /\ late' = (late \/ s1.late)
                     /\ IF s1.n + r.n > 0 THEN Notify("worker") ELSE UNCHANGED notifying
    <3>1. /\ \E s1 \in {Served(i)} : \E it \in {Rest(i, s1.n)[i]} : Body(s1, it)
          /\ UNCHANGED <<wkAt, linkTo, stored>>
      BY <1>2, <1>5, Zenon DEF Link
    <3>2. Body(s, items)
      <4> HIDE DEF Body
      <4> QED BY <2>1, <2>2, <3>1
    <3> QED BY <2>3, <2>4, <3>1, <3>2
  <2>6. /\ dsp \in [Dsps -> DspType] /\ stream \in [Dsps -> Seq(Item)]
    BY DEF Types
  <2>7. /\ s.n \in 0 .. Len(stream[i]) /\ s.d \in DspType /\ s.d.pos = dsp[i].pos
        /\ s.d.stuck <=> s.n < Len(stream[i]) /\ Deadline(stream[i][s.n + 1].uc) <= dsp[i].pos
    BY <1>3, <2>1, <2>6, ServeType DEF Served
  <2>8. /\ items \in Seq(Item) /\ Len(items) = Len(stream[i]) - s.n
        /\ items # <<>> => Head(items) = stream[i][s.n + 1]
    BY <1>3, <2>2, <2>7, RestFirst
  <2>9. due \in Nat
    <3>1. CASE items = <<>>
      BY <2>3, <3>1
    <3>2. CASE items # <<>>
      <4>1. Head(items) \in Item
        BY <2>8, <3>2
      <4>2. Deadline(Head(items).uc) \in Nat
        BY <4>1, DeadlineNat DEF Item
      <4> QED BY <2>3, <3>2, <4>2
    <3> QED BY <3>1, <3>2
  <2>10. PICK a \in Nat, p \in Nat : a = linkTo[2] /\ p = s.d.pos
    BY <1>3, <2>7 DEF DspType
  <2>11. Min({a, due}) \in {a, due} /\ Min({a, due}) <= a /\ Min({a, due}) <= due
    BY <2>9, MinOfTwo
  <2>12. stop \in Nat /\ stop <= a /\ (due > p => stop <= due)
    BY <2>4, <2>9, <2>10, <2>11
  <2>13. StopsAtItem(i, stop)
    <3> SUFFICES ASSUME s.n < Len(stream[i]), ~s.d.stuck
                 PROVE  stop <= Deadline(stream[i][s.n + 1].uc)
      BY <2>1 DEF StopsAtItem
    <3>1. items # <<>>
      BY <1>3, <2>6, <2>7, <2>8
    <3>2. due = Deadline(stream[i][s.n + 1].uc)
      BY <2>3, <2>8, <3>1
    <3>3. ~(due <= p)
      BY <2>7, <2>10, <3>2
    <3>4. due > p
      BY <2>9, <3>3
    <3> QED BY <2>12, <3>2, <3>4
  <2>14. Moves(i, stop)
    BY <2>1, <2>2, <2>5, Zenon DEF Moves
  <2>15. notifying' \in {notifying, notifying \cup {"worker"}}
    BY <2>5 DEF Notify
  <2> QED BY <2>5, <2>10, <2>12, <2>13, <2>14, <2>15
<1> QED BY <1>2, <1>3, <1>4, <1>5

----------------------------------------------------------------------------
(***************************************************************************)
(* The audio thread's steps.                                               *)
(***************************************************************************)
\* Nothing was written to a DSP, or one word or command at the UC's position.
Pushes ==
    \/ stream' = stream
    \/ \E j \in Dsps : \E item \in Item :
          /\ stream' = [stream EXCEPT ![j] = Append(stream[j], item)]
          /\ item.uc = uc /\ item.ahead = indulged

LEMMA PushTakes ==
    ASSUME Types, left # <<>>, Push(Head(left).dsp, Head(left).op)
    PROVE  /\ stream' \in [Dsps -> Seq(Item)] /\ left' \in Seq(HostOp) /\ Pushes
           /\ notifying' = notifying \cup {"uc"}
<1>1. PICK op : op = Head(left)
  OBVIOUS
<1>2. left \in Seq(HostOp) /\ op \in HostOp
  BY <1>1 DEF Types
<1>3. op.op \in {"data", "command", "read"} /\ op.dsp \in Dsps
  BY <1>2 DEF HostOp
<1>4. PICK item : item = [kind |-> op.op, uc |-> uc, ahead |-> indulged]
  OBVIOUS
<1>5. item \in Item /\ item.uc = uc /\ item.ahead = indulged
  BY <1>3, <1>4 DEF Types, Item
<1>6. stream' = [stream EXCEPT ![op.dsp] = Append(stream[op.dsp], item)] /\ left' = Tail(left)
  BY <1>1, <1>4 DEF Push
<1>7. stream \in [Dsps -> Seq(Item)]
  BY DEF Types
<1>8. Append(stream[op.dsp], item) \in Seq(Item)
  BY <1>3, <1>5, <1>7
<1>9. stream' \in [Dsps -> Seq(Item)]
  BY <1>3, <1>6, <1>7, <1>8
<1>10. left' \in Seq(HostOp)
  BY <1>2, <1>6
<1>11. Pushes
  BY <1>3, <1>5, <1>6 DEF Pushes
<1>12. notifying' = notifying \cup {"uc"}
  BY DEF Push, Notify
<1> QED BY <1>9, <1>10, <1>11, <1>12

\* The steps of the audio thread, its notifications among them.
UcActs == Advance \/ UcRuns \/ RoundEnds \/ Drain("uc")

\* What the audio thread leaves alone, and how its position and view move.
UcFrame ==
    /\ UNCHANGED <<setup, lead, wkVars>>
    /\ uc' \in Nat /\ uc <= uc' /\ blocks' \in Nat /\ left' \in Seq(HostOp)
    /\ stream' \in [Dsps -> Seq(Item)] /\ Pushes
    /\ tx' \in [Dsps -> Seq(Nat)]
    /\ stored' = [stored EXCEPT !.uc = uc']
    /\ shown' = [shown EXCEPT !.uc = shown'.uc]
    /\ shown'.uc \in {shown.uc, uc}

LEMMA UcMoves ==
    ASSUME Types, UcPlaces, UcActs
    PROVE  UcFrame
<1>1. /\ uc \in Nat /\ blocks \in Nat /\ left \in Seq(HostOp)
      /\ stream \in [Dsps -> Seq(Item)] /\ tx \in [Dsps -> Seq(Nat)]
      /\ stored \in View /\ shown \in View
      /\ stored.uc = uc
  BY DEF Types, UcPlaces
<1>2. stored = [stored EXCEPT !.uc = uc] /\ shown = [shown EXCEPT !.uc = shown.uc]
  BY <1>1 DEF View
<1>3. [stored EXCEPT !.uc = uc].uc = uc /\ [shown EXCEPT !.uc = uc].uc = uc
  BY <1>1 DEF View
<1>4. CASE Advance
  <2>1. /\ blocks' = blocks + 1
        /\ UNCHANGED <<setup, lead, wkVars, uc, left, stream, tx, stored, shown>>
    BY <1>4 DEF Advance, UcUnchanged
  <2> QED BY <1>1, <1>2, <2>1 DEF UcFrame, Pushes
<1>5. CASE Step
  <2>1. /\ UNCHANGED <<setup, lead, wkVars, uc, left, blocks, stream, tx, shown>>
        /\ stored' = [stored EXCEPT !.uc = uc]
    BY <1>5 DEF Step, UcUnchanged, Publish
  <2> QED BY <1>1, <1>2, <2>1 DEF UcFrame, Pushes
<1>6. CASE Decide
  <2>1. /\ UNCHANGED <<setup, lead, wkVars, uc, left, blocks, stream, tx, shown>>
        /\ stored' = [stored EXCEPT !.uc = uc] \/ stored' = stored
    BY <1>6 DEF Decide, UcUnchanged, Publish
  <2> QED BY <1>1, <1>2, <2>1 DEF UcFrame, Pushes
<1>7. CASE Execute
  <2>1. /\ UNCHANGED <<setup, lead, wkVars, left, blocks, stream, tx, shown>>
        /\ uc' = uc + 1 /\ stored' = [stored EXCEPT !.uc = uc + 1]
    BY <1>7 DEF Execute, UcUnchanged
  <2> QED BY <1>1, <1>2, <2>1 DEF UcFrame, Pushes
<1>8. CASE HostAccess
  <2>1. UNCHANGED <<setup, lead, wkVars, uc, blocks, tx, shown>> /\ left # <<>>
    BY <1>8 DEF HostAccess, UcUnchanged
  <2>2. stored' = [stored EXCEPT !.uc = uc] \/ stored' = stored
    BY <1>8 DEF HostAccess, Publish
  <2>3. \/ Push(Head(left).dsp, Head(left).op)
        \/ stream' = stream /\ left' \in {left, Tail(left)}
    BY <1>8 DEF HostAccess
  <2>4. Tail(left) \in Seq(HostOp)
    BY <1>1, <2>1
  <2>5. stream' \in [Dsps -> Seq(Item)] /\ left' \in Seq(HostOp) /\ Pushes
    <3>1. CASE Push(Head(left).dsp, Head(left).op)
      BY <2>1, <3>1, PushTakes
    <3>2. CASE stream' = stream /\ left' \in {left, Tail(left)}
      BY <1>1, <2>4, <3>2 DEF Pushes
    <3> QED BY <2>3, <3>1, <3>2
  <2> QED BY <1>1, <1>2, <2>1, <2>2, <2>5 DEF UcFrame
<1>9. CASE PushAfterWait
  <2>1. /\ UNCHANGED <<setup, lead, wkVars, uc, blocks, tx, stored, shown>>
        /\ Push(Head(left).dsp, Head(left).op) /\ ucAt = "push"
    BY <1>9 DEF PushAfterWait, UcUnchanged
  <2>2. stream' \in [Dsps -> Seq(Item)] /\ left' \in Seq(HostOp) /\ Pushes
    BY <2>1, PushTakes DEF UcPlaces
  <2> QED BY <1>1, <1>2, <2>1, <2>2 DEF UcFrame
<1>10. CASE ReadWord
  <2>1. /\ UNCHANGED <<setup, lead, wkVars, uc, blocks, left, stream, stored, shown>>
        /\ \E i \in Dsps : tx[i] # <<>> /\ tx' = [tx EXCEPT ![i] = Tail(tx[i])]
    BY <1>10 DEF ReadWord, ucVars
  <2>2. tx' \in [Dsps -> Seq(Nat)]
    <3>1. PICK i \in Dsps : tx[i] # <<>> /\ tx' = [tx EXCEPT ![i] = Tail(tx[i])]
      BY <2>1
    <3>2. Tail(tx[i]) \in Seq(Nat)
      BY <1>1, <3>1
    <3> QED BY <1>1, <3>1, <3>2
  <2> QED BY <1>1, <1>2, <2>1, <2>2 DEF UcFrame, Pushes
<1>11. CASE BeginWait
  <2>1. /\ UNCHANGED <<setup, lead, wkVars, uc, blocks, left, stream, tx, stored>>
        /\ shown' = shown \/ shown' = [shown EXCEPT !.uc = uc]
    BY <1>1, <1>11 DEF BeginWait, Resume, FlushOf, Flushed
  <2> QED BY <1>1, <1>2, <1>3, <2>1 DEF UcFrame, Pushes
<1>12. CASE Round
  <2>1. /\ UNCHANGED <<setup, lead, wkVars, uc, blocks, left, stream, tx>>
        /\ shown' = shown \/ shown' = [shown EXCEPT !.uc = uc]
        /\ stored' = stored \/ stored' = [stored EXCEPT !.uc = uc]
    BY <1>12 DEF Round, Resume, Publish, ucVars
  <2> QED BY <1>1, <1>2, <1>3, <2>1 DEF UcFrame, Pushes
<1>13. CASE RoundEnds
  <2>1. UNCHANGED <<setup, lead, wkVars, uc, blocks, left, stream, tx, stored, shown>>
    BY <1>13 DEF RoundEnds, Resume, ucVars
  <2> QED BY <1>1, <1>2, <2>1 DEF UcFrame, Pushes
<1>14. CASE Fence("uc") \/ Drain("uc")
  <2>1. /\ UNCHANGED <<setup, lead, wkVars, uc, blocks, left, stream, tx, stored>>
        /\ shown' = [shown EXCEPT !.uc = uc]
    BY <1>1, <1>14 DEF Fence, Drain, FlushOf, Flushed, ucVars
  <2> QED BY <1>1, <1>2, <1>3, <2>1 DEF UcFrame, Pushes
<1> QED
  BY <1>4, <1>5, <1>6, <1>7, <1>8, <1>9, <1>10, <1>11, <1>12, <1>13, <1>14 DEF UcActs, UcRuns

LEMMA UcTypes ==
    ASSUME Types, UcFrame
    PROVE  Types'
<1>1. /\ setup \in Session /\ lead \in [dsp : Nat, uc : Nat]
      /\ gate \in [Dsps -> Nat] /\ since \in [Dsps -> Nat] /\ dsp \in [Dsps -> DspType]
      /\ wkAt \in {"turn", "chunk", "link", "parked"}
      /\ wkAt = "link" => linkTo \in Dsps \X Nat
      /\ indulged \in BOOLEAN /\ late \in BOOLEAN /\ stored \in View /\ shown \in View /\ uc \in Nat
  BY DEF Types
<1>2. /\ UNCHANGED <<setup, lead, gate, since, dsp, wkAt, linkTo, indulged, late>>
      /\ uc' \in Nat /\ blocks' \in Nat /\ left' \in Seq(HostOp)
      /\ stream' \in [Dsps -> Seq(Item)] /\ tx' \in [Dsps -> Seq(Nat)]
  BY DEF UcFrame, wkVars
<1>3. stored' \in View
  BY <1>1, <1>2 DEF UcFrame, View
<1>4. shown' \in View
  <2>1. PICK u \in Nat : shown' = [shown EXCEPT !.uc = u]
    <3>1. shown'.uc \in Nat
      BY <1>1 DEF UcFrame, View
    <3> QED BY <3>1 DEF UcFrame
  <2> QED BY <1>1, <2>1 DEF View
<1> QED BY <1>1, <1>2, <1>3, <1>4 DEF Types

LEMMA UcPlacesKept ==
    ASSUME Types, UcPlaces, UcActs
    PROVE  UcPlaces'
<1> DEFINE Good == /\ ucAt' \in {"idle", "step", "decide", "slice", "wait", "round", "push"}
                   /\ site' # "none" <=> ucAt' \in {"wait", "round"}
                   /\ ucAt' = "push" \/ site' = "room" => left' # <<>> /\ Head(left').op # "read"
                   /\ site' \in {"room", "time", "mixer"} => on' \in Dsps
<1>1. UcFrame
  BY UcMoves
<1>2. stored'.uc = uc' /\ shown'.uc <= uc'
  BY <1>1 DEF UcFrame, UcPlaces, Types, View
<1>3. /\ ucAt \in {"idle", "step", "decide", "slice", "wait", "round", "push"}
      /\ site # "none" <=> ucAt \in {"wait", "round"}
      /\ ucAt = "push" \/ site = "room" => left # <<>> /\ Head(left).op # "read"
      /\ site \in {"room", "time", "mixer"} => on \in Dsps
  BY DEF UcPlaces
<1> SUFFICES Good
  BY <1>2 DEF UcPlaces
<1>4. CASE Advance
  BY <1>3, <1>4 DEF Advance
<1>5. CASE Step
  BY <1>3, <1>5 DEF Step
<1>6. CASE Decide
  <2>1. ucAt = "decide" /\ left' = left
    BY <1>6 DEF Decide
  <2>2. \/ ucAt' = "wait" /\ site' = "mixer" /\ on' = Mixer
        \/ ucAt' = "wait" /\ site' = "lead"
        \/ ucAt' = "slice" /\ site' = site
    BY <1>6 DEF Decide, StartWait
  <2> QED BY <1>3, <2>1, <2>2 DEF Mixer, Dsps
<1>7. CASE Execute
  BY <1>3, <1>7 DEF Execute
<1>8. CASE HostAccess
  <2>1. ucAt = "slice" /\ left # <<>> /\ Head(left) \in HostOp
    BY <1>8 DEF HostAccess, Types
  <2>2. \/ ucAt' = ucAt /\ site' = site
        \/ /\ ucAt' = "wait" /\ site' = "room" /\ on' = Head(left).dsp /\ left' = left
           /\ Head(left).op # "read"
        \/ ucAt' = "wait" /\ site' = "time" /\ on' = Head(left).dsp
    BY <1>8 DEF HostAccess, StartWait
  <2>3. Head(left).dsp \in Dsps
    BY <2>1 DEF HostOp
  <2> QED BY <1>3, <2>1, <2>2, <2>3
<1>9. CASE PushAfterWait
  BY <1>3, <1>9 DEF PushAfterWait
<1>10. CASE ReadWord
  BY <1>3, <1>10 DEF ReadWord, ucVars
<1>11. ASSUME Resume, ucAt \in {"wait", "round"}
       PROVE  Good
  <2>1. site' = "none" /\ left' = left
    BY <1>11 DEF Resume
  <2>2. ucAt' \in {"step", "push", "slice", "idle"} /\ (ucAt' = "push" => site = "room")
    BY <1>11 DEF Resume
  <2> QED BY <1>3, <2>1, <2>2
<1>12. CASE BeginWait
  <2>1. Resume \/ (ucAt' = "round" /\ UNCHANGED <<site, on, left>>)
    BY <1>12 DEF BeginWait
  <2>2. ucAt = "wait"
    BY <1>12 DEF BeginWait
  <2> QED BY <1>3, <1>11, <2>1, <2>2
<1>13. CASE Round
  <2>1. ucAt = "round" /\ (Resume \/ UNCHANGED <<ucAt, site, on, left>>)
    BY <1>13 DEF Round, ucVars
  <2> QED BY <1>3, <1>11, <2>1
<1>14. CASE Fence("uc") \/ Drain("uc")
  BY <1>3, <1>14 DEF Fence, Drain, ucVars
<1>15. ASSUME RoundEnds, ucAt \in {"wait", "round"} PROVE Good
  <2>1. Resume \/ UNCHANGED <<ucAt, site, on, left>>
    BY <1>15 DEF RoundEnds, ucVars
  <2> QED BY <1>3, <1>11, <1>15, <2>1
<1>16. ASSUME RoundEnds, ucAt \notin {"wait", "round"} PROVE Good
  <2>1. site = "none"
    BY <1>3, <1>16
  <2>2. Resume => site' = "none" /\ ucAt' = "idle" /\ left' = left
    BY <2>1 DEF Resume
  <2>3. Resume \/ UNCHANGED <<ucAt, site, on, left>>
    BY <1>16 DEF RoundEnds, ucVars
  <2> QED BY <1>3, <2>2, <2>3
<1>17. Good
  <2> HIDE DEF Good
  <2> QED BY <1>4, <1>5, <1>6, <1>7, <1>8, <1>9, <1>10, <1>12, <1>13, <1>14, <1>15, <1>16
             DEF UcActs, UcRuns
<1> QED BY <1>17

----------------------------------------------------------------------------
(***************************************************************************)
(* The worker's steps, and the types over all steps.                       *)
(***************************************************************************)
WorkerActs == WorkerRuns \/ Drain("worker")

\* What the worker leaves alone: all of the audio thread's, its stored and seen position too.
WorkerFrame ==
    /\ UNCHANGED <<setup, lead, ucVars, uc>>
    /\ stored'.uc = stored.uc /\ shown'.uc = shown.uc

LEMMA FlushedView ==
    ASSUME stored \in View, shown \in View
    PROVE  /\ [stored EXCEPT !.uc = shown.uc] \in View
           /\ [stored EXCEPT !.uc = shown.uc].uc = shown.uc
           /\ [stored EXCEPT !.uc = shown.uc].pos = stored.pos
           /\ [stored EXCEPT !.uc = shown.uc].held = stored.held
BY DEF View

LEMMA PublishView ==
    ASSUME stored \in View, NEW d \in [Dsps -> DspType], PublishDsps(d)
    PROVE  /\ stored' \in View /\ stored'.uc = stored.uc
           /\ notifying' = notifying \cup {"worker"}
<1>1. [i \in Dsps |-> d[i].pos] \in [Dsps -> Nat]
  BY DEF DspType
<1>2. PICK p \in [Dsps -> Nat] : stored' = [stored EXCEPT !.pos = p]
  BY <1>1 DEF PublishDsps
<1> QED BY <1>2 DEF View, PublishDsps, Notify

LEMMA WorkerTypes ==
    ASSUME Types, WorkerActs
    PROVE  Types' /\ WorkerFrame
<1>1. /\ setup \in Session /\ lead \in [dsp : Nat, uc : Nat] /\ blocks \in Nat
      /\ uc \in Nat /\ left \in Seq(HostOp)
      /\ stream \in [Dsps -> Seq(Item)] /\ tx \in [Dsps -> Seq(Nat)]
      /\ gate \in [Dsps -> Nat] /\ since \in [Dsps -> Nat] /\ dsp \in [Dsps -> DspType]
      /\ wkAt \in {"turn", "chunk", "link", "parked"}
      /\ wkAt = "link" => linkTo \in Dsps \X Nat
      /\ stored \in View /\ shown \in View /\ indulged \in BOOLEAN /\ late \in BOOLEAN
  BY DEF Types
<1>2. \A i \in Dsps : Served(i).late \in BOOLEAN
  BY <1>1, ServeType DEF Served
<1>3. CASE Turn
  <2>1. UNCHANGED <<setup, lead, ucVars, uc, shown, linkTo, tx>>
    BY <1>3 DEF Turn, WkUnchanged
  <2>2. UNCHANGED <<blocks, left>>
    BY <2>1 DEF ucVars
  <2>3. /\ dsp' \in [Dsps -> DspType] /\ stream' \in [Dsps -> Seq(Item)]
        /\ gate' \in [Dsps -> Nat] /\ since' \in [Dsps -> Nat]
        /\ late' <=> (late \/ Served(1).late \/ Served(2).late)
        /\ stored' \in View /\ stored' = [stored EXCEPT !.held = stored'.held]
        /\ wkAt' \in {"chunk", "parked"} /\ indulged' \in BOOLEAN /\ late' \in BOOLEAN
    BY <1>3, TurnTakes
  <2>5. stored'.uc = stored.uc
    BY <1>1, <2>3 DEF View
  <2>6. WorkerFrame
    BY <2>1, <2>5 DEF WorkerFrame
  <2> QED BY <1>1, <2>1, <2>2, <2>3, <2>6 DEF Types
<1>4. CASE Chunk
  <2>1. UNCHANGED <<setup, lead, ucVars, uc, shown, since, indulged>>
    BY <1>4 DEF Chunk, WkUnchanged
  <2>2. UNCHANGED <<blocks, left>>
    BY <2>1 DEF ucVars
  <2>3. PICK i \in Dsps, stop \in Nat :
              /\ Moves(i, stop)
              /\ gate' = <<0, 0>>
              /\ \/ wkAt' = "turn" /\ linkTo' = linkTo /\ PublishDsps(dsp')
                 \/ /\ wkAt' = "link" /\ linkTo' \in Dsps \X Nat
                    /\ UNCHANGED <<stored, notifying>>
    BY <1>4, ChunkTakes
  <2>4. /\ dsp' \in [Dsps -> DspType] /\ stream' \in [Dsps -> Seq(Item)]
        /\ tx' \in [Dsps -> Seq(Nat)]
    BY <2>3, MovesTakes
  <2>5. late' \in BOOLEAN
    BY <2>3 DEF Moves
  <2>6. stored' \in View /\ stored'.uc = stored.uc
    BY <1>1, <2>3, <2>4, PublishView
  <2>7. gate' \in [Dsps -> Nat]
    BY <2>3 DEF Dsps
  <2>8. wkAt' \in {"turn", "chunk", "link", "parked"} /\ (wkAt' = "link" => linkTo' \in Dsps \X Nat)
    BY <2>3
  <2>9. WorkerFrame
    BY <2>1, <2>6 DEF WorkerFrame
  <2> QED BY <1>1, <2>1, <2>2, <2>4, <2>5, <2>6, <2>7, <2>8, <2>9 DEF Types
<1>5. CASE Link
  <2>1. UNCHANGED <<setup, lead, ucVars, uc, shown, since, indulged, gate>>
    BY <1>5 DEF Link, WkUnchanged
  <2>2. UNCHANGED <<blocks, left>>
    BY <2>1 DEF ucVars
  <2>3. PICK i \in Dsps :
              \/ \E stop \in Nat :
                   /\ Moves(i, stop) /\ wkAt' = wkAt /\ linkTo' = linkTo /\ stored' = stored
              \/ wkAt' = "turn" /\ PublishDsps(dsp) /\ UNCHANGED <<dsp, stream, tx, late>>
    BY <1>5, LinkTakes
  <2>4. /\ dsp' \in [Dsps -> DspType] /\ stream' \in [Dsps -> Seq(Item)]
        /\ tx' \in [Dsps -> Seq(Nat)] /\ late' \in BOOLEAN
        /\ stored' \in View /\ stored'.uc = stored.uc
        /\ wkAt' \in {"turn", "chunk", "link", "parked"}
        /\ wkAt' = "link" => linkTo' \in Dsps \X Nat
    <3>1. CASE \E stop \in Nat :
                   /\ Moves(i, stop) /\ wkAt' = wkAt /\ linkTo' = linkTo /\ stored' = stored
      <4>1. PICK stop \in Nat : Moves(i, stop)
        BY <3>1
      <4>2. /\ dsp' \in [Dsps -> DspType] /\ stream' \in [Dsps -> Seq(Item)]
            /\ tx' \in [Dsps -> Seq(Nat)]
        BY <4>1, MovesTakes
      <4>3. late' \in BOOLEAN
        BY <4>1 DEF Moves
      <4> QED BY <1>1, <3>1, <4>2, <4>3
    <3>2. CASE wkAt' = "turn" /\ PublishDsps(dsp) /\ UNCHANGED <<dsp, stream, tx, late>>
      BY <1>1, <3>2, PublishView
    <3> QED BY <2>3, <3>1, <3>2
  <2>5. WorkerFrame
    BY <2>1, <2>4 DEF WorkerFrame
  <2> QED BY <1>1, <2>1, <2>2, <2>4, <2>5 DEF Types
<1>6. CASE Park
  <2>1. UNCHANGED <<setup, lead, ucVars, uc, stream, tx, gate, linkTo, dsp, since, indulged,
                    late, stored>>
    BY <1>6 DEF Park
  <2>2. UNCHANGED <<blocks, left>>
    BY <2>1 DEF ucVars
  <2>3. wkAt' \in {"turn", wkAt} /\ wkAt = "parked"
    BY <1>6 DEF Park
  <2>4. shown' \in View /\ shown'.uc = shown.uc
    <3>1. shown' = shown \/ shown' = [stored EXCEPT !.uc = shown.uc]
      BY <1>6 DEF Park, FlushOf, Flushed
    <3> QED BY <1>1, <3>1, FlushedView
  <2>5. WorkerFrame
    BY <2>1, <2>4 DEF WorkerFrame
  <2> QED BY <1>1, <2>1, <2>2, <2>3, <2>4, <2>5 DEF Types
<1>7. CASE ParkEnds
  <2>1. /\ UNCHANGED <<setup, lead, ucVars, uc, stream, tx, gate, linkTo, dsp, since, indulged,
                       late, stored, shown>>
        /\ wkAt' = "turn"
    BY <1>7 DEF ParkEnds
  <2>2. UNCHANGED <<blocks, left>>
    BY <2>1 DEF ucVars
  <2>3. WorkerFrame
    BY <2>1 DEF WorkerFrame
  <2> QED BY <1>1, <2>1, <2>2, <2>3 DEF Types
<1>8. CASE Fence("worker") \/ Drain("worker")
  <2>1. UNCHANGED <<setup, lead, ucVars, uc, stream, tx, wkVars, stored>>
    BY <1>8 DEF Fence, Drain
  <2>2. /\ UNCHANGED <<blocks, left>>
        /\ UNCHANGED <<wkAt, gate, linkTo, dsp, since, indulged, late>>
    BY <2>1 DEF ucVars, wkVars
  <2>3. shown' = [stored EXCEPT !.uc = shown.uc]
    BY <1>8 DEF Fence, Drain, FlushOf, Flushed
  <2>4. shown' \in View /\ shown'.uc = shown.uc
    BY <1>1, <2>3, FlushedView
  <2>5. WorkerFrame
    BY <2>1, <2>4 DEF WorkerFrame
  <2> QED BY <1>1, <2>1, <2>2, <2>4, <2>5 DEF Types
<1> QED BY <1>3, <1>4, <1>5, <1>6, <1>7, <1>8 DEF WorkerActs, WorkerRuns

LEMMA NextIsOfEither == Next => UcActs \/ WorkerActs
BY DEF Next, UcActs, WorkerActs

LEMMA UcPlacesOfWorker ==
    ASSUME UcPlaces, WorkerFrame
    PROVE  UcPlaces'
BY DEF UcPlaces, WorkerFrame, ucVars

LEMMA InitTypes == Init => Types /\ UcPlaces /\ Signal /\ Slept
<1> SUFFICES ASSUME Init PROVE Types /\ UcPlaces /\ Signal /\ Slept
  OBVIOUS
<1>1. setup \in Session
  BY HandoffsAssumption DEF Init
<1>2. /\ setup.lead \in [dsp : Nat, uc : Nat] /\ setup.uc \in Nat /\ setup.pos \in [Dsps -> Nat]
      /\ setup.rx \in [Dsps -> Nat] /\ setup.busy \in [Dsps -> BOOLEAN]
      /\ setup.host \in Seq(HostOp) /\ setup.words \in [Dsps -> Nat]
  BY <1>1 DEF Session
<1>3. (MinChunk + 1) * Den \in Nat
  BY PairAssumption, SMT
<1>4. Raised(setup.lead) \in Nat
  <2>1. PICK a \in Nat, b \in Nat : a = setup.lead.uc /\ b = (MinChunk + 1) * Den
    BY <1>2, <1>3
  <2>2. Max({a, b}) \in Nat
    BY MaxOfTwo
  <2> QED BY <1>2, <2>1, <2>2 DEF Raised
<1>5. lead \in [dsp : Nat, uc : Nat]
  BY <1>2, <1>4 DEF Init
<1>6. dsp \in [Dsps -> DspType]
  BY <1>2 DEF Init, DspType
<1>7. stored = [uc |-> setup.uc, pos |-> setup.pos, held |-> <<FALSE, FALSE>>] /\ shown = stored
  BY DEF Init
<1>8. stored \in View /\ stored.uc = setup.uc
  <2>1. PICK no \in BOOLEAN : no = FALSE
    OBVIOUS
  <2>2. PICK h : h = <<no, no>>
    OBVIOUS
  <2>3. h \in [Dsps -> BOOLEAN]
    BY <2>2 DEF Dsps
  <2>4. stored = [uc |-> setup.uc, pos |-> setup.pos, held |-> h]
    BY <1>7, <2>1, <2>2
  <2> QED BY <1>2, <2>3, <2>4 DEF View
<1>9. stream \in [Dsps -> Seq(Item)] /\ tx \in [Dsps -> Seq(Nat)]
  <2>1. stream = <<<<>>, <<>>>> /\ tx = <<<<>>, <<>>>>
    BY DEF Init
  <2>2. PICK e : e = <<>>
    OBVIOUS
  <2>3. e \in Seq(Item) /\ e \in Seq(Nat)
    BY <2>2
  <2>4. <<e, e>> \in [Dsps -> Seq(Item)] /\ <<e, e>> \in [Dsps -> Seq(Nat)]
    BY <2>3 DEF Dsps
  <2> QED BY <2>1, <2>2, <2>4
<1>10. gate \in [Dsps -> Nat] /\ since \in [Dsps -> Nat]
  BY DEF Init, Dsps
<1>11. /\ blocks = 1 /\ uc = setup.uc /\ left = setup.host /\ wkAt = "turn"
       /\ indulged \in BOOLEAN /\ late = FALSE /\ ucAt = "decide" /\ site = "none" /\ on = 0
       /\ notifying = {} /\ asleep = {}
  BY DEF Init, SignalInit
<1>12. Types
  BY <1>1, <1>2, <1>5, <1>6, <1>7, <1>8, <1>9, <1>10, <1>11 DEF Types
<1>13. UcPlaces
  BY <1>2, <1>7, <1>8, <1>11 DEF UcPlaces
<1>14. Signal /\ Slept
  BY <1>7, <1>8, <1>11 DEF Signal, Slept
<1> QED BY <1>12, <1>13, <1>14

----------------------------------------------------------------------------
(***************************************************************************)
(* The signal: neither thread sleeps on what it missed.                    *)
(***************************************************************************)
LEMMA SameUcReady ==
    ASSUME UNCHANGED <<setup, lead, uc, stream, blocks, site, on, shown>>
    PROVE  UcReady' <=> UcReady
<1>1. /\ setup' = setup /\ lead' = lead /\ uc' = uc /\ stream' = stream /\ blocks' = blocks
      /\ site' = site /\ on' = on /\ shown' = shown
  OBVIOUS
<1>2. DspMin' = DspMin
  BY <1>1 DEF DspMin
<1>3. Target' = Target
  BY <1>1 DEF Target
<1> QED BY <1>1, <1>2, <1>3 DEF UcReady

LEMMA SameWouldRun ==
    ASSUME UNCHANGED <<setup, lead, blocks, stream, tx, dsp, since, site, on, ucAt, shown>>
    PROVE  WouldRun' <=> WouldRun
<1>1. /\ setup' = setup /\ lead' = lead /\ blocks' = blocks /\ stream' = stream /\ tx' = tx
      /\ dsp' = dsp /\ since' = since /\ site' = site /\ on' = on /\ ucAt' = ucAt
      /\ shown' = shown
  OBVIOUS
<1>2. Target' = Target /\ (Urgent' <=> Urgent)
  BY <1>1 DEF Target, Urgent
<1>3. BaseGate' = BaseGate
  BY <1>1, <1>2 DEF BaseGate
<1>4. \A i \in Dsps : (Blocked(i)' <=> Blocked(i))
  BY <1>1 DEF Blocked
<1>5. \A i \in Dsps : Allowance(dsp[i], stream[i], i)' = Allowance(dsp[i], stream[i], i)
  BY <1>1, <1>4 DEF Allowance, BlockedAllowance, DrainStart
<1>6. Allowed(dsp, stream)' = Allowed(dsp, stream)
  <2>1. {Allowance(dsp[i], stream[i], i) : i \in Dsps}'
          = {Allowance(dsp[i], stream[i], i) : i \in Dsps}
    BY <1>5
  <2> QED BY <1>2, <1>4, <2>1 DEF Allowed
<1>7. \A i \in Dsps : (Holds(i)' <=> Holds(i))
  BY <1>1 DEF Holds, HoldBegan, Backlogged
<1>8. \A i \in Dsps : GateOf(dsp, stream, i)' = GateOf(dsp, stream, i)
  BY <1>1, <1>3, <1>6, <1>7 DEF GateOf
<1>9. \A i \in Dsps : (Runs(dsp, stream, i)' <=> Runs(dsp, stream, i))
  BY <1>1, <1>2, <1>8 DEF Runs
<1> QED BY <1>9 DEF WouldRun

\* What a step of the audio thread does to the signal.
UcTells ==
    \/ /\ "uc" \in notifying /\ notifying' = notifying \ {"uc"} /\ asleep' = {}
       /\ shown'.uc = uc' /\ ucAt' = ucAt
    \/ "uc" \notin asleep /\ notifying' = notifying \cup {"uc"} /\ asleep' = asleep
    \/ /\ UNCHANGED <<notifying, uc, shown>>
       /\ "uc" \notin asleep' /\ asleep' \subseteq asleep /\ ucAt' # "round"
    \/ /\ UNCHANGED <<notifying, uc, shown, stream, tx, blocks, site, on, ucAt>>
       /\ "uc" \notin notifying /\ ucAt = "round"
       /\ \/ ~UcReady /\ asleep' = asleep \cup {"uc"}
          \/ asleep' = asleep \ {"uc"}
    \/ "uc" \in notifying /\ UNCHANGED <<notifying, asleep, ucAt>>

LEMMA UcSignals ==
    ASSUME Types, UcPlaces, Signal, UcActs
    PROVE  UcTells
<1>1. stored.uc = uc /\ shown \in View /\ ("uc" \notin notifying => shown.uc = uc)
  BY DEF Types, UcPlaces, Signal
<1>2. [shown EXCEPT !.uc = shown.uc] = shown
  BY <1>1 DEF View
<1>3. CASE Advance \/ Step \/ Execute \/ ReadWord
  BY <1>3 DEF Advance, Step, Execute, ReadWord, UcUnchanged, Notify, Free, UcTells
<1>4. CASE Decide
  <2>1. Free("uc") /\ UNCHANGED <<asleep, shown, uc>>
    BY <1>4 DEF Decide, UcUnchanged
  <2>2. Notify("uc") \/ (ucAt' = "slice" /\ notifying' = notifying)
    BY <1>4 DEF Decide, StartWait
  <2> QED BY <2>1, <2>2 DEF Notify, Free, UcTells
<1>5. CASE HostAccess \/ PushAfterWait
  <2>1. Free("uc") /\ UNCHANGED asleep
    BY <1>5 DEF HostAccess, PushAfterWait, UcUnchanged
  <2>2. Notify("uc")
    BY <1>5 DEF HostAccess, PushAfterWait, StartWait, Push
  <2> QED BY <2>1, <2>2 DEF Notify, Free, UcTells
<1>6. ASSUME Resume
      PROVE  ucAt' # "round" /\ (Notify("uc") \/ notifying' = notifying)
  BY <1>6 DEF Resume
<1>7. CASE BeginWait
  <2>1. Free("uc") /\ UNCHANGED <<asleep, uc>>
    BY <1>7 DEF BeginWait
  <2>2. Notify("uc") \/ (ucAt' # "round" /\ notifying' = notifying /\ shown' = shown)
    BY <1>6, <1>7 DEF BeginWait
  <2> QED BY <2>1, <2>2 DEF Notify, Free, UcTells
<1>8. CASE Round
  <2>1. Free("uc") /\ ucAt = "round" /\ UNCHANGED <<uc, stream, tx>>
    BY <1>8 DEF Round
  <2>2. CASE UcReady /\ Resume /\ UNCHANGED <<stored, shown, asleep>>
    BY <1>6, <2>1, <2>2 DEF Notify, Free, UcTells
  <2>3. CASE /\ ~UcReady
             /\ Publish /\ shown' = [shown EXCEPT !.uc = uc] /\ Sleep("uc")
             /\ UNCHANGED <<ucVars, notifying>>
    <3>1. shown' = shown /\ asleep' = asleep \cup {"uc"}
      BY <1>1, <1>2, <2>1, <2>3 DEF Free, Sleep
    <3>2. UNCHANGED <<blocks, site, on, ucAt>>
      BY <2>3 DEF ucVars
    <3> QED BY <2>1, <2>3, <3>1, <3>2 DEF Free, UcTells
  <2> QED BY <1>8, <2>2, <2>3 DEF Round
<1>9. CASE RoundEnds
  <2>1. /\ "uc" \in asleep /\ asleep' = asleep \ {"uc"}
        /\ UNCHANGED <<uc, stream, tx, shown>>
    BY <1>9 DEF RoundEnds, TimesOut
  <2>2. "uc" \notin notifying /\ ucAt = "round"
    BY <2>1 DEF Signal
  <2>3. CASE UNCHANGED <<ucVars, notifying>>
    BY <2>1, <2>2, <2>3 DEF ucVars, UcTells
  <2>4. CASE site # "room" /\ Resume
    <3>1. ucAt' # "round" /\ notifying' = notifying
      BY <1>6, <2>4 DEF Resume
    <3> QED BY <2>1, <3>1 DEF UcTells
  <2> QED BY <1>9, <2>3, <2>4 DEF RoundEnds
<1>10. CASE Fence("uc")
  <2>1. /\ "uc" \in notifying /\ notifying' = notifying \ {"uc"} /\ asleep' = {}
        /\ uc' = uc /\ ucAt' = ucAt /\ shown' = [shown EXCEPT !.uc = uc]
    BY <1>1, <1>10 DEF Fence, NotifyAll, FlushOf, Flushed, ucVars
  <2>2. shown'.uc = uc
    BY <1>1, <2>1 DEF View
  <2> QED BY <2>1, <2>2 DEF UcTells
<1>11. CASE Drain("uc")
  BY <1>11 DEF Drain, ucVars, UcTells
<1> QED
  BY <1>3, <1>4, <1>5, <1>7, <1>8, <1>9, <1>10, <1>11 DEF UcActs, UcRuns

LEMMA UcKeepsSignal ==
    ASSUME Types, UcPlaces, Signal, Slept, UcActs
    PROVE  Signal' /\ Slept'
<1>1. UcFrame /\ UcTells
  BY UcMoves, UcSignals
<1>2. UNCHANGED <<setup, lead, wkAt, dsp, since, linkTo>>
  BY <1>1 DEF UcFrame, wkVars
<1>3. /\ notifying \subseteq {"uc", "worker"} /\ asleep \subseteq {"uc", "worker"}
      /\ notifying \cap asleep = {}
      /\ "uc" \in asleep => ucAt = "round"
      /\ "worker" \in asleep => wkAt = "parked"
      /\ "uc" \notin notifying => shown.uc = uc
      /\ "worker" \notin notifying => shown.pos = stored.pos /\ shown.held = stored.held
  BY DEF Signal
<1>4. shown \in View /\ stored \in View
  BY DEF Types
<1>5. shown'.pos = shown.pos /\ shown'.held = shown.held
  BY <1>1, <1>4 DEF UcFrame, View
<1>6. stored'.pos = stored.pos /\ stored'.held = stored.held
  BY <1>1, <1>4 DEF UcFrame, View
<1>7. "worker" \in notifying' <=> "worker" \in notifying
  BY <1>1 DEF UcTells
<1>8. CASE /\ "uc" \in notifying /\ notifying' = notifying \ {"uc"} /\ asleep' = {}
           /\ shown'.uc = uc' /\ ucAt' = ucAt
  BY <1>2, <1>3, <1>5, <1>6, <1>7, <1>8 DEF Signal, Slept
<1>9. CASE "uc" \notin asleep /\ notifying' = notifying \cup {"uc"} /\ asleep' = asleep
  BY <1>2, <1>3, <1>5, <1>6, <1>7, <1>9 DEF Signal, Slept
<1>10. CASE /\ UNCHANGED <<notifying, uc, shown>>
            /\ "uc" \notin asleep' /\ asleep' \subseteq asleep /\ ucAt' # "round"
  BY <1>2, <1>3, <1>5, <1>6, <1>7, <1>10 DEF Signal, Slept
<1>11. CASE /\ UNCHANGED <<notifying, uc, shown, stream, tx, blocks, site, on, ucAt>>
            /\ "uc" \notin notifying /\ ucAt = "round"
            /\ \/ ~UcReady /\ asleep' = asleep \cup {"uc"}
               \/ asleep' = asleep \ {"uc"}
  <2>1. (UcReady' <=> UcReady) /\ (WouldRun' <=> WouldRun)
    BY <1>2, <1>11, SameUcReady, SameWouldRun
  <2>2. Signal'
    BY <1>2, <1>3, <1>5, <1>6, <1>11 DEF Signal
  <2>3. "uc" \in asleep' => ~UcReady'
    BY <1>11, <2>1
  <2>4. "worker" \in asleep' => ~WouldRun'
    BY <1>11, <2>1 DEF Slept
  <2> QED BY <2>2, <2>3, <2>4 DEF Slept
<1>12. CASE "uc" \in notifying /\ UNCHANGED <<notifying, asleep, ucAt>>
  BY <1>2, <1>3, <1>5, <1>6, <1>12 DEF Signal, Slept
<1> QED BY <1>1, <1>8, <1>9, <1>10, <1>11, <1>12 DEF UcTells

\* What a step of the worker does to the signal.
WorkerTells ==
    \/ /\ "worker" \in notifying /\ notifying' = notifying \ {"worker"} /\ asleep' = {}
       /\ shown'.pos = stored'.pos /\ shown'.held = stored'.held /\ wkAt' = wkAt
    \/ "worker" \notin asleep /\ notifying' = notifying \cup {"worker"} /\ asleep' = asleep
    \/ /\ UNCHANGED <<notifying, asleep, shown, stored>> /\ "worker" \notin asleep
       /\ wkAt' = "link"
    \/ /\ UNCHANGED <<notifying, shown, stored, stream>>
       /\ "worker" \notin asleep' /\ asleep' \in {asleep, asleep \ {"worker"}}
       /\ wkAt # "link" /\ "worker" \notin notifying
    \/ /\ UNCHANGED <<notifying, shown, stored, stream, dsp, tx, since, wkAt>>
       /\ ~WouldRun /\ asleep' = asleep \cup {"worker"} /\ wkAt = "parked"
       /\ "worker" \notin notifying
    \/ "worker" \in notifying /\ UNCHANGED <<notifying, asleep, wkAt>>

LEMMA WorkerSignals ==
    ASSUME Types, Signal, WorkerActs
    PROVE  WorkerTells
<1>1. /\ stored \in View /\ shown \in View
      /\ "worker" \notin notifying => shown.pos = stored.pos /\ shown.held = stored.held
  BY DEF Types, Signal
<1>2. CASE Turn
  <2>1. Free("worker") /\ wkAt = "turn" /\ UNCHANGED <<asleep, shown>>
    BY <1>2 DEF Turn, WkUnchanged
  <2>2. /\ notifying' \in {notifying, notifying \cup {"worker"}}
        /\ "worker" \in notifying' \/ (stream' = stream /\ stored' = stored)
    BY <1>2, TurnTakes
  <2>3. CASE notifying' = notifying \cup {"worker"}
    BY <2>1, <2>3 DEF Free, WorkerTells
  <2>4. CASE notifying' = notifying
    <3>1. "worker" \notin notifying' /\ "worker" \notin asleep
      BY <2>1, <2>4 DEF Free
    <3> QED BY <2>1, <2>2, <2>4, <3>1 DEF WorkerTells
  <2> QED BY <2>2, <2>3, <2>4
<1>3. CASE Chunk
  <2>1. Free("worker") /\ UNCHANGED <<asleep, shown>>
    BY <1>3 DEF Chunk, WkUnchanged
  <2>2. \/ PublishDsps(dsp')
        \/ wkAt' = "link" /\ UNCHANGED <<stored, notifying>>
    BY <1>3, ChunkTakes
  <2>3. PublishDsps(dsp') => notifying' = notifying \cup {"worker"}
    BY DEF PublishDsps, Notify
  <2> QED BY <2>1, <2>2, <2>3 DEF Free, WorkerTells
<1>4. CASE Link
  <2>1. Free("worker") /\ wkAt = "link" /\ UNCHANGED <<asleep, shown>>
    BY <1>4 DEF Link, WkUnchanged
  <2>2. \/ /\ wkAt' = wkAt /\ stored' = stored
           /\ notifying' \in {notifying, notifying \cup {"worker"}}
        \/ PublishDsps(dsp)
    BY <1>4, LinkTakes
  <2>3. PublishDsps(dsp) => notifying' = notifying \cup {"worker"}
    BY DEF PublishDsps, Notify
  <2> QED BY <2>1, <2>2, <2>3 DEF Free, WorkerTells
<1>5. CASE Park
  <2>1. Free("worker") /\ wkAt = "parked" /\ UNCHANGED <<stream, dsp, tx, since, stored, notifying>>
    BY <1>5 DEF Park
  <2>2. \/ UNCHANGED <<shown, asleep>>
        \/ /\ ~WouldRun /\ shown' = [stored EXCEPT !.uc = shown.uc]
           /\ asleep' = asleep \cup {"worker"} /\ wkAt' = wkAt
    BY <1>5 DEF Park, FlushOf, Flushed, Sleep
  <2>3. [stored EXCEPT !.uc = shown.uc] = shown
    BY <1>1, <2>1 DEF Free, View
  <2> QED BY <2>1, <2>2, <2>3 DEF Free, WorkerTells
<1>6. CASE ParkEnds
  <2>1. /\ "worker" \in asleep /\ asleep' = asleep \ {"worker"}
        /\ UNCHANGED <<stream, stored, shown, notifying>>
    BY <1>6 DEF ParkEnds, TimesOut
  <2>2. "worker" \notin notifying /\ wkAt = "parked"
    BY <2>1 DEF Signal
  <2> QED BY <2>1, <2>2 DEF WorkerTells
<1>7. CASE Fence("worker")
  <2>1. /\ "worker" \in notifying /\ notifying' = notifying \ {"worker"} /\ asleep' = {}
        /\ shown' = [stored EXCEPT !.uc = shown.uc] /\ stored' = stored /\ wkAt' = wkAt
    BY <1>7 DEF Fence, NotifyAll, FlushOf, Flushed, wkVars
  <2>2. shown'.pos = stored.pos /\ shown'.held = stored.held
    BY <1>1, <2>1, FlushedView
  <2> QED BY <2>1, <2>2 DEF WorkerTells
<1>8. CASE Drain("worker")
  BY <1>8 DEF Drain, wkVars, WorkerTells
<1> QED
  BY <1>2, <1>3, <1>4, <1>5, <1>6, <1>7, <1>8 DEF WorkerActs, WorkerRuns

LEMMA WorkerKeepsSignal ==
    ASSUME Types, UcPlaces, Signal, Slept, WorkerActs
    PROVE  Signal' /\ Slept'
<1>1. WorkerFrame /\ WorkerTells
  BY WorkerTypes, WorkerSignals
<1>2. UNCHANGED <<setup, lead, uc, blocks, site, on, ucAt>> /\ shown'.uc = shown.uc
  BY <1>1 DEF WorkerFrame, ucVars
<1>3. /\ notifying \subseteq {"uc", "worker"} /\ asleep \subseteq {"uc", "worker"}
      /\ notifying \cap asleep = {}
      /\ "uc" \in asleep => ucAt = "round"
      /\ "worker" \in asleep => wkAt = "parked"
      /\ "uc" \notin notifying => shown.uc = uc
      /\ "worker" \notin notifying => shown.pos = stored.pos /\ shown.held = stored.held
  BY DEF Signal
<1>4. "uc" \in notifying' <=> "uc" \in notifying
  BY <1>1 DEF WorkerTells
<1>5. CASE /\ "worker" \in notifying /\ notifying' = notifying \ {"worker"} /\ asleep' = {}
           /\ shown'.pos = stored'.pos /\ shown'.held = stored'.held /\ wkAt' = wkAt
  BY <1>2, <1>3, <1>4, <1>5 DEF Signal, Slept
<1>6. CASE "worker" \notin asleep /\ notifying' = notifying \cup {"worker"} /\ asleep' = asleep
  BY <1>2, <1>3, <1>4, <1>6 DEF Signal, Slept
<1>7. CASE /\ UNCHANGED <<notifying, asleep, shown, stored>> /\ "worker" \notin asleep
           /\ wkAt' = "link"
  BY <1>2, <1>3, <1>4, <1>7 DEF Signal, Slept
<1>8. CASE /\ UNCHANGED <<notifying, shown, stored, stream>>
           /\ "worker" \notin asleep' /\ asleep' \in {asleep, asleep \ {"worker"}}
           /\ wkAt # "link" /\ "worker" \notin notifying
  <2>1. UcReady' <=> UcReady
    BY <1>2, <1>8, SameUcReady
  <2>2. Signal'
    BY <1>2, <1>3, <1>8 DEF Signal
  <2>3. "uc" \in asleep' => ~UcReady'
    BY <1>8, <2>1 DEF Slept
  <2> QED BY <1>8, <2>2, <2>3 DEF Slept
<1>9. CASE /\ UNCHANGED <<notifying, shown, stored, stream, dsp, tx, since, wkAt>>
           /\ ~WouldRun /\ asleep' = asleep \cup {"worker"} /\ wkAt = "parked"
           /\ "worker" \notin notifying
  <2>1. (UcReady' <=> UcReady) /\ (WouldRun' <=> WouldRun)
    BY <1>2, <1>9, SameUcReady, SameWouldRun
  <2>2. Signal'
    BY <1>2, <1>3, <1>9 DEF Signal
  <2>3. "uc" \in asleep' => ~UcReady'
    BY <1>9, <2>1 DEF Slept
  <2> QED BY <1>9, <2>1, <2>2, <2>3 DEF Slept
<1>10. CASE "worker" \in notifying /\ UNCHANGED <<notifying, asleep, wkAt>>
  BY <1>2, <1>3, <1>10 DEF Signal, Slept
<1> QED BY <1>1, <1>5, <1>6, <1>7, <1>8, <1>9, <1>10 DEF WorkerTells

----------------------------------------------------------------------------
(***************************************************************************)
(* No wake-up is lost.                                                     *)
(***************************************************************************)
WakeupInv == Types /\ UcPlaces /\ Signal /\ Slept

LEMMA NothingMoves ==
    ASSUME WakeupInv, UNCHANGED vars
    PROVE  WakeupInv'
<1>1. /\ UNCHANGED <<setup, lead, uc, stream, tx, stored, shown, notifying, asleep>>
      /\ UNCHANGED <<ucAt, site, on, sub, cache, left, blocks>>
      /\ UNCHANGED <<wkAt, gate, linkTo, dsp, since, indulged, late>>
  BY DEF vars, ucVars, wkVars
<1>2. Types' /\ UcPlaces' /\ Signal'
  BY <1>1 DEF WakeupInv, Types, UcPlaces, Signal
<1>3. (UcReady' <=> UcReady) /\ (WouldRun' <=> WouldRun)
  BY <1>1, SameUcReady, SameWouldRun
<1>4. Slept'
  BY <1>1, <1>3 DEF WakeupInv, Slept
<1> QED BY <1>2, <1>4 DEF WakeupInv

LEMMA WakeupKept == WakeupInv /\ [Next]_vars => WakeupInv'
<1> SUFFICES ASSUME WakeupInv, [Next]_vars PROVE WakeupInv'
  OBVIOUS
<1>1. Types /\ UcPlaces /\ Signal /\ Slept
  BY DEF WakeupInv
<1>2. CASE UcActs
  <2>1. Types'
    BY <1>1, <1>2, UcMoves, UcTypes
  <2>2. UcPlaces' /\ Signal' /\ Slept'
    BY <1>1, <1>2, UcPlacesKept, UcKeepsSignal
  <2> QED BY <2>1, <2>2 DEF WakeupInv
<1>3. CASE WorkerActs
  <2>1. Types' /\ WorkerFrame
    BY <1>1, <1>3, WorkerTypes
  <2>2. UcPlaces'
    BY <1>1, <2>1, UcPlacesOfWorker
  <2>3. Signal' /\ Slept'
    BY <1>1, <1>3, WorkerKeepsSignal
  <2> QED BY <2>1, <2>2, <2>3 DEF WakeupInv
<1>4. CASE UNCHANGED vars
  BY <1>4, NothingMoves
<1> QED BY <1>2, <1>3, <1>4, NextIsOfEither

LEMMA WakeupInvHolds == Spec => []WakeupInv
<1>1. Init => WakeupInv
  BY InitTypes DEF WakeupInv
<1> QED BY <1>1, WakeupKept, PTL DEF Spec

LEMMA NobodyMissedIt == WakeupInv => NoLostWakeup
<1> SUFFICES ASSUME WakeupInv, asleep = {"uc", "worker"}
             PROVE  ~UcReady /\ ~WouldRun
  BY DEF NoLostWakeup
<1>1. "uc" \notin notifying /\ "worker" \notin notifying
  BY DEF WakeupInv, Signal
<1>2. wkAt # "link" /\ ucAt = "round"
  BY DEF WakeupInv, Signal
<1> QED BY <1>1, <1>2 DEF WakeupInv, Slept

\* TransportSignal keeps its promise (mdtransportsignal.h:31-35) to the two
\* threads of the pair transport (mdhardware.cpp), whatever the clocks, leads,
\* limits and firmwares: with both asleep, the audio thread's wait is not over
\* and the worker has no DSP to run.
THEOREM NoWakeupLost == Spec => []NoLostWakeup
BY WakeupInvHolds, NobodyMissedIt, PTL

----------------------------------------------------------------------------
(***************************************************************************)
(* The UC's words land in time.                                            *)
(***************************************************************************)
\* The stream of a DSP is in the order of its dates, none of them to come, and
\* the DSP is too late for nothing in it.
OnTime(i) ==
    \A k \in DOMAIN stream[i] :
        /\ stream[i][k].uc <= uc
        /\ \A l \in 1 .. k : stream[i][l].uc <= stream[i][k].uc
        /\ ~TooLate(dsp[i], stream[i][k])

\* Unless a DSP was let past the UC, each is within its lead, but for the two
\* blocks it may have finished since: its chunk's and its link write's.
Leads ==
    /\ \A i \in Dsps : dsp[i].pos <= Ahead + 2 * setup.over
    /\ wkAt = "chunk" => \A i \in Dsps : gate[i] <= Ahead
    /\ wkAt = "link" => linkTo[2] <= Ahead + setup.over

InTime == (\A i \in Dsps : OnTime(i)) /\ (~indulged => Leads) /\ ~late

LEMMA AheadNat ==
    ASSUME Types
    PROVE  Ahead \in Nat
<1>1. shown.uc + lead.dsp \in Nat
  BY DEF Types, View
<1> QED BY <1>1, DeadlineNat DEF Ahead

\* Past what lands, the stream is as it was: a DSP that has not gone beyond the
\* first that waits by more than a block is too late for none of the rest.
LEMMA RestOnTime ==
    ASSUME Types, Types', NEW i \in Dsps, OnTime(i),
           NEW m \in Nat, NEW c, Took(i, c), m <= c,
           m < Len(stream[i]) /\ ~dsp'[i].stuck
               => dsp'[i].pos <= Deadline(stream[i][m + 1].uc) + setup.over,
           UNCHANGED <<setup, lead, uc>>
    PROVE  OnTime(i)'
<1>1. /\ stream \in [Dsps -> Seq(Item)] /\ dsp'[i].pos \in Nat
      /\ setup.over \in Nat /\ lead.dsp \in Nat
  <2>1. stream \in [Dsps -> Seq(Item)] /\ setup.over \in Nat /\ lead.dsp \in Nat
    BY DEF Types, Session
  <2>2. dsp' \in [Dsps -> DspType]
    BY DEF Types
  <2> QED BY <2>1, <2>2 DEF DspType
<1>2. PICK items, rest : items = stream[i] /\ rest = stream'[i]
  OBVIOUS
<1>3. /\ items \in Seq(Item) /\ c \in 0 .. Len(items) /\ Len(items) \in Nat
      /\ rest = SubSeq(items, c + 1, Len(items))
  BY <1>1, <1>2 DEF Took
<1>4. /\ rest \in Seq(Item) /\ Len(rest) = Len(items) - c
      /\ \A k \in 1 .. Len(items) - c : rest[k] = items[k + c]
  BY <1>3, SubSeqItems
<1>5. SUFFICES ASSUME NEW k \in DOMAIN rest
               PROVE  /\ rest[k].uc <= uc
                      /\ \A l \in 1 .. k : rest[l].uc <= rest[k].uc
                      /\ ~TooLate(dsp[i], rest[k])'
  <2>1. uc' = uc
    OBVIOUS
  <2> QED BY <1>2, <2>1 DEF OnTime, TooLate
<1>6. k \in 1 .. Len(items) - c /\ k + c \in 1 .. Len(items) /\ rest[k] = items[k + c]
  BY <1>3, <1>4
<1>7. /\ items[k + c].uc <= uc
      /\ \A l \in 1 .. k + c : items[l].uc <= items[k + c].uc
  BY <1>2, <1>3, <1>6 DEF OnTime
<1>8. \A l \in 1 .. k : l + c \in 1 .. k + c /\ rest[l] = items[l + c]
  <2> TAKE l \in 1 .. k
  <2>1. c \in Nat /\ k \in Nat /\ l \in Nat /\ k <= Len(items) - c /\ l >= 1 /\ l <= k
    BY <1>3, <1>6
  <2>2. l \in 1 .. Len(items) - c
    BY <1>3, <2>1
  <2> QED BY <1>4, <2>1, <2>2
<1>9. m + 1 \in 1 .. k + c /\ m + 1 \in 1 .. Len(items) /\ m < Len(items)
  BY <1>3, <1>6
<1>10. PICK u \in Nat, v \in Nat : u = items[m + 1].uc /\ v = items[k + c].uc
  <2>1. items[m + 1] \in Item
    BY <1>3, <1>9
  <2>2. items[k + c] \in Item
    BY <1>3, <1>6
  <2>3. \A item \in Item : item.uc \in Nat
    BY DEF Item
  <2> QED BY <2>1, <2>2, <2>3
<1>11. u <= v /\ v <= v + lead.dsp /\ v + lead.dsp \in Nat
  <2>1. u <= v
    BY <1>7, <1>9, <1>10
  <2>2. PICK w \in Nat : w = lead.dsp
    BY <1>1
  <2> QED BY <2>1, <2>2
<1>12. Deadline(u) <= Deadline(v + lead.dsp)
  BY <1>11, DeadlineMono
<1>13. PICK x \in Nat, y \in Nat : x = Deadline(u) /\ y = Deadline(v + lead.dsp)
  BY <1>11, DeadlineNat
<1>14. ~TooLate(dsp[i], rest[k])'
  <2>1. SUFFICES ASSUME ~dsp'[i].stuck PROVE ~(dsp'[i].pos > y + 2 * setup.over)
    <3>1. TooLate(dsp[i], rest[k])'
            => ~dsp'[i].stuck /\ dsp'[i].pos > Deadline(v + lead.dsp) + 2 * setup.over
      BY <1>6, <1>10 DEF TooLate
    <3> QED BY <1>13, <3>1
  <2>2. dsp'[i].pos <= x + setup.over
    BY <1>2, <1>9, <1>10, <1>13, <2>1
  <2> QED BY <1>1, <1>12, <1>13, <2>2
<1> QED BY <1>6, <1>7, <1>8, <1>14

\* The same holds of a stream whose DSP did not move.
LEMMA SameOnTime ==
    ASSUME Types, NEW i \in Dsps, OnTime(i), dsp'[i] = dsp[i], stream'[i] = stream[i],
           uc' \in Nat, uc <= uc', UNCHANGED <<setup, lead>>
    PROVE  OnTime(i)'
<1>1. stream[i] \in Seq(Item) /\ uc \in Nat
  BY DEF Types
<1>2. PICK items, d : items = stream[i] /\ d = dsp[i]
  OBVIOUS
<1>3. SUFFICES ASSUME NEW k \in DOMAIN items
               PROVE  /\ items[k].uc <= uc'
                      /\ \A l \in 1 .. k : items[l].uc <= items[k].uc
                      /\ ~TooLate(d, items[k])'
  BY <1>2 DEF OnTime, TooLate
<1>4. /\ items[k].uc <= uc
      /\ \A l \in 1 .. k : items[l].uc <= items[k].uc
      /\ ~TooLate(d, items[k])
  BY <1>2, <1>3 DEF OnTime
<1>5. items[k].uc \in Nat
  <2>1. items[k] \in Item
    BY <1>1, <1>2, <1>3
  <2> QED BY <2>1 DEF Item
<1>6. items[k].uc <= uc'
  BY <1>1, <1>4, <1>5
<1>7. ~TooLate(d, items[k])'
  BY <1>4 DEF TooLate
<1> QED BY <1>4, <1>6, <1>7

\* A word written while no DSP was let ahead finds its DSP within the lead.
LEMMA PushedOnTime ==
    ASSUME Types, UcPlaces, NEW i \in Dsps, OnTime(i), ~indulged => Leads,
           NEW item \in Item, item.uc = uc, item.ahead = indulged,
           stream'[i] = Append(stream[i], item), dsp'[i] = dsp[i],
           uc' \in Nat, uc <= uc', UNCHANGED <<setup, lead>>
    PROVE  OnTime(i)'
<1>1. /\ stream[i] \in Seq(Item) /\ uc \in Nat /\ dsp[i].pos \in Nat /\ setup.over \in Nat
      /\ shown.uc \in Nat /\ lead.dsp \in Nat /\ shown.uc <= uc
  BY DEF Types, DspType, Session, View, UcPlaces
<1>2. PICK items, d, n : items = stream[i] /\ d = dsp[i] /\ n = Len(stream[i])
  OBVIOUS
<1>3. items \in Seq(Item) /\ n \in Nat /\ n = Len(items)
  BY <1>1, <1>2
<1>4. PICK longer : longer = Append(items, item)
  OBVIOUS
<1>5. /\ longer \in Seq(Item) /\ DOMAIN longer = 1 .. n + 1
      /\ \A k \in 1 .. n : longer[k] = items[k]
      /\ longer[n + 1] = item
  BY <1>3, <1>4
<1>6. SUFFICES ASSUME NEW k \in 1 .. n + 1
               PROVE  /\ longer[k].uc <= uc'
                      /\ \A l \in 1 .. k : longer[l].uc <= longer[k].uc
                      /\ ~TooLate(d, longer[k])'
  BY <1>2, <1>4, <1>5 DEF OnTime, TooLate
<1>7. \A l \in 1 .. n : /\ items[l].uc \in Nat /\ items[l].uc <= uc
                        /\ \A j \in 1 .. l : items[j].uc <= items[l].uc
                        /\ ~TooLate(d, items[l])
  <2>1. \A l \in 1 .. n : items[l] \in Item
    BY <1>3
  <2>2. \A l \in 1 .. n : items[l].uc \in Nat
    BY <2>1 DEF Item
  <2>3. DOMAIN items = 1 .. n
    BY <1>3
  <2> QED BY <1>2, <2>2, <2>3 DEF OnTime
<1>8. CASE k \in 1 .. n
  <2>1. longer[k].uc <= uc'
    BY <1>1, <1>5, <1>7, <1>8
  <2>2. \A l \in 1 .. k : l \in 1 .. n
    BY <1>3, <1>8
  <2>3. \A l \in 1 .. k : longer[l].uc <= longer[k].uc
    BY <1>5, <1>7, <1>8, <2>2
  <2>4. ~TooLate(d, items[k])'
    BY <1>7, <1>8 DEF TooLate
  <2> QED BY <1>5, <1>8, <2>1, <2>3, <2>4 DEF TooLate
<1>9. CASE k = n + 1
  <2>1. longer[k] = item
    BY <1>5, <1>9
  <2>2. \A l \in 1 .. k : longer[l].uc <= uc
    <3> TAKE l \in 1 .. k
    <3>1. l \in 1 .. n \/ l = n + 1
      BY <1>3, <1>9
    <3> QED BY <1>1, <1>5, <1>7, <3>1
  <2>3. ASSUME ~indulged PROVE ~(d.pos > Deadline(uc + lead.dsp) + 2 * setup.over)
    <3>1. d.pos <= Ahead + 2 * setup.over
      BY <1>2, <2>3 DEF Leads
    <3>2. /\ shown.uc + lead.dsp \in Nat /\ uc + lead.dsp \in Nat
          /\ shown.uc + lead.dsp <= uc + lead.dsp
      <4>1. PICK a \in Nat : a = shown.uc
        BY <1>1
      <4>2. PICK l \in Nat : l = lead.dsp
        BY <1>1
      <4>3. PICK u \in Nat : u = uc /\ a <= u
        BY <1>1, <4>1
      <4>4. a + l \in Nat /\ u + l \in Nat /\ a + l <= u + l
        BY <4>3
      <4> QED BY <4>1, <4>2, <4>3, <4>4
    <3>3. Ahead <= Deadline(uc + lead.dsp)
      BY <3>2, DeadlineMono DEF Ahead
    <3>4. PICK a \in Nat, b \in Nat : a = Ahead /\ b = Deadline(uc + lead.dsp)
      BY <3>2, DeadlineNat DEF Ahead
    <3>5. PICK p \in Nat, o \in Nat : p = d.pos /\ o = setup.over
      BY <1>1, <1>2
    <3> QED BY <3>1, <3>3, <3>4, <3>5
  <2>4. ~TooLate(d, item)'
    BY <2>3 DEF TooLate
  <2>5. longer[k].uc <= uc'
    BY <1>1, <2>1
  <2>6. ~TooLate(d, longer[k])'
    BY <2>1, <2>4 DEF TooLate
  <2> QED BY <2>1, <2>2, <2>5, <2>6
<1> QED BY <1>3, <1>6, <1>8, <1>9

LEMMA UcInTime ==
    ASSUME Types, UcPlaces, InTime, UcFrame
    PROVE  InTime'
<1>1. /\ UNCHANGED <<setup, lead, wkAt, gate, linkTo, dsp, indulged, late>>
      /\ uc' \in Nat /\ uc <= uc' /\ Pushes
  BY DEF UcFrame, wkVars
<1>2. stream \in [Dsps -> Seq(Item)]
  BY DEF Types
<1>3. ASSUME NEW i \in Dsps PROVE OnTime(i)'
  <2>1. CASE stream'[i] = stream[i]
    BY <1>1, <2>1, SameOnTime DEF InTime
  <2>2. CASE stream'[i] # stream[i]
    <3>1. PICK j \in Dsps, item \in Item :
              /\ stream' = [stream EXCEPT ![j] = Append(stream[j], item)]
              /\ item.uc = uc /\ item.ahead = indulged
      BY <1>1, <2>2 DEF Pushes
    <3>2. j = i
      BY <1>2, <2>2, <3>1
    <3>3. stream'[i] = Append(stream[i], item)
      BY <1>2, <3>1, <3>2
    <3> QED BY <1>1, <3>1, <3>3, PushedOnTime DEF InTime
  <2> QED BY <2>1, <2>2
<1>4. ASSUME ~indulged' PROVE Leads'
  <2>1. Leads
    BY <1>1, <1>4 DEF InTime
  <2>2. shown.uc \in Nat /\ shown'.uc \in Nat /\ lead.dsp \in Nat /\ setup.over \in Nat
    BY DEF Types, View, Session, UcFrame
  <2>3. shown.uc <= shown'.uc
    BY <2>2 DEF UcFrame, UcPlaces
  <2>4. PICK a \in Nat, b \in Nat, o \in Nat : a = Ahead /\ b = Ahead' /\ o = setup.over /\ a <= b
    <3>1. shown.uc + lead.dsp \in Nat /\ shown'.uc + lead.dsp \in Nat
          /\ shown.uc + lead.dsp <= shown'.uc + lead.dsp
      BY <2>2, <2>3
    <3>2. Ahead' = Deadline(shown'.uc + lead.dsp)
      BY <1>1 DEF Ahead, Deadline
    <3> QED BY <2>2, <3>1, <3>2, DeadlineNat, DeadlineMono DEF Ahead
  <2>5. /\ \A i \in Dsps : dsp[i].pos \in Nat /\ gate[i] \in Nat
        /\ wkAt = "link" => linkTo[2] \in Nat
    BY DEF Types, DspType
  <2>6. \A i \in Dsps : dsp'[i].pos <= b + 2 * setup.over
    BY <1>1, <2>1, <2>4, <2>5 DEF Leads
  <2>7. wkAt' = "chunk" => \A i \in Dsps : gate'[i] <= b
    BY <1>1, <2>1, <2>4, <2>5 DEF Leads
  <2>8. wkAt' = "link" => linkTo'[2] <= b + setup.over
    BY <1>1, <2>1, <2>4, <2>5 DEF Leads
  <2> QED BY <1>1, <2>4, <2>6, <2>7, <2>8 DEF Leads
<1> QED BY <1>1, <1>3, <1>4 DEF InTime

\* A DSP runs on to a cycle no later than the item that waits in front.
LEMMA MovesInTime ==
    ASSUME Types, Types', InTime, NEW i \in Dsps, NEW stop \in Nat,
           Moves(i, stop), StopsAtItem(i, stop), UNCHANGED <<setup, lead, uc>>
    PROVE  /\ \A j \in Dsps : OnTime(j)'
           /\ ~late'
           /\ dsp'[i].pos <= stop + setup.over
           /\ \A j \in Dsps \ {i} : dsp'[j] = dsp[j]
<1>1. /\ dsp \in [Dsps -> DspType] /\ stream \in [Dsps -> Seq(Item)]
      /\ uc \in Nat /\ setup.over \in Nat
      /\ dsp' \in [Dsps -> DspType]
  BY DEF Types, Session
<1>2. /\ late' <=> (late \/ Served(i).late)
      /\ dsp'[i].pos <= stop + setup.over /\ dsp'[i].stuck = Served(i).d.stuck
      /\ \A j \in Dsps \ {i} : dsp'[j] = dsp[j] /\ stream'[j] = stream[j]
  BY MovesTakes
<1>3. PICK c : Took(i, c) /\ Served(i).n <= c
  BY MovesTakes
<1>4. PICK m \in Nat : m = Served(i).n /\ m \in 0 .. Len(stream[i])
  BY <1>1, ServeType DEF Served
<1>5. ASSUME m < Len(stream[i]), ~dsp'[i].stuck
      PROVE  dsp'[i].pos <= Deadline(stream[i][m + 1].uc) + setup.over
  <2>1. stop <= Deadline(stream[i][m + 1].uc)
    BY <1>2, <1>4, <1>5 DEF StopsAtItem
  <2>2. stream[i][m + 1] \in Item
    BY <1>1, <1>4, <1>5
  <2>3. PICK p \in Nat, e \in Nat, o \in Nat :
            p = dsp'[i].pos /\ e = Deadline(stream[i][m + 1].uc) /\ o = setup.over
    BY <1>1, <2>2, DeadlineNat DEF Item, DspType
  <2> QED BY <1>2, <2>1, <2>3
<1>6. OnTime(i) /\ ~late
  BY DEF InTime
<1>7. OnTime(i)'
  BY <1>3, <1>4, <1>5, <1>6, RestOnTime
<1>8. ASSUME NEW j \in Dsps \ {i} PROVE OnTime(j)'
  <2>1. OnTime(j) /\ dsp'[j] = dsp[j] /\ stream'[j] = stream[j] /\ uc' = uc
    BY <1>2, <1>8 DEF InTime
  <2> QED BY <1>1, <1>8, <2>1, SameOnTime
<1>9. ~Served(i).late
  BY <1>1, <1>6, ServeType DEF Served, OnTime
<1> QED BY <1>2, <1>6, <1>7, <1>8, <1>9

LEMMA TurnInTime ==
    ASSUME Types, Types', InTime, Turn, Ahead' = Ahead
    PROVE  InTime'
<1>1. /\ dsp \in [Dsps -> DspType] /\ stream \in [Dsps -> Seq(Item)]
      /\ setup.over \in Nat
      /\ dsp' \in [Dsps -> DspType]
  BY DEF Types, Session
<1>2. UNCHANGED <<setup, lead, uc>>
  BY DEF Turn, WkUnchanged
<1>3. /\ \A i \in Dsps : dsp'[i] = Served(i).d /\ Took(i, Served(i).n)
      /\ late' <=> (late \/ Served(1).late \/ Served(2).late)
      /\ wkAt' \in {"chunk", "parked"}
      /\ ~indulged' =>
           /\ \A i \in Dsps : gate'[i] <= Ahead
           /\ ~indulged \/ \A i \in Dsps : dsp'[i].pos <= Ahead
  BY TurnTakes
<1>4. \A i \in Dsps : OnTime(i)
  BY DEF InTime
<1>5. \A i \in Dsps :
         /\ Served(i).n \in 0 .. Len(stream[i]) /\ Served(i).d.pos = dsp[i].pos
         /\ Served(i).late => \E k \in 1 .. Len(stream[i]) : TooLate(dsp[i], stream[i][k])
         /\ Served(i).d.stuck <=>
              /\ Served(i).n < Len(stream[i])
              /\ Deadline(stream[i][Served(i).n + 1].uc) <= dsp[i].pos
  BY <1>1, ServeType DEF Served
<1>6. ASSUME NEW i \in Dsps PROVE OnTime(i)'
  <2>1. PICK m \in Nat : m = Served(i).n /\ m \in 0 .. Len(stream[i])
    BY <1>5
  <2>2. ASSUME m < Len(stream[i]), ~dsp'[i].stuck
        PROVE  dsp'[i].pos <= Deadline(stream[i][m + 1].uc) + setup.over
    <3>1. ~(Deadline(stream[i][m + 1].uc) <= dsp[i].pos)
      BY <1>3, <1>5, <2>1, <2>2
    <3>2. stream[i][m + 1] \in Item
      BY <1>1, <2>1, <2>2
    <3>3. PICK p \in Nat, e \in Nat, o \in Nat :
              p = dsp[i].pos /\ e = Deadline(stream[i][m + 1].uc) /\ o = setup.over
      BY <1>1, <3>2, DeadlineNat DEF Item, DspType
    <3>4. dsp'[i].pos = p
      BY <1>3, <1>5, <3>3
    <3> QED BY <3>1, <3>3, <3>4
  <2>3. Took(i, m) /\ m <= m
    BY <1>3, <2>1
  <2> QED BY <1>2, <1>4, <2>1, <2>2, <2>3, RestOnTime
<1>7. ~late'
  <2>1. \A i \in Dsps : ~Served(i).late
    BY <1>1, <1>4, <1>5 DEF OnTime
  <2> QED BY <1>3, <2>1 DEF InTime, Dsps
<1>8. ASSUME ~indulged' PROVE Leads'
  <2>1. PICK a \in Nat, o \in Nat : a = Ahead /\ o = setup.over /\ Ahead' = a /\ setup'.over = o
    BY <1>1, <1>2, AheadNat
  <2>2. \A i \in Dsps : dsp'[i].pos = dsp[i].pos /\ dsp[i].pos \in Nat
    BY <1>1, <1>3, <1>5 DEF DspType
  <2>3. \A i \in Dsps : dsp'[i].pos <= a + 2 * o
    <3>1. CASE indulged
      BY <1>3, <1>8, <2>1, <2>2, <3>1
    <3>2. CASE ~indulged
      BY <2>1, <2>2, <3>2 DEF InTime, Leads
    <3> QED BY <3>1, <3>2
  <2> QED BY <1>3, <1>8, <2>1, <2>3 DEF Leads
<1> QED BY <1>6, <1>7, <1>8 DEF InTime

LEMMA ChunkInTime ==
    ASSUME Types, Types', InTime, Chunk, Ahead' = Ahead
    PROVE  InTime'
<1>1. UNCHANGED <<setup, lead, uc, indulged>> /\ wkAt = "chunk"
  BY DEF Chunk, WkUnchanged
<1>2. PICK i \in Dsps, stop \in Nat :
              /\ Moves(i, stop) /\ StopsAtItem(i, stop) /\ stop <= gate[i]
              /\ \/ wkAt' = "turn"
                 \/ /\ wkAt' = "link" /\ linkTo' \in Dsps \X Nat
                    /\ linkTo'[2] <= dsp'[i].pos
  BY ChunkTakes
<1>3. /\ \A j \in Dsps : OnTime(j)'
      /\ ~late'
      /\ dsp'[i].pos <= stop + setup.over
      /\ \A j \in Dsps \ {i} : dsp'[j] = dsp[j]
  BY <1>1, <1>2, MovesInTime
<1>4. ASSUME ~indulged' PROVE Leads'
  <2>1. Leads
    BY <1>1, <1>4 DEF InTime
  <2>2. PICK a \in Nat, o \in Nat : a = Ahead /\ o = setup.over /\ Ahead' = a /\ setup'.over = o
    BY <1>1, AheadNat DEF Types, Session
  <2>3. gate[i] \in Nat /\ \A j \in Dsps : dsp'[j].pos \in Nat
    BY DEF Types, DspType
  <2>4. gate[i] <= a
    BY <1>1, <2>1, <2>2 DEF Leads
  <2>5. dsp'[i].pos <= a + o
    BY <1>2, <1>3, <2>2, <2>3, <2>4
  <2>6. \A j \in Dsps : dsp'[j].pos <= a + 2 * o
    <3> TAKE j \in Dsps
    <3>1. CASE j = i
      BY <2>2, <2>3, <2>5, <3>1
    <3>2. CASE j # i
      BY <1>3, <2>1, <2>2, <3>2 DEF Leads
    <3> QED BY <3>1, <3>2
  <2>7. wkAt' = "link" => linkTo'[2] <= a + o
    <3> SUFFICES ASSUME wkAt' = "link" PROVE linkTo'[2] <= a + o
      OBVIOUS
    <3>1. linkTo'[2] \in Nat /\ linkTo'[2] <= dsp'[i].pos
      BY <1>2
    <3> QED BY <2>2, <2>3, <2>5, <3>1
  <2>8. wkAt' # "chunk"
    BY <1>2
  <2> QED BY <2>2, <2>6, <2>7, <2>8 DEF Leads
<1> QED BY <1>3, <1>4 DEF InTime

LEMMA LinkInTime ==
    ASSUME Types, Types', InTime, Link, Ahead' = Ahead
    PROVE  InTime'
<1>1. UNCHANGED <<setup, lead, uc, indulged>> /\ wkAt = "link" /\ linkTo[2] \in Nat
  BY DEF Link, WkUnchanged, Types
<1>2. PICK a \in Nat, o \in Nat : a = Ahead /\ o = setup.over /\ Ahead' = a /\ setup'.over = o
  BY <1>1, AheadNat DEF Types, Session
<1>3. \A j \in Dsps : dsp'[j].pos \in Nat /\ dsp[j].pos \in Nat
  BY DEF Types, DspType
<1>4. PICK i \in Dsps :
         \/ \E stop \in Nat : /\ Moves(i, stop) /\ StopsAtItem(i, stop) /\ stop <= linkTo[2]
                              /\ wkAt' = wkAt /\ linkTo' = linkTo
         \/ wkAt' = "turn" /\ UNCHANGED <<dsp, stream, tx, late>>
  BY LinkTakes
<1>5. CASE \E stop \in Nat : /\ Moves(i, stop) /\ StopsAtItem(i, stop) /\ stop <= linkTo[2]
                             /\ wkAt' = wkAt /\ linkTo' = linkTo
  <2>1. PICK stop \in Nat : /\ Moves(i, stop) /\ StopsAtItem(i, stop) /\ stop <= linkTo[2]
                            /\ wkAt' = wkAt /\ linkTo' = linkTo
    BY <1>5
  <2>2. /\ \A j \in Dsps : OnTime(j)'
        /\ ~late'
        /\ dsp'[i].pos <= stop + setup.over
        /\ \A j \in Dsps \ {i} : dsp'[j] = dsp[j]
    BY <1>1, <2>1, MovesInTime
  <2>3. ASSUME ~indulged' PROVE Leads'
    <3>1. Leads
      BY <1>1, <2>3 DEF InTime
    <3>2. linkTo[2] <= a + o
      BY <1>1, <1>2, <3>1 DEF Leads
    <3>3. dsp'[i].pos <= a + 2 * o
      BY <1>1, <1>2, <1>3, <2>1, <2>2, <3>2
    <3>4. \A j \in Dsps : dsp'[j].pos <= a + 2 * o
      BY <1>2, <2>2, <3>1, <3>3 DEF Leads
    <3> QED BY <1>1, <1>2, <2>1, <3>2, <3>4 DEF Leads
  <2> QED BY <2>2, <2>3 DEF InTime
<1>6. CASE wkAt' = "turn" /\ UNCHANGED <<dsp, stream, tx, late>>
  <2>1. uc \in Nat
    BY DEF Types
  <2>2. \A j \in Dsps : OnTime(j)'
    BY <1>1, <1>6, <2>1, SameOnTime DEF InTime
  <2>3. ~indulged' => Leads'
    BY <1>1, <1>2, <1>6 DEF InTime, Leads
  <2> QED BY <1>6, <2>2, <2>3 DEF InTime
<1> QED BY <1>4, <1>5, <1>6

LEMMA WorkerInTime ==
    ASSUME Types, Types', InTime, WorkerActs, WorkerFrame
    PROVE  InTime'
<1>1. UNCHANGED <<setup, lead, uc>> /\ shown'.uc = shown.uc
  BY DEF WorkerFrame
<1>2. Ahead' = Ahead
  BY <1>1 DEF Ahead, Deadline
<1>3. ASSUME UNCHANGED <<dsp, stream, gate, linkTo, indulged, late>>, wkAt' \in {wkAt, "turn"}
      PROVE  InTime'
  <2>1. uc \in Nat
    BY DEF Types
  <2>2. \A j \in Dsps : OnTime(j)'
    BY <1>1, <1>3, <2>1, SameOnTime DEF InTime
  <2>3. ~indulged' => Leads'
    BY <1>1, <1>2, <1>3 DEF InTime, Leads
  <2> QED BY <1>3, <2>2, <2>3 DEF InTime
<1>4. CASE Turn
  BY <1>2, <1>4, TurnInTime
<1>5. CASE Chunk
  BY <1>2, <1>5, ChunkInTime
<1>6. CASE Link
  BY <1>2, <1>6, LinkInTime
<1>7. CASE Park \/ ParkEnds \/ Fence("worker") \/ Drain("worker")
  BY <1>3, <1>7 DEF Park, ParkEnds, Fence, Drain, wkVars
<1> QED BY <1>4, <1>5, <1>6, <1>7 DEF WorkerActs, WorkerRuns

LEMMA InTimeKept == WakeupInv /\ InTime /\ [Next]_vars => InTime'
<1> SUFFICES ASSUME WakeupInv, InTime, [Next]_vars PROVE InTime'
  OBVIOUS
<1>1. Types /\ UcPlaces /\ Types'
  BY WakeupKept DEF WakeupInv
<1>2. CASE UcActs
  BY <1>1, <1>2, UcMoves, UcInTime
<1>3. CASE WorkerActs
  BY <1>1, <1>3, WorkerTypes, WorkerInTime
<1>4. CASE UNCHANGED vars
  <2>1. /\ UNCHANGED <<setup, lead, uc, stream, shown, dsp, wkAt, gate, linkTo, indulged, late>>
    BY <1>4 DEF vars, wkVars
  <2>2. uc \in Nat
    BY <1>1 DEF Types
  <2>3. \A j \in Dsps : OnTime(j)'
    BY <1>1, <2>1, <2>2, SameOnTime DEF InTime
  <2>4. Ahead' = Ahead
    BY <2>1 DEF Ahead, Deadline
  <2>5. ~indulged' => Leads'
    BY <2>1, <2>4 DEF InTime, Leads
  <2> QED BY <2>1, <2>3, <2>5 DEF InTime
<1> QED BY <1>2, <1>3, <1>4, NextIsOfEither

LEMMA InitInTime == Init => InTime
<1> SUFFICES ASSUME Init PROVE InTime
  OBVIOUS
<1>1. Types
  BY InitTypes
<1>2. /\ stream = <<<<>>, <<>>>> /\ wkAt = "turn" /\ late = FALSE /\ uc = setup.uc
      /\ indulged = (\E i \in Dsps : setup.pos[i] > Deadline(setup.uc + lead.dsp))
      /\ \A i \in Dsps : dsp[i].pos = setup.pos[i]
      /\ shown.uc = setup.uc
  BY DEF Init
<1>3. \A i \in Dsps : OnTime(i)
  <2>1. \A i \in Dsps : DOMAIN stream[i] = {}
    BY <1>2 DEF Dsps
  <2> QED BY <2>1 DEF OnTime
<1>4. ASSUME ~indulged PROVE Leads
  <2>1. PICK a \in Nat, o \in Nat : a = Ahead /\ o = setup.over
    BY <1>1, AheadNat DEF Types, Session
  <2>2. a = Deadline(setup.uc + lead.dsp)
    BY <1>2, <2>1 DEF Ahead
  <2>3. \A i \in Dsps : dsp[i].pos \in Nat /\ ~(dsp[i].pos > a)
    BY <1>1, <1>2, <1>4, <2>2 DEF Types, DspType
  <2>4. \A i \in Dsps : dsp[i].pos <= a + 2 * o
    BY <2>3
  <2> QED BY <1>2, <2>1, <2>4 DEF Leads
<1> QED BY <1>2, <1>3, <1>4 DEF InTime

LEMMA InTimeHolds == Spec => []InTime
<1>1. Init => InTime
  BY InitInTime
<1> QED BY <1>1, WakeupInvHolds, InTimeKept, PTL DEF Spec

\* A word or command of the UC lands within the DSPs' lead
\* (mdtransportpolicy.h:28-30), whatever the clocks, leads, limits, firmwares
\* and interleavings: applyHostToDspStream() (mddsp.cpp) finds none that waited
\* for nothing, written while no DSP was let ahead, further behind its DSP than
\* the lead and the blocks a chunk and a link write finish.
THEOREM WordsArriveOnTime == Spec => []WordsOnTime
<1>1. InTime => WordsOnTime
  BY DEF InTime, WordsOnTime
<1> QED BY <1>1, InTimeHolds, PTL
=============================================================================
