----------------------------- MODULE MCChainPlayer -----------------------------
(* Chains and lengths for TLC: A one step, B two, C three, steps of two    *)
(* clocks, a commit three clocks before the end: A is shorter than that.   *)
EXTENDS ChainPlayer, TLC

CONSTANTS a, b, c

MCLength == a :> 1 @@ b :> 2 @@ c :> 3

E(p, n) == [pattern |-> p, passes |-> n]
MCChains == {<<>>, <<E(b, 2), E(c, 1)>>, <<E(a, 1), E(c, 1), E(b, 1)>>}

\* passAt, computed from the tick, and next, computed from the pass before, agree.
ASSUME PassesFollow ==
    \A ch \in MCChains, tick \in 0 .. 60 :
        IsPlayable(ch) =>
            LET pass == PassAt(ch, tick)
            IN  PassAt(ch, End(pass)) = NextPass(ch, pass)
===============================================================================
