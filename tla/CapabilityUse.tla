---------------------------- MODULE CapabilityUse ----------------------------
(***************************************************************************)
(* What the request spine promises about a capability token: it is spent   *)
(* at most once and for good, and a handler runs at most once and only     *)
(* for a token spent before.                                               *)
(***************************************************************************)
EXTENDS Naturals

CONSTANT Tokens
VARIABLES spent, \* tokens no execution may consume any more
          runs   \* [Tokens -> handler invocations]

Init == spent = {} /\ runs = [t \in Tokens |-> 0]

Spend(t) == t \notin spent /\ spent' = spent \cup {t} /\ UNCHANGED runs

Run(t) ==
    /\ t \in spent /\ runs[t] = 0
    /\ runs' = [runs EXCEPT ![t] = 1]
    /\ UNCHANGED spent

Next == \E t \in Tokens : Spend(t) \/ Run(t)

Spec == Init /\ [][Next]_<<spent, runs>>
=============================================================================
