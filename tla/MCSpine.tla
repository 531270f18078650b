------------------------------- MODULE MCSpine -------------------------------
(* Small instances of the request spine: two calls in two processes that   *)
(* share the replay ledger, and three threads of one process.              *)
EXTENDS CoordinatedExecution, TLC

CONSTANTS c1, c2, c3, p1, p2, drive, steer, refused, ungated, misbound, unknown, astray, malformed

TwoProcs == (c1 :> p1) @@ (c2 :> p2)
ThreeThreads == (c1 :> p1) @@ (c2 :> p1) @@ (c3 :> p1)
(* The threads of one process are interchangeable.                         *)
Threads == Permutations(Calls)

Req(cap, target, exec, params, court) ==
    [capability |-> cap, target |-> target, executor |-> exec, params |-> params, court |-> court]

(* drive and steer claim the bus; each of the other intents is turned away *)
(* by one check: Court, the gate (without a claim), or the binding.        *)
MCRequest ==
    (drive     :> Req("drive", "bus", "mover", "valid", "authorized")) @@
    (steer     :> Req("steer", "bus", "steerer", "valid", "authorized")) @@
    (refused   :> Req("read", "bus", "reader", "valid", "policy_denied")) @@
    (ungated   :> Req("erase", "disk", "eraser", "valid", "authorized")) @@
    (misbound  :> Req("drive", "bus", "reader", "valid", "authorized")) @@
    (unknown   :> Req("drive", "bus", "nobody", "valid", "authorized")) @@
    (astray    :> Req("drive", "disk", "mover", "valid", "authorized")) @@
    (malformed :> Req("drive", "bus", "mover", "invalid", "authorized"))

MCExecutors == {"mover", "steerer", "reader", "eraser"}
MCSpec ==
    ("mover"   :> [capability |-> "drive", targets |-> {"bus"}, resources |-> {"can-bus"}]) @@
    ("steerer" :> [capability |-> "steer", targets |-> {"bus"}, resources |-> {"can-bus", "steering"}]) @@
    ("reader"  :> [capability |-> "read", targets |-> {AnyTarget}, resources |-> {}]) @@
    ("eraser"  :> [capability |-> "erase", targets |-> {"disk"}, resources |-> {}])

(* Nothing gates erase.                                                    *)
MCGates == {[capability |-> "drive", targets |-> {"bus"}],
            [capability |-> "steer", targets |-> {AnyTarget}],
            [capability |-> "read", targets |-> {AnyTarget}]}
=============================================================================
