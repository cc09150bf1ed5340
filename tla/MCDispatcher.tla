---------------------------- MODULE MCDispatcher ----------------------------
(* Instances of Dispatcher for TLC: two event deliveries, two goroutines. *)
EXTENDS DispatcherInv, TLC

CONSTANTS e1, w1, w2, p1, p2

OneEndpoint == {e1}
SameEndpoint == <<e1, e1>>
OneDelivery == <<e1>>
TwoWorkers == {w1, w2}
OneProcess == {p1}
TwoProcesses == {p1, p2}
Together == [w \in {w1, w2} |-> p1]
Apart == (w1 :> p1) @@ (w2 :> p2)

\* the goroutines of one process are interchangeable
WorkerSymmetry == Permutations({w1, w2})
=============================================================================
