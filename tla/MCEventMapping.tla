---------------------------- MODULE MCEventMapping ----------------------------
(* Instances of EventMapping for TLC.  What a subscription selects is taken *)
(* from EventMatch; its characters are whole segments here.                 *)
EXTENDS EventMapping, TLC

CONSTANTS e1, e2, w1, w2, p1, p2

TwoEndpoints == {e1, e2}
TwoWorkers == {w1, w2}
TwoProcesses == {p1, p2}
Apart == (w1 :> p1) @@ (w2 :> p2)

OneEvent == <<"charge.failed">>
TwoEvents == <<"charge.failed", "charge.paid">>

Spelled ==
    ("charge.failed" :> <<"charge", ".", "failed">>)
    @@ ("charge.paid" :> <<"charge", ".", "paid">>)
    @@ ("charge.*" :> <<"charge", ".", "*">>)
    @@ ("order.*" :> <<"order", ".", "*">>)
    @@ ("*" :> <<"*">>)

Subscriptions == {"charge.failed", "charge.*", "order.*", "*"}
Text == INSTANCE EventMatch WITH
    Char <- {"charge", "order", "failed", "paid", ".", "*"},
    Operator <- {"*"}, Answer <- {},
    Type <- {Spelled[t] : t \in {"charge.failed", "charge.paid"}},
    Subscription <- {Spelled[s] : s \in Subscriptions},
    eventType <- <<>>, subscription <- <<>>, selected <- FALSE
BySearch ==
    {<<t, s>> \in {"charge.failed", "charge.paid"} \X Subscriptions :
        Text!Selects(Spelled[t], Spelled[s])}

Single == {<<"charge.*">>}
ChargeOrOrder == {<<"charge.*">>, <<"order.*">>}

ASSUME NoDoubleMatch

\* the endpoints are interchangeable, and so are the processes with their goroutine
Interchangeable ==
    {f @@ g : f \in Permutations({e1, e2}),
              g \in {(w1 :> w1) @@ (w2 :> w2) @@ (p1 :> p1) @@ (p2 :> p2),
                     (w1 :> w2) @@ (w2 :> w1) @@ (p1 :> p2) @@ (p2 :> p1)}}
=============================================================================
