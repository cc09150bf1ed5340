----------------------------- MODULE MCZebrahook -----------------------------
(* Instances of Zebrahook for TLC: one event and room for a second copy of *)
(* its delivery; two events of a request, the later the more important.    *)
EXTENDS Zebrahook, TLC

CONSTANTS e1, m1, w1, w2, pm, pd

One == <<0>>
OneType == <<"paid">>
SecondFirst == <<1, 5>>
TwoTypes == <<"paid", "failed">>

OneEndpoint == {e1}
Deliveries == <<e1, e1>>
AllOrOne == {<<"*">>, <<"refund">>}
Selected == {"paid", "failed"} \X {"*"}
OneMapper == {m1}
MapperPlace == [m \in OneMapper |-> pm]
TwoWorkers == {w1, w2}
TwoPlaces == [w \in TwoWorkers |-> pd]
==============================================================================
