-------------------------------- MODULE MCFront --------------------------------
(* An instance of Front for TLC: what a few clients type or send.           *)
EXTENDS Front, TLC

CONSTANTS c1, c2

Calls == {c1, c2}
Interchangeable == Permutations(Calls)
Texts == {"https://a", "https://b"}
Brackets == ("metadata[team]" :> "team") @@ ("metadata[" :> Malformed)
Sevens == "7" :> 7

First == <<"zb0">>
Second == <<"zb1">>
Generated == {Second}
Old == [id |-> "we0", url |-> "https://a", secret |-> [text |-> "whsec0", under |-> 0],
        enabled_events |-> <<"charge.*">>, metadata |-> [team |-> "x"], status |-> "enabled"]

Event(type, priority) == [type |-> type, priority |-> priority, content |-> "some"]
Submissions ==
    [events : {<<Event("order", Nil), Event("charge", 1), Event("order", 0)>>,
               <<Event("charge", Nil), [type |-> Nil, priority |-> Nil, content |-> "some"]>>,
               <<[type |-> "charge", priority |-> 1, content |-> Nil]>>}]
Registrations ==
    {[url |-> "https://b", enabled_events |-> <<"order.*">>, metadata |-> <<>>],
     [url |-> "b", enabled_events |-> <<"order.*">>, metadata |-> Nil]}
Updates ==
    {[url |-> Nil, disabled |-> TRUE, enabled_events |-> <<>>, metadata |-> [team |-> "y"]],
     [url |-> "https://b", disabled |-> Nil, enabled_events |-> <<"order.*">>, metadata |-> Nil]}

Commands ==
    [method : {"submit"}, token : {First, <<"Bearer">> \o First}, body : Submissions]
    \cup [method : {"register"}, token : {First, Second}, body : Registrations]
    \cup [method : {"update"}, token : {First}, id : {"we0", "we1", "nobody"}, body : Updates]
    \cup [method : {"list"}, token : {First}, limit : {1, -1}, offset : {0, 1},
          createdAtGte : {Nil}, updatedAtLt : {Nil}, metadata : {[team |-> "x"]}]
    \cup [method : {"list"}, token : {First}, limit : {-1}, offset : {0},
          createdAtGte : {Nil, 7}, updatedAtLt : {Nil},
          metadata : {Nil, "metadata[team]" :> "y", "metadata[" :> "x", "createdAt.gte" :> "x",
                      "updatedAt.lt" :> "7"}]
    \cup [method : {"get"}, token : {First}, id : {"we0", "we1"}]

Sent(verb, path, header, body) == [verb |-> verb, path |-> path, header |-> header, body |-> body]
Query(metadata, limit) ==
    [limit |-> limit, offset |-> Nil, createdAtGte |-> Nil, updatedAtLt |-> Nil,
     metadata |-> metadata]
ByHand ==
    {Sent("POST", <<"events">>, First, [events |-> <<Nil>>]),
     Sent("POST", <<"events">>, First, [events |-> <<>>]),
     Sent("POST", <<"events">>, First, Malformed),
     Sent("POST", <<"endpoints">>, <<>>, [url |-> "https://b", enabled_events |-> <<"*">>, metadata |-> Nil]),
     Sent("PUT", <<"endpoints", "we0">>, First, Nil),
     Sent("GET", <<"endpoints">>, First, Query([team |-> "x"], Nil)),
     Sent("GET", <<"endpoints">>, First, Query([team |-> "y"], 0)),
     Sent("GET", <<"endpoints">>, First, Query(Malformed, Nil)),
     Sent("GET", <<"events">>, First, Query(Nil, Nil)),
     Sent("GET", <<"health">>, First, Query(Nil, Nil))}
=============================================================================
