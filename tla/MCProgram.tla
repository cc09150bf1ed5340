------------------------------ MODULE MCProgram ------------------------------
(* An instance of Program for TLC: every command line, with one that each   *)
(* check of the address fails, a sound config file and one that fails each *)
(* check of it.                                                            *)
EXTENDS Program, TLC

CONSTANTS r1, r2, torn

TwoRequests == {r1, r2}
OneOrTwo == 1 .. 2

Plain == [port : {"number"}, domain : {""}]
Unreachable == [port : {"word"}, domain : {""}] \cup [port : {"number"}, domain : {"host"}]
Modes ==
    [setup : BOOLEAN, worker : {"", "eventMapping", "dispatcher", "mapping"},
     server : BOOLEAN, newApiKey : BOOLEAN, host : {"localhost", "example.com"}]
CommandLines ==
    {m @@ a : m \in Modes, a \in Plain}
        \cup {m @@ a : m \in {f \in Modes : f.server}, a \in Unreachable}

Sound == [read |-> TRUE, dispatcher |-> 2, eventMapping |-> 1, keyLength |-> 9, header |-> TRUE]
ConfigFiles ==
    {Sound, [Sound EXCEPT !.read = FALSE], [Sound EXCEPT !.dispatcher = 0],
     [Sound EXCEPT !.eventMapping = 0], [Sound EXCEPT !.keyLength = 8],
     [Sound EXCEPT !.header = FALSE]}
=============================================================================
