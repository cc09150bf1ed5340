----------------------------- MODULE MCEventMatch -----------------------------
(* Instances of EventMatch for TLC: every short text over a few characters. *)
EXTENDS EventMatch, TLC

Texts(chars, n) == UNION {[1 .. k -> chars] : k \in 1 .. n}

Characters == {"a", "b", "(", "+", Dot, Star}
Operators == {"(", "+", Star}

\* no empty segment: an event type neither starts nor ends with a dot
Plain(t) == /\ t[1] # Dot /\ t[Len(t)] # Dot
            /\ \A k \in 1 .. Len(t) - 1 : t[k] # Dot \/ t[k + 1] # Dot
Repeated == <<"a", "+", "b">>      \* finds ab and aab, and not itself
Unclosed == <<"a", "(", "b">>      \* refused
ShortTypes == {t \in Texts({"a", "b", Dot}, 4) : Plain(t)} \cup {Repeated, Unclosed}
ShortSubscriptions == Texts({"a", "b", Dot, Star}, 3) \cup ShortTypes
                        \cup {t \o <<Dot, Star>> : t \in ShortTypes}
\* what Postgres finds of the subscriptions with a+b: ab or aab somewhere in it, or *
Answers ==
    {<<Repeated, s>> : s \in
        {z \in ShortSubscriptions :
            \/ z = Everything
            \/ \E k \in 1 .. Len(z) - 1 : z[k] = "a" /\ z[k + 1] = "b"}}

SiblingTypes == {<<"a", Dot, "a">>, <<"a", Dot, "b">>}
=============================================================================
