------------------------------ MODULE EventMatch ------------------------------
(***************************************************************************)
(* Which subscriptions an event reaches: buildEventSearchRegex and the     *)
(* WHERE clause of EventToEndpointsMappingJob (worker/eventMapping), as    *)
(* Postgres evaluates it.  An event type and a subscription (one element   *)
(* of enabled_events) are sequences of characters; the pattern is built    *)
(* from the event type and searched for in the subscription.               *)
(***************************************************************************)
EXTENDS Integers, Sequences

CONSTANTS
    Char,           \* the characters of event types and subscriptions
    Operator,       \* those, but for the dot, that are not themselves in a pattern
                    \* of Postgres: ( ) [ ] { } + ? * ^ $ | \
    Type,           \* the event types submitted
    Subscription,   \* the elements of enabled_events registered
    Answer          \* <<type, subscription>>: what a query selects whose event type
                    \* holds an operator; it may be nothing, the pattern refused

Dot == "."
Star == "*"

ASSUME TextAssumption ==
    /\ Dot \in Char \ Operator /\ Star \in Operator /\ Operator \subseteq Char
    /\ Type \subseteq Seq(Char) /\ Subscription \subseteq Seq(Char)

Everything == <<Star>>

\* slip: the loop over the portions of the event type is left out
WholeOnly(t) == {t}

\* strings.Join(eventTypeSplit[0:i+1], "."), for every i
Portions(t) ==
    {SubSeq(t, 1, n) : n \in {k \in 0 .. Len(t) : k = Len(t) \/ t[k + 1] = Dot}}

\* the event type stands for itself in the pattern, but for its dots
Literal(t) == \A i \in 1 .. Len(t) : t[i] \notin Operator

\* s ~ p for a literal p: the search is not anchored, and a dot of the pattern is
\* any character
Occurs(p, s) ==
    \E i \in 0 .. Len(s) - Len(p) :
        \A k \in 1 .. Len(p) : p[k] = Dot \/ p[k] = s[i + k]

\* the alternatives of the pattern; the .* that ends all but the first matches
\* the empty string, so it asks for nothing
Pattern(t) == {t} \cup Portions(t)

\* enabled_event ~ pattern OR enabled_event = '*'.  With an operator in the event
\* type the pattern may find anything, or be refused (an unbalanced parenthesis, a
\* leading +): then the whole query selects nothing, and its error is ignored.
Selects(t, s) ==
    \/ Literal(t) /\ ((\E p \in Pattern(t) : Occurs(p, s)) \/ s = Everything)
    \/ ~Literal(t) /\ <<t, s>> \in Answer

-----------------------------------------------------------------------------
(***************************************************************************)
(* A subscription that is registered, and the events that come after it:   *)
(* the last one's type and whether the query selected the subscription.    *)
(***************************************************************************)
VARIABLES eventType, subscription, selected
vars == <<eventType, subscription, selected>>

Init ==
    /\ eventType \in Type /\ subscription \in Subscription
    /\ selected = Selects(eventType, subscription)

Query(t) ==
    /\ eventType' = t
    /\ selected' = Selects(t, subscription)
    /\ UNCHANGED subscription

Next == \E t \in Type : Query(t)

Spec == Init /\ [][Next]_vars

-----------------------------------------------------------------------------
\* README.md:13, "Event type wildcard support": a subscription is an event
\* type, or a star, or what event types begin with, followed by a dot and a star.
StartsWith(t, p) == Len(p) <= Len(t) /\ \A k \in 1 .. Len(p) : t[k] = p[k]
Wildcard(s) == Len(s) > 2 /\ s[Len(s)] = Star /\ s[Len(s) - 1] = Dot
Wants(s, t) ==
    \/ s = Everything \/ s = t
    \/ /\ Wildcard(s)
       /\ LET stem == SubSeq(s, 1, Len(s) - 2)
          IN  t = stem \/ StartsWith(t, Append(stem, Dot))

\* what stands before the first dot of an event type
FirstSegment(t) ==
    SubSeq(t, 1, CHOOSE n \in 0 .. Len(t) : /\ \A k \in 1 .. n : t[k] # Dot
                                            /\ n = Len(t) \/ t[n + 1] = Dot)

TypeOK == eventType \in Type /\ subscription \in Subscription /\ selected \in BOOLEAN

\* No subscription misses an event it asks for: the pattern, which is searched
\* for in the subscription and not in the event type, finds every exact and
\* every wildcard subscription, whatever characters it is made of, if the event
\* type holds no operator.  With one (a+b) even the exact subscription is missed.
NoEventMissed ==
    Literal(eventType) /\ Wants(subscription, eventType) => selected

\* What the query comes to for an event type without operators: it reaches the
\* subscriptions in which the first segment of its type occurs somewhere.  The
\* longer alternatives of the pattern select nothing that the shortest does not.
FirstSegmentDecides ==
    Literal(eventType) =>
        (selected <=> \/ Occurs(FirstSegment(eventType), subscription)
                      \/ subscription = Everything)

\* An event reaches only the subscriptions that ask for it.
OnlyWanted == selected => Wants(subscription, eventType)
=============================================================================
