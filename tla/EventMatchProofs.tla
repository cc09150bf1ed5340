--------------------------- MODULE EventMatchProofs ---------------------------
(***************************************************************************)
(* What the pattern search selects for an event type without operators of  *)
(* the pattern language, and subscriptions of any length and characters.   *)
(***************************************************************************)
EXTENDS EventMatch, SequenceTheorems, WellFoundedInduction, TLAPS

\* A set of natural numbers that is not empty has a least one.
LEMMA LeastNatural ==
    ASSUME NEW T, T \subseteq Nat, T # {}
    PROVE  \E n \in T : \A m \in T : n <= m
<1> DEFINE R == {ss \in Nat \X Nat : ss[1] < ss[2]}
<1>1. IsWellFoundedOn(R, Nat)
  BY NatLessThanWellFounded DEF OpToRel
<1>2. PICK n \in T : \A m \in T : ~(<<m, n>> \in R)
  BY <1>1, WFMin
<1>3. ASSUME NEW m \in T PROVE n <= m
  <2>1. m \in Nat /\ n \in Nat
    OBVIOUS
  <2>2. ~(m < n)
    <3>1. SUFFICES ASSUME m < n PROVE FALSE
      OBVIOUS
    <3>2. <<m, n>> \in R
      BY <2>1, <3>1
    <3> QED
      BY <1>2, <3>2
  <2> QED
    BY <2>1, <2>2
<1> QED
  BY <1>3

\* A portion of an event type: its first n characters, up to a dot or the end.
LEMMA PortionIs ==
    ASSUME NEW t \in Seq(Char), NEW p \in Portions(t)
    PROVE  /\ p \in Seq(Char) /\ Len(p) <= Len(t)
           /\ \A k \in 1 .. Len(p) : p[k] = t[k]
<1>1. PICK n \in 0 .. Len(t) : p = SubSeq(t, 1, n)
  BY DEF Portions
<1> QED
  BY <1>1, SubSeqProperties

\* A portion is found wherever a longer one is.
LEMMA ShorterOccurs ==
    ASSUME NEW t \in Seq(Char), NEW s \in Seq(Char),
           NEW p \in Portions(t), NEW q \in Portions(t),
           Len(p) <= Len(q), Occurs(q, s)
    PROVE  Occurs(p, s)
<1>1. PICK i \in 0 .. Len(s) - Len(q) :
          \A k \in 1 .. Len(q) : q[k] = Dot \/ q[k] = s[i + k]
  BY DEF Occurs
<1>2. /\ Len(p) \in Nat /\ Len(q) \in Nat /\ Len(s) \in Nat
      /\ \A k \in 1 .. Len(p) : p[k] = q[k]
  BY PortionIs, LenProperties
<1>3. i \in 0 .. Len(s) - Len(p) /\ \A k \in 1 .. Len(p) : k \in 1 .. Len(q)
  BY <1>1, <1>2
<1> QED
  BY <1>1, <1>2, <1>3 DEF Occurs

\* The whole event type is a portion of itself, the last one.
LEMMA WholeIsPortion ==
    ASSUME NEW t \in Seq(Char)
    PROVE  t \in Portions(t)
<1>1. Len(t) \in Nat /\ t = SubSeq(t, 1, Len(t))
  BY LenProperties, SubSeqProperties
<1>2. Len(t) \in {k \in 0 .. Len(t) : k = Len(t) \/ t[k + 1] = Dot}
  BY <1>1
<1> QED
  BY <1>1, <1>2 DEF Portions

\* Before the first dot stands the shortest portion of an event type.
LEMMA FirstSegmentIs ==
    ASSUME NEW t \in Seq(Char)
    PROVE  /\ FirstSegment(t) \in Portions(t)
           /\ \A q \in Portions(t) : Len(FirstSegment(t)) <= Len(q)
<1> DEFINE Ends == {k \in 0 .. Len(t) : k = Len(t) \/ t[k + 1] = Dot}
           First(n) == (\A k \in 1 .. n : t[k] # Dot) /\ (n = Len(t) \/ t[n + 1] = Dot)
           f == CHOOSE n \in 0 .. Len(t) : First(n)
<1>1. Len(t) \in Nat
  BY LenProperties
<1>2. Ends \subseteq Nat /\ Ends # {}
  BY <1>1
<1>3. PICK n \in Ends : \A m \in Ends : n <= m
  <2> HIDE DEF Ends
  <2> QED
    BY <1>2, LeastNatural
<1>4. First(n)
  <2>1. ASSUME NEW k \in 1 .. n PROVE t[k] # Dot
    <3>1. k - 1 \in 0 .. Len(t) /\ k - 1 < n /\ (k - 1) + 1 = k
      BY <1>1
    <3>2. k - 1 \notin Ends
      <4>1. ~(n <= k - 1)
        BY <1>1, <3>1
      <4> QED
        BY <1>3, <4>1
    <3> QED
      BY <3>1, <3>2
  <2> QED
    BY <2>1
<1>5. f \in 0 .. Len(t) /\ First(f)
  <2>1. n \in 0 .. Len(t)
    OBVIOUS
  <2> HIDE DEF First
  <2> QED
    BY <1>4, <2>1
<1>6. f \in Ends /\ \A m \in Ends : f <= m
  <2> HIDE DEF f
  <2>1. f \in Ends
    BY <1>5
  <2>2. ASSUME NEW m \in Ends, m < f PROVE FALSE
    <3>1. m + 1 \in 1 .. f /\ m # Len(t)
      BY <1>1, <1>5, <2>2
    <3> QED
      BY <1>5, <3>1
  <2> QED
    BY <1>1, <1>5, <2>1, <2>2
<1>7. FirstSegment(t) = SubSeq(t, 1, f)
  BY DEF FirstSegment
<1>8. \A m \in Ends : Len(SubSeq(t, 1, m)) = m
  BY <1>1, SubSeqProperties
<1>9. Portions(t) = {SubSeq(t, 1, m) : m \in Ends}
  BY DEF Portions
<1> HIDE DEF f, Ends
<1> QED
  BY <1>6, <1>7, <1>8, <1>9

\* The pattern occurs in a subscription exactly if its shortest alternative does.
LEMMA ShortestDecides ==
    ASSUME NEW t \in Seq(Char), NEW s \in Seq(Char)
    PROVE  (\E p \in Pattern(t) : Occurs(p, s)) <=> Occurs(FirstSegment(t), s)
<1>1. Pattern(t) = Portions(t)
  BY WholeIsPortion DEF Pattern
<1>2. ASSUME NEW p \in Portions(t), Occurs(p, s) PROVE Occurs(FirstSegment(t), s)
  BY <1>2, FirstSegmentIs, ShorterOccurs
<1> QED
  BY <1>1, <1>2, FirstSegmentIs

\* A text that begins with a portion of the event type is found by it.
LEMMA BeginningOccurs ==
    ASSUME NEW p \in Seq(Char), NEW s \in Seq(Char), Len(p) <= Len(s),
           \A k \in 1 .. Len(p) : p[k] = s[k]
    PROVE  Occurs(p, s)
<1>1. Len(p) \in Nat /\ Len(s) \in Nat
  BY LenProperties
<1>2. 0 \in 0 .. Len(s) - Len(p) /\ \A k \in 1 .. Len(p) : 0 + k = k
  BY <1>1
<1> QED
  BY <1>2 DEF Occurs

\* A subscription that asks for an event type contains a portion of it.
LEMMA WantedOccurs ==
    ASSUME NEW t \in Seq(Char), NEW s \in Seq(Char),
           Wants(s, t), s # Everything
    PROVE  \E p \in Portions(t) : Occurs(p, s)
<1>1. CASE s = t
  BY <1>1, WholeIsPortion, BeginningOccurs, LenProperties
<1>2. CASE Wildcard(s)
  <2> DEFINE stem == SubSeq(s, 1, Len(s) - 2)
  <2>1. Len(s) \in Nat /\ Len(s) > 2
    BY <1>2, LenProperties DEF Wildcard
  <2>2. /\ stem \in Seq(Char) /\ Len(stem) = Len(s) - 2
        /\ \A k \in 1 .. Len(stem) : stem[k] = s[k]
    BY <2>1, SubSeqProperties
  <2> HIDE DEF stem
  <2>3. Occurs(stem, s)
    <3>1. Len(stem) <= Len(s)
      BY <2>1, <2>2
    <3> QED
      BY <2>2, <3>1, BeginningOccurs
  <2>4. CASE t = stem
    BY <2>3, <2>4, WholeIsPortion
  <2>5. CASE StartsWith(t, Append(stem, Dot))
    <3>1. /\ Append(stem, Dot) \in Seq(Char)
          /\ Len(Append(stem, Dot)) = Len(stem) + 1
          /\ \A k \in 1 .. Len(stem) : Append(stem, Dot)[k] = stem[k]
          /\ Append(stem, Dot)[Len(stem) + 1] = Dot
      <4>1. Dot \in Char
        BY TextAssumption
      <4> QED
        BY <2>2, <4>1, AppendProperties
    <3>2. /\ Len(stem) \in Nat /\ Len(t) \in Nat /\ Len(stem) + 1 <= Len(t)
          /\ t[Len(stem) + 1] = Dot
          /\ \A k \in 1 .. Len(stem) : t[k] = stem[k]
      <4>1. Len(stem) \in Nat /\ Len(t) \in Nat
        BY <2>2, LenProperties
      <4>2. \A k \in 1 .. Len(stem) + 1 : t[k] = Append(stem, Dot)[k]
        BY <2>5, <3>1 DEF StartsWith
      <4>3. Len(stem) + 1 <= Len(t)
        BY <2>5, <3>1 DEF StartsWith
      <4>4. Len(stem) + 1 \in 1 .. Len(stem) + 1
            /\ \A k \in 1 .. Len(stem) : k \in 1 .. Len(stem) + 1
        BY <4>1
      <4> QED
        BY <3>1, <4>1, <4>2, <4>3, <4>4
    <3>3. SubSeq(t, 1, Len(stem)) \in Portions(t)
      <4>1. Len(stem) \in {k \in 0 .. Len(t) : k = Len(t) \/ t[k + 1] = Dot}
        BY <3>2
      <4> QED
        BY <4>1 DEF Portions
    <3>4. SubSeq(t, 1, Len(stem)) = stem
      <4>1. /\ SubSeq(t, 1, Len(stem)) \in Seq(Char)
            /\ Len(SubSeq(t, 1, Len(stem))) = Len(stem)
            /\ \A k \in 1 .. Len(stem) : SubSeq(t, 1, Len(stem))[k] = stem[k]
        BY <3>2, SubSeqProperties
      <4> QED
        BY <2>2, <4>1, SeqEqual
    <3> QED
      BY <2>3, <3>3, <3>4
  <2>6. s # t => t = stem \/ StartsWith(t, Append(stem, Dot))
    BY DEF Wants, stem
  <2> QED
    BY <1>1, <2>4, <2>5, <2>6
<1> QED
  BY <1>1, <1>2 DEF Wants

\* The answer is always that of the query; the arguments are as they were given.
LEMMA AnswerKept == Spec => [](TypeOK /\ selected = Selects(eventType, subscription))
<1> DEFINE Inv == TypeOK /\ selected = Selects(eventType, subscription)
<1>1. Init => Inv
  BY DEF Init, TypeOK, Selects
<1>2. Inv /\ [Next]_vars => Inv'
  BY DEF Next, Query, vars, TypeOK, Selects
<1> QED
  BY <1>1, <1>2, PTL DEF Spec

\* No subscription misses an event it asks for, however long the event types and
\* the subscriptions are, as long as the event type holds no operator.
THEOREM NothingMissed == Spec => []NoEventMissed
<1>1. ASSUME TypeOK, selected = Selects(eventType, subscription),
             Wants(subscription, eventType), Literal(eventType)
      PROVE  selected
  <2>1. eventType \in Seq(Char) /\ subscription \in Seq(Char)
    BY <1>1, TextAssumption DEF TypeOK
  <2>2. subscription = Everything \/ \E p \in Pattern(eventType) : Occurs(p, subscription)
    BY <1>1, <2>1, WantedOccurs DEF Pattern
  <2> QED
    BY <1>1, <2>2 DEF Selects
<1>2. TypeOK /\ selected = Selects(eventType, subscription) => NoEventMissed
  BY <1>1 DEF NoEventMissed
<1> QED
  BY <1>2, AnswerKept, PTL

\* The query selects a subscription exactly if the first segment of an event type
\* without operators occurs in it: the other alternatives change nothing.
THEOREM FirstSegmentIsEnough == Spec => []FirstSegmentDecides
<1>1. TypeOK /\ selected = Selects(eventType, subscription) => FirstSegmentDecides
  BY TextAssumption, ShortestDecides DEF FirstSegmentDecides, TypeOK, Selects
<1> QED
  BY <1>1, AnswerKept, PTL
=============================================================================
