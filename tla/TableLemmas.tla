----------------------------- MODULE TableLemmas -----------------------------
(***************************************************************************)
(* Tables are sequences of rows, and the id of a row is its index.  What   *)
(* the statements of the handlers do to a table: UPDATE changes rows in    *)
(* place, INSERT adds one or several at the end.                           *)
(***************************************************************************)
EXTENDS Integers, SequenceTheorems, TLAPS

\* Changing rows in place: the same ids, of the new type.
LEMMA RowsInPlace ==
    ASSUME NEW S, NEW s \in Seq(S), NEW T, NEW f \in [DOMAIN s -> T]
    PROVE  f \in Seq(T) /\ DOMAIN f = DOMAIN s /\ Len(f) = Len(s)
<1>1. Len(s) \in Nat /\ DOMAIN s = 1 .. Len(s)
  BY LenProperties
<1>2. f \in Seq(T)
  BY <1>1, SeqDef
<1>3. Len(f) = Len(s)
  BY <1>1, <1>2, LenProperties
<1> QED
  BY <1>1, <1>2, <1>3

\* The type of a sequence is that of its elements.
LEMMA Retyped ==
    ASSUME NEW S, NEW s \in Seq(S), NEW T, \A i \in DOMAIN s : s[i] \in T
    PROVE  s \in Seq(T)
<1>1. Len(s) \in Nat /\ s \in [1 .. Len(s) -> S] /\ DOMAIN s = 1 .. Len(s)
  BY LenProperties
<1>2. s \in [1 .. Len(s) -> T]
  BY <1>1
<1> QED
  BY <1>1, <1>2, SeqDef

\* Inserting a row: one more id, the other rows as they were.
LEMMA RowInserted ==
    ASSUME NEW S, NEW s \in Seq(S), NEW row \in S
    PROVE  /\ Append(s, row) \in Seq(S)
           /\ Len(s) + 1 \notin DOMAIN s
           /\ DOMAIN Append(s, row) = DOMAIN s \cup {Len(s) + 1}
           /\ Append(s, row)[Len(s) + 1] = row
           /\ \A i \in DOMAIN s : Append(s, row)[i] = s[i]
<1>1. Len(s) \in Nat /\ DOMAIN s = 1 .. Len(s)
  BY LenProperties
<1>2. /\ Append(s, row) \in Seq(S)
      /\ Len(Append(s, row)) = Len(s) + 1
      /\ \A i \in 1 .. Len(s) : Append(s, row)[i] = s[i]
      /\ Append(s, row)[Len(s) + 1] = row
  BY AppendProperties
<1>3. DOMAIN Append(s, row) = 1 .. Len(s) + 1
  BY <1>2, LenProperties
<1> QED
  BY <1>1, <1>2, <1>3

\* Inserting several rows: the new ids follow the old ones in the order of the
\* rows, the other rows are as they were.
LEMMA RowsInserted ==
    ASSUME NEW S, NEW s \in Seq(S), NEW t \in Seq(S)
    PROVE  /\ s \o t \in Seq(S)
           /\ Len(s \o t) = Len(s) + Len(t)
           /\ \A i \in DOMAIN s : i \in DOMAIN (s \o t) /\ (s \o t)[i] = s[i]
           /\ \A i \in DOMAIN t : /\ Len(s) + i \in DOMAIN (s \o t) /\ Len(s) + i \notin DOMAIN s
                                  /\ (s \o t)[Len(s) + i] = t[i]
           /\ \A k \in DOMAIN (s \o t) : k \in DOMAIN s \/ \E i \in DOMAIN t : k = Len(s) + i
<1>1. /\ Len(s) \in Nat /\ DOMAIN s = 1 .. Len(s)
      /\ Len(t) \in Nat /\ DOMAIN t = 1 .. Len(t)
  BY LenProperties
<1>2. /\ s \o t \in Seq(S) /\ Len(s \o t) = Len(s) + Len(t)
      /\ \A i \in 1 .. Len(s) + Len(t) : (s \o t)[i] =
             IF i <= Len(s) THEN s[i] ELSE t[i - Len(s)]
  BY ConcatProperties
<1>3. DOMAIN (s \o t) = 1 .. Len(s) + Len(t)
  BY <1>2, LenProperties
<1>4. ASSUME NEW k \in DOMAIN (s \o t), k \notin DOMAIN s
      PROVE  \E i \in DOMAIN t : k = Len(s) + i
  <2>1. k - Len(s) \in DOMAIN t /\ k = Len(s) + (k - Len(s))
    BY <1>1, <1>3, <1>4
  <2> QED
    BY <2>1
<1>5. ASSUME NEW i \in DOMAIN t
      PROVE  /\ Len(s) + i \in DOMAIN (s \o t) /\ Len(s) + i \notin DOMAIN s
             /\ (s \o t)[Len(s) + i] = t[i]
  <2>1. Len(s) + i \in 1 .. Len(s) + Len(t) /\ ~(Len(s) + i <= Len(s)) /\ Len(s) + i - Len(s) = i
    BY <1>1
  <2> QED
    BY <1>1, <1>2, <1>3, <2>1
<1> QED
  BY <1>1, <1>2, <1>3, <1>4, <1>5
=============================================================================
