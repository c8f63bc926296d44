---------------------------- MODULE SequenceFacts ----------------------------
(***************************************************************************)
(* What the proofs use of sequences: what Append does to the elements, the *)
(* length and the range, and what a sequence is a sequence of.             *)
(***************************************************************************)
EXTENDS Integers, Sequences, Functions, TLAPS

\* A sequence, of whatever it holds.
IsSeq(s) == s \in Seq(Range(s))

\* A table without rows.
LEMMA EmptyTable == \A S : << >> \in Seq(S)
OBVIOUS

\* A sequence of one element, and the first element of a concatenation.
LEMMA OneElement ==
    ASSUME NEW S, NEW e \in S
    PROVE  <<e>> \in Seq(S) /\ Len(<<e>>) = 1 /\ <<e>>[1] = e
OBVIOUS

LEMMA FirstOfConcat ==
    ASSUME NEW S, NEW s \in Seq(S), NEW t \in Seq(S), Len(s) > 0
    PROVE  s \o t \in Seq(S) /\ Len(s \o t) > 0 /\ (s \o t)[1] = s[1]
<1>1. Len(s) \in Nat /\ Len(t) \in Nat
  OBVIOUS
<1>2. s \o t \in Seq(S) /\ Len(s \o t) = Len(s) + Len(t)
  OBVIOUS
<1>3. (s \o t)[1] = s[1]
  BY <1>1
<1> QED BY <1>1, <1>2, <1>3

\* A row added to a table: the rows before it keep their numbers.
LEMMA RowAdded ==
    ASSUME NEW S, NEW s \in Seq(S), NEW e \in S
    PROVE  /\ Append(s, e) \in Seq(S)
           /\ Len(s) \in Nat /\ Len(Append(s, e)) = Len(s) + 1
           /\ \A i \in 1..Len(s) : Append(s, e)[i] = s[i]
           /\ Append(s, e)[Len(s) + 1] = e
           /\ DOMAIN s = 1..Len(s) /\ DOMAIN Append(s, e) = 1..Len(s) + 1
OBVIOUS

\* A row of a table is written anew.
LEMMA RowChanged ==
    ASSUME NEW S, NEW s \in Seq(S), NEW r \in 1..Len(s), NEW e \in S
    PROVE  /\ [s EXCEPT ![r] = e] \in Seq(S)
           /\ Len([s EXCEPT ![r] = e]) = Len(s)
           /\ [s EXCEPT ![r] = e][r] = e
           /\ \A i \in 1..Len(s) : i # r => [s EXCEPT ![r] = e][i] = s[i]
OBVIOUS

\* The rows of a table are among the rows it may hold.
LEMMA RowsOf ==
    ASSUME NEW S, NEW s \in Seq(S)
    PROVE  /\ Len(s) \in Nat /\ DOMAIN s = 1..Len(s)
           /\ \A i \in 1..Len(s) : s[i] \in S
OBVIOUS

\* A sequence is the beginning of another when it is not longer and has its elements.
LEMMA PrefixLemma ==
    ASSUME NEW S, NEW s \in Seq(S), NEW t \in Seq(S), Len(s) <= Len(t),
           \A i \in 1..Len(s) : t[i] = s[i]
    PROVE  SubSeq(t, 1, Len(s)) = s
<1>1. Len(s) \in Nat /\ Len(t) \in Nat
  BY RowsOf
<1>2. SubSeq(t, 1, Len(s)) = [i \in 1..Len(s) |-> t[i]]
  BY <1>1
<1>3. s = [i \in 1..Len(s) |-> s[i]]
  BY <1>1
<1> QED BY <1>2, <1>3
=============================================================================
