--------------------------- MODULE SequenceLemmas ---------------------------
(***************************************************************************)
(* Facts about sequences that the proofs about connections and server      *)
(* share.  In both, a list of calls still to be made is worked off from    *)
(* its head, and the head may leave other calls in its place.              *)
(***************************************************************************)
EXTENDS Sequences, Integers, SequenceTheorems, TLAPS

\* What is left when the head of a list leaves other calls instead.
LEMMA LeftCalls ==
  ASSUME NEW S, NEW calls \in Seq(S), NEW t \in Seq(S), t # <<>>
  PROVE  LET left == calls \o Tail(t)
         IN  /\ left \in Seq(S)
             /\ Len(left) = Len(calls) + Len(t) - 1
             /\ \A i \in 1..Len(left) :
                  left[i] = IF i <= Len(calls) THEN calls[i] ELSE t[i - Len(calls) + 1]
<1> DEFINE left == calls \o Tail(t)
<1>1. /\ Tail(t) \in Seq(S) /\ Len(Tail(t)) = Len(t) - 1
      /\ \A i \in 1..Len(Tail(t)) : Tail(t)[i] = t[i + 1]
      /\ Len(t) \in Nat \ {0} /\ Len(calls) \in Nat
  OBVIOUS
<1>2. /\ left \in Seq(S) /\ Len(left) = Len(calls) + Len(Tail(t))
      /\ \A i \in 1..Len(left) :
            left[i] = IF i <= Len(calls) THEN calls[i] ELSE Tail(t)[i - Len(calls)]
  BY <1>1, ConcatProperties
<1>3. ASSUME NEW i \in 1..Len(left)
      PROVE  left[i] = IF i <= Len(calls) THEN calls[i] ELSE t[i - Len(calls) + 1]
  <2>1. CASE i <= Len(calls)
    BY <2>1, <1>1, <1>2
  <2>2. CASE i > Len(calls)
    <3>1. i - Len(calls) \in 1..Len(Tail(t))
      BY <2>2, <1>1, <1>2
    <3> QED
      BY <3>1, <2>2, <1>1, <1>2
  <2> QED
    BY <2>1, <2>2, <1>1
<1> QED
  BY <1>1, <1>2, <1>3

\* No call takes the place of the head: the rest moves up by one.
LEMMA LeftNone ==
  ASSUME NEW S, NEW t \in Seq(S), t # <<>>
  PROVE  LET left == <<>> \o Tail(t)
         IN  /\ left \in Seq(S)
             /\ Len(left) = Len(t) - 1
             /\ \A i \in 1..Len(left) : i + 1 \in 2..Len(t) /\ left[i] = t[i + 1]
             /\ \A j \in 2..Len(t) : j - 1 \in 1..Len(left) /\ left[j - 1] = t[j]
<1> DEFINE calls == <<>>
<1> DEFINE left == calls \o Tail(t)
<1>1. calls \in Seq(S) /\ Len(calls) = 0 /\ Len(t) \in Nat \ {0}
  OBVIOUS
<1>2. /\ left \in Seq(S) /\ Len(left) = Len(calls) + Len(t) - 1
      /\ \A i \in 1..Len(left) :
            left[i] = IF i <= Len(calls) THEN calls[i] ELSE t[i - Len(calls) + 1]
  BY <1>1, LeftCalls
<1> HIDE DEF left, calls
<1>3. ASSUME NEW i \in 1..Len(left) PROVE i + 1 \in 2..Len(t) /\ left[i] = t[i + 1]
  <2>1. ~(i <= Len(calls)) /\ i - Len(calls) + 1 = i + 1
    BY <1>1, <1>2
  <2> QED
    BY <2>1, <1>1, <1>2
<1>4. ASSUME NEW j \in 2..Len(t) PROVE j - 1 \in 1..Len(left) /\ left[j - 1] = t[j]
  <2>1. j - 1 \in 1..Len(left) /\ (j - 1) + 1 = j
    BY <1>1, <1>2
  <2> QED
    BY <2>1, <1>3
<1>5. left = <<>> \o Tail(t)
  BY DEF left, calls
<1> QED
  BY <1>1, <1>2, <1>3, <1>4, <1>5

\* One call takes the place of the head: the rest stays where it is.
LEMMA LeftOne ==
  ASSUME NEW S, NEW t \in Seq(S), t # <<>>, NEW c \in S
  PROVE  LET left == <<c>> \o Tail(t)
         IN  /\ left \in Seq(S)
             /\ Len(left) = Len(t) /\ left[1] = c
             /\ \A j \in 2..Len(t) : left[j] = t[j]
<1> DEFINE calls == <<c>>
<1> DEFINE left == calls \o Tail(t)
<1>1. calls \in Seq(S) /\ Len(calls) = 1 /\ calls[1] = c /\ Len(t) \in Nat \ {0}
  OBVIOUS
<1>2. /\ left \in Seq(S) /\ Len(left) = Len(calls) + Len(t) - 1
      /\ \A i \in 1..Len(left) :
            left[i] = IF i <= Len(calls) THEN calls[i] ELSE t[i - Len(calls) + 1]
  BY <1>1, LeftCalls
<1> HIDE DEF left, calls
<1>3. ASSUME NEW j \in 2..Len(t) PROVE left[j] = t[j]
  <2>1. j \in 1..Len(left) /\ ~(j <= Len(calls)) /\ j - Len(calls) + 1 = j
    BY <1>1, <1>2
  <2> QED
    BY <2>1, <1>2
<1>4. Len(left) = Len(t) /\ left[1] = c
  BY <1>1, <1>2
<1>5. left = <<c>> \o Tail(t)
  BY DEF left, calls
<1> QED
  BY <1>2, <1>3, <1>4, <1>5

\* Two calls take the place of the head: the rest moves on by one.
LEMMA LeftTwo ==
  ASSUME NEW S, NEW t \in Seq(S), t # <<>>, NEW c \in S, NEW d \in S
  PROVE  LET left == <<c, d>> \o Tail(t)
         IN  /\ left \in Seq(S)
             /\ Len(left) = Len(t) + 1 /\ left[1] = c /\ left[2] = d
             /\ \A i \in 3..Len(left) : i - 1 \in 2..Len(t) /\ left[i] = t[i - 1]
             /\ \A j \in 2..Len(t) : j + 1 \in 3..Len(left) /\ left[j + 1] = t[j]
<1> DEFINE calls == <<c, d>>
<1> DEFINE left == calls \o Tail(t)
<1>1. /\ calls \in Seq(S) /\ Len(calls) = 2 /\ calls[1] = c /\ calls[2] = d
      /\ Len(t) \in Nat \ {0}
  OBVIOUS
<1>2. /\ left \in Seq(S) /\ Len(left) = Len(calls) + Len(t) - 1
      /\ \A i \in 1..Len(left) :
            left[i] = IF i <= Len(calls) THEN calls[i] ELSE t[i - Len(calls) + 1]
  BY <1>1, LeftCalls
<1> HIDE DEF left, calls
<1>3. ASSUME NEW i \in 3..Len(left) PROVE i - 1 \in 2..Len(t) /\ left[i] = t[i - 1]
  <2>1. i \in 1..Len(left) /\ ~(i <= Len(calls)) /\ i - Len(calls) + 1 = i - 1
    BY <1>1, <1>2
  <2> QED
    BY <2>1, <1>1, <1>2
<1>4. ASSUME NEW j \in 2..Len(t) PROVE j + 1 \in 3..Len(left) /\ left[j + 1] = t[j]
  <2>1. j + 1 \in 3..Len(left) /\ (j + 1) - 1 = j
    BY <1>1, <1>2
  <2> QED
    BY <2>1, <1>3
<1>5. Len(left) = Len(t) + 1 /\ left[1] = c /\ left[2] = d
  BY <1>1, <1>2
<1>6. left = <<c, d>> \o Tail(t)
  BY DEF left, calls
<1> QED
  BY <1>2, <1>3, <1>4, <1>5, <1>6

\* The calls in a list, as a set: of short lists, of a list with one more at its end, and
\* of a list whose head leaves other calls instead.
LEMMA RangeFew ==
  /\ Range(<<>>) = {}
  /\ \A x : Range(<<x>>) = {x}
  /\ \A x, y : Range(<<x, y>>) = {x, y}
<1>1. Range(<<>>) = {}
  BY DEF Range
<1>2. ASSUME NEW x PROVE Range(<<x>>) = {x}
  BY DEF Range
<1>3. ASSUME NEW x, NEW y PROVE Range(<<x, y>>) = {x, y}
  BY DEF Range
<1> QED
  BY <1>1, <1>2, <1>3

\* The call at the end is the only new one.
LEMMA RangeAppend ==
  ASSUME NEW S, NEW s \in Seq(S), NEW x \in S
  PROVE  Range(Append(s, x)) = Range(s) \cup {x}
<1>1. <<x>> \in Seq(S) /\ Append(s, x) = s \o <<x>>
  BY AppendIsConcat
<1> QED
  BY <1>1, RangeFew, RangeConcatenation

\* The head goes, the rest stays, and the calls left instead are there.
LEMMA RangeLeft ==
  ASSUME NEW S, NEW calls \in Seq(S), NEW t \in Seq(S), t # <<>>
  PROVE  /\ Range(calls \o Tail(t)) = Range(calls) \cup Range(Tail(t))
         /\ Range(t) = {Head(t)} \cup Range(Tail(t))
<1>1. Tail(t) \in Seq(S) /\ <<Head(t)>> \in Seq(S)
  OBVIOUS
<1>2. t = <<Head(t)>> \o Tail(t)
  OBVIOUS
<1>3. Range(<<Head(t)>> \o Tail(t)) = Range(<<Head(t)>>) \cup Range(Tail(t))
  BY <1>1, RangeConcatenation
<1>4. Range(<<Head(t)>>) = {Head(t)}
  BY RangeFew
<1>5. Range(calls \o Tail(t)) = Range(calls) \cup Range(Tail(t))
  BY <1>1, RangeConcatenation
<1> QED
  BY <1>2, <1>3, <1>4, <1>5

=============================================================================
