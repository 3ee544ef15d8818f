----------------------------- MODULE QueueFacts -----------------------------
(***************************************************************************)
(* What Append and Tail do to the elements of a channel: the facts about   *)
(* the wake queue and the command channel that the proofs share.           *)
(***************************************************************************)
EXTENDS Queues, Integers, TLAPS

\* Appending an element that is not queued keeps the queue free of duplicates.
LEMMA AppendFacts ==
    ASSUME NEW S, NEW q \in Seq(S), NEW m \in S
    PROVE  /\ Elems(Append(q, m)) = Elems(q) \cup {m}
           /\ m \notin Elems(q) /\ (\A i, j \in 1..Len(q) : q[i] = q[j] => i = j) =>
                 \A i, j \in 1..Len(Append(q, m)) :
                    Append(q, m)[i] = Append(q, m)[j] => i = j
<1> DEFINE r == Append(q, m)
<1>1. /\ Len(r) = Len(q) + 1 /\ Len(q) \in Nat /\ r[Len(q) + 1] = m
      /\ \A i \in 1..Len(q) : r[i] = q[i]
  OBVIOUS
<1> HIDE DEF r
<1>2. Elems(r) = Elems(q) \cup {m}
  <2>1. ASSUME NEW x \in Elems(q) \cup {m} PROVE x \in Elems(r)
    BY <1>1, <2>1 DEF Elems
  <2>2. ASSUME NEW x \in Elems(r) PROVE x \in Elems(q) \cup {m}
    <3>1. PICK i \in 1..Len(r) : x = r[i]
      BY <2>2 DEF Elems
    <3> QED
      BY <1>1, <3>1 DEF Elems
  <2> QED
    BY <2>1, <2>2
<1>3. ASSUME m \notin Elems(q), \A i, j \in 1..Len(q) : q[i] = q[j] => i = j
      PROVE  \A i, j \in 1..Len(r) : r[i] = r[j] => i = j
  BY <1>1, <1>3 DEF Elems
<1> QED
  BY <1>2, <1>3 DEF r

\* Taking the head of a queue without duplicates takes all of that element's
\* entries out.
LEMMA TailFacts ==
    ASSUME NEW S, NEW q \in Seq(S), q # <<>>,
           \A i, j \in 1..Len(q) : q[i] = q[j] => i = j
    PROVE  /\ Elems(q) = {Head(q)} \cup Elems(Tail(q)) /\ Head(q) \notin Elems(Tail(q))
           /\ \A i, j \in 1..Len(Tail(q)) : Tail(q)[i] = Tail(q)[j] => i = j
<1> DEFINE t == Tail(q)
           h == Head(q)
<1>1. /\ Len(q) \in Nat \ {0} /\ Len(t) = Len(q) - 1 /\ h = q[1]
      /\ \A i \in 1..Len(t) : t[i] = q[i + 1]
  OBVIOUS
<1> HIDE DEF t, h
<1>2. Elems(q) \subseteq {h} \cup Elems(t)
  <2>1. SUFFICES ASSUME NEW i \in 1..Len(q) PROVE q[i] \in {h} \cup Elems(t)
    BY DEF Elems
  <2>2. CASE i = 1
    BY <1>1, <2>2
  <2>3. CASE i # 1
    <3>1. i - 1 \in 1..Len(t) /\ t[i - 1] = q[i]
      BY <1>1, <2>3
    <3> QED
      BY <3>1 DEF Elems
  <2> QED
    BY <2>2, <2>3
<1>3. {h} \cup Elems(t) \subseteq Elems(q)
  <2>1. \A i \in 1..Len(t) : i + 1 \in 1..Len(q)
    BY <1>1
  <2>2. 1 \in 1..Len(q)
    BY <1>1
  <2> QED
    BY <1>1, <2>1, <2>2 DEF Elems
<1>4. h \notin Elems(t)
  <2>1. \A i \in 1..Len(t) : i + 1 \in 1..Len(q) /\ i + 1 # 1
    BY <1>1
  <2>2. 1 \in 1..Len(q)
    BY <1>1
  <2> QED
    BY <1>1, <2>1, <2>2 DEF Elems
<1>5. \A i, j \in 1..Len(t) : t[i] = t[j] => i = j
  BY <1>1
<1> QED
  BY <1>2, <1>3, <1>4, <1>5 DEF t, h
=============================================================================
