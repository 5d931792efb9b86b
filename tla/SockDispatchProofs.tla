------------------------- MODULE SockDispatchProofs -------------------------
(***************************************************************************)
(* Proofs about SockDispatch, for every number and kind of messages, every *)
(* size of a datagram and every number of sleeping coroutines.             *)
(***************************************************************************)
EXTENDS SockDispatch, SequenceTheorems, NaturalsInduction, WellFoundedInduction, TLAPS

(* A non-empty set of naturals has a least element, which Min chooses.     *)
LEMMA MinNat ==
  ASSUME NEW S \in SUBSET Nat, S # {}
  PROVE  Min(S) \in S /\ \A x \in S : Min(S) <= x
<1>1. IsWellFoundedOn(OpToRel(<, Nat), Nat)
  BY NatLessThanWellFounded
<1>2. PICK x \in S : \A y \in S : ~ (<<y, x>> \in OpToRel(<, Nat))
  BY <1>1, WFMin
<1>3. \A y \in S : ~ (y < x)
  BY <1>2 DEF OpToRel
<1>4. \A y \in S : x <= y
  BY <1>3
<1> QED BY <1>4 DEF Min

(* The messages started, then those that wait, have growing numbers up to  *)
(* the number n of messages that have arrived.                             *)
Ordered(s, q, n) ==
    /\ s \in Seq(1..n) /\ q \in Seq(Message)
    /\ \A k \in 1..Len(q) : q[k].id \in 1..n
    /\ \A i, j \in 1..Len(s) : i < j => s[i] < s[j]
    /\ \A i, j \in 1..Len(q) : i < j => q[i].id < q[j].id
    /\ \A i \in 1..Len(s), k \in 1..Len(q) : s[i] < q[k].id

Inv == TypeOK /\ Ordered(started, inq, arrived) /\ SomeoneComes

(* Taking messages from the front keeps the order.                         *)
LEMMA SuffixOrdered ==
  ASSUME NEW s, NEW q, NEW n \in Nat, Ordered(s, q, n), NEW m \in 1..(Len(q) + 1)
  PROVE  Ordered(s, SubSeq(q, m, Len(q)), n)
<1> DEFINE r == SubSeq(q, m, Len(q))
<1>1. q \in Seq(Message) /\ Len(q) \in Nat
  BY DEF Ordered
<1>2. /\ r \in Seq(Message) /\ Len(r) = Len(q) - m + 1
      /\ \A i \in 1..Len(r) : r[i] = q[m + i - 1]
  <2>1. CASE m = Len(q) + 1
    <3>1. r = <<>>
      BY <1>1, <2>1
    <3> QED BY <1>1, <2>1, <3>1
  <2>2. CASE m <= Len(q)
    BY <1>1, <2>2
  <2> QED BY <2>1, <2>2, <1>1
<1>3. \A i \in 1..Len(r) : m + i - 1 \in 1..Len(q)
  BY <1>1, <1>2
<1>4. \A i, j \in 1..Len(r) : i < j => m + i - 1 < m + j - 1
  BY <1>1, <1>2
<1> HIDE DEF r
<1>5. \A k \in 1..Len(r) : r[k].id \in 1..n
  BY <1>2, <1>3 DEF Ordered
<1>6. \A i, j \in 1..Len(r) : i < j => r[i].id < r[j].id
  BY <1>2, <1>3, <1>4 DEF Ordered
<1>7. \A i \in 1..Len(s), k \in 1..Len(r) : s[i] < r[k].id
  BY <1>2, <1>3 DEF Ordered
<1>8. Ordered(s, r, n)
  BY <1>2, <1>5, <1>6, <1>7 DEF Ordered
<1> QED BY <1>8 DEF r

(* Giving the first waiting message to a handler keeps it too.             *)
LEMMA StartOrdered ==
  ASSUME NEW s, NEW q, NEW n \in Nat, Ordered(s, q, n), q # <<>>
  PROVE  /\ Ordered(s, Tail(q), n)
         /\ Ordered(Append(s, Head(q).id), Tail(q), n)
         /\ Head(q) \in Message /\ Head(q).id \in 1..n
<1> DEFINE t == Append(s, Head(q).id)
<1>1. /\ q \in Seq(Message) /\ s \in Seq(1..n) /\ Len(q) \in Nat \ {0} /\ Len(s) \in Nat
      /\ Head(q) = q[1] /\ Tail(q) = SubSeq(q, 2, Len(q)) /\ q[1].id \in 1..n
      /\ Head(q) \in Message
  BY DEF Ordered
<1>2. Ordered(s, Tail(q), n)
  <2>1. 2 \in 1..(Len(q) + 1)
    BY <1>1
  <2>2. Ordered(s, SubSeq(q, 2, Len(q)), n)
    BY <2>1, SuffixOrdered
  <2> QED BY <1>1, <2>2
<1>3. /\ Tail(q) \in Seq(Message) /\ Len(Tail(q)) = Len(q) - 1
      /\ \A k \in 1..Len(Tail(q)) : Tail(q)[k] = q[k + 1]
  BY <1>1
<1>4. /\ t \in Seq(1..n) /\ Len(t) = Len(s) + 1
      /\ \A i \in 1..Len(t) : t[i] = IF i = Len(t) THEN q[1].id ELSE s[i]
  BY <1>1
<1> HIDE DEF t
<1>5. \A i \in 1..Len(t) : t[i] <= q[1].id
  <2> SUFFICES ASSUME NEW i \in 1..Len(t) PROVE t[i] <= q[1].id
    OBVIOUS
  <2>1. CASE i = Len(t)
    <3>1. t[i] = q[1].id
      BY <1>4, <2>1
    <3> QED BY <1>1, <3>1
  <2>2. CASE i # Len(t)
    <3>1. i \in 1..Len(s) /\ t[i] = s[i]
      BY <1>1, <1>4, <2>2
    <3>2. s[i] < q[1].id /\ s[i] \in Nat
      BY <1>1, <3>1 DEF Ordered
    <3> QED BY <1>1, <3>1, <3>2
  <2> QED BY <2>1, <2>2
<1>6. \A i \in 1..Len(t), k \in 1..Len(Tail(q)) : t[i] < Tail(q)[k].id
  <2> SUFFICES ASSUME NEW i \in 1..Len(t), NEW k \in 1..Len(Tail(q))
               PROVE  t[i] < Tail(q)[k].id
    OBVIOUS
  <2>1. k + 1 \in 1..Len(q) /\ 1 \in 1..Len(q) /\ 1 < k + 1
    BY <1>1, <1>3
  <2>2. q[1].id < q[k + 1].id /\ q[k + 1].id \in Nat /\ q[1].id \in Nat
    BY <2>1, <1>1 DEF Ordered
  <2>3. t[i] \in Nat /\ t[i] <= q[1].id /\ Tail(q)[k] = q[k + 1]
    BY <1>3, <1>4, <1>5
  <2> QED BY <2>2, <2>3
<1>7. \A i, j \in 1..Len(t) : i < j => t[i] < t[j]
  <2> SUFFICES ASSUME NEW i \in 1..Len(t), NEW j \in 1..Len(t), i < j
               PROVE  t[i] < t[j]
    OBVIOUS
  <2>1. i \in 1..Len(s) /\ t[i] = s[i]
    BY <1>1, <1>4
  <2>2. CASE j = Len(t)
    <3>1. t[j] = q[1].id
      BY <1>4, <2>2
    <3>2. 1 \in 1..Len(q)
      BY <1>1
    <3> QED BY <2>1, <3>1, <3>2 DEF Ordered
  <2>3. CASE j # Len(t)
    <3>1. j \in 1..Len(s)
      <4>1. Len(s) \in Nat /\ Len(t) = Len(s) + 1
        BY <1>1, <1>4
      <4> QED BY <2>3, <4>1
    <3>2. t[j] = s[j]
      BY <1>4, <2>3
    <3> QED BY <2>1, <3>1, <3>2 DEF Ordered
  <2> QED BY <2>2, <2>3
<1>8. Ordered(t, Tail(q), n)
  BY <1>2, <1>4, <1>6, <1>7 DEF Ordered
<1> QED BY <1>1, <1>2, <1>8 DEF t

(* The drain loop ends with nothing left, in a handler, or early.          *)
LEMMA DrainFacts ==
  ASSUME NEW n \in Nat, NEW q, NEW others \in SUBSET (1..n), Ordered(started, q, n),
         Drain(q, others)
  PROVE  /\ Ordered(started', inq', n)
         /\ handling' \in SUBSET (1..n) /\ ended' \in {"ok", "bad", "empty", "error"}
         /\ inq' = <<>> \/ ended' # "ok" \/ handling' # {}
<1>1. CASE q = <<>> /\ inq' = q /\ handling' = others /\ ended' = "ok" /\ UNCHANGED started
  BY <1>1
<1>2. CASE /\ q # <<>> /\ alive
           /\ inq' = Tail(q) /\ ended' = Head(q).kind
           /\ IF Head(q).kind = "ok"
              THEN /\ handling' = others \cup {Head(q).id}
                   /\ started' = Append(started, Head(q).id)
              ELSE handling' = others /\ UNCHANGED started
  <2>1. /\ Ordered(started, Tail(q), n)
        /\ Ordered(Append(started, Head(q).id), Tail(q), n)
        /\ Head(q) \in Message /\ Head(q).id \in 1..n
    BY <1>2, StartOrdered
  <2>2. Head(q).kind \in Kinds
    BY <2>1 DEF Message
  <2>3. ended' \in {"ok", "bad", "empty", "error"}
    BY <1>2, <2>2, KindsAssumption
  <2>4. CASE Head(q).kind = "ok"
    <3>1. handling' = others \cup {Head(q).id} /\ started' = Append(started, Head(q).id)
      BY <1>2, <2>4
    <3>2. Ordered(started', inq', n)
      BY <1>2, <2>1, <3>1
    <3>3. handling' \in SUBSET (1..n) /\ handling' # {}
      BY <2>1, <3>1
    <3> QED BY <2>3, <3>2, <3>3
  <2>5. CASE Head(q).kind # "ok"
    <3>1. handling' = others /\ started' = started
      BY <1>2, <2>5
    <3>2. Ordered(started', inq', n)
      BY <1>2, <2>1, <3>1
    <3>3. ended' # "ok"
      BY <1>2, <2>5
    <3> QED BY <2>3, <3>1, <3>2, <3>3
  <2> QED BY <2>4, <2>5
<1>3. CASE /\ q # <<>> /\ ~alive
           /\ inq' = BehindEmpty(q) /\ handling' = others
           /\ ended' = IF inq' = <<>> THEN "ok" ELSE "empty"
           /\ UNCHANGED started
  <2> DEFINE empty == {i \in 1..Len(q) : q[i].kind = "empty"}
  <2>1. CASE empty = {}
    <3>1. inq' = <<>>
      BY <1>3, <2>1 DEF BehindEmpty
    <3>2. Ordered(started, <<>>, n)
      <4> DEFINE none == <<>>
      <4>1. none \in Seq(Message) /\ 1..Len(none) = {}
        OBVIOUS
      <4> HIDE DEF none
      <4>2. Ordered(started, none, n)
        BY <4>1 DEF Ordered
      <4> QED BY <4>2 DEF none
    <3> QED BY <1>3, <3>1, <3>2
  <2>2. CASE empty # {}
    <3>1. Min(empty) \in empty
      <4>1. empty \in SUBSET Nat
        BY DEF Ordered
      <4> HIDE DEF empty
      <4> QED BY <2>2, <4>1, MinNat
    <3>2. inq' = SubSeq(q, Min(empty) + 1, Len(q))
      BY <1>3, <2>2 DEF BehindEmpty
    <3>3. Ordered(started, inq', n)
      <4>1. Min(empty) \in 1..Len(q) /\ Len(q) \in Nat
        BY <3>1 DEF Ordered
      <4>2. Min(empty) + 1 \in 1..(Len(q) + 1)
        BY <4>1
      <4> HIDE DEF empty
      <4> QED BY <3>2, <4>2, SuffixOrdered
    <3> QED BY <1>3, <3>3
  <2> QED BY <2>1, <2>2
<1> QED BY <1>1, <1>2, <1>3 DEF Drain

(* The messages a datagram completes are the next ones.                    *)
LEMMA WithOrdered ==
  ASSUME Inv, NEW k \in 0..MaxBatch, NEW batch \in [1..k -> Kinds], MayArrive(batch)
  PROVE  /\ Len(batch) = k /\ arrived + k \in 0..MaxMsgs
         /\ Ordered(started, With(batch), arrived + k)
<1> DEFINE new == [i \in 1..Len(batch) |-> [id |-> arrived + i, kind |-> batch[i]]]
           n == Len(inq)
<1>1. k \in Nat /\ arrived \in Nat /\ MaxMsgs \in Nat /\ arrived <= MaxMsgs
  BY BoundsAssumption DEF Inv, TypeOK
<1>2. batch \in Seq(Kinds) /\ Len(batch) = k
  BY <1>1
<1>3. arrived + k <= MaxMsgs
  BY <1>2 DEF MayArrive
<1>4. new \in Seq(Message) /\ Len(new) = k
  <2>1. \A i \in 1..k : [id |-> arrived + i, kind |-> batch[i]] \in Message
    BY <1>1, <1>3 DEF Message
  <2>2. new \in [1..k -> Message]
    BY <1>2, <2>1
  <2> HIDE DEF new
  <2> QED BY <1>1, <2>2
<1>5. \A i \in 1..k : new[i].id = arrived + i
  BY <1>2
<1>6. /\ inq \in Seq(Message) /\ n \in Nat /\ started \in Seq(1..arrived)
      /\ Len(started) \in Nat
  BY DEF Inv, TypeOK, Ordered
<1> DEFINE w == With(batch)
<1> HIDE DEF new
<1>7. w = inq \o new
  BY DEF With, new
<1> HIDE DEF w, n
<1>8. /\ w \in Seq(Message) /\ Len(w) = n + k
      /\ \A i \in 1..Len(w) : w[i] = IF i <= n THEN inq[i] ELSE new[i - n]
  BY <1>1, <1>4, <1>6, <1>7 DEF n
<1>9. \A i \in 1..Len(w) :
         \/ i \in 1..n /\ w[i].id = inq[i].id /\ w[i].id \in 1..arrived
         \/ i > n /\ w[i].id = arrived + (i - n)
  <2> SUFFICES ASSUME NEW i \in 1..Len(w)
               PROVE  \/ i \in 1..n /\ w[i].id = inq[i].id /\ w[i].id \in 1..arrived
                      \/ i > n /\ w[i].id = arrived + (i - n)
    OBVIOUS
  <2>1. CASE i <= n
    <3>1. i \in 1..n /\ w[i] = inq[i]
      BY <1>6, <1>8, <2>1
    <3> QED BY <3>1 DEF Inv, Ordered, n
  <2>2. CASE i > n
    <3>1. i - n \in 1..k /\ w[i] = new[i - n]
      BY <1>1, <1>6, <1>8, <2>2
    <3> QED BY <1>5, <2>2, <3>1
  <2> QED BY <2>1, <2>2, <1>6, <1>8
<1>10. started \in Seq(1..(arrived + k))
  <2>1. 1..arrived \subseteq 1..(arrived + k)
    BY <1>1
  <2> QED BY <1>6, <2>1, SeqMonotonic
<1>11. \A i \in 1..Len(w) : w[i].id \in 1..(arrived + k)
  BY <1>1, <1>6, <1>8, <1>9
<1>12. \A i, j \in 1..Len(w) : i < j => w[i].id < w[j].id
  <2> SUFFICES ASSUME NEW i \in 1..Len(w), NEW j \in 1..Len(w), i < j
               PROVE  w[i].id < w[j].id
    OBVIOUS
  <2>1. CASE i \in 1..n /\ j \in 1..n
    <3>1. inq[i].id < inq[j].id
      BY <2>1 DEF Inv, Ordered, n
    <3> QED BY <1>6, <1>9, <2>1, <3>1
  <2>2. CASE j > n
    BY <1>1, <1>6, <1>9, <2>2
  <2> QED BY <2>1, <2>2, <1>6, <1>8
<1>13. \A i \in 1..Len(started), j \in 1..Len(w) : started[i] < w[j].id
  <2> SUFFICES ASSUME NEW i \in 1..Len(started), NEW j \in 1..Len(w)
               PROVE  started[i] < w[j].id
    OBVIOUS
  <2>1. started[i] \in 1..arrived
    BY <1>6, ElementOfSeq
  <2>2. CASE j \in 1..n /\ w[j].id = inq[j].id
    BY <2>2 DEF Inv, Ordered, n
  <2>3. CASE j > n /\ w[j].id = arrived + (j - n)
    BY <1>1, <1>6, <2>1, <2>3
  <2> QED BY <1>9, <2>2, <2>3
<1>14. \A i, j \in 1..Len(started) : i < j => started[i] < started[j]
  BY DEF Inv, Ordered
<1>15. Ordered(started, w, arrived + k)
  BY <1>8, <1>10, <1>11, <1>12, <1>13, <1>14 DEF Ordered
<1> QED BY <1>1, <1>2, <1>3, <1>15 DEF w

LEMMA InitInv == Init => Inv
<1> SUFFICES ASSUME Init PROVE Inv
  OBVIOUS
<1>1. TypeOK
  <2>1. alive \in BOOLEAN /\ ms \in BOOLEAN
    BY DEF Init
  <2> QED BY <2>1, BoundsAssumption DEF Init, TypeOK
<1>2. Ordered(started, inq, arrived)
  BY DEF Init, Ordered
<1> QED BY <1>1, <1>2 DEF Init, Inv, SomeoneComes

(* A step in which a loop goes on, or dies, keeps the invariant.           *)
LEMMA LoopInv ==
  ASSUME NEW n \in 0..MaxMsgs, arrived' = n,
         alive' \in BOOLEAN, ms' \in BOOLEAN, asleep' \in 0..MaxAsleep,
         NEW q, NEW others \in SUBSET (1..n), Ordered(started, q, n),
         Drain(q, others) \/ Dies(q, others)
  PROVE  Inv'
<1>1. n \in Nat
  BY BoundsAssumption
<1>2. /\ Ordered(started', inq', n)
      /\ handling' \in SUBSET (1..n) /\ ended' \in {"ok", "bad", "empty", "error"}
      /\ inq' = <<>> \/ ended' # "ok" \/ handling' # {}
  <2>1. CASE Drain(q, others)
    BY <1>1, <2>1, DrainFacts
  <2>2. CASE Dies(q, others)
    BY <2>2 DEF Dies
  <2> QED BY <2>1, <2>2
<1>3. Ordered(started, inq, arrived)'
  BY <1>2 DEF Ordered
<1>4. inq' \in Seq(Message) /\ started' \in Seq(1..n)
  BY <1>2 DEF Ordered
<1>5. TypeOK'
  BY <1>2, <1>4 DEF TypeOK
<1>6. SomeoneComes'
  BY <1>2 DEF SomeoneComes, Coming
<1> QED BY <1>3, <1>5, <1>6 DEF Inv

LEMMA NextInv == Inv /\ [Next]_vars => Inv'
<1> SUFFICES ASSUME Inv, [Next]_vars PROVE Inv'
  OBVIOUS
<1>0. /\ TypeOK /\ Ordered(started, inq, arrived)
      /\ arrived \in Nat /\ asleep \in Nat /\ MaxMsgs \in Nat
  BY BoundsAssumption DEF Inv, TypeOK
<1>1. ASSUME NEW k \in 0..MaxBatch, NEW batch \in [1..k -> Kinds], Arrive(batch)
      PROVE  Inv'
  <2>1. /\ Len(batch) = k /\ arrived + k \in 0..MaxMsgs
        /\ Ordered(started, With(batch), arrived + k)
    BY <1>1, WithOrdered DEF Arrive
  <2>2. /\ inq' = With(batch) /\ arrived' = arrived + k /\ asleep' = asleep + 1
        /\ asleep < MaxAsleep /\ ms' = TRUE /\ ended' = "ok"
        /\ UNCHANGED <<alive, handling, started>>
    BY <1>1, <2>1 DEF Arrive
  <2>3. Ordered(started, inq, arrived)'
    BY <2>1, <2>2 DEF Ordered
  <2>4. TypeOK'
    <3>1. inq' \in Seq(Message) /\ started' \in Seq(1..arrived')
      BY <2>3 DEF Ordered
    <3>2. 1..arrived \subseteq 1..arrived'
      BY <1>0, <2>1, <2>2
    <3>3. handling' \in SUBSET (1..arrived')
      BY <2>2, <3>2 DEF Inv, TypeOK
    <3>4. asleep' \in 0..MaxAsleep /\ arrived' \in 0..MaxMsgs
      BY <1>0, <2>1, <2>2, BoundsAssumption
    <3>5. alive' \in BOOLEAN /\ ms' \in BOOLEAN /\ ended' \in {"ok", "bad", "empty", "error"}
      <4>1. ms' \in BOOLEAN
        BY <2>2
      <4> QED BY <2>2, <4>1 DEF Inv, TypeOK
    <3> QED BY <3>1, <3>3, <3>4, <3>5 DEF TypeOK
  <2>5. SomeoneComes'
    BY <1>0, <2>2 DEF SomeoneComes, Coming
  <2> QED BY <2>3, <2>4, <2>5 DEF Inv
<1>2. ASSUME NEW k \in 0..MaxBatch, NEW batch \in [1..k -> Kinds], ArriveNow(batch)
      PROVE  Inv'
  <2>1. /\ Len(batch) = k /\ arrived + k \in 0..MaxMsgs
        /\ Ordered(started, With(batch), arrived + k)
    BY <1>2, WithOrdered DEF ArriveNow
  <2>2. /\ arrived' = arrived + k /\ UNCHANGED <<alive, asleep>>
        /\ Drain(With(batch), handling) \/ Dies(With(batch), handling)
    BY <1>2, <2>1 DEF ArriveNow
  <2>3. 1..arrived \subseteq 1..(arrived + k)
    BY <1>0
  <2>4. handling \in SUBSET (1..(arrived + k))
    BY <2>3 DEF Inv, TypeOK
  <2>5. ms' \in BOOLEAN
    <3>1. ms' = FALSE \/ ms' = ms
      BY <1>2 DEF ArriveNow
    <3> QED BY <3>1 DEF Inv, TypeOK
  <2>6. alive' \in BOOLEAN /\ asleep' \in 0..MaxAsleep
    BY <2>2 DEF Inv, TypeOK
  <2> QED BY <2>1, <2>2, <2>4, <2>5, <2>6, LoopInv
<1>3. CASE Wake
  <2>1. /\ asleep > 0 /\ asleep' = asleep - 1 /\ UNCHANGED <<alive, arrived>>
        /\ ms' = FALSE \/ ms' = ms
    BY <1>3 DEF Wake
  <2>2. /\ asleep' \in 0..MaxAsleep /\ handling \in SUBSET (1..arrived)
        /\ arrived \in 0..MaxMsgs
    BY <1>0, <2>1, BoundsAssumption DEF TypeOK
  <2>3. alive' \in BOOLEAN /\ ms' \in BOOLEAN
    BY <2>1 DEF Inv, TypeOK
  <2>4. CASE ms
    <3>1. Drain(inq, handling) \/ Dies(inq, handling)
      BY <1>3, <2>4 DEF Wake
    <3> QED BY <1>0, <2>1, <2>2, <2>3, <3>1, LoopInv
  <2>5. CASE ~ms
    <3>1. UNCHANGED <<inq, handling, started, ended>>
      BY <1>3, <2>5 DEF Wake
    <3>2. Ordered(started, inq, arrived)'
      BY <1>0, <2>1, <3>1 DEF Ordered
    <3>3. TypeOK'
      BY <1>0, <2>1, <2>2, <2>3, <3>1 DEF TypeOK
    <3>4. SomeoneComes'
      BY <2>5, <3>1 DEF Inv, SomeoneComes, Coming
    <3> QED BY <3>2, <3>3, <3>4 DEF Inv
  <2> QED BY <2>4, <2>5
<1>4. ASSUME NEW m \in handling, HandlerDone(m) PROVE Inv'
  <2>1. /\ Drain(inq, handling \ {m}) \/ Dies(inq, handling \ {m})
        /\ UNCHANGED <<alive, ms, asleep, arrived>>
    BY <1>4 DEF HandlerDone
  <2>2. /\ handling \ {m} \in SUBSET (1..arrived) /\ arrived \in 0..MaxMsgs
        /\ asleep' \in 0..MaxAsleep
    BY <2>1 DEF Inv, TypeOK
  <2>3. alive' \in BOOLEAN /\ ms' \in BOOLEAN
    BY <2>1 DEF Inv, TypeOK
  <2> QED BY <1>0, <2>1, <2>2, <2>3, LoopInv
<1>5. CASE Replace
  <2>1. alive' = FALSE /\ UNCHANGED <<ms, inq, asleep, handling, arrived, started, ended>>
    BY <1>5 DEF Replace
  <2>2. alive' \in BOOLEAN
    BY <2>1
  <2> QED BY <2>1, <2>2 DEF Inv, TypeOK, Ordered, SomeoneComes, Coming
<1>6. CASE UNCHANGED vars
  BY <1>6 DEF vars, Inv, TypeOK, Ordered, SomeoneComes, Coming
<1> QED BY <1>1, <1>2, <1>3, <1>4, <1>5, <1>6 DEF Next

(* The parts together are an invariant.                                    *)
THEOREM Inductive == Spec => []Inv
BY InitInv, NextInv, PTL DEF Spec

(* Every variable keeps its type.                                          *)
THEOREM TypeCorrect == Spec => []TypeOK
<1>1. Inv => TypeOK
  BY DEF Inv
<1> QED BY <1>1, Inductive, PTL

(* However many coroutines drain the kcp at once, every message goes to    *)
(* one handler at most, and they start in the order of the client.         *)
THEOREM HandlersInOrder == Spec => []StartedInOrder
<1>1. Inv => StartedInOrder
  BY DEF Inv, Ordered, StartedInOrder
<1> QED BY <1>1, Inductive, PTL

(* However the coroutines hand u.ms to each other, a message in the kcp    *)
(* has one that will come to it, unless an empty or undecodable message or *)
(* an error has ended a loop early since the last datagram.                *)
THEOREM NobodyForgotten == Spec => []SomeoneComes
<1>1. Inv => SomeoneComes
  BY DEF Inv
<1> QED BY <1>1, Inductive, PTL
=============================================================================
