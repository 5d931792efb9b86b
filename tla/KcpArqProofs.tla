---------------------------- MODULE KcpArqProofs ----------------------------
(***************************************************************************)
(* Proofs about KcpArq, for every window size, every bound on what is sent *)
(* and in transit, and every message size (no assumption that a message    *)
(* fits the receive window: safety does not need it).                      *)
(***************************************************************************)
EXTENDS KcpArq, SequenceTheorems, NaturalsInduction, WellFoundedInduction, TLAPS

(* The two ends are each other's peers.                                    *)
LEMMA PeerFacts ==
  \A e \in Endpoint : /\ Peer(e) \in Endpoint
                      /\ Peer(e) # e
                      /\ Peer(Peer(e)) = e
                      /\ \A f \in Endpoint : f # e => f = Peer(e)
BY EndsAssumption DEF Endpoint, Peer

(* A non-empty set of naturals has a least element, which Min chooses.     *)
LEMMA MinNat ==
  ASSUME NEW S \in SUBSET Nat, S # {}
  PROVE  Min(S) \in S /\ \A x \in S : Min(S) <= x
<1>1. IsWellFoundedOn(OpToRel(<, Nat), Nat)
  BY NatLessThanWellFounded
<1>2. PICK x \in S : \A y \in S : ~ (<<y, x>> \in OpToRel(<, Nat))
  BY <1>1, WFMin
<1>3. \A y \in S : ~ (y < x)
  BY <1>2 DEF OpToRel
<1>4. \A y \in S : x <= y
  BY <1>3
<1> QED BY <1>4 DEF Min

(* The moving loop takes consecutive sequence numbers that are there,      *)
(* while rcv_queue has room, and stops only for a gap or a full queue.     *)
LEMMA MovableFacts ==
  ASSUME NEW buf, NEW nxt \in Nat, NEW len \in Nat, NEW que, len = Len(que)
  PROVE  LET m == Movable(buf, nxt, que)
         IN  /\ m \in Nat
             /\ \A k \in Nat : k < m => nxt + k \in DOMAIN buf /\ len + k < RcvWnd
             /\ nxt + m \notin DOMAIN buf \/ len + m >= RcvWnd
<1> DEFINE S == {m \in 0..RcvWnd : nxt + m \notin DOMAIN buf \/ Len(que) + m >= RcvWnd}
           m == Movable(buf, nxt, que)
<1>1. RcvWnd \in S /\ S \in SUBSET Nat
  BY SizesAssumption
<1>2. m \in S /\ \A x \in S : m <= x
  <2>1. m = Min(S)
    BY DEF Movable
  <2> HIDE DEF S, m
  <2> QED BY <1>1, <2>1, MinNat
<1>3. ASSUME NEW k \in Nat, k < m
      PROVE  nxt + k \in DOMAIN buf /\ len + k < RcvWnd
  <2>1. k \in 0..RcvWnd /\ k \notin S
    BY <1>2, <1>3, SizesAssumption
  <2> QED BY <2>1, SizesAssumption
<1> QED BY <1>2, <1>3, SizesAssumption

(* ikcp_flush moves fragments while there are some and the window has room. *)
LEMMA SendableFacts ==
  ASSUME TypeOK, NEW e \in Endpoint
  PROVE  /\ Sendable(e) \in 0..Len(snd_queue[e])
         /\ Sendable(e) = 0 \/ snd_nxt[e] + Sendable(e) <= snd_una[e] + Window(e)
         /\ Window(e) \in Nat /\ Window(e) <= SndWnd
<1> DEFINE len == Len(snd_queue[e])
           S == {m \in 0..len : m = len \/ snd_nxt[e] + m >= snd_una[e] + Window(e)}
           s == Sendable(e)
<1>0. len \in Nat /\ snd_nxt[e] \in Nat /\ snd_una[e] \in Nat /\ rmt_wnd[e] \in Nat
  BY DEF TypeOK
<1>1. Window(e) \in Nat /\ Window(e) <= SndWnd
  BY <1>0, SizesAssumption DEF Window
<1>2. len \in S /\ S \in SUBSET Nat
  BY <1>0
<1>3. s \in S /\ \A x \in S : s <= x
  <2>1. s = Min(S)
    BY DEF Sendable
  <2> HIDE DEF S, s
  <2> QED BY <1>2, <2>1, MinNat
<1>4. ASSUME s # 0
      PROVE  snd_nxt[e] + s <= snd_una[e] + Window(e)
  <2>1. s - 1 \in 0..len /\ s - 1 \notin S
    BY <1>0, <1>3, <1>4
  <2>2. ~ (snd_nxt[e] + (s - 1) >= snd_una[e] + Window(e))
    BY <2>1
  <2> QED BY <2>2, <1>0, <1>1, <1>3, SizesAssumption
<1> QED BY <1>1, <1>3, <1>4, <1>0

-----------------------------------------------------------------------------
(* What the moving loop leaves in the receive side of e, and that it does  *)
(* not touch the other end.                                                *)
LEMMA MoveReadyFacts ==
  ASSUME TypeOK, NEW e \in Endpoint, NEW buf, IsBuffer(buf),
         NEW que \in Seq(Piece), MoveReady(e, buf, que)
  PROVE  \E m \in Nat :
           /\ rcv_nxt' = [rcv_nxt EXCEPT ![e] = rcv_nxt[e] + m]
           /\ rcv_queue' \in [Endpoint -> Seq(Piece)]
           /\ Len(rcv_queue'[e]) = Len(que) + m
           /\ \A i \in 1..Len(que) : rcv_queue'[e][i] = que[i]
           /\ \A i \in Nat : i < m =>
                 /\ rcv_queue'[e][Len(que) + i + 1] = buf[rcv_nxt[e] + i]
                 /\ rcv_nxt[e] + i \in DOMAIN buf
                 /\ Len(que) + i < RcvWnd
           /\ DOMAIN rcv_buf' = Endpoint
           /\ IsBuffer(rcv_buf'[e])
           /\ DOMAIN rcv_buf'[e] = DOMAIN buf \ (rcv_nxt[e]..(rcv_nxt[e] + m - 1))
           /\ \A k \in DOMAIN rcv_buf'[e] : rcv_buf'[e][k] = buf[k]
           /\ \A f \in Endpoint : f # e => /\ rcv_queue'[f] = rcv_queue[f]
                                         /\ rcv_buf'[f] = rcv_buf[f]
           /\ rcv_nxt[e] + m \notin DOMAIN buf \/ Len(que) + m >= RcvWnd
<1> DEFINE nxt == rcv_nxt[e]
           m   == Movable(buf, nxt, que)
           new == [i \in 1..m |-> buf[nxt + i - 1]]
           rest == DOMAIN buf \ (nxt..(nxt + m - 1))
<1>0. nxt \in Nat /\ Len(que) \in Nat
  BY DEF TypeOK
<1>1. /\ m \in Nat
      /\ \A k \in Nat : k < m => nxt + k \in DOMAIN buf /\ Len(que) + k < RcvWnd
      /\ nxt + m \notin DOMAIN buf \/ Len(que) + m >= RcvWnd
  BY <1>0, MovableFacts
<1>2. /\ rcv_queue' = [rcv_queue EXCEPT ![e] = que \o new]
      /\ rcv_buf' = [rcv_buf EXCEPT ![e] = Keep(buf, rest)]
      /\ rcv_nxt' = [rcv_nxt EXCEPT ![e] = nxt + m]
  BY DEF MoveReady
<1> HIDE DEF m
<1>3. \A i \in 1..m : buf[nxt + i - 1] \in Piece
  <2> SUFFICES ASSUME NEW i \in 1..m PROVE buf[nxt + i - 1] \in Piece
    OBVIOUS
  <2>1. nxt + (i - 1) \in DOMAIN buf
    BY <1>0, <1>1
  <2> QED BY <2>1, <1>0, <1>1 DEF IsBuffer
<1>4. new \in Seq(Piece) /\ Len(new) = m
  BY <1>1, <1>3
<1>4a. \A i \in Nat : i < m => new[i + 1] = buf[nxt + i]
  <2> SUFFICES ASSUME NEW i \in Nat, i < m PROVE new[i + 1] = buf[nxt + i]
    OBVIOUS
  <2>1. i + 1 \in 1..m /\ nxt + (i + 1) - 1 = nxt + i
    BY <1>0, <1>1
  <2> QED BY <2>1
<1> HIDE DEF new
<1>5. que \o new \in Seq(Piece) /\ Len(que \o new) = Len(que) + m
  BY <1>4
<1>6. rcv_queue'[e] = que \o new
  BY <1>2 DEF TypeOK
<1>7. rcv_buf'[e] = Keep(buf, rest)
  BY <1>2 DEF TypeOK
<1>8. ASSUME NEW i \in Nat, i < m
      PROVE  rcv_queue'[e][Len(que) + i + 1] = buf[nxt + i]
  <2>1. i + 1 \in 1..Len(new)
    BY <1>1, <1>4, <1>8
  <2>2. (que \o new)[Len(que) + (i + 1)] = new[i + 1]
    BY <1>4, <2>1
  <2>3. Len(que) + (i + 1) = Len(que) + i + 1
    BY <1>0
  <2>4. new[i + 1] = buf[nxt + i]
    BY <1>4a, <1>8
  <2> QED BY <1>6, <2>2, <2>3, <2>4
<1>9. IsBuffer(rcv_buf'[e]) /\ DOMAIN rcv_buf'[e] = rest
      /\ \A k \in rest : rcv_buf'[e][k] = buf[k]
  BY <1>7 DEF IsBuffer, Keep
<1>10. rcv_queue' \in [Endpoint -> Seq(Piece)] /\ DOMAIN rcv_buf' = Endpoint
  BY <1>2, <1>5 DEF TypeOK
<1>11. \A i \in 1..Len(que) : rcv_queue'[e][i] = que[i]
  BY <1>4, <1>6
<1>12. Len(rcv_queue'[e]) = Len(que) + m
  BY <1>5, <1>6
<1>13. \A f \in Endpoint : f # e => /\ rcv_queue'[f] = rcv_queue[f]
                                 /\ rcv_buf'[f] = rcv_buf[f]
  BY <1>2 DEF TypeOK
<1> QED BY <1>1, <1>2, <1>8, <1>9, <1>10, <1>11, <1>12, <1>13

-----------------------------------------------------------------------------
(* Concatenation, element by element.                                      *)
LEMMA ConcatFacts ==
  ASSUME NEW s \in Seq(Piece), NEW t \in Seq(Piece)
  PROVE  /\ s \o t \in Seq(Piece)
         /\ Len(s \o t) = Len(s) + Len(t)
         /\ \A i \in 1..Len(s) : (s \o t)[i] = s[i]
         /\ \A j \in 1..Len(t) : (s \o t)[Len(s) + j] = t[j]
<1>1. s \o t \in Seq(Piece) /\ Len(s \o t) = Len(s) + Len(t)
  OBVIOUS
<1>2. \A i \in 1..Len(s) : (s \o t)[i] = s[i]
  OBVIOUS
<1>3. \A j \in 1..Len(t) : (s \o t)[Len(s) + j] = t[j]
  OBVIOUS
<1> QED BY <1>1, <1>2, <1>3

(* ikcp_send appends the same n fragments to the stream and the queue.     *)
LEMMA FragmentsFacts ==
  ASSUME NEW before \in Nat, NEW n \in Nat
  PROVE  /\ Fragments(before, n) \in Seq(Piece)
         /\ Len(Fragments(before, n)) = n
         /\ \A j \in 1..n : Fragments(before, n)[j] = [frg |-> n - j, data |-> before + j]
<1>1. \A j \in 1..n : [frg |-> n - j, data |-> before + j] \in Piece
  BY DEF Piece
<1>2. Fragments(before, n) \in [1..n -> Piece]
  BY <1>1 DEF Fragments
<1>3. Fragments(before, n) \in Seq(Piece) /\ Len(Fragments(before, n)) = n
  BY <1>2
<1> QED BY <1>3 DEF Fragments

LEMMA SendFacts ==
  ASSUME TypeOK, NEW e \in Endpoint, NEW n \in 1..MaxFrag, Send(e, n)
  PROVE  LET len == Len(stream[e])
         IN  /\ stream' \in [Endpoint -> Seq(Piece)]
             /\ snd_queue' \in [Endpoint -> Seq(Piece)]
             /\ Len(stream'[e]) = len + n
             /\ Len(snd_queue'[e]) = Len(snd_queue[e]) + n
             /\ \A i \in 1..len : stream'[e][i] = stream[e][i]
             /\ \A i \in 1..Len(snd_queue[e]) : snd_queue'[e][i] = snd_queue[e][i]
             /\ \A j \in 1..n :
                   /\ stream'[e][len + j] = [frg |-> n - j, data |-> len + j]
                   /\ snd_queue'[e][Len(snd_queue[e]) + j] = [frg |-> n - j, data |-> len + j]
             /\ \A f \in Endpoint : f # e => stream'[f] = stream[f]
                                          /\ snd_queue'[f] = snd_queue[f]
<1> DEFINE fr == Fragments(Len(stream[e]), n)
<1>1. n \in Nat /\ Len(stream[e]) \in Nat /\ Len(snd_queue[e]) \in Nat
      /\ stream[e] \in Seq(Piece) /\ snd_queue[e] \in Seq(Piece)
  BY SizesAssumption DEF TypeOK
<1>2. /\ fr \in Seq(Piece)
      /\ Len(fr) = n
      /\ \A j \in 1..n : fr[j] = [frg |-> n - j, data |-> Len(stream[e]) + j]
  BY <1>1, FragmentsFacts
<1>3. /\ stream' = [stream EXCEPT ![e] = stream[e] \o fr]
      /\ snd_queue' = [snd_queue EXCEPT ![e] = snd_queue[e] \o fr]
  BY DEF Send, TypeOK
<1> HIDE DEF fr
<1>4. stream'[e] = stream[e] \o fr /\ snd_queue'[e] = snd_queue[e] \o fr
  BY <1>3 DEF TypeOK
<1>5. /\ stream[e] \o fr \in Seq(Piece)
      /\ Len(stream[e] \o fr) = Len(stream[e]) + n
      /\ \A i \in 1..Len(stream[e]) : (stream[e] \o fr)[i] = stream[e][i]
      /\ \A j \in 1..n : (stream[e] \o fr)[Len(stream[e]) + j] = fr[j]
  BY <1>1, <1>2, ConcatFacts
<1>6. /\ snd_queue[e] \o fr \in Seq(Piece)
      /\ Len(snd_queue[e] \o fr) = Len(snd_queue[e]) + n
      /\ \A i \in 1..Len(snd_queue[e]) : (snd_queue[e] \o fr)[i] = snd_queue[e][i]
      /\ \A j \in 1..n : (snd_queue[e] \o fr)[Len(snd_queue[e]) + j] = fr[j]
  BY <1>1, <1>2, ConcatFacts
<1>7. /\ stream' \in [Endpoint -> Seq(Piece)]
      /\ snd_queue' \in [Endpoint -> Seq(Piece)]
      /\ \A f \in Endpoint : f # e => stream'[f] = stream[f] /\ snd_queue'[f] = snd_queue[f]
  BY <1>3, <1>5, <1>6 DEF TypeOK
<1>8. ASSUME NEW j \in 1..n
      PROVE  /\ stream'[e][Len(stream[e]) + j] = [frg |-> n - j, data |-> Len(stream[e]) + j]
             /\ snd_queue'[e][Len(snd_queue[e]) + j]
                   = [frg |-> n - j, data |-> Len(stream[e]) + j]
  <2>1. fr[j] = [frg |-> n - j, data |-> Len(stream[e]) + j]
    BY <1>2
  <2>2. (stream[e] \o fr)[Len(stream[e]) + j] = fr[j]
    BY <1>5
  <2>3. (snd_queue[e] \o fr)[Len(snd_queue[e]) + j] = fr[j]
    BY <1>6
  <2> QED BY <2>1, <2>2, <2>3, <1>4
<1>9. /\ Len(stream'[e]) = Len(stream[e]) + n
      /\ \A i \in 1..Len(stream[e]) : stream'[e][i] = stream[e][i]
  BY <1>4, <1>5
<1>10. /\ Len(snd_queue'[e]) = Len(snd_queue[e]) + n
       /\ \A i \in 1..Len(snd_queue[e]) : snd_queue'[e][i] = snd_queue[e][i]
  BY <1>4, <1>6
<1> QED BY <1>7, <1>8, <1>9, <1>10

(* The merge loop of ikcp_recv takes at least one fragment.                *)
LEMMA MessageEndFacts ==
  ASSUME NEW que \in Seq(Piece), que # <<>>
  PROVE  /\ MessageEnd(que) \in 1..Len(que)
         /\ \A i \in 1..Len(que) : que[i].frg = 0 => MessageEnd(que) <= i
         /\ MessageEnd(que) = Len(que) \/ que[MessageEnd(que)].frg = 0
<1> DEFINE S == {i \in 1..Len(que) : que[i].frg = 0} \cup {Len(que)}
<1>1. Len(que) \in Nat /\ Len(que) >= 1
  BY EmptySeq
<1>2. S \in SUBSET Nat /\ S # {}
  BY <1>1
<1>3. MessageEnd(que) = Min(S)
  BY DEF MessageEnd
<1>4. Min(S) \in S /\ \A x \in S : Min(S) <= x
  <2> HIDE DEF S
  <2> QED BY <1>2, MinNat
<1> QED BY <1>1, <1>3, <1>4

LEMMA RecvFacts ==
  ASSUME TypeOK, NEW e \in Endpoint, Recv(e)
  PROVE  LET que  == rcv_queue[e]
             k    == MessageEnd(que)
             rest == SubSeq(que, k + 1, Len(que))
         IN  /\ Complete(que) /\ k \in 1..Len(que)
             /\ delivered' \in [Endpoint -> Seq(Piece)]
             /\ Len(delivered'[e]) = Len(delivered[e]) + k
             /\ \A i \in 1..Len(delivered[e]) : delivered'[e][i] = delivered[e][i]
             /\ \A i \in 1..k : delivered'[e][Len(delivered[e]) + i] = que[i]
             /\ \A f \in Endpoint : f # e => delivered'[f] = delivered[f]
             /\ rest \in Seq(Piece) /\ Len(rest) = Len(que) - k
             /\ \A i \in 1..(Len(que) - k) : rest[i] = que[k + i]
             /\ MoveReady(e, rcv_buf[e], rest)
<1> DEFINE que  == rcv_queue[e]
           k    == MessageEnd(que)
           got  == SubSeq(que, 1, k)
           rest == SubSeq(que, k + 1, Len(que))
<1>0. que # <<>> /\ Complete(que)
  BY DEF Recv, Complete
<1>1. /\ que \in Seq(Piece) /\ que # <<>> /\ Complete(que)
      /\ delivered[e] \in Seq(Piece)
      /\ Len(que) \in Nat /\ Len(delivered[e]) \in Nat
  BY <1>0 DEF TypeOK
<1>2. k \in 1..Len(que)
  BY <1>1, MessageEndFacts
<1>3. /\ delivered' = [delivered EXCEPT ![e] = delivered[e] \o got]
      /\ MoveReady(e, rcv_buf[e], rest)
  BY DEF Recv, TypeOK
<1> HIDE DEF que, k
<1>4. /\ got \in Seq(Piece) /\ Len(got) = k
      /\ \A i \in 1..k : got[i] = que[i]
  BY <1>1, <1>2
<1>5. /\ rest \in Seq(Piece) /\ Len(rest) = Len(que) - k
      /\ \A i \in 1..(Len(que) - k) : rest[i] = que[k + i]
  BY <1>1, <1>2
<1> HIDE DEF got, rest
<1>6. /\ delivered[e] \o got \in Seq(Piece)
      /\ Len(delivered[e] \o got) = Len(delivered[e]) + k
      /\ \A i \in 1..Len(delivered[e]) : (delivered[e] \o got)[i] = delivered[e][i]
      /\ \A i \in 1..k : (delivered[e] \o got)[Len(delivered[e]) + i] = got[i]
  BY <1>1, <1>4, ConcatFacts
<1>7. /\ delivered' \in [Endpoint -> Seq(Piece)]
      /\ delivered'[e] = delivered[e] \o got
      /\ \A f \in Endpoint : f # e => delivered'[f] = delivered[f]
  BY <1>3, <1>6 DEF TypeOK
<1> QED BY <1>1, <1>2, <1>3, <1>4, <1>5, <1>6, <1>7 DEF que, k, rest

(* ikcp_parse_una, ikcp_parse_ack and ikcp_shrink_buf together: some       *)
(* segments leave snd_buf and snd_una is again the first that is left.     *)
LEMMA AcknowledgeFacts ==
  ASSUME TypeOK, InFlight, NEW e \in Endpoint, NEW p \in Packet, Acknowledge(e, p)
  PROVE  /\ rmt_wnd' \in [Endpoint -> Nat]
         /\ snd_una' \in [Endpoint -> Nat]
         /\ snd_queue' = snd_queue /\ snd_nxt' = snd_nxt
         /\ DOMAIN snd_buf' = Endpoint /\ IsBuffer(snd_buf'[e])
         /\ DOMAIN snd_buf'[e] = Unacked(e, p)
         /\ \A sn \in DOMAIN snd_buf'[e] : snd_buf'[e][sn] = snd_buf[e][sn]
         /\ \A f \in Endpoint : f # e => snd_buf'[f] = snd_buf[f] /\ snd_una'[f] = snd_una[f]
         /\ snd_una[e] <= snd_una'[e]
         /\ InFlight'
<1> DEFINE left == Unacked(e, p)
<1>1. /\ rmt_wnd' = [rmt_wnd EXCEPT ![e] = p.wnd]
      /\ snd_buf' = [snd_buf EXCEPT ![e] = Keep(snd_buf[e], left)]
      /\ snd_una' = [snd_una EXCEPT ![e] = IF left = {} THEN snd_nxt[e] ELSE Min(left)]
      /\ snd_queue' = snd_queue /\ snd_nxt' = snd_nxt
  BY DEF Acknowledge, TypeOK
<1>2. left \subseteq DOMAIN snd_buf[e]
  BY DEF Unacked
<1>3. left \in SUBSET Nat
  BY <1>2 DEF TypeOK, IsBuffer
<1> HIDE DEF left
<1>4. /\ DOMAIN snd_buf' = Endpoint
      /\ snd_buf'[e] = Keep(snd_buf[e], left)
      /\ \A f \in Endpoint : f # e => snd_buf'[f] = snd_buf[f] /\ snd_una'[f] = snd_una[f]
  BY <1>1 DEF TypeOK
<1>5. /\ DOMAIN snd_buf'[e] = left
      /\ IsBuffer(snd_buf'[e])
      /\ \A sn \in left : snd_buf'[e][sn] = snd_buf[e][sn]
  BY <1>2, <1>3, <1>4 DEF Keep, IsBuffer, TypeOK
<1>6. rmt_wnd' \in [Endpoint -> Nat]
  BY <1>1 DEF TypeOK, Packet
<1>7. snd_una'[e] = IF left = {} THEN snd_nxt[e] ELSE Min(left)
  BY <1>1 DEF TypeOK
<1>8. /\ DOMAIN snd_buf[e] \subseteq snd_una[e]..(snd_nxt[e] - 1)
      /\ snd_nxt[e] - snd_una[e] <= SndWnd
      /\ snd_una[e] \in DOMAIN snd_buf[e] \cup {snd_nxt[e]}
      /\ snd_una[e] \in Nat /\ snd_nxt[e] \in Nat
  BY DEF InFlight, TypeOK
<1>9. CASE left = {}
  <2>1. snd_una'[e] = snd_nxt[e] /\ snd_una[e] <= snd_nxt[e]
    BY <1>7, <1>8, <1>9
  <2>2. snd_una' \in [Endpoint -> Nat]
    BY <1>1, <1>8, <1>9 DEF TypeOK
  <2>3. InFlight'
    <3> SUFFICES ASSUME NEW f \in Endpoint
                 PROVE  /\ DOMAIN snd_buf'[f] \subseteq snd_una'[f]..(snd_nxt'[f] - 1)
                        /\ snd_nxt'[f] - snd_una'[f] <= SndWnd
                        /\ snd_una'[f] \in DOMAIN snd_buf'[f] \cup {snd_nxt'[f]}
      BY DEF InFlight
    <3>1. CASE f = e
      BY <3>1, <2>1, <1>1, <1>5, <1>8, <1>9, SizesAssumption
    <3>2. CASE f # e
      BY <3>2, <1>1, <1>4 DEF InFlight
    <3> QED BY <3>1, <3>2
  <2> QED BY <1>1, <1>4, <1>5, <1>6, <2>1, <2>2, <2>3 DEF left
<1>10. CASE left # {}
  <2>1. snd_una'[e] = Min(left) /\ Min(left) \in left /\ \A x \in left : Min(left) <= x
    BY <1>3, <1>7, <1>10, MinNat
  <2>2. /\ snd_una'[e] \in Nat /\ snd_una'[e] \in DOMAIN snd_buf[e]
        /\ snd_una[e] <= snd_una'[e]
        /\ left \subseteq snd_una'[e]..(snd_nxt[e] - 1)
    <3>1. snd_una'[e] \in Nat /\ snd_una'[e] \in DOMAIN snd_buf[e]
      BY <2>1, <1>2, <1>3
    <3>2. \A x \in left : x \in Nat /\ x <= snd_nxt[e] - 1
      BY <1>2, <1>3, <1>8
    <3> QED BY <2>1, <3>1, <3>2, <1>8
  <2>3. snd_una' \in [Endpoint -> Nat]
    BY <1>1, <2>1, <2>2, <1>10 DEF TypeOK
  <2>4. InFlight'
    <3> SUFFICES ASSUME NEW f \in Endpoint
                 PROVE  /\ DOMAIN snd_buf'[f] \subseteq snd_una'[f]..(snd_nxt'[f] - 1)
                        /\ snd_nxt'[f] - snd_una'[f] <= SndWnd
                        /\ snd_una'[f] \in DOMAIN snd_buf'[f] \cup {snd_nxt'[f]}
      BY DEF InFlight
    <3>1. CASE f = e
      <4>1. snd_una'[e] \in DOMAIN snd_buf'[e] \cup {snd_nxt'[e]}
        BY <2>1, <1>5
      <4>2. DOMAIN snd_buf'[e] \subseteq snd_una'[e]..(snd_nxt'[e] - 1)
        BY <2>2, <1>1, <1>5
      <4>3. snd_nxt'[e] - snd_una'[e] <= SndWnd
        BY <2>2, <1>1, <1>8, SizesAssumption
      <4> QED BY <3>1, <4>1, <4>2, <4>3
    <3>2. CASE f # e
      BY <3>2, <1>1, <1>4 DEF InFlight
    <3> QED BY <3>1, <3>2
  <2> QED BY <1>1, <1>4, <1>5, <1>6, <2>2, <2>3, <2>4 DEF left
<1> QED BY <1>9, <1>10

(* What ikcp_flush does to the send side: the first m fragments of the     *)
(* queue are numbered snd_nxt, snd_nxt + 1, ... and kept in snd_buf.       *)
LEMMA FlushFacts ==
  ASSUME TypeOK, InFlight, NEW e \in Endpoint, FlushState(e)
  PROVE  \E m \in Nat :
           /\ m <= Len(snd_queue[e])
           /\ m = 0 \/ snd_nxt[e] + m <= snd_una[e] + Window(e)
           /\ m = 0 \/ snd_nxt[e] + m <= snd_una[e] + SndWnd
           /\ snd_nxt' = [snd_nxt EXCEPT ![e] = snd_nxt[e] + m]
           /\ snd_queue' \in [Endpoint -> Seq(Piece)]
           /\ Len(snd_queue'[e]) = Len(snd_queue[e]) - m
           /\ \A i \in 1..Len(snd_queue'[e]) : snd_queue'[e][i] = snd_queue[e][m + i]
           /\ DOMAIN snd_buf' = Endpoint /\ IsBuffer(snd_buf'[e])
           /\ DOMAIN snd_buf'[e] = DOMAIN snd_buf[e] \cup (snd_nxt[e]..(snd_nxt[e] + m - 1))
           /\ \A sn \in DOMAIN snd_buf[e] : snd_buf'[e][sn] = snd_buf[e][sn]
           /\ \A i \in Nat : i < m => snd_buf'[e][snd_nxt[e] + i] = snd_queue[e][i + 1]
           /\ \A f \in Endpoint : f # e => snd_buf'[f] = snd_buf[f] /\ snd_queue'[f] = snd_queue[f]
<1> DEFINE m   == Sendable(e)
           nxt == snd_nxt[e]
           que == snd_queue[e]
           fst == SubSeq(que, 1, m)
           rst == SubSeq(que, m + 1, Len(que))
           buf == Number(snd_buf[e], nxt, fst)
<1>1. /\ snd_buf' = [snd_buf EXCEPT ![e] = buf]
      /\ snd_queue' = [snd_queue EXCEPT ![e] = rst]
      /\ snd_nxt' = [snd_nxt EXCEPT ![e] = nxt + m]
  BY DEF FlushState, TypeOK
<1>2. /\ m \in 0..Len(que)
      /\ m = 0 \/ nxt + m <= snd_una[e] + Window(e)
      /\ m = 0 \/ nxt + m <= snd_una[e] + SndWnd
  <2>1. /\ m \in 0..Len(que) /\ (m = 0 \/ nxt + m <= snd_una[e] + Window(e))
        /\ Window(e) \in Nat /\ Window(e) <= SndWnd
    BY SendableFacts
  <2>2. /\ Len(que) \in Nat /\ nxt \in Nat /\ snd_una[e] \in Nat /\ SndWnd \in Nat
    BY SizesAssumption DEF TypeOK
  <2> HIDE DEF m, nxt, que
  <2> QED BY <2>1, <2>2
<1>3. /\ que \in Seq(Piece) /\ Len(que) \in Nat /\ nxt \in Nat
      /\ IsBuffer(snd_buf[e])
      /\ DOMAIN snd_buf[e] \subseteq 0..(nxt - 1)
  BY DEF TypeOK, InFlight
<1> HIDE DEF m, nxt, que
<1>4. /\ fst \in Seq(Piece) /\ Len(fst) = m
      /\ \A i \in 1..m : fst[i] = que[i]
  BY <1>2, <1>3
<1>5. /\ rst \in Seq(Piece) /\ Len(rst) = Len(que) - m
      /\ \A i \in 1..(Len(que) - m) : rst[i] = que[m + i]
  BY <1>2, <1>3
<1> HIDE DEF fst, rst
<1>6. /\ DOMAIN buf = DOMAIN snd_buf[e] \cup (nxt..(nxt + m - 1))
      /\ \A sn \in DOMAIN snd_buf[e] : buf[sn] = snd_buf[e][sn]
      /\ \A sn \in nxt..(nxt + m - 1) : buf[sn] = fst[sn - nxt + 1]
  BY <1>2, <1>3, <1>4 DEF Number
<1>7. ASSUME NEW i \in Nat, i < m
      PROVE  buf[nxt + i] = que[i + 1]
  <2>1. nxt + i \in nxt..(nxt + m - 1) /\ (nxt + i) - nxt + 1 = i + 1 /\ i + 1 \in 1..m
    BY <1>2, <1>3, <1>7
  <2> QED BY <2>1, <1>4, <1>6
<1>8. IsBuffer(buf)
  <2>1. \A sn \in DOMAIN snd_buf[e] : buf[sn] \in Piece
    BY <1>3, <1>6 DEF IsBuffer
  <2>2. ASSUME NEW sn \in nxt..(nxt + m - 1) PROVE buf[sn] \in Piece
    <3>1. sn - nxt + 1 \in 1..m
      BY <1>2, <1>3
    <3> QED BY <3>1, <1>4, <1>6
  <2>3. DOMAIN buf \subseteq Nat
    BY <1>2, <1>3, <1>6
  <2>4. buf = [sn \in DOMAIN buf |-> buf[sn]]
    BY DEF Number
  <2> HIDE DEF buf
  <2>5. \A sn \in DOMAIN buf : buf[sn] \in Piece
    BY <2>1, <2>2, <1>6
  <2> QED BY <2>3, <2>4, <2>5 DEF IsBuffer
<1> HIDE DEF buf
<1>9. /\ snd_queue' \in [Endpoint -> Seq(Piece)] /\ snd_queue'[e] = rst
      /\ DOMAIN snd_buf' = Endpoint /\ snd_buf'[e] = buf
      /\ \A f \in Endpoint : f # e => snd_buf'[f] = snd_buf[f] /\ snd_queue'[f] = snd_queue[f]
  BY <1>1, <1>5 DEF TypeOK
<1>10. m \in Nat /\ m <= Len(que)
  BY <1>2, <1>3
<1>11. /\ Len(snd_queue'[e]) = Len(snd_queue[e]) - m
       /\ \A i \in 1..Len(snd_queue'[e]) : snd_queue'[e][i] = snd_queue[e][m + i]
  BY <1>5, <1>9 DEF que
<1>12. /\ IsBuffer(snd_buf'[e])
       /\ DOMAIN snd_buf'[e] = DOMAIN snd_buf[e] \cup (snd_nxt[e]..(snd_nxt[e] + m - 1))
       /\ \A sn \in DOMAIN snd_buf[e] : snd_buf'[e][sn] = snd_buf[e][sn]
  BY <1>6, <1>8, <1>9 DEF nxt
<1>13. \A i \in Nat : i < m => snd_buf'[e][snd_nxt[e] + i] = snd_queue[e][i + 1]
  BY <1>7, <1>9 DEF nxt, que
<1>14. /\ m <= Len(snd_queue[e])
       /\ m = 0 \/ snd_nxt[e] + m <= snd_una[e] + Window(e)
       /\ m = 0 \/ snd_nxt[e] + m <= snd_una[e] + SndWnd
       /\ snd_nxt' = [snd_nxt EXCEPT ![e] = snd_nxt[e] + m]
  BY <1>1, <1>2, <1>10 DEF nxt, que
<1> QED BY <1>9, <1>10, <1>11, <1>12, <1>13, <1>14

-----------------------------------------------------------------------------
(* The numbered fragments are part of the stream.                          *)
LEMMA Numbered ==
  ASSUME IInv
  PROVE  \A e \in Endpoint :
           /\ Len(stream[e]) \in Nat /\ Len(snd_queue[e]) \in Nat
           /\ Len(delivered[e]) \in Nat /\ Len(rcv_queue[e]) \in Nat
           /\ snd_nxt[e] \in Nat /\ snd_nxt[e] <= Len(stream[e])
           /\ snd_nxt[e] + Len(snd_queue[e]) = Len(stream[e])
           /\ rcv_nxt[e] \in Nat /\ rcv_nxt[e] <= snd_nxt[Peer(e)]
           /\ rcv_nxt[e] = Len(delivered[e]) + Len(rcv_queue[e])
           /\ Peer(e) \in Endpoint
<1> SUFFICES ASSUME NEW e \in Endpoint
    PROVE  /\ Len(stream[e]) \in Nat /\ Len(snd_queue[e]) \in Nat
           /\ Len(delivered[e]) \in Nat /\ Len(rcv_queue[e]) \in Nat
           /\ snd_nxt[e] \in Nat /\ snd_nxt[e] <= Len(stream[e])
           /\ snd_nxt[e] + Len(snd_queue[e]) = Len(stream[e])
           /\ rcv_nxt[e] \in Nat /\ rcv_nxt[e] <= snd_nxt[Peer(e)]
           /\ rcv_nxt[e] = Len(delivered[e]) + Len(rcv_queue[e])
           /\ Peer(e) \in Endpoint
  OBVIOUS
<1>1. /\ Len(stream[e]) \in Nat /\ Len(snd_queue[e]) \in Nat
      /\ Len(delivered[e]) \in Nat /\ Len(rcv_queue[e]) \in Nat
      /\ snd_nxt[e] \in Nat /\ rcv_nxt[e] \in Nat
  BY DEF IInv, TypeOK
<1>2. snd_nxt[e] + Len(snd_queue[e]) = Len(stream[e])
  BY DEF IInv, SendSide
<1>3. snd_nxt[e] <= Len(stream[e])
  BY <1>1, <1>2
<1>4. rcv_nxt[e] <= snd_nxt[Peer(e)] /\ rcv_nxt[e] = Len(delivered[e]) + Len(rcv_queue[e])
  BY DEF IInv, ReceiveSide
<1> QED BY <1>1, <1>2, <1>3, <1>4, PeerFacts

(* Send: the streams grow, and nothing that was numbered changes.          *)
LEMMA StreamGrows ==
  ASSUME IInv, NEW e \in Endpoint, NEW n \in 1..MaxFrag, Send(e, n)
  PROVE  \A f \in Endpoint :
           /\ Len(stream'[f]) \in Nat /\ Len(stream[f]) <= Len(stream'[f])
           /\ \A i \in 1..Len(stream[f]) : stream'[f][i] = stream[f][i]
           /\ \A sn \in Nat : sn < snd_nxt[f] => stream'[f][sn + 1] = stream[f][sn + 1]
<1> SUFFICES ASSUME NEW f \in Endpoint
    PROVE  /\ Len(stream'[f]) \in Nat /\ Len(stream[f]) <= Len(stream'[f])
           /\ \A i \in 1..Len(stream[f]) : stream'[f][i] = stream[f][i]
           /\ \A sn \in Nat : sn < snd_nxt[f] => stream'[f][sn + 1] = stream[f][sn + 1]
  OBVIOUS
<1>1. TypeOK
  BY DEF IInv
<1>2. Len(stream[f]) \in Nat /\ snd_nxt[f] \in Nat /\ snd_nxt[f] <= Len(stream[f])
  BY Numbered
<1>3. n \in Nat
  BY SizesAssumption
<1>4. \A i \in 1..Len(stream[f]) : stream'[f][i] = stream[f][i]
  BY <1>1, SendFacts
<1>5. Len(stream'[f]) = Len(stream[f]) + n \/ Len(stream'[f]) = Len(stream[f])
  BY <1>1, SendFacts
<1>6. ASSUME NEW sn \in Nat, sn < snd_nxt[f]
      PROVE  stream'[f][sn + 1] = stream[f][sn + 1]
  <2>1. sn + 1 \in 1..Len(stream[f])
    BY <1>2, <1>6
  <2> QED BY <2>1, <1>4
<1> QED BY <1>2, <1>3, <1>4, <1>5, <1>6

LEMMA SendStep ==
  ASSUME IInv, NEW e \in Endpoint, NEW n \in 1..MaxFrag, Send(e, n)
  PROVE  IInv'
<1>0. /\ TypeOK /\ SendSide /\ ReceiveSide /\ Framed /\ TruthfulNet
      /\ KeptUntilHeld /\ InFlight /\ WithinWindow /\ NoneStranded /\ InOrder
  BY DEF IInv
<1>1. n \in Nat /\ n >= 1
  BY SizesAssumption
<1>2. UNCHANGED <<delivered, snd_buf, snd_una, snd_nxt, rcv_nxt, rcv_buf, rcv_queue,
                  rmt_wnd, probe, probe_wait, acklist, net>>
  BY DEF Send, rcvVars, ctlVars
<1>3. stream' \in [Endpoint -> Seq(Piece)] /\ snd_queue' \in [Endpoint -> Seq(Piece)]
  BY <1>0, SendFacts
<1>4. /\ Len(stream'[e]) = Len(stream[e]) + n
      /\ Len(snd_queue'[e]) = Len(snd_queue[e]) + n
      /\ \A i \in 1..Len(snd_queue[e]) : snd_queue'[e][i] = snd_queue[e][i]
  BY <1>0, SendFacts
<1>5. \A j \in 1..n :
        /\ stream'[e][Len(stream[e]) + j] = [frg |-> n - j, data |-> Len(stream[e]) + j]
        /\ snd_queue'[e][Len(snd_queue[e]) + j] = [frg |-> n - j, data |-> Len(stream[e]) + j]
  BY <1>0, SendFacts
<1>6. \A f \in Endpoint : f # e => stream'[f] = stream[f] /\ snd_queue'[f] = snd_queue[f]
  BY <1>0, SendFacts
<1>7. \A f \in Endpoint :
         /\ Len(stream'[f]) \in Nat /\ Len(stream[f]) <= Len(stream'[f])
         /\ \A i \in 1..Len(stream[f]) : stream'[f][i] = stream[f][i]
         /\ \A sn \in Nat : sn < snd_nxt[f] => stream'[f][sn + 1] = stream[f][sn + 1]
  BY StreamGrows
<1>8. TypeOK'
  BY <1>0, <1>2, <1>3 DEF TypeOK, IsBuffer
<1>9. SendSide'
  <2> SUFFICES ASSUME NEW f \in Endpoint
               PROVE  /\ snd_nxt[f] + Len(snd_queue'[f]) = Len(stream'[f])
                      /\ \A i \in 1..Len(snd_queue'[f]) :
                            snd_queue'[f][i] = stream'[f][snd_nxt[f] + i]
                      /\ \A sn \in DOMAIN snd_buf[f] : snd_buf[f][sn] = stream'[f][sn + 1]
    BY <1>2 DEF SendSide
  <2>1. \A sn \in DOMAIN snd_buf[f] : snd_buf[f][sn] = stream'[f][sn + 1]
    <3> SUFFICES ASSUME NEW sn \in DOMAIN snd_buf[f]
                 PROVE  snd_buf[f][sn] = stream'[f][sn + 1]
      OBVIOUS
    <3>0. DOMAIN snd_buf[f] \subseteq Nat /\ snd_una[f] \in Nat /\ snd_nxt[f] \in Nat
      BY <1>0 DEF TypeOK, IsBuffer
    <3>1. sn \in Nat /\ sn < snd_nxt[f]
      BY <1>0, <3>0 DEF InFlight
    <3>2. snd_buf[f][sn] = stream[f][sn + 1]
      BY <1>0 DEF SendSide
    <3>3. stream'[f][sn + 1] = stream[f][sn + 1]
      BY <3>1, <1>7
    <3> QED BY <3>2, <3>3
  <2>2. CASE f # e
    <3>1. stream'[f] = stream[f] /\ snd_queue'[f] = snd_queue[f]
      BY <2>2, <1>6
    <3>2. /\ snd_nxt[f] + Len(snd_queue[f]) = Len(stream[f])
          /\ \A i \in 1..Len(snd_queue[f]) : snd_queue[f][i] = stream[f][snd_nxt[f] + i]
      BY <1>0 DEF SendSide
    <3> QED BY <2>1, <3>1, <3>2
  <2>3. CASE f = e
    <3> DEFINE q   == Len(snd_queue[e])
               len == Len(stream[e])
    <3>0. /\ q \in Nat /\ len \in Nat /\ snd_nxt[e] \in Nat
          /\ snd_nxt[e] + q = len
          /\ Len(snd_queue'[e]) = q + n
          /\ Len(stream'[e]) = len + n
      BY <1>4, Numbered
    <3> HIDE DEF q, len
    <3>1. \A i \in 1..Len(snd_queue[e]) : snd_queue[e][i] = stream[e][snd_nxt[e] + i]
      BY <1>0 DEF SendSide
    <3>2. snd_nxt[e] + Len(snd_queue'[e]) = Len(stream'[e])
      BY <3>0, <1>1
    <3>3. ASSUME NEW i \in 1..Len(snd_queue'[e])
          PROVE  snd_queue'[e][i] = stream'[e][snd_nxt[e] + i]
      <4>0. i \in 1..(q + n)
        BY <3>0, <3>3
      <4>1. CASE i <= q
        <5>1. i \in 1..q /\ snd_nxt[e] + i \in 1..len
          BY <4>0, <4>1, <3>0
        <5>2. stream'[e][snd_nxt[e] + i] = stream[e][snd_nxt[e] + i]
          BY <5>1, <1>7 DEF len
        <5> QED BY <5>1, <5>2, <3>1, <1>4 DEF q
      <4>2. CASE i > q
        <5> DEFINE j == i - q
        <5>1. j \in 1..n /\ i = q + j /\ snd_nxt[e] + i = len + j
          BY <4>0, <4>2, <3>0, <1>1
        <5> HIDE DEF j
        <5>2. snd_queue'[e][q + j] = stream'[e][len + j]
          BY <5>1, <1>5 DEF q, len
        <5> QED BY <5>1, <5>2
      <4> QED BY <4>0, <4>1, <4>2, <3>0
    <3> QED BY <2>1, <2>3, <3>2, <3>3
  <2> QED BY <2>2, <2>3
<1>10. ReceiveSide'
  <2> SUFFICES ASSUME NEW f \in Endpoint
               PROVE  /\ rcv_nxt[f] = Len(delivered[f]) + Len(rcv_queue[f])
                      /\ rcv_nxt[f] <= snd_nxt[Peer(f)]
                      /\ \A i \in 1..Len(rcv_queue[f]) :
                            rcv_queue[f][i] = stream'[Peer(f)][Len(delivered[f]) + i]
                      /\ \A sn \in DOMAIN rcv_buf[f] :
                            /\ sn < snd_nxt[Peer(f)]
                            /\ rcv_buf[f][sn] = stream'[Peer(f)][sn + 1]
                      /\ \A sn \in acklist[f] : Holds(f, sn)
    BY <1>2 DEF ReceiveSide, Holds
  <2> DEFINE d == Len(delivered[f])
             q == Len(rcv_queue[f])
             len == Len(stream[Peer(f)])
  <2>0. /\ Peer(f) \in Endpoint
        /\ d \in Nat /\ q \in Nat /\ len \in Nat
        /\ rcv_nxt[f] = d + q /\ rcv_nxt[f] <= snd_nxt[Peer(f)]
        /\ snd_nxt[Peer(f)] \in Nat /\ snd_nxt[Peer(f)] <= len
    BY Numbered
  <2> HIDE DEF d, q, len
  <2>1. ASSUME NEW i \in 1..Len(rcv_queue[f])
        PROVE  rcv_queue[f][i] = stream'[Peer(f)][Len(delivered[f]) + i]
    <3>1. d + i \in 1..len
      BY <2>0, <2>1 DEF q
    <3>2. rcv_queue[f][i] = stream[Peer(f)][Len(delivered[f]) + i]
      BY <1>0 DEF ReceiveSide
    <3> QED BY <2>0, <3>1, <3>2, <1>7 DEF d, len
  <2>2. ASSUME NEW sn \in DOMAIN rcv_buf[f]
        PROVE  rcv_buf[f][sn] = stream'[Peer(f)][sn + 1]
    <3>1. sn \in Nat /\ sn < snd_nxt[Peer(f)] /\ rcv_buf[f][sn] = stream[Peer(f)][sn + 1]
      BY <1>0 DEF ReceiveSide, TypeOK, IsBuffer
    <3> QED BY <2>0, <3>1, <1>7
  <2> QED BY <1>0, <2>1, <2>2 DEF ReceiveSide
<1>11. Framed'
  <2> SUFFICES ASSUME NEW f \in Endpoint, NEW i \in 1..Len(stream'[f])
               PROVE  /\ i + stream'[f][i].frg <= Len(stream'[f])
                      /\ \A j \in 0..stream'[f][i].frg :
                            stream'[f][i + j].frg = stream'[f][i].frg - j
    BY DEF Framed
  <2>0. /\ stream[f] \in Seq(Piece) /\ Len(stream[f]) \in Nat /\ Len(stream'[f]) \in Nat
        /\ Len(stream[f]) <= Len(stream'[f])
    BY <1>0, <1>7, Numbered DEF TypeOK
  <2>1. CASE i <= Len(stream[f])
    <3>1. i \in 1..Len(stream[f])
      BY <2>0, <2>1
    <3>2. stream'[f][i] = stream[f][i] /\ stream[f][i].frg \in Nat
      <4>1. stream[f][i] \in Piece
        BY <2>0, <3>1
      <4> QED BY <3>1, <4>1, <1>7 DEF Piece
    <3>3. /\ i + stream[f][i].frg <= Len(stream[f])
          /\ \A j \in 0..stream[f][i].frg : stream[f][i + j].frg = stream[f][i].frg - j
      BY <1>0, <3>1 DEF Framed
    <3>4. ASSUME NEW j \in 0..stream[f][i].frg
          PROVE  stream'[f][i + j].frg = stream[f][i].frg - j
      <4>1. i + j \in 1..Len(stream[f])
        BY <2>0, <3>1, <3>2, <3>3
      <4>2. stream'[f][i + j] = stream[f][i + j]
        BY <4>1, <1>7
      <4> QED BY <4>2, <3>3
    <3>5. i + stream[f][i].frg <= Len(stream'[f])
      BY <2>0, <3>1, <3>2, <3>3
    <3>6. stream'[f][i].frg = stream[f][i].frg
      BY <3>2
    <3> QED BY <3>2, <3>4, <3>5, <3>6
  <2>2. CASE i > Len(stream[f])
    <3>1. f = e
      BY <2>0, <2>2, <1>6
    <3> DEFINE len == Len(stream[e])
               k   == i - len
    <3>0. len \in Nat /\ Len(stream'[e]) = len + n /\ i \in 1..(len + n) /\ i > len
      BY <2>0, <2>2, <3>1, <1>4
    <3>2. k \in 1..n /\ i = len + k /\ len \in Nat /\ Len(stream'[e]) = len + n
      BY <3>0, <1>1
    <3> HIDE DEF k, len
    <3>3. ASSUME NEW m \in 1..n
          PROVE  stream'[e][len + m].frg = n - m
      <4>1. stream'[e][len + m] = [frg |-> n - m, data |-> len + m]
        BY <1>5 DEF len
      <4> QED BY <4>1
    <3>4. stream'[e][i].frg = n - k
      BY <3>2, <3>3
    <3>5. ASSUME NEW j \in 0..(n - k)
          PROVE  stream'[e][i + j].frg = (n - k) - j
      <4>1. k + j \in 1..n /\ i + j = len + (k + j) /\ n - (k + j) = (n - k) - j
        BY <3>2, <1>1
      <4> QED BY <4>1, <3>3
    <3>6. i + (n - k) <= Len(stream'[e])
      BY <3>2, <1>1
    <3> QED BY <3>1, <3>4, <3>5, <3>6
  <2> QED BY <2>0, <2>1, <2>2
<1>12. TruthfulNet'
  <2> SUFFICES ASSUME NEW p \in net
               PROVE  LET from == Peer(p.to)
                      IN  /\ p.una <= rcv_nxt[from]
                          /\ p.wnd <= RcvWnd
                          /\ p.cmd = "ACK" => Holds(from, p.sn)
                          /\ p.cmd = "PUSH" => /\ p.sn < snd_nxt[from]
                                               /\ p.body = stream'[from][p.sn + 1]
    BY <1>2 DEF TruthfulNet, Holds
  <2>1. p.sn \in Nat /\ Peer(p.to) \in Endpoint
    BY <1>0, PeerFacts DEF TypeOK, Packet
  <2> QED BY <1>0, <2>1, <1>7 DEF TruthfulNet
<1>13. KeptUntilHeld' /\ InFlight' /\ WithinWindow' /\ NoneStranded'
  BY <1>0, <1>2 DEF KeptUntilHeld, InFlight, WithinWindow, NoneStranded, Holds
<1>14. InOrder'
  <2> SUFFICES ASSUME NEW f \in Endpoint
               PROVE  /\ Len(delivered[f]) <= Len(stream'[Peer(f)])
                      /\ \A i \in 1..Len(delivered[f]) :
                            delivered[f][i] = stream'[Peer(f)][i]
                      /\ delivered[f] # <<>> => delivered[f][Len(delivered[f])].frg = 0
    BY <1>2 DEF InOrder
  <2>1. /\ Len(delivered[f]) <= Len(stream[Peer(f)])
        /\ \A i \in 1..Len(delivered[f]) : delivered[f][i] = stream[Peer(f)][i]
        /\ delivered[f] # <<>> => delivered[f][Len(delivered[f])].frg = 0
    BY <1>0 DEF InOrder
  <2>2. /\ Peer(f) \in Endpoint
        /\ Len(delivered[f]) \in Nat /\ Len(stream[Peer(f)]) \in Nat
    BY Numbered
  <2>3. /\ Len(stream'[Peer(f)]) \in Nat
        /\ Len(stream[Peer(f)]) <= Len(stream'[Peer(f)])
        /\ \A i \in 1..Len(stream[Peer(f)]) : stream'[Peer(f)][i] = stream[Peer(f)][i]
    BY <2>2, <1>7
  <2> QED BY <2>1, <2>2, <2>3
<1> QED BY <1>8, <1>9, <1>10, <1>11, <1>12, <1>13, <1>14 DEF IInv

-----------------------------------------------------------------------------
(* The moving loop keeps the receive side in order: from a queue and a     *)
(* buffer that agree with the peer's stream it makes a queue and a buffer  *)
(* that do, and forgets nothing.                                           *)
LEMMA MoveKeeps ==
  ASSUME IInv, NEW e \in Endpoint, NEW buf, IsBuffer(buf), NEW que \in Seq(Piece),
         NEW d \in Nat, MoveReady(e, buf, que),
         DOMAIN rcv_buf[e] \subseteq DOMAIN buf,
         \A sn \in DOMAIN buf : /\ rcv_nxt[e] <= sn /\ sn < rcv_nxt[e] + RcvWnd
                                /\ sn < snd_nxt[Peer(e)]
                                /\ buf[sn] = stream[Peer(e)][sn + 1],
         Len(que) <= RcvWnd, rcv_nxt[e] = d + Len(que),
         \A i \in 1..Len(que) : que[i] = stream[Peer(e)][d + i]
  PROVE  /\ rcv_nxt' \in [Endpoint -> Nat] /\ rcv_queue' \in [Endpoint -> Seq(Piece)]
         /\ DOMAIN rcv_buf' = Endpoint /\ IsBuffer(rcv_buf'[e])
         /\ \A f \in Endpoint : f # e => /\ rcv_nxt'[f] = rcv_nxt[f]
                                         /\ rcv_queue'[f] = rcv_queue[f]
                                         /\ rcv_buf'[f] = rcv_buf[f]
         /\ rcv_nxt[e] <= rcv_nxt'[e] /\ rcv_nxt'[e] <= snd_nxt[Peer(e)]
         /\ rcv_nxt'[e] = d + Len(rcv_queue'[e])
         /\ Len(rcv_queue'[e]) <= RcvWnd
         /\ \A i \in 1..Len(rcv_queue'[e]) : rcv_queue'[e][i] = stream[Peer(e)][d + i]
         /\ \A sn \in DOMAIN rcv_buf'[e] :
              /\ sn \in rcv_nxt'[e]..(rcv_nxt'[e] + RcvWnd - 1)
              /\ sn < snd_nxt[Peer(e)]
              /\ rcv_buf'[e][sn] = stream[Peer(e)][sn + 1]
         /\ rcv_nxt'[e] \in DOMAIN rcv_buf'[e] => Len(rcv_queue'[e]) = RcvWnd
         /\ \A sn \in DOMAIN buf : Holds(e, sn)'
         /\ \A sn \in Nat : Holds(e, sn) => Holds(e, sn)'
<1> DEFINE nxt == rcv_nxt[e]
           q   == Len(que)
           q2  == Len(rcv_queue'[e])
           top == snd_nxt[Peer(e)]
<1>0. TypeOK
  BY DEF IInv
<1>1. PICK m \in Nat :
           /\ rcv_nxt' = [rcv_nxt EXCEPT ![e] = nxt + m]
           /\ rcv_queue' \in [Endpoint -> Seq(Piece)]
           /\ q2 = q + m
           /\ \A i \in 1..q : rcv_queue'[e][i] = que[i]
           /\ \A i \in Nat : i < m =>
                 /\ rcv_queue'[e][q + i + 1] = buf[nxt + i]
                 /\ nxt + i \in DOMAIN buf
                 /\ q + i < RcvWnd
           /\ DOMAIN rcv_buf' = Endpoint
           /\ IsBuffer(rcv_buf'[e])
           /\ DOMAIN rcv_buf'[e] = DOMAIN buf \ (nxt..(nxt + m - 1))
           /\ \A k \in DOMAIN rcv_buf'[e] : rcv_buf'[e][k] = buf[k]
           /\ \A f \in Endpoint : f # e => /\ rcv_queue'[f] = rcv_queue[f]
                                           /\ rcv_buf'[f] = rcv_buf[f]
           /\ nxt + m \notin DOMAIN buf \/ q + m >= RcvWnd
  BY <1>0, MoveReadyFacts
<1>2. /\ nxt \in Nat /\ q \in Nat /\ top \in Nat /\ nxt = d + q /\ nxt <= top
      /\ q <= RcvWnd /\ RcvWnd \in Nat
  <2>1. nxt \in Nat /\ top \in Nat /\ nxt <= top
    BY Numbered
  <2>2. q \in Nat /\ RcvWnd \in Nat
    BY SizesAssumption
  <2> QED BY <2>1, <2>2
<1>3. /\ rcv_nxt' \in [Endpoint -> Nat] /\ rcv_nxt'[e] = nxt + m
      /\ \A f \in Endpoint : f # e => rcv_nxt'[f] = rcv_nxt[f]
  <2>1. rcv_nxt \in [Endpoint -> Nat] /\ rcv_nxt' = [rcv_nxt EXCEPT ![e] = nxt + m]
    BY <1>0, <1>1 DEF TypeOK
  <2>2. nxt + m \in Nat
    BY <1>2
  <2> HIDE DEF nxt
  <2> QED BY <2>1, <2>2
<1>4. DOMAIN buf \subseteq Nat
  BY DEF IsBuffer
<1>5. \A sn \in DOMAIN buf : /\ nxt <= sn /\ sn < nxt + RcvWnd /\ sn < top
                             /\ buf[sn] = stream[Peer(e)][sn + 1]
  OBVIOUS
<1>6. /\ q2 = q + m
      /\ \A i \in 1..q : rcv_queue'[e][i] = que[i]
      /\ \A i \in 1..q : que[i] = stream[Peer(e)][d + i]
  BY <1>1
<1>7. \A i \in Nat : i < m =>
         /\ rcv_queue'[e][q + i + 1] = buf[nxt + i]
         /\ nxt + i \in DOMAIN buf
         /\ q + i < RcvWnd
  BY <1>1
<1>8. /\ DOMAIN rcv_buf'[e] = DOMAIN buf \ (nxt..(nxt + m - 1))
      /\ \A k \in DOMAIN rcv_buf'[e] : rcv_buf'[e][k] = buf[k]
      /\ nxt + m \notin DOMAIN buf \/ q + m >= RcvWnd
  BY <1>1
<1> HIDE DEF nxt, q, q2, top
<1>9. nxt + m <= top /\ q2 <= RcvWnd
  <2>1. CASE m = 0
    BY <2>1, <1>2, <1>6
  <2>2. CASE m # 0
    <3>1. m - 1 \in Nat /\ m - 1 < m
      BY <2>2
    <3>2. nxt + (m - 1) \in DOMAIN buf /\ q + (m - 1) < RcvWnd
      BY <3>1, <1>7
    <3>3. nxt + (m - 1) < top
      BY <3>2, <1>5
    <3> QED BY <3>1, <3>2, <3>3, <1>2, <1>6
  <2> QED BY <2>1, <2>2
<1>10. ASSUME NEW i \in 1..q2
       PROVE  rcv_queue'[e][i] = stream[Peer(e)][d + i]
  <2>1. CASE i <= q
    <3>1. i \in 1..q
      BY <2>1, <1>2, <1>6
    <3> QED BY <3>1, <1>6
  <2>2. CASE i > q
    <3> DEFINE k == i - q - 1
    <3>1. k \in Nat /\ k < m /\ i = q + k + 1 /\ d + i = nxt + k + 1
      BY <2>2, <1>2, <1>6
    <3> HIDE DEF k
    <3>2. rcv_queue'[e][i] = buf[nxt + k] /\ nxt + k \in DOMAIN buf
      BY <3>1, <1>7
    <3> QED BY <3>1, <3>2, <1>5
  <2> QED BY <2>1, <2>2, <1>2, <1>6
<1>11. ASSUME NEW sn \in DOMAIN rcv_buf'[e]
       PROVE  /\ sn \in (nxt + m)..((nxt + m) + RcvWnd - 1)
              /\ sn < top
              /\ rcv_buf'[e][sn] = stream[Peer(e)][sn + 1]
  <2>1. sn \in DOMAIN buf /\ sn \notin nxt..(nxt + m - 1) /\ sn \in Nat
    BY <1>4, <1>8
  <2>2. nxt <= sn /\ sn < nxt + RcvWnd /\ sn < top /\ buf[sn] = stream[Peer(e)][sn + 1]
    BY <2>1, <1>5
  <2>3. sn \in (nxt + m)..((nxt + m) + RcvWnd - 1)
    BY <2>1, <2>2, <1>2
  <2> QED BY <2>2, <2>3, <1>8
<1>12. nxt + m \in DOMAIN rcv_buf'[e] => q2 = RcvWnd
  BY <1>2, <1>6, <1>8, <1>9
<1>13. ASSUME NEW sn \in DOMAIN buf
       PROVE  Holds(e, sn)'
  <2>1. sn \in Nat
    BY <1>4
  <2>2. sn \in DOMAIN rcv_buf'[e] \/ sn \in nxt..(nxt + m - 1)
    BY <1>8
  <2> QED BY <2>1, <2>2, <1>2, <1>3 DEF Holds
<1>14. ASSUME NEW sn \in Nat, Holds(e, sn)
       PROVE  Holds(e, sn)'
  <2>1. CASE sn < nxt
    BY <2>1, <1>2, <1>3 DEF Holds
  <2>2. CASE sn \in DOMAIN rcv_buf[e]
    BY <2>2, <1>13
  <2> QED BY <2>1, <2>2, <1>14 DEF Holds, nxt
<1>15. nxt <= nxt + m /\ nxt + m = d + q2
  BY <1>2, <1>6
<1> QED BY <1>1, <1>3, <1>9, <1>10, <1>11, <1>12, <1>13, <1>14, <1>15 DEF nxt, q2, top

(* In a framed stream the merge loop of ikcp_recv stops where the message  *)
(* ends: frg fragments after its first one.                                *)
LEMMA MessageEndIsFrame ==
  ASSUME IInv, NEW e \in Endpoint, Complete(rcv_queue[e])
  PROVE  LET que == rcv_queue[e]
         IN  /\ MessageEnd(que) = que[1].frg + 1
             /\ que[MessageEnd(que)].frg = 0
<1> DEFINE que == rcv_queue[e]
           frg == que[1].frg
           k   == MessageEnd(que)
           d   == Len(delivered[e])
           q   == Len(que)
           len == Len(stream[Peer(e)])
           s   == stream[Peer(e)]
<1>1. /\ que \in Seq(Piece) /\ que # <<>> /\ q >= frg + 1
  BY DEF IInv, TypeOK, Complete
<1>2. /\ k \in 1..q
      /\ \A i \in 1..q : que[i].frg = 0 => k <= i
      /\ k = q \/ que[k].frg = 0
  BY <1>1, MessageEndFacts
<1>3. /\ d \in Nat /\ q \in Nat /\ len \in Nat /\ Peer(e) \in Endpoint
      /\ rcv_nxt[e] = d + q /\ rcv_nxt[e] <= snd_nxt[Peer(e)]
      /\ snd_nxt[Peer(e)] \in Nat /\ snd_nxt[Peer(e)] <= len
  BY Numbered
<1>4. \A i \in 1..q : que[i] = s[d + i]
  BY DEF IInv, ReceiveSide
<1>5. \A i \in 1..len : /\ i + s[i].frg <= len
                        /\ \A j \in 0..s[i].frg : s[i + j].frg = s[i].frg - j
  BY <1>3 DEF IInv, Framed
<1> HIDE DEF que, k, d, q, len, s
<1>6. 1 \in 1..q /\ d + 1 \in 1..len
  BY <1>2, <1>3
<1>7. frg \in Nat
  <2>1. que[1] \in Piece
    BY <1>1, <1>6 DEF q
  <2> QED BY <2>1 DEF Piece
<1>8. que[1] = s[d + 1]
  BY <1>4, <1>6
<1> HIDE DEF frg
<1>9. \A j \in 0..frg : s[d + 1 + j].frg = frg - j
  BY <1>5, <1>6, <1>8 DEF frg
<1>10. ASSUME NEW j \in 0..frg
       PROVE  /\ 1 + j \in 1..q
              /\ que[1 + j].frg = frg - j
  <2>1. 1 + j \in 1..q /\ d + (1 + j) = d + 1 + j
    BY <1>1, <1>3, <1>7 DEF frg
  <2> QED BY <2>1, <1>4, <1>9
<1>11. 1 + frg \in 1..q /\ que[1 + frg].frg = 0
  <2>1. frg \in 0..frg /\ frg - frg = 0
    BY <1>7
  <2> QED BY <2>1, <1>10
<1>12. k <= 1 + frg
  BY <1>2, <1>11
<1>13. ~ (k < 1 + frg)
  <2> SUFFICES ASSUME k < 1 + frg PROVE FALSE
    OBVIOUS
  <2> DEFINE j == k - 1
  <2>1. j \in 0..frg /\ k = 1 + j /\ frg - j # 0 /\ k # q
    BY <1>2, <1>3, <1>7, <1>11
  <2> HIDE DEF j
  <2>2. que[k].frg = frg - j
    BY <2>1, <1>10
  <2> QED BY <2>1, <2>2, <1>2
<1>14. k = 1 + frg
  BY <1>2, <1>3, <1>7, <1>12, <1>13
<1> QED BY <1>7, <1>11, <1>14 DEF que, k, frg

(* ikcp_recv: a whole message leaves rcv_queue for the program, and what   *)
(* waits in rcv_buf moves up.                                              *)
LEMMA RecvStep ==
  ASSUME IInv, NEW e \in Endpoint, Recv(e)
  PROVE  IInv'
<1> DEFINE que  == rcv_queue[e]
           k    == MessageEnd(que)
           rest == SubSeq(que, k + 1, Len(que))
           d    == Len(delivered[e])
           d2   == Len(delivered'[e])
           q    == Len(que)
<1>0. /\ TypeOK /\ SendSide /\ ReceiveSide /\ Framed /\ TruthfulNet
      /\ KeptUntilHeld /\ InFlight /\ WithinWindow /\ NoneStranded /\ InOrder
  BY DEF IInv
<1>1. UNCHANGED <<stream, snd_queue, snd_buf, snd_una, snd_nxt, rmt_wnd, probe_wait,
                  acklist, net>>
  BY DEF Recv, sndVars
<1>2. /\ Complete(que) /\ k \in 1..q
      /\ delivered' \in [Endpoint -> Seq(Piece)]
      /\ d2 = d + k
      /\ \A i \in 1..d : delivered'[e][i] = delivered[e][i]
      /\ \A i \in 1..k : delivered'[e][d + i] = que[i]
      /\ \A f \in Endpoint : f # e => delivered'[f] = delivered[f]
      /\ rest \in Seq(Piece) /\ Len(rest) = q - k
      /\ \A i \in 1..(q - k) : rest[i] = que[k + i]
      /\ MoveReady(e, rcv_buf[e], rest)
  BY <1>0, RecvFacts
<1>3. /\ d \in Nat /\ q \in Nat /\ Peer(e) \in Endpoint
      /\ rcv_nxt[e] = d + q /\ rcv_nxt[e] \in Nat
  BY Numbered
<1>4. /\ q <= RcvWnd /\ RcvWnd \in Nat
      /\ DOMAIN rcv_buf[e] \subseteq rcv_nxt[e]..(rcv_nxt[e] + RcvWnd - 1)
      /\ IsBuffer(rcv_buf[e])
  BY <1>0, SizesAssumption DEF WithinWindow, TypeOK
<1>5. /\ \A i \in 1..q : que[i] = stream[Peer(e)][d + i]
      /\ \A sn \in DOMAIN rcv_buf[e] : /\ sn < snd_nxt[Peer(e)]
                                       /\ rcv_buf[e][sn] = stream[Peer(e)][sn + 1]
  BY <1>0 DEF ReceiveSide
<1>6. que[k].frg = 0
  BY <1>2, MessageEndIsFrame
<1>7. k \in Nat
  BY <1>2, <1>3
<1> HIDE DEF que, k, rest, d, d2, q
<1>8. d2 \in Nat /\ Len(rest) <= RcvWnd /\ rcv_nxt[e] = d2 + Len(rest)
  BY <1>2, <1>3, <1>4, <1>7
<1>9. ASSUME NEW i \in 1..Len(rest)
      PROVE  rest[i] = stream[Peer(e)][d2 + i]
  <2>1. i \in 1..(q - k) /\ k + i \in 1..q /\ d2 + i = d + (k + i)
    BY <1>2, <1>3, <1>7
  <2> QED BY <2>1, <1>2, <1>5
<1>10. \A sn \in DOMAIN rcv_buf[e] : /\ rcv_nxt[e] <= sn /\ sn < rcv_nxt[e] + RcvWnd
                                     /\ sn < snd_nxt[Peer(e)]
                                     /\ rcv_buf[e][sn] = stream[Peer(e)][sn + 1]
  BY <1>3, <1>4, <1>5
<1>11. /\ rcv_nxt' \in [Endpoint -> Nat] /\ rcv_queue' \in [Endpoint -> Seq(Piece)]
       /\ DOMAIN rcv_buf' = Endpoint /\ IsBuffer(rcv_buf'[e])
       /\ \A f \in Endpoint : f # e => /\ rcv_nxt'[f] = rcv_nxt[f]
                                       /\ rcv_queue'[f] = rcv_queue[f]
                                       /\ rcv_buf'[f] = rcv_buf[f]
       /\ rcv_nxt[e] <= rcv_nxt'[e] /\ rcv_nxt'[e] <= snd_nxt[Peer(e)]
       /\ rcv_nxt'[e] = d2 + Len(rcv_queue'[e])
       /\ Len(rcv_queue'[e]) <= RcvWnd
       /\ \A i \in 1..Len(rcv_queue'[e]) : rcv_queue'[e][i] = stream[Peer(e)][d2 + i]
       /\ \A sn \in DOMAIN rcv_buf'[e] :
            /\ sn \in rcv_nxt'[e]..(rcv_nxt'[e] + RcvWnd - 1)
            /\ sn < snd_nxt[Peer(e)]
            /\ rcv_buf'[e][sn] = stream[Peer(e)][sn + 1]
       /\ rcv_nxt'[e] \in DOMAIN rcv_buf'[e] => Len(rcv_queue'[e]) = RcvWnd
       /\ \A sn \in DOMAIN rcv_buf[e] : Holds(e, sn)'
       /\ \A sn \in Nat : Holds(e, sn) => Holds(e, sn)'
  <2>1. rest \in Seq(Piece) /\ MoveReady(e, rcv_buf[e], rest) /\ IsBuffer(rcv_buf[e])
    BY <1>2, <1>4
  <2>2. DOMAIN rcv_buf[e] \subseteq DOMAIN rcv_buf[e]
    OBVIOUS
  <2> QED BY <2>1, <2>2, <1>8, <1>9, <1>10, MoveKeeps
<1>12. TypeOK'
  <2>1. probe' \in [Endpoint -> SUBSET {"SEND", "TELL"}]
    BY <1>0 DEF Recv, TypeOK
  <2>2. \A f \in Endpoint : IsBuffer(rcv_buf'[f])
    BY <1>0, <1>11 DEF TypeOK
  <2>3. \A f \in Endpoint : IsBuffer(snd_buf'[f])
    BY <1>0, <1>1 DEF TypeOK
  <2> QED BY <1>0, <1>1, <1>2, <1>11, <2>1, <2>2, <2>3 DEF TypeOK, IsBuffer
<1>13. \A f \in Endpoint : \A sn \in Nat : Holds(f, sn) => Holds(f, sn)'
  BY <1>11 DEF Holds
<1>14. SendSide' /\ Framed' /\ InFlight'
  BY <1>0, <1>1 DEF SendSide, Framed, InFlight
<1>15. ReceiveSide'
  <2> SUFFICES ASSUME NEW f \in Endpoint
               PROVE  /\ rcv_nxt'[f] = Len(delivered'[f]) + Len(rcv_queue'[f])
                      /\ rcv_nxt'[f] <= snd_nxt[Peer(f)]
                      /\ \A i \in 1..Len(rcv_queue'[f]) :
                            rcv_queue'[f][i] = stream[Peer(f)][Len(delivered'[f]) + i]
                      /\ \A sn \in DOMAIN rcv_buf'[f] :
                            /\ sn < snd_nxt[Peer(f)]
                            /\ rcv_buf'[f][sn] = stream[Peer(f)][sn + 1]
                      /\ \A sn \in acklist[f] : Holds(f, sn)'
    BY <1>1 DEF ReceiveSide, Holds
  <2>1. \A sn \in acklist[f] : Holds(f, sn)'
    <3>1. \A sn \in acklist[f] : sn \in Nat /\ Holds(f, sn)
      BY <1>0 DEF ReceiveSide, TypeOK
    <3> QED BY <3>1, <1>13
  <2>2. CASE f = e
    BY <2>1, <2>2, <1>11 DEF d2
  <2>3. CASE f # e
    <3>1. /\ rcv_nxt'[f] = rcv_nxt[f] /\ rcv_queue'[f] = rcv_queue[f]
          /\ rcv_buf'[f] = rcv_buf[f] /\ delivered'[f] = delivered[f]
      BY <2>3, <1>2, <1>11
    <3>2. /\ rcv_nxt[f] = Len(delivered[f]) + Len(rcv_queue[f])
          /\ rcv_nxt[f] <= snd_nxt[Peer(f)]
          /\ \A i \in 1..Len(rcv_queue[f]) :
                rcv_queue[f][i] = stream[Peer(f)][Len(delivered[f]) + i]
          /\ \A sn \in DOMAIN rcv_buf[f] : /\ sn < snd_nxt[Peer(f)]
                                            /\ rcv_buf[f][sn] = stream[Peer(f)][sn + 1]
      BY <1>0 DEF ReceiveSide
    <3> QED BY <2>1, <3>1, <3>2
  <2> QED BY <2>2, <2>3
<1>16. TruthfulNet'
  <2> SUFFICES ASSUME NEW p \in net
               PROVE  LET from == Peer(p.to)
                      IN  /\ p.una <= rcv_nxt'[from]
                          /\ p.wnd <= RcvWnd
                          /\ p.cmd = "ACK" => Holds(from, p.sn)'
                          /\ p.cmd = "PUSH" => /\ p.sn < snd_nxt[from]
                                               /\ p.body = stream[from][p.sn + 1]
    BY <1>1 DEF TruthfulNet, Holds
  <2>1. p.sn \in Nat /\ p.una \in Nat /\ Peer(p.to) \in Endpoint
    BY <1>0, PeerFacts DEF TypeOK, Packet
  <2>2. /\ p.una <= rcv_nxt[Peer(p.to)] /\ p.wnd <= RcvWnd
        /\ p.cmd = "ACK" => Holds(Peer(p.to), p.sn)
        /\ p.cmd = "PUSH" => /\ p.sn < snd_nxt[Peer(p.to)]
                             /\ p.body = stream[Peer(p.to)][p.sn + 1]
    BY <1>0 DEF TruthfulNet
  <2>3. rcv_nxt[Peer(p.to)] <= rcv_nxt'[Peer(p.to)]
        /\ rcv_nxt[Peer(p.to)] \in Nat /\ rcv_nxt'[Peer(p.to)] \in Nat
    <3> DEFINE from == Peer(p.to)
    <3>1. from \in Endpoint /\ rcv_nxt[from] \in Nat /\ rcv_nxt'[from] \in Nat
      BY <2>1, <1>0, <1>11 DEF TypeOK
    <3>2. rcv_nxt[from] <= rcv_nxt'[from]
      BY <3>1, <1>11
    <3> QED BY <3>1, <3>2
  <2> QED BY <2>1, <2>2, <2>3, <1>13
<1>17. KeptUntilHeld'
  <2> SUFFICES ASSUME NEW f \in Endpoint, NEW sn \in 0..(snd_nxt[f] - 1)
               PROVE  sn \in DOMAIN snd_buf[f] \/ Holds(Peer(f), sn)'
    BY <1>1 DEF KeptUntilHeld, Holds
  <2>1. sn \in DOMAIN snd_buf[f] \/ Holds(Peer(f), sn)
    BY <1>0 DEF KeptUntilHeld
  <2> QED BY <2>1, <1>13, PeerFacts, Numbered
<1>18. WithinWindow' /\ NoneStranded'
  <2> SUFFICES ASSUME NEW f \in Endpoint
               PROVE  /\ Len(rcv_queue'[f]) <= RcvWnd
                      /\ DOMAIN rcv_buf'[f] \subseteq rcv_nxt'[f]..(rcv_nxt'[f] + RcvWnd - 1)
                      /\ rcv_nxt'[f] \in DOMAIN rcv_buf'[f] => Len(rcv_queue'[f]) = RcvWnd
    BY DEF WithinWindow, NoneStranded
  <2>1. CASE f = e
    BY <2>1, <1>11
  <2>2. CASE f # e
    BY <2>2, <1>0, <1>11 DEF WithinWindow, NoneStranded
  <2> QED BY <2>1, <2>2
<1>19. InOrder'
  <2> SUFFICES ASSUME NEW f \in Endpoint
               PROVE  /\ Len(delivered'[f]) <= Len(stream[Peer(f)])
                      /\ \A i \in 1..Len(delivered'[f]) :
                            delivered'[f][i] = stream[Peer(f)][i]
                      /\ delivered'[f] # <<>> => delivered'[f][Len(delivered'[f])].frg = 0
    BY <1>1 DEF InOrder
  <2>1. CASE f = e
    <3> DEFINE len == Len(stream[Peer(e)])
    <3>1. len \in Nat /\ rcv_nxt[e] <= len
      <4>1. /\ len \in Nat /\ snd_nxt[Peer(e)] \in Nat
            /\ rcv_nxt[e] <= snd_nxt[Peer(e)] /\ snd_nxt[Peer(e)] <= len
        BY <1>3, Numbered
      <4> HIDE DEF len
      <4> QED BY <4>1, <1>3
    <3>2. \A i \in 1..d : delivered[e][i] = stream[Peer(e)][i]
      BY <1>0 DEF InOrder, d
    <3> HIDE DEF len
    <3>3. d2 <= len
      BY <3>1, <1>2, <1>3, <1>7
    <3>4. ASSUME NEW i \in 1..d2
          PROVE  delivered'[e][i] = stream[Peer(e)][i]
      <4>1. CASE i <= d
        BY <4>1, <3>2, <1>2, <1>3
      <4>2. CASE i > d
        <5> DEFINE j == i - d
        <5>1. j \in 1..k /\ j \in 1..q /\ i = d + j
          BY <4>2, <1>2, <1>3, <1>7
        <5> HIDE DEF j
        <5> QED BY <5>1, <1>2, <1>5
      <4> QED BY <4>1, <4>2, <1>3
    <3>5. delivered'[e][d2].frg = 0
      <4>1. k \in 1..k /\ d2 = d + k
        BY <1>2, <1>7
      <4> QED BY <4>1, <1>2, <1>6
    <3> QED BY <2>1, <3>3, <3>4, <3>5 DEF d2, len
  <2>2. CASE f # e
    BY <2>2, <1>0, <1>2 DEF InOrder
  <2> QED BY <2>1, <2>2
<1> QED BY <1>12, <1>14, <1>15, <1>16, <1>17, <1>18, <1>19 DEF IInv

-----------------------------------------------------------------------------
(* What every segment does to the send side when it arrives: what leaves   *)
(* snd_buf is held by the peer, because the segment tells the truth.       *)
LEMMA InputCommon ==
  ASSUME IInv, NEW e \in Endpoint, NEW p, Take(e, p), Acknowledge(e, p)
  PROVE  /\ p \in Packet /\ p \in net /\ p.to = e /\ net' \subseteq net
         /\ snd_queue' = snd_queue /\ snd_nxt' = snd_nxt
         /\ rmt_wnd' \in [Endpoint -> Nat] /\ snd_una' \in [Endpoint -> Nat]
         /\ DOMAIN snd_buf' = Endpoint /\ \A f \in Endpoint : IsBuffer(snd_buf'[f])
         /\ \A f \in Endpoint : \A sn \in DOMAIN snd_buf'[f] :
               sn \in DOMAIN snd_buf[f] /\ snd_buf'[f][sn] = snd_buf[f][sn]
         /\ \A f \in Endpoint : \A sn \in 0..(snd_nxt[f] - 1) :
               sn \in DOMAIN snd_buf'[f] \/ Holds(Peer(f), sn)
         /\ InFlight'
         /\ \A f \in Endpoint : snd_una[f] <= snd_una'[f]
<1>0. /\ TypeOK /\ TruthfulNet /\ KeptUntilHeld /\ InFlight
  BY DEF IInv
<1>1. p \in net /\ p.to = e /\ net' \subseteq net
  BY DEF Take
<1>2. p \in Packet
  BY <1>0, <1>1 DEF TypeOK
<1>3. /\ rmt_wnd' \in [Endpoint -> Nat]
      /\ snd_una' \in [Endpoint -> Nat]
      /\ snd_queue' = snd_queue /\ snd_nxt' = snd_nxt
      /\ DOMAIN snd_buf' = Endpoint /\ IsBuffer(snd_buf'[e])
      /\ DOMAIN snd_buf'[e] = Unacked(e, p)
      /\ \A sn \in DOMAIN snd_buf'[e] : snd_buf'[e][sn] = snd_buf[e][sn]
      /\ \A f \in Endpoint : f # e => snd_buf'[f] = snd_buf[f] /\ snd_una'[f] = snd_una[f]
      /\ snd_una[e] <= snd_una'[e]
      /\ InFlight'
  BY <1>0, <1>2, AcknowledgeFacts
<1>4. \A f \in Endpoint : IsBuffer(snd_buf'[f])
  BY <1>0, <1>3 DEF TypeOK
<1>5. \A f \in Endpoint : \A sn \in DOMAIN snd_buf'[f] :
         sn \in DOMAIN snd_buf[f] /\ snd_buf'[f][sn] = snd_buf[f][sn]
  BY <1>3 DEF Unacked
<1>6. ASSUME NEW f \in Endpoint, NEW sn \in 0..(snd_nxt[f] - 1)
      PROVE  sn \in DOMAIN snd_buf'[f] \/ Holds(Peer(f), sn)
  <2>1. sn \in DOMAIN snd_buf[f] \/ Holds(Peer(f), sn)
    BY <1>0 DEF KeptUntilHeld
  <2>2. CASE f # e
    BY <2>1, <2>2, <1>3
  <2>3. CASE f = e /\ sn \in DOMAIN snd_buf[f]
    <3>1. CASE sn \in Unacked(e, p)
      BY <2>3, <3>1, <1>3
    <3>2. CASE p.cmd = "ACK" /\ sn = p.sn
      BY <2>3, <3>2, <1>0, <1>1 DEF TruthfulNet
    <3>3. CASE ~ (sn >= p.una)
      <4>1. p.una <= rcv_nxt[Peer(e)]
        BY <1>0, <1>1 DEF TruthfulNet
      <4>2. sn \in Nat /\ p.una \in Nat /\ rcv_nxt[Peer(e)] \in Nat
        <5>1. sn \in Nat
          BY <2>3, <1>0 DEF TypeOK, IsBuffer
        <5>2. Peer(e) \in Endpoint /\ rcv_nxt[Peer(e)] \in Nat
          BY PeerFacts, Numbered
        <5> QED BY <5>1, <5>2, <1>2 DEF Packet
      <4> QED BY <2>3, <3>3, <4>1, <4>2 DEF Holds
    <3> QED BY <2>3, <3>1, <3>2, <3>3 DEF Unacked
  <2> QED BY <2>1, <2>2, <2>3
<1>7. ASSUME NEW f \in Endpoint
      PROVE  snd_una[f] <= snd_una'[f]
  <2>1. snd_una[f] \in Nat
    BY <1>0 DEF TypeOK
  <2>2. f = e \/ snd_una'[f] = snd_una[f]
    BY <1>3
  <2> QED BY <2>1, <2>2, <1>3
<1> QED BY <1>1, <1>2, <1>3, <1>4, <1>5, <1>6, <1>7

(* A step that leaves alone what ReceiveSide is about preserves it.        *)
LEMMA SameReceiveSide ==
  ASSUME ReceiveSide, stream' = stream, delivered' = delivered, snd_nxt' = snd_nxt,
         rcv_nxt' = rcv_nxt, rcv_buf' = rcv_buf, rcv_queue' = rcv_queue, acklist' = acklist
  PROVE  ReceiveSide'
<1> SUFFICES ASSUME NEW e \in Endpoint
             PROVE  /\ rcv_nxt[e] = Len(delivered[e]) + Len(rcv_queue[e])
                    /\ rcv_nxt[e] <= snd_nxt[Peer(e)]
                    /\ \A i \in 1..Len(rcv_queue[e]) :
                          rcv_queue[e][i] = stream[Peer(e)][Len(delivered[e]) + i]
                    /\ \A sn \in DOMAIN rcv_buf[e] :
                          /\ sn < snd_nxt[Peer(e)]
                          /\ rcv_buf[e][sn] = stream[Peer(e)][sn + 1]
                    /\ \A sn \in acklist[e] : Holds(e, sn)
  BY DEF ReceiveSide, Holds
<1> QED BY DEF ReceiveSide

(* ikcp_input of an ACK, a WASK or a WINS touches the send side alone.     *)
LEMMA InputControlStep ==
  ASSUME IInv, NEW e \in Endpoint, NEW p, Take(e, p), Acknowledge(e, p),
         UNCHANGED <<stream, delivered, rcv_nxt, rcv_buf, rcv_queue, probe_wait, acklist>>,
         probe' \in [Endpoint -> SUBSET {"SEND", "TELL"}]
  PROVE  IInv'
<1>0. /\ TypeOK /\ SendSide /\ ReceiveSide /\ Framed /\ TruthfulNet
      /\ KeptUntilHeld /\ InFlight /\ WithinWindow /\ NoneStranded /\ InOrder
  BY DEF IInv
<1>1. UNCHANGED <<stream, delivered, rcv_nxt, rcv_buf, rcv_queue, probe_wait, acklist>>
  OBVIOUS
<1>2. /\ net' \subseteq net
      /\ snd_queue' = snd_queue /\ snd_nxt' = snd_nxt
      /\ rmt_wnd' \in [Endpoint -> Nat] /\ snd_una' \in [Endpoint -> Nat]
      /\ DOMAIN snd_buf' = Endpoint /\ \A f \in Endpoint : IsBuffer(snd_buf'[f])
      /\ \A f \in Endpoint : \A sn \in DOMAIN snd_buf'[f] :
            sn \in DOMAIN snd_buf[f] /\ snd_buf'[f][sn] = snd_buf[f][sn]
      /\ \A f \in Endpoint : \A sn \in 0..(snd_nxt[f] - 1) :
            sn \in DOMAIN snd_buf'[f] \/ Holds(Peer(f), sn)
      /\ InFlight'
  BY InputCommon
<1>3. TypeOK'
  BY <1>0, <1>1, <1>2 DEF TypeOK, IsBuffer
<1>4. SendSide'
  <2>1. snd_nxt' = snd_nxt /\ snd_queue' = snd_queue /\ stream' = stream
    BY <1>1, <1>2
  <2>2. \A f \in Endpoint : \A sn \in DOMAIN snd_buf'[f] : snd_buf'[f][sn] = stream[f][sn + 1]
    BY <1>0, <1>2 DEF SendSide
  <2> QED BY <1>0, <2>1, <2>2 DEF SendSide
<1>5. ReceiveSide' /\ Framed' /\ WithinWindow' /\ NoneStranded' /\ InOrder'
  <2>1. UNCHANGED <<stream, delivered, snd_nxt, rcv_nxt, rcv_buf, rcv_queue, acklist>>
    BY <1>1, <1>2
  <2>2. ReceiveSide'
    <3>1. /\ stream' = stream /\ delivered' = delivered /\ snd_nxt' = snd_nxt
          /\ rcv_nxt' = rcv_nxt /\ rcv_buf' = rcv_buf /\ rcv_queue' = rcv_queue
          /\ acklist' = acklist
      BY <2>1
    <3> QED BY <1>0, <3>1, SameReceiveSide
  <2>3. Framed' /\ InOrder'
    BY <1>0, <1>1 DEF Framed, InOrder
  <2>4. WithinWindow' /\ NoneStranded'
    BY <1>0, <1>1 DEF WithinWindow, NoneStranded
  <2> QED BY <2>2, <2>3, <2>4
<1>6. TruthfulNet'
  BY <1>0, <1>1, <1>2 DEF TruthfulNet, Holds
<1>7. KeptUntilHeld'
  BY <1>1, <1>2 DEF KeptUntilHeld, Holds
<1> QED BY <1>2, <1>3, <1>4, <1>5, <1>6, <1>7 DEF IInv

(* A PUSH that is stored carries the fragment of its number, so rcv_buf    *)
(* still agrees with the peer's stream.                                    *)
LEMMA StoreFacts ==
  ASSUME IInv, NEW e \in Endpoint, NEW p \in net, p.to = e, p.cmd = "PUSH",
         p.sn \in rcv_nxt[e]..(rcv_nxt[e] + RcvWnd - 1)
  PROVE  LET buf == Store(rcv_buf[e], p.sn, p.body)
         IN  /\ IsBuffer(buf)
             /\ DOMAIN buf = DOMAIN rcv_buf[e] \cup {p.sn}
             /\ \A sn \in DOMAIN buf : /\ rcv_nxt[e] <= sn /\ sn < rcv_nxt[e] + RcvWnd
                                       /\ sn < snd_nxt[Peer(e)]
                                       /\ buf[sn] = stream[Peer(e)][sn + 1]
<1> DEFINE buf == Store(rcv_buf[e], p.sn, p.body)
<1>1. p \in Packet /\ IsBuffer(rcv_buf[e]) /\ rcv_nxt[e] \in Nat /\ RcvWnd \in Nat
  BY SizesAssumption DEF IInv, TypeOK
<1>2. p.sn \in Nat /\ p.body \in Piece
  BY <1>1 DEF Packet
<1>3. p.sn < snd_nxt[Peer(e)] /\ p.body = stream[Peer(e)][p.sn + 1]
  BY DEF IInv, TruthfulNet
<1>4. /\ DOMAIN rcv_buf[e] \subseteq rcv_nxt[e]..(rcv_nxt[e] + RcvWnd - 1)
      /\ \A sn \in DOMAIN rcv_buf[e] : /\ sn < snd_nxt[Peer(e)]
                                       /\ rcv_buf[e][sn] = stream[Peer(e)][sn + 1]
  BY DEF IInv, WithinWindow, ReceiveSide
<1>5. /\ DOMAIN buf = DOMAIN rcv_buf[e] \cup {p.sn}
      /\ \A sn \in DOMAIN rcv_buf[e] : buf[sn] = rcv_buf[e][sn]
      /\ p.sn \notin DOMAIN rcv_buf[e] => buf[p.sn] = p.body
      /\ buf = [sn \in DOMAIN buf |-> buf[sn]]
  BY DEF Store
<1> HIDE DEF buf
<1>6. \A sn \in DOMAIN buf : buf[sn] \in Piece
  BY <1>1, <1>2, <1>5 DEF IsBuffer
<1>7. IsBuffer(buf)
  BY <1>1, <1>2, <1>5, <1>6 DEF IsBuffer
<1>8. ASSUME NEW sn \in DOMAIN buf
      PROVE  /\ rcv_nxt[e] <= sn /\ sn < rcv_nxt[e] + RcvWnd
             /\ sn < snd_nxt[Peer(e)]
             /\ buf[sn] = stream[Peer(e)][sn + 1]
  <2>1. sn \in rcv_nxt[e]..(rcv_nxt[e] + RcvWnd - 1)
    BY <1>4, <1>5
  <2>2. sn < snd_nxt[Peer(e)] /\ buf[sn] = stream[Peer(e)][sn + 1]
    BY <1>3, <1>4, <1>5
  <2> QED BY <2>1, <2>2, <1>1
<1> QED BY <1>5, <1>7, <1>8 DEF buf


(* ikcp_input of a PUSH: on the receive side the segment is stored, or it  *)
(* is ignored, and it is acknowledged only if it has been received.        *)
LEMMA InputPushStep ==
  ASSUME IInv, NEW e \in Endpoint, NEW p, InputPush(e, p)
  PROVE  IInv'
<1> DEFINE in == p.sn \in rcv_nxt[e]..(rcv_nxt[e] + RcvWnd - 1)
           d  == Len(delivered[e])
           q  == Len(rcv_queue[e])
<1>0. /\ TypeOK /\ SendSide /\ ReceiveSide /\ Framed /\ TruthfulNet
      /\ KeptUntilHeld /\ InFlight /\ WithinWindow /\ NoneStranded /\ InOrder
  BY DEF IInv
<1>1. /\ UNCHANGED <<stream, delivered, probe, probe_wait>>
      /\ Take(e, p) /\ Acknowledge(e, p) /\ p.cmd = "PUSH"
      /\ acklist' = [acklist EXCEPT ![e] =
                        IF p.sn < rcv_nxt[e] + RcvWnd THEN acklist[e] \cup {p.sn}
                        ELSE acklist[e]]
      /\ in => MoveReady(e, Store(rcv_buf[e], p.sn, p.body), rcv_queue[e])
      /\ ~in => UNCHANGED <<rcv_nxt, rcv_buf, rcv_queue>>
  BY <1>0 DEF InputPush, TypeOK, rcvVars
<1>2. /\ p \in Packet /\ p \in net /\ p.to = e /\ net' \subseteq net
      /\ snd_queue' = snd_queue /\ snd_nxt' = snd_nxt
      /\ rmt_wnd' \in [Endpoint -> Nat] /\ snd_una' \in [Endpoint -> Nat]
      /\ DOMAIN snd_buf' = Endpoint /\ \A f \in Endpoint : IsBuffer(snd_buf'[f])
      /\ \A f \in Endpoint : \A sn \in DOMAIN snd_buf'[f] :
            sn \in DOMAIN snd_buf[f] /\ snd_buf'[f][sn] = snd_buf[f][sn]
      /\ \A f \in Endpoint : \A sn \in 0..(snd_nxt[f] - 1) :
            sn \in DOMAIN snd_buf'[f] \/ Holds(Peer(f), sn)
      /\ InFlight'
  BY <1>1, InputCommon
<1>3. /\ d \in Nat /\ q \in Nat /\ Peer(e) \in Endpoint /\ rcv_nxt[e] = d + q
      /\ p.sn \in Nat /\ RcvWnd \in Nat
  BY <1>2, Numbered, SizesAssumption DEF Packet
<1>4. /\ q <= RcvWnd /\ rcv_queue[e] \in Seq(Piece)
      /\ \A i \in 1..q : rcv_queue[e][i] = stream[Peer(e)][d + i]
  BY <1>0 DEF WithinWindow, ReceiveSide, TypeOK
<1> HIDE DEF in, d, q
(* What is true of e's receive side whether the segment is stored or not.  *)
<1>5. /\ rcv_nxt' \in [Endpoint -> Nat] /\ rcv_queue' \in [Endpoint -> Seq(Piece)]
      /\ DOMAIN rcv_buf' = Endpoint /\ IsBuffer(rcv_buf'[e])
      /\ \A f \in Endpoint : f # e => /\ rcv_nxt'[f] = rcv_nxt[f]
                                      /\ rcv_queue'[f] = rcv_queue[f]
                                      /\ rcv_buf'[f] = rcv_buf[f]
      /\ rcv_nxt[e] <= rcv_nxt'[e] /\ rcv_nxt'[e] <= snd_nxt[Peer(e)]
      /\ rcv_nxt'[e] = d + Len(rcv_queue'[e])
      /\ Len(rcv_queue'[e]) <= RcvWnd
      /\ \A i \in 1..Len(rcv_queue'[e]) : rcv_queue'[e][i] = stream[Peer(e)][d + i]
      /\ \A sn \in DOMAIN rcv_buf'[e] :
           /\ sn \in rcv_nxt'[e]..(rcv_nxt'[e] + RcvWnd - 1)
           /\ sn < snd_nxt[Peer(e)]
           /\ rcv_buf'[e][sn] = stream[Peer(e)][sn + 1]
      /\ rcv_nxt'[e] \in DOMAIN rcv_buf'[e] => Len(rcv_queue'[e]) = RcvWnd
      /\ p.sn < rcv_nxt[e] + RcvWnd => Holds(e, p.sn)'
      /\ \A sn \in Nat : Holds(e, sn) => Holds(e, sn)'
  <2>1. CASE in
    <3> DEFINE buf == Store(rcv_buf[e], p.sn, p.body)
    <3>1. p.sn \in rcv_nxt[e]..(rcv_nxt[e] + RcvWnd - 1)
      BY <2>1 DEF in
    <3>2. /\ IsBuffer(buf)
          /\ DOMAIN buf = DOMAIN rcv_buf[e] \cup {p.sn}
          /\ \A sn \in DOMAIN buf : /\ rcv_nxt[e] <= sn /\ sn < rcv_nxt[e] + RcvWnd
                                    /\ sn < snd_nxt[Peer(e)]
                                    /\ buf[sn] = stream[Peer(e)][sn + 1]
      BY <1>1, <1>2, <3>1, StoreFacts
    <3>3. MoveReady(e, buf, rcv_queue[e])
      BY <1>1, <2>1
    <3>4. DOMAIN rcv_buf[e] \subseteq DOMAIN buf /\ p.sn \in DOMAIN buf
      BY <3>2
    <3> HIDE DEF buf
    <3>5. /\ Len(rcv_queue[e]) <= RcvWnd /\ rcv_nxt[e] = d + Len(rcv_queue[e])
          /\ \A i \in 1..Len(rcv_queue[e]) : rcv_queue[e][i] = stream[Peer(e)][d + i]
      BY <1>3, <1>4 DEF q
    <3>6. /\ rcv_nxt' \in [Endpoint -> Nat] /\ rcv_queue' \in [Endpoint -> Seq(Piece)]
          /\ DOMAIN rcv_buf' = Endpoint /\ IsBuffer(rcv_buf'[e])
          /\ \A f \in Endpoint : f # e => /\ rcv_nxt'[f] = rcv_nxt[f]
                                          /\ rcv_queue'[f] = rcv_queue[f]
                                          /\ rcv_buf'[f] = rcv_buf[f]
          /\ rcv_nxt[e] <= rcv_nxt'[e] /\ rcv_nxt'[e] <= snd_nxt[Peer(e)]
          /\ rcv_nxt'[e] = d + Len(rcv_queue'[e])
          /\ Len(rcv_queue'[e]) <= RcvWnd
          /\ \A i \in 1..Len(rcv_queue'[e]) : rcv_queue'[e][i] = stream[Peer(e)][d + i]
          /\ \A sn \in DOMAIN rcv_buf'[e] :
               /\ sn \in rcv_nxt'[e]..(rcv_nxt'[e] + RcvWnd - 1)
               /\ sn < snd_nxt[Peer(e)]
               /\ rcv_buf'[e][sn] = stream[Peer(e)][sn + 1]
          /\ rcv_nxt'[e] \in DOMAIN rcv_buf'[e] => Len(rcv_queue'[e]) = RcvWnd
          /\ \A sn \in DOMAIN buf : Holds(e, sn)'
          /\ \A sn \in Nat : Holds(e, sn) => Holds(e, sn)'
      BY <1>3, <1>4, <3>2, <3>3, <3>4, <3>5, MoveKeeps, ZenonT(60)
    <3>7. Holds(e, p.sn)'
      BY <3>4, <3>6
    <3> QED BY <3>6, <3>7
  <2>2. CASE ~in
    <3>1. UNCHANGED <<rcv_nxt, rcv_buf, rcv_queue>>
      BY <1>1, <2>2
    <3>2. p.sn < rcv_nxt[e] + RcvWnd => p.sn < rcv_nxt[e]
      BY <2>2, <1>3 DEF in
    <3>3. \A sn : Holds(e, sn)' <=> Holds(e, sn)
      BY <3>1 DEF Holds
    <3>4. p.sn < rcv_nxt[e] + RcvWnd => Holds(e, p.sn)'
      BY <3>2, <3>3 DEF Holds
    <3>5. /\ rcv_nxt[e] <= rcv_nxt[e] /\ rcv_nxt[e] <= snd_nxt[Peer(e)]
          /\ rcv_nxt[e] = d + Len(rcv_queue[e])
          /\ Len(rcv_queue[e]) <= RcvWnd
      <4>1. rcv_nxt[e] \in Nat /\ rcv_nxt[e] <= snd_nxt[Peer(e)]
        BY Numbered
      <4>2. rcv_nxt[e] = d + Len(rcv_queue[e]) /\ Len(rcv_queue[e]) <= RcvWnd
        BY <1>3, <1>4 DEF q
      <4> QED BY <4>1, <4>2
    <3>6. /\ \A sn \in DOMAIN rcv_buf[e] :
               /\ sn \in rcv_nxt[e]..(rcv_nxt[e] + RcvWnd - 1)
               /\ sn < snd_nxt[Peer(e)]
               /\ rcv_buf[e][sn] = stream[Peer(e)][sn + 1]
          /\ rcv_nxt[e] \in DOMAIN rcv_buf[e] => Len(rcv_queue[e]) = RcvWnd
      BY <1>0 DEF WithinWindow, NoneStranded, ReceiveSide
    <3>7. /\ rcv_nxt \in [Endpoint -> Nat] /\ rcv_queue \in [Endpoint -> Seq(Piece)]
          /\ DOMAIN rcv_buf = Endpoint /\ IsBuffer(rcv_buf[e])
      BY <1>0 DEF TypeOK
    <3>8. \A i \in 1..Len(rcv_queue[e]) : rcv_queue[e][i] = stream[Peer(e)][d + i]
      BY <1>4 DEF q
    <3>9. IsBuffer(rcv_buf'[e])
      BY <3>1, <3>7
    <3> QED BY <3>1, <3>3, <3>4, <3>5, <3>6, <3>7, <3>8, <3>9
  <2> QED BY <2>1, <2>2
<1>6. \A f \in Endpoint : \A sn \in Nat : Holds(f, sn) => Holds(f, sn)'
  BY <1>5 DEF Holds
<1>7. TypeOK'
  <2>1. acklist' \in [Endpoint -> SUBSET Nat]
    BY <1>0, <1>1, <1>3 DEF TypeOK
  <2>2. \A f \in Endpoint : IsBuffer(rcv_buf'[f])
    BY <1>0, <1>5 DEF TypeOK
  <2> QED BY <1>0, <1>1, <1>2, <1>5, <2>1, <2>2 DEF TypeOK, IsBuffer
<1>8. SendSide' /\ Framed' /\ InOrder'
  <2>1. /\ UNCHANGED <<stream, delivered, snd_queue, snd_nxt>>
        /\ \A f \in Endpoint : \A sn \in DOMAIN snd_buf'[f] : snd_buf'[f][sn] = stream[f][sn + 1]
    BY <1>0, <1>1, <1>2 DEF SendSide
  <2>2. SendSide'
    BY <1>0, <2>1 DEF SendSide
  <2> QED BY <1>0, <2>1, <2>2 DEF Framed, InOrder
<1>9. ReceiveSide'
  <2>0. UNCHANGED <<stream, delivered, snd_nxt>>
    BY <1>1, <1>2
  <2> SUFFICES ASSUME NEW f \in Endpoint
               PROVE  /\ rcv_nxt'[f] = Len(delivered[f]) + Len(rcv_queue'[f])
                      /\ rcv_nxt'[f] <= snd_nxt[Peer(f)]
                      /\ \A i \in 1..Len(rcv_queue'[f]) :
                            rcv_queue'[f][i] = stream[Peer(f)][Len(delivered[f]) + i]
                      /\ \A sn \in DOMAIN rcv_buf'[f] :
                            /\ sn < snd_nxt[Peer(f)]
                            /\ rcv_buf'[f][sn] = stream[Peer(f)][sn + 1]
                      /\ \A sn \in acklist'[f] : Holds(f, sn)'
    BY <2>0 DEF ReceiveSide, Holds
  <2>1. ASSUME NEW sn \in acklist'[f]
        PROVE  Holds(f, sn)'
    <3>1. CASE sn \in acklist[f]
      <4>1. sn \in Nat /\ Holds(f, sn)
        BY <3>1, <1>0 DEF ReceiveSide, TypeOK
      <4> QED BY <4>1, <1>6
    <3>2. CASE sn \notin acklist[f]
      <4>1. f = e /\ sn = p.sn /\ p.sn < rcv_nxt[e] + RcvWnd
        BY <2>1, <3>2, <1>0, <1>1 DEF TypeOK
      <4> QED BY <4>1, <1>5
    <3> QED BY <3>1, <3>2
  <2>2. CASE f = e
    BY <2>1, <2>2, <1>5 DEF d
  <2>3. CASE f # e
    <3>1. rcv_nxt'[f] = rcv_nxt[f] /\ rcv_queue'[f] = rcv_queue[f] /\ rcv_buf'[f] = rcv_buf[f]
      BY <2>3, <1>5
    <3>2. /\ rcv_nxt[f] = Len(delivered[f]) + Len(rcv_queue[f])
          /\ rcv_nxt[f] <= snd_nxt[Peer(f)]
          /\ \A i \in 1..Len(rcv_queue[f]) :
                rcv_queue[f][i] = stream[Peer(f)][Len(delivered[f]) + i]
          /\ \A sn \in DOMAIN rcv_buf[f] :
                /\ sn < snd_nxt[Peer(f)]
                /\ rcv_buf[f][sn] = stream[Peer(f)][sn + 1]
      BY <1>0 DEF ReceiveSide
    <3> QED BY <2>1, <3>1, <3>2
  <2> QED BY <2>2, <2>3
<1>10. TruthfulNet'
  <2>0. UNCHANGED <<stream, snd_nxt>> /\ net' \subseteq net
    BY <1>1, <1>2
  <2> SUFFICES ASSUME NEW r \in net
               PROVE  LET from == Peer(r.to)
                      IN  /\ r.una <= rcv_nxt'[from]
                          /\ r.wnd <= RcvWnd
                          /\ r.cmd = "ACK" => Holds(from, r.sn)'
                          /\ r.cmd = "PUSH" => /\ r.sn < snd_nxt[from]
                                               /\ r.body = stream[from][r.sn + 1]
    BY <2>0 DEF TruthfulNet, Holds
  <2>1. r.sn \in Nat /\ r.una \in Nat /\ Peer(r.to) \in Endpoint
    BY <1>0, PeerFacts DEF TypeOK, Packet
  <2>2. /\ r.una <= rcv_nxt[Peer(r.to)] /\ r.wnd <= RcvWnd
        /\ r.cmd = "ACK" => Holds(Peer(r.to), r.sn)
        /\ r.cmd = "PUSH" => /\ r.sn < snd_nxt[Peer(r.to)]
                             /\ r.body = stream[Peer(r.to)][r.sn + 1]
    BY <1>0 DEF TruthfulNet
  <2>3. rcv_nxt[Peer(r.to)] <= rcv_nxt'[Peer(r.to)]
        /\ rcv_nxt[Peer(r.to)] \in Nat /\ rcv_nxt'[Peer(r.to)] \in Nat
    <3> DEFINE from == Peer(r.to)
    <3>1. from \in Endpoint /\ rcv_nxt[from] \in Nat /\ rcv_nxt'[from] \in Nat
      BY <2>1, <1>0, <1>5 DEF TypeOK
    <3> HIDE DEF from
    <3>2. rcv_nxt[from] <= rcv_nxt'[from]
      <4>1. CASE from = e
        BY <4>1, <1>5
      <4>2. CASE from # e
        <5>1. rcv_nxt'[from] = rcv_nxt[from]
          BY <4>2, <3>1, <1>5
        <5> QED BY <5>1, <3>1
      <4> QED BY <4>1, <4>2
    <3> QED BY <3>1, <3>2 DEF from
  <2> QED BY <2>1, <2>2, <2>3, <1>6
<1>11. KeptUntilHeld'
  <2>0. snd_nxt' = snd_nxt
    BY <1>2
  <2> SUFFICES ASSUME NEW f \in Endpoint, NEW sn \in 0..(snd_nxt[f] - 1)
               PROVE  sn \in DOMAIN snd_buf'[f] \/ Holds(Peer(f), sn)'
    BY <2>0 DEF KeptUntilHeld, Holds
  <2> QED BY <1>2, <1>6, PeerFacts, Numbered
<1>12. WithinWindow' /\ NoneStranded'
  <2> SUFFICES ASSUME NEW f \in Endpoint
               PROVE  /\ Len(rcv_queue'[f]) <= RcvWnd
                      /\ DOMAIN rcv_buf'[f] \subseteq rcv_nxt'[f]..(rcv_nxt'[f] + RcvWnd - 1)
                      /\ rcv_nxt'[f] \in DOMAIN rcv_buf'[f] => Len(rcv_queue'[f]) = RcvWnd
    BY DEF WithinWindow, NoneStranded
  <2>1. CASE f = e
    BY <2>1, <1>5
  <2>2. CASE f # e
    BY <2>2, <1>0, <1>5 DEF WithinWindow, NoneStranded
  <2> QED BY <2>1, <2>2
<1> QED BY <1>2, <1>7, <1>8, <1>9, <1>10, <1>11, <1>12 DEF IInv

-----------------------------------------------------------------------------
(* What ikcp_flush writes into every segment it sends: the receive side's  *)
(* own counters, read while the flush runs.                                *)
LEMMA HeaderFacts ==
  ASSUME TypeOK, NEW e \in Endpoint, NEW cmd \in Cmd, NEW sn \in Nat, NEW body \in Piece
  PROVE  LET p == Header(e, cmd, sn, body)
         IN  /\ p \in Packet /\ Peer(p.to) = e /\ p.una = rcv_nxt[e] /\ p.wnd <= RcvWnd
             /\ p.cmd = cmd /\ p.sn = sn /\ p.body = body
<1>1. Unused(e) \in Nat /\ Unused(e) <= RcvWnd
  <2> DEFINE q == Len(rcv_queue[e])
  <2>1. q \in Nat /\ RcvWnd \in Nat
    BY SizesAssumption DEF TypeOK
  <2>2. Unused(e) = IF q < RcvWnd THEN RcvWnd - q ELSE 0
    BY DEF Unused
  <2> HIDE DEF q
  <2> QED BY <2>1, <2>2
<1>2. rcv_nxt[e] \in Nat /\ Peer(e) \in Endpoint /\ Peer(Peer(e)) = e
  BY PeerFacts DEF TypeOK
<1> QED BY <1>1, <1>2 DEF Header, Packet

LEMMA AcksFacts ==
  ASSUME IInv, NEW e \in Endpoint, NEW p \in Acks(e)
  PROVE  /\ p \in Packet /\ Peer(p.to) = e /\ p.una = rcv_nxt[e] /\ p.wnd <= RcvWnd
         /\ p.cmd = "ACK" /\ Holds(e, p.sn)
<1>1. PICK sn \in acklist[e] : p = Header(e, "ACK", sn, NoPiece)
  BY DEF Acks
<1>2. sn \in Nat /\ Holds(e, sn) /\ NoPiece \in Piece /\ "ACK" \in Cmd /\ TypeOK
  BY DEF IInv, TypeOK, ReceiveSide, NoPiece, Piece, Cmd
<1> QED BY <1>1, <1>2, HeaderFacts

LEMMA ProbesFacts ==
  ASSUME TypeOK, NEW e \in Endpoint, NEW bits, NEW p \in Probes(e, bits)
  PROVE  /\ p \in Packet /\ Peer(p.to) = e /\ p.una = rcv_nxt[e] /\ p.wnd <= RcvWnd
         /\ p.cmd \notin {"ACK", "PUSH"}
<1>1. PICK cmd \in {"WASK", "WINS"} : p = Header(e, cmd, 0, NoPiece)
  BY DEF Probes
<1>2. 0 \in Nat /\ NoPiece \in Piece /\ cmd \in Cmd /\ cmd \notin {"ACK", "PUSH"}
  BY DEF NoPiece, Piece, Cmd
<1> QED BY <1>1, <1>2, HeaderFacts

LEMMA PushesFacts ==
  ASSUME TypeOK, NEW e \in Endpoint, NEW buf, IsBuffer(buf), NEW p \in Pushes(e, buf)
  PROVE  /\ p \in Packet /\ Peer(p.to) = e /\ p.una = rcv_nxt[e] /\ p.wnd <= RcvWnd
         /\ p.cmd = "PUSH" /\ p.sn \in DOMAIN buf /\ p.body = buf[p.sn]
<1>1. PICK sn \in DOMAIN buf : p = Header(e, "PUSH", sn, buf[sn])
  BY DEF Pushes
<1>2. sn \in Nat /\ buf[sn] \in Piece /\ "PUSH" \in Cmd
  BY DEF IsBuffer, Cmd
<1>3. /\ p \in Packet /\ Peer(p.to) = e /\ p.una = rcv_nxt[e] /\ p.wnd <= RcvWnd
      /\ p.cmd = "PUSH" /\ p.sn = sn /\ p.body = buf[sn]
  BY <1>1, <1>2, HeaderFacts
<1> QED BY <1>3

(* A whole ikcp_flush.                                                     *)
LEMMA FlushStep ==
  ASSUME IInv, NEW e \in Endpoint, Flush(e)
  PROVE  IInv'
<1>0. /\ TypeOK /\ SendSide /\ ReceiveSide /\ Framed /\ TruthfulNet
      /\ KeptUntilHeld /\ InFlight /\ WithinWindow /\ NoneStranded /\ InOrder
  BY DEF IInv
<1>1. FlushState(e)
  BY DEF Flush
<1>2. /\ UNCHANGED <<stream, delivered, snd_una, rcv_nxt, rcv_buf, rcv_queue, rmt_wnd>>
      /\ acklist' = [acklist EXCEPT ![e] = {}]
      /\ probe' = [probe EXCEPT ![e] = {}]
      /\ probe_wait' = [probe_wait EXCEPT ![e] = (rmt_wnd[e] = 0)]
  BY <1>1 DEF FlushState, rcvVars
<1>3. PICK timeup \in BOOLEAN : net' \subseteq net \cup FlushOut(e, timeup)
  BY DEF Flush, Carry
<1> DEFINE nxt == snd_nxt[e]
           una == snd_una[e]
           q   == Len(snd_queue[e])
           q2  == Len(snd_queue'[e])
           len == Len(stream[e])
<1>4. PICK m \in Nat :
           /\ m <= q
           /\ m = 0 \/ nxt + m <= una + SndWnd
           /\ snd_nxt' = [snd_nxt EXCEPT ![e] = nxt + m]
           /\ snd_queue' \in [Endpoint -> Seq(Piece)]
           /\ q2 = q - m
           /\ \A i \in 1..q2 : snd_queue'[e][i] = snd_queue[e][m + i]
           /\ DOMAIN snd_buf' = Endpoint /\ IsBuffer(snd_buf'[e])
           /\ DOMAIN snd_buf'[e] = DOMAIN snd_buf[e] \cup (nxt..(nxt + m - 1))
           /\ \A sn \in DOMAIN snd_buf[e] : snd_buf'[e][sn] = snd_buf[e][sn]
           /\ \A i \in Nat : i < m => snd_buf'[e][nxt + i] = snd_queue[e][i + 1]
           /\ \A f \in Endpoint : f # e => snd_buf'[f] = snd_buf[f] /\ snd_queue'[f] = snd_queue[f]
  BY <1>0, <1>1, FlushFacts
<1>5. /\ nxt \in Nat /\ una \in Nat /\ q \in Nat /\ len \in Nat /\ SndWnd \in Nat
      /\ nxt + q = len
  BY <1>0, Numbered, SizesAssumption DEF TypeOK
<1>6. /\ \A i \in 1..q : snd_queue[e][i] = stream[e][nxt + i]
      /\ \A sn \in DOMAIN snd_buf[e] : snd_buf[e][sn] = stream[e][sn + 1]
  BY <1>0 DEF SendSide
<1>7. /\ DOMAIN snd_buf[e] \subseteq una..(nxt - 1)
      /\ nxt - una <= SndWnd
      /\ una \in DOMAIN snd_buf[e] \cup {nxt}
  BY <1>0 DEF InFlight
<1>8. /\ snd_nxt' \in [Endpoint -> Nat] /\ snd_nxt'[e] = nxt + m
      /\ \A f \in Endpoint : f # e => snd_nxt'[f] = snd_nxt[f]
  <2>1. snd_nxt \in [Endpoint -> Nat] /\ snd_nxt' = [snd_nxt EXCEPT ![e] = nxt + m]
        /\ nxt + m \in Nat
    <3>1. snd_nxt \in [Endpoint -> Nat]
      BY <1>0 DEF TypeOK
    <3>2. snd_nxt' = [snd_nxt EXCEPT ![e] = nxt + m]
      BY <1>4, Zenon
    <3>3. nxt + m \in Nat
      <4> HIDE DEF nxt
      <4> QED BY <1>4, <1>5
    <3> QED BY <3>1, <3>2, <3>3
  <2> HIDE DEF nxt
  <2> QED BY <2>1
<1>9. \A f \in Endpoint : snd_nxt[f] \in Nat /\ snd_nxt'[f] \in Nat /\ snd_nxt[f] <= snd_nxt'[f]
  <2> SUFFICES ASSUME NEW f \in Endpoint
               PROVE  snd_nxt[f] \in Nat /\ snd_nxt'[f] \in Nat /\ snd_nxt[f] <= snd_nxt'[f]
    OBVIOUS
  <2>1. snd_nxt[f] \in Nat
    BY <1>0 DEF TypeOK
  <2>2. CASE f = e
    BY <2>1, <2>2, <1>5, <1>8
  <2>3. CASE f # e
    <3>1. snd_nxt'[f] = snd_nxt[f]
      BY <2>3, <1>8
    <3> QED BY <2>1, <3>1
  <2> QED BY <2>2, <2>3
<1> HIDE DEF nxt, una, q, q2, len
<1>10. ASSUME NEW sn \in DOMAIN snd_buf'[e]
       PROVE  /\ sn \in Nat /\ sn < nxt + m /\ una <= sn
              /\ snd_buf'[e][sn] = stream[e][sn + 1]
  <2>1. CASE sn \in DOMAIN snd_buf[e]
    <3>1. sn \in Nat /\ sn < nxt + m /\ una <= sn
      BY <2>1, <1>5, <1>7
    <3> QED BY <2>1, <3>1, <1>4, <1>6
  <2>2. CASE sn \notin DOMAIN snd_buf[e]
    <3> DEFINE i == sn - nxt
    <3>0. sn \in nxt..(nxt + m - 1)
      BY <2>2, <1>4
    <3>1. i \in Nat /\ i < m /\ sn = nxt + i /\ i + 1 \in 1..q /\ nxt + (i + 1) = sn + 1
      <4>1. m <= q
        BY <1>4
      <4> QED BY <3>0, <4>1, <1>5
    <3>2. una <= sn
      BY <3>1, <1>5, <1>7
    <3> HIDE DEF i
    <3>3. snd_buf'[e][sn] = snd_queue[e][i + 1]
      BY <3>1, <1>4
    <3>4. snd_queue[e][i + 1] = stream[e][sn + 1]
      BY <3>1, <1>6
    <3> QED BY <3>1, <3>2, <3>3, <3>4, <1>5
  <2> QED BY <2>1, <2>2
<1>11. \A f \in Endpoint : IsBuffer(snd_buf'[f])
  BY <1>0, <1>4 DEF TypeOK
<1>12. ASSUME NEW p \in FlushOut(e, timeup)
       PROVE  /\ p \in Packet /\ Peer(p.to) = e /\ p.una = rcv_nxt[e] /\ p.wnd <= RcvWnd
              /\ p.cmd = "ACK" => Holds(e, p.sn)
              /\ p.cmd = "PUSH" => p.sn < nxt + m /\ p.body = stream[e][p.sn + 1]
  <2>1. CASE p \in Acks(e)
    BY <2>1, AcksFacts
  <2>2. CASE p \in Probes(e, ProbeBits(e, timeup))
    BY <2>2, <1>0, ProbesFacts
  <2>3. CASE p \in Pushes(e, snd_buf'[e])
    <3>1. /\ p \in Packet /\ Peer(p.to) = e /\ p.una = rcv_nxt[e] /\ p.wnd <= RcvWnd
          /\ p.cmd = "PUSH" /\ p.sn \in DOMAIN snd_buf'[e] /\ p.body = snd_buf'[e][p.sn]
      BY <2>3, <1>0, <1>4, PushesFacts
    <3> QED BY <3>1, <1>10
  <2> QED BY <2>1, <2>2, <2>3 DEF FlushOut
<1>13. TypeOK'
  <2>1. /\ acklist' \in [Endpoint -> SUBSET Nat]
        /\ probe' \in [Endpoint -> SUBSET {"SEND", "TELL"}]
        /\ probe_wait' \in [Endpoint -> BOOLEAN]
    <3>1. acklist' \in [Endpoint -> SUBSET Nat]
      BY <1>0, <1>2 DEF TypeOK
    <3>2. probe' \in [Endpoint -> SUBSET {"SEND", "TELL"}]
      BY <1>0, <1>2 DEF TypeOK
    <3>3. probe_wait' \in [Endpoint -> BOOLEAN]
      BY <1>0, <1>2 DEF TypeOK
    <3> QED BY <3>1, <3>2, <3>3
  <2>2. net' \in SUBSET Packet
    BY <1>0, <1>3, <1>12 DEF TypeOK
  <2> QED BY <1>0, <1>2, <1>4, <1>8, <1>11, <2>1, <2>2 DEF TypeOK, IsBuffer
<1>14. SendSide'
  <2>0. stream' = stream
    BY <1>2
  <2> SUFFICES ASSUME NEW f \in Endpoint
               PROVE  /\ snd_nxt'[f] + Len(snd_queue'[f]) = Len(stream[f])
                      /\ \A i \in 1..Len(snd_queue'[f]) :
                            snd_queue'[f][i] = stream[f][snd_nxt'[f] + i]
                      /\ \A sn \in DOMAIN snd_buf'[f] : snd_buf'[f][sn] = stream[f][sn + 1]
    BY <2>0 DEF SendSide
  <2>1. CASE f = e
    <3>1. (nxt + m) + q2 = len
      BY <1>4, <1>5
    <3>2. ASSUME NEW i \in 1..q2
          PROVE  snd_queue'[e][i] = stream[e][(nxt + m) + i]
      <4>1. m + i \in 1..q /\ nxt + (m + i) = (nxt + m) + i
        BY <1>4, <1>5
      <4>2. snd_queue'[e][i] = snd_queue[e][m + i]
        BY <1>4
      <4> QED BY <4>1, <4>2, <1>6
    <3> QED BY <2>1, <3>1, <3>2, <1>8, <1>10 DEF q2, len
  <2>2. CASE f # e
    <3>1. snd_nxt'[f] = snd_nxt[f] /\ snd_queue'[f] = snd_queue[f] /\ snd_buf'[f] = snd_buf[f]
      BY <2>2, <1>4, <1>8
    <3>2. /\ snd_nxt[f] + Len(snd_queue[f]) = Len(stream[f])
          /\ \A i \in 1..Len(snd_queue[f]) : snd_queue[f][i] = stream[f][snd_nxt[f] + i]
          /\ \A sn \in DOMAIN snd_buf[f] : snd_buf[f][sn] = stream[f][sn + 1]
      BY <1>0 DEF SendSide
    <3> QED BY <3>1, <3>2
  <2> QED BY <2>1, <2>2
<1>15. ReceiveSide'
  <2>0. /\ stream' = stream /\ delivered' = delivered /\ rcv_nxt' = rcv_nxt
        /\ rcv_buf' = rcv_buf /\ rcv_queue' = rcv_queue
    BY <1>2
  <2> SUFFICES ASSUME NEW f \in Endpoint
               PROVE  /\ rcv_nxt[f] = Len(delivered[f]) + Len(rcv_queue[f])
                      /\ rcv_nxt[f] <= snd_nxt'[Peer(f)]
                      /\ \A i \in 1..Len(rcv_queue[f]) :
                            rcv_queue[f][i] = stream[Peer(f)][Len(delivered[f]) + i]
                      /\ \A sn \in DOMAIN rcv_buf[f] :
                            /\ sn < snd_nxt'[Peer(f)]
                            /\ rcv_buf[f][sn] = stream[Peer(f)][sn + 1]
                      /\ \A sn \in acklist'[f] : Holds(f, sn)
    BY <2>0 DEF ReceiveSide, Holds
  <2>1. /\ rcv_nxt[f] = Len(delivered[f]) + Len(rcv_queue[f])
        /\ rcv_nxt[f] <= snd_nxt[Peer(f)]
        /\ \A i \in 1..Len(rcv_queue[f]) :
              rcv_queue[f][i] = stream[Peer(f)][Len(delivered[f]) + i]
        /\ \A sn \in DOMAIN rcv_buf[f] :
              /\ sn < snd_nxt[Peer(f)]
              /\ rcv_buf[f][sn] = stream[Peer(f)][sn + 1]
        /\ \A sn \in acklist[f] : Holds(f, sn)
    BY <1>0 DEF ReceiveSide
  <2>2. /\ Peer(f) \in Endpoint /\ rcv_nxt[f] \in Nat
        /\ \A sn \in DOMAIN rcv_buf[f] : sn \in Nat
    BY <1>0, PeerFacts DEF TypeOK, IsBuffer
  <2>3. snd_nxt[Peer(f)] \in Nat /\ snd_nxt'[Peer(f)] \in Nat
        /\ snd_nxt[Peer(f)] <= snd_nxt'[Peer(f)]
    BY <2>2, <1>9
  <2>4. rcv_nxt[f] <= snd_nxt'[Peer(f)]
    <3>1. rcv_nxt[f] <= snd_nxt[Peer(f)]
      BY <2>1
    <3> QED BY <3>1, <2>2, <2>3
  <2>5. \A sn \in DOMAIN rcv_buf[f] : sn < snd_nxt'[Peer(f)]
    BY <2>1, <2>2, <2>3
  <2>6. acklist'[f] \subseteq acklist[f]
    BY <1>0, <1>2 DEF TypeOK
  <2> QED BY <2>1, <2>4, <2>5, <2>6
<1>16. TruthfulNet'
  <2>0. UNCHANGED <<stream, rcv_nxt, rcv_buf>>
    BY <1>2
  <2> SUFFICES ASSUME NEW p \in net'
               PROVE  LET from == Peer(p.to)
                      IN  /\ p.una <= rcv_nxt[from]
                          /\ p.wnd <= RcvWnd
                          /\ p.cmd = "ACK" => Holds(from, p.sn)
                          /\ p.cmd = "PUSH" => /\ p.sn < snd_nxt'[from]
                                               /\ p.body = stream[from][p.sn + 1]
    BY <2>0 DEF TruthfulNet, Holds
  <2>1. CASE p \in net
    <3>1. p.sn \in Nat /\ Peer(p.to) \in Endpoint
      BY <2>1, <1>0, PeerFacts DEF TypeOK, Packet
    <3>2. p.cmd = "PUSH" => p.sn < snd_nxt[Peer(p.to)]
      BY <2>1, <1>0 DEF TruthfulNet
    <3>3. p.cmd = "PUSH" => p.sn < snd_nxt'[Peer(p.to)]
      <4>1. snd_nxt[Peer(p.to)] \in Nat /\ snd_nxt'[Peer(p.to)] \in Nat
            /\ snd_nxt[Peer(p.to)] <= snd_nxt'[Peer(p.to)]
        BY <3>1, <1>9
      <4> QED BY <3>1, <3>2, <4>1
    <3> QED BY <2>1, <3>3, <1>0 DEF TruthfulNet
  <2>2. CASE p \in FlushOut(e, timeup)
    <3>1. rcv_nxt[e] \in Nat
      BY <1>0 DEF TypeOK
    <3>2. p.una <= rcv_nxt[e]
      BY <2>2, <3>1, <1>12
    <3> QED BY <2>2, <3>2, <1>8, <1>12
  <2> QED BY <2>1, <2>2, <1>3
<1>17. KeptUntilHeld'
  <2>0. UNCHANGED <<rcv_nxt, rcv_buf>>
    BY <1>2
  <2> SUFFICES ASSUME NEW f \in Endpoint, NEW sn \in 0..(snd_nxt'[f] - 1)
               PROVE  sn \in DOMAIN snd_buf'[f] \/ Holds(Peer(f), sn)
    BY <2>0 DEF KeptUntilHeld, Holds
  <2>1. CASE sn \in 0..(snd_nxt[f] - 1)
    <3>1. sn \in DOMAIN snd_buf[f] \/ Holds(Peer(f), sn)
      BY <2>1, <1>0 DEF KeptUntilHeld
    <3>2. DOMAIN snd_buf[f] \subseteq DOMAIN snd_buf'[f]
      BY <1>4
    <3> QED BY <3>1, <3>2
  <2>2. CASE sn \notin 0..(snd_nxt[f] - 1)
    <3>1. f = e
      BY <2>2, <1>8
    <3>2. sn \in nxt..(nxt + m - 1)
      <4>1. sn \in 0..((nxt + m) - 1) /\ sn \notin 0..(nxt - 1)
        BY <2>2, <3>1, <1>8 DEF nxt
      <4> QED BY <4>1, <1>5
    <3> QED BY <3>1, <3>2, <1>4
  <2> QED BY <2>1, <2>2
<1>18. InFlight'
  <2>0. snd_una' = snd_una
    BY <1>2
  <2> SUFFICES ASSUME NEW f \in Endpoint
               PROVE  /\ DOMAIN snd_buf'[f] \subseteq snd_una[f]..(snd_nxt'[f] - 1)
                      /\ snd_nxt'[f] - snd_una[f] <= SndWnd
                      /\ snd_una[f] \in DOMAIN snd_buf'[f] \cup {snd_nxt'[f]}
    BY <2>0 DEF InFlight
  <2>1. CASE f = e
    <3>1. DOMAIN snd_buf'[e] \subseteq una..((nxt + m) - 1)
      BY <1>5, <1>10
    <3>2. (nxt + m) - una <= SndWnd
      BY <1>4, <1>5, <1>7
    <3>3. una \in DOMAIN snd_buf'[e] \cup {nxt + m}
      <4>1. CASE una \in DOMAIN snd_buf[e]
        BY <4>1, <1>4
      <4>2. CASE una = nxt
        BY <4>2, <1>4, <1>5
      <4> QED BY <4>1, <4>2, <1>7
    <3> QED BY <2>1, <3>1, <3>2, <3>3, <1>8 DEF una
  <2>2. CASE f # e
    <3>1. snd_nxt'[f] = snd_nxt[f] /\ snd_buf'[f] = snd_buf[f]
      BY <2>2, <1>4, <1>8
    <3> QED BY <3>1, <1>0 DEF InFlight
  <2> QED BY <2>1, <2>2
<1>19. Framed' /\ WithinWindow' /\ NoneStranded' /\ InOrder'
  BY <1>0, <1>2 DEF Framed, WithinWindow, NoneStranded, InOrder
<1> QED BY <1>13, <1>14, <1>15, <1>16, <1>17, <1>18, <1>19 DEF IInv


(* A flush that the output callback's error cuts short has sent            *)
(* acknowledgements at most, and forgets no more than it has sent.         *)
LEMMA AbortStep ==
  ASSUME IInv, NEW e \in Endpoint, net' \subseteq net \cup Acks(e),
         stream' = stream, delivered' = delivered, snd_queue' = snd_queue,
         snd_buf' = snd_buf, snd_una' = snd_una, snd_nxt' = snd_nxt,
         rcv_nxt' = rcv_nxt, rcv_buf' = rcv_buf, rcv_queue' = rcv_queue,
         rmt_wnd' = rmt_wnd,
         probe' \in [Endpoint -> SUBSET {"SEND", "TELL"}],
         probe_wait' \in [Endpoint -> BOOLEAN],
         acklist' \in [Endpoint -> SUBSET Nat],
         \A f \in Endpoint : acklist'[f] \subseteq acklist[f]
  PROVE  IInv'
<1>0. /\ TypeOK /\ SendSide /\ ReceiveSide /\ Framed /\ TruthfulNet
      /\ KeptUntilHeld /\ InFlight /\ WithinWindow /\ NoneStranded /\ InOrder
  BY DEF IInv
<1>1. net' \in SUBSET Packet
  BY <1>0, AcksFacts DEF TypeOK
<1>2. TypeOK'
  BY <1>0, <1>1 DEF TypeOK, IsBuffer
<1>3. SendSide' /\ Framed' /\ InOrder'
  BY <1>0 DEF SendSide, Framed, InOrder
<1>4. KeptUntilHeld' /\ InFlight' /\ WithinWindow' /\ NoneStranded'
  BY <1>0 DEF KeptUntilHeld, InFlight, WithinWindow, NoneStranded, Holds
<1>5. ReceiveSide'
  <2> SUFFICES ASSUME NEW f \in Endpoint
               PROVE  /\ rcv_nxt[f] = Len(delivered[f]) + Len(rcv_queue[f])
                      /\ rcv_nxt[f] <= snd_nxt[Peer(f)]
                      /\ \A i \in 1..Len(rcv_queue[f]) :
                            rcv_queue[f][i] = stream[Peer(f)][Len(delivered[f]) + i]
                      /\ \A sn \in DOMAIN rcv_buf[f] :
                            /\ sn < snd_nxt[Peer(f)]
                            /\ rcv_buf[f][sn] = stream[Peer(f)][sn + 1]
                      /\ \A sn \in acklist'[f] : Holds(f, sn)
    BY DEF ReceiveSide, Holds
  <2> QED BY <1>0 DEF ReceiveSide
<1>6. TruthfulNet'
  <2> SUFFICES ASSUME NEW p \in net'
               PROVE  LET from == Peer(p.to)
                      IN  /\ p.una <= rcv_nxt[from]
                          /\ p.wnd <= RcvWnd
                          /\ p.cmd = "ACK" => Holds(from, p.sn)
                          /\ p.cmd = "PUSH" => /\ p.sn < snd_nxt[from]
                                               /\ p.body = stream[from][p.sn + 1]
    BY DEF TruthfulNet, Holds
  <2>1. CASE p \in net
    BY <2>1, <1>0 DEF TruthfulNet
  <2>2. CASE p \in Acks(e)
    <3>1. rcv_nxt[e] \in Nat
      BY <1>0 DEF TypeOK
    <3>2. /\ Peer(p.to) = e /\ p.una = rcv_nxt[e] /\ p.wnd <= RcvWnd
          /\ p.cmd = "ACK" /\ Holds(e, p.sn)
      BY <2>2, AcksFacts
    <3> QED BY <3>1, <3>2
  <2> QED BY <2>1, <2>2
<1> QED BY <1>2, <1>3, <1>4, <1>5, <1>6 DEF IInv

LEMMA AbortInAcksStep ==
  ASSUME IInv, NEW e \in Endpoint, AbortInAcks(e)
  PROVE  IInv'
<1>1. net' \subseteq net \cup Acks(e)
  BY DEF AbortInAcks, Carry
<1>2. UNCHANGED <<stream, delivered, snd_queue, snd_buf, snd_una, snd_nxt, rcv_nxt,
                  rcv_buf, rcv_queue, rmt_wnd, probe, probe_wait, acklist>>
  BY DEF AbortInAcks, sndVars, rcvVars, ctlVars
<1>3. /\ probe \in [Endpoint -> SUBSET {"SEND", "TELL"}]
      /\ probe_wait \in [Endpoint -> BOOLEAN]
      /\ acklist \in [Endpoint -> SUBSET Nat]
  BY DEF IInv, TypeOK
<1> QED BY <1>1, <1>2, <1>3, AbortStep

LEMMA AbortInProbesStep ==
  ASSUME IInv, NEW e \in Endpoint, AbortInProbes(e)
  PROVE  IInv'
<1>1. net' \subseteq net \cup Acks(e)
  BY DEF AbortInProbes, Carry
<1>2. UNCHANGED <<stream, delivered, snd_queue, snd_buf, snd_una, snd_nxt, rcv_nxt,
                  rcv_buf, rcv_queue, rmt_wnd>>
  BY DEF AbortInProbes, sndVars, rcvVars
<1>3. PICK timeup \in BOOLEAN :
        /\ acklist' = [acklist EXCEPT ![e] = {}]
        /\ probe' = [probe EXCEPT ![e] = ProbeBits(e, timeup)]
        /\ probe_wait' = [probe_wait EXCEPT ![e] = (rmt_wnd[e] = 0)]
  BY DEF AbortInProbes
<1>4. /\ probe \in [Endpoint -> SUBSET {"SEND", "TELL"}]
      /\ probe_wait \in [Endpoint -> BOOLEAN]
      /\ acklist \in [Endpoint -> SUBSET Nat]
  BY DEF IInv, TypeOK
<1>5. ProbeBits(e, timeup) \in SUBSET {"SEND", "TELL"}
  BY <1>4 DEF ProbeBits
<1>6. probe' \in [Endpoint -> SUBSET {"SEND", "TELL"}]
  BY <1>3, <1>4, <1>5
<1>7. probe_wait' \in [Endpoint -> BOOLEAN]
  BY <1>3, <1>4
<1>8. /\ acklist' \in [Endpoint -> SUBSET Nat]
      /\ \A f \in Endpoint : acklist'[f] \subseteq acklist[f]
  BY <1>3, <1>4
<1> QED BY <1>1, <1>2, <1>6, <1>7, <1>8, AbortStep

-----------------------------------------------------------------------------
(* A control block that ikcp_create has just made.                         *)
LEMMA InitIInv == Init => IInv
<1> SUFFICES ASSUME Init PROVE IInv
  OBVIOUS
<1>1. \A e \in Endpoint :
        /\ stream[e] = <<>> /\ delivered[e] = <<>>
        /\ snd_queue[e] = <<>> /\ rcv_queue[e] = <<>>
        /\ snd_buf[e] = <<>> /\ rcv_buf[e] = <<>>
        /\ snd_una[e] = 0 /\ snd_nxt[e] = 0 /\ rcv_nxt[e] = 0
        /\ acklist[e] = {}
  BY DEF Init
<1>2. net = {}
  BY DEF Init
<1>3. <<>> \in Seq(Piece) /\ Len(<<>>) = 0 /\ DOMAIN <<>> = {} /\ IsBuffer(<<>>)
  BY DEF IsBuffer
<1>4. TypeOK
  <2>1. DOMAIN snd_buf = Endpoint /\ DOMAIN rcv_buf = Endpoint
    BY DEF Init
  <2>2. \A e \in Endpoint : IsBuffer(snd_buf[e]) /\ IsBuffer(rcv_buf[e])
    BY <1>1, <1>3
  <2>3. rmt_wnd \in [Endpoint -> Nat] /\ probe \in [Endpoint -> SUBSET {"SEND", "TELL"}]
        /\ probe_wait \in [Endpoint -> BOOLEAN] /\ acklist \in [Endpoint -> SUBSET Nat]
    BY SizesAssumption DEF Init
  <2>4. /\ stream \in [Endpoint -> Seq(Piece)] /\ delivered \in [Endpoint -> Seq(Piece)]
        /\ snd_queue \in [Endpoint -> Seq(Piece)] /\ rcv_queue \in [Endpoint -> Seq(Piece)]
    BY <1>3 DEF Init
  <2>5. /\ snd_una \in [Endpoint -> Nat] /\ snd_nxt \in [Endpoint -> Nat]
        /\ rcv_nxt \in [Endpoint -> Nat]
    BY DEF Init
  <2> QED BY <1>2, <2>1, <2>2, <2>3, <2>4, <2>5 DEF TypeOK
<1>5. SendSide /\ Framed /\ TruthfulNet
  BY <1>1, <1>2, <1>3 DEF SendSide, Framed, TruthfulNet
<1>6. ReceiveSide
  <2> SUFFICES ASSUME NEW e \in Endpoint
               PROVE  /\ rcv_nxt[e] = Len(delivered[e]) + Len(rcv_queue[e])
                      /\ rcv_nxt[e] <= snd_nxt[Peer(e)]
                      /\ \A i \in 1..Len(rcv_queue[e]) :
                            rcv_queue[e][i] = stream[Peer(e)][Len(delivered[e]) + i]
                      /\ \A sn \in DOMAIN rcv_buf[e] :
                            /\ sn < snd_nxt[Peer(e)]
                            /\ rcv_buf[e][sn] = stream[Peer(e)][sn + 1]
                      /\ \A sn \in acklist[e] : Holds(e, sn)
    BY DEF ReceiveSide
  <2>1. rcv_nxt[e] = 0 /\ snd_nxt[Peer(e)] = 0
    BY <1>1, PeerFacts
  <2>2. /\ Len(delivered[e]) = 0 /\ Len(rcv_queue[e]) = 0
        /\ DOMAIN rcv_buf[e] = {} /\ acklist[e] = {}
    BY <1>1, <1>3
  <2> QED BY <2>1, <2>2
<1>7. KeptUntilHeld
  BY <1>1 DEF KeptUntilHeld
<1>8. InFlight
  BY <1>1, <1>3, SizesAssumption DEF InFlight
<1>9. WithinWindow /\ NoneStranded
  BY <1>1, <1>3, SizesAssumption DEF WithinWindow, NoneStranded
<1>10. InOrder
  BY <1>1, <1>3, PeerFacts DEF InOrder
<1> QED BY <1>4, <1>5, <1>6, <1>7, <1>8, <1>9, <1>10 DEF IInv

(* Every step of either control block, and of its program, preserves it.   *)
LEMMA NextIInv == IInv /\ [Next]_vars => IInv'
<1> SUFFICES ASSUME IInv, [Next]_vars PROVE IInv'
  OBVIOUS
<1>1. ASSUME NEW e \in Endpoint, Step(e)
      PROVE  IInv'
  <2>1. ASSUME NEW n \in 1..MaxFrag, Send(e, n) PROVE IInv'
    BY <2>1, SendStep
  <2>2. CASE Recv(e)
    BY <2>2, RecvStep
  <2>3. ASSUME NEW p \in net, Input(e, p) PROVE IInv'
    <3>1. CASE InputPush(e, p)
      BY <3>1, InputPushStep
    <3>2. ASSUME /\ Take(e, p) /\ Acknowledge(e, p)
                 /\ UNCHANGED <<stream, delivered, rcvVars, probe_wait, acklist>>
                 /\ probe' \in [Endpoint -> SUBSET {"SEND", "TELL"}]
          PROVE  IInv'
      <4>1. UNCHANGED <<stream, delivered, rcv_nxt, rcv_buf, rcv_queue, probe_wait, acklist>>
        BY <3>2 DEF rcvVars
      <4> QED BY <3>2, <4>1, InputControlStep
    <3>3. probe \in [Endpoint -> SUBSET {"SEND", "TELL"}]
      BY DEF IInv, TypeOK
    <3>4. CASE InputAck(e, p)
      BY <3>2, <3>3, <3>4 DEF InputAck
    <3>5. CASE InputWask(e, p)
      <4>1. probe' \in [Endpoint -> SUBSET {"SEND", "TELL"}]
        BY <3>3, <3>5 DEF InputWask
      <4> QED BY <3>2, <3>5, <4>1 DEF InputWask
    <3>6. CASE InputWins(e, p)
      BY <3>2, <3>3, <3>6 DEF InputWins
    <3> QED BY <2>3, <3>1, <3>4, <3>5, <3>6 DEF Input
  <2>4. CASE Flush(e)
    BY <2>4, FlushStep
  <2>5. CASE AbortInAcks(e)
    BY <2>5, AbortInAcksStep
  <2>6. CASE AbortInProbes(e)
    BY <2>6, AbortInProbesStep
  <2> QED BY <1>1, <2>1, <2>2, <2>3, <2>4, <2>5, <2>6 DEF Step
<1>2. CASE UNCHANGED vars
  <2>1. /\ stream' = stream /\ delivered' = delivered /\ snd_queue' = snd_queue
        /\ snd_buf' = snd_buf /\ snd_una' = snd_una /\ snd_nxt' = snd_nxt
        /\ rcv_nxt' = rcv_nxt /\ rcv_buf' = rcv_buf /\ rcv_queue' = rcv_queue
        /\ rmt_wnd' = rmt_wnd /\ probe' = probe /\ probe_wait' = probe_wait
        /\ acklist' = acklist /\ net' = net
    BY <1>2 DEF vars, sndVars, rcvVars, ctlVars
  <2>2. /\ probe \in [Endpoint -> SUBSET {"SEND", "TELL"}]
        /\ probe_wait \in [Endpoint -> BOOLEAN]
        /\ acklist \in [Endpoint -> SUBSET Nat]
    BY DEF IInv, TypeOK
  <2>3. A \in Endpoint
    BY DEF Endpoint
  <2> QED BY <2>1, <2>2, <2>3, AbortStep
<1> QED BY <1>1, <1>2 DEF Next

(* The inductive invariant holds in every state of every behaviour.        *)
THEOREM Inductive == Spec => []IInv
BY InitIInv, NextIInv, PTL DEF Spec


(* Type correctness of both control blocks, the programs and the network.  *)
THEOREM TypeCorrect == Spec => []TypeOK
<1>1. IInv => TypeOK
  BY DEF IInv
<1> QED BY <1>1, Inductive, PTL

(* ikcp_parse_una and ikcp_parse_ack never drop from snd_buf what the peer *)
(* has not received, so ikcp_flush can always send it again.               *)
THEOREM NothingForgotten == Spec => []KeptUntilHeld
<1>1. IInv => KeptUntilHeld
  BY DEF IInv
<1> QED BY <1>1, Inductive, PTL

(* ikcp_flush keeps at most snd_wnd sequence numbers in flight, and        *)
(* ikcp_shrink_buf keeps snd_una at the first of them.                     *)
THEOREM WindowRespected == Spec => []InFlight
<1>1. IInv => InFlight
  BY DEF IInv
<1> QED BY <1>1, Inductive, PTL

(* ikcp_parse_data and ikcp_recv keep both receive lists within rcv_wnd,   *)
(* whatever the peer sends.                                                *)
THEOREM BuffersBounded == Spec => []WithinWindow
<1>1. IInv => WithinWindow
  BY DEF IInv
<1> QED BY <1>1, Inductive, PTL

(* The two moving loops leave a fragment in rcv_buf that is next in order  *)
(* only when rcv_queue is full.                                            *)
THEOREM MovesAreComplete == Spec => []NoneStranded
<1>1. IInv => NoneStranded
  BY DEF IInv
<1> QED BY <1>1, Inductive, PTL

(* Every datagram in transit is true of its sender, however old it is.     *)
THEOREM NetworkTellsTruth == Spec => []TruthfulNet
<1>1. IInv => TruthfulNet
  BY DEF IInv
<1> QED BY <1>1, Inductive, PTL

(* What ikcp_recv returned is a prefix of what the peer's ikcp_send took,  *)
(* and ends where a message ends.                                          *)
THEOREM DeliveredInOrder == Spec => []InOrder
<1>1. IInv => InOrder
  BY DEF IInv
<1> QED BY <1>1, Inductive, PTL

-----------------------------------------------------------------------------
(* No step moves a sequence number back.                                   *)
LEMMA StepForward ==
  ASSUME IInv, [Next]_vars
  PROVE  Forward
<1> DEFINE Same == snd_una' = snd_una /\ snd_nxt' = snd_nxt /\ rcv_nxt' = rcv_nxt
<1>0. /\ TypeOK /\ InFlight
      /\ \A f \in Endpoint : snd_una[f] \in Nat /\ snd_nxt[f] \in Nat /\ rcv_nxt[f] \in Nat
  BY DEF IInv, TypeOK
<1>1. ASSUME Same PROVE Forward
  BY <1>0, <1>1 DEF Forward
<1>2. ASSUME NEW e \in Endpoint, NEW buf, IsBuffer(buf), NEW que \in Seq(Piece),
             MoveReady(e, buf, que)
      PROVE  \A f \in Endpoint : rcv_nxt'[f] >= rcv_nxt[f]
  <2>1. PICK m \in Nat : rcv_nxt' = [rcv_nxt EXCEPT ![e] = rcv_nxt[e] + m]
    BY <1>0, <1>2, MoveReadyFacts
  <2>2. rcv_nxt \in [Endpoint -> Nat]
    BY <1>0 DEF TypeOK
  <2> QED BY <2>1, <2>2
<1>3. ASSUME NEW e \in Endpoint, NEW p, Take(e, p), Acknowledge(e, p)
      PROVE  \A f \in Endpoint : snd_una'[f] >= snd_una[f] /\ snd_nxt'[f] = snd_nxt[f]
  <2>1. snd_nxt' = snd_nxt /\ snd_una' \in [Endpoint -> Nat]
        /\ \A f \in Endpoint : snd_una[f] <= snd_una'[f]
    BY <1>3, InputCommon
  <2> QED BY <1>0, <2>1
<1>4. ASSUME NEW e \in Endpoint, Step(e)
      PROVE  Forward
  <2>1. ASSUME NEW n \in 1..MaxFrag, Send(e, n) PROVE Forward
    BY <2>1, <1>1 DEF Send, rcvVars
  <2>2. CASE Recv(e)
    <3>1. SubSeq(rcv_queue[e], MessageEnd(rcv_queue[e]) + 1, Len(rcv_queue[e])) \in Seq(Piece)
          /\ MoveReady(e, rcv_buf[e], SubSeq(rcv_queue[e], MessageEnd(rcv_queue[e]) + 1,
                                             Len(rcv_queue[e])))
      BY <1>0, <2>2, RecvFacts
    <3>2. IsBuffer(rcv_buf[e]) /\ snd_una' = snd_una /\ snd_nxt' = snd_nxt
      BY <1>0, <2>2 DEF TypeOK, Recv, sndVars
    <3>3. \A f \in Endpoint : rcv_nxt'[f] >= rcv_nxt[f]
      BY <3>1, <3>2, <1>2
    <3> QED BY <1>0, <3>2, <3>3 DEF Forward
  <2>3. ASSUME NEW p \in net, Input(e, p) PROVE Forward
    <3>1. Take(e, p) /\ Acknowledge(e, p)
      BY <2>3 DEF Input, InputPush, InputAck, InputWask, InputWins
    <3>2. \A f \in Endpoint : snd_una'[f] >= snd_una[f] /\ snd_nxt'[f] = snd_nxt[f]
      BY <3>1, <1>3
    <3>3. \A f \in Endpoint : rcv_nxt'[f] >= rcv_nxt[f]
      <4>1. CASE rcv_nxt' = rcv_nxt
        BY <4>1, <1>0
      <4>2. CASE /\ p.cmd = "PUSH" /\ p.sn \in rcv_nxt[e]..(rcv_nxt[e] + RcvWnd - 1)
                 /\ MoveReady(e, Store(rcv_buf[e], p.sn, p.body), rcv_queue[e])
        <5>1. p.to = e
          BY <3>1 DEF Take
        <5>2. IsBuffer(Store(rcv_buf[e], p.sn, p.body)) /\ rcv_queue[e] \in Seq(Piece)
          BY <1>0, <4>2, <5>1, StoreFacts DEF TypeOK
        <5> QED BY <4>2, <5>2, <1>2
      <4> QED BY <2>3, <4>1, <4>2
              DEF Input, InputPush, InputAck, InputWask, InputWins, rcvVars
    <3> QED BY <1>0, <3>2, <3>3 DEF Forward
  <2>4. CASE Flush(e)
    <3>1. FlushState(e) /\ snd_una' = snd_una /\ rcv_nxt' = rcv_nxt
      BY <2>4 DEF Flush, FlushState, rcvVars
    <3>2. PICK m \in Nat : snd_nxt' = [snd_nxt EXCEPT ![e] = snd_nxt[e] + m]
      BY <1>0, <3>1, FlushFacts
    <3>3. snd_nxt \in [Endpoint -> Nat]
      BY <1>0 DEF TypeOK
    <3>4. \A f \in Endpoint : snd_nxt'[f] >= snd_nxt[f]
      BY <3>2, <3>3
    <3> QED BY <1>0, <3>1, <3>4 DEF Forward
  <2>5. CASE AbortInAcks(e)
    BY <2>5, <1>1 DEF AbortInAcks, sndVars, rcvVars
  <2>6. CASE AbortInProbes(e)
    BY <2>6, <1>1 DEF AbortInProbes, sndVars, rcvVars
  <2> QED BY <1>4, <2>1, <2>2, <2>3, <2>4, <2>5, <2>6 DEF Step
<1>5. CASE UNCHANGED vars
  BY <1>5, <1>1 DEF vars, sndVars, rcvVars
<1> QED BY <1>4, <1>5 DEF Next

(* No stale or repeated segment moves snd_una, snd_nxt or rcv_nxt back.    *)
THEOREM CountersMoveForward == Spec => NeverBack
<1>1. IInv /\ [Next]_vars => [Forward]_vars
  BY StepForward
<1> QED BY <1>1, Inductive, PTL DEF Spec, NeverBack

-----------------------------------------------------------------------------
(* One ikcp_recv hands over one message of the abstract stream.            *)
LEMMA RecvDelivers ==
  ASSUME IInv, NEW e \in Endpoint, Recv(e)
  PROVE  Abstract!Deliver(e)
<1> DEFINE que == rcv_queue[e]
           k   == MessageEnd(que)
           s   == stream[Peer(e)]
           d   == Len(delivered[e])
           q   == Len(que)
           len == Len(s)
           frg == que[1].frg
           got == SubSeq(que, 1, k)
           msg == SubSeq(s, d + 1, (d + 1) + s[d + 1].frg)
<1>1. Complete(que) /\ k \in 1..q
  BY RecvFacts DEF IInv
<1>2. k = frg + 1
  BY <1>1, MessageEndIsFrame
<1>3. /\ d \in Nat /\ q \in Nat /\ len \in Nat /\ d + q <= len
      /\ que \in Seq(Piece) /\ s \in Seq(Piece)
  <2>1. /\ rcv_nxt[e] = d + q /\ rcv_nxt[e] <= snd_nxt[Peer(e)] /\ snd_nxt[Peer(e)] <= len
        /\ d \in Nat /\ q \in Nat /\ len \in Nat /\ snd_nxt[Peer(e)] \in Nat
    BY Numbered
  <2>2. que \in Seq(Piece) /\ s \in Seq(Piece)
    BY PeerFacts DEF IInv, TypeOK
  <2> HIDE DEF d, q, len, que, s
  <2>3. d + q <= len
    BY <2>1
  <2> QED BY <2>1, <2>2, <2>3
<1>4. \A i \in 1..q : que[i] = s[d + i]
  BY DEF IInv, ReceiveSide
<1>5. frg \in Nat
  <2>1. que[1] \in Piece
    <3>1. 1 \in 1..q
      BY <1>1, <1>3
    <3> QED BY <3>1, <1>3
  <2> QED BY <2>1 DEF Piece
<1>6. stream' = stream /\ delivered' = [delivered EXCEPT ![e] = delivered[e] \o got]
  BY DEF Recv, IInv, TypeOK
<1>7. q <= len
  <2> HIDE DEF d, q, len
  <2> QED BY <1>3
<1> HIDE DEF que, k, s, d, frg
<1>8. /\ got \in Seq(Piece) /\ Len(got) = k
      /\ \A i \in 1..k : got[i] = que[i]
  BY <1>1, <1>3
<1>9. que[1] = s[d + 1] /\ s[d + 1].frg = frg
  <2>1. 1 \in 1..q
    BY <1>1, <1>3
  <2>2. que[1] = s[d + 1]
    BY <2>1, <1>4
  <2> QED BY <2>2 DEF frg
<1>10. /\ msg \in Seq(Piece) /\ Len(msg) = k
       /\ \A i \in 1..k : msg[i] = s[d + i]
  <2> DEFINE hi == (d + 1) + frg
  <2>1. /\ d + 1 \in Int /\ hi \in Int /\ d + 1 <= hi
        /\ hi = d + k /\ hi - (d + 1) + 1 = k
        /\ \A i \in (d + 1)..hi : i \in 1..len
    <3> HIDE DEF q, len
    <3> QED BY <1>1, <1>2, <1>3, <1>5
  <2> HIDE DEF hi
  <2>2. \A i \in (d + 1)..hi : s[i] \in Piece
    BY <2>1, <1>3
  <2>3. /\ SubSeq(s, d + 1, hi) \in Seq(Piece)
        /\ Len(SubSeq(s, d + 1, hi)) = IF d + 1 <= hi THEN hi - (d + 1) + 1 ELSE 0
        /\ \A i \in 1..(hi - (d + 1) + 1) : SubSeq(s, d + 1, hi)[i] = s[(d + 1) + i - 1]
    BY <2>1, <2>2, SubSeqProperties
  <2>4. \A i \in 1..k : (d + 1) + i - 1 = d + i
    BY <1>1, <1>3
  <2>5. msg = SubSeq(s, d + 1, hi)
    BY <1>9 DEF hi
  <2> HIDE DEF msg
  <2> QED BY <2>1, <2>3, <2>4, <2>5
<1> HIDE DEF got, msg
<1>11. got = msg
  <2>1. \A i \in 1..k : got[i] = msg[i]
    <3>1. \A i \in 1..k : i \in 1..q
      BY <1>1, <1>3
    <3> QED BY <3>1, <1>4, <1>8, <1>10
  <2> QED BY <2>1, <1>8, <1>10, SeqEqual
<1>12. d + 1 <= len
  <2> HIDE DEF q, len
  <2> QED BY <1>1, <1>3
<1>13. delivered' = [delivered EXCEPT ![e] =
                        delivered[e] \o SubSeq(s, d + 1, (d + 1) + s[d + 1].frg)]
  BY <1>6, <1>11 DEF msg
<1>14. Abstract!Peer(e) = Peer(e)
  BY DEF Abstract!Peer, Peer
<1> QED BY <1>6, <1>12, <1>13, <1>14 DEF Abstract!Deliver, s, d

(* Whatever the ARQ machinery does between ikcp_send and ikcp_recv is a    *)
(* stuttering step of the stream.                                          *)
LEMMA StepRefines ==
  ASSUME IInv, [Next]_vars
  PROVE  [Abstract!Next]_(Abstract!vars)
<1>1. ASSUME stream' = stream, delivered' = delivered
      PROVE  UNCHANGED Abstract!vars
  BY <1>1 DEF Abstract!vars
<1>2. Abstract!Endpoint = Endpoint
  BY DEF Abstract!Endpoint, Endpoint
<1>3. ASSUME NEW e \in Endpoint, Step(e)
      PROVE  Abstract!Next \/ UNCHANGED Abstract!vars
  <2>1. ASSUME NEW n \in 1..MaxFrag, e \in Senders, Send(e, n)
        PROVE  Abstract!Next
    <3>1. Abstract!Send(e, n)
      BY <2>1 DEF Send, Abstract!Send, Fragments, Abstract!Fragments
    <3> QED BY <2>1, <3>1, <1>2 DEF Abstract!Next
  <2>2. CASE Recv(e)
    BY <2>2, <1>2, RecvDelivers DEF Abstract!Next
  <2>3. ASSUME NEW p \in net, Input(e, p)
        PROVE  UNCHANGED Abstract!vars
    BY <2>3, <1>1 DEF Input, InputPush, InputAck, InputWask, InputWins
  <2>4. CASE Flush(e)
    BY <2>4, <1>1 DEF Flush, FlushState
  <2>5. CASE AbortInAcks(e)
    BY <2>5, <1>1 DEF AbortInAcks
  <2>6. CASE AbortInProbes(e)
    BY <2>6, <1>1 DEF AbortInProbes
  <2> QED BY <1>3, <2>1, <2>2, <2>3, <2>4, <2>5, <2>6 DEF Step
<1>4. CASE UNCHANGED vars
  BY <1>4, <1>1 DEF vars
<1> QED BY <1>3, <1>4 DEF Next

(* Two control blocks and a network that loses, repeats and reorders are a *)
(* stream of whole messages to the programs at their ends.                 *)
THEOREM RefinesStream == Spec => ImplementsStream
<1>1. Init => Abstract!Init
  BY DEF Init, Abstract!Init, Endpoint, Abstract!Endpoint
<1>2. IInv /\ [Next]_vars => [Abstract!Next]_(Abstract!vars)
  BY StepRefines
<1> QED BY <1>1, <1>2, Inductive, PTL DEF Spec, ImplementsStream, Abstract!Spec

-----------------------------------------------------------------------------
(***************************************************************************)
(* Each direction implements the sliding window.  The direction from e to  *)
(* f is mapped as AtoB and BtoA are.                                       *)
(***************************************************************************)
Way(e, f) == INSTANCE SlidingWindow
             WITH FirstWnd <- RmtWnd, Base <- 0,
                  sent <- snd_nxt[e], out <- DOMAIN snd_buf[e], una <- snd_una[e],
                  wnd <- rmt_wnd[e],
                  nxt <- rcv_nxt[f], got <- DOMAIN rcv_buf[f], held <- Len(rcv_queue[f])

LEMMA WayMin ==
  ASSUME NEW e, NEW f, NEW S \in SUBSET Nat, NEW x \in S, \A y \in S : x <= y
  PROVE  Way(e, f)!Min(S) = x
<1>1. Min(S) \in S /\ \A y \in S : Min(S) <= y
  BY MinNat
<1>2. Min(S) <= x /\ x <= Min(S) /\ Min(S) \in Nat /\ x \in Nat
  BY <1>1
<1>3. Min(S) = x
  BY <1>2
<1>4. Way(e, f)!Min(S) = Min(S)
  BY DEF Way!Min, Min
<1> QED BY <1>3, <1>4

(* An arriving segment, as far as it is about what e sent.                 *)
LEMMA LearnsOf ==
  ASSUME IInv, NEW e \in Endpoint, NEW p, Take(e, p), Acknowledge(e, p),
         UNCHANGED <<rcv_nxt[Peer(e)], rcv_buf[Peer(e)], rcv_queue[Peer(e)]>>
  PROVE  Way(e, Peer(e))!Learn
<1> DEFINE f == Peer(e)
<1>0. TypeOK /\ TruthfulNet /\ InFlight
  BY DEF IInv
<1>1. /\ p \in Packet /\ p \in net /\ p.to = e /\ snd_nxt' = snd_nxt
      /\ \A g \in Endpoint : IsBuffer(snd_buf'[g])
      /\ snd_una' \in [Endpoint -> Nat] /\ InFlight'
  BY InputCommon
<1>2. DOMAIN snd_buf'[e] = Unacked(e, p)
  BY <1>0, <1>1, AcknowledgeFacts
<1>3. /\ p.una <= rcv_nxt[f] /\ p.wnd <= RcvWnd
      /\ p.cmd = "ACK" => Holds(f, p.sn)
      /\ p.wnd \in Nat /\ p.una \in Nat /\ f \in Endpoint
      /\ rcv_nxt[f] \in Nat
  BY <1>0, <1>1, PeerFacts DEF TruthfulNet, Packet, TypeOK
<1>4. ASSUME NEW sn \in DOMAIN snd_buf[e], sn \notin DOMAIN snd_buf'[e]
      PROVE  Way(e, f)!Arrived(sn)
  <2>1. sn < p.una \/ (p.cmd = "ACK" /\ sn = p.sn)
    <3>1. sn \in Nat
      BY <1>0 DEF TypeOK, IsBuffer
    <3> QED BY <1>2, <1>3, <1>4, <3>1 DEF Unacked
  <2>2. sn \in Nat
    BY <1>0 DEF TypeOK, IsBuffer
  <2>3. sn < rcv_nxt[f] \/ sn \in DOMAIN rcv_buf[f]
    BY <1>3, <2>1, <2>2 DEF Holds
  <2> QED BY <2>3 DEF Way!Arrived
<1>5. snd_una'[e] = Way(e, f)!Min(DOMAIN snd_buf'[e] \cup {snd_nxt[e]})
  <2> DEFINE S == DOMAIN snd_buf'[e] \cup {snd_nxt[e]}
  <2>1. /\ DOMAIN snd_buf'[e] \subseteq snd_una'[e]..(snd_nxt[e] - 1)
        /\ snd_una'[e] \in S
    BY <1>1 DEF InFlight
  <2>2. snd_nxt[e] \in Nat /\ snd_una'[e] \in Nat /\ DOMAIN snd_buf'[e] \subseteq Nat
    BY <1>0, <1>1 DEF TypeOK, IsBuffer
  <2>3. \A y \in S : snd_una'[e] <= y
    BY <2>1, <2>2
  <2>4. S \in SUBSET Nat
    BY <2>2
  <2> HIDE DEF S
  <2>5. Way(e, f)!Min(S) = snd_una'[e]
    BY <2>1, <2>3, <2>4, WayMin
  <2> QED BY <2>5 DEF S
<1>6. DOMAIN snd_buf'[e] \subseteq DOMAIN snd_buf[e]
  BY <1>2 DEF Unacked
<1>7. rmt_wnd'[e] \in 0..RcvWnd
  <2>1. rmt_wnd'[e] = p.wnd
    BY <1>0 DEF Acknowledge, TypeOK
  <2> QED BY <2>1, <1>3, SizesAssumption
<1>8. snd_nxt'[e] = snd_nxt[e]
  BY <1>1
<1> QED BY <1>4, <1>5, <1>6, <1>7, <1>8 DEF Way!Learn, Way!rcvVars

(* Both moving loops, as far as they are about what e receives of f.       *)
LEMMA MovesOf ==
  ASSUME IInv, NEW f \in Endpoint, NEW buf, IsBuffer(buf),
         NEW que \in Seq(Piece), Len(que) <= RcvWnd, MoveReady(f, buf, que),
         UNCHANGED <<snd_nxt[Peer(f)], snd_buf[Peer(f)], snd_una[Peer(f)],
                     rmt_wnd[Peer(f)]>>
  PROVE  \E m \in 0..RcvWnd : Way(Peer(f), f)!Move(m, DOMAIN buf, Len(que))
<1>0. TypeOK
  BY DEF IInv
<1>1. PICK m \in Nat :
           /\ rcv_nxt' = [rcv_nxt EXCEPT ![f] = rcv_nxt[f] + m]
           /\ Len(rcv_queue'[f]) = Len(que) + m
           /\ \A i \in Nat : i < m => rcv_nxt[f] + i \in DOMAIN buf /\ Len(que) + i < RcvWnd
           /\ DOMAIN rcv_buf'[f] = DOMAIN buf \ (rcv_nxt[f]..(rcv_nxt[f] + m - 1))
           /\ rcv_nxt[f] + m \notin DOMAIN buf \/ Len(que) + m >= RcvWnd
  <2>1. \E m \in Nat :
           /\ rcv_nxt' = [rcv_nxt EXCEPT ![f] = rcv_nxt[f] + m]
           /\ Len(rcv_queue'[f]) = Len(que) + m
           /\ \A i \in Nat : i < m =>
                 /\ rcv_queue'[f][Len(que) + i + 1] = buf[rcv_nxt[f] + i]
                 /\ rcv_nxt[f] + i \in DOMAIN buf
                 /\ Len(que) + i < RcvWnd
           /\ DOMAIN rcv_buf'[f] = DOMAIN buf \ (rcv_nxt[f]..(rcv_nxt[f] + m - 1))
           /\ rcv_nxt[f] + m \notin DOMAIN buf \/ Len(que) + m >= RcvWnd
    BY <1>0, MoveReadyFacts
  <2> QED BY <2>1
<1>2. rcv_nxt[f] \in Nat /\ Len(que) \in Nat /\ RcvWnd \in Nat /\ rcv_nxt'[f] = rcv_nxt[f] + m
  BY <1>0, <1>1, SizesAssumption DEF TypeOK
<1>3. Len(que) + m <= RcvWnd
  <2>1. CASE m = 0
    BY <2>1, <1>2
  <2>2. CASE m # 0
    <3>1. Len(que) + (m - 1) < RcvWnd
      BY <2>2, <1>1
    <3> QED BY <3>1, <1>2
  <2> QED BY <2>1, <2>2
<1>4. rcv_nxt[f]..(rcv_nxt'[f] - 1) \subseteq DOMAIN buf
  <2> SUFFICES ASSUME NEW k \in rcv_nxt[f]..(rcv_nxt'[f] - 1) PROVE k \in DOMAIN buf
    OBVIOUS
  <2>1. k - rcv_nxt[f] \in Nat /\ k - rcv_nxt[f] < m /\ rcv_nxt[f] + (k - rcv_nxt[f]) = k
    BY <1>2
  <2> QED BY <1>1, <2>1
<1>5. rcv_nxt'[f] \in DOMAIN buf => Len(que) + m = RcvWnd
  BY <1>1, <1>2, <1>3
<1>6. m \in 0..RcvWnd
  BY <1>2, <1>3
<1>7. DOMAIN rcv_buf'[f] = DOMAIN buf \ (rcv_nxt[f]..(rcv_nxt'[f] - 1))
  BY <1>1, <1>2
<1>8. Way(Peer(f), f)!Move(m, DOMAIN buf, Len(que))
  BY <1>1, <1>2, <1>3, <1>4, <1>5, <1>7 DEF Way!Move, Way!sndVars
<1> QED BY <1>6, <1>8

(* A flush, as far as it is about what e sends.                            *)
LEMMA SendsOf ==
  ASSUME IInv, NEW e \in Endpoint, Flush(e)
  PROVE  [Way(e, Peer(e))!Next]_(Way(e, Peer(e))!vars)
<1> DEFINE f == Peer(e)
<1>0. TypeOK /\ InFlight /\ FlushState(e)
  BY DEF IInv, Flush
<1>1. PICK m \in Nat :
           /\ m = 0 \/ snd_nxt[e] + m <= snd_una[e] + Window(e)
           /\ m = 0 \/ snd_nxt[e] + m <= snd_una[e] + SndWnd
           /\ snd_nxt' = [snd_nxt EXCEPT ![e] = snd_nxt[e] + m]
           /\ DOMAIN snd_buf'[e] = DOMAIN snd_buf[e] \cup (snd_nxt[e]..(snd_nxt[e] + m - 1))
  <2> HIDE DEF f
  <2>1. \E m \in Nat :
           /\ m = 0 \/ snd_nxt[e] + m <= snd_una[e] + Window(e)
           /\ m = 0 \/ snd_nxt[e] + m <= snd_una[e] + SndWnd
           /\ snd_nxt' = [snd_nxt EXCEPT ![e] = snd_nxt[e] + m]
           /\ DOMAIN snd_buf'[e] = DOMAIN snd_buf[e] \cup (snd_nxt[e]..(snd_nxt[e] + m - 1))
    BY <1>0, FlushFacts
  <2> QED BY <2>1
<1>2. /\ snd_nxt'[e] = snd_nxt[e] + m
      /\ snd_una' = snd_una /\ rmt_wnd' = rmt_wnd
      /\ UNCHANGED <<rcv_nxt, rcv_buf, rcv_queue>>
  BY <1>0, <1>1 DEF TypeOK, FlushState, rcvVars
<1>3. /\ snd_nxt[e] \in Nat /\ snd_una[e] \in Nat /\ rmt_wnd[e] \in Nat
      /\ snd_una[e] <= snd_nxt[e] /\ SndWnd \in Nat /\ SndWnd > 0
  <2>1. /\ snd_nxt[e] \in Nat /\ snd_una[e] \in Nat /\ rmt_wnd[e] \in Nat
        /\ SndWnd \in Nat /\ SndWnd > 0
    BY <1>0, SizesAssumption DEF TypeOK
  <2>2. snd_una[e] \in (snd_una[e]..(snd_nxt[e] - 1)) \cup {snd_nxt[e]}
    BY <1>0 DEF InFlight
  <2> QED BY <2>1, <2>2
<1>4. CASE m = 0
  <2>1. /\ DOMAIN snd_buf'[e] = DOMAIN snd_buf[e] /\ snd_nxt'[e] = snd_nxt[e]
    BY <1>1, <1>2, <1>3, <1>4
  <2> QED BY <1>2, <2>1 DEF Way!vars, Way!sndVars, Way!rcvVars
<1>5. CASE m # 0
  <2>1. m \in 1..SndWnd
    BY <1>1, <1>3, <1>5
  <2>2. Way(e, f)!Min({SndWnd, rmt_wnd[e]}) = Window(e)
    <3>1. Window(e) \in {SndWnd, rmt_wnd[e]} /\ \A y \in {SndWnd, rmt_wnd[e]} : Window(e) <= y
      BY <1>3 DEF Window
    <3>2. {SndWnd, rmt_wnd[e]} \in SUBSET Nat
      BY <1>3
    <3> QED BY <3>1, <3>2, WayMin
  <2>3. snd_nxt'[e] <= snd_una[e] + Way(e, f)!Min({SndWnd, rmt_wnd[e]})
    BY <1>1, <1>2, <1>5, <2>2
  <2>4. DOMAIN snd_buf'[e] = DOMAIN snd_buf[e] \cup (snd_nxt[e]..(snd_nxt'[e] - 1))
    <3>1. snd_nxt'[e] - 1 = snd_nxt[e] + m - 1
      BY <1>2, <1>3
    <3> QED BY <1>1, <3>1
  <2>5. Way(e, f)!Send(m)
    BY <1>2, <2>3, <2>4 DEF Way!Send, Way!rcvVars
  <2> QED BY <2>1, <2>5 DEF Way!Next
<1> QED BY <1>4, <1>5

(* What the other end does, and what an end does with nothing of it.       *)
LEMMA WayStutters ==
  ASSUME NEW e \in Endpoint,
         UNCHANGED <<snd_nxt[e], snd_buf[e], snd_una[e], rmt_wnd[e]>>,
         UNCHANGED <<rcv_nxt[Peer(e)], rcv_buf[Peer(e)], rcv_queue[Peer(e)]>>
  PROVE  UNCHANGED Way(e, Peer(e))!vars
BY DEF Way!vars, Way!sndVars, Way!rcvVars

(* A moving loop at one end leaves what the other one has received alone.  *)
LEMMA OthersReceived ==
  ASSUME TypeOK, NEW g \in Endpoint, NEW f \in Endpoint, f # g,
         NEW buf, NEW que, MoveReady(g, buf, que)
  PROVE  UNCHANGED <<rcv_nxt[f], rcv_buf[f], rcv_queue[f]>>
BY DEF TypeOK, MoveReady

(* A step of the receiver, which acknowledges and reads.                   *)
LEMMA ReceiverStep ==
  ASSUME IInv, NEW e \in Endpoint, NEW p \in net, Input(Peer(e), p)
  PROVE  [Way(e, Peer(e))!Next]_(Way(e, Peer(e))!vars)
<1> DEFINE f   == Peer(e)
           in  == p.sn \in rcv_nxt[f]..(rcv_nxt[f] + RcvWnd - 1)
           buf == Store(rcv_buf[f], p.sn, p.body)
<1>0. /\ TypeOK /\ TruthfulNet /\ InFlight /\ WithinWindow
      /\ f \in Endpoint /\ e # f /\ Peer(f) = e
  BY PeerFacts DEF IInv
<1>1. Take(f, p) /\ Acknowledge(f, p)
  BY DEF Input, InputPush, InputAck, InputWask, InputWins
<1>2. UNCHANGED <<snd_nxt[e], snd_buf[e], snd_una[e], rmt_wnd[e]>>
  BY <1>0, <1>1 DEF TypeOK, Acknowledge
<1>3. CASE rcv_nxt' = rcv_nxt /\ rcv_buf' = rcv_buf /\ rcv_queue' = rcv_queue
  BY <1>2, <1>3, WayStutters
<1>4. CASE p.cmd = "PUSH" /\ in /\ MoveReady(f, buf, rcv_queue[f])
  <2>1. p.to = f
    BY <1>1 DEF Take
  <2>2. IsBuffer(buf) /\ DOMAIN buf = DOMAIN rcv_buf[f] \cup {p.sn}
    BY <1>0, <1>4, <2>1, StoreFacts
  <2>3. rcv_queue[f] \in Seq(Piece) /\ Len(rcv_queue[f]) <= RcvWnd
    BY <1>0 DEF TypeOK, WithinWindow
  <2> HIDE DEF buf
  <2>4. PICK m \in 0..RcvWnd : Way(Peer(f), f)!Move(m, DOMAIN buf, Len(rcv_queue[f]))
    BY <1>0, <1>2, <1>4, <2>2, <2>3, MovesOf
  <2>5. p.sn < snd_nxt[e]
    BY <1>0, <1>4, <2>1 DEF TruthfulNet
  <2>6. p.sn \in rcv_nxt[f]..(snd_nxt[e] - 1)
    <3>1. rcv_nxt[f] \in Nat /\ snd_nxt[e] \in Nat /\ RcvWnd \in Nat
      BY <1>0, SizesAssumption DEF TypeOK
    <3> QED BY <1>4, <2>5, <3>1
  <2>7. Way(e, f)!Move(m, DOMAIN rcv_buf[f] \cup {p.sn}, Len(rcv_queue[f]))
    BY <1>0, <2>2, <2>4
  <2>8. Way(e, f)!Receive(p.sn, m)
    BY <1>4, <2>5, <2>7 DEF Way!Receive
  <2> QED BY <2>6, <2>8 DEF Way!Next
<1> QED BY <1>3, <1>4 DEF Input, InputPush, InputAck, InputWask, InputWins, rcvVars

LEMMA ReaderStep ==
  ASSUME IInv, NEW e \in Endpoint, Recv(Peer(e))
  PROVE  Way(e, Peer(e))!Next
<1> DEFINE f    == Peer(e)
           que  == rcv_queue[f]
           k    == MessageEnd(que)
           rest == SubSeq(que, k + 1, Len(que))
<1>0. /\ TypeOK /\ WithinWindow
      /\ f \in Endpoint /\ Peer(f) = e
  BY PeerFacts DEF IInv
<1>1. k \in 1..Len(que) /\ rest \in Seq(Piece) /\ Len(rest) = Len(que) - k
      /\ MoveReady(f, rcv_buf[f], rest)
  BY <1>0, RecvFacts
<1>2. Len(que) \in Nat /\ Len(que) <= RcvWnd /\ IsBuffer(rcv_buf[f]) /\ RcvWnd \in Nat
  BY <1>0, SizesAssumption DEF TypeOK, WithinWindow
<1>3. UNCHANGED <<snd_nxt, snd_buf, snd_una, rmt_wnd>>
  BY DEF Recv, sndVars
<1> HIDE DEF que, k, rest
<1>4. k \in 1..RcvWnd /\ k <= Len(que) /\ Len(rest) <= RcvWnd
  BY <1>1, <1>2
<1>5. PICK m \in 0..RcvWnd : Way(Peer(f), f)!Move(m, DOMAIN rcv_buf[f], Len(rest))
  BY <1>0, <1>1, <1>2, <1>3, <1>4, MovesOf
<1>6. Way(e, f)!Move(m, DOMAIN rcv_buf[f], Len(que) - k)
  BY <1>0, <1>1, <1>5
<1>7. Way(e, f)!Read(k, m)
  BY <1>4, <1>6 DEF Way!Read, que
<1> QED BY <1>4, <1>7 DEF Way!Next

(* Every step of either end is a step of the window, or none of it.        *)
LEMMA StepInWindow ==
  ASSUME IInv, [Next]_vars, NEW e \in Endpoint
  PROVE  [Way(e, Peer(e))!Next]_(Way(e, Peer(e))!vars)
<1> DEFINE f == Peer(e)
<1>0. /\ TypeOK /\ InFlight /\ f \in Endpoint /\ e # f /\ Peer(f) = e
      /\ \A g \in Endpoint : g = e \/ g = f
  BY PeerFacts DEF IInv
<1>1. ASSUME UNCHANGED <<snd_nxt, snd_buf, snd_una, rmt_wnd>>,
             UNCHANGED <<rcv_nxt, rcv_buf, rcv_queue>>
      PROVE  UNCHANGED Way(e, f)!vars
  BY <1>1, WayStutters
<1>2. CASE Recv(e)
  <2>1. MoveReady(e, rcv_buf[e], SubSeq(rcv_queue[e], MessageEnd(rcv_queue[e]) + 1,
                                        Len(rcv_queue[e])))
    BY <1>2 DEF Recv
  <2>2. UNCHANGED <<rcv_nxt[f], rcv_buf[f], rcv_queue[f]>>
    BY <1>0, <2>1, OthersReceived
  <2> QED BY <1>2, <2>2, WayStutters DEF Recv, sndVars
<1>3. ASSUME NEW p \in net, Input(e, p)
      PROVE  Way(e, f)!Next
  <2>1. Take(e, p) /\ Acknowledge(e, p)
    BY <1>3 DEF Input, InputPush, InputAck, InputWask, InputWins
  <2>2. UNCHANGED <<rcv_nxt[f], rcv_buf[f], rcv_queue[f]>>
    <3>1. CASE rcv_nxt' = rcv_nxt /\ rcv_buf' = rcv_buf /\ rcv_queue' = rcv_queue
      BY <3>1
    <3>2. CASE MoveReady(e, Store(rcv_buf[e], p.sn, p.body), rcv_queue[e])
      BY <1>0, <3>2, OthersReceived
    <3> QED BY <1>3, <3>1, <3>2
            DEF Input, InputPush, InputAck, InputWask, InputWins, rcvVars
  <2>3. Way(e, f)!Learn
    BY <2>1, <2>2, LearnsOf
  <2> QED BY <2>3 DEF Way!Next
<1>4. CASE Flush(f)
  <2>1. FlushState(f)
    BY <1>4 DEF Flush
  <2> QED BY <1>0, <2>1, WayStutters DEF FlushState, rcvVars, TypeOK
<1>5. ASSUME NEW g \in Endpoint, Step(g)
      PROVE  [Way(e, f)!Next]_(Way(e, f)!vars)
  <2>1. ASSUME NEW n \in 1..MaxFrag, Send(g, n) PROVE UNCHANGED Way(e, f)!vars
    BY <2>1, <1>1 DEF Send, rcvVars, ctlVars
  <2>2. ASSUME NEW p \in net, Input(g, p) PROVE [Way(e, f)!Next]_(Way(e, f)!vars)
    BY <2>2, <1>0, <1>3, ReceiverStep
  <2>3. CASE Recv(g)
    BY <2>3, <1>0, <1>2, ReaderStep
  <2>4. CASE Flush(g)
    BY <2>4, <1>0, <1>4, SendsOf
  <2>5. CASE AbortInAcks(g)
    BY <2>5, <1>1 DEF AbortInAcks, sndVars, rcvVars, ctlVars
  <2>6. CASE AbortInProbes(g)
    BY <2>6, <1>1 DEF AbortInProbes, sndVars, rcvVars
  <2> QED BY <1>5, <2>1, <2>2, <2>3, <2>4, <2>5, <2>6 DEF Step
<1>6. CASE UNCHANGED vars
  BY <1>6, <1>1 DEF vars, sndVars, rcvVars, ctlVars
<1> QED BY <1>5, <1>6 DEF Next

(* Both directions of a conversation are sliding windows.                  *)
THEOREM RefinesWindow == Spec => ImplementsWindow
<1>1. Init => AtoB!Init /\ BtoA!Init
  BY DEF Init, AtoB!Init, BtoA!Init, Endpoint
<1>2. [Way(A, B)!Next]_(Way(A, B)!vars) => [AtoB!Next]_(AtoB!vars)
  BY DEF Way!Next, AtoB!Next, Way!Send, AtoB!Send, Way!Learn, AtoB!Learn,
         Way!Receive, AtoB!Receive, Way!Read, AtoB!Read, Way!Move, AtoB!Move,
         Way!Arrived, AtoB!Arrived, Way!Min, AtoB!Min, Way!vars, AtoB!vars,
         Way!rcvVars, AtoB!rcvVars, Way!sndVars, AtoB!sndVars
<1>3. [Way(B, A)!Next]_(Way(B, A)!vars) => [BtoA!Next]_(BtoA!vars)
  BY DEF Way!Next, BtoA!Next, Way!Send, BtoA!Send, Way!Learn, BtoA!Learn,
         Way!Receive, BtoA!Receive, Way!Read, BtoA!Read, Way!Move, BtoA!Move,
         Way!Arrived, BtoA!Arrived, Way!Min, BtoA!Min, Way!vars, BtoA!vars,
         Way!rcvVars, BtoA!rcvVars, Way!sndVars, BtoA!sndVars
<1>4. A \in Endpoint /\ B \in Endpoint /\ Peer(A) = B /\ Peer(B) = A
  BY EndsAssumption DEF Endpoint, Peer
<1>5. IInv /\ [Next]_vars => [AtoB!Next]_(AtoB!vars) /\ [BtoA!Next]_(BtoA!vars)
  <2> SUFFICES ASSUME IInv, [Next]_vars
               PROVE  [AtoB!Next]_(AtoB!vars) /\ [BtoA!Next]_(BtoA!vars)
    OBVIOUS
  <2>1. /\ [Way(A, Peer(A))!Next]_(Way(A, Peer(A))!vars)
        /\ [Way(B, Peer(B))!Next]_(Way(B, Peer(B))!vars)
    BY <1>4, StepInWindow
  <2> QED BY <1>2, <1>3, <1>4, <2>1
<1> QED BY <1>1, <1>5, Inductive, PTL DEF Spec, ImplementsWindow, AtoB!Spec, BtoA!Spec

-----------------------------------------------------------------------------
(* Fragments of accepted messages only.                                    *)
SmallMessages ==
    \A e \in Endpoint : \A i \in 1..Len(stream[e]) : stream[e][i].frg < MaxFrag

LEMMA NextSmallMessages ==
  ASSUME IInv, SmallMessages, [Next]_vars
  PROVE  SmallMessages'
<1>1. ASSUME stream' = stream
      PROVE  SmallMessages'
  BY <1>1 DEF SmallMessages
<1>2. ASSUME NEW e \in Endpoint, Step(e)
      PROVE  SmallMessages'
  <2>1. ASSUME NEW n \in 1..MaxFrag, e \in Senders, Send(e, n)
        PROVE  SmallMessages'
    <3> DEFINE s == stream[e]
               f == Fragments(Len(s), n)
    <3>1. /\ s \in Seq(Piece) /\ Len(s) \in Nat /\ n \in Nat /\ MaxFrag \in Nat
          /\ stream' = [stream EXCEPT ![e] = s \o f]
      BY <2>1, SizesAssumption DEF IInv, TypeOK, Send
    <3>2. f \in Seq(Piece) /\ Len(f) = n /\ \A i \in 1..n : f[i].frg = n - i
      <4>1. /\ f \in Seq(Piece) /\ Len(f) = n
            /\ \A i \in 1..n : f[i] = [frg |-> n - i, data |-> Len(s) + i]
        <5> HIDE DEF s
        <5> QED BY <3>1, FragmentsFacts
      <4> HIDE DEF f, s
      <4> QED BY <4>1
    <3> HIDE DEF f
    <3>3. /\ Len(s \o f) = Len(s) + n
          /\ \A i \in 1..(Len(s) + n) :
                (s \o f)[i] = IF i <= Len(s) THEN s[i] ELSE f[i - Len(s)]
      BY <3>1, <3>2, ConcatProperties
    <3>4. ASSUME NEW i \in 1..Len(s \o f) PROVE (s \o f)[i].frg < MaxFrag
      <4>1. CASE i <= Len(s)
        <5>1. i \in 1..Len(s) /\ (s \o f)[i] = s[i]
          BY <3>1, <3>3, <4>1
        <5> QED BY <5>1 DEF SmallMessages
      <4>2. CASE i > Len(s)
        <5>1. i - Len(s) \in 1..n /\ (s \o f)[i] = f[i - Len(s)]
          BY <3>1, <3>3, <4>2
        <5>2. f[i - Len(s)].frg = n - (i - Len(s))
          BY <3>2, <5>1
        <5> QED BY <3>1, <5>1, <5>2
      <4> QED BY <3>1, <3>3, <4>1, <4>2
    <3>5. stream'[e] = s \o f /\ \A g \in Endpoint \ {e} : stream'[g] = stream[g]
      BY <3>1 DEF IInv, TypeOK
    <3> HIDE DEF s
    <3>6. ASSUME NEW g \in Endpoint, NEW i \in 1..Len(stream'[g])
          PROVE  stream'[g][i].frg < MaxFrag
      <4>1. CASE g = e
        BY <3>4, <3>5, <3>6, <4>1
      <4>2. CASE g # e
        BY <3>5, <3>6, <4>2 DEF SmallMessages
      <4> QED BY <4>1, <4>2
    <3> QED BY <3>6 DEF SmallMessages
  <2>2. CASE Recv(e)
    BY <2>2, <1>1 DEF Recv
  <2>3. ASSUME NEW p \in net, Input(e, p)
        PROVE  SmallMessages'
    BY <2>3, <1>1 DEF Input, InputPush, InputAck, InputWask, InputWins
  <2>4. CASE Flush(e)
    BY <2>4, <1>1 DEF Flush, FlushState
  <2>5. CASE AbortInAcks(e) \/ AbortInProbes(e)
    BY <2>5, <1>1 DEF AbortInAcks, AbortInProbes
  <2> QED BY <1>2, <2>1, <2>2, <2>3, <2>4, <2>5 DEF Step
<1>3. CASE UNCHANGED vars
  BY <1>3, <1>1 DEF vars
<1> QED BY <1>2, <1>3 DEF Next

LEMMA FullHoldsMessage ==
  ASSUME IInv, SmallMessages, MaxFrag <= RcvWnd
  PROVE  FullIsReadable
<1> SUFFICES ASSUME NEW e \in Endpoint, Len(rcv_queue[e]) >= RcvWnd
             PROVE  Complete(rcv_queue[e])
  BY DEF FullIsReadable
<1> DEFINE que == rcv_queue[e]
           s   == stream[Peer(e)]
           d   == Len(delivered[e])
<1>1. /\ d \in Nat /\ Len(que) \in Nat /\ Len(s) \in Nat
      /\ rcv_nxt[e] = d + Len(que) /\ rcv_nxt[e] <= snd_nxt[Peer(e)]
      /\ snd_nxt[Peer(e)] <= Len(s) /\ snd_nxt[Peer(e)] \in Nat
  BY Numbered
<1>2. que \in Seq(Piece) /\ Peer(e) \in Endpoint
  BY PeerFacts DEF IInv, TypeOK
<1>3. \A i \in 1..Len(que) : que[i] = s[d + i]
  BY DEF IInv, ReceiveSide
<1>4. \A i \in 1..Len(s) : s[i].frg < MaxFrag
  BY <1>2 DEF SmallMessages
<1> HIDE DEF que, s, d
<1>5. Len(que) >= RcvWnd /\ RcvWnd \in Nat \ {0} /\ MaxFrag \in Nat
  BY SizesAssumption DEF que
<1>6. 1 \in 1..Len(que) /\ d + 1 \in 1..Len(s)
  BY <1>1, <1>5
<1>7. que[1].frg < MaxFrag /\ que[1].frg \in Nat
  <2>1. que[1] \in Piece
    BY <1>2, <1>6, ElementOfSeq
  <2> QED BY <1>3, <1>4, <1>6, <2>1 DEF Piece
<1>8. Len(que) >= que[1].frg + 1 /\ que # <<>>
  BY <1>1, <1>5, <1>7
<1> QED BY <1>8 DEF Complete, que

(* If no message needs more fragments than the receive window has, a full  *)
(* rcv_queue always holds a whole one, and ikcp_recv can empty it.         *)
THEOREM FullCanBeRead == ASSUME MaxFrag <= RcvWnd PROVE Spec => []FullIsReadable
<1>1. Init => SmallMessages
  BY DEF Init, SmallMessages
<1>2. IInv /\ SmallMessages /\ [Next]_vars => SmallMessages'
  BY NextSmallMessages
<1>3. IInv /\ SmallMessages => FullIsReadable
  BY FullHoldsMessage
<1> QED BY <1>1, <1>2, <1>3, Inductive, PTL DEF Spec
=============================================================================
