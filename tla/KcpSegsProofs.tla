---------------------------- MODULE KcpSegsProofs ---------------------------
(***************************************************************************)
(* Proofs about KcpSegs: what kind of lists the operations make of the     *)
(* lists they find, what the congestion window does, what the lists hold,  *)
(* what the array of acknowledgements has room for, and that the lists     *)
(* implement a sliding window of integers and sets, for every Mss, window, *)
(* fast resend threshold and width of a sequence number.                   *)
(***************************************************************************)
EXTENDS KcpSegs, SequenceTheorems, NaturalsInduction, WellFoundedInduction, TLAPS

(* A non-empty set of naturals has a least element, which Min chooses.     *)
LEMMA MinNat ==
  ASSUME NEW S \in SUBSET Nat, S # {}
  PROVE  Min(S) \in S /\ \A x \in S : Min(S) <= x
<1>1. IsWellFoundedOn(OpToRel(<, Nat), Nat)
  BY NatLessThanWellFounded
<1>2. PICK x \in S : \A y \in S : ~ (<<y, x>> \in OpToRel(<, Nat))
  BY <1>1, WFMin
<1>3. \A y \in S : ~ (y < x)
  BY <1>2 DEF OpToRel
<1>4. \A y \in S : x <= y
  BY <1>3
<1> QED BY <1>4 DEF Min

(* A bounded one has a greatest element, which Max chooses.                *)
LEMMA MaxNat ==
  ASSUME NEW n \in Nat, NEW S \in SUBSET (0..n), S # {}
  PROVE  Max(S) \in S /\ \A y \in S : Max(S) >= y
<1> DEFINE T == {n - x : x \in S}
<1>1. T \in SUBSET Nat /\ T # {}
  <2>1. \A x \in S : n - x \in Nat
    OBVIOUS
  <2> QED BY <2>1
<1>2. PICK x \in S : Min(T) = n - x
  BY <1>1, MinNat
<1>3. \A y \in S : n - x <= n - y
  BY <1>1, <1>2, MinNat
<1>4. \A y \in S : x >= y
  BY <1>3
<1> QED BY <1>4 DEF Max

-----------------------------------------------------------------------------
(* What IncrTracks needs to be inductive.                                  *)
Window ==
    /\ cw \in [cwnd : Nat, ssthresh : Nat, incr : Nat]
    /\ IncrTracks
    /\ cw.cwnd >= 2 => cw.incr >= 2 * Mss

WindowOf(c) ==
    /\ c \in [cwnd : Nat, ssthresh : Nat, incr : Nat]
    /\ c.ssthresh >= 2
    /\ c.cwnd > 0 => c.incr >= Mss
    /\ c.incr <= c.cwnd * Mss
    /\ c.cwnd >= 2 => c.incr >= 2 * Mss

LEMMA WindowIsOf == Window <=> WindowOf(cw)
BY DEF Window, WindowOf, IncrTracks

LEMMA WindowMade ==
  ASSUME NEW n \in Nat, NEW t \in Nat, NEW i \in Nat, t >= 2, n > 0 => i >= Mss,
         i <= n * Mss, n >= 2 => i >= 2 * Mss
  PROVE  WindowOf([cwnd |-> n, ssthresh |-> t, incr |-> i])
BY DEF WindowOf

(* Beyond ssthresh incr grows by no more than a segment.                   *)
LEMMA LessThanMss ==
  ASSUME NEW M \in Nat \ {0}, NEW i \in Nat, i >= 2 * M
  PROVE  /\ (M * M) \div i \in Nat /\ M \div 16 \in Nat
         /\ (M * M) \div i + M \div 16 <= M
<1> DEFINE q == (M * M) \div i
<1>1. M * M \in Nat /\ i \in Nat \ {0}
  OBVIOUS
<1>2. q \in Nat /\ q * i <= M * M
  BY <1>1
<1>3. q * (2 * M) <= q * i
  BY <1>2
<1> HIDE DEF q
<1>4. 2 * q <= M
  <2>1. (2 * q) * M <= M * M
    BY <1>2, <1>3
  <2>2. 2 * q > M => (2 * q) * M > M * M
    BY <1>2
  <2> QED BY <1>2, <2>1, <2>2
<1>5. M \div 16 \in Nat /\ 2 * (M \div 16) <= M
  OBVIOUS
<1> QED BY <1>2, <1>4, <1>5 DEF q

(* Whether below ssthresh or beyond it, the window grows by one.           *)
LEMMA GrowsByOne ==
  ASSUME NEW c, WindowOf(c), NEW wnd \in Int, c.cwnd < wnd
  PROVE  WindowOf(Grown(c, wnd)) /\ Grown(c, wnd).cwnd = c.cwnd + 1
<1> DEFINE g == Grown(c, wnd)
           n == c.cwnd
<1>1. /\ Mss \in Nat \ {0} /\ n \in Nat /\ c.incr \in Nat /\ c.ssthresh \in Nat
      /\ ~ (n >= wnd) /\ (n + 1) * Mss = n * Mss + Mss /\ n * Mss \in Nat
      /\ c = [cwnd |-> n, ssthresh |-> c.ssthresh, incr |-> c.incr]
  BY SizesAssumption DEF WindowOf
<1>2. CASE n < c.ssthresh
  <2>1. g = [cwnd |-> n + 1, ssthresh |-> c.ssthresh, incr |-> c.incr + Mss]
    BY <1>1, <1>2 DEF Grown
  <2>2. c.incr + Mss >= Mss /\ c.incr + Mss <= (n + 1) * Mss
    <3>1. c.incr <= n * Mss
      BY DEF WindowOf
    <3> DEFINE p == n * Mss
    <3>2. p \in Nat /\ (n + 1) * Mss = p + Mss /\ c.incr <= p
      BY <1>1, <3>1
    <3> HIDE DEF p
    <3> QED BY <1>1, <3>2
  <2>3. n + 1 >= 2 => c.incr + Mss >= 2 * Mss
    <3>1. n > 0 => c.incr >= Mss
      BY DEF WindowOf
    <3> QED BY <1>1, <3>1
  <2>4. c.ssthresh >= 2 /\ c.incr + Mss \in Nat /\ n + 1 \in Nat
    <3>1. c.ssthresh >= 2
      BY DEF WindowOf
    <3>2. c.incr \in Nat /\ Mss \in Nat /\ n \in Nat
      BY <1>1
    <3> QED BY <3>1, <3>2
  <2> QED BY <1>1, <2>1, <2>2, <2>3, <2>4, WindowMade
<1>3. CASE ~ (n < c.ssthresh)
  <2> DEFINE i == IF c.incr < Mss THEN Mss ELSE c.incr
             j == i + (Mss * Mss) \div i + Mss \div 16
  <2>1. n >= 2 /\ c.incr >= 2 * Mss
    BY <1>1, <1>3 DEF WindowOf
  <2>2. i = c.incr
    BY <1>1, <2>1
  <2>3. /\ (Mss * Mss) \div i \in Nat /\ Mss \div 16 \in Nat
        /\ (Mss * Mss) \div i + Mss \div 16 <= Mss
    <3> HIDE DEF i
    <3> QED BY <1>1, <2>1, <2>2, LessThanMss
  <2>4. g = [c EXCEPT !.incr = j, !.cwnd = IF (@ + 1) * Mss >= j THEN @ + 1 ELSE @]
    BY <1>1, <1>3 DEF Grown
  <2>5. j \in Nat /\ j >= c.incr /\ j <= c.incr + Mss
    <3> HIDE DEF i
    <3> QED BY <1>1, <2>2, <2>3
  <2> HIDE DEF i, j
  <2>6. (n + 1) * Mss >= j
    BY <1>1, <2>5 DEF WindowOf
  <2>7. g = [cwnd |-> n + 1, ssthresh |-> c.ssthresh, incr |-> j]
    BY <1>1, <2>4, <2>6
  <2> QED BY <1>1, <2>1, <2>5, <2>6, <2>7 DEF WindowOf
<1> QED BY <1>2, <1>3

(* A fast resend, a timeout and a window that never opened keep it too.    *)
LEMMA WindowAfterKeeps ==
  ASSUME WindowOf(cw), NEW change \in BOOLEAN, NEW lost \in BOOLEAN,
         NEW inflight \in Int, NEW eff \in Int
  PROVE  WindowOf(WindowAfter(change, lost, inflight, eff))
<1> DEFINE half == AtLeast(inflight \div 2, 2)
           less == AtLeast(eff \div 2, 2)
           changed == IF change
                      THEN [ssthresh |-> half, cwnd |-> half + Resend,
                            incr |-> (half + Resend) * Mss]
                      ELSE cw
           fallen == IF lost
                     THEN [ssthresh |-> less, cwnd |-> 1, incr |-> Mss]
                     ELSE changed
<1>1. half \in Nat /\ half >= 2 /\ less \in Nat /\ less >= 2
  BY DEF AtLeast
<1>2. Mss \in Nat \ {0} /\ Resend \in Nat
  BY SizesAssumption
<1> HIDE DEF half, less
<1>3. WindowOf(changed)
  <2>1. CASE change
    <3> DEFINE n == half + Resend
    <3>1. n \in Nat /\ n >= 2
      BY <1>1, <1>2
    <3>2. changed = [ssthresh |-> half, cwnd |-> n, incr |-> n * Mss]
      BY <2>1
    <3> HIDE DEF n
    <3>3. n * Mss \in Nat /\ n * Mss >= 2 * Mss /\ 2 * Mss >= Mss
      BY <1>2, <3>1
    <3>4. n * Mss >= Mss
      BY <1>2, <3>3
    <3> QED BY <1>1, <3>1, <3>2, <3>3, <3>4, WindowMade
  <2> QED BY <2>1
<1> HIDE DEF changed
<1>4. WindowOf([ssthresh |-> less, cwnd |-> 1, incr |-> Mss])
  BY <1>1, <1>2 DEF WindowOf
<1>5. WindowOf(fallen)
  BY <1>3, <1>4
<1> HIDE DEF fallen
<1>6. CASE fallen.cwnd < 1
  <2> DEFINE opened == [fallen EXCEPT !.cwnd = 1, !.incr = Mss]
  <2>1. opened = [ssthresh |-> fallen.ssthresh, cwnd |-> 1, incr |-> Mss]
    <3>1. fallen = [ssthresh |-> fallen.ssthresh, cwnd |-> fallen.cwnd, incr |-> fallen.incr]
      BY <1>5 DEF WindowOf
    <3> DEFINE f1 == [fallen EXCEPT !.cwnd = 1]
    <3>2. f1 = [ssthresh |-> fallen.ssthresh, cwnd |-> 1, incr |-> fallen.incr]
      BY <3>1
    <3> HIDE DEF f1
    <3>3. [f1 EXCEPT !.incr = Mss] = [ssthresh |-> fallen.ssthresh, cwnd |-> 1, incr |-> Mss]
      BY <3>2
    <3> QED BY <3>3 DEF f1
  <2>2. WindowOf(opened)
    BY <1>2, <1>5, <2>1 DEF WindowOf
  <2> QED BY <1>6, <2>2 DEF WindowAfter, fallen, changed, half, less
<1>7. CASE ~ (fallen.cwnd < 1)
  BY <1>5, <1>7 DEF WindowAfter, fallen, changed, half, less
<1> QED BY <1>6, <1>7


-----------------------------------------------------------------------------
(* What acknowledgements leave of the list are segments.                   *)
Seg == [sn : Int, fastack : Int]

LEMMA SubSeqType ==
  ASSUME NEW list \in Seq(Seg), NEW a \in Nat \ {0}
  PROVE  SubSeq(list, a, Len(list)) \in Seq(Seg)
<1>1. Len(list) \in Nat
  OBVIOUS
<1>2. \A i \in a..Len(list) : list[i] \in Seg
  <2>1. \A i \in a..Len(list) : i \in 1..Len(list)
    BY <1>1
  <2> QED BY <2>1, ElementOfSeq
<1> QED BY <1>1, <1>2, SubSeqProperties

LEMMA ParseUnaType ==
  ASSUME NEW list \in Seq(Seg), NEW una
  PROVE  ParseUna(list, una) \in Seq(Seg)
<1> DEFINE S == {i \in 0..Len(list) : i = Len(list) \/ Diff(una, list[i + 1].sn) <= 0}
<1>1. S \in SUBSET Nat /\ S # {}
  <2>1. Len(list) \in Nat
    OBVIOUS
  <2> QED BY <2>1
<1>2. Min(S) \in Nat
  <2> HIDE DEF S
  <2> QED BY <1>1, MinNat
<1> HIDE DEF S
<1>3. 1 + Min(S) \in Nat \ {0}
  BY <1>2
<1>4. ParseUna(list, una) = SubSeq(list, 1 + Min(S), Len(list))
  BY DEF ParseUna, S
<1> QED BY <1>3, <1>4, SubSeqType

LEMMA ParseAckType ==
  ASSUME NEW list \in Seq(Seg), NEW una, NEW sn
  PROVE  ParseAck(list, una, sn) \in Seq(Seg)
<1> DEFINE S  == {i \in DOMAIN list : list[i].sn = sn} \cup {Len(list) + 1}
           at == Min(S)
           passed == [i \in 1..(at - 1) |-> Passed(list[i])]
           rest == SubSeq(list, at + 1, Len(list))
<1>1. S \in SUBSET Nat /\ S \subseteq 1..(Len(list) + 1) /\ S # {} /\ Len(list) \in Nat
  <2>1. Len(list) \in Nat /\ DOMAIN list = 1..Len(list)
    OBVIOUS
  <2> QED BY <2>1
<1>2. at \in 1..(Len(list) + 1)
  <2> HIDE DEF S
  <2> QED BY <1>1, MinNat
<1> HIDE DEF S, at
<1>3. \A i \in 1..(at - 1) : Passed(list[i]) \in Seg
  <2> SUFFICES ASSUME NEW i \in 1..(at - 1) PROVE Passed(list[i]) \in Seg
    OBVIOUS
  <2>1. list[i] \in Seg
    <3>1. i \in 1..Len(list)
      BY <1>1, <1>2
    <3> QED BY <3>1, ElementOfSeq
  <2> DEFINE g == list[i]
             k == IF g.fastack < Resend THEN g.fastack + 1 ELSE g.fastack
  <2>2. g = [sn |-> g.sn, fastack |-> g.fastack] /\ g.sn \in Int /\ g.fastack \in Int
    BY <2>1 DEF Seg
  <2>3. k \in Int
    BY <2>2
  <2>4. Passed(g) = [g EXCEPT !.fastack = k]
    BY DEF Passed
  <2> HIDE DEF g, k
  <2>5. Passed(g) = [sn |-> g.sn, fastack |-> k]
    BY <2>2, <2>4
  <2>6. Passed(g) \in Seg
    BY <2>2, <2>3, <2>5 DEF Seg
  <2> QED BY <2>6 DEF g
<1>4. passed \in Seq(Seg)
  <2>1. at - 1 \in Nat
    BY <1>1, <1>2
  <2> QED BY <1>3, <2>1
<1>5. rest \in Seq(Seg)
  BY <1>1, <1>2, SubSeqType
<1>6. passed \o rest \in Seq(Seg)
  <2> HIDE DEF passed, rest
  <2> QED BY <1>4, <1>5, ConcatProperties
<1>7. ParseAck(list, una, sn) = list \/ ParseAck(list, una, sn) = passed \o rest
  BY DEF ParseAck, S, at
<1> QED BY <1>6, <1>7

LEMMA AfterAckType ==
  ASSUME NEW list \in Seq(Seg), NEW una, NEW n
  PROVE  AfterAck(list, una, n) \in Seq(Seg)
BY ParseUnaType, ParseAckType DEF AfterAck

LEMMA ShrinkType ==
  ASSUME NEW list \in Seq(Seg), snd_nxt \in Int
  PROVE  Shrink(list) \in Int
<1>1. CASE list = <<>>
  BY <1>1 DEF Shrink
<1>2. CASE list # <<>>
  <2>1. 1 \in 1..Len(list)
    BY <1>2
  <2>2. list[1] \in Seg
    BY <2>1, ElementOfSeq
  <2> QED BY <1>2, <2>2 DEF Shrink, Seg
<1> QED BY <1>1, <1>2

(* The segments of a datagram one after the other: the function that       *)
(* AfterAcks defines by recursion exists, by a least counterexample.       *)
LEMMA AfterAcksSteps ==
  ASSUME NEW d, d.sns \in Seq(Int)
  PROVE  \E f :
            /\ \A i \in 0..Len(d.sns) :
                  f[i] = IF i = 0 THEN snd_buf ELSE AfterAck(f[i - 1], d.una, d.sns[i])
            /\ AfterAcks(d) = IF d.sns = <<>> THEN ParseUna(snd_buf, W(d.una))
                              ELSE f[Len(d.sns)]
<1> DEFINE n == Len(d.sns)
           Solves(f, k) == f = [i \in 0..k |-> IF i = 0 THEN snd_buf
                                  ELSE AfterAck(f[i - 1], d.una, d.sns[i])]
           Bad == {k \in 0..n : ~ \E f : Solves(f, k)}
           F   == CHOOSE f : Solves(f, n)
<1>0. n \in Nat
  OBVIOUS
<1> HIDE DEF n
<1>1. Bad = {}
  <2> SUFFICES ASSUME Bad # {} PROVE FALSE
    OBVIOUS
  <2> DEFINE k == Min(Bad)
  <2>1. k \in Bad /\ \A x \in Bad : k <= x
    <3>1. Bad \in SUBSET Nat
      BY <1>0
    <3> HIDE DEF Bad
    <3> QED BY <3>1, MinNat
  <2> HIDE DEF k
  <2>2. k \in 0..n /\ ~ \E f : Solves(f, k)
    BY <2>1
  <2>3. CASE k = 0
    <3> DEFINE f == [i \in 0..0 |-> snd_buf]
    <3>1. Solves(f, 0)
      OBVIOUS
    <3> QED BY <2>2, <2>3, <3>1
  <2>4. CASE k # 0
    <3>1. k - 1 \in 0..n /\ k - 1 < k
      BY <1>0, <2>2, <2>4
    <3>2. k - 1 \notin Bad
      <4> HIDE DEF Bad
      <4> QED BY <1>0, <2>1, <2>2, <3>1
    <3>3. PICK f : Solves(f, k - 1)
      BY <3>1, <3>2
    <3> DEFINE g == [i \in 0..k |-> IF i = k THEN AfterAck(f[k - 1], d.una, d.sns[k]) ELSE f[i]]
    <3>4. \A i \in 0..(k - 1) : f[i] = IF i = 0 THEN snd_buf
                                        ELSE AfterAck(f[i - 1], d.una, d.sns[i])
      BY <3>3
    <3>5. k \in Nat /\ \A i \in 0..k : i # k => i \in 0..(k - 1)
      BY <1>0, <2>2
    <3>6. \A i \in 0..k : g[i] = IF i = k THEN AfterAck(f[k - 1], d.una, d.sns[k]) ELSE f[i]
      OBVIOUS
    <3>7. ASSUME NEW i \in 0..k
          PROVE  g[i] = IF i = 0 THEN snd_buf ELSE AfterAck(g[i - 1], d.una, d.sns[i])
      <4>1. i # 0 => i - 1 \in 0..k /\ i - 1 # k
        BY <3>5
      <4>2. i # 0 => g[i - 1] = f[i - 1]
        <5> HIDE DEF g
        <5> QED BY <3>6, <4>1
      <4> HIDE DEF g
      <4>3. CASE i = k
        BY <2>4, <3>6, <4>2, <4>3
      <4>4. CASE i # k
        BY <3>4, <3>5, <3>6, <4>2, <4>4
      <4> QED BY <4>3, <4>4
    <3>8. Solves(g, k)
      <4>1. g = [i \in 0..k |-> g[i]]
        OBVIOUS
      <4> HIDE DEF g
      <4> QED BY <3>7, <4>1
    <3> QED BY <2>2, <3>8
  <2> QED BY <2>3, <2>4
<1>2. Solves(F, n)
  <2>1. \E f : Solves(f, n)
    <3>1. n \in 0..n
      BY <1>0
    <3> HIDE DEF Solves
    <3> QED BY <1>1, <3>1
  <2> QED BY <2>1
<1>3. \A i \in 0..n : F[i] = IF i = 0 THEN snd_buf ELSE AfterAck(F[i - 1], d.una, d.sns[i])
  <2> HIDE DEF F
  <2> QED BY <1>2
<1> HIDE DEF Solves
<1>4. AfterAcks(d) = IF d.sns = <<>> THEN ParseUna(snd_buf, W(d.una)) ELSE F[n]
  BY DEF AfterAcks, F, Solves, n
<1> HIDE DEF F
<1> QED BY <1>3, <1>4 DEF n

LEMMA AfterAcksType ==
  ASSUME NEW d, d.sns \in Seq(Int), snd_buf \in Seq(Seg)
  PROVE  AfterAcks(d) \in Seq(Seg)
<1> DEFINE n == Len(d.sns)
<1>1. PICK F : /\ \A i \in 0..n :
                     F[i] = IF i = 0 THEN snd_buf ELSE AfterAck(F[i - 1], d.una, d.sns[i])
               /\ AfterAcks(d) = IF d.sns = <<>> THEN ParseUna(snd_buf, W(d.una)) ELSE F[n]
  BY AfterAcksSteps
<1> DEFINE Off == {k \in 0..n : F[k] \notin Seq(Seg)}
<1>2. n \in Nat
  OBVIOUS
<1> HIDE DEF n
<1>3. Off = {}
  <2> SUFFICES ASSUME Off # {} PROVE FALSE
    OBVIOUS
  <2> DEFINE k == Min(Off)
  <2>1. k \in Off /\ \A x \in Off : k <= x
    <3>1. Off \in SUBSET Nat
      BY <1>2
    <3> HIDE DEF Off
    <3> QED BY <3>1, MinNat
  <2> HIDE DEF k
  <2>2. k \in 0..n /\ F[k] \notin Seq(Seg)
    BY <2>1
  <2>3. k # 0
    BY <1>1, <2>2
  <2>4. k - 1 \in 0..n /\ k - 1 < k
    BY <1>2, <2>2, <2>3
  <2>5. F[k - 1] \in Seq(Seg)
    <3>1. k - 1 \notin Off
      <4> HIDE DEF Off
      <4> QED BY <1>2, <2>1, <2>2, <2>4
    <3> QED BY <2>4, <3>1
  <2>6. F[k] = AfterAck(F[k - 1], d.una, d.sns[k])
    BY <1>1, <2>2, <2>3
  <2> QED BY <2>2, <2>5, <2>6, AfterAckType
<1>4. F[n] \in Seq(Seg)
  BY <1>2, <1>3
<1> QED BY <1>1, <1>4, ParseUnaType

-----------------------------------------------------------------------------
(* What the sizes are, and the integers behind the sequence numbers.       *)
Typed ==
    /\ snd_buf \in Seq(Seg) /\ snd_una \in Int /\ snd_nxt \in Int
    /\ rcv_buf \in Seq(Int) /\ nrcv_que \in 0..RcvWnd
    /\ acklist \in Seq(Int)
    /\ rmt_wnd \in Nat /\ \A d \in net : d.wnd \in Nat /\ d.sns \in Seq(Int)
    /\ sent \in 0..(Base + MaxSegs) /\ out \in SUBSET Nat

Inv == Typed /\ Window

LEMMA Sizes ==
  /\ Word \in Nat \ {0} /\ SndWnd \in Nat /\ RcvWnd \in Nat
  /\ Base \in Nat /\ MaxSegs \in Nat /\ Old \in Nat /\ Old <= Base
  /\ Mss \in Nat
  /\ \A n \in Int : W(n) \in Nat
  /\ \A x \in Int : Diff(x, x) = 0
<1>1. /\ Word \in Nat \ {0} /\ SndWnd \in Nat /\ RcvWnd \in Nat
      /\ Base \in Nat /\ MaxSegs \in Nat /\ Old \in Nat /\ Old <= Base
      /\ Mss \in Nat /\ Word % 2 = 0
  BY SizesAssumption
<1>2. \A n \in Int : W(n) \in Nat
  BY <1>1 DEF W
<1>3. \A x \in Int : Diff(x, x) = 0
  <2> SUFFICES ASSUME NEW x \in Int PROVE Diff(x, x) = 0
    OBVIOUS
  <2> DEFINE half == Word \div 2
  <2>1. half \in Nat /\ half < Word
    BY <1>1
  <2>2. x - x + half = half
    BY <2>1
  <2> HIDE DEF half
  <2>3. half % Word = half
    BY <1>1, <2>1
  <2> QED BY <2>1, <2>2, <2>3 DEF Diff, half
<1> QED BY <1>1, <1>2, <1>3

LEMMA PlacedType ==
  ASSUME NEW list \in Seq(Int), NEW sn \in Int
  PROVE  Placed(list, sn) \in Seq(Int)
<1> DEFINE S == {i \in DOMAIN list : list[i] = sn \/ Diff(sn, list[i]) > 0} \cup {0}
           p == Max(S)
<1>1. Len(list) \in Nat /\ S \in SUBSET (0..Len(list)) /\ S # {}
  OBVIOUS
<1> HIDE DEF S
<1>2. p \in 0..Len(list)
  BY <1>1, MaxNat
<1> HIDE DEF p
<1>3. SubSeq(list, 1, p) \in Seq(Int) /\ SubSeq(list, p + 1, Len(list)) \in Seq(Int)
  <2>1. \A i \in 1..p : list[i] \in Int
    BY <1>1, <1>2, ElementOfSeq
  <2>2. \A i \in (p + 1)..Len(list) : list[i] \in Int
    BY <1>1, <1>2, ElementOfSeq
  <2> QED BY <1>1, <1>2, <2>1, <2>2, SubSeqProperties
<1>4. <<sn>> \in Seq(Int)
  OBVIOUS
<1>5. (p + 1) - 1 = p
  BY <1>2
<1>6. InsertAt(list, p + 1, sn) \in Seq(Int)
  BY <1>3, <1>4, <1>5, ConcatProperties DEF InsertAt
<1>7. Placed(list, sn) = IF p > 0 /\ list[p] = sn THEN list ELSE InsertAt(list, p + 1, sn)
  BY DEF Placed, p, S
<1> QED BY <1>6, <1>7

(* The moving loop never puts more into rcv_queue than rcv_wnd.            *)
LEMMA MoveType ==
  ASSUME NEW list \in Seq(Int), NEW que \in 0..RcvWnd, Move(list, que)
  PROVE  rcv_buf' \in Seq(Int) /\ nrcv_que' \in 0..RcvWnd
<1> DEFINE S == {i \in 0..Len(list) : \/ i = Len(list)
                                      \/ list[i + 1] # W(rcv_nxt + i)
                                      \/ que + i >= RcvWnd}
           m == Min(S)
<1>1. rcv_buf' = SubSeq(list, m + 1, Len(list)) /\ nrcv_que' = que + m
  BY DEF Move
<1>2. Len(list) \in Nat /\ RcvWnd \in Nat /\ que \in Nat
  BY Sizes
<1>3. S \in SUBSET Nat /\ Len(list) \in S /\ S \subseteq 0..Len(list)
  BY <1>2
<1>4. m \in S /\ \A x \in S : m <= x
  <2> HIDE DEF S
  <2> QED BY <1>3, MinNat
<1>5. que + m <= RcvWnd
  <2>1. CASE m = 0
    BY <1>2, <2>1
  <2>2. CASE m # 0
    <3>1. m - 1 \in 0..Len(list) /\ m - 1 \notin S
      <4> HIDE DEF S, m
      <4> QED BY <1>2, <1>3, <1>4, <2>2
    <3>2. ~ (que + (m - 1) >= RcvWnd)
      <4> HIDE DEF m
      <4> QED BY <3>1
    <3>3. m \in Nat
      BY <1>3, <1>4
    <3> HIDE DEF m, S
    <3> QED BY <1>2, <3>2, <3>3
  <2> QED BY <2>1, <2>2
<1>6. m \in 0..Len(list)
  BY <1>3, <1>4
<1> HIDE DEF m, S
<1>7. SubSeq(list, m + 1, Len(list)) \in Seq(Int)
  <2>1. \A i \in (m + 1)..Len(list) : list[i] \in Int
    BY <1>2, <1>6, ElementOfSeq
  <2> QED BY <1>2, <1>6, <2>1, SubSeqProperties
<1>8. que + m \in 0..RcvWnd
  BY <1>2, <1>5, <1>6
<1> QED BY <1>1, <1>7, <1>8

LEMMA InitInv == Init => Inv
<1> SUFFICES ASSUME Init PROVE Inv
  OBVIOUS
<1>1. Typed
  BY Sizes DEF Init, Typed
<1>2. WindowOf(cw)
  <2>1. cw = [cwnd |-> 0, ssthresh |-> 2, incr |-> 0] /\ Mss \in Nat /\ 0 * Mss = 0
    BY Sizes DEF Init
  <2> QED BY <2>1, WindowMade
<1> QED BY <1>1, <1>2, WindowIsOf DEF Inv

LEMMA InputPushInv ==
  ASSUME Inv, NEW n \in Number, InputPush(n)
  PROVE  Inv'
<1>1. UNCHANGED <<sndVars, net>>
  BY DEF InputPush
<1>2. rcv_buf' \in Seq(Int) /\ nrcv_que' \in 0..RcvWnd
  <2>1. CASE Move(Placed(rcv_buf, W(n)), nrcv_que)
    <3>1. W(n) \in Int
      BY Sizes DEF Number
    <3>2. rcv_buf \in Seq(Int) /\ nrcv_que \in 0..RcvWnd
      BY DEF Inv, Typed
    <3>3. Placed(rcv_buf, W(n)) \in Seq(Int)
      BY <3>1, <3>2, PlacedType
    <3> QED BY <2>1, <3>2, <3>3, MoveType
  <2>2. CASE UNCHANGED rcvVars
    BY <2>2 DEF rcvVars, Inv, Typed
  <2> QED BY <2>1, <2>2 DEF InputPush
<1>3. acklist' \in Seq(Int)
  <2>1. n \in Int /\ acklist \in Seq(Int)
    BY Sizes DEF Number, Inv, Typed
  <2>2. CASE AckPush(n)
    BY <2>1, <2>2 DEF AckPush
  <2>3. CASE UNCHANGED ackVars
    BY <2>1, <2>3 DEF ackVars
  <2> QED BY <2>2, <2>3 DEF InputPush
<1> QED BY <1>1, <1>2, <1>3 DEF sndVars, Inv, Typed, Window, IncrTracks

LEMMA RecvInv ==
  ASSUME Inv, Recv
  PROVE  Inv'
<1>1. UNCHANGED <<sndVars, ackVars, net>> /\ nrcv_que > 0 /\ Move(rcv_buf, nrcv_que - 1)
  BY DEF Recv
<1>2. rcv_buf \in Seq(Int) /\ nrcv_que - 1 \in 0..RcvWnd
  BY <1>1, Sizes DEF Inv, Typed
<1>3. rcv_buf' \in Seq(Int) /\ nrcv_que' \in 0..RcvWnd
  BY <1>1, <1>2, MoveType
<1> QED BY <1>1, <1>3 DEF sndVars, ackVars, Inv, Typed, Window, IncrTracks

LEMMA FlushAcksInv ==
  ASSUME Inv, FlushAcks
  PROVE  Inv'
<1> DEFINE d == [una |-> nxt, wnd |-> RcvWnd - nrcv_que, sns |-> acklist]
<1>1. UNCHANGED <<sndVars, rcvVars>> /\ acklist' = <<>> /\ net' \subseteq net \cup {d}
  BY DEF FlushAcks
<1>2. d.wnd \in Nat /\ d.sns \in Seq(Int)
  BY Sizes DEF Inv, Typed
<1> HIDE DEF d
<1> QED BY <1>1, <1>2 DEF sndVars, rcvVars, Inv, Typed, Window, IncrTracks

(* An acknowledgement that moves snd_una lets the window grow by one.      *)
LEMMA InputAcksInv ==
  ASSUME Inv, NEW d \in net, InputAcks(d)
  PROVE  /\ Inv'
         /\ Diff(snd_una', snd_una) > 0 /\ cw.cwnd < rmt_wnd' => cw'.cwnd = cw.cwnd + 1
<1>1. /\ net' \subseteq net /\ rmt_wnd' = d.wnd /\ out' \subseteq out
      /\ cw' = IF Diff(snd_una', snd_una) > 0 THEN Grown(cw, d.wnd) ELSE cw
      /\ UNCHANGED <<snd_nxt, sent, rcvVars, ackVars>>
  BY DEF InputAcks
<1>2. d.wnd \in Nat /\ WindowOf(cw) /\ cw.cwnd \in Nat
  BY WindowIsOf DEF Inv, Typed, WindowOf
<1>3. Typed'
  <2>1. /\ snd_buf \in Seq(Seg) /\ snd_nxt \in Int /\ d.sns \in Seq(Int)
        /\ snd_buf' = AfterAcks(d) /\ snd_una' = Shrink(snd_buf')
    BY DEF InputAcks, Inv, Typed
  <2>2. snd_buf' \in Seq(Seg)
    BY <2>1, AfterAcksType
  <2>3. snd_una' \in Int
    BY <2>1, <2>2, ShrinkType
  <2> QED BY <1>1, <1>2, <2>2, <2>3 DEF rcvVars, ackVars, Inv, Typed
<1>4. CASE cw.cwnd < d.wnd
  BY <1>1, <1>2, <1>3, <1>4, GrowsByOne, WindowIsOf DEF Inv, Window, WindowOf, IncrTracks
<1>5. CASE ~ (cw.cwnd < d.wnd)
  <2>1. cw' = cw
    BY <1>1, <1>2, <1>5 DEF Grown
  <2> QED BY <1>1, <1>3, <1>5, <2>1 DEF Inv, Window, IncrTracks
<1> QED BY <1>4, <1>5

LEMMA FlushInv ==
  ASSUME Inv, NEW due, Flush(due)
  PROVE  Inv'
<1> DEFINE left == Base + MaxSegs - sent
           eff  == Min({SndWnd, rmt_wnd, cw.cwnd})
           S    == {i \in 0..left : i = left \/ Diff(W(snd_nxt + i), W(snd_una + eff)) >= 0}
           m    == Min(S)
           fast == {i \in DOMAIN snd_buf \ due : Resend > 0 /\ snd_buf[i].fastack >= Resend}
           old  == [i \in DOMAIN snd_buf |->
                       IF i \in fast THEN [snd_buf[i] EXCEPT !.fastack = 0] ELSE snd_buf[i]]
           new  == [i \in 1..m |-> [sn |-> W(snd_nxt + i - 1), fastack |-> 0]]
<1>1. /\ cw' = WindowAfter(fast # {}, due # {}, W(snd_nxt + m - snd_una), eff)
      /\ sent' = sent + m /\ out' = out \cup (sent..(sent + m - 1))
      /\ snd_buf' = old \o new /\ snd_nxt' = W(snd_nxt + m)
      /\ UNCHANGED <<snd_una, rmt_wnd, rcvVars, ackVars, net>>
  BY DEF Flush
<1>2. left \in Nat /\ sent \in Nat
  BY Sizes DEF Inv, Typed
<1>3. m \in 0..left
  <2>1. S \in SUBSET Nat /\ left \in S /\ S \subseteq 0..left
    BY <1>2
  <2> HIDE DEF S, left
  <2> QED BY <2>1, MinNat
<1>4. eff \in Nat
  <2>1. {SndWnd, rmt_wnd, cw.cwnd} \in SUBSET Nat /\ {SndWnd, rmt_wnd, cw.cwnd} # {}
    BY Sizes DEF Inv, Typed, Window
  <2> QED BY <2>1, MinNat
<1> HIDE DEF m, eff, S
<1>5. W(snd_nxt + m - snd_una) \in Nat
  <2>1. snd_una \in Int /\ snd_nxt \in Int /\ m \in Nat
    BY <1>2, <1>3 DEF Inv, Typed
  <2>2. snd_nxt + m - snd_una \in Int
    BY <2>1
  <2> QED BY <2>2, Sizes
<1>6. WindowOf(cw)'
  <2> DEFINE change == fast # {}
             lost   == due # {}
             flight == W(snd_nxt + m - snd_una)
  <2>1. change \in BOOLEAN /\ lost \in BOOLEAN /\ flight \in Int /\ WindowOf(cw)
    BY <1>5, WindowIsOf DEF Inv
  <2>2. cw' = WindowAfter(change, lost, flight, eff)
    BY <1>1
  <2> HIDE DEF change, lost, flight
  <2>3. WindowOf(WindowAfter(change, lost, flight, eff))
    BY <1>4, <2>1, WindowAfterKeeps
  <2> QED BY <2>2, <2>3 DEF WindowOf
<1>7. Window'
  BY <1>6 DEF Window, WindowOf, IncrTracks
<1>8. sent + m \in 0..(Base + MaxSegs) /\ sent..(sent + m - 1) \subseteq Nat
  BY <1>2, <1>3, Sizes
<1>9. snd_buf' \in Seq(Seg) /\ snd_nxt' \in Int
  <2>1. snd_buf \in Seq(Seg) /\ snd_nxt \in Int /\ m \in Nat
    BY <1>2, <1>3 DEF Inv, Typed
  <2>2. old \in Seq(Seg)
    <3>1. \A i \in DOMAIN snd_buf : old[i] \in Seg
      <4> SUFFICES ASSUME NEW i \in DOMAIN snd_buf PROVE old[i] \in Seg
        OBVIOUS
      <4>1. snd_buf[i] \in Seg
        BY <2>1, ElementOfSeq
      <4> HIDE DEF fast
      <4> QED BY <4>1 DEF Seg
    <3>2. DOMAIN snd_buf = 1..Len(snd_buf) /\ Len(snd_buf) \in Nat
      BY <2>1
    <3>3. DOMAIN old = 1..Len(snd_buf)
      BY <3>2
    <3>4. old = [i \in 1..Len(snd_buf) |-> old[i]]
      BY <3>2
    <3> HIDE DEF old
    <3> QED BY <3>1, <3>2, <3>4
  <2>3. new \in Seq(Seg)
    <3>1. \A i \in 1..m : W(snd_nxt + i - 1) \in Int
      <4> SUFFICES ASSUME NEW i \in 1..m PROVE W(snd_nxt + i - 1) \in Int
        OBVIOUS
      <4>1. snd_nxt + i - 1 \in Int
        BY <2>1
      <4> QED BY <4>1, Sizes
    <3> QED BY <2>1, <3>1 DEF Seg
  <2>4. W(snd_nxt + m) \in Int
    <3>1. snd_nxt + m \in Int
      BY <2>1
    <3> QED BY <3>1, Sizes
  <2>5. old \o new \in Seq(Seg)
    <3> HIDE DEF old, new
    <3> QED BY <2>2, <2>3, ConcatProperties
  <2> QED BY <1>1, <2>4, <2>5
<1>10. Typed'
  BY <1>1, <1>8, <1>9 DEF rcvVars, ackVars, Inv, Typed
<1> QED BY <1>7, <1>10 DEF Inv

LEMMA NextInv ==
  ASSUME Inv, [Next]_vars
  PROVE  /\ Inv'
         /\ \/ Diff(snd_una', snd_una) > 0 /\ cw.cwnd < rmt_wnd' => cw'.cwnd = cw.cwnd + 1
            \/ UNCHANGED vars
<1>0. ASSUME snd_una' = snd_una
      PROVE  ~ (Diff(snd_una', snd_una) > 0)
  BY <1>0, Sizes DEF Inv, Typed
<1>1. ASSUME NEW n \in Number, InputPush(n)
      PROVE  Inv' /\ snd_una' = snd_una
  BY <1>1, InputPushInv DEF InputPush, sndVars
<1>2. CASE Recv
  BY <1>0, <1>2, RecvInv DEF Recv, sndVars
<1>3. CASE FlushAcks
  BY <1>0, <1>3, FlushAcksInv DEF FlushAcks, sndVars
<1>4. ASSUME NEW due, Flush(due)
      PROVE  Inv' /\ snd_una' = snd_una
  BY <1>4, FlushInv DEF Flush
<1>5. CASE UNCHANGED vars
  BY <1>5 DEF vars, sndVars, rcvVars, ackVars, Inv, Typed, Window, IncrTracks
<1> QED BY <1>0, <1>1, <1>2, <1>3, <1>4, <1>5, InputAcksInv DEF Next

(* The parts above are inductive together.                                 *)
THEOREM Inductive == Spec => []Inv
<1>1. Inv /\ [Next]_vars => Inv'
  BY NextInv
<1> QED BY InitInv, <1>1, PTL DEF Spec

(* incr follows cwnd: never less than one segment where ikcp_input divides *)
(* by it, never ahead of cwnd segments.                                    *)
THEOREM IncrFollowsCwnd == Spec => []IncrTracks
<1>1. Inv => IncrTracks
  BY DEF Inv, Window
<1> QED BY <1>1, Inductive, PTL

(* The comparison of ikcp.c:796 lets cwnd grow by one with every datagram  *)
(* that moves snd_una, for every Mss, so congestion avoidance never is.    *)
THEOREM AlwaysGrows == Spec => GrowsEachTime
<1>1. Inv /\ [Next]_vars =>
         [Diff(snd_una', snd_una) > 0 /\ cw.cwnd < rmt_wnd' => cw'.cwnd = cw.cwnd + 1]_vars
  BY NextInv
<1> QED BY <1>1, Inductive, PTL DEF Spec, GrowsEachTime

-----------------------------------------------------------------------------
(***************************************************************************)
(* The lists of KcpSegs hold what they should, for every width of a        *)
(* sequence number, every window and every number of segments, in          *)
(* whatever order and however often they and their acknowledgements come.  *)
(***************************************************************************)
Half == Word \div 2

LEMMA HalfNat ==
  Half \in Nat \ {0} /\ Word = 2 * Half /\ Old + MaxSegs + RcvWnd < Half
<1>1. Word \in Nat \ {0} /\ Word % 2 = 0 /\ Old + MaxSegs + RcvWnd < Word \div 2
      /\ Old \in Nat /\ MaxSegs \in Nat /\ RcvWnd \in Nat
  BY SizesAssumption
<1> QED BY <1>1 DEF Half

(* Division leaves one remainder.                                          *)
LEMMA OneRemainder ==
  ASSUME NEW M \in Nat \ {0}, NEW q \in Int, NEW r \in 0..(M - 1)
  PROVE  (M * q + r) % M = r
<1> DEFINE x == M * q + r
           p == x \div M
           s == x % M
<1>1. x \in Int
  OBVIOUS
<1>2. p \in Int /\ s \in 0..(M - 1) /\ x = M * p + s
  <2> HIDE DEF x
  <2> QED BY <1>1
<1>3. M * q + r = M * p + s
  BY <1>2
<1> HIDE DEF x, p, s
<1>4. ~ (q > p)
  <2> SUFFICES ASSUME q > p PROVE FALSE
    OBVIOUS
  <2>1. M * q >= M * (p + 1)
    BY <1>2
  <2>2. M * (p + 1) = M * p + M
    BY <1>2
  <2> QED BY <1>2, <1>3, <2>1, <2>2
<1>5. ~ (p > q)
  <2> SUFFICES ASSUME p > q PROVE FALSE
    OBVIOUS
  <2>1. M * p >= M * (q + 1)
    BY <1>2
  <2>2. M * (q + 1) = M * q + M
    OBVIOUS
  <2> QED BY <1>2, <1>3, <2>1, <2>2
<1>6. p = q
  BY <1>2, <1>4, <1>5
<1>7. s = r
  BY <1>2, <1>3, <1>6
<1> QED BY <1>7 DEF s, x

LEMMA Remainder ==
  ASSUME NEW M \in Nat \ {0}, NEW x \in Int
  PROVE  x \div M \in Int /\ x % M \in 0..(M - 1) /\ x = M * (x \div M) + (x % M)
<1> DEFINE p == x \div M
           s == x % M
<1>1. p \in Int
  OBVIOUS
<1>2. s \in 0..(M - 1)
  OBVIOUS
<1>3. x = M * p + s
  OBVIOUS
<1> QED BY <1>1, <1>2, <1>3

(* A word is its integer less a multiple of Word.                          *)
LEMMA WordOf ==
  ASSUME NEW a \in Int
  PROVE  W(a) \in 0..(Word - 1) /\ \E q \in Int : a = Word * q + W(a)
<1>1. Word \in Nat \ {0}
  BY Sizes
<1> DEFINE q == a \div Word
<1>2. a % Word \in 0..(Word - 1) /\ q \in Int /\ a = Word * q + (a % Word)
  BY <1>1, Remainder
<1>3. W(a) = a % Word
  BY DEF W
<1> HIDE DEF q
<1>4. W(a) \in 0..(Word - 1) /\ a = Word * q + W(a)
  BY <1>2, <1>3
<1> QED BY <1>2, <1>4

LEMMA WordOfSum ==
  ASSUME NEW a \in Int, NEW b \in Int
  PROVE  W(W(a) + b) = W(a + b)
<1>1. Word \in Nat \ {0}
  BY Sizes
<1>2. PICK q \in Int : a = Word * q + W(a)
  BY WordOf
<1>3. W(a) \in Int
  BY WordOf
<1>4. W(a) + b \in Int
  BY <1>3
<1>5. PICK p \in Int : W(a) + b = Word * p + W(W(a) + b)
  BY <1>4, WordOf
<1> DEFINE r == W(W(a) + b)
<1>6. r \in 0..(Word - 1)
  BY <1>4, WordOf
<1>7. q + p \in Int /\ a + b = Word * (q + p) + r
  <2> DEFINE u == Word * q
             v == Word * p
  <2>1. u \in Int /\ v \in Int /\ Word * (q + p) = u + v
    BY <1>1
  <2>2. a = u + W(a) /\ W(a) + b = v + r
    BY <1>2, <1>5
  <2> HIDE DEF u, v, r
  <2>3. a + b = u + v + r
    BY <1>3, <1>6, <2>1, <2>2
  <2> QED BY <2>1, <2>3
<1> HIDE DEF r
<1>8. W(a + b) = r
  BY <1>1, <1>6, <1>7, OneRemainder DEF W
<1> QED BY <1>8 DEF r

(* The signed difference of two words is that of their integers, if it is  *)
(* less than half the width.                                               *)
LEMMA DiffOf ==
  ASSUME NEW a \in Int, NEW b \in Int, a - b < Half, a - b >= -Half
  PROVE  Diff(W(a), W(b)) = a - b
<1>1. Half \in Nat \ {0} /\ Word = 2 * Half /\ Word \in Nat \ {0}
  BY HalfNat, Sizes
<1>2. PICK q \in Int : a = Word * q + W(a)
  BY WordOf
<1>3. PICK p \in Int : b = Word * p + W(b)
  BY WordOf
<1>4. W(a) \in Int /\ W(b) \in Int
  BY WordOf
<1> DEFINE r == a - b + Half
<1>5. r \in 0..(Word - 1)
  BY <1>1
<1>6. W(a) - W(b) + Half = Word * (p - q) + r
  <2> DEFINE u == Word * q
             v == Word * p
  <2>1. u \in Int /\ v \in Int /\ Word * (p - q) = v - u
    BY <1>1
  <2>2. a = u + W(a) /\ b = v + W(b)
    BY <1>2, <1>3
  <2> HIDE DEF u, v
  <2> QED BY <1>1, <1>4, <2>1, <2>2
<1>7. p - q \in Int
  OBVIOUS
<1> HIDE DEF r
<1>8. (W(a) - W(b) + Half) % Word = r
  <2>1. (Word * (p - q) + r) % Word = r
    <3> DEFINE k == p - q
    <3> HIDE DEF k
    <3>1. k \in Int
      BY <1>7 DEF k
    <3>2. (Word * k + r) % Word = r
      BY <1>1, <1>5, <3>1, OneRemainder
    <3> QED BY <3>2 DEF k
  <2> QED BY <1>6, <2>1
<1>9. Diff(W(a), W(b)) = r - Half
  BY <1>8 DEF Diff, Half
<1> QED BY <1>1, <1>9 DEF r

LEMMA SameWord ==
  ASSUME NEW a \in Int, NEW b \in Int, a - b < Half, b - a < Half, W(a) = W(b)
  PROVE  a = b
<1>1. Half \in Nat
  BY HalfNat
<1>2. Diff(W(a), W(b)) = a - b
  BY <1>1, DiffOf
<1>3. Diff(W(a), W(b)) = 0
  BY WordOf, Sizes
<1> QED BY <1>2, <1>3

-----------------------------------------------------------------------------
(* list is made of the words of the integers of s, which are those of S in *)
(* order.                                                                  *)
Stands(list, s, S) ==
    /\ s \in Seq(Int) /\ Increasing(s) /\ Range(s) = S
    /\ list = [i \in 1..Len(s) |-> W(s[i])]

LEMMA StandsFacts ==
  ASSUME NEW list, NEW s, NEW S, Stands(list, s, S)
  PROVE  /\ Len(s) \in Nat /\ DOMAIN s = 1..Len(s) /\ Len(list) = Len(s)
         /\ list \in Seq(Int) /\ DOMAIN list = 1..Len(s)
         /\ \A i \in 1..Len(s) : s[i] \in Int /\ s[i] \in S /\ list[i] = W(s[i])
         /\ \A k \in S : \E i \in 1..Len(s) : s[i] = k
         /\ \A i, j \in 1..Len(s) : i < j => s[i] < s[j]
<1>1. s \in Seq(Int) /\ list = [i \in 1..Len(s) |-> W(s[i])]
  BY DEF Stands
<1>2. Len(s) \in Nat /\ DOMAIN s = 1..Len(s)
  BY <1>1
<1>3. \A i \in 1..Len(s) : s[i] \in Int
  BY <1>1, ElementOfSeq
<1>4. \A i \in 1..Len(s) : W(s[i]) \in Int
  <2> SUFFICES ASSUME NEW i \in 1..Len(s) PROVE W(s[i]) \in Int
    OBVIOUS
  <2> DEFINE k == s[i]
  <2>1. k \in Int
    BY <1>3
  <2> HIDE DEF k
  <2>2. W(k) \in Nat
    BY <2>1, Sizes
  <2> QED BY <2>2 DEF k
<1>5. list \in Seq(Int) /\ Len(list) = Len(s) /\ DOMAIN list = 1..Len(s)
  BY <1>1, <1>2, <1>4
<1>6. \A i \in 1..Len(s) : s[i] \in S /\ list[i] = W(s[i])
  BY <1>1, <1>2 DEF Stands, Range
<1>7. \A k \in S : \E i \in 1..Len(s) : s[i] = k
  BY <1>2 DEF Stands, Range
<1>8. \A i, j \in 1..Len(s) : i < j => s[i] < s[j]
  BY <1>2 DEF Stands, Increasing
<1> QED BY <1>2, <1>3, <1>5, <1>6, <1>7, <1>8

LEMMA StandsMade ==
  ASSUME NEW list \in Seq(Int), NEW s \in Seq(Int), NEW S, Len(list) = Len(s),
         \A i \in 1..Len(s) : list[i] = W(s[i]),
         \A i, j \in 1..Len(s) : i < j => s[i] < s[j],
         \A i \in 1..Len(s) : s[i] \in S,
         \A k \in S : \E i \in 1..Len(s) : s[i] = k
  PROVE  Stands(list, s, S)
<1>1. DOMAIN s = 1..Len(s) /\ DOMAIN list = 1..Len(s)
  OBVIOUS
<1>2. list = [i \in 1..Len(s) |-> W(s[i])]
  <2>1. list = [i \in 1..Len(s) |-> list[i]]
    BY <1>1
  <2> QED BY <2>1
<1>3. Range(s) = S
  BY <1>1 DEF Range
<1>4. Increasing(s)
  BY <1>1 DEF Increasing
<1> QED BY <1>2, <1>3, <1>4 DEF Stands

(* What the invariants of KcpSegs say follows, for integers near n.        *)
LEMMA StandsLists ==
  ASSUME NEW list, NEW s, NEW S, Stands(list, s, S), NEW n \in Int,
         \A k \in S : k - n < Half /\ k - n >= -Half
  PROVE  Lists(list, S, n)
<1> DEFINE t == [i \in DOMAIN list |-> n + Diff(list[i], W(n))]
<1>1. /\ DOMAIN s = 1..Len(s) /\ DOMAIN list = 1..Len(s)
      /\ \A i \in 1..Len(s) : s[i] \in Int /\ s[i] \in S /\ list[i] = W(s[i])
  BY StandsFacts
<1>2. \A i \in 1..Len(s) : t[i] = s[i]
  <2> SUFFICES ASSUME NEW i \in 1..Len(s) PROVE n + Diff(list[i], W(n)) = s[i]
    BY <1>1
  <2>1. Diff(W(s[i]), W(n)) = s[i] - n
    BY <1>1, DiffOf
  <2> QED BY <1>1, <2>1
<1>3. t = s
  <2>1. t = [i \in 1..Len(s) |-> t[i]]
    <3>1. DOMAIN t = DOMAIN list /\ t = [i \in DOMAIN t |-> t[i]]
      OBVIOUS
    <3> HIDE DEF t
    <3> QED BY <1>1, <3>1
  <2>2. s = [i \in 1..Len(s) |-> s[i]]
    <3>1. s \in Seq(Int)
      BY DEF Stands
    <3> QED BY <3>1
  <2> HIDE DEF t
  <2> QED BY <1>2, <2>1, <2>2
<1>4. list = [i \in DOMAIN list |-> W(t[i])] /\ Increasing(t) /\ Range(t) = S
  <2> HIDE DEF t
  <2> QED BY <1>1, <1>3 DEF Stands
<1> QED BY <1>4 DEF Lists

-----------------------------------------------------------------------------
(* Cutting a list in front of the first number that is not below cut.      *)
LEMMA SuffixStands ==
  ASSUME NEW list, NEW s, NEW S, Stands(list, s, S), NEW a \in 1..(Len(s) + 1),
         NEW cut \in Int,
         \A i \in 1..Len(s) : i < a => s[i] < cut,
         \A i \in 1..Len(s) : i >= a => s[i] >= cut
  PROVE  Stands(SubSeq(list, a, Len(list)), SubSeq(s, a, Len(s)), {k \in S : k >= cut})
<1> DEFINE l == SubSeq(list, a, Len(list))
           t == SubSeq(s, a, Len(s))
           n == Len(s)
<1>1. /\ n \in Nat /\ Len(list) = n /\ a \in Int
      /\ \A i \in 1..n : s[i] \in Int /\ s[i] \in S /\ list[i] = W(s[i]) /\ list[i] \in Int
      /\ \A k \in S : \E i \in 1..n : s[i] = k
      /\ \A i, j \in 1..n : i < j => s[i] < s[j]
  <2>1. \A i \in 1..n : s[i] \in Int /\ list[i] = W(s[i])
    BY StandsFacts
  <2>2. \A i \in 1..n : list[i] \in Int
    <3> SUFFICES ASSUME NEW i \in 1..n PROVE list[i] \in Int
      OBVIOUS
    <3>1. W(s[i]) \in Nat
      BY <2>1, Sizes
    <3> QED BY <2>1, <3>1
  <2> QED BY <2>2, StandsFacts
<1>2. \A i \in a..n : i \in 1..n
  BY <1>1
<1>3. /\ t \in Seq(Int) /\ Len(t) = n - a + 1
      /\ \A i \in 1..(n - a + 1) : t[i] = s[a + i - 1]
  <2>1. \A i \in a..n : s[i] \in Int
    BY <1>1, <1>2
  <2> HIDE DEF n
  <2>2. /\ SubSeq(s, a, n) \in Seq(Int) /\ Len(SubSeq(s, a, n)) = IF a <= n THEN n - a + 1 ELSE 0
        /\ \A i \in 1..(n - a + 1) : SubSeq(s, a, n)[i] = s[a + i - 1]
    BY <1>1, <2>1, SubSeqProperties
  <2>3. (IF a <= n THEN n - a + 1 ELSE 0) = n - a + 1
    BY <1>1 DEF n
  <2> QED BY <2>2, <2>3 DEF n
<1>4. /\ l \in Seq(Int) /\ Len(l) = n - a + 1
      /\ \A i \in 1..(n - a + 1) : l[i] = list[a + i - 1]
  <2>1. \A i \in a..n : list[i] \in Int
    BY <1>1, <1>2
  <2> HIDE DEF n
  <2>2. /\ SubSeq(list, a, n) \in Seq(Int) /\ Len(SubSeq(list, a, n)) = IF a <= n THEN n - a + 1 ELSE 0
        /\ \A i \in 1..(n - a + 1) : SubSeq(list, a, n)[i] = list[a + i - 1]
    BY <1>1, <2>1, SubSeqProperties
  <2>3. (IF a <= n THEN n - a + 1 ELSE 0) = n - a + 1
    BY <1>1 DEF n
  <2> QED BY <1>1, <2>2, <2>3 DEF n
<1> HIDE DEF l, t, n
<1>5. \A i \in 1..(n - a + 1) : a + i - 1 \in 1..n /\ a + i - 1 >= a
  BY <1>1
<1>6. \A i \in 1..Len(t) : l[i] = W(t[i])
  BY <1>1, <1>3, <1>4, <1>5
<1>7. \A i, j \in 1..Len(t) : i < j => t[i] < t[j]
  <2> SUFFICES ASSUME NEW i \in 1..Len(t), NEW j \in 1..Len(t), i < j PROVE t[i] < t[j]
    OBVIOUS
  <2>1. a + i - 1 < a + j - 1 /\ a + i - 1 \in 1..n /\ a + j - 1 \in 1..n
    BY <1>3, <1>5
  <2> QED BY <1>1, <1>3, <2>1
<1>8. \A i \in 1..Len(t) : t[i] \in {k \in S : k >= cut}
  BY <1>1, <1>3, <1>5 DEF n
<1>9. \A k \in {k \in S : k >= cut} : \E i \in 1..Len(t) : t[i] = k
  <2> SUFFICES ASSUME NEW k \in S, k >= cut PROVE \E i \in 1..Len(t) : t[i] = k
    OBVIOUS
  <2>1. PICK i \in 1..n : s[i] = k
    BY <1>1
  <2>2. ~ (i < a)
    <3> SUFFICES ASSUME i < a PROVE FALSE
      OBVIOUS
    <3>1. s[i] < cut /\ s[i] \in Int
      BY <1>1 DEF n
    <3> QED BY <2>1, <3>1
  <2>3. i - a + 1 \in 1..(n - a + 1) /\ a + (i - a + 1) - 1 = i
    BY <1>1, <2>2
  <2> QED BY <1>3, <2>1, <2>3
<1>10. Len(l) = Len(t)
  BY <1>3, <1>4
<1>11. Stands(l, t, {k \in S : k >= cut})
  BY <1>3, <1>4, <1>6, <1>7, <1>8, <1>9, <1>10, StandsMade
<1> QED BY <1>11 DEF l, t, n

-----------------------------------------------------------------------------
(* A number put in its place.                                              *)
LEMMA InsertFacts ==
  ASSUME NEW q \in Seq(Int), NEW e \in Int, NEW p \in 0..Len(q)
  PROVE  /\ InsertAt(q, p + 1, e) \in Seq(Int)
         /\ Len(InsertAt(q, p + 1, e)) = Len(q) + 1
         /\ \A i \in 1..(Len(q) + 1) :
               InsertAt(q, p + 1, e)[i] = IF i <= p THEN q[i]
                                          ELSE IF i = p + 1 THEN e ELSE q[i - 1]
<1> DEFINE n == Len(q)
           f == SubSeq(q, 1, p)
           g == SubSeq(q, p + 1, n)
<1>1. n \in Nat /\ p \in Int /\ p + 1 \in Int /\ (p + 1) - 1 = p /\ 0 <= p /\ p <= n
  OBVIOUS
<1>2. \A i \in 1..n : q[i] \in Int
  BY ElementOfSeq
<1>3. f \in Seq(Int) /\ Len(f) = p /\ \A i \in 1..p : f[i] = q[i]
  <2>1. \A i \in 1..p : q[i] \in Int
    BY <1>1, <1>2
  <2> HIDE DEF n
  <2>2. /\ f \in Seq(Int) /\ Len(f) = IF 1 <= p THEN p - 1 + 1 ELSE 0
        /\ \A i \in 1..(p - 1 + 1) : f[i] = q[1 + i - 1]
    BY <1>1, <2>1, SubSeqProperties
  <2> HIDE DEF f
  <2> QED BY <1>1, <2>2
<1>4. g \in Seq(Int) /\ Len(g) = n - p /\ \A i \in 1..(n - p) : g[i] = q[p + i]
  <2>1. \A i \in (p + 1)..n : q[i] \in Int
    BY <1>1, <1>2
  <2> HIDE DEF n
  <2>2. /\ g \in Seq(Int) /\ Len(g) = IF p + 1 <= n THEN n - (p + 1) + 1 ELSE 0
        /\ \A i \in 1..(n - (p + 1) + 1) : g[i] = q[(p + 1) + i - 1]
    BY <1>1, <2>1, SubSeqProperties
  <2>3. /\ (IF p + 1 <= n THEN n - (p + 1) + 1 ELSE 0) = n - p
        /\ n - (p + 1) + 1 = n - p
        /\ \A i \in 1..(n - p) : (p + 1) + i - 1 = p + i
    BY <1>1
  <2> HIDE DEF g
  <2>4. \A i \in 1..(n - p) : g[i] = q[p + i]
    BY <2>2, <2>3
  <2> QED BY <2>2, <2>3, <2>4
<1> HIDE DEF f, g, n
<1>5. <<e>> \in Seq(Int) /\ Len(<<e>>) = 1 /\ <<e>>[1] = e
  OBVIOUS
<1> DEFINE h == f \o <<e>>
<1>6. h \in Seq(Int) /\ Len(h) = p + 1
      /\ \A i \in 1..(p + 1) : h[i] = IF i <= p THEN q[i] ELSE e
  <2>1. h \in Seq(Int) /\ Len(h) = p + 1
        /\ \A i \in 1..(p + 1) : h[i] = IF i <= p THEN f[i] ELSE <<e>>[i - p]
    BY <1>3, <1>5, ConcatProperties
  <2> HIDE DEF h
  <2>2. \A i \in 1..(p + 1) : ~ (i <= p) => i - p = 1
    BY <1>1
  <2>3. \A i \in 1..(p + 1) : i <= p => i \in 1..p
    BY <1>1
  <2> QED BY <1>3, <1>5, <2>1, <2>2, <2>3
<1> DEFINE u == h \o g
<1> HIDE DEF h
<1>7. u \in Seq(Int) /\ Len(u) = (p + 1) + (n - p)
      /\ \A i \in 1..((p + 1) + (n - p)) : u[i] = IF i <= p + 1 THEN h[i] ELSE g[i - (p + 1)]
  <2>1. /\ u \in Seq(Int) /\ Len(u) = Len(h) + Len(g)
        /\ \A i \in 1..(Len(h) + Len(g)) :
              u[i] = IF i <= Len(h) THEN h[i] ELSE g[i - Len(h)]
    BY <1>4, <1>6, ConcatProperties
  <2>2. Len(h) = p + 1 /\ Len(g) = n - p
    BY <1>4, <1>6
  <2> HIDE DEF u
  <2> QED BY <2>1, <2>2
<1> HIDE DEF u
<1>8. (p + 1) + (n - p) = n + 1
  BY <1>1
<1>9. ASSUME NEW i \in 1..(n + 1)
      PROVE  u[i] = IF i <= p THEN q[i] ELSE IF i = p + 1 THEN e ELSE q[i - 1]
  <2>1. u[i] = IF i <= p + 1 THEN h[i] ELSE g[i - (p + 1)]
    BY <1>7, <1>8
  <2>2. CASE i <= p + 1
    <3>1. i \in 1..(p + 1)
      BY <1>1, <2>2
    <3>2. h[i] = IF i <= p THEN q[i] ELSE e
      BY <1>6, <3>1
    <3> QED BY <1>1, <2>1, <2>2, <3>1, <3>2
  <2>3. CASE ~ (i <= p + 1)
    <3>1. i - (p + 1) \in 1..(n - p) /\ p + (i - (p + 1)) = i - 1
      BY <1>1, <2>3
    <3>2. g[i - (p + 1)] = q[i - 1]
      BY <1>4, <3>1
    <3>3. ~ (i <= p) /\ i # p + 1
      BY <1>1, <2>3
    <3> QED BY <2>1, <2>3, <3>2, <3>3
  <2> QED BY <2>2, <2>3
<1>10. InsertAt(q, p + 1, e) = u
  BY <1>1 DEF InsertAt, u, h, f, g, n
<1> QED BY <1>7, <1>8, <1>9, <1>10 DEF n

LEMMA InsertStands ==
  ASSUME NEW list, NEW s, NEW S, Stands(list, s, S), NEW p \in 0..Len(s), NEW n \in Int,
         \A i \in 1..Len(s) : i <= p => s[i] < n,
         \A i \in 1..Len(s) : i > p => s[i] > n
  PROVE  Stands(InsertAt(list, p + 1, W(n)), InsertAt(s, p + 1, n), S \cup {n})
<1> DEFINE l == InsertAt(list, p + 1, W(n))
           t == InsertAt(s, p + 1, n)
           c == Len(s)
<1>1. /\ c \in Nat /\ Len(list) = c /\ s \in Seq(Int) /\ list \in Seq(Int)
      /\ \A i \in 1..c : s[i] \in Int /\ s[i] \in S /\ list[i] = W(s[i])
      /\ \A k \in S : \E i \in 1..c : s[i] = k
      /\ \A i, j \in 1..c : i < j => s[i] < s[j]
  BY StandsFacts DEF Stands
<1>2. /\ t \in Seq(Int) /\ Len(t) = c + 1
      /\ \A i \in 1..(c + 1) : t[i] = IF i <= p THEN s[i] ELSE IF i = p + 1 THEN n ELSE s[i - 1]
  <2>1. s \in Seq(Int) /\ n \in Int /\ p \in 0..Len(s)
    BY <1>1
  <2> QED BY <2>1, InsertFacts
<1>3. /\ l \in Seq(Int) /\ Len(l) = c + 1
      /\ \A i \in 1..(c + 1) :
            l[i] = IF i <= p THEN list[i] ELSE IF i = p + 1 THEN W(n) ELSE list[i - 1]
  <2>1. W(n) \in Int /\ list \in Seq(Int) /\ p \in 0..Len(list)
    BY <1>1, Sizes
  <2>2. /\ l \in Seq(Int) /\ Len(l) = Len(list) + 1
        /\ \A i \in 1..(Len(list) + 1) :
              l[i] = IF i <= p THEN list[i] ELSE IF i = p + 1 THEN W(n) ELSE list[i - 1]
    BY <2>1, InsertFacts
  <2> HIDE DEF l
  <2> QED BY <1>1, <2>2
<1>4. p \in 0..c
  OBVIOUS
<1>5. \A i \in 1..c : (i <= p => s[i] < n) /\ (i > p => s[i] > n)
  OBVIOUS
<1> HIDE DEF l, t, c
<1>6. \A i \in 1..(c + 1) : /\ i <= p => i \in 1..c
                            /\ i > p + 1 => i - 1 \in 1..c /\ i - 1 > p
  BY <1>1, <1>4
<1>7. \A i \in 1..(c + 1) : l[i] = W(t[i])
  <2> SUFFICES ASSUME NEW i \in 1..(c + 1) PROVE l[i] = W(t[i])
    OBVIOUS
  <2>1. CASE i <= p
    BY <1>1, <1>2, <1>3, <1>6, <2>1
  <2>2. CASE i = p + 1
    <3>1. ~ (i <= p)
      BY <1>4, <2>2
    <3> QED BY <1>2, <1>3, <2>2, <3>1
  <2>3. CASE i > p + 1
    <3>1. ~ (i <= p) /\ i # p + 1
      BY <1>4, <2>3
    <3>2. t[i] = s[i - 1] /\ l[i] = list[i - 1]
      BY <1>2, <1>3, <3>1
    <3>3. list[i - 1] = W(s[i - 1])
      BY <1>1, <1>6, <2>3
    <3> QED BY <3>2, <3>3
  <2> QED BY <1>4, <2>1, <2>2, <2>3
<1>8. \A i, j \in 1..(c + 1) : i < j => t[i] < t[j]
  <2> SUFFICES ASSUME NEW i \in 1..(c + 1), NEW j \in 1..(c + 1), i < j PROVE t[i] < t[j]
    OBVIOUS
  <2>1. CASE j <= p
    <3>1. i <= p
      BY <1>4, <2>1
    <3> QED BY <1>1, <1>2, <1>6, <2>1, <3>1
  <2>2. CASE j = p + 1
    <3>1. i <= p /\ ~ (j <= p)
      BY <1>4, <2>2
    <3> QED BY <1>2, <1>5, <1>6, <2>2, <3>1
  <2>3. CASE j > p + 1
    <3>1. ~ (j <= p) /\ j # p + 1
      BY <1>4, <2>3
    <3>2. t[j] = s[j - 1] /\ j - 1 \in 1..c /\ j - 1 > p /\ s[j - 1] > n
      BY <1>2, <1>5, <1>6, <2>3, <3>1
    <3>3. CASE i <= p
      <4>1. t[i] = s[i] /\ i < j - 1 /\ i \in 1..c
        BY <1>2, <1>4, <1>6, <2>3, <3>3
      <4> QED BY <1>1, <3>2, <4>1
    <3>4. CASE i = p + 1
      <4>1. t[i] = n
        BY <1>2, <1>4, <3>4
      <4>2. s[j - 1] \in Int
        BY <1>1, <3>2
      <4> QED BY <3>2, <4>1, <4>2
    <3>5. CASE i > p + 1
      <4>1. t[i] = s[i - 1] /\ i - 1 < j - 1 /\ i - 1 \in 1..c
        BY <1>2, <1>4, <1>6, <3>5
      <4> QED BY <1>1, <3>2, <4>1
    <3> QED BY <1>4, <3>3, <3>4, <3>5
  <2> QED BY <1>4, <2>1, <2>2, <2>3
<1>9. \A i \in 1..(c + 1) : t[i] \in S \cup {n}
  <2> SUFFICES ASSUME NEW i \in 1..(c + 1) PROVE t[i] \in S \cup {n}
    OBVIOUS
  <2>1. CASE i <= p
    BY <1>1, <1>2, <1>6, <2>1
  <2>2. CASE i = p + 1
    BY <1>2, <1>4, <2>2
  <2>3. CASE i > p + 1
    <3>1. ~ (i <= p) /\ i # p + 1
      BY <1>4, <2>3
    <3> QED BY <1>1, <1>2, <1>6, <2>3, <3>1
  <2> QED BY <1>4, <2>1, <2>2, <2>3
<1>10. \A k \in S \cup {n} : \E i \in 1..(c + 1) : t[i] = k
  <2>1. p + 1 \in 1..(c + 1) /\ t[p + 1] = n
    BY <1>1, <1>2, <1>4
  <2>2. ASSUME NEW k \in S PROVE \E i \in 1..(c + 1) : t[i] = k
    <3>1. PICK i \in 1..c : s[i] = k
      BY <1>1
    <3>2. CASE i <= p
      <4>1. i \in 1..(c + 1) /\ t[i] = k
        BY <1>1, <1>2, <3>1, <3>2
      <4> QED BY <4>1
    <3>3. CASE i > p
      <4>1. i + 1 \in 1..(c + 1) /\ ~ (i + 1 <= p) /\ i + 1 # p + 1 /\ (i + 1) - 1 = i
        BY <1>1, <1>4, <3>3
      <4>2. t[i + 1] = k
        BY <1>2, <3>1, <4>1
      <4> QED BY <4>1, <4>2
    <3> QED BY <1>4, <3>2, <3>3
  <2> QED BY <2>1, <2>2
<1>11. Stands(l, t, S \cup {n})
  BY <1>2, <1>3, <1>7, <1>8, <1>9, <1>10, StandsMade
<1> QED BY <1>11 DEF l, t

(* A number taken out.                                                     *)
LEMMA RemoveStands ==
  ASSUME NEW list, NEW s, NEW S, Stands(list, s, S), NEW at \in 1..Len(s),
         NEW l \in Seq(Int), Len(l) = Len(s) - 1,
         \A i \in 1..(Len(s) - 1) : l[i] = IF i < at THEN list[i] ELSE list[i + 1]
  PROVE  \E t : Stands(l, t, S \ {s[at]})
<1> DEFINE n == Len(s)
           t == [i \in 1..(n - 1) |-> IF i < at THEN s[i] ELSE s[i + 1]]
<1>0. /\ n \in Nat /\ at \in 1..n
      /\ \A i \in 1..n : s[i] \in Int /\ s[i] \in S /\ list[i] = W(s[i])
      /\ \A k \in S : \E i \in 1..n : s[i] = k
      /\ \A i, j \in 1..n : i < j => s[i] < s[j]
  <2> USE DEF n
  <2>1. n \in Nat
    BY StandsFacts
  <2>2. \A i \in 1..n : s[i] \in Int /\ s[i] \in S /\ list[i] = W(s[i])
    BY StandsFacts
  <2>3. \A k \in S : \E i \in 1..n : s[i] = k
    BY StandsFacts
  <2>4. \A i, j \in 1..n : i < j => s[i] < s[j]
    BY StandsFacts
  <2>5. at \in 1..n
    OBVIOUS
  <2> HIDE DEF n
  <2> QED BY <2>1, <2>2, <2>3, <2>4, <2>5
<1>1. /\ n \in Nat \ {0} /\ at \in 1..n
      /\ \A i \in 1..n : s[i] \in Int /\ s[i] \in S /\ list[i] = W(s[i])
      /\ \A k \in S : \E i \in 1..n : s[i] = k
      /\ \A i, j \in 1..n : i < j => s[i] < s[j]
  <2>1. n # 0
    <3> HIDE DEF n
    <3> QED BY <1>0
  <2> QED BY <1>0, <2>1
<1>2. Len(l) = n - 1 /\ \A i \in 1..(n - 1) : l[i] = IF i < at THEN list[i] ELSE list[i + 1]
  OBVIOUS
<1> HIDE DEF n
<1>3. \A i \in 1..(n - 1) : i \in 1..n /\ i + 1 \in 1..n
  BY <1>1
<1>4. t \in Seq(Int) /\ Len(t) = n - 1 /\ \A i \in 1..(n - 1) : t[i] = IF i < at THEN s[i] ELSE s[i + 1]
  <2>1. \A i \in 1..(n - 1) : t[i] \in Int
    BY <1>1, <1>3
  <2>2. n - 1 \in Nat
    BY <1>1
  <2> QED BY <2>1, <2>2
<1> HIDE DEF t
<1>5. \A i \in 1..(n - 1) : l[i] = W(t[i])
  <2> SUFFICES ASSUME NEW i \in 1..(n - 1) PROVE l[i] = W(t[i])
    OBVIOUS
  <2>1. i \in 1..n /\ i + 1 \in 1..n
    BY <1>3
  <2>2. list[i] = W(s[i]) /\ list[i + 1] = W(s[i + 1])
    BY <1>1, <2>1
  <2>3. /\ l[i] = IF i < at THEN list[i] ELSE list[i + 1]
        /\ t[i] = IF i < at THEN s[i] ELSE s[i + 1]
    BY <1>2, <1>4
  <2> QED BY <2>2, <2>3
<1>6. \A i, j \in 1..(n - 1) : i < j => t[i] < t[j]
  <2> SUFFICES ASSUME NEW i \in 1..(n - 1), NEW j \in 1..(n - 1), i < j PROVE t[i] < t[j]
    OBVIOUS
  <2>1. CASE j < at
    <3>1. i < at
      BY <2>1
    <3> QED BY <1>1, <1>3, <1>4, <2>1, <3>1
  <2>2. CASE ~ (j < at)
    <3>1. t[j] = s[j + 1]
      BY <1>4, <2>2
    <3>2. i + 1 < j + 1 /\ i < j + 1 /\ i \in 1..n /\ i + 1 \in 1..n /\ j + 1 \in 1..n
      BY <1>1, <1>3
    <3>3. s[i] < s[j + 1] /\ s[i + 1] < s[j + 1]
      BY <1>1, <3>2
    <3>4. t[i] = s[i] \/ t[i] = s[i + 1]
      BY <1>4
    <3> QED BY <3>1, <3>3, <3>4
  <2> QED BY <2>1, <2>2
<1>7. \A i \in 1..(n - 1) : t[i] \in S \ {s[at]}
  <2> SUFFICES ASSUME NEW i \in 1..(n - 1) PROVE t[i] \in S /\ t[i] # s[at]
    OBVIOUS
  <2>1. CASE i < at
    <3>1. t[i] = s[i] /\ s[i] < s[at] /\ s[i] \in Int /\ s[at] \in Int /\ s[i] \in S
      BY <1>1, <1>3, <1>4, <2>1
    <3> QED BY <3>1
  <2>2. CASE ~ (i < at)
    <3>1. at < i + 1 /\ i + 1 \in 1..n
      BY <1>1, <1>3, <2>2
    <3>2. t[i] = s[i + 1] /\ s[at] < s[i + 1] /\ s[i + 1] \in Int /\ s[at] \in Int /\ s[i + 1] \in S
      BY <1>1, <1>4, <2>2, <3>1
    <3> QED BY <3>2
  <2> QED BY <2>1, <2>2
<1>8. \A k \in S \ {s[at]} : \E i \in 1..(n - 1) : t[i] = k
  <2> SUFFICES ASSUME NEW k \in S, k # s[at] PROVE \E i \in 1..(n - 1) : t[i] = k
    OBVIOUS
  <2>1. PICK i \in 1..n : s[i] = k
    BY <1>1
  <2>2. i # at
    BY <2>1
  <2>3. CASE i < at
    <3>1. i \in 1..(n - 1) /\ t[i] = k
      BY <1>1, <1>4, <2>1, <2>3
    <3> QED BY <3>1
  <2>4. CASE i > at
    <3>1. i - 1 \in 1..(n - 1) /\ ~ (i - 1 < at) /\ (i - 1) + 1 = i
      BY <1>1, <2>4
    <3>2. t[i - 1] = k
      BY <1>4, <2>1, <3>1
    <3> QED BY <3>1, <3>2
  <2> QED BY <1>1, <2>2, <2>3, <2>4
<1>9. Stands(l, t, S \ {s[at]})
  BY <1>2, <1>4, <1>5, <1>6, <1>7, <1>8, StandsMade
<1> QED BY <1>9

(* Numbers added at the end.                                               *)
LEMMA AppendStands ==
  ASSUME NEW list, NEW s, NEW S, Stands(list, s, S), NEW m \in Nat, NEW x \in Int,
         \A k \in S : k < x,
         NEW l \in Seq(Int), Len(l) = Len(s) + m,
         \A i \in 1..(Len(s) + m) :
            l[i] = IF i <= Len(s) THEN list[i] ELSE W(x + (i - Len(s)) - 1)
  PROVE  \E t : Stands(l, t, S \cup (x..(x + m - 1)))
<1> DEFINE n == Len(s)
           t == [i \in 1..(n + m) |-> IF i <= n THEN s[i] ELSE x + (i - n) - 1]
           T == S \cup (x..(x + m - 1))
<1>1. /\ n \in Nat
      /\ \A i \in 1..n : s[i] \in Int /\ s[i] \in S /\ s[i] < x /\ list[i] = W(s[i])
      /\ \A k \in S : \E i \in 1..n : s[i] = k
      /\ \A i, j \in 1..n : i < j => s[i] < s[j]
  BY StandsFacts
<1>2. /\ Len(l) = n + m
      /\ \A i \in 1..(n + m) : l[i] = IF i <= n THEN list[i] ELSE W(x + (i - n) - 1)
  OBVIOUS
<1> HIDE DEF n
<1>3. n + m \in Nat /\ \A i \in 1..(n + m) : i <= n => i \in 1..n
  BY <1>1
<1>4. /\ t \in Seq(Int) /\ Len(t) = n + m
      /\ \A i \in 1..(n + m) : t[i] = IF i <= n THEN s[i] ELSE x + (i - n) - 1
  <2>1. \A i \in 1..(n + m) : (IF i <= n THEN s[i] ELSE x + (i - n) - 1) \in Int
    BY <1>1, <1>3
  <2>2. t \in [1..(n + m) -> Int]
    BY <2>1
  <2> DEFINE c == n + m
  <2>3. c \in Nat /\ t \in [1..c -> Int]
    BY <1>3, <2>2
  <2>4. t \in Seq(Int) /\ Len(t) = c
    <3> HIDE DEF c, t
    <3> QED BY <2>3
  <2>5. \A i \in 1..(n + m) : t[i] = IF i <= n THEN s[i] ELSE x + (i - n) - 1
    OBVIOUS
  <2> HIDE DEF t
  <2> QED BY <2>4, <2>5
<1> HIDE DEF t
<1>5. \A i \in 1..(n + m) : l[i] = W(t[i])
  BY <1>1, <1>2, <1>3, <1>4
<1>6. \A i, j \in 1..(n + m) : i < j => t[i] < t[j]
  <2> SUFFICES ASSUME NEW i \in 1..(n + m), NEW j \in 1..(n + m), i < j PROVE t[i] < t[j]
    OBVIOUS
  <2>1. CASE j <= n
    <3>1. i <= n
      BY <1>1, <2>1
    <3> QED BY <1>1, <1>3, <1>4, <2>1, <3>1
  <2>2. CASE ~ (j <= n) /\ i <= n
    <3>1. t[i] = s[i] /\ s[i] < x /\ s[i] \in Int
      BY <1>1, <1>3, <1>4, <2>2
    <3>2. t[j] = x + (j - n) - 1 /\ x + (j - n) - 1 >= x /\ x + (j - n) - 1 \in Int
      BY <1>1, <1>4, <2>2
    <3> HIDE <2>2
    <3> QED BY <3>1, <3>2
  <2>3. CASE ~ (i <= n)
    <3>1. ~ (j <= n)
      BY <1>1, <2>3
    <3> QED BY <1>1, <1>4, <2>3, <3>1
  <2> QED BY <2>1, <2>2, <2>3
<1>7. \A i \in 1..(n + m) : t[i] \in T
  <2> SUFFICES ASSUME NEW i \in 1..(n + m) PROVE t[i] \in T
    OBVIOUS
  <2>1. CASE i <= n
    BY <1>1, <1>3, <1>4, <2>1
  <2>2. CASE ~ (i <= n)
    <3>1. x + (i - n) - 1 \in x..(x + m - 1)
      BY <1>1, <2>2
    <3> QED BY <1>4, <2>2, <3>1
  <2> QED BY <2>1, <2>2
<1>8. \A k \in T : \E i \in 1..(n + m) : t[i] = k
  <2>1. ASSUME NEW k \in S PROVE \E i \in 1..(n + m) : t[i] = k
    <3>1. PICK i \in 1..n : s[i] = k
      BY <1>1
    <3>2. i \in 1..(n + m) /\ i <= n
      BY <1>1
    <3> QED BY <1>4, <3>1, <3>2
  <2>2. ASSUME NEW k \in x..(x + m - 1) PROVE \E i \in 1..(n + m) : t[i] = k
    <3>1. /\ (k - x) + 1 + n \in 1..(n + m) /\ ~ ((k - x) + 1 + n <= n)
          /\ x + (((k - x) + 1 + n) - n) - 1 = k
      BY <1>1
    <3> QED BY <1>4, <3>1
  <2> QED BY <2>1, <2>2
<1> HIDE DEF T
<1>9. Stands(l, t, T)
  BY <1>2, <1>4, <1>5, <1>6, <1>7, <1>8, StandsMade
<1> QED BY <1>9 DEF T

-----------------------------------------------------------------------------
(* The place that ikcp_parse_data finds is the one in the order of the     *)
(* integers, and a number that is there already is not put there again.    *)
LEMMA PlacedStands ==
  ASSUME NEW list, NEW s, NEW S, Stands(list, s, S), NEW n \in Int,
         \A k \in S : k - n < Half /\ n - k < Half
  PROVE  \E t : Stands(Placed(list, W(n)), t, S \cup {n})
<1> DEFINE c == Len(s)
           T == {i \in DOMAIN list : list[i] = W(n) \/ Diff(W(n), list[i]) > 0} \cup {0}
           p == Max(T)
<1>1. /\ c \in Nat /\ Half \in Nat
      /\ DOMAIN list = 1..c
      /\ \A i \in 1..c : s[i] \in Int /\ s[i] \in S /\ list[i] = W(s[i])
      /\ \A i, j \in 1..c : i < j => s[i] < s[j]
  BY StandsFacts, HalfNat
<1>2. Placed(list, W(n)) = IF p > 0 /\ list[p] = W(n) THEN list
                           ELSE InsertAt(list, p + 1, W(n))
  BY DEF Placed
<1> HIDE DEF c
<1>3. ASSUME NEW i \in 1..c
      PROVE  /\ list[i] = W(n) <=> s[i] = n
             /\ Diff(W(n), list[i]) > 0 <=> s[i] < n
  <2>1. s[i] \in Int /\ s[i] - n < Half /\ n - s[i] < Half /\ list[i] = W(s[i])
    BY <1>1
  <2>2. Diff(W(n), W(s[i])) = n - s[i]
    BY <1>1, <2>1, DiffOf
  <2>3. W(s[i]) = W(n) => s[i] = n
    BY <2>1, SameWord
  <2> QED BY <2>1, <2>2, <2>3
<1>4. \A i \in 1..c : i \in T <=> s[i] <= n
  <2> SUFFICES ASSUME NEW i \in 1..c PROVE i \in T <=> s[i] <= n
    OBVIOUS
  <2>1. i \in T <=> (list[i] = W(n) \/ Diff(W(n), list[i]) > 0)
    BY <1>1
  <2>2. s[i] \in Int
    BY <1>1
  <2> HIDE DEF T
  <2> QED BY <1>3, <2>1, <2>2
<1>5. T \in SUBSET (0..c) /\ T # {}
  BY <1>1
<1> HIDE DEF T
<1>6. p \in T /\ p \in 0..c /\ \A i \in T : p >= i
  BY <1>1, <1>5, MaxNat
<1> HIDE DEF p
<1>7. \A i \in 1..c : i > p => s[i] > n
  <2> SUFFICES ASSUME NEW i \in 1..c, i > p PROVE s[i] > n
    OBVIOUS
  <2>1. i \notin T
    BY <1>1, <1>6
  <2>2. s[i] \in Int
    BY <1>1
  <2> QED BY <1>4, <2>1, <2>2
<1>8. CASE p > 0 /\ list[p] = W(n)
  <2>1. p \in 1..c
    BY <1>1, <1>6, <1>8
  <2>2. n \in S
    BY <1>1, <1>3, <1>8, <2>1
  <2>3. S \cup {n} = S
    BY <2>2
  <2> QED BY <1>2, <1>8, <2>3
<1>9. CASE ~ (p > 0 /\ list[p] = W(n))
  <2>1. \A i \in 1..c : i <= p => s[i] < n
    <3> SUFFICES ASSUME NEW i \in 1..c, i <= p PROVE s[i] < n
      OBVIOUS
    <3>1. p \in 1..c /\ p > 0
      BY <1>1, <1>6
    <3>2. s[p] <= n /\ s[p] # n /\ s[p] \in Int
      BY <1>1, <1>3, <1>4, <1>6, <1>9, <3>1
    <3>3. s[i] \in Int /\ (i = p \/ s[i] < s[p])
      BY <1>1, <3>1
    <3> QED BY <3>2, <3>3
  <2>2. p \in 0..Len(s) /\ (\A i \in 1..Len(s) : i <= p => s[i] < n)
        /\ (\A i \in 1..Len(s) : i > p => s[i] > n)
    BY <1>6, <1>7, <2>1 DEF c
  <2>3. Stands(InsertAt(list, p + 1, W(n)), InsertAt(s, p + 1, n), S \cup {n})
    BY <2>2, InsertStands
  <2>4. Placed(list, W(n)) = InsertAt(list, p + 1, W(n))
    BY <1>2, <1>9
  <2> QED BY <2>3, <2>4
<1> QED BY <1>8, <1>9

(* The integers that a behaviour reaches.                                  *)
Top == Base + MaxSegs

(* The loop takes the numbers from nxt on that follow one another, and     *)
(* what is left is what lies beyond the new nxt.                           *)
LEMMA MoveStands ==
  ASSUME NEW list, NEW s, NEW S, Stands(list, s, S), NEW que \in Int, Move(list, que),
         rcv_nxt = W(nxt), nxt \in Base..Top,
         S \subseteq nxt..(Top - 1)
  PROVE  /\ nxt' \in nxt..Top /\ rcv_nxt' = W(nxt')
         /\ \E t : Stands(rcv_buf', t, {k \in S : k >= nxt'})
         /\ nrcv_que' = que + (nxt' - nxt)
         /\ \A k \in nxt..(nxt' - 1) : k \in S
         /\ nxt' \in S => nrcv_que' >= RcvWnd
<1> DEFINE c == Len(s)
           T == {i \in 0..Len(list) : \/ i = Len(list)
                                      \/ list[i + 1] # W(rcv_nxt + i)
                                      \/ que + i >= RcvWnd}
           m == Min(T)
<1>1. /\ c \in Nat /\ Len(list) = c
      /\ \A i \in 1..c : s[i] \in Int /\ s[i] \in nxt..(Top - 1) /\ list[i] = W(s[i])
      /\ \A i, j \in 1..c : i < j => s[i] < s[j]
  <2>1. /\ c \in Nat /\ Len(list) = c
        /\ \A i \in 1..c : s[i] \in Int /\ s[i] \in S /\ list[i] = W(s[i])
        /\ \A i, j \in 1..c : i < j => s[i] < s[j]
    BY StandsFacts
  <2>2. \A k \in S : k \in nxt..(Top - 1)
    BY Zenon
  <2> HIDE DEF c
  <2> QED BY <2>1, <2>2
<1>2. /\ rcv_buf' = SubSeq(list, m + 1, Len(list))
      /\ rcv_nxt' = W(rcv_nxt + m) /\ nxt' = nxt + m /\ nrcv_que' = que + m
  BY DEF Move
<1>3. Half \in Nat /\ MaxSegs < Half /\ Base \in Nat /\ MaxSegs \in Nat /\ nxt \in Int
      /\ nxt >= Base /\ nxt <= Top /\ Top - Base < Half /\ Top \in Int
  BY HalfNat, Sizes DEF Top
<1> HIDE DEF c
<1>4. T \in SUBSET Nat /\ T \subseteq 0..c /\ c \in T
  BY <1>1
<1>5. m \in 0..c /\ m \in T /\ \A i \in T : m <= i
  <2> HIDE DEF T
  <2> QED BY <1>4, MinNat
<1>6. \A i \in 0..(m - 1) : i \in 0..(c - 1) /\ list[i + 1] = W(nxt + i)
  <2> SUFFICES ASSUME NEW i \in 0..(m - 1) PROVE i \in 0..(c - 1) /\ list[i + 1] = W(nxt + i)
    OBVIOUS
  <2>1. i \in 0..(c - 1) /\ i \in 0..c /\ i < m
    <3> HIDE DEF m
    <3> QED BY <1>1, <1>5
  <2>2. i \notin T
    <3> HIDE DEF T, m
    <3> QED BY <1>5, <2>1
  <2>3. list[i + 1] = W(rcv_nxt + i)
    BY <1>1, <2>1, <2>2
  <2>4. W(rcv_nxt + i) = W(nxt + i)
    <3>1. nxt \in Int /\ i \in Int
      BY <1>3
    <3>2. W(W(nxt) + i) = W(nxt + i)
      BY <3>1, WordOfSum
    <3> QED BY <3>2
  <2> QED BY <2>1, <2>3, <2>4
<1> HIDE DEF T, m
<1> DEFINE Bad == {i \in 0..(m - 1) : s[i + 1] # nxt + i}
<1>7. Bad = {}
  <2> SUFFICES ASSUME Bad # {} PROVE FALSE
    OBVIOUS
  <2> DEFINE k == Min(Bad)
  <2>1. k \in Bad /\ \A i \in Bad : k <= i
    <3>1. Bad \in SUBSET Nat
      OBVIOUS
    <3> HIDE DEF Bad
    <3> QED BY <3>1, MinNat
  <2> HIDE DEF k
  <2>2. k \in 0..(m - 1) /\ s[k + 1] # nxt + k /\ k + 1 \in 1..c /\ k \in Nat
    <3>1. k \in 0..(m - 1) /\ s[k + 1] # nxt + k
      BY <2>1
    <3> QED BY <1>1, <1>5, <3>1
  <2>3. s[k + 1] \in nxt..(Top - 1) /\ s[k + 1] \in Int /\ W(s[k + 1]) = W(nxt + k)
    BY <1>1, <1>6, <2>2
  <2>4. nxt + k <= Top
    <3>1. CASE k = 0
      BY <1>3, <3>1
    <3>2. CASE k # 0
      <4>1. k - 1 \in 0..(m - 1) /\ k - 1 < k /\ k \in 1..c /\ (k - 1) + 1 = k
        BY <1>1, <1>5, <2>2, <3>2
      <4>2. k - 1 \notin Bad
        <5> HIDE DEF Bad
        <5> QED BY <1>5, <2>1, <2>2, <4>1
      <4>3. s[k] = nxt + (k - 1)
        BY <4>1, <4>2
      <4>4. s[k] \in nxt..(Top - 1)
        BY <1>1, <4>1
      <4> QED BY <1>3, <2>2, <4>3, <4>4
    <3> QED BY <3>1, <3>2
  <2> DEFINE a == s[k + 1]
             b == nxt + k
  <2>5. a \in Int /\ b \in Int /\ a - b < Half /\ b - a < Half /\ W(a) = W(b)
    <3>1. a >= nxt /\ a < Top /\ b >= nxt /\ b <= Top /\ a \in Int /\ b \in Int
      BY <1>3, <2>2, <2>3, <2>4
    <3>2. W(a) = W(b)
      BY <2>3
    <3> HIDE DEF a, b
    <3> QED BY <1>3, <3>1, <3>2
  <2>6. a = b
    <3> HIDE DEF a, b
    <3> QED BY <2>5, SameWord
  <2> QED BY <2>2, <2>6
<1>8. \A i \in 1..m : i \in 1..c /\ s[i] = nxt + i - 1
  <2> SUFFICES ASSUME NEW i \in 1..m PROVE i \in 1..c /\ s[i] = nxt + i - 1
    OBVIOUS
  <2>1. i - 1 \in 0..(m - 1) /\ (i - 1) + 1 = i /\ i \in 1..c
    BY <1>1, <1>5
  <2>2. s[i] = nxt + (i - 1)
    BY <1>7, <2>1
  <2> QED BY <1>3, <2>1, <2>2
<1> HIDE DEF Bad
<1>9. nxt' \in nxt..Top
  <2>1. CASE m = 0
    BY <1>2, <1>3, <2>1
  <2>2. CASE m # 0
    <3>1. m \in 1..m /\ m \in 1..c
      BY <1>1, <1>5, <2>2
    <3>2. s[m] = nxt + m - 1 /\ s[m] \in nxt..(Top - 1)
      BY <1>1, <1>8, <3>1
    <3> QED BY <1>2, <1>3, <1>5, <3>1, <3>2
  <2> QED BY <2>1, <2>2
<1>10. rcv_nxt' = W(nxt')
  <2>1. W(W(nxt) + m) = W(nxt + m)
    BY <1>3, <1>5, WordOfSum
  <2> QED BY <1>2, <2>1
<1>11. Stands(SubSeq(list, m + 1, Len(list)), SubSeq(s, m + 1, Len(s)), {k \in S : k >= nxt + m})
  <2>1. m + 1 \in 1..(c + 1) /\ nxt + m \in Int /\ m \in Int
    BY <1>1, <1>3, <1>5
  <2>2. \A i \in 1..c : i < m + 1 => s[i] < nxt + m
    <3> SUFFICES ASSUME NEW i \in 1..c, i < m + 1 PROVE s[i] < nxt + m
      OBVIOUS
    <3>1. i \in 1..m
      BY <1>5
    <3> QED BY <1>3, <1>5, <1>8, <3>1
  <2>3. \A i \in 1..c : i >= m + 1 => s[i] >= nxt + m
    <3> SUFFICES ASSUME NEW i \in 1..c, i >= m + 1 PROVE s[i] >= nxt + m
      OBVIOUS
    <3>1. s[i] \in Int /\ s[i] >= nxt
      BY <1>1, <1>3
    <3>2. CASE m = 0
      BY <1>3, <3>1, <3>2
    <3>3. CASE m # 0
      <4>1. m \in 1..m /\ m \in 1..c /\ m < i
        BY <1>1, <1>5, <3>3
      <4>2. s[m] = nxt + m - 1 /\ s[m] < s[i]
        BY <1>1, <1>8, <4>1
      <4> QED BY <1>3, <1>5, <3>1, <4>2
    <3> QED BY <3>2, <3>3
  <2>4. /\ m + 1 \in 1..(Len(s) + 1) /\ nxt + m \in Int
        /\ \A i \in 1..Len(s) : i < m + 1 => s[i] < nxt + m
        /\ \A i \in 1..Len(s) : i >= m + 1 => s[i] >= nxt + m
    BY <2>1, <2>2, <2>3 DEF c
  <2> DEFINE a == m + 1
             cut == nxt + m
  <2> HIDE DEF a, cut
  <2>5. /\ a \in 1..(Len(s) + 1) /\ cut \in Int
        /\ \A i \in 1..Len(s) : i < a => s[i] < cut
        /\ \A i \in 1..Len(s) : i >= a => s[i] >= cut
    BY <2>4 DEF a, cut
  <2>6. Stands(SubSeq(list, a, Len(list)), SubSeq(s, a, Len(s)), {k \in S : k >= cut})
    BY <2>5, SuffixStands
  <2> QED BY <2>6 DEF a, cut
<1>12. \E t : Stands(rcv_buf', t, {k \in S : k >= nxt'})
  BY <1>2, <1>11
<1>13. ASSUME NEW k \in nxt..(nxt' - 1) PROVE k \in S
  <2>1. (k - nxt) + 1 \in 1..m /\ nxt + ((k - nxt) + 1) - 1 = k
    BY <1>2, <1>3, <1>5
  <2>2. (k - nxt) + 1 \in 1..c /\ s[(k - nxt) + 1] = k
    BY <1>8, <2>1
  <2> QED BY <2>2, StandsFacts DEF c
<1>14. ASSUME nxt' \in S, ~ (que + m >= RcvWnd) PROVE FALSE
  <2>1. PICK j \in 1..c : s[j] = nxt + m
    BY <1>2, <1>14, StandsFacts DEF c
  <2>2. ~ (j <= m)
    <3> SUFFICES ASSUME j <= m PROVE FALSE
      OBVIOUS
    <3>1. j \in 1..m
      BY <1>5
    <3> QED BY <1>3, <1>5, <1>8, <2>1, <3>1
  <2>3. m + 1 \in 1..c /\ m + 1 <= j
    BY <1>1, <1>5, <2>2
  <2>4. list[m + 1] # W(rcv_nxt + m)
    <3>1. m # c
      BY <1>1, <1>5, <2>3
    <3> QED BY <1>1, <1>5, <1>14, <3>1 DEF T
  <2>5. W(rcv_nxt + m) = W(nxt + m)
    <3>1. W(W(nxt) + m) = W(nxt + m)
      BY <1>3, <1>5, WordOfSum
    <3> QED BY <3>1
  <2>6. s[m + 1] # nxt + m
    BY <1>1, <2>3, <2>4, <2>5
  <2>7. s[m + 1] < nxt + m
    BY <1>1, <2>1, <2>3, <2>6
  <2>8. s[m + 1] \in Int /\ s[m + 1] >= nxt
    BY <1>1, <1>3, <2>3
  <2>9. CASE m = 0
    BY <1>3, <2>7, <2>8, <2>9
  <2>10. CASE m # 0
    <3>1. m \in 1..m /\ m \in 1..c /\ m < m + 1
      BY <1>1, <1>5, <2>10
    <3>2. s[m] = nxt + m - 1 /\ s[m] < s[m + 1]
      BY <1>1, <1>8, <2>3, <3>1
    <3> QED BY <1>3, <1>5, <2>7, <2>8, <3>2
  <2> QED BY <2>9, <2>10
<1>15. nrcv_que' = que + (nxt' - nxt)
  BY <1>2, <1>3, <1>5
<1> QED BY <1>2, <1>9, <1>10, <1>12, <1>13, <1>14, <1>15

-----------------------------------------------------------------------------
(* The sender's list is a list of segments.                                *)
Sns(list) == [i \in DOMAIN list |-> list[i].sn]

LEMMA SnsFacts ==
  ASSUME NEW list \in Seq(Seg)
  PROVE  /\ Len(list) \in Nat /\ DOMAIN list = 1..Len(list)
         /\ Sns(list) \in Seq(Int) /\ Len(Sns(list)) = Len(list)
         /\ \A i \in 1..Len(list) : list[i] \in Seg /\ Sns(list)[i] = list[i].sn
<1> DEFINE c == Len(list)
           f == Sns(list)
<1>1. c \in Nat /\ DOMAIN list = 1..c
  OBVIOUS
<1>2. \A i \in 1..c : list[i] \in Seg /\ list[i].sn \in Int
  <2> SUFFICES ASSUME NEW i \in 1..c PROVE list[i] \in Seg /\ list[i].sn \in Int
    OBVIOUS
  <2>1. list[i] \in Seg
    BY ElementOfSeq
  <2> QED BY <2>1 DEF Seg
<1> HIDE DEF c
<1>3. f \in [1..c -> Int]
  BY <1>1, <1>2 DEF Sns
<1>4. \A i \in 1..c : f[i] = list[i].sn
  BY <1>1 DEF Sns
<1> HIDE DEF f
<1>5. f \in Seq(Int) /\ Len(f) = c
  BY <1>1, <1>3
<1> QED BY <1>1, <1>2, <1>4, <1>5 DEF c, f

LEMMA SnsSubSeq ==
  ASSUME NEW list \in Seq(Seg), NEW a \in 1..(Len(list) + 1)
  PROVE  /\ SubSeq(list, a, Len(list)) \in Seq(Seg)
         /\ Len(SubSeq(list, a, Len(list))) = Len(list) - a + 1
         /\ \A i \in 1..(Len(list) - a + 1) : SubSeq(list, a, Len(list))[i] = list[a + i - 1]
         /\ Sns(SubSeq(list, a, Len(list))) = SubSeq(Sns(list), a, Len(Sns(list)))
<1> DEFINE c == Len(list)
           l == SubSeq(list, a, c)
           f == Sns(list)
           g == SubSeq(f, a, c)
<1>1. /\ c \in Nat /\ f \in Seq(Int) /\ Len(f) = c
      /\ \A i \in 1..c : list[i] \in Seg /\ f[i] = list[i].sn /\ f[i] \in Int
  <2>1. /\ c \in Nat /\ f \in Seq(Int) /\ Len(f) = c
        /\ \A i \in 1..c : list[i] \in Seg /\ f[i] = list[i].sn
    BY SnsFacts
  <2>2. \A i \in 1..c : list[i].sn \in Int
    <3> HIDE DEF c, f
    <3> QED BY <2>1 DEF Seg
  <2> HIDE DEF c, f
  <2> QED BY <2>1, <2>2
<1>2. a \in 1..(c + 1)
  OBVIOUS
<1> HIDE DEF c, f
<1>3. a \in Int /\ (\A i \in a..c : i \in 1..c)
      /\ (IF a <= c THEN c - a + 1 ELSE 0) = c - a + 1
  BY <1>1, <1>2
<1>4. l \in Seq(Seg) /\ Len(l) = c - a + 1 /\ \A i \in 1..(c - a + 1) : l[i] = list[a + i - 1]
  <2>1. \A i \in a..c : list[i] \in Seg
    BY <1>1, <1>3
  <2>2. /\ l \in Seq(Seg) /\ Len(l) = IF a <= c THEN c - a + 1 ELSE 0
        /\ \A i \in 1..(c - a + 1) : l[i] = list[a + i - 1]
    BY <1>1, <1>3, <2>1, SubSeqProperties
  <2> HIDE DEF l
  <2> QED BY <1>3, <2>2
<1>5. g \in Seq(Int) /\ Len(g) = c - a + 1 /\ \A i \in 1..(c - a + 1) : g[i] = f[a + i - 1]
  <2>1. \A i \in a..c : f[i] \in Int
    BY <1>1, <1>3
  <2>2. /\ g \in Seq(Int) /\ Len(g) = IF a <= c THEN c - a + 1 ELSE 0
        /\ \A i \in 1..(c - a + 1) : g[i] = f[a + i - 1]
    BY <1>1, <1>3, <2>1, SubSeqProperties
  <2> HIDE DEF g
  <2> QED BY <1>3, <2>2
<1> HIDE DEF l, g
<1>6. /\ Sns(l) \in Seq(Int) /\ Len(Sns(l)) = c - a + 1
      /\ \A i \in 1..(c - a + 1) : Sns(l)[i] = l[i].sn
  BY <1>4, SnsFacts
<1>7. \A i \in 1..(c - a + 1) : Sns(l)[i] = g[i]
  <2> SUFFICES ASSUME NEW i \in 1..(c - a + 1) PROVE Sns(l)[i] = g[i]
    OBVIOUS
  <2>1. a + i - 1 \in 1..c
    BY <1>1, <1>2
  <2> QED BY <1>1, <1>4, <1>5, <1>6, <2>1
<1>8. Sns(l) = g
  BY <1>5, <1>6, <1>7, SeqEqual
<1> QED BY <1>1, <1>4, <1>8 DEF c, f, g, l

(* What ikcp_parse_una drops is what lies before una.                      *)
LEMMA ParseUnaStands ==
  ASSUME NEW list \in Seq(Seg), NEW s, NEW S, Stands(Sns(list), s, S), NEW una \in Int,
         \A k \in S : k - una < Half /\ una - k < Half
  PROVE  \E t : Stands(Sns(ParseUna(list, W(una))), t, {k \in S : k >= una})
<1> DEFINE c == Len(list)
           T == {i \in 0..c : i = c \/ Diff(W(una), list[i + 1].sn) <= 0}
           m == Min(T)
<1>1. c \in Nat /\ Len(s) = c /\ Half \in Nat /\ Len(Sns(list)) = c
  BY StandsFacts, SnsFacts, HalfNat
<1>2. \A i \in 1..c : s[i] \in Int /\ s[i] \in S /\ list[i].sn = W(s[i])
  <2>1. \A i \in 1..Len(s) : s[i] \in Int /\ s[i] \in S /\ Sns(list)[i] = W(s[i])
    BY StandsFacts
  <2>2. \A i \in 1..c : Sns(list)[i] = list[i].sn
    BY SnsFacts
  <2> QED BY <1>1, <2>1, <2>2
<1>3. \A i, j \in 1..c : i < j => s[i] < s[j]
  <2>1. \A i, j \in 1..Len(s) : i < j => s[i] < s[j]
    BY StandsFacts
  <2> QED BY <1>1, <2>1
<1>4. ParseUna(list, W(una)) = SubSeq(list, m + 1, c)
  <2>1. ParseUna(list, W(una)) = SubSeq(list, 1 + m, c)
    BY DEF ParseUna
  <2>2. T \in SUBSET Nat /\ c \in T
    BY <1>1
  <2>3. m \in Nat
    <3> HIDE DEF T
    <3> QED BY <2>2, MinNat
  <2>4. 1 + m = m + 1
    <3> HIDE DEF m
    <3> QED BY <2>3
  <2> QED BY <2>1, <2>4
<1> HIDE DEF c
<1>5. T \in SUBSET Nat /\ T \subseteq 0..c /\ c \in T
  BY <1>1
<1>6. m \in 0..c /\ m \in T /\ \A i \in T : m <= i
  <2> HIDE DEF T
  <2> QED BY <1>5, MinNat
<1>7. \A i \in 1..c : Diff(W(una), list[i].sn) = una - s[i]
  <2> SUFFICES ASSUME NEW i \in 1..c PROVE Diff(W(una), list[i].sn) = una - s[i]
    OBVIOUS
  <2>1. s[i] \in Int /\ s[i] - una < Half /\ una - s[i] < Half
    BY <1>2
  <2>2. Diff(W(una), W(s[i])) = una - s[i]
    BY <1>1, <2>1, DiffOf
  <2> QED BY <1>2, <2>2
<1>8. \A i \in 1..c : i < m + 1 => s[i] < una
  <2> SUFFICES ASSUME NEW i \in 1..c, i < m + 1 PROVE s[i] < una
    OBVIOUS
  <2>1. i - 1 \in 0..c /\ i - 1 < m /\ (i - 1) + 1 = i /\ i - 1 # c /\ m \in Int
    BY <1>1, <1>6
  <2>2. i - 1 \notin T
    <3> HIDE DEF T, m
    <3> QED BY <1>6, <2>1
  <2>3. ~ (Diff(W(una), list[i].sn) <= 0)
    BY <2>1, <2>2
  <2> QED BY <1>2, <1>7, <2>3
<1>9. \A i \in 1..c : i >= m + 1 => s[i] >= una
  <2> SUFFICES ASSUME NEW i \in 1..c, i >= m + 1 PROVE s[i] >= una
    OBVIOUS
  <2>1. m # c /\ m + 1 \in 1..c
    <3> HIDE DEF m, T
    <3> QED BY <1>1, <1>6
  <2>2. Diff(W(una), list[m + 1].sn) <= 0
    <3>1. m = c \/ Diff(W(una), list[m + 1].sn) <= 0
      <4> HIDE DEF m
      <4> QED BY <1>6
    <3> QED BY <2>1, <3>1
  <2> HIDE DEF m, T
  <2>3. s[m + 1] >= una /\ s[m + 1] \in Int /\ s[i] \in Int
    BY <1>2, <1>7, <2>1, <2>2
  <2>4. i = m + 1 \/ s[m + 1] < s[i]
    BY <1>3, <1>6, <2>1
  <2> QED BY <2>3, <2>4
<1> HIDE DEF m, T
<1>10. m + 1 \in 1..(c + 1)
  BY <1>1, <1>6
<1>11. Stands(SubSeq(Sns(list), m + 1, Len(Sns(list))), SubSeq(s, m + 1, Len(s)),
              {k \in S : k >= una})
  BY <1>1, <1>8, <1>9, <1>10, SuffixStands
<1>12. Sns(SubSeq(list, m + 1, c)) = SubSeq(Sns(list), m + 1, Len(Sns(list)))
  BY <1>10, SnsSubSeq DEF c
<1> QED BY <1>4, <1>11, <1>12

(* What ikcp_parse_ack takes out is n, if it is there, and nothing else.   *)
LEMMA ParseAckFacts ==
  ASSUME NEW list \in Seq(Seg), NEW at \in 1..(Len(list) + 1)
  PROVE  LET r == [i \in 1..(at - 1) |-> Passed(list[i])] \o SubSeq(list, at + 1, Len(list))
             c == Len(list)
         IN  /\ r \in Seq(Seg) /\ Len(r) = IF at <= c THEN c - 1 ELSE c
             /\ \A i \in 1..Len(r) : r[i].sn = IF i < at THEN list[i].sn ELSE list[i + 1].sn
<1> DEFINE c == Len(list)
           f == [i \in 1..(at - 1) |-> Passed(list[i])]
           g == SubSeq(list, at + 1, c)
           r == f \o g
<1>1. c \in Nat /\ at \in 1..(c + 1) /\ at - 1 \in Nat /\ at + 1 \in Int
  OBVIOUS
<1>2. \A i \in 1..c : list[i] \in Seg
  BY SnsFacts
<1>3. ASSUME NEW i \in 1..c
      PROVE  Passed(list[i]) \in Seg /\ Passed(list[i]).sn = list[i].sn
  <2> DEFINE h == list[i]
             k == IF h.fastack < Resend THEN h.fastack + 1 ELSE h.fastack
  <2>1. h = [sn |-> h.sn, fastack |-> h.fastack] /\ h.sn \in Int /\ h.fastack \in Int
    BY <1>2 DEF Seg
  <2>2. k \in Int
    BY <2>1
  <2>3. Passed(h) = [h EXCEPT !.fastack = k]
    BY DEF Passed
  <2> HIDE DEF h, k
  <2>4. Passed(h) = [sn |-> h.sn, fastack |-> k]
    BY <2>1, <2>3
  <2>5. Passed(h) \in Seg /\ Passed(h).sn = h.sn
    BY <2>1, <2>2, <2>4 DEF Seg
  <2> QED BY <2>5 DEF h
<1> HIDE DEF c
<1>4. /\ f \in Seq(Seg) /\ Len(f) = at - 1
      /\ \A i \in 1..(at - 1) : i \in 1..c /\ f[i].sn = list[i].sn
  <2>1. \A i \in 1..(at - 1) : i \in 1..c
    BY <1>1
  <2>2. \A i \in 1..(at - 1) : Passed(list[i]) \in Seg /\ Passed(list[i]).sn = list[i].sn
    BY <1>3, <2>1
  <2> DEFINE b == at - 1
  <2>3. f \in [1..b -> Seg] /\ b \in Nat
    BY <1>1, <2>2
  <2>4. f \in Seq(Seg) /\ Len(f) = b
    <3> HIDE DEF b, f
    <3> QED BY <2>3
  <2> QED BY <2>1, <2>2, <2>4
<1>5. /\ g \in Seq(Seg) /\ Len(g) = IF at <= c THEN c - at ELSE 0
      /\ \A i \in 1..(c - at) : g[i] = list[at + i]
  <2>1. \A i \in (at + 1)..c : list[i] \in Seg
    BY <1>1, <1>2
  <2>2. /\ g \in Seq(Seg) /\ Len(g) = IF at + 1 <= c THEN c - (at + 1) + 1 ELSE 0
        /\ \A i \in 1..(c - (at + 1) + 1) : g[i] = list[(at + 1) + i - 1]
    <3> DEFINE a == at + 1
    <3>1. a \in Int /\ c = Len(list)
      BY <1>1 DEF c
    <3> HIDE DEF a
    <3>2. \A i \in a..c : list[i] \in Seg
      BY <2>1 DEF a
    <3>3. /\ SubSeq(list, a, c) \in Seq(Seg)
          /\ Len(SubSeq(list, a, c)) = IF a <= c THEN c - a + 1 ELSE 0
          /\ \A i \in 1..(c - a + 1) : SubSeq(list, a, c)[i] = list[a + i - 1]
      BY <3>1, <3>2, SubSeqProperties
    <3> QED BY <3>1, <3>3 DEF a
  <2>3. /\ (IF at + 1 <= c THEN c - (at + 1) + 1 ELSE 0) = (IF at <= c THEN c - at ELSE 0)
        /\ c - (at + 1) + 1 = c - at
        /\ \A i \in 1..(c - at) : (at + 1) + i - 1 = at + i
    BY <1>1
  <2> HIDE DEF g
  <2>4. \A i \in 1..(c - at) : g[i] = list[at + i]
    BY <2>2, <2>3
  <2> QED BY <2>2, <2>3, <2>4
<1> HIDE DEF f, g
<1>6. /\ r \in Seq(Seg) /\ Len(r) = Len(f) + Len(g)
      /\ \A i \in 1..(Len(f) + Len(g)) : r[i] = IF i <= Len(f) THEN f[i] ELSE g[i - Len(f)]
  BY <1>4, <1>5, ConcatProperties
<1> HIDE DEF r
<1>7. Len(r) = IF at <= c THEN c - 1 ELSE c
  BY <1>1, <1>4, <1>5, <1>6
<1>8. ASSUME NEW i \in 1..Len(r)
      PROVE  r[i].sn = IF i < at THEN list[i].sn ELSE list[i + 1].sn
  <2>1. r[i] = IF i <= at - 1 THEN f[i] ELSE g[i - (at - 1)]
    BY <1>4, <1>6
  <2>2. CASE i < at
    <3>1. i \in 1..(at - 1)
      BY <1>1, <2>2
    <3> QED BY <1>4, <2>1, <2>2, <3>1
  <2>3. CASE ~ (i < at)
    <3>1. i - (at - 1) \in 1..(c - at) /\ at + (i - (at - 1)) = i + 1 /\ ~ (i <= at - 1)
      BY <1>1, <1>7, <2>3
    <3>2. r[i] = list[i + 1]
      BY <1>5, <2>1, <3>1
    <3> QED BY <2>3, <3>2
  <2> QED BY <2>2, <2>3
<1> QED BY <1>6, <1>7, <1>8 DEF r, f, g, c

LEMMA ParseAckStands ==
  ASSUME NEW list \in Seq(Seg), NEW s, NEW S, Stands(Sns(list), s, S),
         NEW n \in Int, NEW u \in Int, sent \in Int, snd_nxt = W(sent),
         \A k \in S : k >= u /\ k < sent /\ k - n < Half /\ n - k < Half,
         u - n < Half, n - u < Half, sent - n < Half, n - sent < Half
  PROVE  \E t : Stands(Sns(ParseAck(list, W(u), W(n))), t, S \ {n})
<1> DEFINE c  == Len(list)
           T  == {i \in DOMAIN list : list[i].sn = W(n)} \cup {c + 1}
           at == Min(T)
           r  == [i \in 1..(at - 1) |-> Passed(list[i])] \o SubSeq(list, at + 1, c)
<1>1. /\ c \in Nat /\ Len(s) = c /\ Half \in Nat /\ Len(Sns(list)) = c
      /\ DOMAIN list = 1..c /\ Sns(list) \in Seq(Int)
  BY StandsFacts, SnsFacts, HalfNat
<1>2. \A i \in 1..c : /\ s[i] \in Int /\ s[i] \in S /\ list[i].sn = W(s[i])
                      /\ Sns(list)[i] = list[i].sn
  <2>1. \A i \in 1..Len(s) : s[i] \in Int /\ s[i] \in S /\ Sns(list)[i] = W(s[i])
    BY StandsFacts
  <2>2. \A i \in 1..c : Sns(list)[i] = list[i].sn
    BY SnsFacts
  <2> QED BY <1>1, <2>1, <2>2
<1>3. \A k \in S : \E i \in 1..c : s[i] = k
  <2>1. \A k \in S : \E i \in 1..Len(s) : s[i] = k
    BY StandsFacts
  <2> QED BY <1>1, <2>1
<1>4. ParseAck(list, W(u), W(n)) = IF Diff(W(n), W(u)) < 0 \/ Diff(W(n), snd_nxt) >= 0
                                   THEN list ELSE r
  BY DEF ParseAck
<1>5. Diff(W(n), W(u)) = n - u /\ Diff(W(n), snd_nxt) = n - sent
  <2>1. Diff(W(n), W(u)) = n - u
    BY <1>1, DiffOf
  <2>2. Diff(W(n), W(sent)) = n - sent
    BY <1>1, DiffOf
  <2> QED BY <2>1, <2>2
<1>6. CASE n < u \/ n >= sent
  <2>1. n \notin S
    BY <1>6
  <2>2. S \ {n} = S
    BY <2>1
  <2>3. ParseAck(list, W(u), W(n)) = list
    BY <1>4, <1>5, <1>6
  <2> QED BY <2>2, <2>3
<1>7. CASE ~ (n < u \/ n >= sent)
  <2>1. ParseAck(list, W(u), W(n)) = r
    <3> HIDE DEF r
    <3>1. ~ (n - u < 0 \/ n - sent >= 0)
      BY <1>7
    <3> QED BY <1>4, <1>5, <3>1
  <2>2. \A i \in 1..c : list[i].sn = W(n) <=> s[i] = n
    <3> SUFFICES ASSUME NEW i \in 1..c PROVE list[i].sn = W(n) <=> s[i] = n
      OBVIOUS
    <3>1. s[i] \in Int /\ s[i] - n < Half /\ n - s[i] < Half /\ list[i].sn = W(s[i])
      BY <1>2
    <3>2. W(s[i]) = W(n) => s[i] = n
      BY <3>1, SameWord
    <3> QED BY <3>1, <3>2
  <2>3. T \in SUBSET Nat /\ T \subseteq 1..(c + 1) /\ c + 1 \in T
    <3> HIDE DEF c
    <3> QED BY <1>1
  <2>4. at \in T /\ at \in 1..(c + 1) /\ \A i \in T : at <= i
    <3> HIDE DEF T
    <3> QED BY <2>3, MinNat
  <2>5. /\ r \in Seq(Seg) /\ Len(r) = IF at <= c THEN c - 1 ELSE c
        /\ \A i \in 1..Len(r) : r[i].sn = IF i < at THEN list[i].sn ELSE list[i + 1].sn
    <3> HIDE DEF at
    <3> QED BY <2>4, ParseAckFacts
  <2> HIDE DEF r
  <2>6. /\ Sns(r) \in Seq(Int) /\ Len(Sns(r)) = Len(r)
        /\ \A i \in 1..Len(r) : Sns(r)[i] = r[i].sn
    BY <2>5, SnsFacts
  <2>7. CASE at = c + 1
    <3>1. Len(r) = c /\ \A i \in 1..c : i < at
      <4> HIDE DEF at, c
      <4> QED BY <1>1, <2>5, <2>7
    <3>2. \A i \in 1..c : Sns(r)[i] = Sns(list)[i]
      <4> HIDE DEF at, c
      <4> QED BY <1>2, <2>5, <2>6, <3>1
    <3>3. Sns(r) = Sns(list)
      <4> HIDE DEF c
      <4> QED BY <1>1, <2>6, <3>1, <3>2, SeqEqual
    <3>4. n \notin S
      <4> SUFFICES ASSUME n \in S PROVE FALSE
        OBVIOUS
      <4>1. PICK i \in 1..c : s[i] = n
        BY <1>3
      <4>2. list[i].sn = W(n)
        BY <2>2, <4>1
      <4>3. i \in T
        <5> HIDE DEF c
        <5> QED BY <1>1, <4>2
      <4> HIDE DEF T, at, c
      <4> QED BY <1>1, <2>4, <2>7, <4>3
    <3>5. S \ {n} = S
      BY <3>4
    <3> QED BY <2>1, <3>3, <3>5
  <2>8. CASE at # c + 1
    <3>1. at \in 1..c /\ at <= c
      <4> HIDE DEF at, c
      <4> QED BY <1>1, <2>4, <2>8
    <3>2. list[at].sn = W(n)
      <4>1. at \in DOMAIN list /\ list[at].sn = W(n)
        <5> HIDE DEF at, c
        <5> QED BY <2>4, <2>8
      <4> QED BY <4>1
    <3>3. s[at] = n
      <4> HIDE DEF at, c
      <4> QED BY <2>2, <3>1, <3>2
    <3>4. /\ Sns(r) \in Seq(Int) /\ Len(Sns(r)) = c - 1
          /\ \A i \in 1..(c - 1) : Sns(r)[i] = IF i < at THEN Sns(list)[i] ELSE Sns(list)[i + 1]
      <4> HIDE DEF at, c
      <4>1. Len(r) = c - 1
        BY <2>5, <3>1
      <4>2. \A i \in 1..(c - 1) : i \in 1..c /\ i + 1 \in 1..c
        BY <1>1
      <4> QED BY <1>2, <2>5, <2>6, <4>1, <4>2
    <3>5. \E t : Stands(Sns(r), t, S \ {s[at]})
      <4> HIDE DEF at, c
      <4> QED BY <1>1, <3>1, <3>4, RemoveStands
    <3> QED BY <2>1, <3>3, <3>5
  <2> QED BY <2>7, <2>8
<1> QED BY <1>6, <1>7

-----------------------------------------------------------------------------
(* All the integers that meet in a comparison are near one another.        *)
LEMMA Near ==
  /\ Base \in Nat /\ Top \in Nat /\ Base <= Top /\ RcvWnd \in Nat
  /\ Number \subseteq Int
  /\ \A n \in Number : n \in (Base - Old)..(Top + RcvWnd) /\ n < Top
  /\ \A n \in Base..Top : n \in (Base - Old)..(Top + RcvWnd) /\ n \in Nat
  /\ \A a, b \in (Base - Old)..(Top + RcvWnd) : a - b < Half
<1>1. /\ Base \in Nat /\ MaxSegs \in Nat /\ Old \in Nat /\ RcvWnd \in Nat /\ Old <= Base
      /\ Half \in Nat /\ Old + MaxSegs + RcvWnd < Half
  BY HalfNat, Sizes
<1>2. Top = Base + MaxSegs /\ Number = (Base - Old)..(Base + MaxSegs - 1)
  BY DEF Top, Number
<1>3. Base - Old \in Int /\ Top \in Nat
  BY <1>1, <1>2
<1>4. \A n \in Number : n \in Int /\ n >= Base - Old /\ n < Top
  BY <1>1, <1>2
<1> HIDE <1>2
<1>5. \A a, b \in (Base - Old)..(Top + RcvWnd) : a - b < Half
  BY <1>1, <1>2
<1>6. \A n \in Number : n \in (Base - Old)..(Top + RcvWnd)
  BY <1>1, <1>3, <1>4
<1>7. Base <= Top
  BY <1>1, <1>2
<1>8. \A n \in Base..Top : n \in (Base - Old)..(Top + RcvWnd) /\ n \in Nat
  BY <1>1, <1>3
<1> QED BY <1>1, <1>3, <1>4, <1>5, <1>6, <1>7, <1>8

(* ikcp_shrink_buf makes snd_una the word of the first number of the list. *)
LEMMA ShrinkStands ==
  ASSUME NEW list \in Seq(Seg), NEW s, NEW S, Stands(Sns(list), s, S),
         sent \in Nat, snd_nxt = W(sent), S \subseteq Nat, \A k \in S : k < sent
  PROVE  /\ Min(S \cup {sent}) \in S \cup {sent}
         /\ \A k \in S : Min(S \cup {sent}) <= k
         /\ Shrink(list) = W(Min(S \cup {sent}))
<1> DEFINE c == Len(list)
           T == S \cup {sent}
           u == Min(T)
<1>1. /\ c \in Nat /\ Len(s) = c /\ Len(Sns(list)) = c
      /\ \A i \in 1..c : Sns(list)[i] = list[i].sn
  BY StandsFacts, SnsFacts
<1>2. \A i \in 1..Len(s) : s[i] \in Int /\ s[i] \in S /\ Sns(list)[i] = W(s[i])
  BY StandsFacts
<1>3. \A k \in S : \E i \in 1..Len(s) : s[i] = k
  BY StandsFacts
<1>4. \A i, j \in 1..Len(s) : i < j => s[i] < s[j]
  BY StandsFacts
<1>5. list = <<>> <=> c = 0
  OBVIOUS
<1>6. Shrink(list) = IF list = <<>> THEN snd_nxt ELSE list[1].sn
  BY DEF Shrink
<1> HIDE DEF c
<1>7. T \in SUBSET Nat /\ T # {} /\ sent \in T /\ S \subseteq T
  OBVIOUS
<1>8. u \in T /\ \A k \in T : u <= k
  <2> HIDE DEF T
  <2> QED BY <1>7, MinNat
<1>9. Shrink(list) = W(u)
  <2>1. CASE c = 0
    <3>1. S = {}
      BY <1>1, <1>3, <2>1
    <3>2. u = sent
      <4> HIDE DEF u
      <4> QED BY <1>8, <3>1
    <3> HIDE DEF u
    <3> QED BY <1>5, <1>6, <2>1, <3>2
  <2>2. CASE c # 0
    <3>1. 1 \in 1..c
      BY <1>1, <2>2
    <3>2. s[1] \in S /\ s[1] \in Int /\ list[1].sn = W(s[1])
      BY <1>1, <1>2, <3>1
    <3>3. \A k \in S : s[1] <= k
      <4> SUFFICES ASSUME NEW k \in S PROVE s[1] <= k
        OBVIOUS
      <4>1. PICK i \in 1..c : s[i] = k
        BY <1>1, <1>3
      <4>2. i = 1 \/ s[1] < s[i]
        BY <1>1, <1>4, <3>1
      <4>3. s[i] \in Int
        BY <1>1, <1>2
      <4> QED BY <3>2, <4>1, <4>2, <4>3
    <3>4. s[1] < sent
      BY <3>2
    <3>5. u \in T /\ u \in Nat /\ u <= s[1]
      <4> HIDE DEF u, T
      <4> QED BY <1>7, <1>8, <3>2
    <3>6. u = s[1]
      <4> HIDE DEF u
      <4>1. u \in S \/ u = sent
        BY <3>5
      <4> QED BY <3>2, <3>3, <3>4, <3>5, <4>1
    <3> HIDE DEF u
    <3> QED BY <1>5, <1>6, <2>2, <3>2, <3>6
  <2> QED BY <2>1, <2>2
<1> HIDE DEF u
<1>10. u \in S \cup {sent} /\ \A k \in S : u <= k
  BY <1>7, <1>8
<1> QED BY <1>9, <1>10 DEF u, T

(* A segment with an acknowledgement leaves what lies from una on and is   *)
(* not acknowledged.                                                       *)
LEMMA AfterAckStands ==
  ASSUME NEW list \in Seq(Seg), NEW s, NEW S, Stands(Sns(list), s, S),
         sent \in Base..Top, snd_nxt = W(sent), S \subseteq Base..(sent - 1),
         NEW una \in Base..Top, NEW n \in Number,
         NEW Kept, \A k : k \in Kept <=> k \in S /\ k >= una /\ k # n
  PROVE  \E t : Stands(Sns(AfterAck(list, una, n)), t, Kept)
<1> DEFINE R == {k \in S : k >= una}
           rest == ParseUna(list, W(una))
           u == Min(R \cup {sent})
           All == (Base - Old)..(Top + RcvWnd)
<1>1. sent \in Nat /\ sent \in All /\ una \in Int /\ una \in All /\ n \in Int /\ n \in All
  BY Near
<1>2. \A k \in S : k \in Nat /\ k \in All /\ k < sent
  <2> SUFFICES ASSUME NEW k \in S PROVE k \in Nat /\ k \in All /\ k < sent
    OBVIOUS
  <2>1. k \in Base..(sent - 1)
    BY Zenon
  <2>2. k \in Base..Top /\ k < sent
    BY <1>1, <2>1, Near
  <2> QED BY <2>2, Near
<1>3. \A a, b \in All : a - b < Half
  BY Near
<1> HIDE DEF All
<1>4. \A k \in S : k - una < Half /\ una - k < Half
  BY <1>1, <1>2, <1>3
<1>5. rest \in Seq(Seg)
  BY ParseUnaType
<1>6. PICK t : Stands(Sns(rest), t, R)
  <2>1. \E t : Stands(Sns(rest), t, R)
    BY <1>1, <1>4, ParseUnaStands
  <2> QED BY <2>1
<1> HIDE DEF rest
<1>7. R \subseteq Nat /\ \A k \in R : k \in S /\ k < sent
  BY <1>2
<1>8. u \in R \cup {sent} /\ (\A k \in R : u <= k) /\ Shrink(rest) = W(u)
  <2> HIDE DEF R
  <2> QED BY <1>1, <1>5, <1>6, <1>7, ShrinkStands
<1> HIDE DEF u
<1>9. u \in Nat /\ u \in All
  BY <1>1, <1>2, <1>7, <1>8
<1>10. \A k \in R : k >= u /\ k < sent /\ k - n < Half /\ n - k < Half
  <2> SUFFICES ASSUME NEW k \in R PROVE k >= u /\ k < sent /\ k - n < Half /\ n - k < Half
    OBVIOUS
  <2>1. k \in All /\ k \in Nat /\ k < sent /\ u <= k
    BY <1>2, <1>7, <1>8
  <2> QED BY <1>1, <1>3, <1>9, <2>1
<1>11. u - n < Half /\ n - u < Half /\ sent - n < Half /\ n - sent < Half
  BY <1>1, <1>3, <1>9
<1>12. u \in Int /\ sent \in Int
  BY <1>1, <1>9
<1>13. \E v : Stands(Sns(ParseAck(rest, W(u), W(n))), v, R \ {n})
  <2> HIDE DEF R
  <2> QED BY <1>1, <1>5, <1>6, <1>10, <1>11, <1>12, ParseAckStands
<1>14. AfterAck(list, una, n) = ParseAck(rest, W(u), W(n))
  BY <1>8 DEF AfterAck, rest
<1>15. R \ {n} = Kept
  OBVIOUS
<1> QED BY <1>13, <1>14, <1>15

(* A datagram leaves what lies from una on and is in none of its segments. *)
LEMMA AfterAcksStands ==
  ASSUME NEW d, d.sns \in Seq(Number), d.una \in Base..Top, snd_buf \in Seq(Seg),
         NEW s, Stands(Sns(snd_buf), s, out),
         sent \in Base..Top, snd_nxt = W(sent), out \subseteq Base..(sent - 1)
  PROVE  \E t : Stands(Sns(AfterAcks(d)), t, {k \in out : k >= d.una /\ k \notin Range(d.sns)})
<1> DEFINE c == Len(d.sns)
           Left(i) == {k \in out : /\ i > 0 => k >= d.una
                                   /\ \A j \in 1..i : k # d.sns[j]}
<1>1. /\ c \in Nat /\ DOMAIN d.sns = 1..c /\ d.sns \in Seq(Int)
      /\ \A i \in 1..c : d.sns[i] \in Number
  <2>1. c \in Nat /\ DOMAIN d.sns = 1..c
    OBVIOUS
  <2>2. \A i \in 1..c : d.sns[i] \in Number
    BY ElementOfSeq
  <2>3. d.sns \in Seq(Int)
    <3>1. \A i \in 1..c : d.sns[i] \in Int
      BY <2>2, Near
    <3>2. d.sns = [i \in 1..c |-> d.sns[i]]
      BY <2>1
    <3> HIDE DEF c
    <3> QED BY <2>1, <3>1, <3>2
  <2> QED BY <2>1, <2>2, <2>3
<1>2. PICK F : /\ \A i \in 0..c :
                     F[i] = IF i = 0 THEN snd_buf ELSE AfterAck(F[i - 1], d.una, d.sns[i])
               /\ AfterAcks(d) = IF d.sns = <<>> THEN ParseUna(snd_buf, W(d.una)) ELSE F[c]
  BY <1>1, AfterAcksSteps
<1>3. d.sns = <<>> <=> c = 0
  OBVIOUS
<1>4. Range(d.sns) = {d.sns[j] : j \in 1..c}
  BY <1>1 DEF Range
<1> HIDE DEF c
<1> DEFINE Good(i) == F[i] \in Seq(Seg) /\ \E t : Stands(Sns(F[i]), t, Left(i))
           Bad == {i \in 0..c : ~ Good(i)}
<1>5. Left(0) = out
  <2>1. ~ (0 > 0) /\ 1..0 = {}
    OBVIOUS
  <2>2. \A k \in out : k \in Left(0)
    BY <2>1, Zenon
  <2>3. Left(0) \subseteq out
    BY Zenon
  <2> QED BY <2>2, <2>3
<1>6. \A i \in 1..c : Left(i) = {k \in Left(i - 1) : k >= d.una /\ k # d.sns[i]}
  <2> SUFFICES ASSUME NEW i \in 1..c, NEW k \in out
               PROVE  k \in Left(i) <=> k \in Left(i - 1) /\ k >= d.una /\ k # d.sns[i]
    OBVIOUS
  <2>1. i > 0 /\ (\A j \in 1..i : j = i \/ j \in 1..(i - 1)) /\ \A j \in 1..(i - 1) : j \in 1..i
    BY <1>1
  <2>2. i \in 1..i
    BY <1>1
  <2> QED BY <2>1, <2>2
<1>7. \A i \in 0..c : Left(i) \subseteq out
  OBVIOUS
<1> HIDE DEF Left
<1>8. Bad = {}
  <2> SUFFICES ASSUME Bad # {} PROVE FALSE
    OBVIOUS
  <2> DEFINE k == Min(Bad)
  <2>1. k \in Bad /\ \A i \in Bad : k <= i
    <3>1. Bad \in SUBSET Nat
      BY <1>1
    <3> HIDE DEF Bad
    <3> QED BY <3>1, MinNat
  <2> HIDE DEF k
  <2>2. k \in 0..c /\ ~ Good(k)
    BY <2>1
  <2>3. CASE k = 0
    <3>1. F[0] = snd_buf
      BY <1>1, <1>2
    <3>2. Good(0)
      BY <1>5, <3>1
    <3> HIDE DEF Good
    <3> QED BY <2>2, <2>3, <3>2
  <2>4. CASE k # 0
    <3>1. k - 1 \in 0..c /\ k - 1 < k /\ k \in 1..c
      BY <1>1, <2>2, <2>4
    <3>2. k - 1 \notin Bad
      <4> HIDE DEF Bad
      <4> QED BY <1>1, <2>1, <2>2, <3>1
    <3>3. Good(k - 1)
      <4> HIDE DEF Good
      <4> QED BY <3>1, <3>2
    <3> DEFINE l == F[k - 1]
               n == d.sns[k]
    <3>4. l \in Seq(Seg) /\ n \in Number /\ F[k] = AfterAck(l, d.una, n)
      BY <1>1, <1>2, <2>4, <3>1, <3>3
    <3>5. PICK t : Stands(Sns(l), t, Left(k - 1))
      BY <3>3
    <3>6. Left(k - 1) \subseteq Base..(sent - 1)
      BY <1>7, <3>1, Zenon
    <3>7. Left(k) = {x \in Left(k - 1) : x >= d.una /\ x # n}
      BY <1>6, <3>1
    <3> HIDE DEF l, n
    <3>8. AfterAck(l, d.una, n) \in Seq(Seg)
      BY <3>4, AfterAckType
    <3>9. \E v : Stands(Sns(AfterAck(l, d.una, n)), v, Left(k))
      <4> DEFINE P == Left(k - 1)
      <4>1. Stands(Sns(l), t, P) /\ P \subseteq Base..(sent - 1)
        BY <3>5, <3>6
      <4>2. \A x : x \in Left(k) <=> x \in P /\ x >= d.una /\ x # n
        BY <3>7
      <4>3. d.una \in Base..Top
        OBVIOUS
      <4> HIDE DEF P
      <4> QED BY <3>4, <4>1, <4>2, <4>3, AfterAckStands
    <3> QED BY <2>2, <3>4, <3>8, <3>9
  <2> QED BY <2>3, <2>4
<1> DEFINE Kept == {k \in out : k >= d.una /\ k \notin Range(d.sns)}
<1>9. CASE c = 0
  <2>1. Range(d.sns) = {}
    BY <1>4, <1>9
  <2>2. Kept = {k \in out : k >= d.una}
    BY <2>1
  <2>3. d.una \in Int /\ \A k \in out : k - d.una < Half /\ d.una - k < Half
    <3> SUFFICES ASSUME NEW k \in out
                 PROVE  d.una \in Int /\ k - d.una < Half /\ d.una - k < Half
      BY Near
    <3>1. k \in Base..(sent - 1)
      BY Zenon
    <3>2. k \in Base..Top
      BY <3>1, Near
    <3>3. /\ k \in (Base - Old)..(Top + RcvWnd)
          /\ d.una \in (Base - Old)..(Top + RcvWnd) /\ d.una \in Int
      <4>1. \A x \in Base..Top : x \in (Base - Old)..(Top + RcvWnd) /\ x \in Nat
        BY Near
      <4>2. d.una \in Base..Top
        OBVIOUS
      <4> QED BY ONLY <3>2, <4>1, <4>2
    <3>4. \A a, b \in (Base - Old)..(Top + RcvWnd) : a - b < Half
      BY Near
    <3> QED BY <3>3, <3>4
  <2>4. \E t : Stands(Sns(ParseUna(snd_buf, W(d.una))), t, {k \in out : k >= d.una})
    BY <2>3, ParseUnaStands
  <2>5. AfterAcks(d) = ParseUna(snd_buf, W(d.una))
    BY <1>2, <1>3, <1>9
  <2> QED BY <2>2, <2>4, <2>5
<1>10. CASE c # 0
  <2>1. c \in 0..c /\ c > 0
    BY <1>1, <1>10
  <2>2. c \notin Bad
    BY <1>8
  <2>3. Good(c)
    <3> HIDE DEF Good
    <3> QED BY <2>1, <2>2
  <2>4. Left(c) = Kept
    BY <1>4, <2>1 DEF Left
  <2>5. AfterAcks(d) = F[c]
    BY <1>2, <1>3, <1>10
  <2> HIDE DEF Kept
  <2>6. \E t : Stands(Sns(AfterAcks(d)), t, Kept)
    BY <2>3, <2>4, <2>5
  <2> QED BY <2>6 DEF Kept
<1> QED BY <1>9, <1>10

(* What a flush sends goes to the end of the list.                         *)
LEMMA FlushStands ==
  ASSUME NEW due, Flush(due), snd_buf \in Seq(Seg), NEW s, Stands(Sns(snd_buf), s, out),
         sent \in Base..Top, snd_nxt = W(sent), out \subseteq Base..(sent - 1)
  PROVE  /\ sent' \in sent..Top /\ snd_nxt' = W(sent')
         /\ out' \subseteq Base..(sent' - 1)
         /\ Min(out' \cup {sent'}) = Min(out \cup {sent})
         /\ \E t : Stands(Sns(snd_buf'), t, out')
<1> DEFINE c    == Len(snd_buf)
           left == Base + MaxSegs - sent
           eff  == Min({SndWnd, rmt_wnd, cw.cwnd})
           S    == {i \in 0..left : i = left \/ Diff(W(snd_nxt + i), W(snd_una + eff)) >= 0}
           m    == Min(S)
           fast == {i \in DOMAIN snd_buf \ due : Resend > 0 /\ snd_buf[i].fastack >= Resend}
           old  == [i \in DOMAIN snd_buf |->
                       IF i \in fast THEN [snd_buf[i] EXCEPT !.fastack = 0] ELSE snd_buf[i]]
           new  == [i \in 1..m |-> [sn |-> W(snd_nxt + i - 1), fastack |-> 0]]
<1>1. /\ sent' = sent + m /\ out' = out \cup (sent..(sent + m - 1))
      /\ snd_buf' = old \o new /\ snd_nxt' = W(snd_nxt + m)
  BY DEF Flush
<1>2. Base \in Nat /\ Top \in Nat /\ sent \in Nat /\ sent >= Base /\ sent <= Top /\ left = Top - sent
      /\ left \in Nat
  <2>1. sent \in Base..Top /\ Base \in Nat /\ Top \in Nat /\ MaxSegs \in Nat /\ Top = Base + MaxSegs
    BY Near, Sizes DEF Top
  <2> QED BY <2>1
<1> HIDE DEF left
<1>3. m \in 0..left
  <2>1. S \in SUBSET Nat /\ left \in S /\ S \subseteq 0..left
    BY <1>2
  <2> HIDE DEF S
  <2> QED BY <2>1, MinNat
<1> HIDE DEF m
<1>4. m \in Nat /\ sent + m \in sent..Top
  BY <1>2, <1>3
<1>5. \A i \in Int : W(snd_nxt + i) = W(sent + i)
  <2> SUFFICES ASSUME NEW i \in Int PROVE W(snd_nxt + i) = W(sent + i)
    OBVIOUS
  <2>1. sent \in Int
    BY <1>2
  <2> QED BY <2>1, WordOfSum
<1>6. \A k \in out : k \in Int /\ k >= Base /\ k < sent
  <2> SUFFICES ASSUME NEW k \in out PROVE k \in Int /\ k >= Base /\ k < sent
    OBVIOUS
  <2>1. k \in Base..(sent - 1)
    BY Zenon
  <2> QED BY <1>2, <2>1
<1>7. /\ c \in Nat /\ Len(s) = c /\ DOMAIN snd_buf = 1..c /\ Len(Sns(snd_buf)) = c
      /\ \A i \in 1..c : snd_buf[i] \in Seg /\ Sns(snd_buf)[i] = snd_buf[i].sn
  BY StandsFacts, SnsFacts
<1> HIDE DEF c, fast
<1>8. /\ old \in Seq(Seg) /\ Len(old) = c
      /\ \A i \in 1..c : old[i].sn = snd_buf[i].sn
  <2>1. ASSUME NEW i \in 1..c PROVE old[i] \in Seg /\ old[i].sn = snd_buf[i].sn
    <3> DEFINE h == snd_buf[i]
               k == [h EXCEPT !.fastack = 0]
    <3>1. h = [sn |-> h.sn, fastack |-> h.fastack] /\ h.sn \in Int /\ h \in Seg
      BY <1>7 DEF Seg
    <3>2. old[i] = k \/ old[i] = h
      BY <1>7
    <3> HIDE DEF h
    <3>3. k = [sn |-> h.sn, fastack |-> 0]
      BY <3>1
    <3>4. k \in Seg /\ k.sn = h.sn
      BY <3>1, <3>3 DEF Seg
    <3> HIDE DEF k
    <3> QED BY <3>1, <3>2, <3>4 DEF h
  <2>2. DOMAIN old = 1..c /\ old = [i \in 1..c |-> old[i]]
    BY <1>7
  <2> HIDE DEF old
  <2>3. old \in Seq(Seg) /\ Len(old) = c
    BY <1>7, <2>1, <2>2
  <2> QED BY <2>1, <2>3
<1>9. /\ new \in Seq(Seg) /\ Len(new) = m
      /\ \A i \in 1..m : new[i].sn = W(sent + i - 1)
  <2>1. ASSUME NEW i \in 1..m
        PROVE  W(snd_nxt + i - 1) = W(sent + i - 1) /\ W(sent + i - 1) \in Int
    <3>1. i - 1 \in Int /\ sent + (i - 1) \in Int /\ sent + (i - 1) = sent + i - 1
      BY <1>2, <1>4
    <3>2. snd_nxt + (i - 1) = snd_nxt + i - 1
      <4>1. snd_nxt \in Int
        BY <1>2, Sizes
      <4> QED BY <1>4, <4>1
    <3>3. W(snd_nxt + (i - 1)) = W(sent + (i - 1))
      BY <1>5, <3>1
    <3>4. W(sent + (i - 1)) \in Nat
      BY <3>1, Sizes
    <3>5. W(snd_nxt + i - 1) = W(sent + i - 1)
      BY <3>1, <3>2, <3>3
    <3>6. W(sent + i - 1) \in Nat
      BY <3>1, <3>4
    <3> QED BY <3>5, <3>6
  <2>2. new \in [1..m -> Seg]
    BY <2>1 DEF Seg
  <2>3. \A i \in 1..m : new[i].sn = W(sent + i - 1)
    BY <2>1
  <2> HIDE DEF new
  <2> QED BY <1>4, <2>2, <2>3
<1> HIDE DEF old, new
<1> DEFINE l == old \o new
<1>10. /\ l \in Seq(Seg) /\ Len(l) = c + m
       /\ \A i \in 1..(c + m) : l[i] = IF i <= c THEN old[i] ELSE new[i - c]
  BY <1>8, <1>9, ConcatProperties
<1> HIDE DEF l
<1>11. /\ Sns(l) \in Seq(Int) /\ Len(Sns(l)) = c + m
       /\ \A i \in 1..(c + m) : Sns(l)[i] = l[i].sn
  BY <1>10, SnsFacts
<1>12. ASSUME NEW i \in 1..(c + m)
       PROVE  Sns(l)[i] = IF i <= c THEN Sns(snd_buf)[i] ELSE W(sent + (i - c) - 1)
  <2>1. CASE i <= c
    <3>1. i \in 1..c
      BY <1>7, <2>1
    <3> QED BY <1>7, <1>8, <1>10, <1>11, <2>1, <3>1
  <2>2. CASE ~ (i <= c)
    <3>1. i - c \in 1..m
      BY <1>4, <1>7, <2>2
    <3>2. new[i - c].sn = W(sent + (i - c) - 1)
      BY <1>9, <3>1
    <3> QED BY <1>10, <1>11, <2>2, <3>2
  <2> QED BY <2>1, <2>2
<1>13. \E t : Stands(Sns(l), t, out \cup (sent..(sent + m - 1)))
  <2>1. sent \in Int /\ m \in Nat /\ \A k \in out : k < sent
    BY <1>2, <1>4, <1>6
  <2>2. /\ Sns(l) \in Seq(Int) /\ Len(Sns(l)) = Len(s) + m
        /\ \A i \in 1..(Len(s) + m) :
              Sns(l)[i] = IF i <= Len(s) THEN Sns(snd_buf)[i] ELSE W(sent + (i - Len(s)) - 1)
    BY <1>7, <1>11, <1>12
  <2> QED BY <2>1, <2>2, AppendStands
<1>14. Min(out' \cup {sent'}) = Min(out \cup {sent})
  <2> DEFINE A == out \cup {sent}
             B == out' \cup {sent'}
             a == Min(A)
             b == Min(B)
  <2>1. \A k \in sent..(sent + m - 1) : k \in Nat /\ k >= sent
    BY <1>2
  <2>2. A \in SUBSET Nat /\ A # {} /\ B \in SUBSET Nat /\ B # {}
    BY <1>1, <1>2, <1>4, <1>6, <2>1
  <2>3. sent \in B
    <3>1. sent = sent + m \/ sent \in sent..(sent + m - 1)
      BY <1>2, <1>4
    <3> QED BY <1>1, <3>1
  <2>4. A \subseteq B
    BY <1>1, <2>3
  <2>5. \A k \in B : k \in A \/ k >= sent
    BY <1>1, <1>2, <1>4, <2>1
  <2>6. sent \in A
    OBVIOUS
  <2> HIDE DEF A, B
  <2>7. a \in A /\ (\A k \in A : a <= k) /\ b \in B /\ \A k \in B : b <= k
    BY <2>2, MinNat
  <2> HIDE DEF a, b
  <2>8. b <= a /\ a \in Nat /\ b \in Nat
    BY <2>2, <2>4, <2>7
  <2>9. a <= b
    <3>1. CASE b \in A
      BY <2>7, <3>1
    <3>2. CASE b >= sent
      BY <1>2, <2>6, <2>7, <2>8, <3>2
    <3> QED BY <2>5, <2>7, <3>1, <3>2
  <2>10. a = b
    BY <2>8, <2>9
  <2> QED BY <2>10 DEF a, b, A, B
<1>15. out' \subseteq Base..(sent' - 1)
  <2>1. ASSUME NEW k \in out' PROVE k \in Base..(sent + m - 1)
    <3>1. k \in out \/ k \in sent..(sent + m - 1)
      BY <1>1
    <3>2. CASE k \in out
      BY <1>2, <1>4, <1>6, <3>2
    <3>3. CASE k \in sent..(sent + m - 1)
      BY <1>2, <1>4, <3>3
    <3> QED BY <3>1, <3>2, <3>3
  <2>2. out' \subseteq Base..(sent + m - 1)
    BY <2>1, Zenon
  <2>3. sent' = sent + m
    BY <1>1
  <2> QED BY <1>2, <1>4, <2>2, <2>3
<1>16. sent' \in sent..Top /\ snd_nxt' = W(sent')
  BY <1>1, <1>4, <1>5
<1>17. \E t : Stands(Sns(snd_buf'), t, out')
  BY <1>1, <1>13 DEF l
<1> QED BY <1>14, <1>15, <1>16, <1>17

-----------------------------------------------------------------------------
(* What the lists hold, with the integers in transit.                      *)
RcvStands == \E s : Stands(rcv_buf, s, got)
SndStands == \E s : Stands(Sns(snd_buf), s, out)

Numbers ==
    /\ sent \in Base..Top /\ nxt \in Base..Top
    /\ out \subseteq Base..(sent - 1) /\ got \subseteq nxt..(Top - 1)
    /\ acklist \in Seq(Number)
    /\ \A d \in net : d.una \in Base..Top /\ d.sns \in Seq(Number)

Counters == rcv_nxt = W(nxt) /\ snd_nxt = W(sent) /\ snd_una = W(Min(out \cup {sent}))

ListInv == Numbers /\ Counters /\ RcvStands /\ SndStands

LEMMA RcvStandsAfter ==
  ASSUME \E s : Stands(rcv_buf', s, got')
  PROVE  RcvStands'
BY DEF RcvStands, Stands, Increasing, Range, W

LEMMA SndStandsAfter ==
  ASSUME \E s : Stands(Sns(snd_buf'), s, out')
  PROVE  SndStands'
BY DEF SndStands, Stands, Sns, Increasing, Range, W

LEMMA EmptyStands == Stands(<<>>, <<>>, {})
<1>1. <<>> \in Seq(Int) /\ Len(<<>>) = 0
  OBVIOUS
<1>2. \A i \in 1..0 : FALSE
  OBVIOUS
<1> DEFINE e == <<>>
<1>3. e \in Seq(Int) /\ Len(e) = 0
  BY <1>1
<1> HIDE DEF e
<1>4. Stands(e, e, {})
  BY <1>2, <1>3, StandsMade
<1> QED BY <1>4 DEF e

LEMMA InitLists == Init => ListInv
<1> SUFFICES ASSUME Init PROVE ListInv
  OBVIOUS
<1>1. Base \in Base..Top /\ Base \in Nat
  BY Near
<1>2. Numbers
  BY <1>1 DEF Init, Numbers
<1>3. Counters
  <2>1. Min({} \cup {Base}) = Base
    <3>1. {} \cup {Base} \in SUBSET Nat /\ {} \cup {Base} # {}
      BY <1>1
    <3>2. Min({} \cup {Base}) \in {} \cup {Base}
      BY <3>1, MinNat
    <3> QED BY <3>2
  <2> QED BY <2>1 DEF Init, Counters
<1>4. RcvStands
  BY EmptyStands DEF Init, RcvStands
<1>5. SndStands
  <2>1. Sns(<<>>) = <<>>
    BY DEF Sns
  <2> QED BY <2>1, EmptyStands DEF Init, SndStands
<1> QED BY <1>2, <1>3, <1>4, <1>5 DEF ListInv

(* What an operation on the other list leaves alone.                       *)
LEMMA SndKept ==
  ASSUME ListInv, UNCHANGED sndVars
  PROVE  /\ sent' \in Base..Top /\ out' \subseteq Base..(sent' - 1)
         /\ snd_nxt' = W(sent') /\ snd_una' = W(Min(out' \cup {sent'}))
         /\ SndStands'
<1>1. snd_buf' = snd_buf /\ out' = out /\ sent' = sent /\ snd_nxt' = snd_nxt /\ snd_una' = snd_una
  BY DEF sndVars
<1>2. SndStands'
  <2>1. \E s : Stands(Sns(snd_buf), s, out)
    BY DEF ListInv, SndStands
  <2> QED BY <1>1, <2>1, SndStandsAfter
<1> QED BY <1>1, <1>2 DEF ListInv, Numbers, Counters

LEMMA RcvKept ==
  ASSUME ListInv, UNCHANGED rcvVars
  PROVE  /\ nxt' \in Base..Top /\ got' \subseteq nxt'..(Top - 1)
         /\ rcv_nxt' = W(nxt')
         /\ RcvStands'
<1>1. rcv_buf' = rcv_buf /\ got' = got /\ nxt' = nxt /\ rcv_nxt' = rcv_nxt
  BY DEF rcvVars
<1>2. RcvStands'
  <2>1. \E s : Stands(rcv_buf, s, got)
    BY DEF ListInv, RcvStands
  <2> QED BY <1>1, <2>1, RcvStandsAfter
<1> QED BY <1>1, <1>2 DEF ListInv, Numbers, Counters

(* A list that stands for S, as the moving loop leaves it.                 *)
LEMMA Moved ==
  ASSUME ListInv, NEW list, NEW que \in Int, Move(list, que),
         NEW S, \E s : Stands(list, s, S), S \subseteq nxt..(Top - 1),
         got' = {k \in S : k >= nxt'}
  PROVE  /\ nxt' \in Base..Top /\ got' \subseteq nxt'..(Top - 1)
         /\ rcv_nxt' = W(nxt')
         /\ RcvStands'
<1>1. rcv_nxt = W(nxt) /\ nxt \in Base..Top
  BY DEF ListInv, Counters, Numbers
<1>2. PICK s : Stands(list, s, S)
  OBVIOUS
<1>3. /\ nxt' \in nxt..Top /\ rcv_nxt' = W(nxt')
      /\ \E t : Stands(rcv_buf', t, {k \in S : k >= nxt'})
  BY <1>1, <1>2, MoveStands
<1>4. nxt' \in Base..Top
  BY <1>1, <1>3, Near
<1>5. got' \subseteq nxt'..(Top - 1)
  <2> SUFFICES ASSUME NEW k \in S, k >= nxt' PROVE k \in nxt'..(Top - 1)
    OBVIOUS
  <2>1. k \in nxt..(Top - 1)
    BY Zenon
  <2> QED BY <1>1, <1>3, <2>1, Near
<1>6. RcvStands'
  <2>1. \E t : Stands(rcv_buf', t, got')
    BY <1>3
  <2> QED BY <2>1, RcvStandsAfter
<1> QED BY <1>3, <1>4, <1>5, <1>6

(* A segment that is stored lies from nxt on, and the list with it stands  *)
(* for the set with it.                                                    *)
LEMMA PushPlaced ==
  ASSUME ListInv, NEW n \in Number, Diff(W(n), rcv_nxt) >= 0
  PROVE  /\ n \in nxt..(Top - 1)
         /\ got \cup {n} \subseteq nxt..(Top - 1)
         /\ \E t : Stands(Placed(rcv_buf, W(n)), t, got \cup {n})
<1> DEFINE All == (Base - Old)..(Top + RcvWnd)
<1>1. rcv_nxt = W(nxt) /\ nxt \in Base..Top /\ got \subseteq nxt..(Top - 1)
  BY DEF ListInv, Counters, Numbers
<1>2. PICK s : Stands(rcv_buf, s, got)
  BY DEF ListInv, RcvStands
<1>3. n \in Int /\ n \in All /\ n < Top /\ nxt \in Nat /\ nxt \in All
  BY <1>1, Near
<1>4. \A a, b \in All : a - b < Half
  BY Near
<1>5. \A k \in got : k \in Int /\ k \in All
  <2> SUFFICES ASSUME NEW k \in got PROVE k \in Int /\ k \in All
    OBVIOUS
  <2>1. k \in nxt..(Top - 1)
    BY <1>1, Zenon
  <2>2. k \in Base..Top
    BY <1>1, <2>1, Near
  <2> QED BY <2>2, Near
<1> HIDE DEF All
<1>6. n >= nxt
  <2>1. Half \in Nat
    BY HalfNat
  <2>2. Diff(W(n), W(nxt)) = n - nxt
    BY <1>3, <1>4, <2>1, DiffOf
  <2> QED BY <1>1, <1>3, <2>2
<1>7. \A k \in got : k - n < Half /\ n - k < Half
  BY <1>3, <1>4, <1>5
<1>8. \E t : Stands(Placed(rcv_buf, W(n)), t, got \cup {n})
  BY <1>2, <1>3, <1>7, PlacedStands
<1>9. n \in nxt..(Top - 1)
  BY <1>3, <1>6, Near
<1>10. got \cup {n} \subseteq nxt..(Top - 1)
  BY <1>1, <1>9, Zenon
<1> QED BY <1>8, <1>9, <1>10

LEMMA InputPushLists ==
  ASSUME ListInv, Inv, NEW n \in Number, InputPush(n)
  PROVE  ListInv'
<1> DEFINE sn == W(n)
           taken == Diff(sn, W(rcv_nxt + RcvWnd)) < 0 /\ Diff(sn, rcv_nxt) >= 0
<1>1. UNCHANGED <<sndVars, net>>
  BY DEF InputPush
<1>2. acklist' \in Seq(Number)
  <2>1. acklist \in Seq(Number)
    BY DEF ListInv, Numbers
  <2>2. CASE AckPush(n)
    BY <2>1, <2>2 DEF AckPush
  <2>3. CASE UNCHANGED ackVars
    BY <2>1, <2>3 DEF ackVars
  <2> QED BY <2>2, <2>3 DEF InputPush
<1>3. /\ nxt' \in Base..Top /\ got' \subseteq nxt'..(Top - 1)
      /\ rcv_nxt' = W(nxt')
      /\ RcvStands'
  <2>1. CASE taken
    <3>1. /\ Move(Placed(rcv_buf, sn), nrcv_que)
          /\ got' = {k \in got \cup {n} : k >= nxt'}
      <4> HIDE DEF sn
      <4> QED BY <2>1 DEF InputPush, sn
    <3>2. /\ nrcv_que \in Int /\ got \cup {n} \subseteq nxt..(Top - 1)
          /\ \E t : Stands(Placed(rcv_buf, sn), t, got \cup {n})
      <4>1. Diff(W(n), rcv_nxt) >= 0
        BY <2>1, Zenon
      <4>2. nrcv_que \in Int
        BY Sizes DEF Inv, Typed
      <4>3. /\ got \cup {n} \subseteq nxt..(Top - 1)
            /\ \E t : Stands(Placed(rcv_buf, W(n)), t, got \cup {n})
        BY <4>1, PushPlaced
      <4> QED BY <4>2, <4>3
    <3> HIDE DEF sn, taken
    <3> QED BY <3>1, <3>2, Moved
  <2>2. CASE ~ taken
    <3>1. UNCHANGED rcvVars
      BY <2>2 DEF InputPush
    <3> QED BY <3>1, RcvKept
  <2> QED BY <2>1, <2>2
<1>4. net' = net /\ UNCHANGED sndVars
  BY <1>1
<1>5. /\ sent' \in Base..Top /\ out' \subseteq Base..(sent' - 1)
      /\ snd_nxt' = W(sent') /\ snd_una' = W(Min(out' \cup {sent'}))
      /\ SndStands'
  BY <1>4, SndKept
<1>6. \A d \in net' : d.una \in Base..Top /\ d.sns \in Seq(Number)
  BY <1>4 DEF ListInv, Numbers
<1> QED BY <1>2, <1>3, <1>5, <1>6 DEF ListInv, Numbers, Counters

LEMMA RecvLists ==
  ASSUME ListInv, Inv, Recv
  PROVE  ListInv'
<1>1. /\ UNCHANGED <<sndVars, ackVars, net>> /\ Move(rcv_buf, nrcv_que - 1)
      /\ got' = {k \in got : k >= nxt'}
  BY DEF Recv
<1>2. /\ nxt' \in Base..Top /\ got' \subseteq nxt'..(Top - 1)
      /\ rcv_nxt' = W(nxt')
      /\ RcvStands'
  <2>1. nrcv_que - 1 \in Int
    BY Sizes DEF Inv, Typed
  <2>2. got \subseteq nxt..(Top - 1) /\ \E s : Stands(rcv_buf, s, got)
    BY DEF ListInv, Numbers, RcvStands
  <2> QED BY <1>1, <2>1, <2>2, Moved
<1>3. net' = net /\ acklist' = acklist /\ UNCHANGED sndVars
  BY <1>1 DEF ackVars
<1>4. /\ sent' \in Base..Top /\ out' \subseteq Base..(sent' - 1)
      /\ snd_nxt' = W(sent') /\ snd_una' = W(Min(out' \cup {sent'}))
      /\ SndStands'
  BY <1>3, SndKept
<1> QED BY <1>2, <1>3, <1>4 DEF ListInv, Numbers, Counters

LEMMA FlushAcksLists ==
  ASSUME ListInv, FlushAcks
  PROVE  ListInv'
<1> DEFINE d == [una |-> nxt, wnd |-> RcvWnd - nrcv_que, sns |-> acklist]
<1>1. UNCHANGED sndVars /\ UNCHANGED rcvVars /\ acklist' = <<>> /\ net' \subseteq net \cup {d}
  BY DEF FlushAcks
<1>2. d.una = nxt /\ d.sns = acklist
  OBVIOUS
<1> HIDE DEF d
<1>3. \A e \in net' : e.una \in Base..Top /\ e.sns \in Seq(Number)
  BY <1>1, <1>2 DEF ListInv, Numbers
<1>4. acklist' \in Seq(Number)
  BY <1>1
<1>5. /\ nxt' \in Base..Top /\ got' \subseteq nxt'..(Top - 1) /\ rcv_nxt' = W(nxt')
      /\ RcvStands'
  BY <1>1, RcvKept
<1>6. /\ sent' \in Base..Top /\ out' \subseteq Base..(sent' - 1)
      /\ snd_nxt' = W(sent') /\ snd_una' = W(Min(out' \cup {sent'}))
      /\ SndStands'
  BY <1>1, SndKept
<1> QED BY <1>3, <1>4, <1>5, <1>6 DEF ListInv, Numbers, Counters

LEMMA InputAcksLists ==
  ASSUME ListInv, Inv, NEW d \in net, InputAcks(d)
  PROVE  ListInv'
<1> DEFINE Kept == {k \in out : k >= d.una /\ k \notin Range(d.sns)}
<1>1. /\ net' \subseteq net /\ snd_buf' = AfterAcks(d) /\ snd_una' = Shrink(snd_buf')
      /\ out' = Kept /\ UNCHANGED rcvVars /\ UNCHANGED ackVars /\ snd_nxt' = snd_nxt /\ sent' = sent
  BY DEF InputAcks
<1>2. /\ d.una \in Base..Top /\ d.sns \in Seq(Number) /\ snd_buf \in Seq(Seg)
      /\ sent \in Base..Top /\ snd_nxt = W(sent) /\ out \subseteq Base..(sent - 1)
      /\ d.sns \in Seq(Int)
  BY DEF ListInv, Numbers, Counters, Inv, Typed
<1>3. PICK s : Stands(Sns(snd_buf), s, out)
  BY DEF ListInv, SndStands
<1>4. PICK t : Stands(Sns(AfterAcks(d)), t, Kept)
  <2>1. \E t : Stands(Sns(AfterAcks(d)), t, Kept)
    BY <1>2, <1>3, AfterAcksStands
  <2> HIDE DEF Kept
  <2> QED BY <2>1
<1>5. Kept \subseteq out
  OBVIOUS
<1> HIDE DEF Kept
<1>6. SndStands'
  BY <1>1, <1>4, SndStandsAfter
<1>7. out' \subseteq Base..(sent' - 1)
  BY <1>1, <1>2, <1>5, Zenon
<1>8. snd_una' = W(Min(out' \cup {sent'}))
  <2>1. AfterAcks(d) \in Seq(Seg)
    BY <1>2, AfterAcksType
  <2>2. sent \in Nat /\ Kept \subseteq Nat /\ \A k \in Kept : k < sent
    <3>1. sent \in Nat
      BY <1>2, Near
    <3>2. ASSUME NEW k \in Kept PROVE k \in Nat /\ k < sent
      <4>1. k \in Base..(sent - 1)
        BY <1>2, <1>5, Zenon
      <4> QED BY <3>1, <4>1, Near
    <3> QED BY <3>1, <3>2
  <2> DEFINE l == AfterAcks(d)
  <2>3. l \in Seq(Seg) /\ Stands(Sns(l), t, Kept)
    BY <1>4, <2>1
  <2> HIDE DEF l
  <2>4. Shrink(l) = W(Min(Kept \cup {sent}))
    BY <1>2, <2>2, <2>3, ShrinkStands
  <2>5. Shrink(snd_buf') = Shrink(l)
    BY <1>1 DEF l
  <2> QED BY <1>1, <2>4, <2>5
<1>9. /\ nxt' \in Base..Top /\ got' \subseteq nxt'..(Top - 1) /\ rcv_nxt' = W(nxt')
      /\ RcvStands'
  BY <1>1, RcvKept
<1>10. acklist' \in Seq(Number) /\ \A e \in net' : e.una \in Base..Top /\ e.sns \in Seq(Number)
  BY <1>1 DEF ackVars, ListInv, Numbers
<1>11. sent' \in Base..Top /\ snd_nxt' = W(sent')
  BY <1>1, <1>2
<1> QED BY <1>6, <1>7, <1>8, <1>9, <1>10, <1>11 DEF ListInv, Numbers, Counters

LEMMA FlushLists ==
  ASSUME ListInv, Inv, NEW due, Flush(due)
  PROVE  ListInv'
<1>1. snd_una' = snd_una /\ UNCHANGED rcvVars /\ UNCHANGED ackVars /\ net' = net
  BY DEF Flush
<1>2. /\ snd_buf \in Seq(Seg) /\ sent \in Base..Top /\ snd_nxt = W(sent)
      /\ out \subseteq Base..(sent - 1) /\ snd_una = W(Min(out \cup {sent}))
  BY DEF ListInv, Numbers, Counters, Inv, Typed
<1>3. PICK s : Stands(Sns(snd_buf), s, out)
  BY DEF ListInv, SndStands
<1>4. /\ sent' \in sent..Top /\ snd_nxt' = W(sent')
      /\ out' \subseteq Base..(sent' - 1)
      /\ Min(out' \cup {sent'}) = Min(out \cup {sent})
      /\ \E t : Stands(Sns(snd_buf'), t, out')
  BY <1>2, <1>3, FlushStands
<1>5. SndStands'
  BY <1>4, SndStandsAfter
<1>6. sent' \in Base..Top
  BY <1>2, <1>4, Near
<1>7. snd_una' = W(Min(out' \cup {sent'}))
  BY <1>1, <1>2, <1>4
<1>8. /\ nxt' \in Base..Top /\ got' \subseteq nxt'..(Top - 1) /\ rcv_nxt' = W(nxt')
      /\ RcvStands'
  BY <1>1, RcvKept
<1>9. acklist' \in Seq(Number) /\ \A e \in net' : e.una \in Base..Top /\ e.sns \in Seq(Number)
  BY <1>1 DEF ackVars, ListInv, Numbers
<1> QED BY <1>4, <1>5, <1>6, <1>7, <1>8, <1>9 DEF ListInv, Numbers, Counters

LEMMA NextLists == ListInv /\ Inv /\ [Next]_vars => ListInv'
<1> SUFFICES ASSUME ListInv, Inv, [Next]_vars PROVE ListInv'
  OBVIOUS
<1>1. CASE UNCHANGED vars
  <2>1. UNCHANGED sndVars /\ UNCHANGED rcvVars /\ UNCHANGED ackVars /\ net' = net
    BY <1>1 DEF vars
  <2>2. acklist' \in Seq(Number) /\ \A e \in net' : e.una \in Base..Top /\ e.sns \in Seq(Number)
    BY <2>1 DEF ackVars, ListInv, Numbers
  <2> QED BY <2>1, <2>2, RcvKept, SndKept DEF ListInv, Numbers, Counters
<1> QED BY <1>1, InputPushLists, RecvLists, FlushAcksLists, InputAcksLists, FlushLists DEF Next

(* The lists stand for the sets at every step.                             *)
THEOREM ListsStand == Spec => []ListInv
<1>1. Inv /\ ListInv /\ [Next]_vars => ListInv'
  BY NextLists
<1> QED BY InitLists, <1>1, Inductive, PTL DEF Spec

(* What the invariants of KcpSegs say of the lists.                        *)
LEMMA ListsRead == ListInv => RcvList /\ SndList
<1>1. ListInv => RcvList
  <2> SUFFICES ASSUME ListInv PROVE RcvList
    OBVIOUS
  <2>1. PICK s : Stands(rcv_buf, s, got)
    BY DEF ListInv, RcvStands
  <2>2. nxt \in Int /\ \A k \in got : k - nxt < Half /\ k - nxt >= -Half
    <3>1. nxt \in Base..Top /\ got \subseteq nxt..(Top - 1)
      BY DEF ListInv, Numbers
    <3>2. nxt \in Nat /\ nxt \in (Base - Old)..(Top + RcvWnd) /\ Half \in Nat
      BY <3>1, Near, HalfNat
    <3>3. ASSUME NEW k \in got PROVE k - nxt < Half /\ k - nxt >= -Half
      <4>1. k \in nxt..(Top - 1)
        BY <3>1, Zenon
      <4>2. k \in (Base - Old)..(Top + RcvWnd) /\ k >= nxt /\ k \in Int
        BY <3>1, <3>2, <4>1, Near
      <4>3. k - nxt < Half
        BY <3>2, <4>2, Near
      <4> QED BY <3>2, <4>2, <4>3
    <3> QED BY <3>2, <3>3
  <2>3. Lists(rcv_buf, got, nxt)
    BY <2>1, <2>2, StandsLists
  <2> QED BY <2>3 DEF RcvList, ListInv, Counters
<1>2. ListInv => SndList
  <2> SUFFICES ASSUME ListInv PROVE SndList
    OBVIOUS
  <2>1. PICK s : Stands(Sns(snd_buf), s, out)
    BY DEF ListInv, SndStands
  <2>2. sent \in Int /\ \A k \in out : k - sent < Half /\ k - sent >= -Half
    <3>1. sent \in Base..Top /\ out \subseteq Base..(sent - 1)
      BY DEF ListInv, Numbers
    <3>2. sent \in Nat /\ sent \in (Base - Old)..(Top + RcvWnd) /\ Half \in Nat
      BY <3>1, Near, HalfNat
    <3>3. ASSUME NEW k \in out PROVE k - sent < Half /\ k - sent >= -Half
      <4>1. k \in Base..(sent - 1)
        BY <3>1, Zenon
      <4>2. k \in Base..Top /\ k < sent
        BY <3>1, <3>2, <4>1, Near
      <4>3. k \in (Base - Old)..(Top + RcvWnd) /\ k \in Int
        BY <4>2, Near
      <4>4. sent - k < Half
        BY <3>2, <4>3, Near
      <4> QED BY <3>2, <4>2, <4>3, <4>4
    <3> QED BY <3>2, <3>3
  <2>3. Lists(Sns(snd_buf), out, sent)
    BY <2>1, <2>2, StandsLists
  <2> QED BY <2>3 DEF SndList, ListInv, Counters, Sns
<1> QED BY <1>1, <1>2

(* For every width, window and number of segments, rcv_buf holds what came *)
(* out of order once and in order, whatever the order of arrival.          *)
THEOREM RcvListHolds == Spec => []RcvList
BY ListsRead, ListsStand, PTL

(* And snd_buf holds, in order, what nobody has acknowledged, with snd_una *)
(* the first of it: no acknowledgement, late, repeated or overtaken, takes *)
(* out more or less than it acknowledges.                                  *)
THEOREM SndListHolds == Spec => []SndList
BY ListsRead, ListsStand, PTL

-----------------------------------------------------------------------------
(***************************************************************************)
(* acklist has room for every acknowledgement that waits for a flush.      *)
(***************************************************************************)
(* The sizes of a block are defined, by a least counterexample, and the    *)
(* size number i is more than i.                                           *)
LEMMA BlocksAre ==
  /\ DOMAIN Blocks = 0..MaxAcks
  /\ \A i \in 0..MaxAcks : Blocks[i] = IF i = 0 THEN Block ELSE 2 * Blocks[i - 1]
<1> DEFINE Solves(f, k) == f = [i \in 0..k |-> IF i = 0 THEN Block ELSE 2 * f[i - 1]]
           Bad == {k \in 0..MaxAcks : ~ \E f : Solves(f, k)}
<1>0. MaxAcks \in Nat
  BY SizesAssumption
<1>1. Bad = {}
  <2> SUFFICES ASSUME Bad # {} PROVE FALSE
    OBVIOUS
  <2> DEFINE k == Min(Bad)
  <2>1. k \in Bad /\ \A x \in Bad : k <= x
    <3>1. Bad \in SUBSET Nat
      BY <1>0
    <3> HIDE DEF Bad
    <3> QED BY <3>1, MinNat
  <2> HIDE DEF k
  <2>2. k \in 0..MaxAcks /\ ~ \E f : Solves(f, k)
    BY <2>1
  <2>3. CASE k = 0
    <3> DEFINE f == [i \in 0..0 |-> Block]
    <3>1. Solves(f, 0)
      OBVIOUS
    <3> QED BY <2>2, <2>3, <3>1
  <2>4. CASE k # 0
    <3>1. k - 1 \in 0..MaxAcks /\ k - 1 < k
      BY <1>0, <2>2, <2>4
    <3>2. k - 1 \notin Bad
      <4> HIDE DEF Bad
      <4> QED BY <1>0, <2>1, <2>2, <3>1
    <3>3. PICK f : Solves(f, k - 1)
      BY <3>1, <3>2
    <3> DEFINE g == [i \in 0..k |-> IF i = k THEN 2 * f[k - 1] ELSE f[i]]
    <3>4. \A i \in 0..(k - 1) : f[i] = IF i = 0 THEN Block ELSE 2 * f[i - 1]
      BY <3>3
    <3>5. k \in Nat /\ \A i \in 0..k : i # k => i \in 0..(k - 1)
      BY <1>0, <2>2
    <3>6. \A i \in 0..k : g[i] = IF i = k THEN 2 * f[k - 1] ELSE f[i]
      OBVIOUS
    <3>7. ASSUME NEW i \in 0..k
          PROVE  g[i] = IF i = 0 THEN Block ELSE 2 * g[i - 1]
      <4>1. i # 0 => i - 1 \in 0..k /\ i - 1 # k
        BY <3>5
      <4>2. i # 0 => g[i - 1] = f[i - 1]
        <5> HIDE DEF g
        <5> QED BY <3>6, <4>1
      <4> HIDE DEF g
      <4>3. CASE i = k
        BY <2>4, <3>6, <4>2, <4>3
      <4>4. CASE i # k
        BY <3>4, <3>5, <3>6, <4>2, <4>4
      <4> QED BY <4>3, <4>4
    <3>8. Solves(g, k)
      <4>1. g = [i \in 0..k |-> g[i]]
        OBVIOUS
      <4> HIDE DEF g
      <4> QED BY <3>7, <4>1
    <3> QED BY <2>2, <3>8
  <2> QED BY <2>3, <2>4
<1>2. \E f : Solves(f, MaxAcks)
  <2>1. MaxAcks \in 0..MaxAcks
    BY <1>0
  <2> HIDE DEF Solves
  <2> QED BY <1>1, <2>1
<1>3. Blocks = CHOOSE f : Solves(f, MaxAcks)
  BY DEF Blocks
<1>4. Solves(Blocks, MaxAcks)
  <2> HIDE DEF Solves
  <2> QED BY <1>2, <1>3
<1> QED BY <1>4

LEMMA BlocksGrow == \A i \in 0..MaxAcks : Blocks[i] \in Nat /\ Blocks[i] > i
<1> DEFINE Bad == {i \in 0..MaxAcks : ~ (Blocks[i] \in Nat /\ Blocks[i] > i)}
<1>0. MaxAcks \in Nat /\ Block \in Nat \ {0}
  BY SizesAssumption
<1>1. Bad = {}
  <2> SUFFICES ASSUME Bad # {} PROVE FALSE
    OBVIOUS
  <2> DEFINE k == Min(Bad)
  <2>1. k \in Bad /\ \A x \in Bad : k <= x
    <3>1. Bad \in SUBSET Nat
      BY <1>0
    <3> HIDE DEF Bad
    <3> QED BY <3>1, MinNat
  <2> HIDE DEF k
  <2>2. k \in 0..MaxAcks /\ ~ (Blocks[k] \in Nat /\ Blocks[k] > k)
    BY <2>1
  <2>3. CASE k = 0
    BY <1>0, <2>2, <2>3, BlocksAre
  <2>4. CASE k # 0
    <3>1. k - 1 \in 0..MaxAcks /\ k - 1 < k
      BY <1>0, <2>2, <2>4
    <3>2. k - 1 \notin Bad
      <4> HIDE DEF Bad
      <4> QED BY <1>0, <2>1, <2>2, <3>1
    <3>3. Blocks[k - 1] \in Nat /\ Blocks[k - 1] > k - 1
      BY <3>1, <3>2
    <3>4. Blocks[k] = 2 * Blocks[k - 1]
      BY <2>2, <2>4, BlocksAre
    <3>5. Blocks[k] \in Nat /\ Blocks[k] > k
      BY <1>0, <2>2, <2>4, <3>3, <3>4
    <3> QED BY <2>2, <3>5
  <2> QED BY <2>3, <2>4
<1> QED BY <1>1

(* Some size has room for one more entry, so ikcp_ack_push's loop ends.    *)
LEMMA RoomForOne ==
  ASSUME NEW len \in Nat, len < MaxAcks
  PROVE  Min({b \in Range(Blocks) : b > len}) \in Nat
         /\ Min({b \in Range(Blocks) : b > len}) > len
<1> DEFINE S == {b \in Range(Blocks) : b > len}
<1>0. MaxAcks \in Nat
  BY SizesAssumption
<1>1. len \in 0..MaxAcks
  BY <1>0
<1>2. Range(Blocks) = {Blocks[i] : i \in 0..MaxAcks}
  BY BlocksAre DEF Range
<1>3. S \in SUBSET Nat
  BY <1>2, BlocksGrow
<1>4. Blocks[len] \in S
  BY <1>1, <1>2, BlocksGrow
<1> HIDE DEF S
<1>5. Min(S) \in S
  BY <1>3, <1>4, MinNat
<1>6. Min(S) > len /\ Min(S) \in Nat
  BY <1>3, <1>5 DEF S
<1> QED BY <1>6 DEF S

(* What is in acklist is what has been accepted since the last flush, and  *)
(* there is room for it.                                                   *)
AckInv == AcksFit /\ ackblock \in Nat

LEMMA NextAcks == AckInv /\ Inv /\ [Next]_vars => AckInv'
<1> SUFFICES ASSUME AckInv, Inv, [Next]_vars PROVE AckInv'
  OBVIOUS
<1>0. acklist \in Seq(Int) /\ acklist = owed /\ Len(acklist) \in Nat /\ Len(acklist) <= ackblock
      /\ ackblock \in Nat
  BY DEF Inv, Typed, AckInv, AcksFit
<1>1. CASE UNCHANGED ackVars
  BY <1>1 DEF ackVars, AckInv, AcksFit
<1>2. ASSUME NEW n \in Number, InputPush(n) PROVE AckInv'
  <2>1. CASE AckPush(n) /\ owed' = Append(owed, n) /\ Len(acklist) < MaxAcks
    <3>1. n \in Int
      BY Sizes DEF Number
    <3>2. acklist' = owed' /\ Len(acklist') = Len(acklist) + 1
      BY <1>0, <2>1, <3>1 DEF AckPush
    <3>3. CASE Len(acklist) + 1 <= ackblock
      BY <1>0, <2>1, <3>2, <3>3 DEF AckPush, AckInv, AcksFit
    <3>4. CASE ~(Len(acklist) + 1 <= ackblock)
      <4>1. ackblock' = Min({b \in Range(Blocks) : b > Len(acklist)})
        BY <2>1, <3>4 DEF AckPush
      <4>2. ackblock' \in Nat /\ ackblock' > Len(acklist)
        BY <1>0, <2>1, <4>1, RoomForOne
      <4>3. Len(acklist') <= ackblock'
        BY <1>0, <3>2, <4>2
      <4> QED BY <3>2, <4>2, <4>3 DEF AckInv, AcksFit
    <3> QED BY <3>3, <3>4
  <2> QED BY <1>1, <1>2, <2>1 DEF InputPush
<1>3. ASSUME FlushAcks PROVE AckInv'
  <2>1. acklist' = <<>> /\ owed' = <<>> /\ ackblock' = ackblock
    BY <1>3 DEF FlushAcks
  <2> QED BY <1>0, <2>1 DEF AckInv, AcksFit
<1>4. CASE Recv \/ (\E d \in net : InputAcks(d)) \/ (\E due \in SUBSET DOMAIN snd_buf : Flush(due))
  BY <1>1, <1>4 DEF Recv, InputAcks, Flush
<1>5. CASE UNCHANGED vars
  BY <1>1, <1>5 DEF vars
<1> QED BY <1>2, <1>3, <1>4, <1>5 DEF Next

(* Every entry of acklist is written inside its block, and none is lost    *)
(* before the flush that sends it.                                         *)
THEOREM AcksHaveRoom == Spec => []AcksFit
<1>1. Init => AckInv
  BY DEF Init, AckInv, AcksFit
<1>2. AckInv => AcksFit
  BY DEF AckInv
<1> QED BY <1>1, <1>2, NextAcks, Inductive, PTL DEF Spec

-----------------------------------------------------------------------------
(***************************************************************************)
(* The lists implement the sliding window of integers and sets.            *)
(***************************************************************************)
(* What has reached the receiver, and what waits to be acknowledged or is  *)
(* on its way back: nothing that has not.                                  *)
Arrived(n) == n < nxt \/ n \in got

TruthfulAcks ==
    /\ \A i \in DOMAIN acklist : Arrived(acklist[i])
    /\ \A d \in net : /\ d.una <= nxt /\ d.wnd \in 0..RcvWnd
                      /\ \A n \in Range(d.sns) : Arrived(n)
    /\ rmt_wnd \in 0..RcvWnd

(* The first number that is kept, or the next to be sent.                  *)
LEMMA FirstKept ==
  ASSUME ListInv
  PROVE  LET u == Min(out \cup {sent}) IN
         /\ sent \in Nat /\ sent \in Base..Top
         /\ \A k \in out : k \in Nat /\ k < sent
         /\ u \in Nat /\ u \in Base..Top /\ u <= sent /\ sent - u < Half
<1> DEFINE T == out \cup {sent}
           u == Min(T)
<1>1. sent \in Base..Top /\ out \subseteq Base..(sent - 1)
  BY DEF ListInv, Numbers
<1>2. sent \in Nat /\ sent >= Base /\ sent <= Top /\ Base \in Nat /\ Top \in Nat
  BY <1>1, Near
<1>3. \A k \in out : k \in Nat /\ k >= Base /\ k < sent
  <2> SUFFICES ASSUME NEW k \in out PROVE k \in Nat /\ k >= Base /\ k < sent
    OBVIOUS
  <2>1. k \in Base..(sent - 1)
    BY <1>1, Zenon
  <2> QED BY <1>2, <2>1
<1>4. u \in T
  <2>1. T \in SUBSET Nat /\ T # {}
    BY <1>2, <1>3
  <2> HIDE DEF T
  <2> QED BY <2>1, MinNat
<1>5. u \in Nat /\ u >= Base /\ u <= sent /\ u \in Base..Top
  <2>1. u = sent \/ u \in out
    BY <1>4
  <2> HIDE DEF u
  <2> QED BY <1>2, <1>3, <2>1
<1> HIDE DEF u
<1>6. sent - u < Half
  BY <1>1, <1>5, Near
<1> QED BY <1>1, <1>2, <1>3, <1>5, <1>6 DEF u

(* The words are read as the integers they stand for.                      *)
Reads == OutRead = out /\ GotRead = got /\ UnaRead = Min(out \cup {sent})

LEMMA Readings ==
  ASSUME ListInv
  PROVE  Reads
<1>1. Lists(rcv_buf, got, nxt) /\ rcv_nxt = W(nxt)
  BY ListsRead DEF RcvList
<1>2. Lists(Sns(snd_buf), out, sent) /\ snd_nxt = W(sent)
  BY ListsRead DEF SndList, Sns
<1>3. GotRead = got
  BY <1>1 DEF GotRead, Lists, Range
<1>4. OutRead = out
  BY <1>2 DEF OutRead, Lists, Range, Sns
<1>5. UnaRead = Min(out \cup {sent})
  <2> DEFINE u == Min(out \cup {sent})
  <2>1. snd_una = W(u) /\ sent \in Nat /\ u \in Nat /\ sent - u < Half /\ u <= sent
    BY FirstKept DEF ListInv, Counters
  <2> HIDE DEF u
  <2>2. u - sent < Half /\ u - sent >= -Half
    BY <2>1, HalfNat
  <2>3. Diff(W(u), W(sent)) = u - sent
    BY <2>1, <2>2, DiffOf
  <2>4. UnaRead = sent + (u - sent)
    BY <1>2, <2>1, <2>3 DEF UnaRead
  <2>5. UnaRead = u
    BY <2>1, <2>4
  <2> QED BY <2>5 DEF u
<1> QED BY <1>3, <1>4, <1>5 DEF Reads

(* What the moving loop does to the sets: the receiver's part of a step of *)
(* the sliding window.                                                     *)
LEMMA MoveDelivers ==
  ASSUME ListInv, NEW list \in Seq(Int), NEW que \in 0..RcvWnd, Move(list, que),
         NEW S, \E s : Stands(list, s, S), S \subseteq nxt..(Top - 1),
         got' = {k \in S : k >= nxt'}
  PROVE  /\ nxt \in Nat /\ nxt' \in Nat
         /\ \E m \in 0..RcvWnd :
              /\ nxt' = nxt + m
              /\ nxt..(nxt' - 1) \subseteq S
              /\ que + m <= RcvWnd
              /\ nxt' \in S => que + m = RcvWnd
              /\ got' = S \ (nxt..(nxt' - 1))
              /\ nrcv_que' = que + m
<1>1. rcv_nxt = W(nxt) /\ nxt \in Base..Top
  BY DEF ListInv, Counters, Numbers
<1>2. PICK s : Stands(list, s, S)
  OBVIOUS
<1>3. que \in Int /\ RcvWnd \in Nat
  BY Sizes
<1>4. /\ nxt' \in nxt..Top
      /\ nrcv_que' = que + (nxt' - nxt)
      /\ \A k \in nxt..(nxt' - 1) : k \in S
      /\ nxt' \in S => nrcv_que' >= RcvWnd
  BY <1>1, <1>2, <1>3, MoveStands
<1>5. nrcv_que' \in 0..RcvWnd
  BY MoveType
<1> DEFINE m == nxt' - nxt
<1>6. /\ nxt \in Nat /\ nxt' \in Nat /\ nxt' >= nxt /\ nxt' = nxt + m /\ m \in Nat
  <2>1. nxt \in Nat
    BY <1>1, Near
  <2>2. \A x \in nxt..Top : x \in Nat /\ x >= nxt /\ x = nxt + (x - nxt) /\ x - nxt \in Nat
    BY <2>1, Near
  <2> QED BY <1>4, <2>1, <2>2
<1>7. nrcv_que' = que + m
  BY <1>4
<1> HIDE DEF m
<1>8. que + m <= RcvWnd /\ m \in 0..RcvWnd
  BY <1>3, <1>5, <1>6, <1>7
<1>9. nxt' \in S => que + m = RcvWnd
  BY <1>3, <1>4, <1>5, <1>6, <1>7
<1>10. got' = S \ (nxt..(nxt' - 1))
  <2>1. \A k \in S : k \in nxt..(Top - 1)
    BY Zenon
  <2>2. \A k \in S : k >= nxt' <=> k \notin nxt..(nxt' - 1)
    <3> SUFFICES ASSUME NEW k \in S PROVE k >= nxt' <=> k \notin nxt..(nxt' - 1)
      OBVIOUS
    <3>1. k \in Int /\ k >= nxt
      BY <1>6, <2>1, Near
    <3> QED BY <1>6, <3>1
  <2> QED BY <2>2
<1> QED BY <1>4, <1>6, <1>7, <1>8, <1>9, <1>10

(* A PUSH that is stored is one of those the window has room for, and      *)
(* moves the receiver as a Receive does.                                   *)
LEMMA PushDelivers ==
  ASSUME ListInv, Inv, NEW n \in Number, InputPush(n),
         Diff(W(n), W(rcv_nxt + RcvWnd)) < 0, Diff(W(n), rcv_nxt) >= 0
  PROVE  /\ n \in nxt..(nxt + RcvWnd - 1) /\ n < sent
         /\ nxt \in Nat /\ nxt' \in Nat
         /\ \E m \in 0..RcvWnd :
              /\ nxt' = nxt + m
              /\ nxt..(nxt' - 1) \subseteq got \cup {n}
              /\ nrcv_que + m <= RcvWnd
              /\ nxt' \in got \cup {n} => nrcv_que + m = RcvWnd
              /\ got' = (got \cup {n}) \ (nxt..(nxt' - 1))
              /\ nrcv_que' = nrcv_que + m
<1> DEFINE list == Placed(rcv_buf, W(n))
           S == got \cup {n}
<1>1. /\ Move(list, nrcv_que) /\ got' = {k \in S : k >= nxt'} /\ n < sent
  BY DEF InputPush
<1>2. /\ n \in nxt..(Top - 1) /\ S \subseteq nxt..(Top - 1)
      /\ \E t : Stands(list, t, S)
  BY PushPlaced
<1>3. list \in Seq(Int) /\ nrcv_que \in 0..RcvWnd
  <2>1. W(n) \in Int /\ rcv_buf \in Seq(Int) /\ nrcv_que \in 0..RcvWnd
    BY Near, Sizes DEF Inv, Typed
  <2> QED BY <2>1, PlacedType
<1>4. n \in nxt..(nxt + RcvWnd - 1)
  <2>1. rcv_nxt = W(nxt) /\ nxt \in Base..Top
    BY DEF ListInv, Counters, Numbers
  <2>2. /\ nxt \in Nat /\ RcvWnd \in Nat /\ n \in Int /\ nxt <= Top /\ nxt >= Base /\ Top \in Nat
        /\ Base \in Nat /\ Old \in Nat /\ Old <= Base
    BY <2>1, Near, Sizes
  <2>3. n \in (Base - Old)..(Top + RcvWnd) /\ nxt + RcvWnd \in (Base - Old)..(Top + RcvWnd)
    BY <2>2, Near
  <2>4. n - (nxt + RcvWnd) < Half /\ (nxt + RcvWnd) - n < Half /\ Half \in Nat
    BY <2>3, Near, HalfNat
  <2>5. W(rcv_nxt + RcvWnd) = W(nxt + RcvWnd)
    BY <2>1, <2>2, WordOfSum
  <2>6. Diff(W(n), W(nxt + RcvWnd)) = n - (nxt + RcvWnd)
    BY <2>2, <2>4, DiffOf
  <2>7. n < nxt + RcvWnd
    <3>1. n - (nxt + RcvWnd) < 0
      BY <2>5, <2>6
    <3> QED BY <2>2, <3>1
  <2>8. n >= nxt
    BY <1>2, <2>2
  <2> QED BY <2>2, <2>7, <2>8
<1> HIDE DEF list
<1>5. /\ nxt \in Nat /\ nxt' \in Nat
      /\ \E m \in 0..RcvWnd :
           /\ nxt' = nxt + m
           /\ nxt..(nxt' - 1) \subseteq S
           /\ nrcv_que + m <= RcvWnd
           /\ nxt' \in S => nrcv_que + m = RcvWnd
           /\ got' = S \ (nxt..(nxt' - 1))
           /\ nrcv_que' = nrcv_que + m
  <2> HIDE DEF S
  <2> QED BY <1>1, <1>2, <1>3, MoveDelivers
<1> QED BY <1>1, <1>4, <1>5

LEMMA RecvDelivers ==
  ASSUME ListInv, Inv, Recv
  PROVE  /\ nxt \in Nat /\ nxt' \in Nat
         /\ \E m \in 0..RcvWnd :
              /\ nxt' = nxt + m
              /\ nxt..(nxt' - 1) \subseteq got
              /\ (nrcv_que - 1) + m <= RcvWnd
              /\ nxt' \in got => (nrcv_que - 1) + m = RcvWnd
              /\ got' = got \ (nxt..(nxt' - 1))
              /\ nrcv_que' = (nrcv_que - 1) + m
<1>1. Move(rcv_buf, nrcv_que - 1) /\ got' = {k \in got : k >= nxt'}
  BY DEF Recv
<1>2. rcv_buf \in Seq(Int) /\ nrcv_que - 1 \in 0..RcvWnd
  BY Sizes DEF Inv, Typed, Recv
<1>3. got \subseteq nxt..(Top - 1) /\ \E s : Stands(rcv_buf, s, got)
  BY DEF ListInv, Numbers, RcvStands
<1> DEFINE que == nrcv_que - 1
<1>4. que \in 0..RcvWnd /\ Move(rcv_buf, que)
  BY <1>1, <1>2
<1> HIDE DEF que
<1>5. /\ nxt \in Nat /\ nxt' \in Nat
      /\ \E m \in 0..RcvWnd :
           /\ nxt' = nxt + m
           /\ nxt..(nxt' - 1) \subseteq got
           /\ que + m <= RcvWnd
           /\ nxt' \in got => que + m = RcvWnd
           /\ got' = got \ (nxt..(nxt' - 1))
           /\ nrcv_que' = que + m
  BY <1>1, <1>2, <1>3, <1>4, MoveDelivers
<1> QED BY <1>5 DEF que

(* What has arrived, the one that arrives in the step with it, has arrived *)
(* after the step too.                                                     *)
LEMMA StillThere ==
  ASSUME nxt \in Nat, nxt' \in Nat, NEW m \in 0..RcvWnd, nxt' = nxt + m,
         NEW S, got' = S \ (nxt..(nxt' - 1))
  PROVE  \A k \in Int : k < nxt \/ k \in S => k < nxt' \/ k \in got'
<1>1. nxt' >= nxt
  BY Sizes
<1>2. ASSUME NEW k \in Int, k < nxt PROVE k < nxt'
  BY <1>1, <1>2
<1>3. ASSUME NEW k \in Int, k \in nxt..(nxt' - 1) PROVE k < nxt'
  BY <1>3
<1> QED BY <1>2, <1>3

LEMMA ArrivedStays ==
  ASSUME ListInv, Inv, [Next]_vars
  PROVE  nxt <= nxt' /\ \A k \in Int : Arrived(k) => k < nxt' \/ k \in got'
<1>1. nxt \in Nat
  BY Near DEF ListInv, Numbers
<1>2. CASE UNCHANGED rcvVars
  BY <1>1, <1>2 DEF rcvVars, Arrived
<1>3. ASSUME NEW n \in Number, InputPush(n)
      PROVE  nxt <= nxt' /\ \A k \in Int : Arrived(k) => k < nxt' \/ k \in got'
  <2>1. CASE Diff(W(n), W(rcv_nxt + RcvWnd)) < 0 /\ Diff(W(n), rcv_nxt) >= 0
    <3>1. PICK m \in 0..RcvWnd :
             /\ nxt' \in Nat /\ nxt' = nxt + m
             /\ got' = (got \cup {n}) \ (nxt..(nxt' - 1))
      BY <1>3, <2>1, PushDelivers
    <3>2. \A k \in Int : k < nxt \/ k \in got \cup {n} => k < nxt' \/ k \in got'
      BY <1>1, <3>1, StillThere
    <3> QED BY <1>1, <3>1, <3>2, Sizes DEF Arrived
  <2>2. CASE ~ (Diff(W(n), W(rcv_nxt + RcvWnd)) < 0 /\ Diff(W(n), rcv_nxt) >= 0)
    <3>1. UNCHANGED rcvVars
      BY <1>3, <2>2 DEF InputPush
    <3> QED BY <1>2, <3>1
  <2> QED BY <2>1, <2>2
<1>4. CASE Recv
  <2>1. PICK m \in 0..RcvWnd : nxt' \in Nat /\ nxt' = nxt + m /\ got' = got \ (nxt..(nxt' - 1))
    BY <1>4, RecvDelivers
  <2>2. \A k \in Int : k < nxt \/ k \in got => k < nxt' \/ k \in got'
    BY <1>1, <2>1, StillThere
  <2> QED BY <1>1, <2>1, <2>2, Sizes DEF Arrived
<1>5. CASE FlushAcks
  BY <1>2, <1>5 DEF FlushAcks
<1>6. ASSUME NEW d \in net, InputAcks(d) PROVE UNCHANGED rcvVars
  BY <1>6 DEF InputAcks
<1>7. ASSUME NEW due, Flush(due) PROVE UNCHANGED rcvVars
  BY <1>7 DEF Flush
<1>8. CASE UNCHANGED vars
  BY <1>2, <1>8 DEF vars
<1> QED BY <1>2, <1>3, <1>4, <1>5, <1>6, <1>7, <1>8 DEF Next

(* A PUSH that is acknowledged has arrived: it is stored, or lies before   *)
(* nxt.                                                                    *)
LEMMA AckedHasArrived ==
  ASSUME ListInv, Inv, NEW n \in Number, InputPush(n),
         Diff(W(n), W(rcv_nxt + RcvWnd)) < 0
  PROVE  n < nxt' \/ n \in got'
<1>1. nxt \in Nat /\ rcv_nxt = W(nxt) /\ nxt \in Base..Top
  BY Near DEF ListInv, Numbers, Counters
<1>2. n \in Int
  BY Near
<1>3. CASE Diff(W(n), rcv_nxt) >= 0
  <2>1. PICK m \in 0..RcvWnd :
           /\ nxt' \in Nat /\ nxt' = nxt + m
           /\ got' = (got \cup {n}) \ (nxt..(nxt' - 1))
    BY <1>3, PushDelivers
  <2>2. \A k \in Int : k < nxt \/ k \in got \cup {n} => k < nxt' \/ k \in got'
    BY <1>1, <2>1, StillThere
  <2> QED BY <1>2, <2>2
<1>4. CASE ~ (Diff(W(n), rcv_nxt) >= 0)
  <2>1. n \in (Base - Old)..(Top + RcvWnd) /\ nxt \in (Base - Old)..(Top + RcvWnd)
    BY <1>1, Near
  <2>2. n - nxt < Half /\ nxt - n < Half /\ Half \in Nat
    BY <2>1, Near, HalfNat
  <2>3. Diff(W(n), W(nxt)) = n - nxt
    BY <1>1, <1>2, <2>2, DiffOf
  <2>4. n < nxt
    BY <1>1, <1>2, <1>4, <2>3
  <2>5. UNCHANGED rcvVars
    BY <1>4 DEF InputPush
  <2> QED BY <2>4, <2>5 DEF rcvVars
<1> QED BY <1>3, <1>4

LEMMA InitTruthful == Init => TruthfulAcks
BY Sizes DEF Init, TruthfulAcks

(* Acknowledgements that are carried on are as true as they were.          *)
LEMMA AcksStayTrue ==
  ASSUME ListInv, Inv, TruthfulAcks, [Next]_vars
  PROVE  /\ nxt \in Nat /\ nxt <= nxt'
         /\ \A i \in DOMAIN acklist : acklist[i] < nxt' \/ acklist[i] \in got'
         /\ \A d \in net : /\ d.una <= nxt' /\ d.wnd \in 0..RcvWnd
                           /\ \A n \in Range(d.sns) : n < nxt' \/ n \in got'
<1>1. nxt \in Nat /\ nxt' \in Nat
  <2>1. ListInv'
    BY NextLists
  <2>2. nxt \in Base..Top /\ nxt' \in Base..Top
    BY <2>1 DEF ListInv, Numbers
  <2> QED BY <2>2, Near
<1>2. nxt <= nxt' /\ \A k \in Int : Arrived(k) => k < nxt' \/ k \in got'
  BY ArrivedStays
<1>3. \A i \in DOMAIN acklist : acklist[i] < nxt' \/ acklist[i] \in got'
  <2>1. \A i \in DOMAIN acklist : acklist[i] \in Int
    BY DEF Inv, Typed
  <2> QED BY <1>2, <2>1 DEF TruthfulAcks
<1>4. ASSUME NEW d \in net
      PROVE  /\ d.una <= nxt' /\ d.wnd \in 0..RcvWnd
             /\ \A n \in Range(d.sns) : n < nxt' \/ n \in got'
  <2>1. \A n \in Range(d.sns) : n \in Int
    BY DEF Inv, Typed, Range
  <2>2. d.una <= nxt'
    <3>1. d.una \in Nat
      BY Near DEF ListInv, Numbers
    <3>2. d.una <= nxt
      BY DEF TruthfulAcks
    <3> QED BY <1>1, <1>2, <3>1, <3>2
  <2> QED BY <1>2, <2>1, <2>2 DEF TruthfulAcks
<1> QED BY <1>1, <1>2, <1>3, <1>4

LEMMA NextTruthful ==
  ASSUME ListInv, Inv, TruthfulAcks, [Next]_vars
  PROVE  TruthfulAcks'
<1>1. /\ \A i \in DOMAIN acklist : acklist[i] < nxt' \/ acklist[i] \in got'
      /\ \A d \in net : /\ d.una <= nxt' /\ d.wnd \in 0..RcvWnd
                        /\ \A n \in Range(d.sns) : n < nxt' \/ n \in got'
      /\ rmt_wnd \in 0..RcvWnd
  BY AcksStayTrue DEF TruthfulAcks
<1>2. CASE UNCHANGED <<acklist, net, rmt_wnd>>
  BY <1>1, <1>2 DEF TruthfulAcks, Arrived
<1>3. ASSUME NEW n \in Number, InputPush(n) PROVE TruthfulAcks'
  <2>1. net' = net /\ rmt_wnd' = rmt_wnd
    BY <1>3 DEF InputPush, sndVars
  <2>2. CASE Diff(W(n), W(rcv_nxt + RcvWnd)) < 0
    <3>1. n < nxt' \/ n \in got'
      BY <1>3, <2>2, AckedHasArrived
    <3>2. acklist' = Append(acklist, n)
      BY <1>3, <2>2 DEF InputPush, AckPush
    <3>3. \A i \in DOMAIN acklist' : acklist'[i] < nxt' \/ acklist'[i] \in got'
      <4> SUFFICES ASSUME NEW i \in DOMAIN acklist'
                   PROVE  acklist'[i] < nxt' \/ acklist'[i] \in got'
        OBVIOUS
      <4>1. acklist \in Seq(Int) /\ n \in Int
        BY Near DEF Inv, Typed
      <4>2. acklist'[i] = n \/ (i \in DOMAIN acklist /\ acklist'[i] = acklist[i])
        BY <3>2, <4>1
      <4> QED BY <1>1, <3>1, <4>2
    <3> QED BY <1>1, <2>1, <3>3 DEF TruthfulAcks, Arrived
  <2>3. CASE ~ (Diff(W(n), W(rcv_nxt + RcvWnd)) < 0)
    BY <1>2, <1>3, <2>1, <2>3 DEF InputPush, ackVars
  <2> QED BY <2>2, <2>3
<1>4. CASE Recv
  BY <1>2, <1>4 DEF Recv, sndVars, ackVars
<1>5. CASE FlushAcks
  <2> DEFINE d == [una |-> nxt, wnd |-> RcvWnd - nrcv_que, sns |-> acklist]
  <2>1. acklist' = <<>> /\ net' \subseteq net \cup {d} /\ nxt' = nxt /\ got' = got /\ rmt_wnd' = rmt_wnd
    BY <1>5 DEF FlushAcks, rcvVars, sndVars
  <2>2. d.una <= nxt' /\ d.wnd \in 0..RcvWnd /\ \A n \in Range(d.sns) : n < nxt' \/ n \in got'
    <3>1. d.una = nxt /\ d.wnd = RcvWnd - nrcv_que /\ d.sns = acklist
      OBVIOUS
    <3>2. RcvWnd - nrcv_que \in 0..RcvWnd
      BY Sizes DEF Inv, Typed
    <3>3. nxt \in Nat
      BY Near DEF ListInv, Numbers
    <3> HIDE DEF d
    <3> QED BY <1>1, <2>1, <3>1, <3>2, <3>3 DEF Range
  <2> HIDE DEF d
  <2>3. \A e \in net' : /\ e.una <= nxt' /\ e.wnd \in 0..RcvWnd
                        /\ \A n \in Range(e.sns) : n < nxt' \/ n \in got'
    BY <1>1, <2>1, <2>2
  <2>4. DOMAIN acklist' = {}
    BY <2>1
  <2> QED BY <1>1, <2>1, <2>3, <2>4 DEF TruthfulAcks, Arrived
<1>6. ASSUME NEW d \in net, InputAcks(d) PROVE TruthfulAcks'
  <2>1. net' \subseteq net /\ rmt_wnd' = d.wnd /\ acklist' = acklist
    BY <1>6 DEF InputAcks, ackVars
  <2>2. rmt_wnd' \in 0..RcvWnd
    BY <1>1, <2>1
  <2> QED BY <1>1, <2>1, <2>2 DEF TruthfulAcks, Arrived
<1>7. ASSUME NEW due, Flush(due) PROVE TruthfulAcks'
  BY <1>2, <1>7 DEF Flush, ackVars
<1>8. CASE UNCHANGED vars
  BY <1>2, <1>8 DEF vars, sndVars, ackVars
<1> QED BY <1>3, <1>4, <1>5, <1>6, <1>7, <1>8 DEF Next

(* Nothing that waits to be sent back, or is on its way, speaks of a       *)
(* segment that has not arrived.                                           *)
THEOREM AcksAreTrue == Spec => []TruthfulAcks
<1>1. ListInv /\ Inv /\ TruthfulAcks /\ [Next]_vars => TruthfulAcks'
  BY NextTruthful
<1> QED BY InitTruthful, <1>1, ListsStand, Inductive, PTL DEF Spec

(* A flush of the sender stays within both windows, and numbers what it    *)
(* sends from sent on.                                                     *)
LEMMA FlushSends ==
  ASSUME ListInv, Inv, TruthfulAcks, NEW due, Flush(due)
  PROVE  \E m \in Nat :
           /\ sent' = sent + m
           /\ out' = out \cup (sent..(sent' - 1))
           /\ m > 0 => /\ sent' <= Min(out \cup {sent}) + Min({SndWnd, rmt_wnd})
                       /\ m \in 1..SndWnd
           /\ Min(out' \cup {sent'}) = Min(out \cup {sent})
<1> DEFINE u    == Min(out \cup {sent})
           room == Min({SndWnd, rmt_wnd})
           eff  == Min({SndWnd, rmt_wnd, cw.cwnd})
           left == Base + MaxSegs - sent
           S    == {i \in 0..left : i = left \/ Diff(W(snd_nxt + i), W(snd_una + eff)) >= 0}
           m    == Min(S)
<1>1. sent' = sent + m /\ out' = out \cup (sent..(sent + m - 1))
  BY DEF Flush
<1>2. /\ sent \in Nat /\ u \in Nat /\ u \in Base..Top /\ u <= sent
      /\ snd_nxt = W(sent) /\ snd_una = W(u) /\ sent \in Base..Top
  BY FirstKept DEF ListInv, Counters
<1>3. u = Min(out' \cup {sent'})
  <2>1. snd_buf \in Seq(Seg) /\ snd_nxt = W(sent) /\ out \subseteq Base..(sent - 1)
    BY DEF ListInv, Numbers, Counters, Inv, Typed
  <2>2. PICK s : Stands(Sns(snd_buf), s, out)
    BY DEF ListInv, SndStands
  <2> QED BY <1>2, <2>1, <2>2, FlushStands
<1>4. /\ SndWnd \in Nat /\ RcvWnd \in Nat /\ rmt_wnd \in 0..RcvWnd /\ rmt_wnd \in Nat
      /\ cw.cwnd \in Nat
  BY Sizes DEF TruthfulAcks, Inv, Window
<1>5. /\ eff \in Nat /\ eff <= SndWnd /\ eff <= rmt_wnd
      /\ room \in Nat /\ room <= SndWnd /\ (room = SndWnd \/ room = rmt_wnd)
  <2>1. {SndWnd, rmt_wnd, cw.cwnd} \in SUBSET Nat /\ {SndWnd, rmt_wnd} \in SUBSET Nat
    BY <1>4
  <2> QED BY <2>1, MinNat
<1> HIDE DEF eff, room, u
<1>6. left \in Nat /\ left = Top - sent
  BY <1>2, Sizes, Near DEF Top
<1> HIDE DEF left
<1>7. m \in 0..left /\ \A i \in S : m <= i
  <2>1. S \in SUBSET Nat /\ left \in S /\ S \subseteq 0..left
    BY <1>6
  <2> HIDE DEF S
  <2> QED BY <2>1, MinNat
<1> HIDE DEF m
<1>8. m \in Nat
  BY <1>6, <1>7
<1>9. ASSUME m > 0 PROVE sent + m <= u + eff
  <2>1. m - 1 \in 0..left /\ m - 1 # left
    BY <1>6, <1>7, <1>8, <1>9
  <2>2. ~ (Diff(W(snd_nxt + (m - 1)), W(snd_una + eff)) >= 0)
    <3>1. m - 1 \notin S
      <4> HIDE DEF S
      <4> QED BY <1>7, <1>8, <2>1
    <3> QED BY <2>1, <3>1
  <2>3. W(snd_nxt + (m - 1)) = W(sent + (m - 1)) /\ W(snd_una + eff) = W(u + eff)
    BY <1>2, <1>5, <1>8, WordOfSum
  <2> DEFINE a == sent + (m - 1)
             b == u + eff
  <2>4. a \in Int /\ b \in Int /\ a \in Base..Top /\ b \in Base..(Top + RcvWnd)
    <3>1. m - 1 < Top - sent /\ m - 1 >= 0
      BY <1>6, <1>8, <1>9, <2>1
    <3>2. Top \in Nat /\ Base \in Nat
      BY Near
    <3> QED BY <1>2, <1>4, <1>5, <1>8, <3>1, <3>2
  <2>5. a - b < Half /\ b - a < Half /\ Half \in Nat
    <3>1. a \in (Base - Old)..(Top + RcvWnd) /\ b \in (Base - Old)..(Top + RcvWnd)
      <4>1. Base \in Nat /\ Old \in Nat /\ Top \in Nat /\ RcvWnd \in Nat
        BY Near, Sizes
      <4> HIDE DEF a, b
      <4> QED BY <2>4, <4>1
    <3> HIDE DEF a, b
    <3> QED BY <3>1, Near, HalfNat
  <2>6. ~ (Diff(W(a), W(b)) >= 0)
    BY <2>2, <2>3
  <2> HIDE DEF a, b
  <2>7. Diff(W(a), W(b)) = a - b
    BY <2>4, <2>5, DiffOf
  <2>8. a < b
    BY <2>4, <2>6, <2>7
  <2> QED BY <1>2, <1>5, <1>8, <2>8 DEF a, b
<1>10. ASSUME m > 0 PROVE sent' <= u + room /\ m \in 1..SndWnd
  BY <1>1, <1>2, <1>4, <1>5, <1>8, <1>9, <1>10
<1>11. out' = out \cup (sent..(sent' - 1))
  <2>1. sent + m - 1 = sent' - 1
    BY <1>1, <1>2, <1>8
  <2> QED BY <1>1, <2>1
<1>12. /\ sent' = sent + m /\ out' = out \cup (sent..(sent' - 1))
       /\ m > 0 => sent' <= u + room /\ m \in 1..SndWnd
       /\ Min(out' \cup {sent'}) = u
  BY <1>1, <1>3, <1>10, <1>11
<1> QED BY <1>8, <1>12 DEF u, room

(* Once the words are read, each step is one of the sliding window.        *)
LEMMA PushIsReceive ==
  ASSUME ListInv, Inv, Reads, Reads', NEW n \in Number, InputPush(n)
  PROVE  [Ideal!Next]_(Ideal!vars)
<1>1. OutRead' = OutRead /\ UnaRead' = UnaRead /\ UNCHANGED <<sent, out, rmt_wnd>>
  BY DEF Reads, InputPush, sndVars
<1>2. CASE Diff(W(n), W(rcv_nxt + RcvWnd)) < 0 /\ Diff(W(n), rcv_nxt) >= 0
  <2>1. PICK m \in 0..RcvWnd :
           /\ nxt' = nxt + m
           /\ nxt..(nxt' - 1) \subseteq got \cup {n}
           /\ nrcv_que + m <= RcvWnd
           /\ nxt' \in got \cup {n} => nrcv_que + m = RcvWnd
           /\ got' = (got \cup {n}) \ (nxt..(nxt' - 1))
           /\ nrcv_que' = nrcv_que + m
    BY <1>2, PushDelivers
  <2>2. n \in nxt..(nxt + RcvWnd - 1) /\ n < sent /\ nxt \in Nat
    BY <1>2, PushDelivers
  <2>3. Ideal!Receive(n, m)
    BY <1>1, <2>1, <2>2 DEF Reads, Ideal!Receive, Ideal!Move, Ideal!sndVars
  <2>4. n \in nxt..(sent - 1)
    BY <2>2, Sizes DEF ListInv, Numbers
  <2> QED BY <2>3, <2>4 DEF Ideal!Next
<1>3. CASE ~ (Diff(W(n), W(rcv_nxt + RcvWnd)) < 0 /\ Diff(W(n), rcv_nxt) >= 0)
  <2>1. UNCHANGED rcvVars
    BY <1>3 DEF InputPush
  <2> QED BY <1>1, <2>1 DEF Reads, rcvVars, Ideal!vars, Ideal!sndVars, Ideal!rcvVars
<1> QED BY <1>2, <1>3

LEMMA RecvIsRead ==
  ASSUME ListInv, Inv, Reads, Reads', Recv
  PROVE  Ideal!Next
<1>1. OutRead' = OutRead /\ UnaRead' = UnaRead /\ UNCHANGED <<sent, out, rmt_wnd>>
  BY DEF Reads, Recv, sndVars
<1>2. PICK m \in 0..RcvWnd :
         /\ nxt' = nxt + m
         /\ nxt..(nxt' - 1) \subseteq got
         /\ (nrcv_que - 1) + m <= RcvWnd
         /\ nxt' \in got => (nrcv_que - 1) + m = RcvWnd
         /\ got' = got \ (nxt..(nxt' - 1))
         /\ nrcv_que' = (nrcv_que - 1) + m
  BY RecvDelivers
<1>3. 1 <= nrcv_que /\ 1 \in 1..RcvWnd
  BY Sizes DEF Inv, Typed, Recv
<1>4. Ideal!Read(1, m)
  BY <1>1, <1>2, <1>3 DEF Reads, Ideal!Read, Ideal!Move, Ideal!sndVars
<1> QED BY <1>3, <1>4 DEF Ideal!Next

LEMMA AcksAreLearnt ==
  ASSUME ListInv, Inv, TruthfulAcks, Reads, Reads', NEW d \in net, InputAcks(d)
  PROVE  Ideal!Next
<1>1. /\ rmt_wnd' = d.wnd /\ sent' = sent /\ nxt' = nxt /\ got' = got /\ nrcv_que' = nrcv_que
      /\ out' = {k \in out : k >= d.una /\ k \notin Range(d.sns)}
  BY DEF InputAcks, rcvVars
<1>2. d.una <= nxt /\ d.wnd \in 0..RcvWnd /\ \A k \in Range(d.sns) : Arrived(k)
  BY DEF TruthfulAcks
<1>3. \A k \in out \ out' : Arrived(k)
  <2> SUFFICES ASSUME NEW k \in out \ out' PROVE Arrived(k)
    OBVIOUS
  <2>1. k \in Nat /\ d.una \in Nat /\ nxt \in Nat
    BY FirstKept, Near DEF ListInv, Numbers
  <2>2. k < d.una \/ k \in Range(d.sns)
    BY <1>1, <2>1
  <2> QED BY <1>2, <2>1, <2>2 DEF Arrived
<1>4. UnaRead' = Min(OutRead' \cup {sent}) /\ Min(OutRead' \cup {sent}) = Ideal!Min(OutRead' \cup {sent})
  BY <1>1 DEF Reads, Ideal!Min, Min
<1>5. OutRead = out /\ OutRead' = out' /\ GotRead = got /\ GotRead' = got'
  BY DEF Reads
<1>6. \A k \in OutRead \ OutRead' : Ideal!Arrived(k)
  BY <1>3, <1>5 DEF Arrived, Ideal!Arrived
<1>7. Ideal!Learn
  BY <1>1, <1>2, <1>4, <1>5, <1>6 DEF Ideal!Learn, Ideal!rcvVars
<1> QED BY <1>7 DEF Ideal!Next

LEMMA FlushIsSend ==
  ASSUME ListInv, Inv, TruthfulAcks, Reads, Reads', NEW due, Flush(due)
  PROVE  [Ideal!Next]_(Ideal!vars)
<1>1. PICK m \in Nat :
         /\ sent' = sent + m
         /\ out' = out \cup (sent..(sent' - 1))
         /\ m > 0 => /\ sent' <= Min(out \cup {sent}) + Min({SndWnd, rmt_wnd})
                     /\ m \in 1..SndWnd
         /\ Min(out' \cup {sent'}) = Min(out \cup {sent})
  BY FlushSends
<1>2. UNCHANGED <<rmt_wnd, nxt, got, nrcv_que>>
  BY DEF Flush, rcvVars
<1>3. UnaRead' = UnaRead /\ GotRead' = GotRead /\ OutRead = out /\ OutRead' = out'
      /\ UnaRead = Min(out \cup {sent})
  BY <1>1, <1>2 DEF Reads
<1>4. CASE m > 0
  <2>1. sent' <= UnaRead + Ideal!Min({SndWnd, rmt_wnd})
    <3>1. Ideal!Min({SndWnd, rmt_wnd}) = Min({SndWnd, rmt_wnd})
      BY DEF Ideal!Min, Min
    <3> QED BY <1>1, <1>3, <1>4, <3>1
  <2>2. Ideal!Send(m)
    BY <1>1, <1>2, <1>3, <2>1 DEF Ideal!Send, Ideal!rcvVars
  <2> QED BY <1>1, <1>4, <2>2 DEF Ideal!Next
<1>5. CASE m = 0
  <2>1. sent \in Nat
    BY FirstKept
  <2>2. sent' = sent /\ sent..(sent' - 1) = {}
    BY <1>1, <1>5, <2>1
  <2>3. out' = out
    BY <1>1, <2>2
  <2> QED BY <1>2, <1>3, <2>2, <2>3 DEF Ideal!vars, Ideal!sndVars, Ideal!rcvVars
<1> QED BY <1>1, <1>4, <1>5

LEMMA NextInWindow ==
  ASSUME ListInv, Inv, TruthfulAcks, Reads, Reads', [Next]_vars
  PROVE  [Ideal!Next]_(Ideal!vars)
<1>1. ASSUME UNCHANGED <<sent, out, nxt, got, nrcv_que, rmt_wnd>>
      PROVE  UNCHANGED Ideal!vars
  <2>1. OutRead' = OutRead /\ GotRead' = GotRead /\ UnaRead' = UnaRead
    BY <1>1 DEF Reads
  <2> QED BY <1>1, <2>1 DEF Ideal!vars, Ideal!sndVars, Ideal!rcvVars
<1>2. CASE FlushAcks
  BY <1>1, <1>2 DEF FlushAcks, sndVars, rcvVars
<1>3. CASE UNCHANGED vars
  BY <1>1, <1>3 DEF vars, sndVars, rcvVars
<1> QED BY <1>2, <1>3, PushIsReceive, RecvIsRead, AcksAreLearnt, FlushIsSend DEF Next

LEMMA InitInWindow == Init => Ideal!Init
<1> SUFFICES ASSUME Init PROVE Ideal!Init
  OBVIOUS
<1>1. OutRead = {} /\ GotRead = {}
  BY DEF Init, OutRead, GotRead
<1>2. UnaRead = Base
  <2>1. W(Base) \in Int /\ Base \in Nat
    BY Sizes
  <2>2. Diff(snd_una, snd_nxt) = 0
    BY <2>1, Sizes DEF Init
  <2> QED BY <2>1, <2>2 DEF Init, UnaRead
<1> QED BY <1>1, <1>2 DEF Init, Ideal!Init

(* The lists, read as the integers their words stand for, implement the    *)
(* sliding window over integers and sets: for every width of a sequence    *)
(* number that is wide enough, every window and number of segments, no     *)
(* search, wrapped comparison or late datagram makes a difference.         *)
THEOREM ListsRefineWindow == Spec => ImplementsWindow
<1>1. ListInv /\ Inv /\ TruthfulAcks /\ Reads /\ Reads' /\ [Next]_vars
      => [Ideal!Next]_(Ideal!vars)
  BY NextInWindow
<1>2. ListInv => Reads
  BY Readings
<1> QED BY <1>1, <1>2, InitInWindow, ListsStand, AcksAreTrue, Inductive, PTL
        DEF Spec, ImplementsWindow, Ideal!Spec
=============================================================================
