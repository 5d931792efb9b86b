---------------------------- MODULE KcpClockProofs ---------------------------
(***************************************************************************)
(* Proofs about KcpClock: the update coroutine flushes regularly across    *)
(* every wrap of the clock, and no timer runs out unnoticed or is taken to *)
(* have run out before it did, for every interval, timeout, width of a     *)
(* time and number of segments.                                            *)
(***************************************************************************)
EXTENDS KcpClock, NaturalsInduction, WellFoundedInduction, TLAPS

(* ts_flush lies ahead, at most an interval: the next update is too early. *)
Ahead == ts_flush > now /\ ts_flush <= now + Interval

(* ts_flush has come and the update coroutine has not been there yet, with *)
(* and without a wrap of the clock since.                                  *)
Behind == ts_flush <= now /\ now - ts_flush + sleep <= Round
Across ==
    /\ now + sleep < Round
    /\ ts_flush >= ClockMod - Round /\ ts_flush <= ClockMod + Interval

FlushNear == sleep <= Round /\ (Ahead \/ Behind \/ Across)

(* In how many ticks the coroutine will have flushed, at the latest.       *)
Wait == IF Ahead THEN ts_flush - now + Round ELSE sleep

QuietBound == quiet + Wait <= Interval + Round

(* kcp->current is as old as the coroutine's sleep makes it.               *)
LagBound ==
    IF current <= now THEN now - current + sleep <= Round
                      ELSE now + ClockMod - current + sleep <= Round

(* What is known of a segment in flight the clock has not wrapped under.   *)
Left(g) == g.resendts - now

TimerRight(g) ==
    /\ current <= now
    /\ \/ Left(g) > 0 /\ g.age + Left(g) <= Timer(g)
       \/ Left(g) <= 0 /\ g.age + Wait <= Timer(g) + Interval + Round
    /\ g.age = MaxAge \/ g.age + Left(g) >= Timer(g) - Round

SegRight(g) ==
    /\ g.rto = g.xmit * Rto
    /\ g.xmit > 0 => g.resendts <= ClockMod + Longest
    /\ g.xmit > 0 /\ ~g.wrapped => TimerRight(g)

SegsRight == \A s \in 1..Segs : SegRight(seg[s])

(* The inductive invariant.                                                *)
Inv == TypeOK /\ FlushNear /\ QuietBound /\ LagBound /\ SegsRight

-----------------------------------------------------------------------------
(***************************************************************************)
(* Arithmetic.                                                             *)
(***************************************************************************)
(* A non-empty set of integers above 0 has a least element.                *)
LEMMA LeastOf ==
  ASSUME NEW S, S \subseteq Nat, S # {}
  PROVE  Least(S) \in S /\ \A y \in S : Least(S) <= y
<1>1. IsWellFoundedOn(OpToRel(<, Nat), Nat)
  BY NatLessThanWellFounded
<1>2. PICK x \in S : \A y \in S : ~ (<<y, x>> \in OpToRel(<, Nat))
  BY <1>1, WFMin
<1>3. \A y \in S : ~ (y < x)
  BY <1>2 DEF OpToRel
<1>4. \A y \in S : x <= y
  BY <1>3
<1> QED BY <1>4 DEF Least

(* The constants, as the proofs use them.                                  *)
LEMMA Sizes ==
  /\ ClockMod \in Nat \ {0} /\ Word = 2 * ClockMod
  /\ Interval \in Nat \ {0} /\ Slack \in Nat /\ Rto \in Nat \ {0}
  /\ Nap \in Nat \ {0} /\ Late \in Nat /\ Segs \in Nat
  /\ MaxXmit \in Nat \ {0} /\ MaxAge \in Nat
  /\ RtoMin \in 0..Rto
  /\ Round \in Nat /\ Interval + Late <= Round /\ Nap + Late <= Round
  /\ Round <= Interval + Nap + Late
  /\ Interval <= Slack /\ Slack + 2 * Round < ClockMod
  /\ Longest \in Nat /\ Longest + Round <= ClockMod
  /\ Longest + 2 * Round < MaxAge
<1>1. ClockMod \in Nat /\ Word = 2 * ClockMod
  BY ClockAssumption DEF ClockMod
<1>2. RtoMin \in 0..Rto
  BY ClockAssumption DEF RtoMin
<1>3. /\ Round \in Nat /\ Interval + Late <= Round /\ Nap + Late <= Round
      /\ Round <= Interval + Nap + Late
  BY ClockAssumption DEF Round
<1>4. MaxXmit * Rto \in Nat
  BY ClockAssumption
<1>5. Longest \in Nat
  BY <1>2, <1>4, ClockAssumption DEF Longest
<1> QED BY <1>1, <1>2, <1>3, <1>5, ClockAssumption

(* A product in Nat grows with its first factor.                           *)
LEMMA ProductGrows ==
  ASSUME NEW a \in Nat, NEW b \in Nat, a <= b, NEW c \in Nat
  PROVE  a * c \in Nat /\ a * c <= b * c
<1>1. PICK d \in Nat : b = a + d
  <2>1. b - a \in Nat /\ b = a + (b - a)
    OBVIOUS
  <2> QED BY <2>1
<1>2. a * c \in Nat /\ d * c \in Nat
  OBVIOUS
<1>3. b * c = a * c + d * c
  BY <1>1
<1> QED BY <1>2, <1>3

(* Division leaves one remainder.                                          *)
LEMMA Remainder ==
  ASSUME NEW M \in Nat \ {0}, NEW x \in Int, NEW r \in 0..(M - 1),
         x = r \/ x = r + M \/ x = r - M
  PROVE  x % M = r
<1> DEFINE p == x \div M
           s == x % M
<1>1. p \in Int /\ s \in 0..(M - 1) /\ x = M * p + s
  OBVIOUS
<1>2. \E q \in Int : x = M * q + r
  <2>1. CASE x = r
    <3>1. x = M * 0 + r
      BY <2>1
    <3> QED BY <3>1
  <2>2. CASE x = r + M
    <3>1. x = M * 1 + r
      BY <2>2
    <3> QED BY <3>1
  <2>3. CASE x = r - M
    <3>1. x = M * (0 - 1) + r
      BY <2>3
    <3> QED BY <3>1
  <2> QED BY <2>1, <2>2, <2>3
<1>3. PICK q \in Int : x = M * q + r
  BY <1>2
<1> HIDE DEF p, s
<1>4. M * (q - p) = s - r
  <2>1. M * q + r = M * p + s
    BY <1>1, <1>3
  <2>2. M * (q - p) = M * q - M * p
    BY <1>1, <1>3
  <2>3. M * q \in Int /\ M * p \in Int
    BY <1>1, <1>3
  <2> QED BY <1>1, <2>1, <2>2, <2>3
<1>5. q - p = 0
  <2>1. CASE q - p >= 1
    <3>1. M * (q - p) >= M * 1
      BY <2>1, <1>1
    <3> QED BY <3>1, <1>4, <1>1
  <2>2. CASE q - p <= -1
    <3>1. M * (p - q) >= M * 1
      BY <2>2, <1>1
    <3>2. M * (p - q) = -(M * (q - p))
      BY <1>1
    <3>3. M * (q - p) \in Int
      BY <1>1
    <3> QED BY <3>1, <3>2, <3>3, <1>4, <1>1
  <2> QED BY <2>1, <2>2, <1>1
<1>6. r = s
  BY <1>4, <1>5, <1>1
<1> QED BY <1>6 DEF s

(* A difference of times with a sign, when the times are at most a wrap of *)
(* the clock and a half apart.                                             *)
LEMMA SignedIs ==
  ASSUME NEW x \in Int
  PROVE  /\ -ClockMod <= x /\ x < ClockMod => Signed(x) = x
         /\ ClockMod <= x /\ x < 3 * ClockMod => Signed(x) = x - Word
         /\ -3 * ClockMod <= x /\ x < -ClockMod => Signed(x) = x + Word
<1>1. ClockMod \in Nat \ {0} /\ Word = 2 * ClockMod /\ Word \in Nat \ {0}
  BY Sizes
<1>2. ASSUME -ClockMod <= x, x < ClockMod
      PROVE  Signed(x) = x
  <2>1. x + ClockMod \in 0..(Word - 1)
    BY <1>1, <1>2
  <2>2. ((x + ClockMod) % Word) = x + ClockMod
    BY <1>1, <2>1, Remainder
  <2> QED BY <1>1, <2>2 DEF Signed
<1>3. ASSUME ClockMod <= x, x < 3 * ClockMod
      PROVE  Signed(x) = x - Word
  <2>1. x - ClockMod \in 0..(Word - 1) /\ x + ClockMod = (x - ClockMod) + Word
    BY <1>1, <1>3
  <2>2. ((x + ClockMod) % Word) = x - ClockMod
    BY <1>1, <2>1, Remainder
  <2> QED BY <1>1, <2>2 DEF Signed
<1>4. ASSUME -3 * ClockMod <= x, x < -ClockMod
      PROVE  Signed(x) = x + Word
  <2>1. x + 3 * ClockMod \in 0..(Word - 1) /\ x + ClockMod = (x + 3 * ClockMod) - Word
    BY <1>1, <1>4
  <2>2. ((x + ClockMod) % Word) = x + 3 * ClockMod
    BY <1>1, <2>1, Remainder
  <2> QED BY <1>1, <2>2 DEF Signed
<1> QED BY <1>2, <1>3, <1>4

-----------------------------------------------------------------------------
(***************************************************************************)
(* What an update makes of ts_flush.                                       *)
(***************************************************************************)
(* The segments of a control block.                                        *)
SegRec == [xmit : 0..MaxXmit, rto : 0..(MaxXmit * Rto),
           resendts : 0..(Word - 1), age : 0..MaxAge, wrapped : BOOLEAN]

(* ikcp_update flushes exactly when ts_flush is not ahead.                 *)
LEMMA FlushesUnlessAhead ==
  ASSUME TypeOK, FlushNear
  PROVE  /\ Diff(now, FlushTime(now)) >= 0 <=> ~Ahead
         /\ ~Ahead => FlushTime(now) \in 0..now
         /\ Ahead => FlushTime(now) = ts_flush
<1>0. /\ ClockMod \in Nat \ {0} /\ Word = 2 * ClockMod /\ Slack \in Nat /\ Round \in Nat
      /\ Interval \in Nat /\ Interval <= Slack /\ Interval <= Round /\ Late \in Nat
      /\ Slack + 2 * Round < ClockMod
  BY Sizes
<1>1. now \in 0..(ClockMod - 1) /\ ts_flush \in 0..(Word - 1) /\ sleep \in Nat
  BY <1>0, Sizes DEF TypeOK
<1>2. Diff(now, now) = 0
  BY <1>0, <1>1, SignedIs DEF Diff
<1>3. CASE Ahead
  <2>1. Diff(now, ts_flush) = now - ts_flush
    <3>1. now - ts_flush \in Int /\ -ClockMod <= now - ts_flush /\ now - ts_flush < 0
      BY <1>0, <1>1, <1>3 DEF Ahead
    <3> QED BY <1>0, <3>1, SignedIs DEF Diff
  <2>2. now - ts_flush < 0 /\ now - ts_flush >= -Slack
    BY <1>0, <1>1, <1>3 DEF Ahead
  <2>3. FlushTime(now) = ts_flush
    BY <1>0, <1>1, <2>1, <2>2 DEF FlushTime
  <2> QED BY <1>0, <1>1, <2>1, <2>2, <2>3, <1>3
<1>4. CASE Behind
  <2>1. Diff(now, ts_flush) = now - ts_flush /\ now - ts_flush >= 0
    <3>1. now - ts_flush \in Int /\ 0 <= now - ts_flush /\ now - ts_flush < ClockMod
      BY <1>0, <1>1, <1>4 DEF Behind
    <3> QED BY <1>0, <3>1, SignedIs DEF Diff
  <2>2. FlushTime(now) \in {now, ts_flush}
    BY DEF FlushTime
  <2>3. ts_flush \in 0..now /\ ~Ahead
    BY <1>0, <1>1, <1>4 DEF Behind, Ahead
  <2> QED BY <1>0, <1>1, <1>2, <2>1, <2>2, <2>3
<1>5. CASE Across
  <2>1. /\ now - ts_flush \in Int /\ -3 * ClockMod <= now - ts_flush
        /\ now - ts_flush < -Slack /\ now - ts_flush < -Interval
        /\ (now - ts_flush) + Word >= Slack
    BY <1>0, <1>1, <1>5 DEF Across
  <2>2. Diff(now, ts_flush) < -Slack \/ Diff(now, ts_flush) >= Slack
    <3>1. CASE -ClockMod <= now - ts_flush
      BY <1>0, <2>1, <3>1, SignedIs DEF Diff
    <3>2. CASE now - ts_flush < -ClockMod
      BY <1>0, <2>1, <3>2, SignedIs DEF Diff
    <3> QED BY <1>0, <2>1, <3>1, <3>2
  <2>3. FlushTime(now) = now
    BY <2>2 DEF FlushTime
  <2>4. ~Ahead
    BY <1>0, <1>1, <2>1 DEF Ahead
  <2> QED BY <1>0, <1>1, <1>2, <2>3, <2>4
<1> QED BY <1>3, <1>4, <1>5 DEF FlushNear

(* After an update ts_flush is ahead: unchanged if it was, an interval on  *)
(* if it was not.                                                          *)
LEMMA UpdateAhead ==
  ASSUME TypeOK, FlushNear, Update
  PROVE  /\ current' = now
         /\ ts_flush' \in Nat /\ now < ts_flush' /\ ts_flush' <= now + Interval
         /\ Ahead => UNCHANGED <<ts_flush, seg, quiet>>
         /\ ~Ahead => Flush(seg, now)
<1>0. /\ ClockMod \in Nat \ {0} /\ Word = 2 * ClockMod /\ Slack \in Nat
      /\ Interval \in Nat \ {0} /\ Interval < ClockMod
  BY Sizes
<1>1. now \in 0..(ClockMod - 1) /\ ts_flush \in 0..(Word - 1)
  BY <1>0 DEF TypeOK
<1>2. current' = now
  BY DEF Update
<1>3. CASE Ahead
  <2>1. UNCHANGED <<ts_flush, seg, quiet>>
    BY <1>3, FlushesUnlessAhead DEF Update
  <2> QED BY <1>0, <1>1, <1>2, <1>3, <2>1 DEF Ahead
<1>4. CASE ~Ahead
  <2> DEFINE f    == FlushTime(now)
             next == ((f + Interval) % Word)
  <2>1. f \in 0..now
    BY <1>4, FlushesUnlessAhead
  <2>2. /\ ts_flush' = IF Diff(now, next) >= 0 THEN ((now + Interval) % Word) ELSE next
        /\ Flush(seg, now)
    BY <1>4, FlushesUnlessAhead DEF Update
  <2> HIDE DEF f
  <2>3. next = f + Interval
    <3>1. f + Interval \in 0..(Word - 1)
      BY <1>0, <1>1, <2>1
    <3> QED BY <1>0, <3>1, Remainder
  <2>4. ((now + Interval) % Word) = now + Interval
    <3>1. now + Interval \in 0..(Word - 1)
      BY <1>0, <1>1
    <3> QED BY <1>0, <3>1, Remainder
  <2> HIDE DEF next
  <2>5. Diff(now, next) = now - next
    <3>1. now - next \in Int /\ -ClockMod <= now - next /\ now - next < ClockMod
      BY <1>0, <1>1, <2>1, <2>3
    <3> QED BY <3>1, SignedIs DEF Diff
  <2>6. CASE now >= next
    <3>1. ts_flush' = now + Interval
      BY <1>0, <1>1, <2>1, <2>2, <2>3, <2>4, <2>5, <2>6
    <3> QED BY <1>0, <1>1, <1>2, <1>4, <2>2, <3>1
  <2>7. CASE now < next
    <3>1. ts_flush' = next
      BY <1>0, <1>1, <2>1, <2>2, <2>3, <2>5, <2>7
    <3> QED BY <1>0, <1>1, <1>2, <1>4, <2>1, <2>2, <2>3, <2>7, <3>1
  <2> QED BY <1>0, <1>1, <2>1, <2>3, <2>6, <2>7
<1> QED BY <1>3, <1>4

-----------------------------------------------------------------------------
(***************************************************************************)
(* What a flush makes of a segment.                                        *)
(***************************************************************************)
(* A timer is reckoned without a wrap of the word and is the longest at    *)
(* most.                                                                   *)
LEMMA TimerFits ==
  ASSUME NEW x \in 1..MaxXmit, NEW t \in 0..(ClockMod - 1), NEW e \in 0..RtoMin
  PROVE  /\ x * Rto \in 0..(MaxXmit * Rto)
         /\ x * Rto + e <= Longest
         /\ t + x * Rto + e \in 0..(Word - 1)
         /\ ((t + x * Rto + e) % Word) = t + x * Rto + e
<1>0. /\ ClockMod \in Nat \ {0} /\ Word = 2 * ClockMod /\ Word \in Nat \ {0} /\ Rto \in Nat
      /\ MaxXmit \in Nat /\ RtoMin \in Nat /\ Longest \in Nat /\ Longest <= ClockMod
  BY Sizes
<1>1. x * Rto \in Nat /\ x * Rto <= MaxXmit * Rto /\ MaxXmit * Rto \in Nat
  BY <1>0, ProductGrows
<1>2. x * Rto + e <= Longest
  BY <1>0, <1>1 DEF Longest
<1>3. t + x * Rto + e \in 0..(Word - 1)
  BY <1>0, <1>1, <1>2
<1>4. ((t + x * Rto + e) % Word) = t + x * Rto + e
  BY <1>0, <1>3, Remainder
<1> QED BY <1>1, <1>2, <1>3, <1>4

(* A segment sent again, and a new one.                                    *)
LEMMA ResentIs ==
  ASSUME NEW g \in SegRec, g.xmit > 0, g.xmit < MaxXmit, g.rto = g.xmit * Rto,
         NEW t \in 0..(ClockMod - 1), NEW h, h = Resent(g, t)
  PROVE  /\ h \in SegRec /\ h.xmit = g.xmit + 1 /\ h.rto = h.xmit * Rto
         /\ h.resendts = t + Timer(h) /\ h.age = 0 /\ h.wrapped = (now < t)
<1>0. Rto \in Nat /\ MaxXmit \in Nat /\ MaxAge \in Nat /\ RtoMin \in Nat
  BY Sizes
<1>1. g.xmit \in 1..(MaxXmit - 1) /\ g.xmit + 1 \in 1..MaxXmit
  BY <1>0 DEF SegRec
<1>2. (g.xmit + 1) * Rto = g.rto + Rto /\ g.rto \in Nat
  BY <1>0, <1>1
<1>3. /\ g.rto + Rto \in 0..(MaxXmit * Rto)
      /\ t + g.rto + Rto + 0 \in 0..(Word - 1)
      /\ ((t + g.rto + Rto + 0) % Word) = t + g.rto + Rto + 0
  <2>1. /\ (g.xmit + 1) * Rto \in 0..(MaxXmit * Rto)
        /\ t + (g.xmit + 1) * Rto + 0 \in 0..(Word - 1)
        /\ ((t + (g.xmit + 1) * Rto + 0) % Word) = t + (g.xmit + 1) * Rto + 0
    <3>1. 0 \in 0..RtoMin
      BY <1>0
    <3> QED BY <1>1, <3>1, TimerFits
  <2>2. t + (g.xmit + 1) * Rto + 0 = t + g.rto + Rto + 0
    BY <1>0, <1>2
  <2> QED BY <1>2, <2>1, <2>2
<1>4. t + g.rto + Rto + 0 = t + g.rto + Rto
  BY <1>0, <1>2
<1>5. h = [xmit |-> g.xmit + 1, rto |-> g.rto + Rto, resendts |-> t + g.rto + Rto,
           age |-> 0, wrapped |-> now < t]
  BY <1>3, <1>4 DEF Resent
<1>6. Timer(h) = g.rto + Rto
  BY <1>0, <1>1, <1>2, <1>5 DEF Timer
<1>7. (now < t) \in BOOLEAN
  OBVIOUS
<1>8. h \in SegRec
  BY <1>0, <1>1, <1>3, <1>4, <1>5, <1>7 DEF SegRec
<1> QED BY <1>0, <1>1, <1>2, <1>5, <1>6, <1>8

LEMMA NewSegIs ==
  ASSUME NEW t \in 0..(ClockMod - 1), NEW h, h = NewSeg(t)
  PROVE  /\ h \in SegRec /\ h.xmit = 1 /\ h.rto = h.xmit * Rto
         /\ h.resendts = t + Timer(h) /\ h.age = 0 /\ h.wrapped = (now < t)
         /\ ~Due(h, t)
<1>0. /\ Rto \in Nat \ {0} /\ MaxXmit \in Nat \ {0} /\ MaxAge \in Nat /\ RtoMin \in Nat
      /\ Longest \in Nat /\ Longest <= ClockMod /\ ClockMod \in Nat
  BY Sizes
<1>1. /\ 1 * Rto \in 0..(MaxXmit * Rto)
      /\ 1 * Rto + RtoMin <= Longest
      /\ t + 1 * Rto + RtoMin \in 0..(Word - 1)
      /\ ((t + 1 * Rto + RtoMin) % Word) = t + 1 * Rto + RtoMin
  <2>1. 1 \in 1..MaxXmit /\ RtoMin \in 0..RtoMin
    BY <1>0
  <2> QED BY <2>1, TimerFits
<1>2. 1 * Rto = Rto
  BY <1>0
<1>3. h = [xmit |-> 1, rto |-> Rto, resendts |-> t + Rto + RtoMin, age |-> 0,
           wrapped |-> now < t]
  BY <1>1, <1>2 DEF NewSeg
<1>4. Timer(h) = Rto + RtoMin
  BY <1>3 DEF Timer
<1>5. (now < t) \in BOOLEAN
  OBVIOUS
<1>6. h \in SegRec
  BY <1>0, <1>1, <1>2, <1>3, <1>5 DEF SegRec
<1>7. ~Due(h, t)
  <2>1. t - h.resendts = -(Rto + RtoMin)
    BY <1>0, <1>3
  <2>2. /\ t - h.resendts \in Int /\ -ClockMod <= t - h.resendts
        /\ t - h.resendts < 0
    BY <1>0, <1>1, <1>2, <2>1
  <2>3. Diff(t, h.resendts) = t - h.resendts
    BY <1>0, <2>2, SignedIs DEF Diff
  <2> QED BY <2>2, <2>3 DEF Due
<1> QED BY <1>0, <1>2, <1>3, <1>4, <1>6, <1>7

(* What is known of a segment holds of one that was just sent.             *)
LEMMA SentRight ==
  ASSUME NEW t \in 0..(ClockMod - 1), current' = t, now \in 0..(ClockMod - 1), now' = now,
         LagBound', sleep' \in Nat, Wait' \in Int, Wait' <= Interval + Round,
         NEW h \in SegRec, h.xmit > 0, h.rto = h.xmit * Rto,
         h.resendts = t + Timer(h), h.age = 0, h.wrapped = (now < t)
  PROVE  SegRight(h)'
<1>0. /\ ClockMod \in Nat /\ Rto \in Nat /\ RtoMin \in Nat /\ Round \in Nat /\ Interval \in Nat
      /\ MaxXmit \in Nat /\ Longest \in Nat /\ MaxAge \in Nat
  BY Sizes
<1>1. h.xmit \in 1..MaxXmit /\ h.xmit * Rto \in Nat
  BY <1>0 DEF SegRec
<1>2. Timer(h) \in Nat /\ Timer(h) <= Longest
  <2>1. h.xmit * Rto + 0 <= Longest /\ h.xmit * Rto + RtoMin <= Longest
    <3>1. 0 \in 0..RtoMin /\ RtoMin \in 0..RtoMin
      BY <1>0
    <3> QED BY <1>1, <3>1, TimerFits
  <2> QED BY <1>0, <1>1, <2>1 DEF Timer
<1>3. h.resendts <= ClockMod + Longest
  BY <1>0, <1>2
<1>4. ASSUME ~h.wrapped PROVE TimerRight(h)'
  <2>1. t <= now
    <3>1. ~ (now < t)
      BY <1>4
    <3> QED BY <1>0, <3>1
  <2>2. now - t + sleep' <= Round
    BY <2>1 DEF LagBound
  <2>3. h.resendts - now = Timer(h) - (now - t) /\ now - t \in 0..Round
    <3>1. now - t \in 0..Round
      <4>1. /\ now \in Int /\ t \in Int /\ now - t >= 0
        BY <1>0, <2>1
      <4>2. now - t <= Round
        <5>1. sleep' \in Nat /\ now - t \in Int
          BY <4>1
        <5>2. \A b \in Nat : (now - t) + b <= Round => now - t <= Round
          BY <1>0, <5>1
        <5> QED BY <2>2, <5>1, <5>2
      <4> QED BY <1>0, <4>1, <4>2
    <3> QED BY <1>0, <1>2, <3>1
  <2>4. Timer(h)' = Timer(h)
    BY DEF Timer
  <2> DEFINE left == h.resendts - now
  <2>5. Left(h)' = left
    BY DEF Left
  <2>6. left \in Int /\ left <= Timer(h) /\ left >= Timer(h) - Round
    BY <1>0, <1>2, <2>3
  <2> HIDE DEF left
  <2>7. \/ left > 0 /\ h.age + left <= Timer(h)
        \/ left <= 0 /\ h.age + Wait' <= Timer(h) + Interval + Round
    BY <1>0, <1>2, <2>6
  <2>8. h.age + left >= Timer(h) - Round
    BY <1>0, <1>2, <2>6
  <2> QED BY <2>1, <2>4, <2>5, <2>7, <2>8 DEF TimerRight
<1> QED BY <1>3, <1>4 DEF SegRight

(* ... and goes on holding of one that was not sent.                       *)
LEMMA KeptRight ==
  ASSUME now' = now, current' = now \/ current' = current,
         now \in Nat, NEW h \in SegRec, SegRight(h),
         Wait' = Wait \/ (~h.wrapped /\ h.xmit > 0 => Left(h) > 0)
  PROVE  SegRight(h)'
<1>1. Timer(h)' = Timer(h) /\ Left(h)' = Left(h)
  BY DEF Timer, Left
<1>2. ASSUME h.xmit > 0, ~h.wrapped PROVE TimerRight(h)'
  <2>1. TimerRight(h)
    BY <1>2 DEF SegRight
  <2>2. current' <= now'
    BY <2>1 DEF TimerRight
  <2>3. CASE Wait' = Wait
    BY <1>1, <2>1, <2>2, <2>3 DEF TimerRight
  <2>4. CASE Left(h) > 0
    <3>1. Left(h) \in Int
      BY Sizes DEF Left, SegRec
    <3> QED BY <1>1, <2>1, <2>2, <2>4, <3>1 DEF TimerRight
  <2> QED BY <1>2, <2>3, <2>4
<1> QED BY <1>2 DEF SegRight

(* A segment the clock has not wrapped under is due when its timer says    *)
(* so, at the present time and at kcp->current.                            *)
LEMMA DueIs ==
  ASSUME TypeOK, LagBound, NEW h \in SegRec, SegRight(h), h.xmit > 0, ~h.wrapped,
         NEW t, t = now \/ t = current
  PROVE  Due(h, t) <=> h.resendts <= t
<1>0. /\ ClockMod \in Nat \ {0} /\ Word = 2 * ClockMod /\ Rto \in Nat /\ RtoMin \in Nat
      /\ Round \in Nat /\ MaxXmit \in Nat /\ Longest \in Nat /\ Longest + Round <= ClockMod
      /\ MaxAge \in Nat /\ Interval \in Nat
  BY Sizes
<1>1. /\ now \in 0..(ClockMod - 1) /\ current \in 0..(ClockMod - 1) /\ sleep \in Nat
      /\ h.resendts \in 0..(Word - 1) /\ h.age \in Nat
  BY <1>0, Sizes DEF TypeOK, SegRec
<1>2. TimerRight(h)
  BY DEF SegRight
<1>3. current <= now /\ now - current + sleep <= Round
  BY <1>2 DEF TimerRight, LagBound
<1>4. t \in 0..now /\ now - t <= Round
  <2>1. \A b \in Nat : now - current + b <= Round => now - current <= Round
    BY <1>0, <1>1
  <2>2. now - current <= Round
    BY <1>1, <1>3, <2>1
  <2> QED BY <1>0, <1>1, <1>3, <2>2
<1>5. h.xmit \in 1..MaxXmit /\ h.xmit * Rto \in Nat
  BY <1>0 DEF SegRec
<1>6. Timer(h) \in Nat /\ Timer(h) <= Longest
  <2>1. h.xmit * Rto + 0 <= Longest /\ h.xmit * Rto + RtoMin <= Longest
    <3>1. 0 \in 0..RtoMin /\ RtoMin \in 0..RtoMin /\ 0 \in 0..(ClockMod - 1)
      BY <1>0
    <3> QED BY <1>5, <3>1, TimerFits
  <2>2. h.rto = h.xmit * Rto
    BY DEF SegRight
  <2> QED BY <1>0, <1>5, <2>1, <2>2 DEF Timer
<1>7. h.resendts - now <= Longest
  <2>1. CASE Left(h) > 0
    <3>1. h.age + Left(h) <= Timer(h)
      BY <1>2, <2>1, <1>1 DEF TimerRight, Left
    <3> QED BY <1>0, <1>1, <1>6, <3>1 DEF Left
  <2>2. CASE Left(h) <= 0
    BY <1>0, <1>1, <2>2 DEF Left
  <2> QED BY <1>1, <2>1, <2>2 DEF Left
<1> DEFINE x == t - h.resendts
<1>8. x \in Int /\ -ClockMod <= x /\ x < ClockMod
  BY <1>0, <1>1, <1>4, <1>7
<1>9. Diff(t, h.resendts) = x
  BY <1>8, SignedIs DEF Diff
<1> QED BY <1>1, <1>4, <1>8, <1>9 DEF Due

(* A flush at the time t, which is now or kcp->current, on segments of     *)
(* which all of this is known.                                             *)
LEMMA FlushRight ==
  ASSUME TypeOK, FlushNear, LagBound, QuietBound, NEW t, t = now \/ t = current,
         NEW segs \in [1..Segs -> SegRec], Flush(segs, t),
         \A s \in 1..Segs : SegRight(segs[s]) \/ (SegRight(segs[s])' /\ ~Due(segs[s], t)),
         current' = t, now' = now, LagBound', sleep' \in Nat,
         Wait' \in Int, Wait' <= Interval + Round,
         Wait' = Wait \/ t = now
  PROVE  seg' \in [1..Segs -> SegRec] /\ SegsRight'
<1>0. ClockMod \in Nat \ {0} /\ Word = 2 * ClockMod /\ MaxXmit \in Nat
  BY Sizes
<1>1. now \in 0..(ClockMod - 1) /\ t \in 0..(ClockMod - 1) /\ now \in Nat
  BY <1>0 DEF TypeOK
<1>2. seg' = [s \in 1..Segs |-> IF Due(segs[s], t) THEN Resent(segs[s], t) ELSE segs[s]]
  BY DEF Flush
<1>3. ASSUME NEW s \in 1..Segs
      PROVE  seg'[s] \in SegRec /\ (SegRight(seg[s]))'
  <2>1. CASE Due(segs[s], t)
    <3> DEFINE h == Resent(segs[s], t)
               g == segs[s]
    <3>1. g \in SegRec /\ g.xmit > 0 /\ g.xmit < MaxXmit /\ SegRight(g)
      BY <2>1 DEF Flush, Due
    <3>2. g.rto = g.xmit * Rto
      BY <3>1 DEF SegRight
    <3> HIDE DEF g
    <3>3. PICK k : k = Resent(g, t)
      OBVIOUS
    <3>4. /\ k \in SegRec /\ k.xmit = g.xmit + 1 /\ k.rto = k.xmit * Rto
          /\ k.resendts = t + Timer(k) /\ k.age = 0 /\ k.wrapped = (now < t)
      BY <1>1, <3>1, <3>2, <3>3, ResentIs
    <3>5. k.xmit > 0
      BY <3>1, <3>4 DEF SegRec
    <3>6. SegRight(k)'
      BY <1>1, <3>4, <3>5, SentRight
    <3>7. seg'[s] = k
      BY <1>2, <2>1, <3>3 DEF g
    <3> QED BY <3>4, <3>6, <3>7
  <2>2. CASE ~Due(segs[s], t)
    <3>1. PICK k : k = segs[s]
      OBVIOUS
    <3>2. k \in SegRec /\ seg'[s] = k /\ ~Due(k, t)
      BY <1>2, <2>2, <3>1
    <3>3. SegRight(k)'
      <4>1. CASE SegRight(k)
        <5>1. Wait' = Wait \/ (~k.wrapped /\ k.xmit > 0 => Left(k) > 0)
          <6> SUFFICES ASSUME t = now, ~k.wrapped, k.xmit > 0
                       PROVE  Left(k) > 0
            OBVIOUS
          <6>1. ~ (k.resendts <= now)
            BY <3>2, <4>1, DueIs
          <6>2. k.resendts \in Int
            BY <1>0, <3>2 DEF SegRec
          <6> QED BY <1>1, <6>1, <6>2 DEF Left
        <5> QED BY <1>1, <3>2, <4>1, <5>1, KeptRight
      <4>2. CASE ~SegRight(k)
        BY <3>1, <4>2
      <4> QED BY <4>1, <4>2
    <3> QED BY <3>2, <3>3
  <2> QED BY <2>1, <2>2
<1>4. seg' \in [1..Segs -> SegRec]
  BY <1>2, <1>3
<1> QED BY <1>3, <1>4 DEF SegsRight

-----------------------------------------------------------------------------
(***************************************************************************)
(* The invariant holds at the start and every action keeps it.             *)
(***************************************************************************)
(* The types of the variables, as integers.                                *)
LEMMA Types ==
  ASSUME TypeOK
  PROVE  /\ now \in 0..(ClockMod - 1) /\ current \in 0..(ClockMod - 1)
         /\ ts_flush \in 0..(Word - 1) /\ sleep \in Nat /\ quiet \in 0..MaxAge
         /\ seg \in [1..Segs -> SegRec] /\ Wait \in Nat
<1>1. /\ now \in 0..(ClockMod - 1) /\ current \in 0..(ClockMod - 1)
      /\ ts_flush \in 0..(Word - 1) /\ sleep \in Nat /\ quiet \in 0..MaxAge
      /\ seg \in [1..Segs -> SegRec]
  BY Sizes DEF TypeOK, SegRec
<1>2. Wait \in Nat
  BY <1>1, Sizes DEF Wait, Ahead
<1> QED BY <1>1, <1>2

LEMMA InitInv == Init => Inv
<1> SUFFICES ASSUME Init PROVE Inv
  OBVIOUS
<1>0. /\ ClockMod \in Nat \ {0} /\ Word = 2 * ClockMod /\ Interval \in Nat \ {0}
      /\ Interval < ClockMod /\ Round \in Nat /\ Interval <= Round /\ Nap \in Nat
      /\ Late \in Nat /\ MaxAge \in Nat /\ MaxXmit \in Nat /\ Rto \in Nat
  BY Sizes
<1>1. now \in 0..(ClockMod - 1) /\ current = now /\ sleep = Interval /\ quiet = 0
  BY DEF Init
<1>2. ts_flush = now + Interval
  <2>1. now + Interval \in 0..(Word - 1)
    BY <1>0, <1>1
  <2>2. ((now + Interval) % Word) = now + Interval
    BY <1>0, <2>1, Remainder
  <2> QED BY <2>2 DEF Init
<1>3. NoSeg \in SegRec
  <2>1. MaxXmit * Rto \in Nat
    BY <1>0
  <2> QED BY <1>0, <2>1 DEF NoSeg, SegRec
<1>4. TypeOK
  <2>1. seg \in [1..Segs -> SegRec]
    BY <1>3 DEF Init
  <2> QED BY <1>0, <1>1, <1>2, <2>1 DEF TypeOK, SegRec
<1>5. Ahead
  BY <1>0, <1>1, <1>2 DEF Ahead
<1>6. FlushNear /\ QuietBound /\ LagBound
  BY <1>0, <1>1, <1>2, <1>5 DEF FlushNear, QuietBound, Wait, LagBound
<1>7. SegsRight
  <2>1. \A s \in 1..Segs : seg[s] = NoSeg
    BY DEF Init
  <2>2. 0 = 0 * Rto
    BY <1>0
  <2> QED BY <2>1, <2>2 DEF SegsRight, SegRight, NoSeg
<1> QED BY <1>4, <1>6, <1>7 DEF Inv

(* An update, whatever the sleep is afterwards.                            *)
LEMMA UpdateInv ==
  ASSUME Inv, Update, now' = now, sleep' \in 0..Round
  PROVE  Inv'
<1>0. /\ ClockMod \in Nat \ {0} /\ Word = 2 * ClockMod /\ Interval \in Nat \ {0}
      /\ Interval < ClockMod /\ Round \in Nat /\ Interval <= Round /\ Nap \in Nat
      /\ Late \in Nat /\ MaxAge \in Nat /\ Round <= Interval + Nap + Late
  BY Sizes
<1>1. TypeOK /\ FlushNear /\ QuietBound /\ LagBound /\ SegsRight
  BY DEF Inv
<1>2. /\ now \in 0..(ClockMod - 1) /\ ts_flush \in 0..(Word - 1) /\ quiet \in 0..MaxAge
      /\ seg \in [1..Segs -> SegRec] /\ Wait \in Nat
  BY <1>1, Types
<1>3. /\ current' = now
      /\ ts_flush' \in Nat /\ now < ts_flush' /\ ts_flush' <= now + Interval
      /\ Ahead => UNCHANGED <<ts_flush, seg, quiet>>
      /\ ~Ahead => Flush(seg, now)
  BY <1>1, UpdateAhead
<1>4. Ahead'
  BY <1>3 DEF Ahead
<1>5. FlushNear'
  BY <1>0, <1>4 DEF FlushNear
<1>6. LagBound'
  <2>1. \A n \in 0..Round : now - now + n <= Round
    BY <1>0, <1>2
  <2> QED BY <1>2, <1>3, <2>1 DEF LagBound
<1>7. Wait' = ts_flush' - now + Round
  BY <1>4 DEF Wait
<1>8. CASE Ahead
  <2>1. UNCHANGED <<ts_flush, seg, quiet>>
    BY <1>3, <1>8
  <2>2. Wait' = Wait
    BY <1>7, <1>8, <2>1 DEF Wait
  <2>3. QuietBound'
    BY <1>1, <2>1, <2>2 DEF QuietBound
  <2>4. SegsRight'
    <3> SUFFICES ASSUME NEW s \in 1..Segs PROVE SegRight(seg[s])'
      BY DEF SegsRight
    <3>1. PICK k : k = seg[s]
      OBVIOUS
    <3>2. k \in SegRec /\ SegRight(k) /\ now \in Nat
      BY <1>0, <1>1, <1>2, <3>1 DEF SegsRight
    <3>3. SegRight(k)'
      BY <1>3, <2>2, <3>2, KeptRight
    <3> QED BY <2>1, <3>1, <3>3
  <2>5. TypeOK'
    BY <1>0, <1>1, <1>2, <1>3, <2>1 DEF TypeOK
  <2> QED BY <1>5, <1>6, <2>3, <2>4, <2>5 DEF Inv
<1>9. CASE ~Ahead
  <2>1. Flush(seg, now)
    BY <1>3, <1>9
  <2>2. quiet' = 0
    BY <2>1 DEF Flush
  <2>3. Wait' \in Int /\ Wait' <= Interval + Round
    <3>1. \A f \in Nat : now < f /\ f <= now + Interval
             => f - now + Round \in Int /\ f - now + Round <= Interval + Round
      BY <1>0, <1>2
    <3> QED BY <1>3, <1>7, <3>1
  <2>4. QuietBound'
    <3>1. \A w \in Int : w <= Interval + Round => 0 + w <= Interval + Round
      BY <1>0
    <3> QED BY <2>2, <2>3, <3>1 DEF QuietBound
  <2>5. seg' \in [1..Segs -> SegRec] /\ SegsRight'
    <3>1. \A s \in 1..Segs : SegRight(seg[s])
      BY <1>1 DEF SegsRight
    <3>2. sleep' \in Nat
      BY <1>0
    <3> QED BY <1>1, <1>2, <1>3, <1>6, <2>1, <2>3, <3>1, <3>2, FlushRight
  <2>6. TypeOK'
    BY <1>0, <1>1, <1>2, <1>3, <2>2, <2>5 DEF TypeOK, SegRec
  <2> QED BY <1>5, <1>6, <2>4, <2>5, <2>6 DEF Inv
<1> QED BY <1>8, <1>9

(* ikcp_check never asks for a sleep that is longer than an interval.      *)
LEMMA CheckNear ==
  ASSUME NEW t \in 0..(ClockMod - 1), NEW flush \in Nat, t < flush, flush <= t + Interval,
         NEW segs \in [1..Segs -> SegRec]
  PROVE  Check(t, flush, segs) - t \in Int /\ Check(t, flush, segs) - t <= Interval
<1>0. /\ ClockMod \in Nat \ {0} /\ Word = 2 * ClockMod /\ Interval \in Nat \ {0}
      /\ Interval < ClockMod /\ Slack \in Nat
  BY Sizes
<1> DEFINE fly    == {s \in 1..Segs : segs[s].xmit > 0}
           packet == {Diff(segs[s].resendts, t) : s \in fly}
           S      == packet \cup {Diff(flush, t), Interval}
           asleep == /\ ~(Diff(t, flush) >= Slack \/ Diff(t, flush) < -Slack)
                     /\ ~(Diff(t, flush) >= 0)
                     /\ ~(\E d \in packet : d <= 0)
<1>1. Check(t, flush, segs) = IF asleep THEN Signed(t + Least(S)) ELSE Signed(t)
  BY DEF Check
<1>2. Signed(t) = t
  BY <1>0, SignedIs
<1>3. CASE asleep
  <2>1. S \subseteq Nat /\ Interval \in S
    <3>1. \A d \in packet : d \in Int
      <4> SUFFICES ASSUME NEW s \in fly PROVE Diff(segs[s].resendts, t) \in Int
        OBVIOUS
      <4>1. segs[s].resendts \in 0..(Word - 1)
        BY DEF SegRec
      <4> DEFINE x == segs[s].resendts - t
      <4>2. x \in Int /\ -3 * ClockMod <= x /\ x < 3 * ClockMod
        BY <1>0, <4>1
      <4> HIDE DEF x
      <4>3. Signed(x) \in Int
        BY <1>0, <4>2 DEF Signed
      <4> QED BY <4>3 DEF Diff, x
    <3>2. packet \subseteq Nat
      <4> SUFFICES ASSUME NEW d \in packet PROVE d \in Nat
        OBVIOUS
      <4>1. d \in Int /\ ~(d <= 0)
        BY <1>3, <3>1
      <4> QED BY <4>1
    <3>3. Diff(flush, t) \in Nat
      <4>1. /\ flush - t \in Nat /\ flush - t < ClockMod
        BY <1>0
      <4>2. Signed(flush - t) = flush - t
        BY <1>0, <4>1, SignedIs
      <4> QED BY <4>1, <4>2 DEF Diff
    <3> QED BY <1>0, <3>2, <3>3
  <2> HIDE DEF S, asleep
  <2>2. Least(S) \in Nat /\ Least(S) <= Interval
    BY <2>1, LeastOf
  <2>3. PICK x \in Nat : x = t + Least(S)
    BY <1>0, <2>2
  <2>4. x <= t + Interval /\ x < 3 * ClockMod
    BY <1>0, <2>2, <2>3
  <2>5. Signed(x) \in {x, x - Word}
    BY <1>0, <2>4, SignedIs
  <2>6. Check(t, flush, segs) = Signed(x)
    BY <1>1, <1>3, <2>3
  <2> QED BY <1>0, <2>4, <2>5, <2>6
<1>4. CASE ~asleep
  BY <1>0, <1>1, <1>2, <1>4
<1> QED BY <1>3, <1>4

LEMMA WakeInv == ASSUME Inv, Wake PROVE Inv'
<1>0. /\ Interval \in Nat \ {0} /\ Round \in Nat /\ Interval + Late <= Round
      /\ Nap \in Nat /\ Late \in Nat /\ Nap + Late <= Round
  BY Sizes
<1>1. TypeOK /\ FlushNear
  BY DEF Inv
<1>2. now' = now /\ Update
  BY DEF Wake
<1>3. now \in 0..(ClockMod - 1) /\ seg \in [1..Segs -> SegRec]
  BY <1>1, Types
<1>4. ts_flush' \in Nat /\ now < ts_flush' /\ ts_flush' <= now + Interval
  BY <1>1, <1>2, UpdateAhead
<1>5. seg' \in [1..Segs -> SegRec]
  <2>1. CASE Ahead
    BY <1>1, <1>2, <1>3, <2>1, UpdateAhead
  <2>2. CASE ~Ahead
    <3>1. Flush(seg, now)
      BY <1>1, <1>2, <2>2, UpdateAhead
    <3>2. seg' = [s \in 1..Segs |-> IF Due(seg[s], now) THEN Resent(seg[s], now) ELSE seg[s]]
      BY <3>1 DEF Flush
    <3>3. ASSUME NEW s \in 1..Segs, Due(seg[s], now)
          PROVE  Resent(seg[s], now) \in SegRec
      <4>1. PICK g : g = seg[s]
        OBVIOUS
      <4>2. /\ g \in SegRec /\ g.xmit > 0 /\ g.xmit < MaxXmit /\ SegRight(g)
        BY <1>3, <3>1, <3>3, <4>1 DEF Flush, Due, Inv, SegsRight
      <4>3. g.rto = g.xmit * Rto
        BY <4>2 DEF SegRight
      <4>4. PICK h : h = Resent(g, now)
        OBVIOUS
      <4> QED BY <1>3, <4>1, <4>2, <4>3, <4>4, ResentIs
    <3> QED BY <1>3, <3>2, <3>3
  <2> QED BY <2>1, <2>2
<1> DEFINE diff == Check(now, ts_flush', seg') - now
<1>6. diff \in Int /\ diff <= Interval
  BY <1>3, <1>4, <1>5, CheckNear
<1>7. PICK late \in 0..Late : sleep' = (IF diff > 0 THEN diff ELSE Nap) + late
  BY DEF Wake
<1> HIDE DEF diff
<1>8. sleep' \in 0..Round
  BY <1>0, <1>6, <1>7
<1> QED BY <1>2, <1>8, UpdateInv

LEMMA UpdateOnDatagramInv == ASSUME Inv, UpdateOnDatagram PROVE Inv'
<1>1. sleep \in 0..Round
  BY Sizes, Types DEF Inv, FlushNear
<1> QED BY <1>1, UpdateInv DEF UpdateOnDatagram

LEMMA SendAndFlushInv ==
  ASSUME Inv, NEW s \in 1..Segs, SendAndFlush(s)
  PROVE  Inv'
<1>0. /\ Interval \in Nat /\ Round \in Nat /\ MaxAge \in Nat /\ ClockMod \in Nat \ {0}
      /\ Rto \in Nat /\ MaxXmit \in Nat
  BY Sizes
<1>1. TypeOK /\ FlushNear /\ QuietBound /\ LagBound /\ SegsRight
  BY DEF Inv
<1>2. /\ now \in 0..(ClockMod - 1) /\ current \in 0..(ClockMod - 1) /\ sleep \in Nat
      /\ quiet \in Nat /\ seg \in [1..Segs -> SegRec] /\ Wait \in Nat
  BY <1>0, <1>1, Types
<1>3. PICK t : t = current
  OBVIOUS
<1>4. PICK h : h = NewSeg(t)
  OBVIOUS
<1>5. PICK segs : segs = [seg EXCEPT ![s] = h]
  OBVIOUS
<1>6. /\ now' = now /\ current' = t /\ ts_flush' = ts_flush /\ sleep' = sleep
      /\ Flush(segs, t)
  BY <1>3, <1>4, <1>5 DEF SendAndFlush
<1>7. Wait' = Wait /\ Ahead' = Ahead
  BY <1>6 DEF Wait, Ahead
<1>8. LagBound' /\ FlushNear'
  <2>1. LagBound'
    BY <1>1, <1>3, <1>6 DEF LagBound
  <2>2. FlushNear'
    BY <1>1, <1>6 DEF FlushNear, Ahead, Behind, Across
  <2> QED BY <2>1, <2>2
<1>9. quiet' = 0
  BY <1>6 DEF Flush
<1>10. Wait <= Interval + Round
  BY <1>0, <1>1, <1>2 DEF QuietBound
<1>11. QuietBound'
  <2>1. \A w \in Nat : w <= Interval + Round => 0 + w <= Interval + Round
    BY <1>0
  <2> QED BY <1>2, <1>7, <1>9, <1>10, <2>1 DEF QuietBound
<1>12. /\ h \in SegRec /\ h.xmit = 1 /\ h.rto = h.xmit * Rto
       /\ h.resendts = t + Timer(h) /\ h.age = 0 /\ h.wrapped = (now < t)
       /\ ~Due(h, t)
  BY <1>2, <1>3, <1>4, NewSegIs
<1>13. SegRight(h)'
  <2>1. h.xmit > 0 /\ t \in 0..(ClockMod - 1) /\ Wait' \in Int /\ Wait' <= Interval + Round
    BY <1>2, <1>3, <1>7, <1>10, <1>12
  <2>2. sleep' \in Nat
    BY <1>2, <1>6
  <2> QED BY <1>2, <1>6, <1>8, <1>12, <2>1, <2>2, SentRight
<1>14. segs \in [1..Segs -> SegRec]
  BY <1>2, <1>5, <1>12
<1>15. \A r \in 1..Segs : SegRight(segs[r]) \/ (SegRight(segs[r])' /\ ~Due(segs[r], t))
  <2> SUFFICES ASSUME NEW r \in 1..Segs
               PROVE  SegRight(segs[r]) \/ (SegRight(segs[r])' /\ ~Due(segs[r], t))
    OBVIOUS
  <2>1. CASE r = s
    BY <1>2, <1>5, <1>12, <1>13, <2>1
  <2>2. CASE r # s
    BY <1>1, <1>2, <1>5, <2>2 DEF SegsRight
  <2> QED BY <2>1, <2>2
<1>16. seg' \in [1..Segs -> SegRec] /\ SegsRight'
  <2>1. sleep' \in Nat /\ Wait' \in Int /\ Wait' <= Interval + Round
    BY <1>2, <1>6, <1>7, <1>10
  <2> QED BY <1>1, <1>3, <1>6, <1>7, <1>8, <1>14, <1>15, <2>1, FlushRight
<1>17. TypeOK'
  BY <1>0, <1>1, <1>3, <1>6, <1>9, <1>16 DEF TypeOK, SegRec
<1> QED BY <1>8, <1>11, <1>16, <1>17 DEF Inv

LEMMA AckInv == ASSUME Inv, NEW s \in 1..Segs, Ack(s) PROVE Inv'
<1>0. MaxAge \in Nat /\ ClockMod \in Nat \ {0} /\ Word = 2 * ClockMod /\ Rto \in Nat /\ MaxXmit \in Nat
  BY Sizes
<1>1. TypeOK /\ FlushNear /\ QuietBound /\ LagBound /\ SegsRight
  BY DEF Inv
<1>2. seg \in [1..Segs -> SegRec] /\ now \in Nat
  BY <1>0, <1>1, Types
<1>3. UNCHANGED <<now, current, ts_flush, sleep, quiet>> /\ seg' = [seg EXCEPT ![s] = NoSeg]
  BY DEF Ack
<1>4. Wait' = Wait
  BY <1>3 DEF Wait, Ahead
<1>5. FlushNear' /\ QuietBound' /\ LagBound'
  BY <1>1, <1>3, <1>4 DEF FlushNear, Ahead, Behind, Across, QuietBound, LagBound
<1>6. NoSeg \in SegRec
  <2>1. MaxXmit * Rto \in Nat
    BY <1>0
  <2> QED BY <1>0, <2>1 DEF NoSeg, SegRec
<1>7. seg' \in [1..Segs -> SegRec]
  BY <1>2, <1>3, <1>6
<1>8. SegsRight'
  <2> SUFFICES ASSUME NEW r \in 1..Segs PROVE SegRight(seg[r])'
    BY DEF SegsRight
  <2>1. CASE r = s
    <3>1. seg'[r] = NoSeg
      BY <1>2, <1>3, <2>1
    <3>2. 0 = 0 * Rto
      BY <1>0
    <3> QED BY <3>1, <3>2 DEF SegRight, NoSeg
  <2>2. CASE r # s
    <3>1. PICK k : k = seg[r]
      OBVIOUS
    <3>2. k \in SegRec /\ SegRight(k) /\ seg'[r] = k
      BY <1>1, <1>2, <1>3, <2>2, <3>1 DEF SegsRight
    <3>3. SegRight(k)'
      BY <1>2, <1>3, <1>4, <3>2, KeptRight
    <3> QED BY <3>2, <3>3
  <2> QED BY <2>1, <2>2
<1>9. TypeOK'
  BY <1>1, <1>3, <1>7 DEF TypeOK, SegRec
<1> QED BY <1>5, <1>8, <1>9 DEF Inv

(* A tick brings the next flush nearer, and keeps kcp->current as near as  *)
(* the coroutine's sleep makes it.                                         *)
LEMMA TickNear ==
  ASSUME TypeOK, FlushNear, LagBound, Tick
  PROVE  /\ now' \in 0..(ClockMod - 1) /\ sleep' \in Nat /\ sleep' <= Round
         /\ now' = (IF now = ClockMod - 1 THEN 0 ELSE now + 1)
         /\ FlushNear' /\ LagBound' /\ Wait' \in Nat /\ Wait' + 1 <= Wait
<1>0. /\ ClockMod \in Nat \ {0} /\ Word = 2 * ClockMod /\ Slack \in Nat /\ Round \in Nat
      /\ Interval \in Nat \ {0} /\ Interval <= Slack /\ Interval <= Round /\ Late \in Nat
      /\ Slack + 2 * Round < ClockMod
  BY Sizes
<1>1. /\ now \in 0..(ClockMod - 1) /\ current \in 0..(ClockMod - 1)
      /\ ts_flush \in 0..(Word - 1) /\ sleep \in Nat
  BY Types
<1>2. sleep > 0 /\ sleep <= Round /\ sleep' = sleep - 1 /\ current' = current /\ ts_flush' = ts_flush
  BY DEF Tick, FlushNear
<1>3. PICK n : n = sleep - 1
  OBVIOUS
<1>4. n \in Nat /\ sleep = n + 1 /\ sleep' = n /\ n < Round
  BY <1>0, <1>1, <1>2, <1>3
<1>5. now' = (IF now = ClockMod - 1 THEN 0 ELSE now + 1)
  <2>1. now' = ((now + 1) % ClockMod)
    BY DEF Tick
  <2>2. CASE now = ClockMod - 1
    <3>1. now + 1 = 0 + ClockMod /\ 0 \in 0..(ClockMod - 1) /\ now + 1 \in Int
      BY <1>0, <2>2
    <3>2. ((now + 1) % ClockMod) = 0
      BY <1>0, <3>1, Remainder
    <3> QED BY <2>1, <2>2, <3>2
  <2>3. CASE now # ClockMod - 1
    <3>1. now + 1 \in 0..(ClockMod - 1)
      BY <1>0, <1>1, <2>3
    <3>2. ((now + 1) % ClockMod) = now + 1
      BY <1>0, <3>1, Remainder
    <3> QED BY <2>1, <2>3, <3>2
  <2> QED BY <2>2, <2>3
<1>6. now' \in 0..(ClockMod - 1)
  BY <1>0, <1>1, <1>5
<1>7. CASE now = ClockMod - 1
  <2>1. now' = 0
    BY <1>5, <1>7
  <2>2. ts_flush >= ClockMod - Round /\ ts_flush <= ClockMod + Interval
    <3>1. CASE Ahead
      BY <1>0, <1>1, <1>7, <3>1 DEF Ahead
    <3>2. CASE Behind
      BY <1>0, <1>1, <1>4, <1>7, <3>2 DEF Behind
    <3>3. CASE Across
      BY <3>3 DEF Across
    <3> QED BY <3>1, <3>2, <3>3 DEF FlushNear
  <2>3. 0 + n < Round
    BY <1>0, <1>4
  <2>4. Across'
    BY <1>2, <1>4, <2>1, <2>2, <2>3 DEF Across
  <2>5. ~Ahead'
    <3>1. ~ (ts_flush <= 0 + Interval)
      BY <1>0, <1>1, <2>2
    <3> QED BY <1>2, <2>1, <3>1 DEF Ahead
  <2>6. Wait' = n
    BY <1>4, <2>5 DEF Wait
  <2>7. n + 1 <= Wait
    <3>1. CASE Ahead
      BY <1>0, <1>1, <1>4, <3>1 DEF Wait, Ahead
    <3>2. CASE ~Ahead
      BY <1>0, <1>4, <3>2 DEF Wait
    <3> QED BY <3>1, <3>2
  <2>8. current <= now /\ now - current + (n + 1) <= Round
    BY <1>0, <1>1, <1>4, <1>7 DEF LagBound
  <2>9. 0 < current /\ 0 + ClockMod - current + n <= Round
    BY <1>0, <1>1, <1>4, <1>7, <2>8
  <2>10. LagBound'
    <3>1. ~ (current <= 0)
      BY <1>1, <2>9
    <3> QED BY <1>2, <1>4, <2>1, <2>9, <3>1 DEF LagBound
  <2>11. FlushNear'
    <3>1. n <= Round
      BY <1>0, <1>4
    <3> QED BY <1>4, <2>4, <3>1 DEF FlushNear
  <2>12. sleep' \in Nat /\ sleep' <= Round
    BY <1>0, <1>4
  <2> QED BY <1>4, <1>5, <1>6, <2>6, <2>7, <2>10, <2>11, <2>12
<1>8. CASE now # ClockMod - 1
  <2>1. PICK m : m = now + 1
    OBVIOUS
  <2>2. now' = m /\ m \in 0..(ClockMod - 1) /\ now = m - 1
    BY <1>0, <1>1, <1>5, <1>8, <2>1
  <2>3. LagBound'
    <3>1. IF current <= m THEN m - current + n <= Round
                          ELSE m + ClockMod - current + n <= Round
      <4>1. CASE current <= now
        BY <1>0, <1>1, <1>4, <2>2, <4>1 DEF LagBound
      <4>2. CASE ~(current <= now)
        BY <1>0, <1>1, <1>4, <2>2, <4>2 DEF LagBound
      <4> QED BY <4>1, <4>2
    <3> QED BY <1>2, <1>4, <2>2, <3>1 DEF LagBound
  <2>4. n <= Round
    BY <1>0, <1>4
  <2>5. sleep' \in Nat /\ sleep' <= Round
    BY <1>0, <1>4
  <2>6. /\ Ahead' <=> ts_flush > m /\ ts_flush <= m + Interval
        /\ Behind' <=> ts_flush <= m /\ m - ts_flush + n <= Round
        /\ Across' <=> /\ m + n < Round
                       /\ ts_flush >= ClockMod - Round /\ ts_flush <= ClockMod + Interval
    BY <1>2, <1>4, <2>2 DEF Ahead, Behind, Across
  <2>7. Wait' = IF Ahead' THEN ts_flush - m + Round ELSE n
    BY <1>2, <1>4, <2>2 DEF Wait
  <2>8. CASE Ahead
    <3>1. CASE ts_flush > m
      <4>1. Ahead'
        BY <1>0, <1>1, <2>2, <2>6, <2>8, <3>1 DEF Ahead
      <4>2. Wait' = ts_flush - m + Round
        BY <2>7, <4>1
      <4>3. Wait = ts_flush - now + Round
        BY <2>8 DEF Wait
      <4>4. ts_flush - m + Round \in Nat /\ (ts_flush - m + Round) + 1 <= ts_flush - now + Round
        BY <1>0, <1>1, <2>2, <3>1
      <4>5. FlushNear'
        BY <1>4, <2>4, <4>1 DEF FlushNear
      <4> QED BY <1>5, <1>6, <2>3, <2>5, <4>2, <4>3, <4>4, <4>5
    <3>2. CASE ~(ts_flush > m)
      <4>1. Behind'
        BY <1>0, <1>1, <1>4, <2>2, <2>6, <2>8, <3>2 DEF Ahead
      <4>2. ~Ahead'
        BY <2>6, <3>2
      <4>3. Wait' = n
        BY <2>7, <4>2
      <4>4. Wait = ts_flush - now + Round
        BY <2>8 DEF Wait
      <4>5. n + 1 <= ts_flush - now + Round
        BY <1>0, <1>1, <1>4, <2>8 DEF Ahead
      <4>6. FlushNear'
        BY <1>4, <2>4, <4>1 DEF FlushNear
      <4> QED BY <1>4, <1>5, <1>6, <2>3, <2>5, <4>3, <4>4, <4>5, <4>6
    <3> QED BY <3>1, <3>2
  <2>9. CASE ~Ahead
    <3>1. Wait = n + 1
      BY <1>4, <2>9 DEF Wait
    <3>2. (Behind' \/ Across') /\ ~Ahead'
      <4>1. CASE Behind
        <5>1. Behind'
          BY <1>0, <1>1, <1>4, <2>2, <2>6, <4>1 DEF Behind
        <5>2. ~Ahead'
          BY <1>0, <1>1, <2>2, <2>6, <4>1 DEF Behind
        <5> QED BY <5>1, <5>2
      <4>2. CASE Across
        <5>1. Across'
          BY <1>0, <1>1, <1>4, <2>2, <2>6, <4>2 DEF Across
        <5>2. ~Ahead'
          <6>1. m < Round /\ ts_flush > m + Interval
            BY <1>0, <1>1, <1>4, <2>2, <4>2 DEF Across
          <6>2. ~ (ts_flush <= m + Interval)
            BY <1>0, <1>1, <2>2, <6>1
          <6> QED BY <2>6, <6>2
        <5> QED BY <5>1, <5>2
      <4> QED BY <2>9, <4>1, <4>2 DEF FlushNear
    <3>3. Wait' = n
      BY <2>7, <3>2
    <3>4. FlushNear'
      BY <1>4, <2>4, <3>2 DEF FlushNear
    <3> QED BY <1>4, <1>5, <1>6, <2>3, <2>5, <3>1, <3>3, <3>4
  <2> QED BY <2>8, <2>9
<1> QED BY <1>7, <1>8

(* A tick makes a segment older, and its timer has a tick less to run.     *)
LEMMA TickSeg ==
  ASSUME TypeOK, FlushNear, LagBound, Tick, NEW g \in SegRec, SegRight(g),
         NEW h, h = IF g.xmit = 0 THEN g
                    ELSE [g EXCEPT !.age = Older(@), !.wrapped = @ \/ now' = 0]
  PROVE  h \in SegRec /\ SegRight(h)'
<1>0. /\ ClockMod \in Nat \ {0} /\ Word = 2 * ClockMod /\ MaxAge \in Nat /\ Rto \in Nat
      /\ RtoMin \in Nat /\ MaxXmit \in Nat /\ Round \in Nat /\ Interval \in Nat
  BY Sizes
<1>1. /\ now \in 0..(ClockMod - 1) /\ current \in 0..(ClockMod - 1) /\ Wait \in Nat
      /\ g.age \in 0..MaxAge /\ g.resendts \in 0..(Word - 1) /\ g.wrapped \in BOOLEAN
      /\ g.xmit \in Nat
  BY <1>0, Types DEF SegRec
<1>2. /\ now' = (IF now = ClockMod - 1 THEN 0 ELSE now + 1)
      /\ Wait' \in Nat /\ Wait' + 1 <= Wait /\ current' = current
  BY TickNear DEF Tick
<1>3. CASE g.xmit = 0
  <2>1. h = g
    BY <1>3
  <2> QED BY <1>3, <2>1 DEF SegRight
<1>4. CASE g.xmit # 0
  <2>1. PICK b \in BOOLEAN : b = (g.wrapped \/ now' = 0)
    OBVIOUS
  <2>2. h = [g EXCEPT !.age = Older(g.age), !.wrapped = b]
    BY <1>4, <2>1
  <2>3. Older(g.age) \in 0..MaxAge /\ Older(g.age) <= g.age + 1
        /\ (Older(g.age) = MaxAge \/ Older(g.age) = g.age + 1)
    BY <1>0, <1>1 DEF Older
  <2>4. /\ h \in SegRec /\ h.xmit = g.xmit /\ h.rto = g.rto /\ h.resendts = g.resendts
        /\ h.age = Older(g.age) /\ h.wrapped = b
    BY <2>2, <2>3 DEF SegRec
  <2>5. Timer(h)' = Timer(g) /\ Timer(g) \in Int
    BY <1>0, <1>1, <2>4 DEF Timer, SegRec
  <2>6. ASSUME ~b PROVE TimerRight(h)'
    <3>1. ~g.wrapped /\ now' # 0
      BY <2>1, <2>6
    <3>2. now' = now + 1
      BY <1>2, <3>1
    <3>3. TimerRight(g)
      BY <1>1, <1>4, <3>1 DEF SegRight
    <3>4. PICK left \in Int : left = g.resendts - now
      BY <1>1
    <3>5. Left(g) = left /\ Left(h)' = left - 1
      <4>1. g.resendts - (now + 1) = left - 1
        BY <1>1, <3>4
      <4> QED BY <2>4, <3>2, <3>4, <4>1 DEF Left
    <3>6. current <= now + 1
      BY <1>1, <3>3 DEF TimerRight
    <3>7. PICK age \in Int : age = Older(g.age)
      BY <2>3
    <3>8. PICK w \in Nat : w = Wait'
      BY <1>2
    <3>9. \/ left - 1 > 0 /\ age + (left - 1) <= Timer(g)
          \/ left - 1 <= 0 /\ age + w <= Timer(g) + Interval + Round
      <4>1. age <= g.age + 1
        BY <2>3, <3>7
      <4>2. CASE left > 0
        <5>1. g.age + left <= Timer(g)
          BY <3>3, <3>5, <4>2 DEF TimerRight
        <5>2. w <= Interval + Round
          <6>1. w + 1 <= Wait
            BY <1>2, <3>8
          <6>2. Wait <= Interval + Round
            <7>1. ts_flush \in Nat /\ sleep \in Nat
              BY <1>0, Types
            <7>2. CASE Ahead
              BY <1>0, <1>1, <7>1, <7>2 DEF Ahead, Wait
            <7>3. CASE ~Ahead
              BY <1>0, <7>1, <7>3 DEF FlushNear, Wait
            <7> QED BY <7>2, <7>3
          <6> QED BY <1>0, <1>1, <6>1, <6>2
        <5> QED BY <1>0, <1>1, <2>5, <4>1, <4>2, <5>1, <5>2
      <4>3. CASE left <= 0
        <5>1. g.age + Wait <= Timer(g) + Interval + Round
          BY <3>3, <3>5, <4>3 DEF TimerRight
        <5>2. w + 1 <= Wait
          BY <1>2, <3>8
        <5> QED BY <1>0, <1>1, <2>5, <4>1, <4>3, <5>1, <5>2
      <4> QED BY <4>2, <4>3
    <3>10. age = MaxAge \/ age + (left - 1) >= Timer(g) - Round
      <4>1. CASE age = MaxAge
        BY <4>1
      <4>2. CASE age = g.age + 1 /\ g.age # MaxAge
        <5>1. g.age + left >= Timer(g) - Round
          BY <3>3, <3>5, <4>2 DEF TimerRight
        <5> QED BY <1>0, <1>1, <2>5, <4>2, <5>1
      <4>3. CASE g.age = MaxAge
        BY <1>0, <1>1, <2>3, <3>7, <4>3 DEF Older
      <4> QED BY <2>3, <3>7, <4>1, <4>2, <4>3
    <3>11. current' <= now' /\ Left(h)' = left - 1 /\ h.age = age /\ Wait' = w
      BY <1>2, <2>4, <3>2, <3>5, <3>6, <3>7, <3>8
    <3> QED BY <2>5, <3>9, <3>10, <3>11 DEF TimerRight
  <2> QED BY <2>4, <2>6 DEF SegRight
<1> QED BY <1>3, <1>4

LEMMA TickInv == ASSUME Inv, Tick PROVE Inv'
<1>0. /\ ClockMod \in Nat \ {0} /\ MaxAge \in Nat /\ Round \in Nat /\ Interval \in Nat
      /\ Round <= Interval + Nap + Late /\ Nap \in Nat /\ Late \in Nat
  BY Sizes
<1>1. TypeOK /\ FlushNear /\ QuietBound /\ LagBound /\ SegsRight
  BY DEF Inv
<1>2. /\ quiet \in 0..MaxAge /\ seg \in [1..Segs -> SegRec] /\ Wait \in Nat
  BY <1>1, Types
<1>3. /\ now' \in 0..(ClockMod - 1) /\ sleep' \in Nat /\ sleep' <= Round
      /\ FlushNear' /\ LagBound' /\ Wait' \in Nat /\ Wait' + 1 <= Wait
  BY <1>1, TickNear
<1>4. /\ quiet' = Older(quiet) /\ current' = current /\ ts_flush' = ts_flush
      /\ seg' = [s \in 1..Segs |->
                   IF seg[s].xmit = 0 THEN seg[s]
                   ELSE [seg[s] EXCEPT !.age = Older(@), !.wrapped = @ \/ now' = 0]]
  BY DEF Tick
<1>5. Older(quiet) \in 0..MaxAge /\ Older(quiet) <= quiet + 1
  BY <1>0, <1>2 DEF Older
<1>6. QuietBound'
  <2>1. \A w \in Nat : w + 1 <= Wait => Older(quiet) + w <= Interval + Round
    BY <1>0, <1>1, <1>2, <1>5 DEF QuietBound
  <2> QED BY <1>3, <1>4, <2>1 DEF QuietBound
<1>7. ASSUME NEW s \in 1..Segs PROVE seg'[s] \in SegRec /\ SegRight(seg[s])'
  <2>1. PICK g : g = seg[s]
    OBVIOUS
  <2>2. PICK h : h = IF g.xmit = 0 THEN g
                     ELSE [g EXCEPT !.age = Older(@), !.wrapped = @ \/ now' = 0]
    OBVIOUS
  <2>3. g \in SegRec /\ SegRight(g)
    BY <1>1, <1>2, <2>1 DEF SegsRight
  <2>4. h \in SegRec /\ SegRight(h)'
    BY <1>1, <2>2, <2>3, TickSeg
  <2>5. seg'[s] = h
    BY <1>4, <2>1, <2>2
  <2> QED BY <2>4, <2>5
<1>8. seg' \in [1..Segs -> SegRec] /\ SegsRight'
  BY <1>4, <1>7 DEF SegsRight
<1>9. TypeOK'
  <2>1. \A n \in Nat : n <= Round => n \in 0..(Interval + Nap + Late)
    BY <1>0
  <2> QED BY <1>1, <1>3, <1>4, <1>5, <1>8, <2>1 DEF TypeOK, SegRec
<1> QED BY <1>3, <1>6, <1>8, <1>9 DEF Inv

LEMMA NextInv == Inv /\ [Next]_vars => Inv'
<1> SUFFICES ASSUME Inv, [Next]_vars PROVE Inv'
  OBVIOUS
<1>1. ASSUME Wake PROVE Inv'
  BY <1>1, WakeInv
<1>2. ASSUME UpdateOnDatagram PROVE Inv'
  BY <1>2, UpdateOnDatagramInv
<1>3. ASSUME NEW s \in 1..Segs, SendAndFlush(s) PROVE Inv'
  BY <1>3, SendAndFlushInv
<1>4. ASSUME NEW s \in 1..Segs, Ack(s) PROVE Inv'
  BY <1>4, AckInv
<1>5. ASSUME Tick PROVE Inv'
  BY <1>5, TickInv
<1>6. ASSUME UNCHANGED vars PROVE Inv'
  BY <1>6 DEF vars, Inv, TypeOK, FlushNear, Ahead, Behind, Across, QuietBound, Wait,
              LagBound, SegsRight, SegRight, TimerRight, Left, Timer
<1> QED BY <1>1, <1>2, <1>3, <1>4, <1>5, <1>6 DEF Next

(* The clock, ts_flush, the coroutine's sleep and every timer stay tied    *)
(* together, across every wrap.                                            *)
THEOREM Inductive == Spec => []Inv
BY InitInv, NextInv, PTL DEF Spec

-----------------------------------------------------------------------------
(* Every time is a word, every sleep is bounded, and every segment has a   *)
(* number of transmissions and a timeout in bounds.                        *)
THEOREM TypeCorrect == Spec => []TypeOK
<1>1. Inv => TypeOK
  BY DEF Inv
<1> QED BY <1>1, Inductive, PTL

(* The control block is flushed at least once in two rounds of the update  *)
(* coroutine, wherever ts_flush and the clock stand.                       *)
THEOREM FlushesGoOn == Spec => []FlushGoesOn
<1>1. Inv => FlushGoesOn
  <2> SUFFICES ASSUME Inv PROVE FlushGoesOn
    OBVIOUS
  <2>1. quiet \in 0..MaxAge /\ Wait \in Nat /\ quiet + Wait <= Interval + Round
    BY Types DEF Inv, QuietBound
  <2> QED BY <2>1, Sizes DEF FlushGoesOn
<1> QED BY <1>1, Inductive, PTL

(* A segment the clock has not wrapped under is sent again at most two     *)
(* rounds after its timer ran out.                                         *)
THEOREM ResentPromptly == Spec => []PromptResend
<1>1. Inv => PromptResend
  <2> SUFFICES ASSUME Inv, NEW s \in Flying, ~seg[s].wrapped PROVE Prompt(seg[s])
    BY DEF PromptResend
  <2>0. /\ Round \in Nat /\ Interval \in Nat /\ Interval <= Round /\ Late \in Nat /\ Rto \in Nat
        /\ RtoMin \in Nat /\ MaxAge \in Nat /\ Word \in Nat /\ ClockMod \in Nat /\ MaxXmit \in Nat
    BY Sizes
  <2>1. PICK g : g = seg[s]
    OBVIOUS
  <2>2. g \in SegRec /\ SegRight(g) /\ g.xmit > 0 /\ ~g.wrapped
    BY <2>1, Types DEF Inv, SegsRight, Flying
  <2>3. TimerRight(g)
    BY <2>2 DEF SegRight
  <2>4. Timer(g) \in Int /\ Left(g) \in Int /\ g.age \in Nat /\ Wait \in Nat
    <3>1. Wait \in Nat /\ now \in Int
      BY Sizes, Types DEF Inv
    <3>2. g.age \in Nat /\ g.resendts \in Int /\ g.rto \in Int
      BY <2>0, <2>2 DEF SegRec
    <3> QED BY <2>0, <3>1, <3>2 DEF Timer, Left
  <2>5. g.age <= Timer(g) + 2 * Round
    BY <2>0, <2>3, <2>4 DEF TimerRight
  <2> QED BY <2>1, <2>5 DEF Prompt
<1> QED BY <1>1, Inductive, PTL

(* No segment is sent again before its timer has run out, but for the time *)
(* by which kcp->current may be behind.                                    *)
THEOREM NeverTooEarly == Spec => NeverEarly
<1>1. Inv /\ [Next]_vars =>
        [\A s \in Flying :
           ~seg[s].wrapped /\ seg'[s].xmit > seg[s].xmit
               => seg[s].age + Round >= Timer(seg[s])]_vars
  <2> SUFFICES ASSUME Inv, Next, NEW s \in Flying,
                      ~seg[s].wrapped, seg'[s].xmit > seg[s].xmit
               PROVE  seg[s].age + Round >= Timer(seg[s])
    BY DEF vars
  <2>0. /\ Round \in Nat /\ Rto \in Nat /\ RtoMin \in Nat /\ MaxAge \in Nat /\ Word \in Nat
        /\ ClockMod \in Nat /\ MaxXmit \in Nat /\ Longest \in Nat /\ Longest + 2 * Round < MaxAge
    BY Sizes
  <2>1. PICK g : g = seg[s]
    OBVIOUS
  <2>2. /\ g \in SegRec /\ SegRight(g) /\ g.xmit > 0 /\ ~g.wrapped /\ s \in 1..Segs
        /\ TypeOK /\ LagBound /\ FlushNear /\ seg \in [1..Segs -> SegRec]
        /\ now \in Nat /\ current \in Nat
    BY <2>1, Sizes, Types DEF Inv, SegsRight, Flying
  <2>3. TimerRight(g)
    BY <2>2 DEF SegRight
  <2>4. Timer(g) \in Int /\ Left(g) \in Int /\ g.age \in Nat /\ g.resendts \in Nat /\ g.xmit \in Int
    BY <2>0, <2>2 DEF SegRec, Timer, Left
  <2>5. \E t \in {now, current} : Due(g, t)
    <3>1. CASE Wake \/ UpdateOnDatagram
      <4>1. Update
        BY <3>1 DEF Wake, UpdateOnDatagram
      <4>2. CASE Ahead
        <5>1. seg' = seg
          BY <2>2, <4>1, <4>2, UpdateAhead
        <5> QED BY <2>1, <2>4, <5>1
      <4>3. CASE ~Ahead
        <5>1. Flush(seg, now)
          BY <2>2, <4>1, <4>3, UpdateAhead
        <5>2. seg'[s] = IF Due(g, now) THEN Resent(g, now) ELSE g
          BY <2>1, <2>2, <5>1 DEF Flush
        <5>3. ~(g.xmit > g.xmit)
          BY <2>4
        <5> QED BY <2>1, <5>2, <5>3
      <4> QED BY <4>2, <4>3
    <3>2. ASSUME NEW r \in 1..Segs, SendAndFlush(r)
          PROVE  Due(g, current)
      <4>1. r # s
        BY <2>1, <2>2, <2>4, <3>2 DEF SendAndFlush
      <4>2. PICK segs : segs = [seg EXCEPT ![r] = NewSeg(current)]
        OBVIOUS
      <4>3. Flush(segs, current) /\ segs[s] = g
        BY <2>1, <2>2, <3>2, <4>1, <4>2 DEF SendAndFlush
      <4>4. seg'[s] = IF Due(g, current) THEN Resent(g, current) ELSE g
        BY <2>2, <4>3 DEF Flush
      <4>5. ~(g.xmit > g.xmit)
        BY <2>4
      <4> QED BY <2>1, <4>4, <4>5
    <3>3. ASSUME NEW r \in 1..Segs, Ack(r) PROVE FALSE
      <4>1. seg'[s] = g \/ seg'[s] = NoSeg
        BY <2>1, <2>2, <3>3 DEF Ack
      <4>2. NoSeg.xmit = 0
        BY DEF NoSeg
      <4>3. ~(g.xmit > g.xmit) /\ ~(0 > g.xmit)
        BY <2>2, <2>4
      <4> QED BY <2>1, <4>1, <4>2, <4>3
    <3>4. ASSUME Tick PROVE FALSE
      <4>1. seg'[s].xmit = g.xmit
        BY <2>1, <2>2, <3>4 DEF Tick, SegRec
      <4>2. ~(g.xmit > g.xmit)
        BY <2>4
      <4> QED BY <2>1, <4>1, <4>2
    <3> QED BY <3>1, <3>2, <3>3, <3>4 DEF Next
  <2>6. Left(g) <= 0
    <3>1. PICK t \in {now, current} : Due(g, t)
      BY <2>5
    <3>2. g.resendts <= t
      BY <2>2, <3>1, DueIs
    <3>3. t <= now
      BY <2>2, <2>3, <3>1 DEF TimerRight
    <3> QED BY <2>2, <2>4, <3>1, <3>2, <3>3 DEF Left
  <2>7. g.age + Round >= Timer(g)
    <3>1. CASE g.age = MaxAge
      <4>1. g.xmit \in 1..MaxXmit /\ g.rto = g.xmit * Rto
        BY <2>0, <2>2 DEF SegRec, SegRight
      <4>2. g.xmit * Rto + 0 <= Longest /\ g.xmit * Rto + RtoMin <= Longest
        <5>1. 0 \in 0..RtoMin /\ RtoMin \in 0..RtoMin /\ 0 \in 0..(ClockMod - 1)
          BY <2>0, Sizes
        <5> QED BY <4>1, <5>1, TimerFits
      <4>3. g.xmit * Rto \in Nat
        BY <2>0, <4>1
      <4>4. Timer(g) <= Longest
        BY <2>0, <4>1, <4>2, <4>3 DEF Timer
      <4> QED BY <2>0, <2>4, <3>1, <4>4
    <3>2. CASE g.age # MaxAge
      BY <2>0, <2>3, <2>4, <2>6, <3>2 DEF TimerRight
    <3> QED BY <3>1, <3>2
  <2> QED BY <2>1, <2>7
<1> QED BY <1>1, Inductive, PTL DEF Spec, NeverEarly
===============================================================================
