------------------------------- MODULE KcpClock -------------------------------
(***************************************************************************)
(* When things happen in a control block: ikcp_update, ikcp_check and the  *)
(* timers of the segments ikcp_flush has sent (ikcp.c 952-975, 1049-1122), *)
(* driven by the gateway's update coroutine (mySockServer.lua 154-172) and *)
(* by lutil's clock.  KcpArq leaves open which segments are due; here is   *)
(* what makes them so.                                                     *)
(*                                                                         *)
(* Times are IUINT32 and compared by _itimediff; lutil.gettimeofday cuts   *)
(* the time to one bit less.  The model's Word stands for 2^32, and its    *)
(* tick for 10 ms, in which skynet.sleep counts.  The sending window is    *)
(* open, congestion control and fast resend are off, nodelay is 0, and     *)
(* rx_rto stays what it is.                                                *)
(***************************************************************************)
EXTENDS Integers

CONSTANTS Word,         \* 2^32
          Interval,     \* kcp->interval: 50 ms
          Slack,        \* update and check give ts_flush up beyond it: 10 s
          Rto,          \* kcp->rx_rto
          Nap,          \* the update coroutine's sleep when diff <= 0: 50 ms
          Late,         \* bound: ticks by which a sleep may take longer
          Segs,         \* bound: segments in flight
          MaxXmit,      \* bound: transmissions of one segment
          MaxAge        \* bound: ages are not counted beyond it

(* Where gettimeofday wraps, and rtomin when nodelay is 0.                 *)
ClockMod == Word \div 2
RtoMin   == Rto \div 8

(* How long the update coroutine may sleep between two updates, and the    *)
(* longest timer of a segment.                                             *)
Round   == Late + (IF Interval > Nap THEN Interval ELSE Nap)
Longest == MaxXmit * Rto + RtoMin

(* ikcp_interval and ikcp_nodelay keep interval at or below 5 s, ts_flush  *)
(* is given up at 10 s, and both and every timer are far from 2^31 ms.     *)
(* Ages are counted until they show that a segment is late.                *)
ASSUME ClockAssumption ==
    /\ Word \in Nat /\ Word % 2 = 0
    /\ Interval \in Nat \ {0} /\ Slack \in Nat /\ Rto \in Nat \ {0}
    /\ Nap \in Nat \ {0} /\ Late \in Nat /\ Segs \in Nat
    /\ MaxXmit \in Nat \ {0} /\ MaxAge \in Nat
    /\ Interval <= Slack
    /\ Slack + 2 * Round < ClockMod
    /\ Longest + Round <= ClockMod
    /\ Longest + 2 * Round < MaxAge

VARIABLES
    now,        \* what lutil.gettimeofday returns
    current,    \* kcp->current: the time of the last ikcp_update
    ts_flush,
    seg,        \* snd_buf: [xmit, rto, resendts] by number; history: age,
                \* ticks since the last transmission, and wrapped, whether
                \* the clock has wrapped since the time it was reckoned from
    sleep,      \* ticks the update coroutine still sleeps
    quiet       \* history: ticks since the last ikcp_flush

vars == <<now, current, ts_flush, seg, sleep, quiet>>

(* An unsigned word read with a sign, and _itimediff.                      *)
Signed(x) == ((x + ClockMod) % Word) - ClockMod
Diff(later, earlier) == Signed(later - earlier)

(* Where a segment is not in flight.                                       *)
NoSeg == [xmit |-> 0, rto |-> 0, resendts |-> 0, age |-> 0, wrapped |-> FALSE]

Flying == {s \in 1..Segs : seg[s].xmit > 0}

Init ==
    /\ now \in 0..(ClockMod - 1)
    /\ current = now
    /\ ts_flush = (now + Interval) % Word
    /\ seg = [s \in 1..Segs |-> NoSeg]
    /\ sleep = Interval
    /\ quiet = 0

-----------------------------------------------------------------------------
(* Mutant: the timer starts again without the segment being sent.          *)
ResentSilently(g, t) ==
    [g EXCEPT !.rto = @ + Rto, !.resendts = (t + g.rto + Rto) % Word]

(* A segment that is due, after it was sent again at time t.               *)
Resent(g, t) ==
    [xmit |-> g.xmit + 1, rto |-> g.rto + Rto,
     resendts |-> (t + g.rto + Rto) % Word, age |-> 0, wrapped |-> now < t]

Due(g, t) == g.xmit > 0 /\ Diff(t, g.resendts) >= 0

(* ikcp_flush at kcp->current = t on the segments of segs.                 *)
Flush(segs, t) ==
    /\ \A s \in 1..Segs : Due(segs[s], t) => segs[s].xmit < MaxXmit
    /\ seg' = [s \in 1..Segs |->
                  IF Due(segs[s], t) THEN Resent(segs[s], t) ELSE segs[s]]
    /\ quiet' = 0

(* ts_flush as ikcp_update and ikcp_check see it at time t.                *)
FlushTime(t) ==
    IF Diff(t, ts_flush) >= Slack \/ Diff(t, ts_flush) < -Slack
    THEN t ELSE ts_flush

(* Mutant: ts_flush is not given up, however far away it is.               *)
UpdateNoSlack ==
    /\ current' = now
    /\ IF Diff(now, ts_flush) >= 0
       THEN /\ ts_flush' = LET next == (ts_flush + Interval) % Word
                           IN  IF Diff(now, next) >= 0
                               THEN (now + Interval) % Word ELSE next
            /\ Flush(seg, now)
       ELSE UNCHANGED <<ts_flush, seg, quiet>>

(* ikcp_update at the present time.                                        *)
Update ==
    /\ current' = now
    /\ IF Diff(now, FlushTime(now)) >= 0
       THEN /\ ts_flush' = LET next == (FlushTime(now) + Interval) % Word
                           IN  IF Diff(now, next) >= 0
                               THEN (now + Interval) % Word ELSE next
            /\ Flush(seg, now)
       ELSE UNCHANGED <<ts_flush, seg, quiet>>

Least(S) == CHOOSE x \in S : \A y \in S : x <= y

(* Mutant: neither ts_flush nor the interval bounds the sleep.             *)
CheckPackets(t, flush, segs) ==
    LET fly    == {s \in 1..Segs : segs[s].xmit > 0}
        packet == {Diff(segs[s].resendts, t) : s \in fly}
    IN  IF \E d \in packet : d <= 0
        THEN Signed(t) ELSE Signed(t + Least(packet \cup {Slack}))

(* ikcp_check: the time of the next update, and what lkcp_check makes of   *)
(* it, a number with a sign.                                               *)
Check(t, flush, segs) ==
    LET fly    == {s \in 1..Segs : segs[s].xmit > 0}
        packet == {Diff(segs[s].resendts, t) : s \in fly}
    IN  IF \/ Diff(t, flush) >= Slack \/ Diff(t, flush) < -Slack
           \/ Diff(t, flush) >= 0
           \/ \E d \in packet : d <= 0
        THEN Signed(t)
        ELSE Signed(t + Least(packet \cup {Diff(flush, t), Interval}))

(* The update coroutine wakes, updates, and asks how long to sleep.        *)
Wake ==
    /\ sleep = 0
    /\ Update
    /\ LET diff == Check(now, ts_flush', seg') - now
       IN  \E late \in 0..Late : sleep' = (IF diff > 0 THEN diff ELSE Nap) + late
    /\ UNCHANGED now

(* The coroutine of a datagram updates too, at any time.                   *)
UpdateOnDatagram == Update /\ UNCHANGED <<now, sleep>>

(* Mutant: the timer of a new segment runs from 0.                         *)
NewSegFromZero(t) ==
    [xmit |-> 1, rto |-> Rto, resendts |-> (Rto + RtoMin) % Word, age |-> 0,
     wrapped |-> now < t]

NewSeg(t) ==
    [xmit |-> 1, rto |-> Rto, resendts |-> (t + Rto + RtoMin) % Word, age |-> 0,
     wrapped |-> now < t]

(* lkcp_send and lkcp_flush (response_msg): the flush runs at kcp->current,*)
(* the time of the last update, whatever the time is.                      *)
SendAndFlush(s) ==
    /\ seg[s].xmit = 0
    /\ Flush([seg EXCEPT ![s] = NewSeg(current)], current)
    /\ UNCHANGED <<now, current, ts_flush, sleep>>

(* An acknowledgement takes the segment out of snd_buf.                    *)
Ack(s) ==
    /\ seg[s].xmit > 0
    /\ seg' = [seg EXCEPT ![s] = NoSeg]
    /\ UNCHANGED <<now, current, ts_flush, sleep, quiet>>

Older(n) == IF n < MaxAge THEN n + 1 ELSE n

(* A tick passes: the update coroutine, if its sleep is over, runs first.  *)
Tick ==
    /\ sleep > 0
    /\ sleep' = sleep - 1
    /\ now' = (now + 1) % ClockMod
    /\ quiet' = Older(quiet)
    /\ seg' = [s \in 1..Segs |->
                  IF seg[s].xmit = 0 THEN seg[s]
                  ELSE [seg[s] EXCEPT !.age = Older(@),
                                      !.wrapped = @ \/ now' = 0]]
    /\ UNCHANGED <<current, ts_flush>>

-----------------------------------------------------------------------------
Next ==
    \/ Wake
    \/ UpdateOnDatagram
    \/ \E s \in 1..Segs : SendAndFlush(s) \/ Ack(s)
    \/ Tick

Spec == Init /\ [][Next]_vars

-----------------------------------------------------------------------------
(* The type of every variable.                                             *)
TypeOK ==
    /\ now \in 0..(ClockMod - 1) /\ current \in 0..(ClockMod - 1)
    /\ ts_flush \in 0..(Word - 1)
    /\ seg \in [1..Segs -> [xmit : 0..MaxXmit, rto : 0..(MaxXmit * Rto),
                            resendts : 0..(Word - 1), age : 0..MaxAge,
                            wrapped : BOOLEAN]]
    /\ sleep \in 0..(Interval + Nap + Late) /\ quiet \in 0..MaxAge

(* A segment's timer: what was added to the time it was sent at.           *)
Timer(g) == g.rto + (IF g.xmit = 1 THEN RtoMin ELSE 0)

(* A segment that is not acknowledged is sent again soon after its timer   *)
(* ran out: a round of the update coroutine that finds it due too early    *)
(* for ts_flush, and the next one.  ikcp_check's time and the flushes that *)
(* other coroutines cause in between never make the coroutine oversleep    *)
(* it, unless the clock wraps under it.                                    *)
Prompt(g)    == g.age <= Timer(g) + 2 * Round
PromptResend == \A s \in Flying : seg[s].wrapped \/ Prompt(seg[s])

(* The same when the clock has wrapped since the segment was sent          *)
(* (mySockServer.lua 153: the coroutine keeps the kcp reliable until it is *)
(* destroyed).                                                             *)
PromptAcrossWrap == \A s \in Flying : Prompt(seg[s])

(* The control block is flushed regularly, across every wrap of the clock: *)
(* acknowledgements and probes do not wait.                                *)
FlushGoesOn == quiet <= 2 * Round

(* No segment is sent again before its timer has run out, but for the time *)
(* by which kcp->current is behind when a flush comes between two updates. *)
NeverEarly ==
    [][\A s \in Flying :
          ~seg[s].wrapped /\ seg'[s].xmit > seg[s].xmit
              => seg[s].age + Round >= Timer(seg[s])]_vars
===============================================================================
