------------------------------- MODULE KcpSegs -------------------------------
(***************************************************************************)
(* The segment lists of src/lua-kcp/ikcp.c and the congestion window: one  *)
(* end sends, the other acknowledges.  KcpArq takes snd_buf, rcv_buf and   *)
(* acklist for sets of integers and congestion control for switched off;   *)
(* here they are the lists of the code, searched from the end the code     *)
(* starts at and left where it breaks off, in sequence numbers that wrap   *)
(* at Word and are compared by a signed difference, with nodelay(0, 10, 0, *)
(* 0) or with fast resend, as the test programs set it.                    *)
(*                                                                         *)
(* A datagram carries the integers the sequence numbers stand for, and the *)
(* code sees them modulo Word.  Next to the lists, history variables keep  *)
(* the sets of integers they should hold.                                  *)
(*                                                                         *)
(* A PUSH may arrive once it was sent, again and again, as long as it is   *)
(* not acknowledged and until it is Old numbers behind; what the timers    *)
(* decide, a flush chooses.                                                *)
(***************************************************************************)
EXTENDS Integers, Sequences, SequencesExt, FiniteSetsExt

CONSTANTS Word,         \* 2^32
          SndWnd, RcvWnd,
          Resend,       \* kcp->fastresend, 0 for no fast resend
          Mss,
          Block,        \* the first size of acklist: 8
          Base,         \* sequence numbers used up before the behaviour
          MaxSegs,      \* bound: segments sent in a behaviour
          Old,          \* bound: how late a PUSH may come, in numbers
          MaxAcks,      \* bound: acknowledgements that wait for a flush
          NetCap        \* bound: datagrams of acknowledgements in transit

ASSUME SizesAssumption ==
    /\ {Word, SndWnd, RcvWnd, Mss, Block} \subseteq Nat \ {0} /\ Word % 2 = 0
    /\ {Resend, Base, MaxSegs, Old, MaxAcks, NetCap} \subseteq Nat
    /\ Old <= Base
    /\ Old + MaxSegs + RcvWnd < Word \div 2

VARIABLES
    snd_buf,    \* the list: [sn, fastack]
    snd_una, snd_nxt, rmt_wnd,
    cw,         \* [cwnd, ssthresh, incr]
    rcv_buf,    \* the list, of sequence numbers
    rcv_nxt,
    nrcv_que,   \* length of rcv_queue
    acklist,    \* the first ackcount entries, as integers
    ackblock,
    net,        \* datagrams of acknowledgements: [una, wnd, sns]
    sent,       \* history: the integer of snd_nxt
    out,        \* history: the integers sent and not acknowledged
    nxt,        \* history: the integer of rcv_nxt
    got,        \* history: the integers received beyond nxt
    owed        \* history: the PUSHes accepted since the last flush

sndVars == <<snd_buf, snd_una, snd_nxt, rmt_wnd, cw, sent, out>>
rcvVars == <<rcv_buf, rcv_nxt, nrcv_que, nxt, got>>
ackVars == <<acklist, ackblock, owed>>
vars    == <<sndVars, rcvVars, ackVars, net>>

(* A sequence number as IUINT32 holds it.                                  *)
W(n) == n % Word

(* _itimediff.                                                             *)
Diff(later, earlier) ==
    LET half == Word \div 2 IN ((later - earlier + half) % Word) - half

Init ==
    /\ snd_buf = <<>> /\ snd_una = W(Base) /\ snd_nxt = W(Base)
    /\ rmt_wnd = RcvWnd
    /\ cw = [cwnd |-> 0, ssthresh |-> 2, incr |-> 0]
    /\ rcv_buf = <<>> /\ rcv_nxt = W(Base) /\ nrcv_que = 0
    /\ acklist = <<>> /\ ackblock = 0 /\ owed = <<>>
    /\ net = {}
    /\ sent = Base /\ out = {} /\ nxt = Base /\ got = {}

-----------------------------------------------------------------------------
(* Mutant: sequence numbers are compared as they are.                      *)
PlacedUnsigned(list, sn) ==
    LET p == Max({i \in DOMAIN list : list[i] <= sn} \cup {0})
    IN  IF p > 0 /\ list[p] = sn THEN list ELSE InsertAt(list, p + 1, sn)

(* ikcp_parse_data looks for the place of sn from the back of rcv_buf, and *)
(* drops a segment that is there already.                                  *)
Placed(list, sn) ==
    LET p == Max({i \in DOMAIN list : list[i] = sn \/ Diff(sn, list[i]) > 0} \cup {0})
    IN  IF p > 0 /\ list[p] = sn THEN list ELSE InsertAt(list, p + 1, sn)

(* Mutant: `while' became `if'.                                            *)
MoveOnce(list, que) ==
    LET m == IF list # <<>> /\ list[1] = W(rcv_nxt) /\ que < RcvWnd THEN 1 ELSE 0
    IN  /\ rcv_buf' = SubSeq(list, m + 1, Len(list))
        /\ rcv_nxt' = W(rcv_nxt + m)
        /\ nrcv_que' = que + m
        /\ nxt' = nxt + m

(* The loop that moves available data from rcv_buf to rcv_queue.           *)
Move(list, que) ==
    LET m == Min({i \in 0..Len(list) :
                    \/ i = Len(list)
                    \/ list[i + 1] # W(rcv_nxt + i)
                    \/ que + i >= RcvWnd})
    IN  /\ rcv_buf' = SubSeq(list, m + 1, Len(list))
        /\ rcv_nxt' = W(rcv_nxt + m)
        /\ nrcv_que' = que + m
        /\ nxt' = nxt + m

(* Mutant: the entries are not copied into the larger block.               *)
AckPushNoCopy(n) ==
    IF Len(acklist) + 1 > ackblock
    THEN /\ acklist' = <<n>>
         /\ ackblock' = IF ackblock = 0 THEN Block ELSE 2 * ackblock
    ELSE acklist' = Append(acklist, n) /\ UNCHANGED ackblock

(* The sizes of acklist's block: the first one, doubled again and again.   *)
Blocks[i \in 0..MaxAcks] == IF i = 0 THEN Block ELSE 2 * Blocks[i - 1]

(* ikcp_ack_push: the block is doubled until the new entry fits.           *)
AckPush(n) ==
    /\ acklist' = Append(acklist, n)
    /\ ackblock' = IF Len(acklist) + 1 <= ackblock THEN ackblock
                   ELSE Min({b \in Range(Blocks) : b > Len(acklist)})

(* ikcp_input of the PUSH numbered n, sent just now or long ago.           *)
InputPush(n) ==
    LET sn == W(n)
    IN  /\ n < sent /\ (n \in out \/ n >= sent - Old) /\ Len(acklist) < MaxAcks
        /\ IF Diff(sn, W(rcv_nxt + RcvWnd)) < 0
           THEN AckPush(n) /\ owed' = Append(owed, n)
           ELSE UNCHANGED ackVars
        /\ IF Diff(sn, W(rcv_nxt + RcvWnd)) < 0 /\ Diff(sn, rcv_nxt) >= 0
           THEN /\ Move(Placed(rcv_buf, sn), nrcv_que)
                /\ got' = {k \in got \cup {n} : k >= nxt'}
           ELSE UNCHANGED rcvVars
        /\ UNCHANGED <<sndVars, net>>

(* ikcp_recv of a message of one fragment.                                 *)
Recv ==
    /\ nrcv_que > 0
    /\ Move(rcv_buf, nrcv_que - 1)
    /\ got' = {k \in got : k >= nxt'}
    /\ UNCHANGED <<sndVars, ackVars, net>>

(* The receiver's ikcp_flush: the waiting acknowledgements, or, without    *)
(* any, the answer to a window probe.  The network may lose it, or an      *)
(* older one.                                                              *)
FlushAcks ==
    /\ \E kept \in SUBSET (net \cup {[una |-> nxt, wnd |-> RcvWnd - nrcv_que,
                                      sns |-> acklist]}) :
          Cardinality(kept) <= NetCap /\ net' = kept
    /\ acklist' = <<>> /\ owed' = <<>>
    /\ UNCHANGED <<sndVars, rcvVars, ackblock>>

-----------------------------------------------------------------------------
(* ikcp_parse_una drops segments from the front until one is not below una.*)
ParseUna(list, una) ==
    SubSeq(list, 1 + Min({i \in 0..Len(list) :
                            i = Len(list) \/ Diff(una, list[i + 1].sn) <= 0}),
           Len(list))

(* ikcp_shrink_buf.                                                        *)
Shrink(list) == IF list = <<>> THEN snd_nxt ELSE list[1].sn

(* Counts beyond the threshold are not told apart.                         *)
Passed(seg) == [seg EXCEPT !.fastack = IF @ < Resend THEN @ + 1 ELSE @]

(* Mutant: a late acknowledgement takes the first segment.                 *)
ParseAckFirst(list, una, sn) ==
    LET at == Min({i \in DOMAIN list : Diff(list[i].sn, sn) >= 0} \cup {Len(list) + 1})
    IN  [i \in 1..(at - 1) |-> Passed(list[i])] \o SubSeq(list, at + 1, Len(list))

(* ikcp_parse_ack: the segment is taken out, and every segment before it   *)
(* was passed.  If it is not there any more, all of them count as passed.  *)
ParseAck(list, una, sn) ==
    LET at == Min({i \in DOMAIN list : list[i].sn = sn} \cup {Len(list) + 1})
    IN  IF Diff(sn, una) < 0 \/ Diff(sn, snd_nxt) >= 0 THEN list
        ELSE [i \in 1..(at - 1) |-> Passed(list[i])] \o SubSeq(list, at + 1, Len(list))

(* One segment that carries an acknowledgement.                            *)
AfterAck(list, una, n) ==
    LET rest == ParseUna(list, W(una)) IN ParseAck(rest, Shrink(rest), W(n))

(* One datagram of acknowledgements, segment by segment.                   *)
AfterAcks(d) ==
    LET list[i \in 0..Len(d.sns)] ==
            IF i = 0 THEN snd_buf ELSE AfterAck(list[i - 1], d.una, d.sns[i])
    IN  IF d.sns = <<>> THEN ParseUna(snd_buf, W(d.una)) ELSE list[Len(d.sns)]

(* Mutant: the comparison is the other way round.                          *)
GrownSlowly(c, wnd) ==
    IF c.cwnd >= wnd THEN c
    ELSE IF c.cwnd < c.ssthresh THEN [c EXCEPT !.cwnd = @ + 1, !.incr = @ + Mss]
    ELSE LET i == IF c.incr < Mss THEN Mss ELSE c.incr
             j == i + (Mss * Mss) \div i + Mss \div 16
         IN  [c EXCEPT !.incr = j, !.cwnd = IF (@ + 1) * Mss <= j THEN @ + 1 ELSE @]

(* The congestion window after a datagram that moved snd_una.  Its last    *)
(* test, cwnd > rmt_wnd, is never true: cwnd was less and grew by one.     *)
Grown(c, wnd) ==
    IF c.cwnd >= wnd THEN c
    ELSE IF c.cwnd < c.ssthresh THEN [c EXCEPT !.cwnd = @ + 1, !.incr = @ + Mss]
    ELSE LET i == IF c.incr < Mss THEN Mss ELSE c.incr
             j == i + (Mss * Mss) \div i + Mss \div 16
         IN  [c EXCEPT !.incr = j, !.cwnd = IF (@ + 1) * Mss >= j THEN @ + 1 ELSE @]

InputAcks(d) ==
    /\ d \in net /\ net' \in {net, net \ {d}}
    /\ rmt_wnd' = d.wnd
    /\ snd_buf' = AfterAcks(d)
    /\ snd_una' = Shrink(snd_buf')
    /\ cw' = IF Diff(snd_una', snd_una) > 0 THEN Grown(cw, d.wnd) ELSE cw
    /\ out' = {n \in out : n >= d.una /\ n \notin Range(d.sns)}
    /\ UNCHANGED <<snd_nxt, sent, rcvVars, ackVars>>

-----------------------------------------------------------------------------
AtLeast(x, y) == IF x < y THEN y ELSE x

(* Mutants: a sender that never sent keeps its window of 0; incr keeps its *)
(* value when the window falls to 1.                                       *)
WindowStaysShut(change, lost, inflight, eff) ==
    IF lost THEN [ssthresh |-> AtLeast(eff \div 2, 2), cwnd |-> 1, incr |-> Mss]
    ELSE cw
WindowKeepsIncr(change, lost, inflight, eff) ==
    IF lost \/ cw.cwnd < 1
    THEN [ssthresh |-> AtLeast(eff \div 2, 2), cwnd |-> 1, incr |-> cw.incr]
    ELSE cw

(* The end of ikcp_flush: what a fast resend makes of the congestion       *)
(* window, what a timeout makes of that, and a window that is never 0.     *)
WindowAfter(change, lost, inflight, eff) ==
    LET half    == AtLeast(inflight \div 2, 2)
        changed == IF change
                   THEN [ssthresh |-> half, cwnd |-> half + Resend,
                         incr |-> (half + Resend) * Mss]
                   ELSE cw
        fallen  == IF lost
                   THEN [ssthresh |-> AtLeast(eff \div 2, 2), cwnd |-> 1, incr |-> Mss]
                   ELSE changed
    IN  IF fallen.cwnd < 1 THEN [fallen EXCEPT !.cwnd = 1, !.incr = Mss] ELSE fallen

(* The sender's ikcp_flush.  due: the segments whose timer has run out.    *)
Flush(due) ==
    LET eff  == Min({SndWnd, rmt_wnd, cw.cwnd})
        m    == Min({i \in 0..(Base + MaxSegs - sent) :
                        \/ i = Base + MaxSegs - sent
                        \/ Diff(W(snd_nxt + i), W(snd_una + eff)) >= 0})
        fast == {i \in DOMAIN snd_buf \ due : Resend > 0 /\ snd_buf[i].fastack >= Resend}
        old  == [i \in DOMAIN snd_buf |->
                    IF i \in fast THEN [snd_buf[i] EXCEPT !.fastack = 0] ELSE snd_buf[i]]
        new  == [i \in 1..m |-> [sn |-> W(snd_nxt + i - 1), fastack |-> 0]]
    IN  /\ due \subseteq DOMAIN snd_buf
        /\ snd_buf' = old \o new
        /\ snd_nxt' = W(snd_nxt + m)
        /\ cw' = WindowAfter(fast # {}, due # {}, W(snd_nxt + m - snd_una), eff)
        /\ sent' = sent + m
        /\ out' = out \cup (sent..(sent + m - 1))
        /\ UNCHANGED <<snd_una, rmt_wnd, rcvVars, ackVars, net>>

-----------------------------------------------------------------------------
Number == (Base - Old)..(Base + MaxSegs - 1)

Next == \/ \E n \in Number : InputPush(n)
        \/ Recv
        \/ FlushAcks
        \/ \E d \in net : InputAcks(d)
        \/ \E due \in SUBSET DOMAIN snd_buf : Flush(due)

Spec == Init /\ [][Next]_vars

(* Both ends flush for ever, the receiving program reads, the first        *)
(* segment that is not acknowledged is sent until it arrives (KcpClock,    *)
(* KcpArq), and one of the answers gets through.                           *)
Arrive == out # {} /\ InputPush(Min(out))
Answer == \E d \in net : d.una = nxt /\ d.wnd = RcvWnd - nrcv_que /\ InputAcks(d)
Reply  == FlushAcks /\ \E d \in net' : d.una = nxt /\ d.wnd = RcvWnd - nrcv_que

Fairness ==
    /\ WF_vars(Flush({})) /\ WF_vars(Recv)
    /\ WF_vars(Reply) /\ SF_vars(Answer) /\ SF_vars(Arrive)

FairSpec == Spec /\ Fairness

-----------------------------------------------------------------------------
Words == 0..(Word - 1)

(* The type of every variable.                                             *)
TypeOK ==
    /\ snd_buf \in Seq([sn : Words, fastack : 0..Resend])
    /\ {snd_una, snd_nxt, rcv_nxt} \subseteq Words
    /\ rmt_wnd \in 0..RcvWnd /\ nrcv_que \in 0..RcvWnd
    /\ cw \in [cwnd : Nat, ssthresh : Nat, incr : Nat]
    /\ rcv_buf \in Seq(Words)
    /\ acklist \in Seq(Number) /\ owed \in Seq(Number) /\ ackblock \in Nat
    /\ net \subseteq [una : Nat, wnd : 0..RcvWnd, sns : Seq(Number)]
    /\ sent \in Nat /\ nxt \in Nat /\ out \subseteq Number /\ got \subseteq Number

(* The words of a list, in its order, are those of the integers of S, in   *)
(* theirs.  The integers are read off the words, as those nearest to n.    *)
Increasing(s) == \A i, j \in DOMAIN s : i < j => s[i] < s[j]

Lists(words, S, n) ==
    LET s == [i \in DOMAIN words |-> n + Diff(words[i], W(n))]
    IN  /\ words = [i \in DOMAIN words |-> W(s[i])]
        /\ Increasing(s) /\ Range(s) = S

(* rcv_buf holds each segment received out of order once, in the order of  *)
(* the stream, whatever the order of arrival, repetitions, segments from   *)
(* before and from behind the window, and though the numbers wrap.         *)
RcvList == rcv_nxt = W(nxt) /\ Lists(rcv_buf, got, nxt)

(* snd_buf holds the segments nobody has acknowledged, in order: leaving   *)
(* ikcp_parse_una at the first segment that stays, and ignoring an         *)
(* acknowledgement outside snd_una..snd_nxt, takes neither too few nor too *)
(* many, and snd_una is the first of them.                                 *)
SndList ==
    /\ Lists([i \in DOMAIN snd_buf |-> snd_buf[i].sn], out, sent)
    /\ snd_nxt = W(sent)
    /\ snd_una = W(Min(out \cup {sent}))

(* An entry of acklist is written inside its block and is there at the     *)
(* next flush, also when the block was made larger in between.             *)
AcksFit == acklist = owed /\ Len(acklist) <= ackblock

(* incr follows cwnd: it is at least one segment, so the division by it in *)
(* ikcp_input is sound, and never ahead of cwnd segments.                  *)
IncrTracks ==
    /\ cw.ssthresh >= 2
    /\ cw.cwnd > 0 => cw.incr >= Mss
    /\ cw.incr <= cw.cwnd * Mss

(* As the comparison in ikcp_input is written (`>=', ikcp.c:796), cwnd     *)
(* grows by one with every datagram that moves snd_una, beyond ssthresh as *)
(* below it: there is no phase in which it grows more slowly.              *)
GrowsEachTime ==
    [][Diff(snd_una', snd_una) > 0 /\ cw.cwnd < rmt_wnd' => cw'.cwnd = cw.cwnd + 1]_vars

(* The integers that the lists and counters stand for, read off the words. *)
OutRead == {sent + Diff(snd_buf[i].sn, snd_nxt) : i \in DOMAIN snd_buf}
GotRead == {nxt + Diff(rcv_buf[i], rcv_nxt) : i \in DOMAIN rcv_buf}
UnaRead == sent + Diff(snd_una, snd_nxt)

(* Read like that, the lists implement the sliding window over integers    *)
(* and sets that never wraps: no search that starts at the end of a list,  *)
(* comparison of wrapped numbers or late datagram makes a difference       *)
(* between the two.                                                        *)
Ideal == INSTANCE SlidingWindow
         WITH FirstWnd <- RcvWnd, wnd <- rmt_wnd, held <- nrcv_que,
              out <- OutRead, una <- UnaRead, got <- GotRead
ImplementsWindow == Ideal!Spec

(* Though cwnd is 0 when the first flush computes the window, everything   *)
(* is sent and acknowledged in the end.                                    *)
AllAcked == <>(sent = Base + MaxSegs /\ out = {})
=============================================================================
