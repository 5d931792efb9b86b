------------------------------- MODULE KcpArq -------------------------------
(***************************************************************************)
(* The ARQ core of src/lua-kcp/ikcp.c: two ikcpcb control blocks, A and B, *)
(* of one conversation, each driven by its program (ikcp_send, ikcp_recv), *)
(* by its clock (ikcp_update / ikcp_flush) and by the datagrams that reach *)
(* it (ikcp_input), over a network that loses, duplicates and reorders.    *)
(*                                                                         *)
(* The control blocks are configured as every control block of the servers *)
(* is (mySockServer.lua:400-404): nodelay(0, 50, 0, 1) turns congestion    *)
(* control off (nocwnd = 1), so the sending window is min(snd_wnd,         *)
(* rmt_wnd), and fast retransmission off (resent = 0xffffffff), so a       *)
(* segment is sent again when its timer expires and for no other reason.   *)
(* rx_rto, fastack, ssthresh, cwnd and incr then decide nothing but when,  *)
(* and the model leaves `when' open: any set of segments may be due.       *)
(*                                                                         *)
(* One datagram carries one segment.  ikcp_flush packs several into one    *)
(* datagram when they fit the mtu and ikcp_input takes a datagram apart    *)
(* segment by segment; losing, repeating or delaying a datagram does to    *)
(* its segments what the network here may do to each of them.              *)
(***************************************************************************)
EXTENDS Integers, Sequences, FiniteSetsExt

CONSTANTS A, B,         \* the two control blocks
          Senders,      \* the ends whose program calls ikcp_send
          MaxFrag,      \* most fragments ikcp_send accepts: 255
          SndWnd,       \* snd_wnd
          RcvWnd,       \* rcv_wnd
          RmtWnd,       \* rmt_wnd before any segment came: IKCP_WND_RCV
          MaxSegs,      \* bound: fragments one end sends in a behaviour
          NetCap,       \* bound: datagrams the network holds
          Dup           \* TRUE if the network duplicates datagrams

ASSUME EndsAssumption == A # B /\ Senders \subseteq {A, B} /\ Dup \in BOOLEAN
ASSUME SizesAssumption ==
    /\ MaxFrag \in Nat /\ MaxSegs \in Nat /\ NetCap \in Nat
    /\ SndWnd \in Nat \ {0} /\ RcvWnd \in Nat \ {0} /\ RmtWnd \in Nat

Endpoint == {A, B}
Peer(e)  == IF e = A THEN B ELSE A

VARIABLES
    stream,     \* history: the fragments ikcp_send cut, in order
    delivered,  \* history: the fragments ikcp_recv returned, in order
    snd_queue,  \* fragments not yet given a sequence number
    snd_buf,    \* sn |-> fragment: numbered and not acknowledged
    snd_una, snd_nxt,
    rmt_wnd,    \* the window the peer last advertised
    probe,      \* the IKCP_ASK_SEND and IKCP_ASK_TELL bits
    probe_wait, \* TRUE once the window probe timer is armed
    acklist,    \* sequence numbers to acknowledge at the next flush
    rcv_nxt,
    rcv_buf,    \* sn |-> fragment: received and not yet moved on
    rcv_queue,  \* fragments in order, waiting for ikcp_recv
    net         \* datagrams in transit

sndVars == <<snd_queue, snd_buf, snd_una, snd_nxt>>
rcvVars == <<rcv_nxt, rcv_buf, rcv_queue>>
ctlVars == <<rmt_wnd, probe, probe_wait, acklist>>
vars    == <<stream, delivered, sndVars, rcvVars, ctlVars, net>>

Cmd     == {"PUSH", "ACK", "WASK", "WINS"}
Piece   == [frg : Nat, data : Nat]
NoPiece == [frg |-> 0, data |-> 0]
Packet  == [to : Endpoint, cmd : Cmd, sn : Nat, una : Nat, wnd : Nat,
            body : Piece]

(* seg->frg = count - i - 1; data is the fragment's place in the stream.   *)
Fragments(before, n) == [i \in 1..n |-> [frg |-> n - i, data |-> before + i]]

(* iqueue_add into the list ordered by sn, unless sn is there already.     *)
Store(buf, sn, body) ==
    [k \in DOMAIN buf \cup {sn} |-> IF k \in DOMAIN buf THEN buf[k] ELSE body]

Keep(buf, S) == [k \in S |-> buf[k]]

(* ikcp_wnd_unused: the room a control block advertises.                   *)
Unused(e) == IF Len(rcv_queue[e]) < RcvWnd THEN RcvWnd - Len(rcv_queue[e]) ELSE 0

(* Mutant: `while' became `if'.                                            *)
MovableOnce(buf, nxt, que) ==
    IF nxt \in DOMAIN buf /\ Len(que) < RcvWnd THEN 1 ELSE 0

(* The loop that moves available data from rcv_buf to rcv_queue stops at   *)
(* the first sequence number missing from rcv_buf, or when rcv_queue holds *)
(* rcv_wnd fragments.                                                      *)
Movable(buf, nxt, que) ==
    Min({m \in 0..RcvWnd : nxt + m \notin DOMAIN buf \/ Len(que) + m >= RcvWnd})

MoveReady(e, buf, que) ==
    LET nxt == rcv_nxt[e]
        m   == Movable(buf, nxt, que)
    IN  /\ rcv_queue' = [rcv_queue EXCEPT ![e] =
                            que \o [i \in 1..m |-> buf[nxt + i - 1]]]
        /\ rcv_buf' = [rcv_buf EXCEPT ![e] =
                            Keep(buf, DOMAIN buf \ (nxt..(nxt + m - 1)))]
        /\ rcv_nxt' = [rcv_nxt EXCEPT ![e] = nxt + m]

-----------------------------------------------------------------------------
(* ikcp_create, then getKcp's wndsize, nodelay and first update, which     *)
(* flushes a control block that holds nothing.                             *)
Init ==
    /\ stream     = [e \in Endpoint |-> <<>>]
    /\ delivered  = [e \in Endpoint |-> <<>>]
    /\ snd_queue  = [e \in Endpoint |-> <<>>]
    /\ snd_buf    = [e \in Endpoint |-> <<>>]
    /\ snd_una    = [e \in Endpoint |-> 0]
    /\ snd_nxt    = [e \in Endpoint |-> 0]
    /\ rmt_wnd    = [e \in Endpoint |-> RmtWnd]
    /\ probe      = [e \in Endpoint |-> {}]
    /\ probe_wait = [e \in Endpoint |-> FALSE]
    /\ acklist    = [e \in Endpoint |-> {}]
    /\ rcv_nxt    = [e \in Endpoint |-> 0]
    /\ rcv_buf    = [e \in Endpoint |-> <<>>]
    /\ rcv_queue  = [e \in Endpoint |-> <<>>]
    /\ net        = {}

-----------------------------------------------------------------------------
(* ikcp_send of a message that takes n fragments.  A message that needs    *)
(* more than MaxFrag is refused (-2) before anything is queued.            *)
Send(e, n) ==
    LET frags == Fragments(Len(stream[e]), n)
    IN  /\ Len(stream[e]) + n <= MaxSegs
        /\ stream' = [stream EXCEPT ![e] = @ \o frags]
        /\ snd_queue' = [snd_queue EXCEPT ![e] = @ \o frags]
        /\ UNCHANGED <<delivered, snd_buf, snd_una, snd_nxt, rcvVars, ctlVars, net>>

-----------------------------------------------------------------------------
(* Mutants: a fragment too many is asked for; the count is not looked at;  *)
(* the merge loop does not stop at frg = 0.                                *)
CompleteOneMore(que)    == que # <<>> /\ Len(que) > que[1].frg + 1
CompleteWhenAny(que)    == que # <<>>
MessageEndOfQueue(que)  == Len(que)

(* ikcp_peeksize finds no message unless the queue holds as many fragments *)
(* as the first one says.                                                  *)
Complete(que) == que # <<>> /\ Len(que) >= que[1].frg + 1

(* The merge loop of ikcp_recv stops after the first frg = 0.              *)
MessageEnd(que) == Min({i \in 1..Len(que) : que[i].frg = 0} \cup {Len(que)})

(* ikcp_recv with a buffer that is large enough (the Lua bindings pass 4MB *)
(* or the size ikcp_peeksize returned).                                    *)
Recv(e) ==
    LET que     == rcv_queue[e]
        k       == MessageEnd(que)
        recover == Len(que) >= RcvWnd
    IN  /\ Complete(que)
        /\ delivered' = [delivered EXCEPT ![e] = @ \o SubSeq(que, 1, k)]
        /\ MoveReady(e, rcv_buf[e], SubSeq(que, k + 1, Len(que)))
        /\ probe' = [probe EXCEPT ![e] =
                        IF recover /\ Len(rcv_queue'[e]) < RcvWnd
                        THEN @ \cup {"TELL"} ELSE @]
        /\ UNCHANGED <<stream, sndVars, rmt_wnd, probe_wait, acklist, net>>

-----------------------------------------------------------------------------
(* Mutant: una itself is taken to be acknowledged.                         *)
UnackedPastUna(e, p) ==
    {sn \in DOMAIN snd_buf[e] : sn > p.una /\ ~(p.cmd = "ACK" /\ sn = p.sn)}

(* What ikcp_input does for every segment, whatever its command: rmt_wnd,  *)
(* ikcp_parse_una, ikcp_parse_ack for an ACK, and ikcp_shrink_buf.         *)
Unacked(e, p) ==
    {sn \in DOMAIN snd_buf[e] : sn >= p.una /\ ~(p.cmd = "ACK" /\ sn = p.sn)}

(* Mutant: snd_una is taken from the segment, not from snd_buf.            *)
AcknowledgeUna(e, p) ==
    /\ rmt_wnd' = [rmt_wnd EXCEPT ![e] = p.wnd]
    /\ snd_buf' = [snd_buf EXCEPT ![e] = Keep(@, Unacked(e, p))]
    /\ snd_una' = [snd_una EXCEPT ![e] = p.una]
    /\ UNCHANGED <<snd_queue, snd_nxt>>

Acknowledge(e, p) ==
    LET left == Unacked(e, p)
    IN  /\ rmt_wnd' = [rmt_wnd EXCEPT ![e] = p.wnd]
        /\ snd_buf' = [snd_buf EXCEPT ![e] = Keep(@, left)]
        /\ snd_una' = [snd_una EXCEPT ![e] =
                          IF left = {} THEN snd_nxt[e] ELSE Min(left)]
        /\ UNCHANGED <<snd_queue, snd_nxt>>

(* The network hands over a datagram and may keep it to repeat it.         *)
Take(e, p) ==
    /\ p \in net
    /\ p.to = e
    /\ \/ net' = net \ {p}
       \/ Dup /\ net' = net

(* Mutant: the receive window's upper bound is not tested before the ACK   *)
(* is queued.                                                              *)
InputPushAckAll(e, p) ==
    /\ Take(e, p) /\ p.cmd = "PUSH"
    /\ Acknowledge(e, p)
    /\ acklist' = [acklist EXCEPT ![e] = @ \cup {p.sn}]
    /\ IF p.sn \in rcv_nxt[e]..(rcv_nxt[e] + RcvWnd - 1)
       THEN MoveReady(e, Store(rcv_buf[e], p.sn, p.body), rcv_queue[e])
       ELSE UNCHANGED rcvVars
    /\ UNCHANGED <<stream, delivered, probe, probe_wait>>

(* ikcp_input of a PUSH: ignored beyond the receive window; acknowledged   *)
(* below it; below or within, stored once (ikcp_parse_data).               *)
InputPush(e, p) ==
    /\ Take(e, p) /\ p.cmd = "PUSH"
    /\ Acknowledge(e, p)
    /\ acklist' = [acklist EXCEPT ![e] =
                      IF p.sn < rcv_nxt[e] + RcvWnd THEN @ \cup {p.sn} ELSE @]
    /\ IF p.sn \in rcv_nxt[e]..(rcv_nxt[e] + RcvWnd - 1)
       THEN MoveReady(e, Store(rcv_buf[e], p.sn, p.body), rcv_queue[e])
       ELSE UNCHANGED rcvVars
    /\ UNCHANGED <<stream, delivered, probe, probe_wait>>

InputAck(e, p) ==
    /\ Take(e, p) /\ p.cmd = "ACK"
    /\ Acknowledge(e, p)
    /\ UNCHANGED <<stream, delivered, rcvVars, probe, probe_wait, acklist>>

InputWask(e, p) ==
    /\ Take(e, p) /\ p.cmd = "WASK"
    /\ Acknowledge(e, p)
    /\ probe' = [probe EXCEPT ![e] = @ \cup {"TELL"}]
    /\ UNCHANGED <<stream, delivered, rcvVars, probe_wait, acklist>>

InputWins(e, p) ==
    /\ Take(e, p) /\ p.cmd = "WINS"
    /\ Acknowledge(e, p)
    /\ UNCHANGED <<stream, delivered, rcvVars, probe, probe_wait, acklist>>

Input(e, p) == InputPush(e, p) \/ InputAck(e, p) \/ InputWask(e, p) \/ InputWins(e, p)

-----------------------------------------------------------------------------
(* Mutant: una counts from the last fragment received, not from the next.  *)
HeaderLast(e, cmd, sn, body) ==
    [to |-> Peer(e), cmd |-> cmd, sn |-> sn, una |-> rcv_nxt[e] - 1,
     wnd |-> Unused(e), body |-> body]

Header(e, cmd, sn, body) ==
    [to |-> Peer(e), cmd |-> cmd, sn |-> sn, una |-> rcv_nxt[e],
     wnd |-> Unused(e), body |-> body]

Acks(e) == {Header(e, "ACK", sn, NoPiece) : sn \in acklist[e]}

(* Mutant: the probe timer runs and nothing is asked.                      *)
ProbeBitsSilent(e, timeup) == probe[e]

(* The probe bits after the window probe timer was looked at: the first    *)
(* flush that sees a closed window arms it, and a later one asks the peer  *)
(* if the timer has expired (timeup).                                      *)
ProbeBits(e, timeup) ==
    IF rmt_wnd[e] = 0 /\ probe_wait[e] /\ timeup
    THEN probe[e] \cup {"SEND"} ELSE probe[e]

Probes(e, bits) ==
    {Header(e, "WASK", 0, NoPiece) : b \in bits \cap {"SEND"}}
    \cup {Header(e, "WINS", 0, NoPiece) : b \in bits \cap {"TELL"}}

(* How many fragments move from snd_queue to snd_buf: until the queue is   *)
(* empty or snd_nxt reaches snd_una + cwnd.                                *)
Window(e)   == IF SndWnd <= rmt_wnd[e] THEN SndWnd ELSE rmt_wnd[e]
SendableOneMore(e) ==   \* mutant: the window is closed one fragment late
    Min({m \in 0..Len(snd_queue[e]) :
            \/ m = Len(snd_queue[e])
            \/ snd_nxt[e] + m > snd_una[e] + Window(e)})
Sendable(e) ==
    Min({m \in 0..Len(snd_queue[e]) :
            \/ m = Len(snd_queue[e])
            \/ snd_nxt[e] + m >= snd_una[e] + Window(e)})

Number(buf, nxt, frags) ==
    [sn \in DOMAIN buf \cup (nxt..(nxt + Len(frags) - 1)) |->
        IF sn \in DOMAIN buf THEN buf[sn] ELSE frags[sn - nxt + 1]]

Pushes(e, buf) == {Header(e, "PUSH", sn, buf[sn]) : sn \in DOMAIN buf}

(* The network may lose any datagram, sent now or earlier, and keeps no    *)
(* more than NetCap of them.                                               *)
Carry(out) ==
    \E kept \in SUBSET (net \cup out) :
        Cardinality(kept) <= NetCap /\ net' = kept

(* What ikcp_flush does to the control block: acknowledgements and probe   *)
(* bits are spent, the probe timer is armed or disarmed, and fragments     *)
(* move from snd_queue to snd_buf.                                         *)
FlushState(e) ==
    LET m == Sendable(e)
    IN  /\ snd_buf' = [snd_buf EXCEPT ![e] =
                          Number(@, snd_nxt[e], SubSeq(snd_queue[e], 1, m))]
        /\ snd_queue' = [snd_queue EXCEPT ![e] = SubSeq(@, m + 1, Len(@))]
        /\ snd_nxt' = [snd_nxt EXCEPT ![e] = @ + m]
        /\ acklist' = [acklist EXCEPT ![e] = {}]
        /\ probe' = [probe EXCEPT ![e] = {}]
        /\ probe_wait' = [probe_wait EXCEPT ![e] = (rmt_wnd[e] = 0)]
        /\ UNCHANGED <<stream, delivered, snd_una, rcvVars, rmt_wnd>>

(* What it sends if every segment of snd_buf is due.                       *)
FlushOut(e, timeup) ==
    Acks(e) \cup Probes(e, ProbeBits(e, timeup)) \cup Pushes(e, snd_buf'[e])

(* A whole ikcp_flush.  A segment is due when it was never sent or its     *)
(* resendts has passed; one that is not due is one that Carry drops.       *)
Flush(e) == FlushState(e) /\ \E timeup \in BOOLEAN : Carry(FlushOut(e, timeup))

(* The flush the fairness condition asks for: every timer has expired,     *)
(* there is something to send, and the network accepts all of it.          *)
FlushAll(e) ==
    Flush(e) /\ FlushOut(e, TRUE) # {} /\ FlushOut(e, TRUE) \subseteq net'

(* The output callback of both Lua bindings raises a Lua error when the    *)
(* datagram cannot be sent, and the longjmp leaves ikcp_flush where it is. *)
(* Left while it sends acknowledgements, the flush has changed nothing;    *)
(* left while it sends a window probe it has cleared the acknowledgements  *)
(* and kept the probe bits.  Left later, it has done all it does to the    *)
(* state, and the segments not sent count as lost: that is Flush.          *)
AbortInAcks(e) ==
    /\ acklist[e] # {}
    /\ Carry(Acks(e))
    /\ UNCHANGED <<stream, delivered, sndVars, rcvVars, ctlVars>>

AbortInProbes(e) ==
    \E timeup \in BOOLEAN :
        /\ ProbeBits(e, timeup) # {}
        /\ Carry(Acks(e))
        /\ acklist' = [acklist EXCEPT ![e] = {}]
        /\ probe' = [probe EXCEPT ![e] = ProbeBits(e, timeup)]
        /\ probe_wait' = [probe_wait EXCEPT ![e] = (rmt_wnd[e] = 0)]
        /\ UNCHANGED <<stream, delivered, sndVars, rcvVars, rmt_wnd>>

-----------------------------------------------------------------------------
Step(e) == \/ \E n \in 1..MaxFrag : e \in Senders /\ Send(e, n)
           \/ Recv(e)
           \/ \E p \in net : Input(e, p)
           \/ Flush(e)
           \/ AbortInAcks(e)
           \/ AbortInProbes(e)

Next == \E e \in Endpoint : Step(e)

Spec == Init /\ [][Next]_vars

(* The update loop flushes for ever (mySockServer.lua:154-172), every      *)
(* timer of a control block expires, the program reads what it can, and a  *)
(* datagram that is sent again and again arrives at last.                  *)
Arrive(e, cmd, sn) == \E p \in net : p.cmd = cmd /\ p.sn = sn /\ Input(e, p)

Fairness ==
    /\ \A e \in Endpoint :
          WF_vars(Recv(e)) /\ WF_vars(Flush(e)) /\ SF_vars(FlushAll(e))
    /\ \A e \in Senders :
          /\ SF_vars(Arrive(Peer(e), "WASK", 0))
          /\ SF_vars(Arrive(e, "WINS", 0))
          /\ \A sn \in 0..(MaxSegs - 1) : /\ SF_vars(Arrive(Peer(e), "PUSH", sn))
                                         /\ SF_vars(Arrive(e, "ACK", sn))

FairSpec == Spec /\ Fairness

-----------------------------------------------------------------------------
IsBuffer(buf) == DOMAIN buf \subseteq Nat /\ buf \in [DOMAIN buf -> Piece]

(* The type of every variable.                                             *)
TypeOK ==
    /\ stream    \in [Endpoint -> Seq(Piece)]
    /\ delivered \in [Endpoint -> Seq(Piece)]
    /\ snd_queue \in [Endpoint -> Seq(Piece)]
    /\ rcv_queue \in [Endpoint -> Seq(Piece)]
    /\ DOMAIN snd_buf = Endpoint /\ \A e \in Endpoint : IsBuffer(snd_buf[e])
    /\ DOMAIN rcv_buf = Endpoint /\ \A e \in Endpoint : IsBuffer(rcv_buf[e])
    /\ snd_una   \in [Endpoint -> Nat]
    /\ snd_nxt   \in [Endpoint -> Nat]
    /\ rcv_nxt   \in [Endpoint -> Nat]
    /\ rmt_wnd   \in [Endpoint -> Nat]
    /\ probe     \in [Endpoint -> SUBSET {"SEND", "TELL"}]
    /\ probe_wait \in [Endpoint -> BOOLEAN]
    /\ acklist   \in [Endpoint -> SUBSET Nat]
    /\ net \in SUBSET Packet

(* sn has reached e: it was moved on or waits in rcv_buf.                  *)
Holds(e, sn) == sn < rcv_nxt[e] \/ sn \in DOMAIN rcv_buf[e]

(* A segment leaves the sender's snd_buf (ikcp_parse_una, ikcp_parse_ack)  *)
(* only when the receiver holds it: no acknowledgement, early, late,       *)
(* repeated or reordered, makes the sender forget data that can be lost.   *)
KeptUntilHeld ==
    \A e \in Endpoint : \A sn \in 0..(snd_nxt[e] - 1) :
        sn \in DOMAIN snd_buf[e] \/ Holds(Peer(e), sn)

(* No more than snd_wnd sequence numbers are in flight, and snd_una is     *)
(* the first one not acknowledged: ikcp_flush numbers a fragment only when *)
(* the window computed from snd_una has room, though rmt_wnd may shrink    *)
(* below what is already in flight.                                        *)
InFlight ==
    \A e \in Endpoint :
        /\ DOMAIN snd_buf[e] \subseteq snd_una[e]..(snd_nxt[e] - 1)
        /\ snd_nxt[e] - snd_una[e] <= SndWnd
        /\ snd_una[e] \in DOMAIN snd_buf[e] \cup {snd_nxt[e]}

(* A control block buffers at most rcv_wnd fragments for ikcp_recv and     *)
(* holds beyond them only sequence numbers of its receive window.          *)
WithinWindow ==
    \A e \in Endpoint :
        /\ Len(rcv_queue[e]) <= RcvWnd
        /\ DOMAIN rcv_buf[e] \subseteq rcv_nxt[e]..(rcv_nxt[e] + RcvWnd - 1)

(* A fragment that is next in order waits in rcv_buf only while rcv_queue  *)
(* is full; both moving loops (ikcp_recv, ikcp_parse_data) run far enough  *)
(* that none is left behind without a later event to move it.              *)
NoneStranded ==
    \A e \in Endpoint : rcv_nxt[e] \in DOMAIN rcv_buf[e] => Len(rcv_queue[e]) = RcvWnd

(* Whatever is in transit tells the truth about its sender: una claims     *)
(* nothing that was not received, an ACK names a segment that was          *)
(* received, a PUSH carries the fragment that has its number.              *)
TruthfulNet ==
    \A p \in net :
        LET from == Peer(p.to)
        IN  /\ p.una <= rcv_nxt[from]
            /\ p.wnd <= RcvWnd
            /\ p.cmd = "ACK" => Holds(from, p.sn)
            /\ p.cmd = "PUSH" => /\ p.sn < snd_nxt[from]
                                 /\ p.body = stream[from][p.sn + 1]

(* The program that reads gets a prefix of what its peer sent, and stops   *)
(* at the end of a message.                                                *)
InOrder ==
    \A e \in Endpoint :
        LET got == delivered[e]
        IN  /\ Len(got) <= Len(stream[Peer(e)])
            /\ \A i \in 1..Len(got) : got[i] = stream[Peer(e)][i]
            /\ got # <<>> => got[Len(got)].frg = 0

(* A message that has filled rcv_queue can be read: ikcp_recv is the only  *)
(* way out of a full queue, so one that holds no whole message is stuck.   *)
FullIsReadable ==
    \A e \in Endpoint : Len(rcv_queue[e]) >= RcvWnd => Complete(rcv_queue[e])

(* The inductive strengthening.  Where the fragments are: the unsent ones  *)
(* are the tail of the stream, and every numbered one, wherever it is, is  *)
(* the stream's fragment of that number.                                   *)
SendSide ==
    \A e \in Endpoint :
        /\ snd_nxt[e] + Len(snd_queue[e]) = Len(stream[e])
        /\ \A i \in 1..Len(snd_queue[e]) :
              snd_queue[e][i] = stream[e][snd_nxt[e] + i]
        /\ \A sn \in DOMAIN snd_buf[e] : snd_buf[e][sn] = stream[e][sn + 1]

ReceiveSide ==
    \A e \in Endpoint :
        /\ rcv_nxt[e] = Len(delivered[e]) + Len(rcv_queue[e])
        /\ rcv_nxt[e] <= snd_nxt[Peer(e)]
        /\ \A i \in 1..Len(rcv_queue[e]) :
              rcv_queue[e][i] = stream[Peer(e)][Len(delivered[e]) + i]
        /\ \A sn \in DOMAIN rcv_buf[e] :
              /\ sn < snd_nxt[Peer(e)]
              /\ rcv_buf[e][sn] = stream[Peer(e)][sn + 1]
        /\ \A sn \in acklist[e] : Holds(e, sn)

(* The fragments of a message follow each other and count down to 0.       *)
Framed ==
    \A e \in Endpoint : \A i \in 1..Len(stream[e]) :
        LET frg == stream[e][i].frg
        IN  /\ i + frg <= Len(stream[e])
            /\ \A j \in 0..frg : stream[e][i + j].frg = frg - j

IInv == /\ TypeOK /\ SendSide /\ ReceiveSide /\ Framed
        /\ TruthfulNet /\ KeptUntilHeld /\ InFlight /\ WithinWindow /\ NoneStranded
        /\ InOrder

(* Sequence numbers never move back: no stale segment lowers snd_una,      *)
(* snd_nxt or rcv_nxt.                                                     *)
Forward ==
    \A e \in Endpoint : /\ snd_una'[e] >= snd_una[e]
                        /\ snd_nxt'[e] >= snd_nxt[e]
                        /\ rcv_nxt'[e] >= rcv_nxt[e]
NeverBack == [][Forward]_vars

(* Everything sent is received in the end, through lost acknowledgements   *)
(* and closed windows.                                                     *)
AllDelivered ==
    \A e \in Endpoint : \A k \in 1..MaxSegs :
        (Len(stream[e]) >= k) ~> (Len(delivered[Peer(e)]) >= k)

(* The two control blocks implement the stream of messages.                *)
Abstract == INSTANCE Stream WITH sent <- stream
ImplementsStream == Abstract!Spec

(* Each direction implements a sliding window: snd_nxt moves only while    *)
(* the window from snd_una is open, both moving loops take all that is     *)
(* next in order and has room, and snd_buf loses only what has arrived at  *)
(* the peer.                                                               *)
AtoB == INSTANCE SlidingWindow
        WITH FirstWnd <- RmtWnd, Base <- 0,
             sent <- snd_nxt[A], out <- DOMAIN snd_buf[A], una <- snd_una[A],
             wnd <- rmt_wnd[A],
             nxt <- rcv_nxt[B], got <- DOMAIN rcv_buf[B], held <- Len(rcv_queue[B])
BtoA == INSTANCE SlidingWindow
        WITH FirstWnd <- RmtWnd, Base <- 0,
             sent <- snd_nxt[B], out <- DOMAIN snd_buf[B], una <- snd_una[B],
             wnd <- rmt_wnd[B],
             nxt <- rcv_nxt[A], got <- DOMAIN rcv_buf[A], held <- Len(rcv_queue[A])
ImplementsWindow == AtoB!Spec /\ BtoA!Spec
=============================================================================
