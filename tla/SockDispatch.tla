----------------------------- MODULE SockDispatch -----------------------------
(***************************************************************************)
(* src/pvpBattle/mySockServer.lua: the packets of one established          *)
(* connection.  Each datagram gets a coroutine, which gives its kcp the    *)
(* datagram, sleeps until lkcp_check's time, and then reads and handles    *)
(* every message that is there (dispatch_msg 206-245, request 252-264,     *)
(* do_request 267-285, response_msg 288-303).                              *)
(*                                                                         *)
(* Coroutines run one at a time and let go in that sleep and in a command  *)
(* handler; self.sq is never held across either, and an error raised under *)
(* it releases it.  A coroutine is known by the message it handles; those  *)
(* asleep are all alike.                                                   *)
(*                                                                         *)
(* lkcp_update, and the answer to a message, may raise an error, that of   *)
(* the output callback among others.  The first is caught by nobody; the   *)
(* second by request, whose close raises another one at u.sq, which is     *)
(* nil.  Either way the coroutine is over, and what it would have read is  *)
(* still there.                                                            *)
(***************************************************************************)
EXTENDS Integers, Sequences, FiniteSetsExt

CONSTANTS Kinds,        \* the kinds of messages the client sends
          MaxBatch,     \* most messages a datagram completes
          MaxMsgs,      \* bound: messages in a behaviour
          MaxAsleep     \* bound: coroutines asleep at a time

ASSUME KindsAssumption == Kinds \subseteq {"ok", "bad", "empty"}
ASSUME BoundsAssumption == MaxBatch \in Nat /\ MaxMsgs \in Nat /\ MaxAsleep \in Nat

VARIABLES
    alive,      \* connection[subid] is there
    ms,         \* u.ms is not nil
    inq,        \* the whole messages u.kcp holds: [id, kind]
    asleep,     \* coroutines between lkcp_check and lkcp_update
    handling,   \* the messages whose handler has not returned
    arrived,    \* history: how many messages have arrived
    started,    \* history: the messages given to a handler, in order
    ended       \* history: what ended the last loop to look into the kcp
                \* early, "ok" if nothing did, or none has since a datagram

vars == <<alive, ms, inq, asleep, handling, arrived, started, ended>>

Message == [id : 1..MaxMsgs, kind : Kinds]

Init ==
    /\ alive = TRUE /\ ms = TRUE
    /\ inq = <<>> /\ asleep = 0 /\ handling = {}
    /\ arrived = 0 /\ started = <<>> /\ ended = "ok"

-----------------------------------------------------------------------------
(* What inq is once a datagram has completed the messages of batch.        *)
With(batch) ==
    inq \o [i \in 1..Len(batch) |-> [id |-> arrived + i, kind |-> batch[i]]]

(* Datagrams of a connection that is gone are ignored.                     *)
MayArrive(batch) == alive /\ arrived + Len(batch) <= MaxMsgs

(* Mutant: the coroutine does not leave its mark.                          *)
ArriveUnmarked(batch) ==
    /\ MayArrive(batch) /\ asleep < MaxAsleep
    /\ inq' = With(batch)
    /\ arrived' = arrived + Len(batch)
    /\ asleep' = asleep + 1
    /\ ended' = "ok"
    /\ UNCHANGED <<alive, ms, handling, started>>

(* A datagram of the connection: its kcp takes it, and its coroutine marks *)
(* u and sleeps.                                                           *)
Arrive(batch) ==
    /\ MayArrive(batch) /\ asleep < MaxAsleep
    /\ inq' = With(batch)
    /\ arrived' = arrived + Len(batch)
    /\ asleep' = asleep + 1
    /\ ms' = TRUE
    /\ ended' = "ok"
    /\ UNCHANGED <<alive, handling, started>>

(* The messages behind the first empty one.                                *)
BehindEmpty(q) ==
    LET empty == {i \in 1..Len(q) : q[i].kind = "empty"}
    IN  IF empty = {} THEN <<>> ELSE SubSeq(q, Min(empty) + 1, Len(q))

(* Mutant: what is read is not taken out of the kcp.                       *)
DrainPeeks(q, others) ==
    /\ IF q # <<>> /\ alive /\ Head(q).kind = "ok"
       THEN /\ handling' = others \cup {Head(q).id}
            /\ started' = Append(started, Head(q).id)
       ELSE handling' = others /\ UNCHANGED started
    /\ inq' = q
    /\ UNCHANGED ended

(* The loop of lkcp_recv and request on the messages q, up to the next     *)
(* handler or its end.  An empty message has length 0 and ends it.  One    *)
(* that cannot be decoded ends it too: request calls close, which fails.   *)
(* With the connection gone, do_request refuses every message that is      *)
(* read.                                                                   *)
Drain(q, others) ==
    \/ /\ q = <<>>
       /\ inq' = q /\ handling' = others /\ ended' = "ok"
       /\ UNCHANGED started
    \/ /\ q # <<>> /\ alive
       /\ inq' = Tail(q) /\ ended' = Head(q).kind
       /\ IF Head(q).kind = "ok"
          THEN /\ handling' = others \cup {Head(q).id}
               /\ started' = Append(started, Head(q).id)
          ELSE handling' = others /\ UNCHANGED started
    \/ /\ q # <<>> /\ ~alive
       /\ inq' = BehindEmpty(q) /\ handling' = others
       /\ ended' = IF inq' = <<>> THEN "ok" ELSE "empty"
       /\ UNCHANGED started

(* An error is raised out of the kcp's methods: the coroutine is over and  *)
(* q is still in the kcp.                                                  *)
Dies(q, others) ==
    /\ inq' = q /\ handling' = others /\ ended' = "error"
    /\ UNCHANGED started

(* A datagram for which lkcp_check's time is in the past: its coroutine    *)
(* does not sleep and u.ms is not set.  ikcp_check's time is never before  *)
(* the one it is given, but lkcp_check returns it in 32 bits with a sign,  *)
(* and in the last interval before lutil's clock wraps it is past 2^31.    *)
ArriveNow(batch) ==
    /\ MayArrive(batch)
    /\ arrived' = arrived + Len(batch)
    /\ \/ ms' = FALSE /\ Drain(With(batch), handling)
       \/ UNCHANGED ms /\ Dies(With(batch), handling)
    /\ UNCHANGED <<alive, asleep>>

(* Mutant: a coroutine wakes that is not asleep.                           *)
WakeTwice ==
    /\ asleep' = asleep - 1
    /\ \/ ~ms /\ UNCHANGED <<ms, inq, handling, started, ended>>
       \/ ms /\ ms' = FALSE /\ Drain(inq, handling)
       \/ ms /\ UNCHANGED ms /\ Dies(inq, handling)
    /\ UNCHANGED <<alive, arrived>>

(* A coroutine wakes.  If another one has woken since the last datagram,   *)
(* u.ms is nil and there is nothing to do; else it updates the kcp, clears *)
(* u.ms and drains.  An error of the update leaves u.ms set.               *)
Wake ==
    /\ asleep > 0
    /\ asleep' = asleep - 1
    /\ \/ ~ms /\ UNCHANGED <<ms, inq, handling, started, ended>>
       \/ ms /\ ms' = FALSE /\ Drain(inq, handling)
       \/ ms /\ UNCHANGED ms /\ Dies(inq, handling)
    /\ UNCHANGED <<alive, arrived>>

(* Mutant: the coroutine ends after one message.                           *)
HandlerDoneOnce(m) ==
    /\ m \in handling
    /\ handling' = handling \ {m}
    /\ UNCHANGED <<alive, ms, inq, started, ended, asleep, arrived>>

(* The handler of m returns, or raises an error, which xpcall catches.  If *)
(* m asked for an answer and the connection is still there, it is sent,    *)
(* which may fail.  If not, the coroutine goes on with its loop.           *)
HandlerDone(m) ==
    /\ m \in handling
    /\ \/ Drain(inq, handling \ {m})
       \/ alive /\ Dies(inq, handling \ {m})
    /\ UNCHANGED <<alive, ms, asleep, arrived>>

(* A newer handshake of the user replaces the connection.                  *)
Replace ==
    /\ alive
    /\ alive' = FALSE
    /\ UNCHANGED <<ms, inq, asleep, handling, arrived, started, ended>>

-----------------------------------------------------------------------------
Next ==
    \/ \E n \in 0..MaxBatch : \E batch \in [1..n -> Kinds] :
          Arrive(batch) \/ ArriveNow(batch)
    \/ Wake
    \/ \E m \in handling : HandlerDone(m)
    \/ Replace

Spec == Init /\ [][Next]_vars

(* skynet wakes every coroutine whose sleep is over, and command handlers  *)
(* return.                                                                 *)
Fairness == WF_vars(Wake) /\ \A m \in 1..MaxMsgs : WF_vars(HandlerDone(m))

FairSpec == Spec /\ Fairness

-----------------------------------------------------------------------------
(* The type of every variable.                                             *)
TypeOK ==
    /\ alive \in BOOLEAN /\ ms \in BOOLEAN
    /\ inq \in Seq(Message) /\ ended \in {"ok", "bad", "empty", "error"}
    /\ asleep \in 0..MaxAsleep /\ arrived \in 0..MaxMsgs
    /\ handling \in SUBSET (1..arrived) /\ started \in Seq(1..arrived)

(* However many coroutines drain the kcp at once, every message is given   *)
(* to one handler at most, in the order in which the client sent them.     *)
StartedInOrder ==
    /\ \A i, j \in 1..Len(started) : i < j => started[i] < started[j]
    /\ \A i \in 1..Len(started), k \in 1..Len(inq) : started[i] < inq[k].id

(* A coroutine will look into the kcp: one is asleep and will find u.ms    *)
(* set, or one is inside its drain loop.                                   *)
Coming == (asleep > 0 /\ ms) \/ handling # {}

(* A message in the kcp has a coroutine that will come to it, however many *)
(* of them hand u.ms to each other.  The one exception is what an empty or *)
(* undecodable message or an error has left there; it ends with the next   *)
(* datagram, whose coroutine comes to those messages too.                  *)
SomeoneComes == inq # <<>> /\ ended = "ok" => Coming

(* So every message that arrives is read in the end, with no datagram to   *)
(* follow it, unless an error is raised, or an empty or undecodable        *)
(* message ended the loop that came last and no other coroutine is on its  *)
(* way.  A message that waits for ever meets one of the two again and      *)
(* again: each new datagram sets ended back.                               *)
Waits(m) == \E k \in 1..Len(inq) : inq[k].id = m
AllRead  == \A m \in 1..MaxMsgs :
    Waits(m) ~> ~Waits(m) \/ ended = "error" \/ (ended # "ok" /\ ~Coming)
===============================================================================
