------------------------------- MODULE Stream -------------------------------
(***************************************************************************)
(* What a pair of ikcpcb control blocks promises to the two programs that  *)
(* talk through it, and nothing of how: every call of ikcp_send appends    *)
(* one message, cut into fragments, to the sender's stream, and every      *)
(* successful call of ikcp_recv hands the receiver the next whole message  *)
(* of its peer's stream.  Nothing is lost, repeated, reordered, torn or    *)
(* joined, whatever the datagram network does.                             *)
(*                                                                         *)
(* A piece is one fragment: frg counts the fragments of its message that   *)
(* follow it (IKCPSEG.frg) and data stands for its bytes.  The fragments   *)
(* of a stream carry distinct data, so two of them are never confused.     *)
(***************************************************************************)
EXTENDS Integers, Sequences

CONSTANTS A, B,         \* the two ends of one conversation
          Senders,      \* the ends whose program calls ikcp_send
          MaxFrag,      \* most fragments ikcp_send accepts (255 in the code)
          MaxSegs       \* bound: fragments one end sends in a behaviour

Endpoint == {A, B}
Peer(e)  == IF e = A THEN B ELSE A

VARIABLES sent,         \* sent[e]: every piece e's program has sent
          delivered     \* delivered[e]: every piece e's program has received

vars == <<sent, delivered>>

(* The fragments of one message of n pieces sent after `before' pieces:    *)
(* seg->frg = count - i - 1, i counted from 0.                             *)
Fragments(before, n) == [i \in 1..n |-> [frg |-> n - i, data |-> before + i]]

Init == /\ sent      = [e \in Endpoint |-> <<>>]
        /\ delivered = [e \in Endpoint |-> <<>>]

Send(e, n) ==
    /\ Len(sent[e]) + n <= MaxSegs
    /\ sent' = [sent EXCEPT ![e] = @ \o Fragments(Len(@), n)]
    /\ UNCHANGED delivered

(* The next message of the peer's stream ends at the piece with frg = 0,   *)
(* which is frg pieces after its first.                                    *)
Deliver(e) ==
    LET from  == sent[Peer(e)]
        first == Len(delivered[e]) + 1
    IN  /\ first <= Len(from)
        /\ delivered' = [delivered EXCEPT ![e] =
                            @ \o SubSeq(from, first, first + from[first].frg)]
        /\ UNCHANGED sent

Next == \E e \in Endpoint :
            \/ e \in Senders /\ \E n \in 1..MaxFrag : Send(e, n)
            \/ Deliver(e)

Spec     == Init /\ [][Next]_vars
FairSpec == Spec /\ \A e \in Endpoint : WF_vars(Deliver(e))
=============================================================================
