---------------------------- MODULE SlidingWindow ----------------------------
(***************************************************************************)
(* What one direction of a conversation promises: a sliding window over    *)
(* integers that never wrap, with sets in place of lists and no network.   *)
(* The sender has numbered everything below `sent' and still keeps `out';  *)
(* the receiver has moved everything below `nxt' on, keeps `got' for       *)
(* later, and `held' wait to be read.  What the sender learns of the       *)
(* receiver may be late, and it may miss some, but what it forgets has     *)
(* been received.                                                          *)
(*                                                                         *)
(* Both directions of KcpArq implement this, and so do the lists and       *)
(* wrapping numbers of KcpSegs.                                            *)
(***************************************************************************)
EXTENDS Integers, FiniteSetsExt

CONSTANTS SndWnd, RcvWnd,   \* the windows the two ends are given
          FirstWnd,         \* what the sender takes for RcvWnd at first
          Base              \* the first number

VARIABLES sent, out,        \* the sender
          una,              \* the first it keeps, or the next it will send
          wnd,              \* the room it last heard of
          nxt, got, held    \* the receiver

sndVars == <<sent, out, una, wnd>>
rcvVars == <<nxt, got, held>>
vars    == <<sndVars, rcvVars>>

Init ==
    /\ sent = Base /\ out = {} /\ una = Base /\ wnd = FirstWnd
    /\ nxt = Base /\ got = {} /\ held = 0

(* What has arrived.                                                       *)
Arrived(n) == n < nxt \/ n \in got

(* The sender numbers the next m, as far as both windows reach.            *)
Send(m) ==
    /\ sent' = sent + m
    /\ sent' <= una + Min({SndWnd, wnd})
    /\ out' = out \cup (sent..(sent' - 1))
    /\ UNCHANGED <<una, wnd, rcvVars>>

(* The sender forgets some of what has arrived and hears of a window.      *)
Learn ==
    /\ out' \subseteq out /\ \A n \in out \ out' : Arrived(n)
    /\ una' = Min(out' \cup {sent})
    /\ wnd' \in 0..RcvWnd
    /\ UNCHANGED <<sent, rcvVars>>

(* The receiver moves m on: all that is next in order, or all there is     *)
(* room for next to the `que' that wait already.                           *)
Move(m, have, que) ==
    /\ nxt' = nxt + m
    /\ nxt..(nxt' - 1) \subseteq have
    /\ que + m <= RcvWnd
    /\ nxt' \in have => que + m = RcvWnd
    /\ got' = have \ (nxt..(nxt' - 1))
    /\ held' = que + m
    /\ UNCHANGED sndVars

(* One of the numbers sent arrives, for the first time or again.           *)
Receive(n, m) ==
    /\ n \in nxt..(nxt + RcvWnd - 1) /\ n < sent
    /\ Move(m, got \cup {n}, held)

(* k of what waits are read.                                               *)
Read(k, m) == k <= held /\ Move(m, got, held - k)

Next == \/ \E m \in 1..SndWnd : Send(m)
        \/ Learn
        \/ \E m \in 0..RcvWnd, n \in nxt..(sent - 1) : Receive(n, m)
        \/ \E m \in 0..RcvWnd, k \in 1..RcvWnd : Read(k, m)

Spec == Init /\ [][Next]_vars
=============================================================================
