---------------------------- MODULE MySockServer ----------------------------
(***************************************************************************)
(* src/pvpBattle/mySockServer.lua, the gateway's connection table: the     *)
(* handshakes that create connections, the coroutines forked for each of   *)
(* them, and the acknowledgement of handshake replies (dispatch_msg,       *)
(* 84-205).  Packets of established connections are SockDispatch's.        *)
(*                                                                         *)
(* A skynet service runs one coroutine at a time and none gives up the     *)
(* processor inside self.sq, so dispatch_msg handles a handshake datagram  *)
(* in one step, and so does each round of a forked coroutine.              *)
(*                                                                         *)
(* Every handshake that is accepted gets a number here: the entry it puts  *)
(* in handshakeMap is a table of its own.  The network may deliver any     *)
(* handshake datagram at any time and any number of times.                 *)
(***************************************************************************)
EXTENDS Integers, FiniteSets

CONSTANTS Uid, From,    \* user ids; addresses a datagram can come from
          Times,        \* the times a client writes into a handshake
          SubidLimit,   \* 4294967295: subid restarts when it gets there
          Rounds,       \* rounds of the handshake coroutine: 6
          MaxShakes,    \* bound: handshakes accepted in a behaviour
          MaxErrors     \* bound: errors raised in a behaviour

ASSUME TableAssumption ==
    /\ Times \subseteq Nat \ {0}
    /\ SubidLimit \in Nat \ {0, 1}
    /\ Rounds \in Nat \ {0} /\ MaxShakes \in Nat /\ MaxErrors \in Nat

VARIABLES
    subid,          \* the subid given last
    connection,     \* subid |-> uid
    connectNum,
    uidMap,         \* uid |-> subid
    shake,          \* handshake number |-> its entry [uid, from, time]
    handshakeMap,   \* uid |-> the number of its handshake
    handshakeFrom,  \* address |-> the number of the handshake it made
    keepers,        \* handshake number |-> rounds its coroutine has done
    updaters,       \* update coroutines: [shake, subid]
    died            \* history: coroutines an error ended: <<"reply", n>> of
                    \* handshake n, <<"update", s>> of subid s

vars == <<subid, connection, connectNum, uidMap, shake, handshakeMap,
          handshakeFrom, keepers, updaters, died>>

(* f[x] = v and f[x] = nil for a Lua table f.                              *)
Put(f, x, v) == [y \in DOMAIN f \cup {x} |-> IF y = x THEN v ELSE f[y]]
Drop(f, S)   == [y \in DOMAIN f \ S |-> f[y]]

Init ==
    /\ subid = 0 /\ connectNum = 0
    /\ connection = <<>> /\ uidMap = <<>> /\ shake = <<>>
    /\ handshakeMap = <<>> /\ handshakeFrom = <<>>
    /\ keepers = <<>> /\ updaters = {} /\ died = {}

-----------------------------------------------------------------------------
(* The entry of uid, if it has one, leaves both maps.                      *)
OldAddress(uid) ==
    IF uid \in DOMAIN handshakeMap THEN {shake[handshakeMap[uid]].from} ELSE {}

ForgetShake(uid) ==
    /\ handshakeMap' = Drop(handshakeMap, {uid})
    /\ handshakeFrom' = Drop(handshakeFrom, OldAddress(uid))

(* The new entry n replaces the one uid had.                               *)
Remember(n, uid, from) ==
    /\ handshakeMap' = Put(handshakeMap, uid, n)
    /\ handshakeFrom' = Put(Drop(handshakeFrom, OldAddress(uid)), from, n)

NewSubid == IF subid + 1 >= SubidLimit THEN 1 ELSE subid + 1

(* Mutant: the replaced connection stays.                                  *)
ConnectKeepsOld(uid, s) ==
    /\ connection' = Put(connection, s, uid)
    /\ connectNum' = connectNum + 1
    /\ uidMap' = Put(uidMap, uid, s)

(* The new connection is entered, however many there are (connectMax is    *)
(* never looked at); then the one uidMap has for the same uid is removed,  *)
(* if the table still holds its subid, and uidMap moves on.                *)
Connect(uid, s) ==
    LET new == Put(connection, s, uid)
        old == IF uid \in DOMAIN uidMap THEN {uidMap[uid]} \cap DOMAIN new ELSE {}
    IN  /\ connection' = Drop(new, old)
        /\ connectNum' = connectNum + 1 - Cardinality(old)
        /\ uidMap' = Put(uidMap, uid, s)

(* Is the time of a handshake newer than that of the entry of its uid?     *)
Newer(uid, time) ==
    uid \in DOMAIN handshakeMap => time > shake[handshakeMap[uid]].time

(* Mutant: only the first handshake of a uid forks the update coroutine.   *)
HandshakeForksOnce(uid, from, time) ==
    LET n == Cardinality(DOMAIN shake) + 1
    IN  /\ n <= MaxShakes /\ Newer(uid, time)
        /\ shake' = Put(shake, n, [uid |-> uid, from |-> from, time |-> time])
        /\ Remember(n, uid, from)
        /\ subid' = NewSubid
        /\ Connect(uid, subid')
        /\ updaters' = updaters \cup {[shake |-> n, subid |-> subid'] :
                                        x \in {uid} \ DOMAIN uidMap}
        /\ keepers' = Put(keepers, n, 0)
        /\ UNCHANGED died

(* A handshake datagram that is newer than what handshakeMap knows: an     *)
(* entry, a subid, a reply, a connection and two coroutines.  (One that is *)
(* not newer changes nothing, and neither does one that does not parse.  A *)
(* datagram with no handshake in it is given to the kcp that handshakeFrom *)
(* has for its address, and the tables stay as they are.)                  *)
Handshake(uid, from, time) ==
    LET n == Cardinality(DOMAIN shake) + 1
    IN  /\ n <= MaxShakes /\ Newer(uid, time)
        /\ shake' = Put(shake, n, [uid |-> uid, from |-> from, time |-> time])
        /\ Remember(n, uid, from)
        /\ subid' = NewSubid
        /\ Connect(uid, subid')
        /\ updaters' = updaters \cup {[shake |-> n, subid |-> subid']}
        /\ keepers' = Put(keepers, n, 0)
        /\ UNCHANGED died

(* A coroutine is ended by an error that lkcp_update or lkcp_flush raises  *)
(* (the output callback's).  Nobody catches it.                            *)
Dies(coroutine) ==
    Cardinality(died) < MaxErrors /\ died' = died \cup {coroutine}

(* The flush of the reply raises an error: the entry and the subid are     *)
(* there, but no connection and none of the two coroutines.                *)
HandshakeDies(uid, from, time) ==
    LET n == Cardinality(DOMAIN shake) + 1
    IN  /\ n <= MaxShakes /\ Newer(uid, time)
        /\ shake' = Put(shake, n, [uid |-> uid, from |-> from, time |-> time])
        /\ Remember(n, uid, from)
        /\ subid' = NewSubid
        /\ Dies(<<"reply", n>>)
        /\ UNCHANGED <<connection, connectNum, uidMap, keepers, updaters>>

(* Mutants: one round too many; the last round leaves the entry.           *)
KeepReplyOneMore(n) ==
    LET uid  == shake[n].uid
        last == keepers[n] = Rounds
    IN  /\ IF uid \in DOMAIN handshakeMap /\ last
           THEN ForgetShake(uid)
           ELSE UNCHANGED <<handshakeMap, handshakeFrom>>
        /\ keepers' = IF uid \notin DOMAIN handshakeMap \/ last
                      THEN Drop(keepers, {n}) ELSE [keepers EXCEPT ![n] = @ + 1]
        /\ UNCHANGED <<subid, connection, connectNum, uidMap, shake, updaters, died>>
KeepReplyForGood(n) ==
    LET uid  == shake[n].uid
        last == keepers[n] + 1 = Rounds
    IN  /\ keepers' = IF uid \notin DOMAIN handshakeMap \/ last
                      THEN Drop(keepers, {n}) ELSE [keepers EXCEPT ![n] = @ + 1]
        /\ UNCHANGED <<subid, connection, connectNum, uidMap, shake, updaters,
                       handshakeMap, handshakeFrom, died>>

(* The coroutine forked for handshake n wakes after 500 ms.  It looks its  *)
(* uid up again: with no entry it ends; otherwise it updates the entry's   *)
(* kcp, and after the last round it removes the entry it finds.            *)
KeepReply(n) ==
    LET uid  == shake[n].uid
        last == keepers[n] + 1 = Rounds
    IN  /\ IF uid \in DOMAIN handshakeMap /\ last
           THEN ForgetShake(uid)
           ELSE UNCHANGED <<handshakeMap, handshakeFrom>>
        /\ keepers' = IF uid \notin DOMAIN handshakeMap \/ last
                      THEN Drop(keepers, {n}) ELSE [keepers EXCEPT ![n] = @ + 1]
        /\ UNCHANGED <<subid, connection, connectNum, uidMap, shake, updaters, died>>

(* The update of the entry's kcp raises an error.  The entry stays.        *)
KeepReplyDies(n) ==
    /\ shake[n].uid \in DOMAIN handshakeMap
    /\ keepers' = Drop(keepers, {n})
    /\ Dies(<<"reply", n>>)
    /\ UNCHANGED <<subid, connection, connectNum, uidMap, shake, updaters,
                   handshakeMap, handshakeFrom>>

(* Mutant: it looks for any connection of its user.                        *)
UpdaterEndsByUser(u) ==
    /\ shake[u.shake].uid \notin DOMAIN uidMap
    /\ updaters' = updaters \ {u}
    /\ UNCHANGED <<subid, connection, connectNum, uidMap, shake, handshakeMap,
                   handshakeFrom, keepers, died>>

(* An update coroutine looks its subid up on every round and ends when the *)
(* connection is gone; a round that finds it changes nothing here.         *)
UpdaterEnds(u) ==
    /\ u.subid \notin DOMAIN connection
    /\ updaters' = updaters \ {u}
    /\ UNCHANGED <<subid, connection, connectNum, uidMap, shake, handshakeMap,
                   handshakeFrom, keepers, died>>

(* A round that finds the connection raises an error.  The connection      *)
(* stays, and only its datagrams and answers still update its kcp.         *)
UpdaterDies(u) ==
    /\ u.subid \in DOMAIN connection
    /\ updaters' = updaters \ {u}
    /\ Dies(<<"update", u.subid>>)
    /\ UNCHANGED <<subid, connection, connectNum, uidMap, shake, handshakeMap,
                   handshakeFrom, keepers>>

-----------------------------------------------------------------------------
Next ==
    \/ \E uid \in Uid, from \in From, time \in Times :
          Handshake(uid, from, time) \/ HandshakeDies(uid, from, time)
    \/ \E n \in DOMAIN keepers : KeepReply(n) \/ KeepReplyDies(n)
    \/ \E u \in updaters : UpdaterEnds(u) \/ UpdaterDies(u)

Spec == Init /\ [][Next]_vars

(* skynet wakes every coroutine whose sleep is over.                       *)
Fairness ==
    /\ \A n \in 1..MaxShakes : WF_vars(n \in DOMAIN keepers /\ KeepReply(n))
    /\ WF_vars(\E u \in updaters : UpdaterEnds(u))

FairSpec == Spec /\ Fairness

-----------------------------------------------------------------------------
(* The type of every variable.                                             *)
TypeOK ==
    /\ subid \in 0..(SubidLimit - 1) /\ connectNum \in Nat
    /\ DOMAIN connection \subseteq 1..(SubidLimit - 1)
    /\ connection \in [DOMAIN connection -> Uid]
    /\ DOMAIN uidMap \subseteq Uid
    /\ uidMap \in [DOMAIN uidMap -> 1..(SubidLimit - 1)]
    /\ \E n \in 0..MaxShakes :
          shake \in [1..n -> [uid : Uid, from : From, time : Times]]
    /\ DOMAIN handshakeMap \subseteq Uid
    /\ handshakeMap \in [DOMAIN handshakeMap -> DOMAIN shake]
    /\ DOMAIN handshakeFrom \subseteq From
    /\ handshakeFrom \in [DOMAIN handshakeFrom -> DOMAIN shake]
    /\ DOMAIN keepers \subseteq DOMAIN shake
    /\ keepers \in [DOMAIN keepers -> 0..(Rounds - 1)]
    /\ updaters \subseteq [shake : DOMAIN shake, subid : 1..(SubidLimit - 1)]
    /\ died \subseteq {"reply", "update"} \X Nat

ConnectNumCounts == connectNum = Cardinality(DOMAIN connection)

UsersLead ==
    /\ \A uid \in DOMAIN uidMap :
          uidMap[uid] \in DOMAIN connection /\ connection[uidMap[uid]] = uid
    /\ \A s \in DOMAIN connection :
          connection[s] \in DOMAIN uidMap /\ uidMap[connection[s]] = s

AddressesLead ==
    \A from \in DOMAIN handshakeFrom :
        LET n == handshakeFrom[from]
        IN  /\ shake[n].from = from
            /\ shake[n].uid \in DOMAIN handshakeMap
            /\ handshakeMap[shake[n].uid] = n

(* The four tables tell the same story.  connectNum counts the connections,*)
(* every user has exactly one, however often and from wherever it shakes   *)
(* hands again; and what an address leads to is an entry of handshakeMap   *)
(* made from that very address: the kcp an acknowledgement is given to is  *)
(* alive.                                                                  *)
TablesAgree == ConnectNumCounts /\ UsersLead /\ AddressesLead

(* One update coroutine drives the kcp of each connection, never two; none *)
(* only if an error ended it.                                              *)
OneUpdater ==
    \A s \in DOMAIN connection :
        Cardinality({u \in updaters : u.subid = s})
            = IF <<"update", s>> \in died THEN 0 ELSE 1

(* Every entry is removed in the end, by the coroutine of whichever        *)
(* handshake gets there first, so a later handshake finds no stale time;   *)
(* unless an error ended the coroutine of the entry's own handshake.       *)
EntriesExpire ==
    \A uid \in Uid : []<>(\/ uid \notin DOMAIN handshakeMap
                         \/ <<"reply", handshakeMap[uid]>> \in died)

(* The update coroutine of a connection that was replaced ends: a client   *)
(* that reconnects leaves no coroutine and no kcp behind.                  *)
Orphan(s)   == s \notin DOMAIN connection /\ \E u \in updaters : u.subid = s
UpdatersEnd == \A s \in 1..(SubidLimit - 1) : Orphan(s) ~> ~Orphan(s)

(* For all its rounds a handshake's reply is kept, unless a newer          *)
(* handshake of the same user replaces it (line 173: the reply is reliable *)
(* for 3 s = 6 * 500 ms).                                                  *)
ReplyKept ==
    \A n \in DOMAIN keepers :
        \/ \E m \in DOMAIN shake : m > n /\ shake[m].uid = shake[n].uid
        \/ shake[n].uid \in DOMAIN handshakeMap
=============================================================================
