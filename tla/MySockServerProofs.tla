------------------------- MODULE MySockServerProofs -------------------------
(***************************************************************************)
(* Proofs about MySockServer, for any number of users and addresses, any   *)
(* times and any number of rounds, as long as subid has not come round:    *)
(* handshakes and subids are then the same numbers, so no two connections  *)
(* ever share one.                                                         *)
(***************************************************************************)
EXTENDS MySockServer, FiniteSetTheorems, TLAPS

(* subid has not come round yet.                                           *)
NoWrap == MaxShakes < SubidLimit

(* The coroutine handshake n forks for its connection.                     *)
Updater(n) == [shake |-> n, subid |-> n]

(* Handshake n gave out subid n; every connection has its coroutine unless *)
(* an error ended it.                                                      *)
Numbered ==
    /\ subid \in 0..MaxShakes
    /\ shake \in [1..subid -> [uid : Uid, from : From, time : Times]]
    /\ \A s \in DOMAIN connection :
          /\ s \in 1..subid
          /\ Updater(s) \in updaters <=> <<"update", s>> \notin died
    /\ \A s \in Nat : <<"update", s>> \in died => s \in 1..subid
    /\ \A u \in updaters : u.subid \in 1..subid /\ u = Updater(u.subid)

Inv == /\ TypeOK /\ Numbered
       /\ IsFiniteSet(DOMAIN connection) /\ TablesAgree

-----------------------------------------------------------------------------
LEMMA PutType ==
  ASSUME NEW f, NEW x, NEW v, NEW V, f \in [DOMAIN f -> V], v \in V
  PROVE  Put(f, x, v) \in [DOMAIN Put(f, x, v) -> V]
BY DEF Put

LEMMA DropType ==
  ASSUME NEW f, NEW S, NEW V, f \in [DOMAIN f -> V]
  PROVE  Drop(f, S) \in [DOMAIN Drop(f, S) -> V]
BY DEF Drop

LEMMA InitInv == Init => Inv
<1> SUFFICES ASSUME Init PROVE Inv
  OBVIOUS
<1>1. DOMAIN connection = {} /\ DOMAIN uidMap = {} /\ DOMAIN handshakeMap = {}
      /\ DOMAIN handshakeFrom = {} /\ DOMAIN keepers = {} /\ DOMAIN shake = {}
  BY DEF Init
<1>2. shake \in [1..0 -> [uid : Uid, from : From, time : Times]]
  BY DEF Init
<1>3. MaxShakes \in Nat /\ SubidLimit \in Nat \ {0, 1}
  BY TableAssumption
<1>4. TypeOK
  <2>1. subid \in 0..(SubidLimit - 1) /\ 0 \in 0..MaxShakes /\ connectNum \in Nat
    BY <1>3 DEF Init
  <2>2. /\ connection \in [DOMAIN connection -> Uid]
        /\ uidMap \in [DOMAIN uidMap -> 1..(SubidLimit - 1)]
        /\ handshakeMap \in [DOMAIN handshakeMap -> DOMAIN shake]
        /\ handshakeFrom \in [DOMAIN handshakeFrom -> DOMAIN shake]
        /\ keepers \in [DOMAIN keepers -> 0..(Rounds - 1)]
    BY <1>1 DEF Init
  <2> QED BY <1>1, <1>2, <2>1, <2>2 DEF Init, TypeOK
<1>5. Numbered
  BY <1>1, <1>2, <1>3 DEF Init, Numbered
<1>6. IsFiniteSet(DOMAIN connection) /\ Cardinality(DOMAIN connection) = 0
  BY <1>1, FS_EmptySet
<1>7. TablesAgree
  BY <1>1, <1>6 DEF Init, TablesAgree, ConnectNumCounts, UsersLead, AddressesLead
<1> QED BY <1>4, <1>5, <1>6, <1>7 DEF Inv

(* Connecting keeps one connection per user, and counts it.                *)
LEMMA ConnectFacts ==
  ASSUME NoWrap, Inv, NEW uid \in Uid, NEW s \in 1..MaxShakes, s = subid + 1, Connect(uid, s)
  PROVE  /\ DOMAIN connection' \subseteq DOMAIN connection \cup {s}
         /\ DOMAIN connection' \subseteq 1..(SubidLimit - 1)
         /\ connection' \in [DOMAIN connection' -> Uid]
         /\ DOMAIN uidMap' \subseteq Uid
         /\ uidMap' \in [DOMAIN uidMap' -> 1..(SubidLimit - 1)]
         /\ connectNum' \in Nat
         /\ UsersLead' /\ ConnectNumCounts' /\ IsFiniteSet(DOMAIN connection')
<1> DEFINE new == Put(connection, s, uid)
           old == IF uid \in DOMAIN uidMap THEN {uidMap[uid]} \cap DOMAIN new ELSE {}
<1>1. /\ connection' = Drop(new, old)
      /\ connectNum' = connectNum + 1 - Cardinality(old)
      /\ uidMap' = Put(uidMap, uid, s)
  BY DEF Connect
<1>2. /\ s \in 1..(SubidLimit - 1) /\ s \notin DOMAIN connection
  <2>1. s \in 1..(SubidLimit - 1)
    BY TableAssumption DEF NoWrap
  <2>2. subid \in 0..MaxShakes /\ DOMAIN connection \subseteq 1..subid
    BY DEF Inv, Numbered
  <2>3. s \notin 1..subid
    BY <2>2
  <2> QED BY <2>1, <2>2, <2>3
<1>3. /\ DOMAIN new = DOMAIN connection \cup {s} /\ new[s] = uid
      /\ \A y \in DOMAIN connection : new[y] = connection[y]
  BY <1>2 DEF Put
<1>4. old = IF uid \in DOMAIN uidMap THEN {uidMap[uid]} ELSE {}
  BY <1>3 DEF Inv, TablesAgree, UsersLead
<1>5. s \notin old /\ old \subseteq DOMAIN connection
  BY <1>2, <1>4 DEF Inv, TablesAgree, UsersLead
<1>6. connection' \in [DOMAIN connection' -> Uid]
  <2>1. new \in [DOMAIN new -> Uid]
    BY PutType DEF Inv, TypeOK
  <2> HIDE DEF new, old
  <2> QED BY <1>1, <2>1, DropType
<1> HIDE DEF new
<1>7. /\ DOMAIN connection' = (DOMAIN connection \cup {s}) \ old
      /\ connection'[s] = uid
      /\ \A y \in DOMAIN connection \ old : connection'[y] = connection[y]
  <2> HIDE DEF old
  <2> QED BY <1>1, <1>3, <1>5 DEF Drop
<1>8. /\ DOMAIN uidMap' = DOMAIN uidMap \cup {uid} /\ uidMap'[uid] = s
      /\ \A v \in DOMAIN uidMap : v # uid => uidMap'[v] = uidMap[v]
  BY <1>1 DEF Put
<1>9. uidMap' \in [DOMAIN uidMap' -> 1..(SubidLimit - 1)]
  BY <1>1, <1>2, PutType DEF Inv, TypeOK
<1>10. UsersLead'
  <2>1. ASSUME NEW v \in DOMAIN uidMap'
        PROVE  uidMap'[v] \in DOMAIN connection' /\ connection'[uidMap'[v]] = v
    <3>1. CASE v = uid
      BY <1>5, <1>7, <1>8, <3>1
    <3>2. CASE v # uid
      <4>1. /\ uidMap'[v] = uidMap[v] /\ uidMap[v] \in DOMAIN connection
            /\ connection[uidMap[v]] = v
        BY <1>8, <2>1, <3>2 DEF Inv, TablesAgree, UsersLead
      <4>2. uidMap[v] \notin old
        BY <1>4, <3>2, <4>1 DEF Inv, TablesAgree, UsersLead
      <4> QED BY <1>7, <4>1, <4>2
    <3> QED BY <3>1, <3>2
  <2>2. ASSUME NEW t \in DOMAIN connection'
        PROVE  connection'[t] \in DOMAIN uidMap' /\ uidMap'[connection'[t]] = t
    <3>1. CASE t = s
      BY <1>7, <1>8, <3>1
    <3>2. CASE t # s
      <4>1. t \in DOMAIN connection \ old /\ connection'[t] = connection[t]
        BY <1>7, <2>2, <3>2
      <4>2. connection[t] \in DOMAIN uidMap /\ uidMap[connection[t]] = t
        BY <4>1 DEF Inv, TablesAgree, UsersLead
      <4>3. connection[t] # uid
        BY <1>4, <4>1, <4>2
      <4> QED BY <1>8, <4>1, <4>2, <4>3
    <3> QED BY <3>1, <3>2
  <2> QED BY <2>1, <2>2 DEF UsersLead
<1>11. /\ IsFiniteSet(DOMAIN connection') /\ connectNum' = Cardinality(DOMAIN connection')
       /\ connectNum' \in Nat
  <2> DEFINE all == DOMAIN connection \cup {s}
  <2>1. /\ IsFiniteSet(all) /\ Cardinality(all) = Cardinality(DOMAIN connection) + 1
        /\ Cardinality(DOMAIN connection) \in Nat
        /\ connectNum = Cardinality(DOMAIN connection)
    BY <1>2, FS_AddElement, FS_CardinalityType DEF Inv, TablesAgree, ConnectNumCounts
  <2>2. CASE uid \in DOMAIN uidMap
    <3>1. old = {uidMap[uid]} /\ uidMap[uid] \in all
      BY <1>4, <1>5, <2>2
    <3>2. Cardinality(old) = 1
      BY <3>1, FS_Singleton
    <3>3. DOMAIN connection' = all \ {uidMap[uid]}
      BY <1>7, <3>1
    <3> HIDE DEF all, old
    <3>4. /\ IsFiniteSet(DOMAIN connection')
          /\ Cardinality(DOMAIN connection') = Cardinality(all) - 1
      <4>1. uidMap[uid] \in all /\ IsFiniteSet(all)
        BY <2>1, <3>1
      <4>2. /\ IsFiniteSet(all \ {uidMap[uid]})
            /\ Cardinality(all \ {uidMap[uid]}) = Cardinality(all) - 1
        BY <4>1, FS_RemoveElement
      <4> QED BY <3>3, <4>2
    <3> QED BY <1>1, <2>1, <3>2, <3>4
  <2>3. CASE uid \notin DOMAIN uidMap
    <3>1. old = {} /\ DOMAIN connection' = all
      BY <1>4, <1>7, <2>3
    <3>2. Cardinality(old) = 0
      BY <3>1, FS_EmptySet
    <3> HIDE DEF all, old
    <3> QED BY <1>1, <2>1, <3>1, <3>2
  <2> QED BY <2>2, <2>3
<1>12. DOMAIN connection' \subseteq 1..(SubidLimit - 1) /\ DOMAIN uidMap' \subseteq Uid
  BY <1>2, <1>7, <1>8 DEF Inv, TypeOK
<1> QED BY <1>6, <1>7, <1>9, <1>10, <1>11, <1>12 DEF ConnectNumCounts

(* The entry that leaves takes its address with it.                        *)
LEMMA AddressGone ==
  ASSUME Inv, NEW uid \in Uid, NEW from \in DOMAIN handshakeFrom \ OldAddress(uid)
  PROVE  LET n == handshakeFrom[from]
         IN  /\ n \in DOMAIN shake /\ shake[n].from = from /\ shake[n].uid # uid
             /\ shake[n].uid \in DOMAIN handshakeMap /\ handshakeMap[shake[n].uid] = n
BY DEF Inv, TypeOK, TablesAgree, AddressesLead, OldAddress

LEMMA ForgetFacts ==
  ASSUME Inv, NEW uid \in Uid, ForgetShake(uid), UNCHANGED shake
  PROVE  /\ DOMAIN handshakeMap' \subseteq Uid /\ DOMAIN handshakeFrom' \subseteq From
         /\ handshakeMap' \in [DOMAIN handshakeMap' -> DOMAIN shake]
         /\ handshakeFrom' \in [DOMAIN handshakeFrom' -> DOMAIN shake]
         /\ AddressesLead'
<1>1. /\ handshakeMap' = Drop(handshakeMap, {uid})
      /\ handshakeFrom' = Drop(handshakeFrom, OldAddress(uid))
  BY DEF ForgetShake
<1>2. /\ DOMAIN handshakeMap' = DOMAIN handshakeMap \ {uid}
      /\ \A v \in DOMAIN handshakeMap \ {uid} : handshakeMap'[v] = handshakeMap[v]
      /\ DOMAIN handshakeFrom' = DOMAIN handshakeFrom \ OldAddress(uid)
      /\ \A f \in DOMAIN handshakeFrom' : handshakeFrom'[f] = handshakeFrom[f]
  BY <1>1 DEF Drop
<1>3. /\ handshakeMap' \in [DOMAIN handshakeMap' -> DOMAIN shake]
      /\ handshakeFrom' \in [DOMAIN handshakeFrom' -> DOMAIN shake]
  BY <1>1, DropType DEF Inv, TypeOK
<1>4. AddressesLead'
  BY <1>2, AddressGone DEF AddressesLead
<1> QED BY <1>2, <1>3, <1>4 DEF Inv, TypeOK

(* What an accepted handshake does to the numbers and the two maps of      *)
(* entries, whether its reply goes out or raises an error.                 *)
Accepts(n, uid, from, time) ==
    /\ n <= MaxShakes
    /\ shake' = Put(shake, n, [uid |-> uid, from |-> from, time |-> time])
    /\ Remember(n, uid, from)
    /\ subid' = NewSubid

LEMMA NumberIsSubid ==
  ASSUME Inv
  PROVE  subid \in Nat /\ DOMAIN shake = 1..subid /\ Cardinality(DOMAIN shake) + 1 = subid + 1
<1>1. subid \in Nat /\ DOMAIN shake = 1..subid
  BY TableAssumption DEF Inv, Numbered
<1>2. Cardinality(1..subid) = subid
  BY <1>1, FS_Interval
<1> QED BY <1>1, <1>2

LEMMA AcceptsFacts ==
  ASSUME NoWrap, Inv, NEW uid \in Uid, NEW from \in From, NEW time \in Times,
         NEW n, n = subid + 1, Accepts(n, uid, from, time)
  PROVE  /\ subid' = n /\ n \in 1..MaxShakes /\ n \in 1..(SubidLimit - 1)
         /\ 1..subid \subseteq 1..n /\ n \notin 1..subid
         /\ DOMAIN shake' = 1..n /\ DOMAIN shake \subseteq DOMAIN shake'
         /\ shake' \in [1..n -> [uid : Uid, from : From, time : Times]]
         /\ DOMAIN handshakeMap' \subseteq Uid /\ DOMAIN handshakeFrom' \subseteq From
         /\ handshakeMap' \in [DOMAIN handshakeMap' -> DOMAIN shake']
         /\ handshakeFrom' \in [DOMAIN handshakeFrom' -> DOMAIN shake']
         /\ AddressesLead'
<1> DEFINE entry == [uid |-> uid, from |-> from, time |-> time]
<1>1. subid \in Nat /\ DOMAIN shake = 1..subid
  BY NumberIsSubid
<1>2. /\ n <= MaxShakes /\ shake' = Put(shake, n, entry) /\ Remember(n, uid, from)
      /\ subid' = NewSubid
  BY DEF Accepts
<1>3. subid' = n /\ n \in 1..MaxShakes /\ n \in 1..(SubidLimit - 1) /\ n \notin 1..subid
  BY <1>1, <1>2, TableAssumption DEF NewSubid, NoWrap
<1>4. (1..subid) \cup {n} = 1..n /\ 1..subid \subseteq 1..n
  BY <1>1
<1> HIDE DEF entry
<1>5. /\ shake' \in [1..n -> [uid : Uid, from : From, time : Times]]
      /\ shake'[n] = entry /\ \A m \in DOMAIN shake : shake'[m] = shake[m]
      /\ DOMAIN shake' = DOMAIN shake \cup {n} /\ DOMAIN shake' = 1..n
  <2>1. entry \in [uid : Uid, from : From, time : Times]
    BY DEF entry
  <2>2. shake \in [1..subid -> [uid : Uid, from : From, time : Times]]
    BY DEF Inv, Numbered
  <2> QED BY <1>1, <1>2, <1>3, <1>4, <2>1, <2>2 DEF Put
<1>6. /\ DOMAIN handshakeMap' = DOMAIN handshakeMap \cup {uid}
      /\ handshakeMap'[uid] = n
      /\ \A v \in DOMAIN handshakeMap : v # uid => handshakeMap'[v] = handshakeMap[v]
      /\ DOMAIN handshakeFrom' = (DOMAIN handshakeFrom \ OldAddress(uid)) \cup {from}
      /\ handshakeFrom'[from] = n
      /\ \A f \in DOMAIN handshakeFrom \ OldAddress(uid) :
            f # from => handshakeFrom'[f] = handshakeFrom[f]
  BY <1>2 DEF Remember, Put, Drop
<1>7. AddressesLead'
  <2> SUFFICES ASSUME NEW f \in DOMAIN handshakeFrom'
               PROVE  LET m == handshakeFrom'[f]
                      IN  /\ shake'[m].from = f
                          /\ shake'[m].uid \in DOMAIN handshakeMap'
                          /\ handshakeMap'[shake'[m].uid] = m
    BY DEF AddressesLead
  <2>1. CASE f = from
    <3>1. shake'[n].uid = uid /\ shake'[n].from = from
      BY <1>5 DEF entry
    <3> QED BY <1>6, <2>1, <3>1
  <2>2. CASE f # from
    <3>1. f \in DOMAIN handshakeFrom \ OldAddress(uid) /\ handshakeFrom'[f] = handshakeFrom[f]
      BY <1>6, <2>2
    <3>2. LET m == handshakeFrom[f]
          IN  /\ m \in DOMAIN shake /\ shake[m].from = f /\ shake[m].uid # uid
              /\ shake[m].uid \in DOMAIN handshakeMap /\ handshakeMap[shake[m].uid] = m
      BY <3>1, AddressGone
    <3> QED BY <1>5, <1>6, <3>1, <3>2
  <2> QED BY <2>1, <2>2
<1>8. n \in DOMAIN shake' /\ DOMAIN shake \subseteq DOMAIN shake'
  BY <1>5
<1>9. handshakeMap' \in [DOMAIN handshakeMap' -> DOMAIN shake']
  <2>1. handshakeMap \in [DOMAIN handshakeMap -> DOMAIN shake']
    BY <1>8 DEF Inv, TypeOK
  <2> QED BY <1>2, <1>8, <2>1, PutType DEF Remember
<1>10. handshakeFrom' \in [DOMAIN handshakeFrom' -> DOMAIN shake']
  <2> DEFINE d == Drop(handshakeFrom, OldAddress(uid))
  <2>1. handshakeFrom \in [DOMAIN handshakeFrom -> DOMAIN shake']
    BY <1>8 DEF Inv, TypeOK
  <2>2. d \in [DOMAIN d -> DOMAIN shake']
    BY <2>1, DropType
  <2>3. handshakeFrom' = Put(d, from, n)
    BY <1>2 DEF Remember
  <2> HIDE DEF d
  <2> QED BY <1>8, <2>2, <2>3, PutType
<1>11. DOMAIN handshakeMap' \subseteq Uid /\ DOMAIN handshakeFrom' \subseteq From
  BY <1>6 DEF Inv, TypeOK
<1> QED BY <1>3, <1>4, <1>5, <1>7, <1>8, <1>9, <1>10, <1>11

LEMMA HandshakeInv ==
  ASSUME NoWrap, Inv, NEW uid \in Uid, NEW from \in From, NEW time \in Times,
         Handshake(uid, from, time)
  PROVE  Inv'
<1> DEFINE n == subid + 1
<1>1. /\ Accepts(n, uid, from, time) /\ Connect(uid, subid')
      /\ updaters' = updaters \cup {[shake |-> n, subid |-> subid']}
      /\ keepers' = Put(keepers, n, 0) /\ UNCHANGED died
  BY NumberIsSubid DEF Handshake, Accepts
<1> n = subid + 1
  OBVIOUS
<1> HIDE DEF n
<1>2. /\ subid' = n /\ n \in 1..MaxShakes /\ n \in 1..(SubidLimit - 1)
      /\ 1..subid \subseteq 1..n /\ n \notin 1..subid
      /\ DOMAIN shake' = 1..n /\ DOMAIN shake \subseteq DOMAIN shake'
      /\ shake' \in [1..n -> [uid : Uid, from : From, time : Times]]
      /\ DOMAIN handshakeMap' \subseteq Uid /\ DOMAIN handshakeFrom' \subseteq From
      /\ handshakeMap' \in [DOMAIN handshakeMap' -> DOMAIN shake']
      /\ handshakeFrom' \in [DOMAIN handshakeFrom' -> DOMAIN shake']
      /\ AddressesLead'
  BY <1>1, AcceptsFacts
<1>3. /\ DOMAIN connection' \subseteq DOMAIN connection \cup {n}
      /\ DOMAIN connection' \subseteq 1..(SubidLimit - 1)
      /\ connection' \in [DOMAIN connection' -> Uid]
      /\ DOMAIN uidMap' \subseteq Uid
      /\ uidMap' \in [DOMAIN uidMap' -> 1..(SubidLimit - 1)]
      /\ connectNum' \in Nat
      /\ UsersLead' /\ ConnectNumCounts' /\ IsFiniteSet(DOMAIN connection')
  BY <1>1, <1>2, ConnectFacts
<1>4. updaters' = updaters \cup {Updater(n)}
  BY <1>1, <1>2 DEF Updater
<1>5. n \in 1..n /\ n \in Nat
  BY <1>2
<1>6. Numbered'
  <2>1. subid' \in 0..MaxShakes
    BY <1>2
  <2>2. <<"update", n>> \notin died
    BY <1>2, <1>5 DEF Inv, Numbered
  <2>3. ASSUME NEW s \in DOMAIN connection'
        PROVE  s \in 1..n /\ (Updater(s) \in updaters' <=> <<"update", s>> \notin died')
    <3>1. CASE s = n
      BY <1>1, <1>4, <1>5, <2>2, <3>1
    <3>2. CASE s # n
      <4>1. s \in DOMAIN connection
        BY <1>3, <2>3, <3>2
      <4>2. s \in 1..subid /\ (Updater(s) \in updaters <=> <<"update", s>> \notin died)
        BY <4>1 DEF Inv, Numbered
      <4>3. Updater(s) # Updater(n)
        BY <3>2 DEF Updater
      <4> QED BY <1>1, <1>2, <1>4, <4>2, <4>3
    <3> QED BY <3>1, <3>2
  <2>4. ASSUME NEW u \in updaters' PROVE u.subid \in 1..n /\ u = Updater(u.subid)
    <3>1. CASE u = Updater(n)
      BY <1>5, <3>1 DEF Updater
    <3>2. CASE u \in updaters
      BY <1>2, <3>2 DEF Inv, Numbered
    <3> QED BY <1>4, <2>4, <3>1, <3>2
  <2>5. \A s \in Nat : <<"update", s>> \in died' => s \in 1..n
    BY <1>1, <1>2 DEF Inv, Numbered
  <2> QED BY <1>2, <2>1, <2>3, <2>4, <2>5 DEF Numbered
<1>7. TypeOK'
  <2>1. /\ keepers' \in [DOMAIN keepers' -> 0..(Rounds - 1)]
        /\ DOMAIN keepers' \subseteq DOMAIN shake'
    <3>1. 0 \in 0..(Rounds - 1)
      BY TableAssumption
    <3>2. keepers' \in [DOMAIN keepers' -> 0..(Rounds - 1)]
      BY <1>1, <3>1, PutType DEF Inv, TypeOK
    <3>3. DOMAIN keepers' = DOMAIN keepers \cup {n}
      BY <1>1 DEF Put
    <3> QED BY <1>2, <1>5, <3>2, <3>3 DEF Inv, TypeOK
  <2>2. updaters' \subseteq [shake : DOMAIN shake', subid : 1..(SubidLimit - 1)]
    BY <1>2, <1>4, <1>5 DEF Inv, TypeOK, Updater
  <2>3. subid' \in 0..(SubidLimit - 1) /\ n \in 0..MaxShakes
    BY <1>2, TableAssumption
  <2>4. \E m \in 0..MaxShakes : shake' \in [1..m -> [uid : Uid, from : From, time : Times]]
    BY <1>2, <2>3
  <2>5. died' \subseteq {"reply", "update"} \X Nat
    BY <1>1 DEF Inv, TypeOK
  <2> QED BY <1>2, <1>3, <2>1, <2>2, <2>3, <2>4, <2>5 DEF TypeOK
<1> QED BY <1>2, <1>3, <1>6, <1>7 DEF Inv, TablesAgree

LEMMA HandshakeDiesInv ==
  ASSUME NoWrap, Inv, NEW uid \in Uid, NEW from \in From, NEW time \in Times,
         HandshakeDies(uid, from, time)
  PROVE  Inv'
<1> DEFINE n == subid + 1
<1>1. /\ Accepts(n, uid, from, time)
      /\ died' = died \cup {<<"reply", n>>}
      /\ UNCHANGED <<connection, connectNum, uidMap, keepers, updaters>>
  BY NumberIsSubid DEF HandshakeDies, Accepts, Dies
<1> n = subid + 1
  OBVIOUS
<1> HIDE DEF n
<1>2. /\ subid' = n /\ n \in 1..MaxShakes /\ n \in 1..(SubidLimit - 1)
      /\ 1..subid \subseteq 1..n
      /\ DOMAIN shake' = 1..n /\ DOMAIN shake \subseteq DOMAIN shake'
      /\ shake' \in [1..n -> [uid : Uid, from : From, time : Times]]
      /\ DOMAIN handshakeMap' \subseteq Uid /\ DOMAIN handshakeFrom' \subseteq From
      /\ handshakeMap' \in [DOMAIN handshakeMap' -> DOMAIN shake']
      /\ handshakeFrom' \in [DOMAIN handshakeFrom' -> DOMAIN shake']
      /\ AddressesLead'
  BY <1>1, AcceptsFacts
<1>3. \A s : <<"update", s>> \in died' <=> <<"update", s>> \in died
  BY <1>1
<1>4. Numbered'
  <2>1. subid' \in 0..MaxShakes
    BY <1>2
  <2>2. \A s \in DOMAIN connection' :
           s \in 1..n /\ (Updater(s) \in updaters' <=> <<"update", s>> \notin died')
    BY <1>1, <1>2, <1>3 DEF Inv, Numbered
  <2>3. \A u \in updaters' : u.subid \in 1..n /\ u = Updater(u.subid)
    BY <1>1, <1>2 DEF Inv, Numbered
  <2>4. \A s \in Nat : <<"update", s>> \in died' => s \in 1..n
    BY <1>2, <1>3 DEF Inv, Numbered
  <2> QED BY <1>2, <2>1, <2>2, <2>3, <2>4 DEF Numbered
<1>5. TypeOK'
  <2>1. subid' \in 0..(SubidLimit - 1) /\ n \in 0..MaxShakes /\ n \in Nat
    BY <1>2, TableAssumption
  <2>2. \E m \in 0..MaxShakes : shake' \in [1..m -> [uid : Uid, from : From, time : Times]]
    BY <1>2, <2>1
  <2>3. died' \subseteq {"reply", "update"} \X Nat
    BY <1>1, <2>1 DEF Inv, TypeOK
  <2>4. /\ connectNum' \in Nat
        /\ DOMAIN connection' \subseteq 1..(SubidLimit - 1)
        /\ connection' \in [DOMAIN connection' -> Uid]
        /\ DOMAIN uidMap' \subseteq Uid
        /\ uidMap' \in [DOMAIN uidMap' -> 1..(SubidLimit - 1)]
        /\ keepers' \in [DOMAIN keepers' -> 0..(Rounds - 1)]
    BY <1>1 DEF Inv, TypeOK
  <2>5. /\ DOMAIN keepers' \subseteq DOMAIN shake'
        /\ updaters' \subseteq [shake : DOMAIN shake', subid : 1..(SubidLimit - 1)]
    BY <1>1, <1>2 DEF Inv, TypeOK
  <2> QED BY <1>2, <2>1, <2>2, <2>3, <2>4, <2>5 DEF TypeOK
<1>6. IsFiniteSet(DOMAIN connection') /\ UsersLead' /\ ConnectNumCounts'
  BY <1>1 DEF Inv, TablesAgree, UsersLead, ConnectNumCounts
<1> QED BY <1>2, <1>4, <1>5, <1>6 DEF Inv, TablesAgree

LEMMA KeepReplyInv ==
  ASSUME Inv, NEW n \in DOMAIN keepers, KeepReply(n)
  PROVE  Inv'
<1> DEFINE uid == shake[n].uid
           last == keepers[n] + 1 = Rounds
<1>1. /\ IF uid \in DOMAIN handshakeMap /\ last
         THEN ForgetShake(uid) ELSE UNCHANGED <<handshakeMap, handshakeFrom>>
      /\ keepers' = IF uid \notin DOMAIN handshakeMap \/ last
                    THEN Drop(keepers, {n}) ELSE [keepers EXCEPT ![n] = @ + 1]
      /\ UNCHANGED <<subid, connection, connectNum, uidMap, shake, updaters, died>>
  BY DEF KeepReply
<1>2. n \in DOMAIN shake /\ uid \in Uid
  BY DEF Inv, TypeOK
<1> HIDE DEF uid
<1>3. /\ DOMAIN handshakeMap' \subseteq Uid /\ DOMAIN handshakeFrom' \subseteq From
      /\ handshakeMap' \in [DOMAIN handshakeMap' -> DOMAIN shake]
      /\ handshakeFrom' \in [DOMAIN handshakeFrom' -> DOMAIN shake]
      /\ AddressesLead'
  <2>1. CASE ForgetShake(uid)
    BY <1>1, <1>2, <2>1, ForgetFacts
  <2>2. CASE UNCHANGED <<handshakeMap, handshakeFrom>>
    BY <1>1, <2>2 DEF Inv, TypeOK, TablesAgree, AddressesLead
  <2> QED BY <1>1, <2>1, <2>2
<1>4. DOMAIN keepers' \subseteq DOMAIN shake /\ keepers' \in [DOMAIN keepers' -> 0..(Rounds - 1)]
  <2>1. CASE keepers' = Drop(keepers, {n})
    <3>1. DOMAIN keepers' \subseteq DOMAIN keepers
      BY <2>1 DEF Drop
    <3> QED BY <2>1, <3>1, DropType DEF Inv, TypeOK
  <2>2. CASE ~last /\ keepers' = [keepers EXCEPT ![n] = @ + 1]
    <3>1. keepers[n] \in 0..(Rounds - 1) /\ Rounds \in Nat
      BY TableAssumption DEF Inv, TypeOK
    <3>2. keepers[n] + 1 \in 0..(Rounds - 1)
      BY <2>2, <3>1
    <3> HIDE DEF last
    <3> QED BY <2>2, <3>2 DEF Inv, TypeOK
  <2> QED BY <1>1, <2>1, <2>2
<1>5. TypeOK'
  BY <1>1, <1>3, <1>4 DEF Inv, TypeOK
<1>6. Numbered' /\ IsFiniteSet(DOMAIN connection') /\ UsersLead' /\ ConnectNumCounts'
  BY <1>1 DEF Inv, Numbered, TablesAgree, UsersLead, ConnectNumCounts
<1> QED BY <1>3, <1>5, <1>6 DEF Inv, TablesAgree

LEMMA KeepReplyDiesInv ==
  ASSUME Inv, NEW n \in DOMAIN keepers, KeepReplyDies(n)
  PROVE  Inv'
<1>1. /\ keepers' = Drop(keepers, {n}) /\ died' = died \cup {<<"reply", n>>}
      /\ UNCHANGED <<subid, connection, connectNum, uidMap, shake, updaters,
                     handshakeMap, handshakeFrom>>
  BY DEF KeepReplyDies, Dies
<1>2. \A s : <<"update", s>> \in died' <=> <<"update", s>> \in died
  BY <1>1
<1>3. Numbered'
  BY <1>1, <1>2 DEF Inv, Numbered
<1>4. n \in Nat
  <2>1. n \in 1..subid /\ subid \in 0..MaxShakes
    BY DEF Inv, TypeOK, Numbered
  <2> QED BY <2>1
<1>5. DOMAIN keepers' \subseteq DOMAIN shake' /\ keepers' \in [DOMAIN keepers' -> 0..(Rounds - 1)]
  <2>1. DOMAIN keepers' \subseteq DOMAIN keepers
    BY <1>1 DEF Drop
  <2> QED BY <1>1, <2>1, DropType DEF Inv, TypeOK
<1>6. died' \subseteq {"reply", "update"} \X Nat
  BY <1>1, <1>4 DEF Inv, TypeOK
<1>7. TypeOK'
  BY <1>1, <1>5, <1>6 DEF Inv, TypeOK
<1>8. IsFiniteSet(DOMAIN connection') /\ TablesAgree'
  BY <1>1 DEF Inv, TablesAgree, UsersLead, ConnectNumCounts, AddressesLead
<1> QED BY <1>3, <1>7, <1>8 DEF Inv

(* A coroutine leaves that drives no connection or was ended by an error.  *)
LEMMA UpdaterGoneInv ==
  ASSUME Inv, NEW u \in updaters, UpdaterEnds(u) \/ UpdaterDies(u)
  PROVE  Inv'
<1>1. /\ updaters' = updaters \ {u}
      /\ UNCHANGED <<subid, connection, connectNum, uidMap, shake, handshakeMap,
                     handshakeFrom, keepers>>
      /\ \/ u.subid \notin DOMAIN connection /\ died' = died
         \/ died' = died \cup {<<"update", u.subid>>}
  BY DEF UpdaterEnds, UpdaterDies, Dies
<1>2. u.subid \in 1..subid /\ u = Updater(u.subid) /\ subid \in 0..MaxShakes
  BY DEF Inv, Numbered
<1>3. u.subid \in Nat
  BY <1>2
<1>4. ASSUME NEW s \in DOMAIN connection
      PROVE  Updater(s) \in updaters' <=> <<"update", s>> \notin died'
  <2>1. Updater(s) \in updaters <=> <<"update", s>> \notin died
    BY <1>4 DEF Inv, Numbered
  <2>2. CASE s = u.subid
    BY <1>1, <1>2, <1>4, <2>2
  <2>3. CASE s # u.subid
    <3>1. Updater(s) # u
      BY <1>2, <2>3 DEF Updater
    <3>2. <<"update", s>> \in died' <=> <<"update", s>> \in died
      BY <1>1, <2>3
    <3> QED BY <1>1, <2>1, <3>1, <3>2
  <2> QED BY <2>2, <2>3
<1>5. \A s \in Nat : <<"update", s>> \in died' => s \in 1..subid
  BY <1>1, <1>2 DEF Inv, Numbered
<1>6. Numbered'
  BY <1>1, <1>4, <1>5 DEF Inv, Numbered
<1>7. died' \subseteq {"reply", "update"} \X Nat
  BY <1>1, <1>3 DEF Inv, TypeOK
<1>8. TypeOK'
  BY <1>1, <1>7 DEF Inv, TypeOK
<1>9. IsFiniteSet(DOMAIN connection') /\ TablesAgree'
  BY <1>1 DEF Inv, TablesAgree, UsersLead, ConnectNumCounts, AddressesLead
<1> QED BY <1>6, <1>8, <1>9 DEF Inv

LEMMA NextInv == ASSUME NoWrap PROVE Inv /\ [Next]_vars => Inv'
<1> SUFFICES ASSUME Inv, [Next]_vars PROVE Inv'
  OBVIOUS
<1>1. CASE UNCHANGED vars
  BY <1>1 DEF vars, Inv, TypeOK, Numbered, TablesAgree, UsersLead, ConnectNumCounts,
              AddressesLead
<1> QED BY <1>1, HandshakeInv, HandshakeDiesInv, KeepReplyInv, KeepReplyDiesInv,
          UpdaterGoneInv DEF Next

(* The parts together are an invariant.                                    *)
THEOREM Inductive == ASSUME NoWrap PROVE Spec => []Inv
BY InitInv, NextInv, PTL DEF Spec

(* Every variable keeps its type.                                          *)
THEOREM TypeCorrect == ASSUME NoWrap PROVE Spec => []TypeOK
<1>1. Inv => TypeOK
  BY DEF Inv
<1> QED BY <1>1, Inductive, PTL

(* connection, connectNum, uidMap, handshakeMap and handshakeFrom tell the *)
(* same story after every handshake and every round of its coroutine.      *)
THEOREM TablesTellOneStory == ASSUME NoWrap PROVE Spec => []TablesAgree
<1>1. Inv => TablesAgree
  BY DEF Inv
<1> QED BY <1>1, Inductive, PTL

(* The kcp of each connection is driven by one coroutine, however often    *)
(* its user shakes hands again, and by none only when an error ended it.   *)
THEOREM OneUpdaterEach == ASSUME NoWrap PROVE Spec => []OneUpdater
<1>1. Inv => OneUpdater
  <2> SUFFICES ASSUME Inv, NEW s \in DOMAIN connection
               PROVE  Cardinality({u \in updaters : u.subid = s})
                        = IF <<"update", s>> \in died THEN 0 ELSE 1
    BY DEF OneUpdater
  <2>1. CASE <<"update", s>> \in died
    <3>1. {u \in updaters : u.subid = s} = {}
      BY <2>1 DEF Inv, Numbered
    <3> QED BY <2>1, <3>1, FS_EmptySet
  <2>2. CASE <<"update", s>> \notin died
    <3>1. {u \in updaters : u.subid = s} = {Updater(s)}
      BY <2>2 DEF Inv, Numbered, Updater
    <3> QED BY <2>2, <3>1, FS_Singleton
  <2> QED BY <2>1, <2>2
<1> QED BY <1>1, Inductive, PTL
=============================================================================
