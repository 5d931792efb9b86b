---------------------------- MODULE LkcpSnProofs ----------------------------
(***************************************************************************)
(* Proofs about LkcpSn, for any number of services, coroutines, control    *)
(* blocks, addresses and creations that fail; the last part is about a     *)
(* process with one service, which the run of LkcpSn_threads shows to be   *)
(* necessary.                                                              *)
(***************************************************************************)
EXTENDS MCBindings, FiniteSetTheorems, SequenceTheorems, TLAPS

(* The output callback is given bytes, never none.                         *)
Given == \A s \in Service : at[s] # "idle" => out[s].buf \in Bytes

Inv == /\ TypeOK /\ OnCaller /\ Given
       /\ IsFiniteSet(DOMAIN user) /\ Accounted

(* What OnCaller says of one service.                                      *)
Calls(s) ==
    at[s] # "idle" => /\ out[s].kcp \in DOMAIN user
                      /\ user[out[s].kcp].owner = s
                      /\ user[out[s].kcp].eL = out[s].L

LEMMA OnCallerIsCalls == OnCaller <=> \A s \in Service : Calls(s)
BY DEF OnCaller, Calls, Owned

-----------------------------------------------------------------------------
(* Giving an address changes no other field of a Callback.                 *)
LEMMA AddressGiven ==
  ASSUME NEW c \in Callback, NEW a \in Addr
  PROVE  LET d == WithAddress(c, a)
         IN  d \in Callback /\ d.owner = c.owner /\ d.eL = c.eL
BY DEF WithAddress, Callback

(* An entry of user taken out.                                             *)
LEMMA UserRemoved ==
  ASSUME NEW u, NEW k
  PROVE  LET v == Restrict(u, DOMAIN u \ {k})
         IN  /\ DOMAIN v = DOMAIN u \ {k}
             /\ \A j \in DOMAIN v : v[j] = u[j]
BY DEF Restrict

(* A function is in a set of functions if its values are in the range.     *)
LEMMA UserTyped ==
  ASSUME NEW u, NEW D, u = [j \in D |-> u[j]], NEW S, \A j \in D : u[j] \in S
  PROVE  u \in [D -> S]
OBVIOUS


-----------------------------------------------------------------------------
LEMMA InitInv == Init => Inv
<1> SUFFICES ASSUME Init PROVE Inv
  OBVIOUS
<1>1. DOMAIN user = {} /\ user \in [DOMAIN user -> Callback]
  BY DEF Init
<1>2. TypeOK
  <2>1. /\ LL \in Seq(Item) /\ at \in [Service -> Where] /\ failed \in 0..MaxFailed
        /\ svrsock \in Service \cup {None}
    BY NamesAssumption DEF Init, Where
  <2>2. out \in [Service -> [L : Coroutine \cup {None}, kcp : Kcp \cup {None},
                             buf : Bytes \cup {None}, buf2 : Item]]
    BY DEF Init, Idle, Item
  <2>3. blocks \in [{"callback", "address", "kcp"} -> Nat]
    BY DEF Init
  <2> QED BY <1>1, <2>1, <2>2, <2>3 DEF TypeOK
<1>3. OnCaller /\ Given
  BY <1>1 DEF Init, OnCaller, Given
<1>4. IsFiniteSet(DOMAIN user) /\ Cardinality(DOMAIN user) = 0
  BY <1>1, FS_EmptySet
<1>5. Accounted
  BY <1>4 DEF Init, Accounted
<1> QED BY <1>2, <1>3, <1>4, <1>5 DEF Inv

(* Allocating or freeing one block of each kind.                           *)
LEMMA BlocksCounted ==
  ASSUME NEW n \in Int, NEW m \in Int, NEW b, b = [callback |-> n, address |-> m, kcp |-> n]
  PROVE  /\ [x \in DOMAIN b |-> b[x] + 1] =
                [callback |-> n + 1, address |-> m + 1, kcp |-> n + 1]
         /\ [x \in DOMAIN b |-> b[x] - 1] =
                [callback |-> n - 1, address |-> m - 1, kcp |-> n - 1]
<1>1. DOMAIN b = {"callback", "address", "kcp"}
  OBVIOUS
<1>2. b["callback"] = n /\ b["address"] = m /\ b["kcp"] = n
  OBVIOUS
<1> QED BY <1>1, <1>2

LEMMA CreateInv ==
  ASSUME Inv, NEW s \in Service, NEW L \in Coroutine, NEW k \in Kcp, NEW a \in Addr,
         Create(s, L, k, a)
  PROVE  Inv'
<1> DEFINE c == [owner |-> s, eL |-> L, address |-> a]
<1>1. /\ k \notin DOMAIN user /\ UNCHANGED <<LL, at, out>>
      /\ svrsock' \in Service \cup {None} /\ Given'
  BY DEF Create, Inv, TypeOK, Given
<1>2. c \in Callback
  BY DEF Callback
<1> HIDE DEF c
<1>3. CASE /\ user' = [j \in DOMAIN user \cup {k} |-> IF j = k THEN c ELSE user[j]]
           /\ blocks' = [x \in DOMAIN blocks |-> blocks[x] + 1]
           /\ UNCHANGED failed
  <2>1. DOMAIN user' = DOMAIN user \cup {k} /\ DOMAIN user' \subseteq Kcp
    BY <1>3 DEF Inv, TypeOK
  <2>2. user'[k] = c /\ \A j \in DOMAIN user : user'[j] = user[j]
    BY <1>1, <1>3
  <2>3. user' \in [DOMAIN user' -> Callback]
    BY <1>2, <1>3, <2>1 DEF Inv, TypeOK
  <2>4. blocks' \in [{"callback", "address", "kcp"} -> Nat]
    BY <1>3 DEF Inv, TypeOK
  <2>5. TypeOK'
    BY <1>1, <1>3, <2>1, <2>3, <2>4 DEF Inv, TypeOK
  <2>6. OnCaller'
    BY <1>1, <2>1, <2>2, OnCallerIsCalls DEF Inv, OnCaller, Owned
  <2>7. /\ IsFiniteSet(DOMAIN user')
        /\ Cardinality(DOMAIN user') = Cardinality(DOMAIN user) + 1
        /\ Cardinality(DOMAIN user) \in Nat
    BY <1>1, <2>1, FS_AddElement, FS_CardinalityType DEF Inv
  <2>8. Accounted'
    <3> DEFINE n == Cardinality(DOMAIN user)
    <3>1. blocks = [callback |-> n, address |-> n + failed, kcp |-> n]
      BY DEF Inv, Accounted
    <3>2. n \in Int /\ n + failed \in Int /\ failed \in Int
      BY <2>7 DEF Inv, TypeOK
    <3> HIDE DEF n
    <3>3. blocks' = [callback |-> n + 1, address |-> n + failed + 1, kcp |-> n + 1]
      BY <1>3, <3>1, <3>2, BlocksCounted
    <3>4. Cardinality(DOMAIN user') = n + 1 /\ n + failed + 1 = n + 1 + failed'
      BY <1>3, <2>7, <3>2 DEF n
    <3> QED BY <3>3, <3>4 DEF Accounted
  <2> QED BY <1>1, <2>5, <2>6, <2>7, <2>8 DEF Inv
<1>4. CASE /\ failed < MaxFailed /\ failed' = failed + 1
           /\ blocks' = [blocks EXCEPT !.address = @ + 1]
           /\ UNCHANGED user
  <2>1. failed' \in 0..MaxFailed /\ blocks' \in [{"callback", "address", "kcp"} -> Nat]
    BY <1>4, NamesAssumption DEF Inv, TypeOK
  <2>2. TypeOK'
    BY <1>1, <1>4, <2>1 DEF Inv, TypeOK
  <2>3. OnCaller' /\ IsFiniteSet(DOMAIN user')
    BY <1>1, <1>4 DEF Inv, OnCaller, Owned
  <2>4. Accounted'
    BY <1>4, FS_CardinalityType DEF Inv, Accounted, TypeOK
  <2> QED BY <1>1, <2>2, <2>3, <2>4 DEF Inv
<1> QED BY <1>3, <1>4 DEF Create, c

LEMMA AddressInv ==
  ASSUME Inv, NEW s \in Service, NEW k \in Kcp, NEW a \in Addr, SetAddress(s, k, a)
  PROVE  Inv'
<1>1. /\ k \in DOMAIN user /\ user' = [user EXCEPT ![k] = WithAddress(@, a)]
      /\ UNCHANGED <<blocks, failed, svrsock, LL, at, out>>
  BY DEF SetAddress, Owned
<1>2. /\ DOMAIN user' = DOMAIN user
      /\ user'[k] = WithAddress(user[k], a)
      /\ \A j \in DOMAIN user \ {k} : user'[j] = user[j]
  BY <1>1 DEF Inv, TypeOK
<1>3. user[k] \in Callback
  BY <1>1 DEF Inv, TypeOK
<1>4. /\ user'[k] \in Callback /\ user'[k].owner = user[k].owner /\ user'[k].eL = user[k].eL
  BY <1>2, <1>3, AddressGiven
<1>5. TypeOK'
  <2>1. user' \in [DOMAIN user' -> Callback]
    BY <1>1, <1>2, <1>4 DEF Inv, TypeOK
  <2> QED BY <1>1, <1>2, <2>1 DEF Inv, TypeOK
<1>6. OnCaller'
  BY <1>1, <1>2, <1>4 DEF Inv, OnCaller, Owned
<1>7. Given'
  BY <1>1 DEF Inv, Given
<1>8. Accounted' /\ IsFiniteSet(DOMAIN user')
  BY <1>1, <1>2 DEF Inv, Accounted
<1> QED BY <1>5, <1>6, <1>7, <1>8 DEF Inv

LEMMA CollectInv ==
  ASSUME Inv, NEW s \in Service, NEW k \in Kcp, Collect(s, k)
  PROVE  Inv'
<1>1. /\ k \in DOMAIN user /\ user[k].owner = s /\ out[s].kcp # k
      /\ user' = Restrict(user, DOMAIN user \ {k})
      /\ blocks' = [x \in DOMAIN blocks |-> blocks[x] - 1]
      /\ UNCHANGED <<failed, svrsock, LL, at, out>>
  BY DEF Collect, Owned
<1>2. DOMAIN user' = DOMAIN user \ {k} /\ \A j \in DOMAIN user' : user'[j] = user[j]
  BY <1>1, UserRemoved
<1>3. user' \in [DOMAIN user' -> Callback]
  BY <1>1, <1>2 DEF Inv, TypeOK, Restrict
<1>4. /\ IsFiniteSet(DOMAIN user') /\ Cardinality(DOMAIN user') = Cardinality(DOMAIN user) - 1
      /\ Cardinality(DOMAIN user) \in Nat /\ Cardinality(DOMAIN user') \in Nat
  BY <1>1, <1>2, FS_RemoveElement, FS_CardinalityType DEF Inv
<1>5. Accounted' /\ blocks' \in [{"callback", "address", "kcp"} -> Nat]
  <2> DEFINE n == Cardinality(DOMAIN user)
  <2>1. blocks = [callback |-> n, address |-> n + failed, kcp |-> n]
    BY DEF Inv, Accounted
  <2>2. n \in Nat /\ n - 1 \in Nat /\ failed \in Nat
    BY <1>4 DEF Inv, TypeOK
  <2>3. Cardinality(DOMAIN user') = n - 1
    BY <1>4
  <2> HIDE DEF n
  <2>4. blocks' = [callback |-> n - 1, address |-> n + failed - 1, kcp |-> n - 1]
    BY <1>1, <2>1, <2>2, BlocksCounted
  <2>5. n + failed - 1 = n - 1 + failed' /\ n + failed - 1 \in Nat
    BY <1>1, <2>2
  <2> QED BY <2>2, <2>3, <2>4, <2>5 DEF Accounted
<1>6. TypeOK'
  BY <1>1, <1>2, <1>3, <1>5 DEF Inv, TypeOK
<1>7. OnCaller'
  <2> SUFFICES ASSUME NEW t \in Service PROVE Calls(t)'
    BY DEF OnCaller, Owned, Calls
  <2>1. Calls(t) /\ at'[t] = at[t] /\ out'[t] = out[t]
    BY <1>1, OnCallerIsCalls DEF Inv
  <2>2. at[t] # "idle" => out[t].kcp \in DOMAIN user'
    <3>1. ASSUME at[t] # "idle", out[t].kcp = k PROVE FALSE
      BY <1>1, <2>1, <3>1 DEF Calls
    <3> QED BY <1>2, <2>1, <3>1 DEF Calls
  <2> QED BY <1>2, <2>1, <2>2 DEF Calls
<1>8. Given'
  BY <1>1 DEF Inv, Given
<1> QED BY <1>4, <1>5, <1>6, <1>7, <1>8 DEF Inv

LEMMA EnterInv ==
  ASSUME Inv, NEW s \in Service, NEW L \in Coroutine, NEW k \in Kcp, Enter(s, L, k)
  PROVE  Inv'
<1>1. PICK b \in Bytes :
         out' = [out EXCEPT ![s] = [Idle EXCEPT !.L = L, !.kcp = k, !.buf = b]]
  BY DEF Enter
<1>2. [Idle EXCEPT !.L = L, !.kcp = k, !.buf = b] =
          [L |-> L, kcp |-> k, buf |-> b, buf2 |-> Message]
  <2> DEFINE i1 == [Idle EXCEPT !.L = L]
             i2 == [i1 EXCEPT !.kcp = k]
  <2>1. i1 = [L |-> L, kcp |-> None, buf |-> None, buf2 |-> Message]
    BY DEF Idle
  <2> HIDE DEF i1
  <2>2. i2 = [L |-> L, kcp |-> k, buf |-> None, buf2 |-> Message]
    BY <2>1
  <2> HIDE DEF i2
  <2>3. [i2 EXCEPT !.buf = b] = [L |-> L, kcp |-> k, buf |-> b, buf2 |-> Message]
    BY <2>2
  <2> QED BY <2>3 DEF i1, i2
<1>3. /\ out' = [out EXCEPT ![s] = [L |-> L, kcp |-> k, buf |-> b, buf2 |-> Message]]
      /\ at' = [at EXCEPT ![s] = "getglobal"]
      /\ user' = [user EXCEPT ![k].eL = L]
      /\ k \in DOMAIN user /\ user[k].owner = s
      /\ UNCHANGED <<blocks, failed, svrsock, LL>>
  BY <1>1, <1>2 DEF Enter, Owned
<1>4. /\ DOMAIN user' = DOMAIN user
      /\ user'[k] = [user[k] EXCEPT !.eL = L]
      /\ \A j \in DOMAIN user \ {k} : user'[j] = user[j]
  BY <1>3 DEF Inv, TypeOK
<1>5. user[k] \in Callback
  BY <1>3 DEF Inv, TypeOK
<1>6. /\ user'[k] \in Callback /\ user'[k].owner = user[k].owner /\ user'[k].eL = L
  BY <1>4, <1>5 DEF Callback
<1>7. TypeOK'
  <2>1. user' \in [DOMAIN user' -> Callback]
    BY <1>3, <1>4, <1>6 DEF Inv, TypeOK
  <2>2. out' \in [Service -> [L : Coroutine \cup {None}, kcp : Kcp \cup {None},
                              buf : Bytes \cup {None}, buf2 : Item]]
    BY <1>3 DEF Inv, TypeOK, Item
  <2>3. at' \in [Service -> Where]
    BY <1>3 DEF Inv, TypeOK, Where
  <2> QED BY <1>3, <1>4, <2>1, <2>2, <2>3 DEF Inv, TypeOK
<1>8. OnCaller'
  <2> SUFFICES ASSUME NEW t \in Service PROVE Calls(t)'
    BY DEF OnCaller, Owned, Calls
  <2>1. CASE t = s
    BY <1>3, <1>4, <1>6, <2>1 DEF Inv, TypeOK, Calls
  <2>2. CASE t # s
    <3>1. at'[t] = at[t] /\ out'[t] = out[t]
      BY <1>3, <2>2 DEF Inv, TypeOK
    <3>2. Calls(t)
      BY OnCallerIsCalls DEF Inv
    <3> QED BY <1>3, <1>4, <2>2, <3>1, <3>2 DEF Calls
  <2> QED BY <2>1, <2>2
<1>9. Given'
  BY <1>3 DEF Inv, TypeOK, Given
<1>10. Accounted' /\ IsFiniteSet(DOMAIN user')
  BY <1>3, <1>4 DEF Inv, Accounted
<1> QED BY <1>7, <1>8, <1>9, <1>10 DEF Inv


OutType == [L : Coroutine \cup {None}, kcp : Kcp \cup {None},
            buf : Bytes \cup {None}, buf2 : Item]

(* What a step of the output callback keeps: the userdata, and who is in   *)
(* the callback for which of them.                                         *)
OutputKept ==
    /\ LL' \in Seq(Item) /\ at' \in [Service -> Where] /\ out' \in [Service -> OutType]
    /\ Given'
    /\ \A t \in Service : at'[t] # "idle" =>
          at[t] # "idle" /\ out'[t].kcp = out[t].kcp /\ out'[t].L = out[t].L

LEMMA OutputKeeps ==
  ASSUME TypeOK, OnCaller, Given, NEW s \in Service, Output(s)
  PROVE  UNCHANGED <<user, blocks, failed, svrsock>> /\ OutputKept
<1>0. /\ LL \in Seq(Item) /\ at \in [Service -> Where] /\ out \in [Service -> OutType]
      /\ Fn \in Item /\ Message \in Item
  BY DEF TypeOK, OutType, Item
<1>1. ASSUME NEW from \in Where \ {"idle"}, NEW to \in Where, Goto(s, from, to),
             LL' \in Seq(Item), out' = out
      PROVE  OutputKept
  <2>1. /\ at' \in [Service -> Where] /\ at[s] # "idle"
        /\ \A t \in Service : at'[t] # "idle" => at[t] # "idle"
    BY <1>0, <1>1 DEF Goto
  <2> QED BY <1>0, <1>1, <2>1 DEF OutputKept, Given
<1>2. ASSUME NEW item \in Item, Push(item)
      PROVE  LL' \in Seq(Item)
  BY <1>0, <1>2 DEF Push
<1>3. ASSUME at[s] # "idle", Return(s), LL' = LL
      PROVE  OutputKept
  <2>1. Idle \in OutType /\ "idle" \in Where
    BY <1>0 DEF Idle, OutType, Where
  <2>2. /\ at' \in [Service -> Where] /\ out' \in [Service -> OutType]
        /\ \A t \in Service : at'[t] # "idle" => at[t] # "idle" /\ out'[t] = out[t]
    BY <1>0, <1>3, <2>1 DEF Return
  <2> QED BY <1>0, <1>3, <2>2 DEF OutputKept, Given
<1>4. CASE GetGlobal(s)
  <2>1. Goto(s, "getglobal", "isfunction") /\ LL' \in Seq(Item)
    BY <1>0, <1>2, <1>4 DEF GetGlobal
  <2> QED BY <1>1, <1>4, <2>1 DEF GetGlobal, Where
<1>5. CASE IsFunction(s)
  BY <1>0, <1>1, <1>3, <1>5 DEF IsFunction, Where
<1>6. CASE PushInteger(s)
  <2>1. Goto(s, "pushinteger", "pushlstring")
    BY <1>6 DEF PushInteger
  <2>2. Conv(out[s].kcp) \in Item
    <3>1. out[s].kcp \in Kcp
      BY <2>1 DEF OnCaller, Owned, Goto, TypeOK
    <3> QED BY <3>1 DEF Item
  <2>3. LL' \in Seq(Item)
    BY <1>2, <1>6, <2>2 DEF PushInteger
  <2> QED BY <1>1, <1>6, <2>1, <2>3 DEF PushInteger, Where
<1>7. CASE PushLString(s)
  <2>1. Goto(s, "pushlstring", "pcall")
    BY <1>7 DEF PushLString
  <2>2. Str(out[s].buf) \in Item
    <3>1. out[s].buf \in Bytes
      BY <2>1 DEF Given, Goto
    <3> QED BY <3>1 DEF Item
  <2>3. LL' \in Seq(Item)
    BY <1>2, <1>7, <2>2 DEF PushLString
  <2> QED BY <1>1, <1>7, <2>1, <2>3 DEF PushLString, Where
<1>8. CASE PCall(s)
  <2> DEFINE n == Len(LL)
             args == SubSeq(LL, n - 2, n)
             result == IF \E k \in Kcp, b \in Bytes : args = <<Fn, Conv(k), Str(b)>>
                       THEN Packed(args[2][2], args[3][2]) ELSE Message
  <2>1. /\ Goto(s, "pcall", "checklstring") /\ n >= 3
        /\ LL' = SubSeq(LL, 1, n - 3) \o <<result>>
        /\ UNCHANGED <<user, blocks, failed, svrsock, out>>
    BY <1>8 DEF PCall
  <2>2. result \in Item
    <3>1. ASSUME NEW k \in Kcp, NEW b \in Bytes, args = <<Fn, Conv(k), Str(b)>>
          PROVE  Packed(args[2][2], args[3][2]) \in Item
      <4> HIDE DEF args
      <4>1. args[2] = Conv(k) /\ args[3] = Str(b)
        BY <3>1
      <4>2. args[2][2] = k /\ args[3][2] = b
        BY <4>1 DEF Conv, Str
      <4> QED BY <4>2 DEF Item
    <3> QED BY <1>0, <3>1
  <2> HIDE DEF result
  <2>3. SubSeq(LL, 1, n - 3) \in Seq(Item)
    BY <1>0, <2>1
  <2>4. LL' \in Seq(Item)
    BY <2>1, <2>2, <2>3
  <2> QED BY <1>1, <2>1, <2>4 DEF Where
<1>9. CASE CheckLString(s)
  <2>1. /\ Goto(s, "checklstring", "pop")
        /\ LL # <<>> /\ out' = [out EXCEPT ![s].buf2 = LL[1]]
        /\ UNCHANGED <<user, blocks, failed, svrsock, LL>>
    BY <1>9 DEF CheckLString
  <2>2. LL[1] \in Item
    BY <1>0, <2>1
  <2>3. /\ out' \in [Service -> OutType]
        /\ \A t \in Service : /\ out'[t].kcp = out[t].kcp /\ out'[t].L = out[t].L
                              /\ out'[t].buf = out[t].buf
    BY <1>0, <2>1, <2>2 DEF OutType
  <2>4. /\ at' \in [Service -> Where] /\ at[s] # "idle"
        /\ \A t \in Service : at'[t] # "idle" => at[t] # "idle"
    BY <1>0, <2>1 DEF Goto, Where
  <2> QED BY <1>0, <2>1, <2>3, <2>4 DEF OutputKept, Given
<1>10. CASE Pop(s)
  <2>1. Goto(s, "pop", "send") /\ LL' \in Seq(Item)
    BY <1>0, <1>10 DEF Pop
  <2> QED BY <1>1, <1>10, <2>1 DEF Pop, Where
<1>11. CASE SendBuffer(s)
  <2>1. ASSUME NEW b \in Bytes, Give(s, b) PROVE OutputKept
    <3>1. /\ out' \in [Service -> OutType]
          /\ \A t \in Service : /\ out'[t].kcp = out[t].kcp /\ out'[t].L = out[t].L
                                /\ out'[t].buf \in {out[t].buf, b}
      BY <1>0, <2>1 DEF Give, OutType
    <3>2. /\ at' \in [Service -> Where] /\ at[s] # "idle"
          /\ \A t \in Service : at'[t] # "idle" => at[t] # "idle"
      BY <1>0, <1>11, <2>1 DEF Give, SendBuffer, Where
    <3> QED BY <1>0, <1>11, <3>1, <3>2 DEF OutputKept, Given, SendBuffer
  <2> QED BY <1>3, <1>11, <2>1 DEF SendBuffer
<1>12. UNCHANGED <<user, blocks, failed, svrsock>>
  BY DEF Output, GetGlobal, IsFunction, PushInteger, PushLString, PCall,
         CheckLString, Pop, SendBuffer
<1> QED BY <1>4, <1>5, <1>6, <1>7, <1>8, <1>9, <1>10, <1>11, <1>12 DEF Output

LEMMA OutputInv ==
  ASSUME Inv, NEW s \in Service, Output(s)
  PROVE  Inv'
<1>1. UNCHANGED <<user, blocks, failed, svrsock>> /\ OutputKept
  BY OutputKeeps DEF Inv
<1>2. TypeOK' /\ Given'
  BY <1>1 DEF Inv, TypeOK, OutputKept, OutType
<1>3. OnCaller'
  BY <1>1 DEF Inv, OnCaller, Owned, OutputKept
<1>4. IsFiniteSet(DOMAIN user') /\ Accounted'
  BY <1>1 DEF Inv, Accounted
<1> QED BY <1>2, <1>3, <1>4 DEF Inv

LEMMA NextInv == Inv /\ [Next]_vars => Inv'
<1> SUFFICES ASSUME Inv, [Next]_vars PROVE Inv'
  OBVIOUS
<1>1. ASSUME NEW s \in Service, NEW k \in Kcp, NEW a \in Addr, Send(s, k, a) \/ Input(s, k, a)
      PROVE  Inv'
  BY <1>1, AddressInv DEF Send, Input
<1>2. ASSUME NEW s \in Service, NEW k \in Kcp, NEW L \in Coroutine,
             Update(s, L, k) \/ Flush(s, L, k)
      PROVE  Inv'
  BY <1>2, EnterInv DEF Update, Flush
<1>3. CASE UNCHANGED vars
  BY <1>3 DEF vars, Inv, TypeOK, OnCaller, Owned, Given, Accounted
<1> QED BY <1>1, <1>2, <1>3, OutputInv, CollectInv, CreateInv DEF Next

(* The parts together are an invariant.                                    *)
THEOREM Inductive == Spec => []Inv
BY InitInv, NextInv, PTL DEF Spec

(* Every variable keeps its type.                                          *)
THEOREM TypeCorrect == Spec => []TypeOK
<1>1. Inv => TypeOK
  BY DEF Inv
<1> QED BY <1>1, Inductive, PTL

(* c->eL is set by every call that reaches the output callback, so it is   *)
(* the coroutine that runs, and its control block is alive.                *)
THEOREM OutputOnCaller == Spec => []OnCaller
<1>1. Inv => OnCaller
  BY DEF Inv
<1> QED BY <1>1, Inductive, PTL

(* The binding frees what it allocated, but for the address of a creation  *)
(* that failed.                                                            *)
THEOREM BlocksAccounted == Spec => []Accounted
<1>1. Inv => Accounted
  BY DEF Inv
<1> QED BY <1>1, Inductive, PTL


-----------------------------------------------------------------------------
(* A process with one service: LL holds what its own calls put there.      *)
Stack(s) ==
    LET k == out[s].kcp
        b == out[s].buf
    IN  /\ at[s] \in {"idle", "getglobal", "send"}  => LL = <<>>
        /\ at[s] \in {"isfunction", "pushinteger"}  => LL = <<Fn>>
        /\ at[s] = "pushlstring"                    => LL = <<Fn, Conv(k)>>
        /\ at[s] = "pcall"                          => LL = <<Fn, Conv(k), Str(b)>>
        /\ at[s] = "checklstring"                   => LL = <<Packed(k, b)>>
        /\ at[s] = "pop"                            => LL = <<Packed(k, b)>>
        /\ at[s] \in {"pop", "send"}                => out[s].buf2 = Packed(k, b)

LEMMA Triples ==
  ASSUME NEW a, NEW b, NEW c
  PROVE  /\ Append(<<a>>, b) = <<a, b>>
         /\ Append(<<a, b>>, c) = <<a, b, c>>
         /\ Len(<<a, b, c>>) = 3
         /\ SubSeq(<<a, b, c>>, 1, 0) = <<>>
         /\ SubSeq(<<a, b, c>>, 1, 3) = <<a, b, c>>
         /\ <<>> \o <<a>> = <<a>>
<1> DEFINE S == {a, b, c}
<1>0. a \in S /\ b \in S /\ c \in S
  OBVIOUS
<1> HIDE DEF S
<1>1. <<a>> \in Seq(S) /\ <<a, b>> \in Seq(S) /\ <<a, b, c>> \in Seq(S)
  BY <1>0
<1>2. Append(<<a>>, b) = <<a, b>>
  <2> DEFINE t == Append(<<a>>, b)
  <2>1. t \in Seq(S) /\ Len(t) = 2 /\ t[1] = a /\ t[2] = b
    BY <1>0, <1>1, AppendProperties
  <2> HIDE DEF t
  <2>2. Len(t) = Len(<<a, b>>) /\ \A i \in 1..Len(t) : t[i] = <<a, b>>[i]
    BY <2>1
  <2>3. t = <<a, b>>
    BY <1>1, <2>1, <2>2, SeqEqual
  <2> QED BY <2>3 DEF t
<1>3. Append(<<a, b>>, c) = <<a, b, c>>
  <2> DEFINE t == Append(<<a, b>>, c)
  <2>1. t \in Seq(S) /\ Len(t) = 3 /\ t[1] = a /\ t[2] = b /\ t[3] = c
    BY <1>0, <1>1, AppendProperties
  <2> HIDE DEF t
  <2>2. Len(t) = Len(<<a, b, c>>) /\ \A i \in 1..Len(t) : t[i] = <<a, b, c>>[i]
    BY <2>1
  <2>3. t = <<a, b, c>>
    BY <1>1, <2>1, <2>2, SeqEqual
  <2> QED BY <2>3 DEF t
<1>4. Len(<<a, b, c>>) = 3
  OBVIOUS
<1>5. SubSeq(<<a, b, c>>, 1, 0) = <<>>
  BY SubSeqEmpty
<1>6. SubSeq(<<a, b, c>>, 1, 3) = <<a, b, c>>
  <2> DEFINE u == <<a, b, c>>
             t == SubSeq(u, 1, 3)
  <2>1. \A i \in 1..3 : u[i] \in S
    BY <1>0
  <2>2. u \in Seq(S) /\ Len(u) = 3
    BY <1>1
  <2> HIDE DEF u
  <2>3. t \in Seq(S) /\ Len(t) = 3 /\ \A i \in 1..3 : t[i] = u[i]
    BY <2>1, SubSeqProperties
  <2> HIDE DEF t
  <2>4. t = u
    BY <2>2, <2>3, SeqEqual
  <2> QED BY <2>4 DEF t, u
<1>7. <<>> \o <<a>> = <<a>>
  BY <1>1, ConcatEmptySeq
<1> QED BY <1>2, <1>3, <1>4, <1>5, <1>6, <1>7

LEMMA OneStack ==
  ASSUME NEW s, Service = {s}, Inv, Stack(s), [Next]_vars
  PROVE  Stack(s)'
<1>0. /\ s \in Service /\ at \in [Service -> Where] /\ out \in [Service -> OutType]
      /\ Given /\ OnCaller
  BY DEF Inv, TypeOK, OutType
<1>1. ASSUME UNCHANGED <<LL, at, out>>
      PROVE  Stack(s)'
  BY <1>1 DEF Stack
<1>3. ASSUME NEW k \in Kcp, NEW L \in Coroutine, Enter(s, L, k)
      PROVE  Stack(s)'
  <2>1. at[s] = "idle" /\ at'[s] = "getglobal" /\ LL' = LL
    BY <1>0, <1>3 DEF Enter
  <2> QED BY <2>1 DEF Stack
<1>4. CASE GetGlobal(s)
  <2>1. at[s] = "getglobal" /\ at'[s] = "isfunction" /\ LL' = Append(LL, Fn)
    BY <1>0, <1>4 DEF GetGlobal, Goto, Push
  <2>2. LL = <<>>
    BY <2>1 DEF Stack
  <2>3. LL' = <<Fn>>
    BY <2>1, <2>2
  <2> QED BY <2>1, <2>3 DEF Stack
<1>5. CASE IsFunction(s)
  <2>1. at[s] = "isfunction" /\ LL = <<Fn>> /\ LL' = LL
    BY <1>5 DEF IsFunction, Stack
  <2>2. at'[s] = "pushinteger"
    BY <1>0, <1>5, <2>1 DEF IsFunction, Goto
  <2> QED BY <2>1, <2>2 DEF Stack
<1>6. CASE PushInteger(s)
  <2>1. /\ at[s] = "pushinteger" /\ at'[s] = "pushlstring"
        /\ LL' = Append(LL, Conv(out[s].kcp)) /\ out' = out
    BY <1>0, <1>6 DEF PushInteger, Goto, Push
  <2>2. LL = <<Fn>>
    BY <2>1 DEF Stack
  <2>3. LL' = <<Fn, Conv(out[s].kcp)>>
    BY <2>1, <2>2, Triples
  <2> QED BY <2>1, <2>3 DEF Stack
<1>7. CASE PushLString(s)
  <2>1. /\ at[s] = "pushlstring" /\ at'[s] = "pcall"
        /\ LL' = Append(LL, Str(out[s].buf)) /\ out' = out
    BY <1>0, <1>7 DEF PushLString, Goto, Push
  <2>2. LL = <<Fn, Conv(out[s].kcp)>>
    BY <2>1 DEF Stack
  <2>3. LL' = <<Fn, Conv(out[s].kcp), Str(out[s].buf)>>
    BY <2>1, <2>2, Triples
  <2> QED BY <2>1, <2>3 DEF Stack
<1>8. CASE PCall(s)
  <2> DEFINE k == out[s].kcp
             b == out[s].buf
             args == SubSeq(LL, Len(LL) - 2, Len(LL))
  <2>1. /\ at[s] = "pcall" /\ at'[s] = "checklstring" /\ out' = out
        /\ LL' = SubSeq(LL, 1, Len(LL) - 3) \o
                    << IF \E j \in Kcp, c \in Bytes : args = <<Fn, Conv(j), Str(c)>>
                       THEN Packed(args[2][2], args[3][2]) ELSE Message >>
    BY <1>0, <1>8 DEF PCall, Goto
  <2>2. k \in Kcp /\ b \in Bytes
    BY <1>0, <2>1 DEF OnCaller, Owned, Given, Inv, TypeOK
  <2>3. LL = <<Fn, Conv(k), Str(b)>>
    BY <2>1 DEF Stack
  <2> HIDE DEF k, b
  <2>4. Len(LL) = 3 /\ SubSeq(LL, 1, 0) = <<>> /\ args = <<Fn, Conv(k), Str(b)>>
    <3>1. Len(LL) = 3 /\ SubSeq(LL, 1, 0) = <<>> /\ SubSeq(LL, 1, 3) = LL
      BY <2>3, Triples
    <3>2. args = SubSeq(LL, 1, 3)
      BY <3>1
    <3> QED BY <2>3, <3>1, <3>2
  <2>5. args[2][2] = k /\ args[3][2] = b
    <3> HIDE DEF args
    <3>1. args[2] = Conv(k) /\ args[3] = Str(b)
      BY <2>4
    <3> QED BY <3>1 DEF Conv, Str
  <2>6. LL' = <<>> \o <<Packed(k, b)>>
    <3> HIDE DEF args
    <3>1. \E j \in Kcp, c \in Bytes : args = <<Fn, Conv(j), Str(c)>>
      BY <2>2, <2>4
    <3>2. LL' = SubSeq(LL, 1, Len(LL) - 3) \o <<Packed(args[2][2], args[3][2])>>
      BY <2>1, <3>1
    <3>3. Len(LL) - 3 = 0
      BY <2>4
    <3> QED BY <2>4, <2>5, <3>2, <3>3
  <2>7. LL' = <<Packed(k, b)>>
    BY <2>6, Triples
  <2> QED BY <2>1, <2>7 DEF Stack, k, b
<1>9. CASE CheckLString(s)
  <2>1. /\ at[s] = "checklstring" /\ at'[s] = "pop" /\ LL' = LL
        /\ out' = [out EXCEPT ![s].buf2 = LL[1]]
    BY <1>0, <1>9 DEF CheckLString, Goto
  <2>2. LL = <<Packed(out[s].kcp, out[s].buf)>>
    BY <2>1 DEF Stack
  <2>3. LL[1] = Packed(out[s].kcp, out[s].buf)
    BY <2>2
  <2>4. /\ out'[s].kcp = out[s].kcp /\ out'[s].buf = out[s].buf
        /\ out'[s].buf2 = LL[1]
    BY <1>0, <2>1 DEF OutType
  <2> QED BY <2>1, <2>2, <2>3, <2>4 DEF Stack
<1>10. CASE Pop(s)
  <2>1. /\ at[s] = "pop" /\ at'[s] = "send" /\ out' = out
        /\ LL' = SubSeq(LL, 1, Len(LL) - 1)
    BY <1>0, <1>10 DEF Pop, Goto
  <2>2. LL = <<Packed(out[s].kcp, out[s].buf)>>
    BY <2>1 DEF Stack
  <2>3. LL' = <<>>
    BY <2>1, <2>2
  <2> QED BY <2>1, <2>3 DEF Stack
<1>11. CASE SendBuffer(s)
  <2>1. at[s] = "send" /\ LL' = LL /\ at'[s] \in {"getglobal", "idle"}
    BY <1>0, <1>11 DEF SendBuffer, Give, Return
  <2> QED BY <2>1 DEF Stack
<1>12. CASE UNCHANGED vars
  BY <1>1, <1>12 DEF vars
<1>13. CASE Output(s)
  BY <1>13, <1>4, <1>5, <1>6, <1>7, <1>8, <1>9, <1>10, <1>11 DEF Output
<1>14. ASSUME NEW k \in Kcp, NEW L \in Coroutine, Update(s, L, k) \/ Flush(s, L, k)
       PROVE  Stack(s)'
  BY <1>3, <1>14 DEF Update, Flush
<1>15. ASSUME NEW k \in Kcp, Collect(s, k) PROVE UNCHANGED <<LL, at, out>>
  BY <1>15 DEF Collect
<1>16. ASSUME NEW k \in Kcp, NEW a \in Addr, Send(s, k, a) \/ Input(s, k, a)
       PROVE  UNCHANGED <<LL, at, out>>
  BY <1>16 DEF Send, Input, SetAddress
<1>17. ASSUME NEW k \in Kcp, NEW a \in Addr, NEW L \in Coroutine, Create(s, L, k, a)
       PROVE  UNCHANGED <<LL, at, out>>
  BY <1>17 DEF Create
<1>18. CASE Next
  BY <1>1, <1>13, <1>14, <1>15, <1>16, <1>17, <1>18 DEF Next
<1> QED BY <1>12, <1>18

(* With one service per process every datagram carries the conv and the    *)
(* bytes of its control block, though LL is one static for all.            *)
THEOREM OneServiceOwnBytes ==
  ASSUME NEW s, Service = {s}
  PROVE  Spec => []OwnBytes
<1>1. Init => Stack(s)
  BY DEF Init, Stack
<1>2. Inv /\ Stack(s) /\ [Next]_vars => Stack(s)'
  BY OneStack
<1>3. Stack(s) => OwnBytes
  BY DEF Stack, OwnBytes
<1> QED BY <1>1, <1>2, <1>3, Inductive, PTL DEF Spec

-----------------------------------------------------------------------------
(***************************************************************************)
(* Both bindings: a program that keeps to one library keeps the promises   *)
(* of both, for the other one's state does not move.                       *)
(***************************************************************************)
ClientProofs == INSTANCE LkcpProofs WITH Kcp <- ClientKcp, user <- cuser, failed <- cfailed

LEMMA ClientNames == ClientProofs!Names
BY NamesAssumption, ClientAssumption DEF ClientProofs!Names

LEMMA BothInitInv == BothInit => Inv /\ ClientProofs!Inv
<1>1. BothInit => Init /\ ClientProofs!Init
  BY DEF BothInit, Client!Init, ClientProofs!Init
<1>2. ClientProofs!Init => ClientProofs!Inv
  BY ClientNames, ClientProofs!InitInv
<1> QED BY <1>1, <1>2, InitInv

(* A step of the program is a step of one binding and none of the other.   *)
LEMMA BothSteps ==
  [BothNext]_<<lib, vars, clientVars>>
     => [Next]_vars /\ [ClientProofs!Next]_(ClientProofs!vars)
<1> SUFFICES ASSUME [BothNext]_<<lib, vars, clientVars>>
             PROVE  [Next]_vars /\ [ClientProofs!Next]_(ClientProofs!vars)
  OBVIOUS
<1>1. UNCHANGED clientVars => UNCHANGED ClientProofs!vars
  BY DEF clientVars, ClientProofs!vars
<1>2. Client!Next => ClientProofs!Next
  BY DEF Client!Next, ClientProofs!Next, Client!Return, ClientProofs!Return,
         Client!Collect, ClientProofs!Collect, Client!Create, ClientProofs!Create,
         Client!Update, ClientProofs!Update, Client!Flush, ClientProofs!Flush,
         Client!Enter, ClientProofs!Enter, Client!Ref, ClientProofs!Ref,
         Client!Unref, ClientProofs!Unref, Client!Live, ClientProofs!Live,
         Client!NextHandle, ClientProofs!NextHandle,
         Client!Restrict, ClientProofs!Restrict
<1>3. CASE lib = "lkcpsn" /\ Next /\ UNCHANGED <<lib, clientVars>>
  BY <1>1, <1>3
<1>4. CASE lib = "lkcp" /\ Client!Next /\ UNCHANGED <<lib, vars>>
  BY <1>2, <1>4
<1>5. CASE UNCHANGED <<lib, vars, clientVars>>
  BY <1>1, <1>5
<1> QED BY <1>3, <1>4, <1>5 DEF BothNext

(* The invariants of both bindings hold of a program that loads either.    *)
THEOREM BothKeep == BothSpec => [](Inv /\ ClientProofs!Inv)
<1>1. Inv /\ ClientProofs!Inv /\ [BothNext]_<<lib, vars, clientVars>>
         => Inv' /\ ClientProofs!Inv'
  BY BothSteps, NextInv, ClientNames, ClientProofs!NextInv
<1> QED BY <1>1, BothInitInv, PTL DEF BothSpec

(* Whichever library a program loads, every control block of lkcp sends    *)
(* through the function it was made with, and those of lkcpsn send on the  *)
(* coroutine that flushes and free what they allocated.                    *)
THEOREM EitherLibraryHolds ==
  BothSpec => [](TypeOK /\ OnCaller /\ Accounted /\ OwnFunction)
<1>1. ClientProofs!OwnFunction => OwnFunction
  BY DEF OwnFunction, Client!OwnFunction, ClientProofs!OwnFunction,
         Client!Live, ClientProofs!Live, Client!Range, ClientProofs!Range,
         Client!IsInjective, ClientProofs!IsInjective
<1>2. Inv /\ ClientProofs!Inv => TypeOK /\ OnCaller /\ Accounted /\ OwnFunction
  BY <1>1 DEF Inv, ClientProofs!Inv
<1> QED BY <1>2, BothKeep, PTL

(* ... and with one service the bytes are its own.                         *)
THEOREM EitherLibraryOwnBytes ==
  ASSUME NEW s, Service = {s}
  PROVE  BothSpec => []OwnBytes
<1>1. BothInit => Stack(s)
  BY DEF BothInit, Init, Stack
<1>2. Inv /\ Stack(s) /\ [BothNext]_<<lib, vars, clientVars>> => Stack(s)'
  BY OneStack, BothSteps
<1>3. Stack(s) => OwnBytes
  BY DEF Stack, OwnBytes
<1> QED BY <1>1, <1>2, <1>3, BothKeep, PTL DEF BothSpec
=============================================================================
