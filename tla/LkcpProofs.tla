----------------------------- MODULE LkcpProofs -----------------------------
(***************************************************************************)
(* Proofs about Lkcp, for any number of coroutines, control blocks and     *)
(* creations that fail: the handles luaL_ref and luaL_unref pass around    *)
(* are never shared, however control blocks come and go.                   *)
(***************************************************************************)
EXTENDS Lkcp, FiniteSetTheorems, SequenceTheorems, TLAPS

Names == None \notin Kcp \cup Coroutine /\ MaxFailed \in Nat

Inv == /\ TypeOK /\ OwnFunction /\ CallsOnCaller
       /\ IsFiniteSet(Live) /\ HandlesAccounted

(* What a free list that gains or loses its first handle still is.         *)
LEMMA FreeListTail ==
  ASSUME NEW n \in Nat, NEW q \in Seq(1..n), q # <<>>, IsInjective(q)
  PROVE  /\ Tail(q) \in Seq(1..n) /\ Len(Tail(q)) = Len(q) - 1 /\ IsInjective(Tail(q))
         /\ Head(q) \in 1..n /\ Head(q) \in Range(q) /\ Head(q) \notin Range(Tail(q))
         /\ Range(Tail(q)) \subseteq Range(q)
<1>1. /\ Tail(q) \in Seq(1..n) /\ Len(Tail(q)) = Len(q) - 1 /\ Len(q) \in Nat \ {0}
      /\ Head(q) = q[1] /\ DOMAIN q = 1..Len(q) /\ DOMAIN Tail(q) = 1..(Len(q) - 1)
      /\ \A i \in 1..(Len(q) - 1) : Tail(q)[i] = q[i + 1]
  BY HeadTailProperties
<1>2. Head(q) \in 1..n
  BY <1>1, ElementOfSeq
<1>3. \A i \in DOMAIN Tail(q) : i + 1 \in DOMAIN q /\ i + 1 # 1 /\ Tail(q)[i] = q[i + 1]
  BY <1>1
<1>4. 1 \in DOMAIN q
  BY <1>1
<1>5. \A i, j \in DOMAIN q : q[i] = q[j] => i = j
  BY DEF IsInjective
<1>6. IsInjective(Tail(q))
  <2>1. ASSUME NEW i \in DOMAIN Tail(q), NEW j \in DOMAIN Tail(q), Tail(q)[i] = Tail(q)[j]
        PROVE  i = j
    <3>1. i + 1 = j + 1
      BY <1>3, <1>5, <2>1
    <3> QED BY <1>1, <3>1
  <2> QED BY <2>1 DEF IsInjective
<1>7. Head(q) \notin Range(Tail(q)) /\ Range(Tail(q)) \subseteq Range(q)
  <2>1. ASSUME NEW i \in DOMAIN Tail(q) PROVE Tail(q)[i] # q[1] /\ Tail(q)[i] \in Range(q)
    BY <1>3, <1>4, <1>5 DEF Range
  <2> QED BY <1>1, <2>1 DEF Range
<1> QED BY <1>1, <1>2, <1>4, <1>6, <1>7 DEF Range

LEMMA FreeListPush ==
  ASSUME NEW n \in Nat, NEW q \in Seq(1..n), NEW h \in 1..n, IsInjective(q), h \notin Range(q)
  PROVE  LET r == <<h>> \o q
         IN  /\ r \in Seq(1..n) /\ Len(r) = Len(q) + 1 /\ IsInjective(r)
             /\ Range(r) = Range(q) \cup {h}
<1> DEFINE r == <<h>> \o q
<1>1. <<h>> \in Seq(1..n) /\ Len(<<h>>) = 1 /\ <<h>>[1] = h /\ Len(q) \in Nat
  OBVIOUS
<1>2. /\ r \in Seq(1..n) /\ Len(r) = Len(q) + 1
      /\ \A i \in 1..Len(r) : r[i] = IF i = 1 THEN h ELSE q[i - 1]
  <2>1. /\ r \in Seq(1..n) /\ Len(r) = 1 + Len(q)
        /\ \A i \in 1..(1 + Len(q)) : r[i] = IF i <= 1 THEN <<h>>[i] ELSE q[i - 1]
    BY <1>1, ConcatProperties
  <2> HIDE DEF r
  <2> QED BY <1>1, <2>1
<1> HIDE DEF r
<1>3. DOMAIN r = 1..Len(r) /\ DOMAIN q = 1..Len(q)
  BY <1>2
<1>4. \A i \in DOMAIN r : i = 1 \/ (i - 1 \in DOMAIN q /\ r[i] = q[i - 1])
  <2> SUFFICES ASSUME NEW i \in 1..Len(r), i # 1
               PROVE  i - 1 \in 1..Len(q) /\ r[i] = q[i - 1]
    BY <1>3
  <2>1. Len(q) \in Nat /\ Len(r) = Len(q) + 1
    BY <1>1, <1>2
  <2>2. i - 1 \in 1..Len(q)
    BY <2>1
  <2> QED BY <1>2, <2>2
<1>5. \A i \in DOMAIN q : i + 1 \in DOMAIN r /\ r[i + 1] = q[i]
  <2> SUFFICES ASSUME NEW i \in 1..Len(q) PROVE i + 1 \in 1..Len(r) /\ r[i + 1] = q[i]
    BY <1>3
  <2>1. i + 1 \in 1..Len(r) /\ i + 1 # 1 /\ (i + 1) - 1 = i
    BY <1>1, <1>2
  <2> QED BY <1>2, <2>1
<1>6. 1 \in DOMAIN r /\ r[1] = h
  BY <1>1, <1>2, <1>3
<1>7. IsInjective(r)
  <2>1. \A i, j \in DOMAIN q : q[i] = q[j] => i = j
    BY DEF IsInjective
  <2>2. ASSUME NEW i \in DOMAIN r, NEW j \in DOMAIN r, r[i] = r[j] PROVE i = j
    <3>1. CASE i # 1 /\ j # 1
      <4>1. i - 1 = j - 1
        BY <1>4, <2>1, <2>2, <3>1
      <4> QED BY <1>2, <1>3, <4>1
    <3>2. CASE i = 1 \/ j = 1
      BY <1>4, <1>6, <2>2, <3>2 DEF Range
    <3> QED BY <3>1, <3>2
  <2> QED BY <2>2 DEF IsInjective
<1>8. Range(r) = Range(q) \cup {h}
  BY <1>4, <1>5, <1>6 DEF Range
<1> QED BY <1>2, <1>7, <1>8 DEF r

-----------------------------------------------------------------------------
LEMMA InitInv == ASSUME Names PROVE Init => Inv
<1> SUFFICES ASSUME Init PROVE Inv
  OBVIOUS
<1>1. Live = {} /\ user \in [Live -> Callback]
  BY DEF Init, Live
<1>2. registry \in Seq(Kcp \cup {None}) /\ freelist \in Seq(DOMAIN registry) /\ Len(registry) = 0 /\ Len(freelist) = 0
  BY DEF Init
<1>3. TypeOK
  BY <1>1, <1>2 DEF Init, TypeOK, Names
<1>4. OwnFunction
  BY <1>1, <1>2 DEF Init, OwnFunction, IsInjective
<1>5. IsFiniteSet(Live) /\ Cardinality(Live) = 0
  BY <1>1, FS_EmptySet
<1>6. HandlesAccounted
  BY <1>2, <1>5 DEF Init, HandlesAccounted
<1>7. CallsOnCaller
  BY DEF Init, CallsOnCaller
<1> QED BY <1>3, <1>4, <1>5, <1>6, <1>7 DEF Inv

(* The handle of a new control block is in the registry, refers to its     *)
(* function, was no other one's and is no longer free.                     *)
LEMMA RefFacts ==
  ASSUME Names, Inv, NEW k \in Kcp, Ref(k)
  PROVE  /\ registry' \in Seq(Kcp \cup {None}) /\ freelist' \in Seq(DOMAIN registry')
         /\ IsInjective(freelist')
         /\ Len(registry') - Len(freelist') = Len(registry) - Len(freelist) + 1
         /\ Len(registry') \in Nat /\ Len(freelist') \in Nat
         /\ NextHandle \in DOMAIN registry' /\ registry'[NextHandle] = k
         /\ NextHandle \in Nat \ {0}
         /\ NextHandle \notin Range(freelist') /\ Range(freelist') \subseteq Range(freelist)
         /\ \A j \in Live : /\ user[j].handle # NextHandle
                            /\ user[j].handle \in DOMAIN registry'
                            /\ registry'[user[j].handle] = registry[user[j].handle]
<1>1. /\ registry \in Seq(Kcp \cup {None}) /\ Len(registry) \in Nat
      /\ DOMAIN registry = 1..Len(registry)
      /\ freelist \in Seq(1..Len(registry)) /\ Len(freelist) \in Nat
      /\ IsInjective(freelist)
  BY DEF Inv, TypeOK, OwnFunction
<1>2. \A j \in Live : /\ user[j].handle \in 1..Len(registry)
                      /\ user[j].handle \notin Range(freelist)
  BY <1>1 DEF Inv, OwnFunction
<1>3. k \in Kcp \cup {None}
  OBVIOUS
<1>4. CASE freelist = <<>>
  <2>1. /\ registry' = Append(registry, k) /\ freelist' = <<>> /\ NextHandle = Len(registry) + 1
    BY <1>4 DEF Ref, NextHandle
  <2>2. /\ registry' \in Seq(Kcp \cup {None}) /\ Len(registry') = Len(registry) + 1
        /\ \A i \in 1..Len(registry) : registry'[i] = registry[i]
        /\ registry'[Len(registry) + 1] = k
    BY <1>1, <1>3, <2>1, AppendProperties
  <2>3. DOMAIN registry' = 1..(Len(registry) + 1)
    BY <2>2
  <2>4. freelist' \in Seq(DOMAIN registry') /\ Len(freelist') = 0 /\ Len(freelist) = 0
    BY <1>4, <2>1
  <2>5. IsInjective(freelist') /\ Range(freelist') = {}
    BY <2>1 DEF IsInjective, Range
  <2>6. NextHandle \in DOMAIN registry' /\ NextHandle \in Nat \ {0}
    BY <1>1, <2>1, <2>3
  <2>7. \A j \in Live : /\ user[j].handle # NextHandle
                        /\ user[j].handle \in DOMAIN registry'
                        /\ registry'[user[j].handle] = registry[user[j].handle]
    BY <1>1, <1>2, <2>1, <2>2, <2>3
  <2> QED BY <1>1, <2>1, <2>2, <2>4, <2>5, <2>6, <2>7
<1>5. CASE freelist # <<>>
  <2>1. /\ registry' = [registry EXCEPT ![NextHandle] = k] /\ freelist' = Tail(freelist)
        /\ NextHandle = Head(freelist)
    BY <1>5 DEF Ref, NextHandle
  <2>2. /\ Tail(freelist) \in Seq(1..Len(registry)) /\ Len(Tail(freelist)) = Len(freelist) - 1
        /\ IsInjective(Tail(freelist))
        /\ Head(freelist) \in 1..Len(registry) /\ Head(freelist) \in Range(freelist)
        /\ Head(freelist) \notin Range(Tail(freelist))
        /\ Range(Tail(freelist)) \subseteq Range(freelist)
    BY <1>1, <1>5, FreeListTail
  <2>3. /\ registry' \in Seq(Kcp \cup {None}) /\ Len(registry') = Len(registry)
        /\ DOMAIN registry' = 1..Len(registry)
        /\ registry'[NextHandle] = k
        /\ \A i \in 1..Len(registry) : i # NextHandle => registry'[i] = registry[i]
    BY <1>1, <1>3, <2>1, <2>2
  <2>4. \A j \in Live : /\ user[j].handle # NextHandle
                        /\ user[j].handle \in DOMAIN registry'
                        /\ registry'[user[j].handle] = registry[user[j].handle]
    BY <1>2, <2>1, <2>2, <2>3
  <2>5. Len(freelist') \in Nat
    BY <2>1, <2>2
  <2> QED BY <1>1, <2>1, <2>2, <2>3, <2>4, <2>5
<1> QED BY <1>4, <1>5

LEMMA CreateInv ==
  ASSUME Names, Inv, NEW L \in Coroutine, NEW k \in Kcp, Create(L, k)
  PROVE  Inv'
<1> DEFINE c == [handle |-> NextHandle, L |-> L, eL |-> L]
<1>1. k \notin Live /\ Ref(k) /\ UNCHANGED calling
  BY DEF Create
<1>2. /\ registry' \in Seq(Kcp \cup {None}) /\ freelist' \in Seq(DOMAIN registry')
      /\ IsInjective(freelist')
      /\ Len(registry') - Len(freelist') = Len(registry) - Len(freelist) + 1
      /\ Len(registry') \in Nat /\ Len(freelist') \in Nat
  BY <1>1, RefFacts
<1>3. /\ NextHandle \in DOMAIN registry' /\ registry'[NextHandle] = k
      /\ NextHandle \in Nat \ {0}
      /\ NextHandle \notin Range(freelist') /\ Range(freelist') \subseteq Range(freelist)
      /\ \A j \in Live : /\ user[j].handle # NextHandle
                         /\ user[j].handle \in DOMAIN registry'
                         /\ registry'[user[j].handle] = registry[user[j].handle]
  BY <1>1, RefFacts
<1>4. /\ Cardinality(Live) \in Nat /\ Len(registry) \in Nat /\ Len(freelist) \in Nat
      /\ failed \in Nat /\ Len(registry) = Cardinality(Live) + failed + Len(freelist)
  BY FS_CardinalityType DEF Inv, TypeOK, HandlesAccounted
<1>5. \A j \in Live : /\ user[j].handle \in DOMAIN registry'
                      /\ registry'[user[j].handle] = j
                      /\ user[j].handle \notin Range(freelist')
  BY <1>3 DEF Inv, OwnFunction
<1>6. CASE failed < MaxFailed /\ failed' = failed + 1 /\ UNCHANGED user
  <2>1. Live' = Live /\ failed' \in 0..MaxFailed
    BY <1>4, <1>6 DEF Live, Names
  <2>2. TypeOK' /\ CallsOnCaller' /\ IsFiniteSet(Live')
    BY <1>1, <1>2, <1>6, <2>1 DEF Inv, TypeOK, CallsOnCaller
  <2>3. OwnFunction'
    BY <1>2, <1>5, <1>6, <2>1 DEF OwnFunction
  <2>4. HandlesAccounted'
    BY <1>2, <1>4, <1>6, <2>1 DEF HandlesAccounted
  <2> QED BY <2>2, <2>3, <2>4 DEF Inv
<1>7. CASE /\ user' = [j \in Live \cup {k} |-> IF j = k THEN c ELSE user[j]]
           /\ UNCHANGED failed
  <2>1. /\ Live' = Live \cup {k} /\ user'[k] = c
        /\ \A j \in Live : user'[j] = user[j]
    BY <1>1, <1>7 DEF Live
  <2>2. c \in Callback /\ c.handle = NextHandle
    BY <1>3 DEF Callback
  <2> HIDE DEF c
  <2>3. user' \in [Live' -> Callback]
    BY <1>7, <2>1, <2>2 DEF Inv, TypeOK
  <2>4. TypeOK'
    BY <1>1, <1>2, <1>7, <2>1, <2>3 DEF Inv, TypeOK
  <2>5. CallsOnCaller'
    BY <1>1, <2>1 DEF Inv, CallsOnCaller
  <2>6. OwnFunction'
    BY <1>2, <1>3, <1>5, <2>1, <2>2 DEF OwnFunction
  <2>7. IsFiniteSet(Live') /\ Cardinality(Live') = Cardinality(Live) + 1
    BY <1>1, <2>1, FS_AddElement DEF Inv
  <2>8. HandlesAccounted'
    BY <1>2, <1>4, <1>7, <2>7 DEF HandlesAccounted
  <2> QED BY <2>4, <2>5, <2>6, <2>7, <2>8 DEF Inv
<1> QED BY <1>6, <1>7 DEF Create, c

LEMMA CollectInv ==
  ASSUME Names, Inv, NEW k \in Kcp, Collect(k)
  PROVE  Inv'
<1> DEFINE h == user[k].handle
<1>1. /\ k \in Live /\ (calling # None => calling.kcp # k)
      /\ registry' = [registry EXCEPT ![h] = None] /\ freelist' = <<h>> \o freelist
      /\ user' = Restrict(user, Live \ {k})
      /\ UNCHANGED <<failed, calling>>
  BY DEF Collect, Unref
<1>2. Live' = Live \ {k} /\ \A j \in Live' : user'[j] = user[j]
  BY <1>1 DEF Live, Restrict
<1>3. user' \in [Live' -> Callback]
  BY <1>1, <1>2 DEF Inv, TypeOK, Restrict
<1>4. /\ registry \in Seq(Kcp \cup {None}) /\ Len(registry) \in Nat
      /\ DOMAIN registry = 1..Len(registry)
      /\ freelist \in Seq(1..Len(registry)) /\ Len(freelist) \in Nat
      /\ IsInjective(freelist)
  BY DEF Inv, TypeOK, OwnFunction
<1>5. /\ h \in 1..Len(registry) /\ registry[h] = k /\ h \notin Range(freelist)
      /\ \A j \in Live : /\ user[j].handle \in 1..Len(registry)
                         /\ registry[user[j].handle] = j
                         /\ user[j].handle \notin Range(freelist)
  BY <1>1, <1>4 DEF Inv, OwnFunction
<1>6. \A j \in Live' : user[j].handle # h
  BY <1>2, <1>5
<1> HIDE DEF h
<1>7. /\ freelist' \in Seq(1..Len(registry)) /\ Len(freelist') = Len(freelist) + 1
      /\ IsInjective(freelist') /\ Range(freelist') = Range(freelist) \cup {h}
  BY <1>1, <1>4, <1>5, FreeListPush
<1>8. /\ registry' \in Seq(Kcp \cup {None}) /\ Len(registry') = Len(registry)
      /\ DOMAIN registry' = 1..Len(registry)
      /\ \A i \in 1..Len(registry) : i # h => registry'[i] = registry[i]
  BY <1>1, <1>4, <1>5
<1>9. TypeOK'
  BY <1>1, <1>2, <1>3, <1>7, <1>8 DEF Inv, TypeOK
<1>10. OwnFunction'
  BY <1>2, <1>5, <1>6, <1>7, <1>8 DEF OwnFunction
<1>11. CallsOnCaller'
  BY <1>1, <1>2 DEF Inv, CallsOnCaller
<1>12. /\ IsFiniteSet(Live') /\ Cardinality(Live') = Cardinality(Live) - 1
       /\ Cardinality(Live) \in Nat
  BY <1>1, <1>2, FS_RemoveElement, FS_CardinalityType DEF Inv
<1>13. HandlesAccounted'
  <2>1. /\ failed \in Nat /\ Len(registry) = Cardinality(Live) + failed + Len(freelist)
    BY DEF Inv, TypeOK, HandlesAccounted
  <2> QED BY <1>1, <1>4, <1>7, <1>8, <1>12, <2>1 DEF HandlesAccounted
<1> QED BY <1>9, <1>10, <1>11, <1>12, <1>13 DEF Inv

LEMMA EnterInv ==
  ASSUME Names, Inv, NEW L \in Coroutine, NEW k \in Kcp, Enter(L, k)
  PROVE  Inv'
<1>1. /\ k \in Live /\ user' = [user EXCEPT ![k].eL = L]
      /\ calling' = [kcp |-> k, L |-> L]
      /\ UNCHANGED <<registry, freelist, failed>>
  BY DEF Enter
<1>2. /\ Live' = Live /\ user'[k] = [user[k] EXCEPT !.eL = L]
      /\ \A j \in Live \ {k} : user'[j] = user[j]
  BY <1>1 DEF Inv, TypeOK, Live
<1>3. user[k] \in Callback
  BY <1>1 DEF Inv, TypeOK
<1>4. user'[k] \in Callback /\ user'[k].handle = user[k].handle /\ user'[k].eL = L
  BY <1>2, <1>3 DEF Callback
<1>5. \A j \in Live : user'[j].handle = user[j].handle /\ user'[j] \in Callback
  BY <1>2, <1>4 DEF Inv, TypeOK
<1>6. user' \in [Live' -> Callback]
  BY <1>1, <1>2, <1>5 DEF Inv, TypeOK, Live
<1>7. TypeOK'
  BY <1>1, <1>2, <1>6 DEF Inv, TypeOK
<1>8. OwnFunction' /\ HandlesAccounted' /\ IsFiniteSet(Live')
  BY <1>1, <1>2, <1>5 DEF Inv, OwnFunction, HandlesAccounted
<1>9. CallsOnCaller'
  BY <1>1, <1>2, <1>4 DEF CallsOnCaller
<1> QED BY <1>7, <1>8, <1>9 DEF Inv

LEMMA NextInv == ASSUME Names PROVE Inv /\ [Next]_vars => Inv'
<1> SUFFICES ASSUME Inv, [Next]_vars PROVE Inv'
  OBVIOUS
<1>1. CASE Return
  BY <1>1 DEF Return, Inv, TypeOK, Live, OwnFunction, CallsOnCaller, HandlesAccounted
<1>2. ASSUME NEW k \in Kcp, NEW L \in Coroutine, Update(L, k) \/ Flush(L, k)
      PROVE  Inv'
  BY <1>2, EnterInv DEF Update, Flush
<1>3. CASE UNCHANGED vars
  BY <1>3 DEF vars, Inv, TypeOK, Live, OwnFunction, CallsOnCaller, HandlesAccounted
<1> QED BY <1>1, <1>2, <1>3, CollectInv, CreateInv DEF Next

(* The parts together are an invariant.                                    *)
THEOREM Inductive == ASSUME Names PROVE Spec => []Inv
BY InitInv, NextInv, PTL DEF Spec

(* luaL_ref and luaL_unref keep the handles apart: no control block sends  *)
(* through the function of another, nor through one that was given back.   *)
THEOREM HandlesApart == ASSUME Names PROVE Spec => []OwnFunction
<1>1. Inv => OwnFunction
  BY DEF Inv
<1> QED BY <1>1, Inductive, PTL

(* The registry grows only as far as the control blocks that are alive,    *)
(* the handles freed before, and the ones lost to creations that failed.   *)
THEOREM RegistryAccounted == ASSUME Names PROVE Spec => []HandlesAccounted
<1>1. Inv => HandlesAccounted
  BY DEF Inv
<1> QED BY <1>1, Inductive, PTL

(* The output function runs on the coroutine that flushes.                 *)
THEOREM FunctionOnCaller == ASSUME Names PROVE Spec => []CallsOnCaller
<1>1. Inv => CallsOnCaller
  BY DEF Inv
<1> QED BY <1>1, Inductive, PTL
=============================================================================
