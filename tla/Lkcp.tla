-------------------------------- MODULE Lkcp --------------------------------
(***************************************************************************)
(* The client's Lua binding, src/lua-kcp/lkcp.c.  A control block sends    *)
(* through a Lua function given when it was made: lkcp_create keeps it in  *)
(* the registry under a handle, the output callback fetches it by the      *)
(* handle, kcp_gc gives the handle back.  One VM, many coroutines.         *)
(*                                                                         *)
(* While the function runs, any Lua code may: it makes other control       *)
(* blocks, hands them data, and lets the collector run.  It does not flush *)
(* the control block that is being flushed: no output function of the      *)
(* programs that use this library does (mySockClient.lua:287-289).         *)
(*                                                                         *)
(* The coroutine that made a control block is taken to outlive it, for     *)
(* kcp_gc uses it (lkcp.c:108).  The methods left out change nothing here. *)
(***************************************************************************)
EXTENDS Integers, Sequences, SequencesExt, FiniteSets, Functions

CONSTANTS Coroutine, Kcp, None,
          MaxFailed     \* bound: creations that raise an error or fail

VARIABLES
    user,       \* kcp->user of the userdata that were created and not collected
    registry,   \* handle |-> what it refers to: the function given for a
                \* control block, named by it, or None if it is free
    freelist,   \* the free handles, the next one first
    failed,     \* creations that raised an error so far
    calling     \* the control block and the coroutine of the flush that has
                \* called an output function, or None

vars == <<user, registry, freelist, failed, calling>>

Callback == [handle : Nat \ {0}, L : Coroutine, eL : Coroutine]
Live     == DOMAIN user

Init == /\ user = <<>> /\ registry = <<>> /\ freelist = <<>>
        /\ failed = 0 /\ calling = None

(* luaL_ref: the handle freed last, or a new one.                          *)
NextHandle == IF freelist = <<>> THEN Len(registry) + 1 ELSE Head(freelist)

Ref(f) ==
    /\ registry' = IF freelist = <<>> THEN Append(registry, f)
                   ELSE [registry EXCEPT ![NextHandle] = f]
    /\ freelist' = IF freelist = <<>> THEN <<>> ELSE Tail(freelist)

(* luaL_unref: it does not look whether the handle is free already.        *)
Unref(h) == /\ registry' = [registry EXCEPT ![h] = None]
            /\ freelist' = <<h>> \o freelist

(* lkcp_create.  The function is referred to first; if conv is no integer  *)
(* or ikcp_create fails the handle is never given back.                    *)
Create(L, k) ==
    /\ k \notin Live
    /\ Ref(k)
    /\ \/ /\ user' = [j \in Live \cup {k} |->
                       IF j = k THEN [handle |-> NextHandle, L |-> L, eL |-> L]
                       ELSE user[j]]
          /\ UNCHANGED failed
       \/ /\ failed < MaxFailed /\ failed' = failed + 1
          /\ UNCHANGED user
    /\ UNCHANGED calling

(* Mutant: the handle is given back by the __gc of a userdata that was     *)
(* collected before, whose handle may be in use again.                     *)
CollectLeavesUser(k) ==
    /\ k \in Live /\ Len(freelist) < 3
    /\ Unref(user[k].handle)
    /\ UNCHANGED <<user, failed, calling>>

(* kcp_gc.                                                                 *)
Collect(k) ==
    /\ k \in Live /\ (calling # None => calling.kcp # k)
    /\ Unref(user[k].handle)
    /\ user' = Restrict(user, Live \ {k})
    /\ UNCHANGED <<failed, calling>>

(* Mutant: eL is left as lkcp_create set it.                               *)
EnterOldState(L, k) ==
    /\ calling = None /\ k \in Live
    /\ calling' = [kcp |-> k, L |-> L]
    /\ UNCHANGED <<user, registry, freelist, failed>>

(* lkcp_update or lkcp_flush, called in coroutine L, of a control block    *)
(* that has a datagram for the output callback.                            *)
Enter(L, k) ==
    /\ calling = None /\ k \in Live
    /\ user' = [user EXCEPT ![k].eL = L]
    /\ calling' = [kcp |-> k, L |-> L]
    /\ UNCHANGED <<registry, freelist, failed>>

Update(L, k) == Enter(L, k)
Flush(L, k)  == Enter(L, k)

(* The flush has no further datagram, or the function raised an error and  *)
(* left it.                                                                *)
Return ==
    /\ calling # None /\ calling' = None
    /\ UNCHANGED <<user, registry, freelist, failed>>

Next == \/ Return
        \/ \E k \in Kcp :
              \/ Collect(k)
              \/ \E L \in Coroutine : Create(L, k) \/ Update(L, k) \/ Flush(L, k)

Spec == Init /\ [][Next]_vars

-----------------------------------------------------------------------------
(* The type of every variable.                                             *)
TypeOK ==
    /\ Live \subseteq Kcp /\ user \in [Live -> Callback]
    /\ registry \in Seq(Kcp \cup {None})
    /\ freelist \in Seq(DOMAIN registry)
    /\ failed \in 0..MaxFailed
    /\ calling \in [kcp : Kcp, L : Coroutine] \cup {None}

(* The handle of every control block refers to the function it was made    *)
(* with and is not free: handles are given back once, and reused only      *)
(* then, so no control block sends through another one's function.         *)
OwnFunction ==
    /\ IsInjective(freelist)
    /\ \A k \in Live : /\ user[k].handle \in DOMAIN registry
                       /\ registry[user[k].handle] = k
                       /\ user[k].handle \notin Range(freelist)

(* The registry holds a function for every control block, one for every    *)
(* creation that failed, and free handles.                                 *)
HandlesAccounted == Len(registry) = Cardinality(Live) + failed + Len(freelist)

(* The output function is called on the coroutine that called lkcp_update  *)
(* or lkcp_flush, by a control block that is not collected meanwhile.      *)
CallsOnCaller == calling # None => /\ calling.kcp \in Live
                                   /\ user[calling.kcp].eL = calling.L
=============================================================================
