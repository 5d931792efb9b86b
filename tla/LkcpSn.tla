------------------------------- MODULE LkcpSn -------------------------------
(***************************************************************************)
(* The server's Lua binding, src/lua-kcp/lkcpsn.c: the userdata that hold  *)
(* control blocks, the Callback each one carries, and the output callback  *)
(* that packs a datagram and gives it to skynet's socket thread.           *)
(*                                                                         *)
(* A skynet service is one Lua VM and runs on one thread at a time, in one *)
(* of its coroutines; the services of a process run on several threads.    *)
(* Each calls the methods of its own control blocks only, but LL, a Lua    *)
(* state made by the first luaopen_lkcpsn, and svrsock are static: every   *)
(* service uses the same ones, and lock_on and lock_off are empty, because *)
(* the lines that continue their definitions are a comment.                *)
(*                                                                         *)
(* A call of the Lua API on LL is a step.  The calls of two threads really *)
(* overlap inside the API too; what that does is undefined, and the model  *)
(* keeps the orders in which each call is whole.                           *)
(*                                                                         *)
(* lkcp_recv, lkcp_check, lkcp_wndsize and lkcp_nodelay change nothing     *)
(* here.  What a call does to the control block is in KcpArq and KcpClock. *)
(***************************************************************************)
EXTENDS Integers, Sequences, FiniteSets, Functions

CONSTANTS Service,      \* skynet services; also names the socket of each
          Coroutine,    \* Lua threads of a service
          Kcp,          \* userdata; also the conv of the control block
          Addr,         \* udp addresses
          Bytes,        \* what ikcp_flush can give the output callback
          None,
          MaxFailed     \* bound: creations that fail for want of memory

ASSUME NamesAssumption ==
    None \notin Kcp \cup Service \cup Coroutine \cup Bytes /\ MaxFailed \in Nat

VARIABLES
    user,       \* kcp->user of the userdata that were created and not collected
    blocks,     \* how many blocks of each kind the binding has allocated
    failed,     \* creations that failed so far
    svrsock,    \* the socket every datagram leaves by
    LL,         \* the stack of LL
    at,         \* where a service is in the output callback
    out         \* its running coroutine, its control block, the bytes given
                \* to the output callback and those read back from LL

vars == <<user, blocks, failed, svrsock, LL, at, out>>

(* A Callback and the service whose VM it belongs to.                      *)
Callback == [owner : Service, eL : Coroutine, address : Addr]

(* What can be on the stack of LL.                                         *)
Fn           == <<"pack_output">>
Conv(k)      == <<"conv", k>>
Str(b)       == <<"bytes", b>>
Packed(k, b) == <<"packed", k, b>>
Message      == <<"error message">>
Item == {Fn, Message} \cup {Conv(k) : k \in Kcp} \cup {Str(b) : b \in Bytes}
        \cup {Packed(k, b) : k \in Kcp, b \in Bytes}

Idle == [L |-> None, kcp |-> None, buf |-> None, buf2 |-> Message]

(* luaopen_lkcpsn in every service, and no control block yet.              *)
Init ==
    /\ user = <<>>
    /\ blocks = [callback |-> 0, address |-> 0, kcp |-> 0]
    /\ failed = 0
    /\ svrsock = None
    /\ LL = <<>>
    /\ at = [s \in Service |-> "idle"]
    /\ out = [s \in Service |-> Idle]

Owned(s) == {k \in DOMAIN user : user[k].owner = s}

-----------------------------------------------------------------------------
(* lkcp_create, called in coroutine L.  If ikcp_create fails the Callback  *)
(* is freed and the block of the address is not.                           *)
Create(s, L, k, a) ==
    /\ at[s] = "idle"
    /\ k \notin DOMAIN user
    /\ svrsock' = IF svrsock = None THEN s ELSE svrsock
    /\ \/ /\ user' = [j \in DOMAIN user \cup {k} |->
                       IF j = k THEN [owner |-> s, eL |-> L, address |-> a]
                       ELSE user[j]]
          /\ blocks' = [x \in DOMAIN blocks |-> blocks[x] + 1]
          /\ UNCHANGED failed
       \/ /\ failed < MaxFailed
          /\ failed' = failed + 1
          /\ blocks' = [blocks EXCEPT !.address = @ + 1]
          /\ UNCHANGED user
    /\ UNCHANGED <<LL, at, out>>

(* The address a call carries replaces the one in c->address; if the size  *)
(* differs, so does its block, one for the other.  A call that carries     *)
(* none raises an error after the control block took its data, and changes *)
(* nothing here.                                                           *)
WithAddress(c, a) == [c EXCEPT !.address = a]

SetAddress(s, k, a) ==
    /\ at[s] = "idle" /\ k \in Owned(s)
    /\ user' = [user EXCEPT ![k] = WithAddress(@, a)]
    /\ UNCHANGED <<blocks, failed, svrsock, LL, at, out>>

Send(s, k, a)  == SetAddress(s, k, a)
Input(s, k, a) == SetAddress(s, k, a)

(* Mutants: the block of the address is not freed; a second __gc of the    *)
(* same userdata frees again.                                              *)
CollectNoAddress(s, k) ==
    /\ k \in Owned(s) /\ out[s].kcp # k
    /\ user' = Restrict(user, DOMAIN user \ {k})
    /\ blocks' = [blocks EXCEPT !.callback = @ - 1, !.kcp = @ - 1]
    /\ UNCHANGED <<failed, svrsock, LL, at, out>>

CollectAgain(s, k) ==
    /\ k \in Kcp /\ out[s].kcp # k
    /\ user' = Restrict(user, DOMAIN user \ {k})
    /\ blocks' = [x \in DOMAIN blocks |-> blocks[x] - 1]
    /\ UNCHANGED <<failed, svrsock, LL, at, out>>

(* kcp_gc.  The collector may run at any allocation, in the middle of      *)
(* another control block's output too, but not on the userdata whose       *)
(* method is running: it is on the stack.                                  *)
Collect(s, k) ==
    /\ k \in Owned(s) /\ out[s].kcp # k
    /\ user' = Restrict(user, DOMAIN user \ {k})
    /\ blocks' = [x \in DOMAIN blocks |-> blocks[x] - 1]
    /\ UNCHANGED <<failed, svrsock, LL, at, out>>

-----------------------------------------------------------------------------
(* ikcp_flush has a datagram b for the output callback, or has none left   *)
(* and returns.                                                            *)
Give(s, b) == /\ at' = [at EXCEPT ![s] = "getglobal"]
              /\ out' = [out EXCEPT ![s].buf = b]

Return(s) == /\ at' = [at EXCEPT ![s] = "idle"]
             /\ out' = [out EXCEPT ![s] = Idle]

(* Mutant: eL is left as lkcp_create set it.                               *)
EnterOldState(s, L, k) ==
    /\ at[s] = "idle" /\ k \in Owned(s)
    /\ \E b \in Bytes : out' = [out EXCEPT ![s] = [Idle EXCEPT !.L = L, !.kcp = k, !.buf = b]]
    /\ at' = [at EXCEPT ![s] = "getglobal"]
    /\ UNCHANGED <<user, blocks, failed, svrsock, LL>>

(* lkcp_update and lkcp_flush, called in coroutine L, of a control block   *)
(* that has something to send.                                             *)
Enter(s, L, k) ==
    /\ at[s] = "idle" /\ k \in Owned(s)
    /\ user' = [user EXCEPT ![k].eL = L]
    /\ \E b \in Bytes : out' = [out EXCEPT ![s] = [Idle EXCEPT !.L = L, !.kcp = k, !.buf = b]]
    /\ at' = [at EXCEPT ![s] = "getglobal"]
    /\ UNCHANGED <<blocks, failed, svrsock, LL>>

Update(s, L, k) == Enter(s, L, k)
Flush(s, L, k)  == Enter(s, L, k)

(* The steps of kcp_output_callback.  c->address is there, for no          *)
(* userdata is alive without it; skynet_context is found in c->eL.         *)
Goto(s, from, to) == at[s] = from /\ at' = [at EXCEPT ![s] = to]

Push(item) == LL' = Append(LL, item)

GetGlobal(s) ==
    /\ Goto(s, "getglobal", "isfunction") /\ Push(Fn)
    /\ UNCHANGED <<user, blocks, failed, svrsock, out>>

(* Anything but a function on top raises an error that leaves ikcp_flush,  *)
(* and the stack of LL as it is.                                           *)
IsFunction(s) ==
    /\ at[s] = "isfunction"
    /\ IF LL # <<>> /\ LL[Len(LL)] = Fn
       THEN Goto(s, "isfunction", "pushinteger") /\ UNCHANGED out
       ELSE Return(s)
    /\ UNCHANGED <<user, blocks, failed, svrsock, LL>>

PushInteger(s) ==
    /\ Goto(s, "pushinteger", "pushlstring") /\ Push(Conv(out[s].kcp))
    /\ UNCHANGED <<user, blocks, failed, svrsock, out>>

PushLString(s) ==
    /\ Goto(s, "pushlstring", "pcall") /\ Push(Str(out[s].buf))
    /\ UNCHANGED <<user, blocks, failed, svrsock, out>>

(* lua_pcall takes the three topmost items and leaves the packed datagram, *)
(* or the message of an error that nobody looks at.  With fewer than three *)
(* items, or below the bottom in Pop, what happens is undefined and the    *)
(* behaviour ends.                                                         *)
PCall(s) ==
    LET n == Len(LL)
        args == SubSeq(LL, n - 2, n)
    IN  /\ Goto(s, "pcall", "checklstring")
        /\ n >= 3
        /\ LL' = SubSeq(LL, 1, n - 3) \o
                    << IF \E k \in Kcp, b \in Bytes : args = <<Fn, Conv(k), Str(b)>>
                       THEN Packed(args[2][2], args[3][2]) ELSE Message >>
        /\ UNCHANGED <<user, blocks, failed, svrsock, out>>

(* The result is read at the bottom of the stack, not at its top.  A       *)
(* function or nothing there is an error outside any protected call: the   *)
(* process aborts and the behaviour ends.                                  *)
CheckLString(s) ==
    /\ Goto(s, "checklstring", "pop")
    /\ LL # <<>> /\ LL[1] # Fn
    /\ out' = [out EXCEPT ![s].buf2 = LL[1]]
    /\ UNCHANGED <<user, blocks, failed, svrsock, LL>>

(* Mutant: the result stays on the stack.                                  *)
PopNothing(s) ==
    /\ Goto(s, "pop", "send")
    /\ UNCHANGED <<user, blocks, failed, svrsock, LL, out>>

Pop(s) ==
    /\ Goto(s, "pop", "send")
    /\ LL # <<>> /\ LL' = SubSeq(LL, 1, Len(LL) - 1)
    /\ UNCHANGED <<user, blocks, failed, svrsock, out>>

(* skynet_socket_udp_sendbuffer of buf2 by svrsock to c->address.  The     *)
(* next datagram of the flush follows, or the flush ends: it has no more,  *)
(* or the socket refused this one and luaL_error leaves it.                *)
SendBuffer(s) ==
    /\ at[s] = "send"
    /\ (\E b \in Bytes : Give(s, b)) \/ Return(s)
    /\ UNCHANGED <<user, blocks, failed, svrsock, LL>>

Output(s) == \/ GetGlobal(s) \/ IsFunction(s) \/ PushInteger(s) \/ PushLString(s)
             \/ PCall(s) \/ CheckLString(s) \/ Pop(s) \/ SendBuffer(s)

-----------------------------------------------------------------------------
Next == \E s \in Service :
    \/ Output(s)
    \/ \E k \in Kcp :
          \/ Collect(s, k)
          \/ \E a \in Addr : Send(s, k, a) \/ Input(s, k, a)
          \/ \E L \in Coroutine :
                \/ Update(s, L, k) \/ Flush(s, L, k)
                \/ \E a \in Addr : Create(s, L, k, a)

Spec == Init /\ [][Next]_vars

-----------------------------------------------------------------------------
Where == {"idle", "getglobal", "isfunction", "pushinteger", "pushlstring",
          "pcall", "checklstring", "pop", "send"}

(* The type of every variable.                                             *)
TypeOK ==
    /\ DOMAIN user \subseteq Kcp /\ user \in [DOMAIN user -> Callback]
    /\ blocks \in [{"callback", "address", "kcp"} -> Nat]
    /\ failed \in 0..MaxFailed
    /\ svrsock \in Service \cup {None}
    /\ LL \in Seq(Item)
    /\ at \in [Service -> Where]
    /\ out \in [Service -> [L : Coroutine \cup {None}, kcp : Kcp \cup {None},
                            buf : Bytes \cup {None}, buf2 : Item]]

(* The output callback runs on the coroutine that called lkcp_update or    *)
(* lkcp_flush, never on one that created the control block or flushed it   *)
(* before and may have ended since: c->eL is set by every call that can    *)
(* reach ikcp_flush.  The control block it works for is not collected.     *)
OnCaller ==
    \A s \in Service : at[s] # "idle" =>
        /\ out[s].kcp \in Owned(s)
        /\ user[out[s].kcp].eL = out[s].L

(* Every block is freed with its userdata and only then, except that each  *)
(* creation that failed leaves the block of its address behind.            *)
Accounted ==
    LET n == Cardinality(DOMAIN user)
    IN  blocks = [callback |-> n, address |-> n + failed, kcp |-> n]

(* What leaves the socket carries the conv of its control block and the    *)
(* bytes ikcp_flush gave, read back from the shared state LL.              *)
OwnBytes ==
    \A s \in Service : at[s] = "send" => out[s].buf2 = Packed(out[s].kcp, out[s].buf)

(* It leaves by the socket of the service that owns the control block.     *)
OwnSocket == \A s \in Service : at[s] # "idle" => svrsock = s
=============================================================================
