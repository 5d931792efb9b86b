# lua-kcp-skynet in TLA+

This directory specifies lua-kcp-skynet: the KCP reliable-datagram protocol
(`src/lua-kcp`), the UDP gateway that runs one KCP control block per player on
skynet (`src/pvpBattle/mySockServer.lua`), and the frame-synchronisation
service behind it (`src/pvpBattle/frame/frameCenter.lua`). TLC checks the
modules on small instances; TLAPS proves the theorems of the `...Proofs`
modules for every value of the constants. `PROJECT.json` lists the runs, maps every
definition to the lines it models, and lists the hazards.

## 1. The system

| component | state it keeps | operations | how it meets the others |
|---|---|---|---|
| **KCP ARQ core**, `ikcp.c` | one `ikcpcb` per end: `snd_queue`, `snd_buf`, `rcv_buf`, `rcv_queue`, `snd_una`, `snd_nxt`, `rcv_nxt`, the windows, `probe`, `acklist`, timers | `ikcp_send`, `ikcp_recv`, `ikcp_peeksize`, `ikcp_input`, `ikcp_flush`, `ikcp_update`, `ikcp_check` | calls its output callback from `ikcp_flush`; is driven by its owner's clock; sees its peer only through datagrams |
| **Lua binding `lkcpsn.c`** (skynet) | a `Callback` per kcp, with the coroutine and the address it sends to; process-wide `LL`, `svrsock` | `lkcp_create` ... `lkcp_flush`, `kcp_gc`; the output callback | the output callback packs each datagram on the stack of `LL` and raises Lua errors through `ikcp_flush` |
| **Lua binding `lkcp.c`** (client) | a `Callback` per kcp, with a handle of the Lua registry | the same | the output callback calls the Lua function behind the handle |
| **`lutil.c`** | none | clock in 31 bits of milliseconds, sleep | the time every kcp is given |
| **Gateway, handshakes**, `mySockServer.lua` 84-205 | `connection`, `connectNum`, `uidMap`, `subid`, `handshakeMap`, `handshakeFrom` | `dispatch_msg` with subid 0; two forked coroutines per handshake | creates the kcp of each connection |
| **Gateway, packets**, `mySockServer.lua` 206-347 | `u.ms`, the kcp, one coroutine per datagram | `dispatch_msg` with subid > 0, `request`, `do_request`, `response_msg`, `close` | feeds the kcp and runs command handlers, which may yield |
| **Frame service**, `frameCenter.lua` | `battleRef`, `timerRef`; per battle `info`, `curFrame`, `isEnd` | `createBattle`, `joinBattle`, `leaveBattle`, `startBattle`, `commitFrameCmd`, the cancel timer | called by command handlers |
| `frameLib`, `frameService`, `frameCmdCtrl`, `pvpBattle*` | none | forward one call each | - |
| tests, demonstrations, `latencysm.lua` | - | - | `test/mySockClient.lua` is the client whose datagrams the gateway's modules take as input |

What is hard about it:

* **KCP**: datagrams that are lost, repeated and reordered; acknowledgements
  that are old; a receive window that closes and whose reopening is lost; two
  loops that must move exactly the right fragments; a flush that an error in
  the output callback leaves half-way.
  Sequence numbers and times wrap; lists are searched from the end the code
  starts at and left where it breaks off; `cwnd` and `incr` are kept in step by
  four pieces of code.
* **Bindings**: a C callback that runs in whichever coroutine flushes, a
  collector that may run in the middle of it, one Lua stack for all threads,
  and Lua errors that leave C code by longjmp.
* **Gateway**: coroutines that run one at a time but let go of the processor
  in sleeps and command handlers. Up to three kinds of them touch a connection
  (its datagrams', the update loop, the handshake's), and each looks its
  tables up again after a sleep, or does not.
* **Frame service**: a timer racing the players who join, and a coroutine
  forked by every join that finds the battle full.

What makes each correct: for KCP that the pair of control blocks is a reliable
ordered stream of messages within its windows (`Stream.tla` says what is
delivered, `SlidingWindow.tla` how far either end may go); for the handshakes that the four tables agree and nothing outlives its
use; for the packets that every message is handled once, in order, and never
left lying; for the frame service that a full battle runs exactly one frame
loop to its last frame and packs each command once, in order.

## 2. Modules

| module | what it is | proofs |
|---|---|---|
| `Stream` | the abstract promise of a pair of control blocks: what was sent and what was received, nothing of how | |
| `SlidingWindow` | the abstract promise of one direction: what may be numbered, forgotten, kept and read, over integers that never wrap | |
| `KcpArq` | two control blocks and the network, with its invariants, `IInv`, and the refinements of `Stream` and `SlidingWindow` | `KcpArqProofs` |
| `MCKcpArq` | instances for TLC: who sends | |
| `KcpSegs` | the lists behind `KcpArq`'s sets, in wrapping numbers; fast acknowledgements and the congestion window; the refinement of `SlidingWindow` | `KcpSegsProofs` |
| `KcpClock` | when a control block flushes and resends, and what its clock's wrap does | `KcpClockProofs` |
| `LkcpSn` | the binding for skynet, call by call of its output callback | `LkcpSnProofs` |
| `Lkcp` | the binding for clients and the registry of its functions | `LkcpProofs` |
| `MCBindings` | a program that loads one binding or the other, for TLC | `LkcpSnProofs` |
| `MySockServer` | handshakes and the connection table | `MySockServerProofs` |
| `SockDispatch` | the packets of one established connection | `SockDispatchProofs` |
| `FrameCenter`, `MCFrameCenter` | one battle of the frame service | `FrameCenterProofs` |

How they fit: `KcpArq` leaves open when a segment is due and takes lists for
sets; `KcpClock` says when, `KcpSegs` that the lists are those sets: either
direction of `KcpArq` and the lists and wrapping numbers of `KcpSegs` implement
the same `SlidingWindow`. `KcpArq`'s
`AbortInAcks` and `AbortInProbes` are the errors `LkcpSn` raises in the middle
of a flush. `SockDispatch` takes of a kcp what `Stream` promises.

Operators called "Mutant" in a comment are not used by any specification: each
is a wrong version of the operator below it, kept to show that a property
notices the difference.

### KcpArq

The state is that of `IKCPCB` (`ikcp.h:277`), one function over `{A, B}` per
field; `snd_buf` and `rcv_buf`, which the code keeps as lists ordered by `sn`,
are functions from sequence numbers to fragments. `stream` and `delivered` are
history. A fragment is `[frg, data]`, with its place in the stream for data.

| action | code |
|---|---|
| `Send` | `ikcp_send`: cut into fragments, append to `snd_queue` |
| `Recv` | `ikcp_recv` with `ikcp_peeksize` (`Complete`), the merge loop (`MessageEnd`), the moving loop (`MoveReady`) and the fast-recover bit |
| `InputPush/Ack/Wask/Wins` | `ikcp_input` of one segment: `rmt_wnd`, `ikcp_parse_una`, `ikcp_parse_ack`, `ikcp_shrink_buf` (`Acknowledge`), then by command; a PUSH goes on into `ikcp_parse_data` |
| `Flush` | `ikcp_flush`: acknowledgements, probe timer and probes, `snd_queue` to `snd_buf` while the window is open, segments that are due |
| `AbortInAcks`, `AbortInProbes` | an `ikcp_flush` that the output callback's `luaL_error` (`lkcpsn.c:122-162`) leaves by longjmp |

Abstractions, and why nothing the properties tell apart is lost:

* *Time.* Which segments are due, and whether the probe timer has expired, is
  left open at every flush: every timing the code can produce is among the
  behaviours. Congestion control (`nocwnd = 1`) and fast resend (`resend = 0`)
  are off, as in `mySockServer.lua:400`, so RTT estimates, `fastack`,
  `ssthresh` and `cwnd` only decide when.
* *Datagrams.* One segment each; a datagram of several behaves like several.
* *Network.* `net` holds at most `NetCap` datagrams; each may be lost at any
  flush, delivered in any order, and with `Dup` delivered again.
* *Sequence numbers* are naturals, `snd_buf` and `rcv_buf` functions of them,
  and *acklist* is a set: `KcpSegs` has the lists, the wrap and the repeated
  entries, and `RcvList`, `SndList`, `AcksFit` and `ImplementsWindow` say that
  nothing is lost by it.

### KcpSegs

One end sends, the other acknowledges. `rcv_buf`, `snd_buf` and `acklist` are
the code's lists, in numbers modulo `Word` compared by `Diff` (`_itimediff`);
next to each, a history variable holds the set of integers it should stand for.

| action | code |
|---|---|
| `InputPush` | `ikcp_input` of a PUSH that was sent just now or long ago: `ikcp_ack_push` (`AckPush`), `ikcp_parse_data` (`Placed`, `Move`) |
| `Recv` | `ikcp_recv` of a message of one fragment |
| `FlushAcks` | the receiver's `ikcp_flush`: `acklist` leaves in one datagram |
| `InputAcks` | `ikcp_input` of such a datagram, segment by segment (`AfterAck`: `ikcp_parse_una`, `ikcp_shrink_buf`, `ikcp_parse_ack`), then the congestion window (`Grown`) |
| `Flush` | the sender's `ikcp_flush`: new segments while the window is open, fast resends, timeouts, and what they make of `cwnd`, `ssthresh`, `incr` (`WindowAfter`) |

A PUSH may arrive as long as it is not acknowledged, and afterwards until it is
`Old` numbers behind; which timers have run out is left to every flush.
`fastack` is not counted beyond the threshold. ACK times are left out: they only
feed the RTT estimate.

### SlidingWindow

`sent`, `out` and `una` are `snd_nxt`, `snd_buf` and `snd_una` of one end,
`wnd` its `rmt_wnd`; `nxt`, `got` and `held` are `rcv_nxt`, `rcv_buf` and the
length of `rcv_queue` of the other. `Send` numbers what the smaller of the two
windows leaves room for. `Receive` and `Read` store a number, or take some from
the queue, and then move on all that is next in order or all there is room for
(`Move`). `Learn` is the one step in which the sender hears of the receiver:
it may forget any of what has arrived. `KcpArq` maps its sets and counters
directly, once for each direction; `KcpSegs` maps what its words are read as
(`OutRead`, `GotRead`, `UnaRead`), not its history variables.

### LkcpSn

Services run on threads of their own, each in one coroutine at a time, and each
calls the methods of its own control blocks. The steps of the output callback
are the calls of the Lua API it makes on `LL` (`lkcpsn.c:141-151`):
`getglobal`, `isfunction`, `pushinteger`, `pushlstring`, `pcall`,
`checklstring`, `pop`, then the socket. A step of another service, or the
collector (`Collect`), may come between any two. An item on the stack is a
function, a conv, a string, a packed datagram or an error message. `user` is the
set of live userdata with their `Callback`; `blocks` counts what was allocated
and not freed. An address is a value, not the block of bytes that holds it. Two calls that overlap inside the API are undefined behaviour;
the model keeps the orders in which each call is whole, which already shows the
fault.

### Lkcp

`luaL_ref` and `luaL_unref` are modelled as the client's library uses them: a
list of free handles, the one given back last taken first. `Create` refers to
the function before anything can fail; the output function may run any Lua code
(`Create`, `Collect`) before the flush returns.

### MySockServer

One action per coroutine step: `Handshake` is `dispatch_msg` on a handshake
datagram that is newer than what `handshakeMap` has, from the new entry to the
two forks (nothing in it yields: `self.sq` is never held across a yield, so it
never waits); `KeepReply` is a round of the coroutine that keeps the reply
for 3 s; `UpdaterEnds` is the round of an update coroutine that no longer finds
its connection. `HandshakeDies`, `KeepReplyDies` and `UpdaterDies` are the
same steps cut short by an error that the output callback raises through
`lkcp_flush` (129) or `lkcp_update` (180, 169): nobody catches it, so the
coroutine is over, and what it had already written to the tables stays. `died`
records which ones. Times are compared, never subtracted, and a sleep may take any
time. Handshakes are numbered because each entry is a Lua table of its own, and
which of two entries a coroutine finds is what matters.

### SockDispatch

One connection. `Arrive` is a datagram (`lkcp_input`, `lkcp_check`, `u.ms`,
sleep), `Wake` the end of the sleep (`u.ms`, `lkcp_update`, the first
`lkcp_recv`), `HandlerDone` the return of a command handler (the second lookup
of the connection, the answer, the rest of the drain loop), `Replace` a newer
handshake. `lkcp_update` (228) and an answer (293-295) may raise an error
(`Dies`): the first leaves the coroutine with `u.ms` still set; the second is
caught by the `pcall` of `request` (256), whose `close` then raises another one
at `u.sq`, which is nil (337). Either way the coroutine is over and what it would
have read stays in the kcp. `ended` says what ended the last loop early. The kcp is abstracted to the queue of whole messages it holds, which
is what `Stream` promises. `ArriveNow` is a datagram whose coroutine does not
sleep: `ikcp_check` never answers a time in the past, but `lkcp_check` returns
it in 32 bits with a sign (`lkcpsn.c:343`), so that in the last interval before
`lutil`'s clock wraps it is negative. A message is `ok`, `bad` (cannot be
decoded) or `empty` (length 0).

### KcpClock

The times of one control block: `kcp->current`, `ts_flush`, and `xmit`, `rto`
and `resendts` of the segments in flight, with the clock `now` and the sleep of
the gateway's update coroutine. `age`, `wrapped` and `quiet` are history.

| action | code |
|---|---|
| `Wake` | a round of the update coroutine (`mySockServer.lua:154-172`): `lkcp_update`, then `lkcp_check` and how long to sleep |
| `UpdateOnDatagram` | the `lkcp_update` of a datagram's coroutine |
| `SendAndFlush` | `response_msg`: `lkcp_send` and `lkcp_flush`, which runs at `kcp->current` whatever the time is |
| `Ack` | the segment's acknowledgement |
| `Tick` | 10 ms pass; the coroutine runs before time goes on |

`Word` stands for 2^32 and `lutil`'s clock wraps at half of it; `Diff` is
`_itimediff`. The numbers keep the order of the real ones (`Interval` below
`Rto` below `Slack` below `Word / 2`), not their ratios. `KcpArq`
lets any segment be due at any flush, so that what holds there holds whatever
`KcpClock` shows about times.

### FrameCenter

One battle: every table of the service is indexed by `battleId`. `Start` is
the run of a forked `startBattle` up to its first sleep, `NextFrame` one more
round of the loop. Two operations of the source cannot change anything and are
no actions: `leaveBattle` raises an error for whoever is in the battle (it
indexes `self.bAttleframerEF`), and `cancelBattle` returns whenever the battle
exists. The cancel timer's callback returns at its first test, because
`eBattleStatus` has no `eCancelBattle`.

## 3. Runs

| run | instance | checks |
|---|---|---|
| `KcpArq_oneway` | A sends 3 fragments in messages of 1-2; send window 3, receive window 2, initial `rmt_wnd` 3; 2 datagrams in transit, lost, reordered, duplicated | types; `KeptUntilHeld`, `NoneStranded`, `TruthfulNet`, `InOrder`, `FullIsReadable`; `ImplementsStream`, `ImplementsWindow` |
| `KcpArq_live` | windows 1, so that the window closes after each fragment and is probed | `InFlight`; `AllDelivered` under `FairSpec` |
| `KcpArq_oversize` | messages of 2 fragments, receive window 1 | `AllDelivered` is violated (section 5) |
| `KcpSegs_lists` | 3 segments numbered 30, 31, 0 modulo 32; windows 3, fast resend after 1, blocks of 1 acknowledgement, late segments by 2 | `RcvList`, `SndList`, `AcksFit`, `IncrTracks`; `GrowsEachTime`; `ImplementsWindow`; `AllAcked` under `FairSpec` |
| `KcpClock_timers` | 2 segments sent up to twice, a clock of 32 ticks from every start, interval 2, RTO 8, late by up to 1 | types; `PromptResend`, `FlushGoesOn`; `NeverEarly` |
| `KcpClock_wrap` | one segment | `PromptAcrossWrap` is violated |
| `Bindings_both` | `lkcpsn`: one service, 2 coroutines, 2 kcps, 2 addresses; or `lkcp`: 3 kcps; one creation that fails | types; `OnCaller`, `Accounted`, `OwnBytes`; `OwnFunction` |
| `LkcpSn_threads` | two services | `OwnBytes` is violated |
| `MySockServer_table` | 2 users, 2 addresses, 2 times, 3 handshakes, 2 rounds, one error | types; `TablesAgree`, `OneUpdater`; `EntriesExpire`, `UpdatersEnd` |
| `MySockServer_reply` | the same, 4 handshakes, 6 rounds, no error | `ReplyKept` is violated |
| `SockDispatch_all` | 4 messages of all kinds, 2 to a datagram, 3 sleepers, errors at every update and answer | types; `StartedInOrder`, `SomeoneComes`; `AllRead` |
| `FrameCenter_battle` | 2 players and one stranger, 10 frames, 2 commands, 2 pending forks | types; `OneLoop`, `PackedAsTaken`; `RunsToEnd` |

Why the bounds are enough to meet the interesting cases. Three fragments with a
receive window of two and a sender that still believes in three let a segment be
new, in the window, below it and beyond it; let a window close with a fragment
unsent; and let a two-fragment message straddle the full queue. Two datagrams
with duplication give every pairwise reordering, and an old segment that
outlives the state it was sent in. Windows of one make the window close at every
fragment, which the probe must then reopen. In `KcpSegs` three segments across
the wrap fill the window, so that an insertion happens at the front, in the
middle and at the end of `rcv_buf`, and an acknowledgement takes any of them; a
first block of one entry makes `acklist` grow; `Mss` = 16 is the least for
which `mss/16` is not 0. Two coroutines are a creator and a caller; two control
blocks let the collector run in the other one's output. Three handshakes of two
users and two addresses cover every overlap of an entry with its successor and
with another user at the same address; one error may end any of their
coroutines. Two pending `startBattle` coroutines are
the race for `timerRef`. `MaxSegs`, `NetCap`, `Old`, `MaxAcks`, `MaxFailed`,
`MaxShakes`, `MaxErrors`, `MaxMsgs`, `MaxAsleep`, `MaxForks`, `MaxCmds`, `Segs`, `MaxXmit`,
`MaxAge` and `Late` are bounds of the models; the other constants are the
code's. `CHECK_DEADLOCK FALSE` everywhere but in `Bindings_both`: a client may
stop sending, and the bounds stop the models; in `LkcpSn_threads` the undefined
behaviour of a stack that is too short ends the behaviour.

Scaling in `FrameCenter`: a second has `Cs` skynet ticks and `Ms = 10 * Cs`
milliseconds, the code's 100 and 1000. The instance has `Cs = 1`.

### Fairness

* `KcpArq`: the update loop (`mySockServer.lua:154-172`) flushes for ever and
  the program drains what it can: weak fairness of `Flush` and `Recv`. Every
  timer of a control block expires again and again and not every datagram is
  lost: strong fairness of `FlushAll` (a flush with all timers expired, none of
  whose datagrams is lost) and of the arrival of each segment that is sent
  again and again. Nothing is assumed about any single datagram. That the loop
  flushes for ever also takes that no Lua error ends its coroutine: in
  `KcpArq` an error aborts a flush and a later one follows, as when datagrams or
  answers flush. `MySockServer`'s `UpdaterDies` is the error that ends the loop;
  after it neither `AllDelivered` nor `KcpClock`'s `FlushGoesOn` is claimed.
* `KcpSegs`: the same of both ends' flushes and of the reader (weak fairness);
  the first segment that is not acknowledged is sent until it arrives, and one
  of the answers gets through (strong fairness of `Arrive` and `Answer`), which
  is what `KcpArq` and `KcpClock` give.
* `MySockServer`, `SockDispatch`, `FrameCenter`: skynet runs every coroutine
  whose sleep is over and every forked one, timers expire, and command handlers
  return: weak fairness. An error is never forced and never ruled out. No client is fair: nobody has to send, join or commit.

## 4. What is proved

Every theorem holds for all values of the constants that satisfy the module's
own assumptions; what a theorem needs beyond them stands in its column.

| module | theorem | property | needs |
|---|---|---|---|
| `KcpArqProofs` | `Inductive` | `IInv` | |
| | `TypeCorrect` | `TypeOK` | |
| | `NothingForgotten` | `KeptUntilHeld` | |
| | `WindowRespected` | `InFlight` | |
| | `BuffersBounded` | `WithinWindow` | |
| | `MovesAreComplete` | `NoneStranded` | |
| | `NetworkTellsTruth` | `TruthfulNet` | |
| | `DeliveredInOrder` | `InOrder` | |
| | `FullCanBeRead` | `FullIsReadable` | `MaxFrag <= RcvWnd` |
| | `CountersMoveForward` | `NeverBack` | |
| | `RefinesStream` | `ImplementsStream` | |
| | `RefinesWindow` | `ImplementsWindow` | |
| `KcpSegsProofs` | `IncrFollowsCwnd` | `IncrTracks` | |
| | `AlwaysGrows` | `GrowsEachTime` | |
| | `RcvListHolds`, `SndListHolds` | `RcvList`, `SndList` | |
| | `AcksHaveRoom` | `AcksFit` | |
| | `AcksAreTrue` | `TruthfulAcks` | |
| | `ListsRefineWindow` | `ImplementsWindow` | |
| `KcpClockProofs` | `TypeCorrect`, `FlushesGoOn`, `ResentPromptly` | `TypeOK`, `FlushGoesOn`, `PromptResend` | |
| | `NeverTooEarly` | `NeverEarly` | |
| `LkcpSnProofs` | `TypeCorrect`, `OutputOnCaller`, `BlocksAccounted` | `TypeOK`, `OnCaller`, `Accounted` | |
| | `OneServiceOwnBytes` | `OwnBytes` | one service |
| | `EitherLibraryHolds` | the above and `OwnFunction`, of `BothSpec` | |
| | `EitherLibraryOwnBytes` | `OwnBytes`, of `BothSpec` | one service |
| `LkcpProofs` | `HandlesApart`, `RegistryAccounted`, `FunctionOnCaller` | `OwnFunction`, `HandlesAccounted`, `CallsOnCaller` | `None` is no kcp and no coroutine |
| `MySockServerProofs` | `TypeCorrect`, `TablesTellOneStory`, `OneUpdaterEach` | `TypeOK`, `TablesAgree`, `OneUpdater` | `MaxShakes < SubidLimit` |
| `SockDispatchProofs` | `TypeCorrect`, `HandlersInOrder`, `NobodyForgotten` | `TypeOK`, `StartedInOrder`, `SomeoneComes` | |
| `FrameCenterProofs` | `TypeCorrect`, `OneLoopOnly`, `CommandsInOrder` | `TypeOK`, `OneLoop`, `PackedAsTaken` | |

**KcpArq.** None of the properties is inductive by itself: that the reader
gets the right fragments depends on what is in `rcv_buf`, which depends on what
is in transit, which depends on what is in `snd_buf`; and that a fragment is
not forgotten depends on every `una` and ACK in transit being true, which
depends on `acklist`. `IInv` ties these together:

* `SendSide`: `stream` is what was numbered followed by `snd_queue`, and every
  entry of `snd_buf` is the stream's fragment of that number;
* `ReceiveSide`: `delivered` followed by `rcv_queue` is a prefix of the peer's
  stream of length `rcv_nxt`, every entry of `rcv_buf` is the right fragment,
  and `acklist` names only what is held;
* `Framed`: in a stream the fragments of a message count down to 0;
* `TruthfulNet`: what every datagram in transit claims;
* `KeptUntilHeld`, `InFlight`, `WithinWindow`, `NoneStranded`, `InOrder`.

`TruthfulNet` and `KeptUntilHeld` together make stale segments harmless: what a
control block holds only grows (`Holds` is stable), so a claim that was true
when it was sent is true when it arrives, however late. The proof has one lemma
per action; each shows the conjuncts the action can disturb. Lemmas about
`Movable`, `MessageEnd`, `Sendable` and `Acknowledge` say what these operators
return, so that the action lemmas never look inside `Min`. `RefinesStream` then
maps `Send` to `Stream!Send`, `Recv` to `Stream!Deliver`, using `Framed` and
`InOrder` to show that `MessageEnd` finds the end of the very message that is
next in the stream, and every other step to a stutter. `FullCanBeRead` adds that
`frg` of every fragment is below `MaxFrag`: then a full `rcv_queue` is at least
as long as its first message. `RefinesWindow` shows each direction to be a
`SlidingWindow`: a flush is a `Send` or, when the windows are shut, a stutter;
an arriving segment is a `Learn` for the end that gets it and, if it is a PUSH
within the window, a `Receive` of the other direction; `ikcp_recv` is a `Read`.
What `Learn` demands, that only what has arrived is forgotten, is
`TruthfulNet` again. It follows that `snd_una`, `snd_nxt` and `rcv_nxt` never
move back (`CountersMoveForward` proves it directly, `NeverBack`) and that the
buffers stay within their windows (`BuffersBounded`, `WithinWindow`).

**KcpSegs.** That `incr` is at least `2 * Mss` as soon as `cwnd` is 2 is what
makes the rest inductive: then `mss*mss/incr + mss/16 <= mss`, so the new `incr`
is never ahead of `(cwnd + 1) * mss`, and the `>=` of `ikcp.c:796` never fails.
What the acknowledgements of a datagram leave of `snd_buf` is a recursive
function, which exists and has its type by a least counterexample
(`AfterAcksType`).

The lists are about numbers modulo `Word`, the sets about integers. `Stands`
names the integers behind a list: an increasing sequence with the set as its
range whose words the list is. All integers that meet in a comparison lie less
than half of `Word` apart (`Near`, from `SizesAssumption`), so a signed
difference of words is the difference of the integers (`DiffOf`) and equal
words are equal integers (`SameWord`). Without that bound on how far apart
numbers in use lie, the comparisons of the code would go wrong. Then each
search of the code gets a lemma that says what it does to a list that stands
for a set: the place found from the back (`PlacedStands`), the segments that
move to `rcv_queue` (`MoveStands`), those below `una` (`ParseUnaStands`), the
one acknowledged (`ParseAckStands`), a whole datagram (`AfterAcksStands`), what
a flush appends (`FlushStands`). With the integers in transit (`Numbers`) and
the three counters this is inductive (`ListInv`).

`ListsRefineWindow` reads the lists as integers (`Readings`, from `ListInv`) and
maps each step to a step of `SlidingWindow`. The moving loop takes all that is
next in order or all that fits (`MoveDelivers`); a PUSH that passes the two
wrapped comparisons of `ikcp_parse_data` lies in `nxt..nxt + rcv_wnd - 1`
(`PushDelivers`); a flush that stops at the wrapped comparison of `ikcp.c:929`
stays within both windows (`FlushSends`). What `InputAcks` takes out must have
arrived, which needs one more invariant: every acknowledgement that waits or is
in transit, and every `una`, is true (`TruthfulAcks`). It is inductive because
what is acknowledged but not stored lies before `rcv_nxt` (`AckedHasArrived`)
and what has arrived stays (`ArrivedStays`).

`AcksFit`: the sizes of `acklist`'s block are a recursive function, of which a
least counterexample shows that the size number `i` is more than `i`
(`BlocksGrow`), so a size that has room is always found.

**KcpClock.** `Inv` says where `ts_flush` stands: ahead of the clock by at most
an interval (`Ahead`); behind it, by less than the coroutine has slept
(`Behind`); or behind it with a wrap of the clock in between, which makes it
look ahead by more than `Slack` (`Across`). `Wait` is then the time until the
coroutine will have flushed, and the time since the last flush plus `Wait`
never exceeds an interval and a round. `kcp->current` is as old as the sleep
makes it (`LagBound`). A segment the clock has not wrapped under either has
time left on its timer, and age and time left add up to the timer, or is due,
and age and `Wait` add up to the timer and two rounds (`TimerRight`); that
`current` is at most a round behind is why a resend is never earlier than a
round before its time. The proof assumes what the code's numbers give: the
interval at most `Slack` (5 s and 10 s), and `Slack`, the longest timer and the
rounds far below 2^31 ms (`ClockAssumption`).

**LkcpSn.** `Inv` is the type, `OnCaller`, `Accounted`, and that the
callback is given bytes. With one service `Stack` says what is on `LL` at each
call of the callback; it is empty between two datagrams, so the bottom of the
stack, where the result is read, is its top. `LkcpSn_threads` shows that with
two services this fails. `BothKeep` carries the invariants of both bindings
over to a program that loads either (`MCBindings`): a step of one leaves the
other's state alone.

**Lkcp.** The free list has no handle twice, none of it is a live control
block's, and the registry's length adds up.

**MySockServer.** As long as `subid` has not come round, handshake `n` gave out
subid `n`; so no connection is overwritten, and the coroutine forked for `n` is
the only one that updates connection `n`: `Numbered` says that it runs unless
`died` has it.

**SockDispatch.** Messages started, followed by messages waiting, have growing
numbers (`Ordered`); draining moves the boundary only. `SomeoneComes` is
inductive with the type: every step that leaves messages in the kcp leaves
either a coroutine that will come or a mark in `ended`. The exception is as
narrow as the code allows: `ended` is "ok" again with the next datagram, and
with the next loop that finds the kcp empty.

**FrameCenter.** A frame loop is entered for `timerRef`, which nobody sets
again, so there is one; commands have growing numbers by frame, and the frames
behind `curFrame` were packed with everything stored for them.

Only model-checked: liveness (`AllDelivered`, `AllAcked`, `EntriesExpire`,
`UpdatersEnd`, `AllRead`, `RunsToEnd`), which is outside what the prover does.
Every safety property that a passing run checks is a theorem.

## 5. Where code and documentation disagree

Four violation runs, each with the trace TLC prints:

* `KcpArq_oversize`: `ikcp_send` accepts up to 255 fragments (`ikcp.c:467`), the
  receiver assembles no more than `rcv_wnd` = 128; the comment at
  `mySockServer.lua:355` says message size needs no thought.
* `MySockServer_reply`: an earlier handshake's coroutine removes a later
  handshake's entry, whose reply was to be kept reliable for 3 s (line 173).
* `KcpClock_wrap`: `lutil` cuts the time to 31 bits (`lutil.c:25`), `ikcp.c`
  compares times modulo 2^32. A segment in flight across the wrap, once every
  24.8 days, is not resent if its `resendts` is at most 2^31, though the update
  coroutine is to keep the kcp reliable (`mySockServer.lua:153`). If its
  `resendts` is beyond, it is resent at once. (At exactly 2^31 `ikcp_check`, which
  subtracts the other way round, answers now while the clock is 0, but
  `ikcp_flush` does not find the segment due.) `FlushGoesOn` shows that
  flushing itself survives: `ts_flush` is given up when it is 10 s away.
* `LkcpSn_threads`: `LL` is one Lua state for all services' threads and its lock
  is commented out (`lkcpsn.c:67-78`); a datagram leaves with another service's
  bytes. `src/README.md:2` says the project solved the crashes of skynet's many
  threads.

Seen while modelling, without a run of their own:

* `ikcp.c:796` compares with `>=`, so there is no congestion avoidance
  (`GrowsEachTime`, proved); `fastack` is not reset when a segment is resent by
  timeout (line 966); nobody reads the state that `dead_link` sets (line 1007).
* `lkcpsn.c:211` sets `svrsock` once per process; a failed creation leaks the
  block of its address (line 226); a call without an address raises its error
  after the control block took the data.
* `lkcp.c:125` refers to the function before the conv is looked at, and leaks
  the handle if that fails; `kcp_gc` uses the coroutine that made the control
  block (line 108), which may be gone.
* `mySockServer.lua`: `close` fails at `u.sq`, which is nil (line 337), so the
  connection of an undecodable message stays (line 258), and so does that of an
  answer that could not be sent, with the messages behind it unread until the
  next datagram; nobody catches an error of `lkcp_update` in a forked coroutine
  (lines 169, 180), so the kcp is then updated by datagrams only; `connectMax` is never
  read (line 28); a handshake datagram that arrives again after its entry
  expired replaces a live connection; the restart of `subid` (line 115) can
  overwrite a live connection.
* `frameCenter.lua`: the cancel timer cancels nothing (lines 74-85); `maxFrame`
  divides milliseconds by a tick in hundredths of a second (line 70), so a
  battle lasts ten times as long as `maxTime`; `joinBattle` looks a uid up as an
  index of the list (line 127), so with the list of `frameCmdCtrl.lua:6` nobody
  can join; `leaveBattle` always fails (line 147); a packed frame is pushed to
  nobody (lines 196-203).

## 6. Not modelled, and the plan

Of the modelled parts: `ikcp_setmtu` (no binding exposes it), changes of
`ikcp_wndsize` and `ikcp_nodelay` in mid-conversation, the packing of segments
into datagrams, `ikcp_release`; the RTT estimate of `ikcp_update_ack` (`rx_rto`
is a constant of `KcpClock`) and `nodelay` > 0; a reply that `lkcp_send`
refuses (`mySockServer.lua:122-127`; one of this length never is); what a Lua error
that ends the update coroutine does to `KcpArq` and `KcpClock`, which assume it
goes on; the control block of a
handshake (conv 0), and so what a late acknowledgement of an earlier reply does
to a later one; `send_msg`, a push from the server, which changes nothing but
the kcp.

Next, most important first:

1. `Gateway`: `MySockServer` with the handshake's own kcp; `SockDispatch`
   composed with it through `connection`.
2. `KcpTimed`: `KcpClock` extended by the probe timer, RTT estimates and
   `nodelay`, as an implementation of `KcpArq`'s open timing.
3. `KcpSegs` in both directions at once, with messages of several fragments,
   as an implementation of `KcpArq` itself rather than of what both promise.

Left out for good: marshalling and logging in the bindings, the wrapper
modules of the frame service, start-up of the skynet services, the test
programs and the network simulator.

`PackedAsTaken` orders commands from frame to frame: within a frame the code
keeps a table per player. The commands of a player who joins again are wiped
(`frameCenter.lua:131`); they are in no frame to come, and it does not speak of
them. `AcksFit` says two things: that the block is large enough, which is where
`ikcp_ack_push` could go wrong, and that nothing is lost when it grows, which
is the copy loop.
