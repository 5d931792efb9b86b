----------------------------- MODULE FrameCenter -----------------------------
(***************************************************************************)
(* src/pvpBattle/frame/frameCenter.lua: one battle of the frame            *)
(* synchronisation service.  Every table of the service is indexed by      *)
(* battleId, so one battle says what there is to say about all of them.    *)
(*                                                                         *)
(* A skynet service runs one coroutine at a time, and a coroutine lets go  *)
(* only in skynet.sleep or when it ends.  An action is what runs between   *)
(* two such points: a whole call, a whole timer callback, or one round of  *)
(* the frame loop of startBattle, which skynet.fork starts later.          *)
(*                                                                         *)
(* eBattleStatus has no eCancelBattle (18-23), so the timerType of every   *)
(* cancel timer is nil, and isExit, which leaveBattle would set, is never  *)
(* set: leaveBattle indexes self.bAttleframerEF, which does not exist, and *)
(* raises an error before it changes anything, so it is no action.         *)
(***************************************************************************)
EXTENDS Integers, Sequences, FiniteSets

CONSTANTS Players,      \* the uids that call the service
          Uids,         \* the uids createBattle is given: a list
          FrameRate,    \* frames per second
          MaxTime,      \* longest battle, in seconds
          Ms, Cs,       \* milliseconds and skynet ticks in a second
          MaxLate,      \* a command more frames late than this is refused
          MaxForks,     \* bound: startBattle coroutines not yet run
          MaxCmds       \* bound: commands accepted in a behaviour

ASSUME PlayersAssumption == Players \subseteq Nat
ASSUME BattleAssumption ==
    /\ Uids \in Seq(Nat) /\ Uids # <<>>
    /\ FrameRate \in 1..Cs /\ MaxTime \in Nat \ {0}
    /\ Cs \in Nat \ {0} /\ Ms = 10 * Cs
    /\ MaxLate \in Nat /\ MaxForks \in Nat /\ MaxCmds \in Nat

(* tick: how long the loop sleeps; maxFrame: how many frames it runs.      *)
Tick     == Cs \div FrameRate
MaxFrame == (MaxTime * Ms + Tick - 1) \div Tick

VARIABLES
    battle,     \* battleRef[battleId] is there
    timerRef,   \* timerRef[battleId] is there
    armed,      \* the scheduler holds the cancel timer
    joined,     \* the keys of info
    stored,     \* the commands in info: [uid, frame, cmd]
    curFrame,
    isEnd,
    forks,      \* startBattle coroutines forked and not yet run
    loops,      \* frame loops that are running
    packed,     \* history: the commands packed into each frame
    accepted    \* history: the commands commitFrameCmd took

vars == <<battle, timerRef, armed, joined, stored, curFrame, isEnd, forks,
          loops, packed, accepted>>

Init ==
    /\ battle = FALSE /\ timerRef = FALSE /\ armed = FALSE
    /\ joined = {} /\ stored = {} /\ curFrame = 0 /\ isEnd = FALSE
    /\ forks = 0 /\ loops = 0
    /\ packed = <<>> /\ accepted = {}

-----------------------------------------------------------------------------
(* A battle is created once, and its cancel timer is scheduled.  Nothing   *)
(* removes it again: cancelBattle returns at once when the battle exists   *)
(* (and indexes nil when it does not), so it is no action.                 *)
CreateBattle ==
    /\ ~battle
    /\ battle' = TRUE /\ timerRef' = TRUE /\ armed' = TRUE
    /\ UNCHANGED <<joined, stored, curFrame, isEnd, forks, loops, packed,
                   accepted>>

(* Mutant: the reference is dropped before timerType is looked at.         *)
CancelTimerDropsRef ==
    /\ armed
    /\ armed' = FALSE
    /\ timerRef' = FALSE
    /\ UNCHANGED <<battle, joined, stored, curFrame, isEnd, forks, loops,
                   packed, accepted>>

(* The cancel timer expires.  The callback finds no timerType and returns  *)
(* before it clears timerRef or calls cancelBattle.                        *)
CancelTimer ==
    /\ armed
    /\ armed' = FALSE
    /\ UNCHANGED <<battle, timerRef, joined, stored, curFrame, isEnd, forks,
                   loops, packed, accepted>>

(* uids[uid] is looked up in a list: it is there if uid is an index, and   *)
(* every other player is refused.  (In a list like that of                 *)
(* frameCmdCtrl.lua:6, {101, 102}, no player is his own index.)            *)
MayJoin(uid) == battle /\ uid \in DOMAIN Uids

(* Every join gives the player a new info record, and every join that      *)
(* finds everyone there forks startBattle.                                 *)
Join(uid) ==
    /\ MayJoin(uid)
    /\ joined' = joined \cup {uid}
    /\ stored' = {c \in stored : c.uid # uid}
    /\ IF Cardinality(joined') >= Len(Uids)
       THEN forks < MaxForks /\ forks' = forks + 1
       ELSE forks' = forks
    /\ UNCHANGED <<battle, timerRef, armed, curFrame, isEnd, loops, packed,
                   accepted>>

-----------------------------------------------------------------------------
(* Mutant: one frame too many.                                             *)
OverLate == curFrame > MaxFrame \/ isEnd

(* The loop ends: the last frame was run, or everyone has left.            *)
Over == curFrame >= MaxFrame \/ isEnd

(* Pack what was committed in this frame, and go on to the next.           *)
Pack ==
    /\ packed' = Append(packed, {c \in stored : c.frame = curFrame})
    /\ curFrame' = curFrame + 1

(* One round of the frame loop, up to its sleep or to its end.             *)
Round(running) ==
    IF Over
    THEN loops' = running - 1 /\ UNCHANGED <<packed, curFrame>>
    ELSE loops' = running /\ Pack

(* Mutant: the timer reference is not cleared.                             *)
StartKeepsRef ==
    /\ forks > 0
    /\ forks' = forks - 1
    /\ IF battle /\ timerRef
       THEN UNCHANGED timerRef /\ armed' = FALSE /\ Round(loops + 1)
       ELSE UNCHANGED <<timerRef, armed, loops, packed, curFrame>>
    /\ UNCHANGED <<battle, joined, stored, isEnd, accepted>>

(* A forked startBattle runs.  Only the one that finds timerRef goes on;   *)
(* it stops the timer and enters the frame loop.                           *)
Start ==
    /\ forks > 0
    /\ forks' = forks - 1
    /\ IF battle /\ timerRef
       THEN timerRef' = FALSE /\ armed' = FALSE /\ Round(loops + 1)
       ELSE UNCHANGED <<timerRef, armed, loops, packed, curFrame>>
    /\ UNCHANGED <<battle, joined, stored, isEnd, accepted>>

(* A frame loop wakes from its sleep.                                      *)
NextFrame ==
    /\ loops > 0
    /\ Round(loops)
    /\ UNCHANGED <<battle, timerRef, armed, joined, stored, isEnd, forks,
                   accepted>>

(* Mutant: the command is stored under the frame its sender names.         *)
SlotOfSender(frame) == frame

(* The frame a command is stored under, whatever frame its sender names.   *)
Slot(frame) == curFrame

(* commitFrameCmd refuses who has not joined and what is too late.         *)
MayCommit(uid, frame) == battle /\ uid \in joined /\ curFrame - frame <= MaxLate

(* Commands are numbered in the order in which they are accepted.          *)
Commit(uid, frame) ==
    LET cmd == Cardinality(accepted) + 1
        c   == [uid |-> uid, frame |-> Slot(frame), cmd |-> cmd]
    IN  /\ MayCommit(uid, frame)
        /\ cmd <= MaxCmds
        /\ stored' = stored \cup {c}
        /\ accepted' = accepted \cup {c}
        /\ UNCHANGED <<battle, timerRef, armed, joined, curFrame, isEnd, forks,
                       loops, packed>>

-----------------------------------------------------------------------------
Next ==
    \/ CreateBattle
    \/ CancelTimer
    \/ \E uid \in Players : Join(uid)
    \/ Start
    \/ NextFrame
    \/ \E uid \in Players, frame \in 0..MaxFrame : Commit(uid, frame)

Spec == Init /\ [][Next]_vars

(* skynet runs every coroutine that is forked or has slept long enough,    *)
(* and every timer expires.                                                *)
Fairness == WF_vars(Start) /\ WF_vars(NextFrame) /\ WF_vars(CancelTimer)

FairSpec == Spec /\ Fairness

-----------------------------------------------------------------------------
Command == [uid : Nat, frame : Nat, cmd : Nat]

(* The type of every variable, and a frame for each one packed.            *)
TypeOK ==
    /\ battle \in BOOLEAN /\ timerRef \in BOOLEAN /\ armed \in BOOLEAN
    /\ joined \in SUBSET Players
    /\ stored \in SUBSET Command /\ accepted \in SUBSET Command
    /\ curFrame \in 0..MaxFrame /\ isEnd \in BOOLEAN
    /\ forks \in 0..MaxForks /\ loops \in Nat
    /\ packed \in Seq(SUBSET Command) /\ Len(packed) = curFrame

(* Every rejoin forks startBattle again, but one frame loop runs at most:  *)
(* timerRef lets one of the coroutines pass, and a second loop would run   *)
(* the frames at twice the rate.                                           *)
OneLoop == loops <= 1

PackedInOrder ==
    \A i, j \in 1..Len(packed) : i < j =>
        \A c \in packed[i], d \in packed[j] : c.cmd < d.cmd

NonePassedOver ==
    \A c \in stored : c.frame < curFrame => c \in packed[c.frame + 1]

(* Commands are packed in the order in which commitFrameCmd took them, and *)
(* no command is packed twice, whichever frame its sender named.  No       *)
(* stored command is passed over: when its frame is behind the loop the    *)
(* frame was packed with it.                                               *)
PackedAsTaken == PackedInOrder /\ NonePassedOver

(* A battle everyone has joined runs to its last frame: neither the cancel *)
(* timer nor a second startBattle stops it.                                *)
Full == battle /\ Cardinality(joined) >= Len(Uids)
RunsToEnd == Full ~> curFrame = MaxFrame
==============================================================================
