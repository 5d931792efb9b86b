------------------------- MODULE FrameCenterProofs -------------------------
(***************************************************************************)
(* Proofs about FrameCenter, for every list of players, frame rate, length *)
(* of a battle and number of commands and of pending coroutines.           *)
(***************************************************************************)
EXTENDS FrameCenter, FiniteSetTheorems, TLAPS

(* The loop sleeps at least one tick, and a battle has a number of frames. *)
LEMMA MaxFrameNat == MaxFrame \in Nat
<1>1. Tick \in Nat \ {0}
  BY BattleAssumption DEF Tick
<1>2. MaxTime * Ms \in Nat
  BY BattleAssumption
<1>3. ASSUME NEW t \in Nat \ {0}, NEW m \in Nat
      PROVE  (m + t - 1) \div t \in Nat
  BY <1>3
<1> QED BY <1>1, <1>2, <1>3 DEF MaxFrame

(* What OneLoop needs: a frame loop is entered once, for timerRef, which   *)
(* nobody sets again.                                                      *)
Loops ==
    /\ loops \in 0..1
    /\ timerRef => loops = 0
    /\ ~battle => loops = 0 /\ ~timerRef

(* What PackedAsTaken needs: where the commands are that were accepted,    *)
(* and in which order they were.                                           *)
Commands ==
    /\ IsFiniteSet(accepted)
    /\ stored \subseteq accepted
    /\ \A c \in accepted : c.frame <= curFrame /\ c.cmd <= Cardinality(accepted)
    /\ \A c, d \in accepted : c.frame < d.frame => c.cmd < d.cmd
    /\ \A i \in 1..Len(packed) : \A c \in packed[i] : c \in accepted /\ c.frame = i - 1
    /\ NonePassedOver

Inv == TypeOK /\ Loops /\ Commands

LEMMA InitInv == Init => Inv
<1> SUFFICES ASSUME Init PROVE Inv
  OBVIOUS
<1>1. TypeOK
  <2>1. /\ battle \in BOOLEAN /\ timerRef \in BOOLEAN /\ armed \in BOOLEAN
        /\ isEnd \in BOOLEAN
    BY DEF Init
  <2>2. /\ curFrame \in 0..MaxFrame /\ forks \in 0..MaxForks /\ loops \in Nat
        /\ packed \in Seq(SUBSET Command) /\ Len(packed) = curFrame
    BY MaxFrameNat, BattleAssumption DEF Init
  <2>3. joined \in SUBSET Players /\ stored \in SUBSET Command /\ accepted \in SUBSET Command
    BY DEF Init
  <2> QED BY <2>1, <2>2, <2>3 DEF TypeOK
<1>2. Loops
  BY DEF Init, Loops
<1>3. Commands
  BY FS_EmptySet DEF Init, Commands, NonePassedOver
<1> QED BY <1>1, <1>2, <1>3 DEF Inv

(* Packing the commands of the current frame keeps every part.             *)
LEMMA PackInv ==
  ASSUME Inv, curFrame < MaxFrame, Pack, UNCHANGED <<stored, accepted>>
  PROVE  /\ packed' \in Seq(SUBSET Command) /\ Len(packed') = curFrame'
         /\ curFrame' \in 0..MaxFrame
         /\ Commands'
<1> DEFINE new == {c \in stored : c.frame = curFrame}
<1>1. /\ packed \in Seq(SUBSET Command) /\ Len(packed) = curFrame
      /\ curFrame \in 0..MaxFrame /\ curFrame \in Nat /\ new \in SUBSET Command
      /\ stored \subseteq accepted /\ accepted \subseteq Command
  BY MaxFrameNat DEF Inv, TypeOK, Commands
<1>2. packed' = Append(packed, new) /\ curFrame' = curFrame + 1
  BY DEF Pack
<1>3. packed' \in Seq(SUBSET Command) /\ Len(packed') = curFrame'
      /\ curFrame' \in 0..MaxFrame
  <2> HIDE DEF new
  <2> QED BY <1>1, <1>2, MaxFrameNat
<1>4. ASSUME NEW i \in 1..Len(packed')
      PROVE  packed'[i] = IF i = curFrame + 1 THEN new ELSE packed[i]
  <2> HIDE DEF new
  <2> QED BY <1>1, <1>2, <1>4
<1>5. \A i \in 1..Len(packed') : \A c \in packed'[i] : c \in accepted /\ c.frame = i - 1
  <2> SUFFICES ASSUME NEW i \in 1..Len(packed'), NEW c \in packed'[i]
               PROVE  c \in accepted /\ c.frame = i - 1
    OBVIOUS
  <2>1. CASE i = curFrame + 1
    <3>1. c \in new
      BY <1>4, <2>1
    <3>2. c \in accepted /\ c.frame = curFrame
      BY <1>1, <3>1
    <3> QED BY <1>1, <2>1, <3>2
  <2>2. CASE i # curFrame + 1
    <3>1. i \in 1..Len(packed) /\ packed'[i] = packed[i]
      BY <1>1, <1>3, <1>2, <1>4, <2>2
    <3> QED BY <3>1 DEF Inv, Commands
  <2> QED BY <2>1, <2>2
<1>6. \A c \in stored : c.frame < curFrame' => c \in packed'[c.frame + 1]
  <2> SUFFICES ASSUME NEW c \in stored, c.frame < curFrame'
               PROVE  c \in packed'[c.frame + 1]
    OBVIOUS
  <2>1. c.frame \in Nat /\ c.frame + 1 \in 1..Len(packed')
    BY <1>1, <1>2, <1>3 DEF Command
  <2>2. CASE c.frame = curFrame
    BY <1>4, <2>1, <2>2
  <2>3. CASE c.frame # curFrame
    <3>1. c.frame < curFrame
      BY <1>1, <1>2, <2>1, <2>3
    <3>2. c \in packed[c.frame + 1]
      BY <3>1 DEF Inv, Commands, NonePassedOver
    <3>3. c.frame + 1 # curFrame + 1
      BY <1>1, <2>1, <2>3
    <3> HIDE DEF new
    <3> QED BY <1>4, <2>1, <3>2, <3>3
  <2> QED BY <2>2, <2>3
<1>7. \A c \in accepted : c.frame <= curFrame'
  <2> SUFFICES ASSUME NEW c \in accepted PROVE c.frame <= curFrame'
    OBVIOUS
  <2>1. c.frame <= curFrame /\ c.frame \in Nat
    BY <1>1 DEF Inv, Commands, Command
  <2> QED BY <1>1, <1>2, <2>1
<1>8. Commands'
  BY <1>5, <1>6, <1>7 DEF Inv, Commands, NonePassedOver
<1> QED BY <1>3, <1>8

(* A round of the frame loop.                                              *)
LEMMA RoundInv ==
  ASSUME Inv, NEW running, running = 1, Round(running), UNCHANGED <<stored, accepted>>
  PROVE  /\ packed' \in Seq(SUBSET Command) /\ Len(packed') = curFrame'
         /\ curFrame' \in 0..MaxFrame
         /\ loops' \in 0..1
         /\ Commands'
<1>1. CASE Over
  BY <1>1 DEF Round, Inv, TypeOK, Commands, NonePassedOver
<1>2. CASE ~Over
  <2>1. loops' = 1 /\ Pack
    BY <1>2 DEF Round
  <2>2. curFrame < MaxFrame
    BY <1>2, MaxFrameNat DEF Over, Inv, TypeOK
  <2> QED BY <2>1, <2>2, PackInv
<1> QED BY <1>1, <1>2

LEMMA StartInv == Inv /\ Start => Inv'
<1> SUFFICES ASSUME Inv, Start PROVE Inv'
  OBVIOUS
<1>1. /\ forks' \in 0..MaxForks
      /\ UNCHANGED <<battle, joined, stored, isEnd, accepted>>
  BY BattleAssumption DEF Start, Inv, TypeOK
<1>2. CASE battle /\ timerRef
  <2>1. timerRef' = FALSE /\ armed' = FALSE /\ Round(loops + 1) /\ loops + 1 = 1
    BY <1>2 DEF Start, Inv, Loops
  <2>2. /\ packed' \in Seq(SUBSET Command) /\ Len(packed') = curFrame'
        /\ curFrame' \in 0..MaxFrame /\ loops' \in 0..1 /\ Commands'
    BY <1>1, <2>1, RoundInv
  <2>3. TypeOK'
    <3>1. timerRef' \in BOOLEAN /\ armed' \in BOOLEAN
      BY <2>1
    <3>2. loops' \in Nat
      BY <2>2
    <3> QED BY <1>1, <2>2, <3>1, <3>2 DEF Inv, TypeOK
  <2>4. Loops'
    BY <1>1, <1>2, <2>1, <2>2 DEF Loops
  <2> QED BY <2>2, <2>3, <2>4 DEF Inv
<1>3. CASE ~(battle /\ timerRef)
  <2>1. UNCHANGED <<timerRef, armed, loops, packed, curFrame>>
    BY <1>3 DEF Start
  <2> QED BY <1>1, <2>1 DEF Inv, TypeOK, Loops, Commands, NonePassedOver
<1> QED BY <1>2, <1>3

LEMMA NextFrameInv == Inv /\ NextFrame => Inv'
<1> SUFFICES ASSUME Inv, NextFrame PROVE Inv'
  OBVIOUS
<1>1. /\ loops = 1 /\ Round(loops)
      /\ UNCHANGED <<battle, timerRef, armed, joined, stored, isEnd, forks, accepted>>
  BY DEF NextFrame, Inv, Loops
<1>2. battle /\ ~timerRef
  BY <1>1 DEF Inv, Loops
<1>3. /\ packed' \in Seq(SUBSET Command) /\ Len(packed') = curFrame'
      /\ curFrame' \in 0..MaxFrame /\ loops' \in 0..1 /\ Commands'
  BY <1>1, RoundInv
<1>4. TypeOK'
  BY <1>1, <1>3 DEF Inv, TypeOK
<1>5. Loops'
  BY <1>1, <1>2, <1>3 DEF Loops
<1> QED BY <1>3, <1>4, <1>5 DEF Inv

(* A command is stored under the frame that will be packed next, and is    *)
(* numbered after every other one.                                         *)
LEMMA CommitInv ==
  ASSUME Inv, NEW uid \in Players, NEW frame, Commit(uid, frame)
  PROVE  Inv'
<1> DEFINE n == Cardinality(accepted)
           c == [uid |-> uid, frame |-> curFrame, cmd |-> n + 1]
<1>1. /\ stored' = stored \cup {c} /\ accepted' = accepted \cup {c}
      /\ UNCHANGED <<battle, timerRef, armed, joined, curFrame, isEnd, forks,
                     loops, packed>>
  BY DEF Commit, Slot
<1>2. /\ IsFiniteSet(accepted) /\ n \in Nat
      /\ stored \subseteq accepted /\ accepted \subseteq Command /\ curFrame \in Nat
      /\ \A d \in accepted : d.frame <= curFrame /\ d.cmd <= n
  BY FS_CardinalityType, MaxFrameNat DEF Inv, Commands, TypeOK
<1>3. c \in Command /\ c.frame = curFrame /\ c.cmd = n + 1
  BY <1>2, PlayersAssumption DEF Command
<1>4. \A d \in accepted : d.frame \in Nat /\ d.cmd \in Nat
  BY <1>2 DEF Command
<1> HIDE DEF c
<1>5. c \notin accepted
  BY <1>2, <1>3
<1>6. IsFiniteSet(accepted') /\ Cardinality(accepted') = n + 1
  BY <1>1, <1>2, <1>5, FS_AddElement
<1>7. TypeOK'
  <2>1. stored' \in SUBSET Command /\ accepted' \in SUBSET Command
    BY <1>1, <1>2, <1>3
  <2> QED BY <1>1, <2>1 DEF Inv, TypeOK
<1>8. Loops'
  BY <1>1 DEF Inv, Loops
<1>9. \A d \in accepted' : d.frame <= curFrame' /\ d.cmd <= Cardinality(accepted')
  <2> HIDE DEF n
  <2> QED BY <1>1, <1>2, <1>3, <1>4, <1>6
<1>10. \A d, f \in accepted' : d.frame < f.frame => d.cmd < f.cmd
  <2> SUFFICES ASSUME NEW d \in accepted', NEW f \in accepted', d.frame < f.frame
               PROVE  d.cmd < f.cmd
    OBVIOUS
  <2>1. CASE d \in accepted /\ f \in accepted
    BY <2>1 DEF Inv, Commands
  <2>2. CASE d = c
    <3>1. f.frame <= curFrame /\ f.frame \in Nat
      BY <1>1, <1>2, <1>3, <1>4
    <3> QED BY <1>2, <1>3, <2>2, <3>1
  <2>3. CASE d \in accepted /\ f = c
    <3>1. d.cmd <= n /\ d.cmd \in Nat
      BY <1>2, <1>4, <2>3
    <3> HIDE DEF n
    <3> QED BY <1>2, <1>3, <2>3, <3>1
  <2> QED BY <1>1, <2>1, <2>2, <2>3
<1>11. \A i \in 1..Len(packed') : \A d \in packed'[i] : d \in accepted' /\ d.frame = i - 1
  BY <1>1 DEF Inv, Commands
<1>12. NonePassedOver'
  <2> SUFFICES ASSUME NEW d \in stored', d.frame < curFrame
               PROVE  d \in packed[d.frame + 1]
    BY <1>1 DEF NonePassedOver
  <2>1. d \in stored
    BY <1>1, <1>2, <1>3
  <2> QED BY <2>1 DEF Inv, Commands, NonePassedOver
<1>13. stored' \subseteq accepted'
  BY <1>1, <1>2
<1> QED BY <1>6, <1>7, <1>8, <1>9, <1>10, <1>11, <1>12, <1>13 DEF Inv, Commands

LEMMA NextInv == Inv /\ [Next]_vars => Inv'
<1> SUFFICES ASSUME Inv, [Next]_vars PROVE Inv'
  OBVIOUS
<1>1. CASE CreateBattle
  BY <1>1 DEF CreateBattle, Inv, TypeOK, Loops, Commands, NonePassedOver
<1>2. CASE CancelTimer
  BY <1>2 DEF CancelTimer, Inv, TypeOK, Loops, Commands, NonePassedOver
<1>3. ASSUME NEW uid \in Players, Join(uid) PROVE Inv'
  <2>1. /\ joined' \in SUBSET Players /\ stored' \subseteq stored
        /\ UNCHANGED <<battle, timerRef, armed, curFrame, isEnd, loops, packed, accepted>>
    BY <1>3 DEF Join, Inv, TypeOK
  <2>2. forks' \in 0..MaxForks
    BY <1>3, BattleAssumption DEF Join, Inv, TypeOK
  <2> QED BY <2>1, <2>2 DEF Inv, TypeOK, Loops, Commands, NonePassedOver
<1>4. CASE Start
  BY <1>4, StartInv
<1>5. CASE NextFrame
  BY <1>5, NextFrameInv
<1>6. ASSUME NEW uid \in Players, NEW frame \in 0..MaxFrame, Commit(uid, frame)
      PROVE  Inv'
  BY <1>6, CommitInv
<1>7. CASE UNCHANGED vars
  BY <1>7 DEF vars, Inv, TypeOK, Loops, Commands, NonePassedOver
<1> QED BY <1>1, <1>2, <1>3, <1>4, <1>5, <1>6, <1>7 DEF Next

(* The parts together are an invariant.                                    *)
THEOREM Inductive == Spec => []Inv
BY InitInv, NextInv, PTL DEF Spec

(* Every variable keeps its type, and a frame is packed for every one      *)
(* startBattle has counted, never more than maxFrame.                      *)
THEOREM TypeCorrect == Spec => []TypeOK
<1>1. Inv => TypeOK
  BY DEF Inv
<1> QED BY <1>1, Inductive, PTL

(* However many coroutines the joins fork, one frame loop runs at most.    *)
THEOREM OneLoopOnly == Spec => []OneLoop
<1>1. Inv => OneLoop
  BY DEF Inv, Loops, OneLoop
<1> QED BY <1>1, Inductive, PTL

(* startBattle packs the commands in the order in which commitFrameCmd     *)
(* took them, each once, and passes none over.                             *)
THEOREM CommandsInOrder == Spec => []PackedAsTaken
<1>1. Inv => PackedAsTaken
  <2> SUFFICES ASSUME Inv PROVE PackedInOrder
    BY DEF Inv, Commands, PackedAsTaken
  <2> SUFFICES ASSUME NEW i \in 1..Len(packed), NEW j \in 1..Len(packed), i < j,
                      NEW c \in packed[i], NEW d \in packed[j]
               PROVE  c.cmd < d.cmd
    BY DEF PackedInOrder
  <2>1. c \in accepted /\ d \in accepted /\ c.frame = i - 1 /\ d.frame = j - 1
    BY DEF Inv, Commands
  <2>2. c.frame < d.frame
    BY <2>1
  <2> QED BY <2>1, <2>2 DEF Inv, Commands
<1> QED BY <1>1, Inductive, PTL
=============================================================================
