---------------------------- MODULE MCFrameCenter ----------------------------
(* Instances of FrameCenter for TLC.  The list of players is the list of   *)
(* its own indices, which is what joinBattle looks for.                    *)
EXTENDS FrameCenter

IndexUids == <<1, 2>>
=============================================================================
