----------------------------- MODULE MCBindings -----------------------------
(* Both bindings for TLC.  A program loads one of the two libraries, lkcp  *)
(* or lkcpsn, and keeps to it.                                             *)
EXTENDS LkcpSn

CONSTANTS ClientKcp     \* userdata of the client's library

ASSUME ClientAssumption == None \notin ClientKcp

VARIABLES
    lib,        \* the library of this program
    cuser, registry, freelist, cfailed, calling     \* see Lkcp

clientVars == <<cuser, registry, freelist, cfailed, calling>>

Client == INSTANCE Lkcp WITH Kcp <- ClientKcp, user <- cuser, failed <- cfailed

BothInit == /\ lib \in {"lkcp", "lkcpsn"}
            /\ Init /\ Client!Init

BothNext == \/ lib = "lkcpsn" /\ Next /\ UNCHANGED <<lib, clientVars>>
            \/ lib = "lkcp" /\ Client!Next /\ UNCHANGED <<lib, vars>>

BothSpec == BothInit /\ [][BothNext]_<<lib, vars, clientVars>>

(* A control block of lkcp sends through its own function: stated in Lkcp. *)
OwnFunction == Client!OwnFunction
=============================================================================
