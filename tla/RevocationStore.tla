-------------------------- MODULE RevocationStore --------------------------
(***************************************************************************)
(* What shim promises of a revocation level it keeps in a variable, for    *)
(* whatever level that is: while Secure Boot protects a boot, the level is *)
(* never replaced by one that is not newer than what the boot found.  The  *)
(* level may be missing for a while, also over a power cut.                *)
(*                                                                         *)
(* SbatLevel and SkuSiPolicy both implement this specification.            *)
(***************************************************************************)
CONSTANTS
    Levels,        \* the levels that exist
    Newer(_, _),   \* Newer(v, w): v may replace w
    Forgetful      \* a boot goes on after it failed to write the new level

VARIABLES
    stored,        \* the usable level in the variable: a set of at most one
    floor,         \* what stored was when the boot began
    protected      \* Secure Boot is on

storeVars == <<stored, floor, protected>>

AtMostOne(S) == {{}} \cup {{x} : x \in S}

StoreInit ==
    /\ stored \in AtMostOne(Levels)
    /\ floor = stored
    /\ protected = FALSE

(* A boot begins, or ends.                                                 *)
Start ==
    /\ floor' = stored
    /\ protected' \in BOOLEAN
    /\ UNCHANGED stored

Stop ==
    /\ protected' = FALSE
    /\ UNCHANGED <<stored, floor>>

(* The old level is deleted, or a write leaves something unusable.         *)
Remove ==
    /\ stored' = {}
    /\ UNCHANGED <<floor, protected>>

Install(v) ==
    /\ protected => \A w \in floor \cup stored : Newer(v, w)
    /\ stored' = {v}
    /\ UNCHANGED <<floor, protected>>

(* The new level could not be written, and a second update of the same     *)
(* boot no longer knows what the first one took away.                      *)
Forget ==
    /\ Forgetful
    /\ floor' = {}
    /\ UNCHANGED <<stored, protected>>

StoreNext == Start \/ Stop \/ Remove \/ Forget \/ \E v \in Levels : Install(v)

StoreSpec == StoreInit /\ [][StoreNext]_storeVars
=============================================================================
