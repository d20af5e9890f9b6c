---------------------------- MODULE MCShimHooks ----------------------------
(* Two shims: the one the firmware starts and one that fallback or grub    *)
(* may chain-load.                                                         *)
EXTENDS ShimHooks
MCShims == {"shim0", "shim1"}
Both    == {"shim0", "shim1"}
Drivers == {"drivers"}
Keeping == {"retain", "stale"}
Refused == {"refuse", "drivers"}
UsualOrOdd  == {Drivers, Keeping, Refused}
OnlyDrivers == {Drivers}
=============================================================================
