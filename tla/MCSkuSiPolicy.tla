--------------------------- MODULE MCSkuSiPolicy ---------------------------
(* A small instance of SkuSiPolicy: three versions that differ in the first *)
(* and in the last field, so that their order is not that of one field.    *)
EXTENDS SkuSiPolicy

V(a, d) == <<a, 0, 0, d>>
Old     == V(1, 2)
MCBuiltin == V(2, 0)
Next1   == V(2, 1)
MCVersions == {Old, MCBuiltin, Next1}

Rev(a, va, sa, vl, sl) == [authentic |-> a, va |-> va, sa |-> sa, vl |-> vl, sl |-> sl]

(* Files with both pairs, an older automatic pair alone, half pairs beside *)
(* a whole one, no whole pair, and a file that does not verify.            *)
MCRevFiles == {Rev(TRUE, {MCBuiltin}, {MCBuiltin}, {Next1}, {Next1}),
               Rev(TRUE, {Old}, {Old}, {}, {}),
               Rev(TRUE, {Old}, {Old}, {Next1}, {}),
               Rev(TRUE, {}, {Next1}, {Next1}, {Next1}),
               Rev(TRUE, {}, {Next1}, {Next1}, {}),
               Rev(FALSE, {Next1}, {Next1}, {Next1}, {Next1})}
NoReadFaults == FaultKinds \ {"read"}
=============================================================================
