---------------------------- MODULE MCSbatLevel ----------------------------
(* A small instance of SbatLevel: two components, the three built-in       *)
(* payloads, one that revokes this shim, one that does not parse and one   *)
(* with a newer format version but an old date.                            *)
EXTENDS SbatLevel

Gens(s, g) == [c \in {"shim", "grub"} |-> IF c = "shim" THEN s ELSE g]
Pay(o, v, d, s, g) == [ok |-> o, version |-> v, date |-> d, gens |-> Gens(s, g)]
Sec(s, g) == [present |-> TRUE, comps |-> {"shim", "grub"}, gen |-> Gens(s, g)]

MCComponent == {"shim", "grub"}
MCOriginal  == Pay(TRUE, 1, 0, 0, 0)
MCAutomatic == Pay(TRUE, 1, 1, 0, 1)
MCLatest    == Pay(TRUE, 1, 2, 1, 1)
Tomorrow    == Pay(TRUE, 1, 3, 1, 2)
SelfRevoker == Pay(TRUE, 1, 4, 2, 2)
Garbled     == Pay(FALSE, 1, 5, 1, 2)
OldFormat2  == Pay(TRUE, 2, 0, 0, 0)
MCPayloads  == {MCOriginal, MCAutomatic, MCLatest, Tomorrow, SelfRevoker, Garbled, OldFormat2}
MCShimSbat  == [Sec(1, 0) EXCEPT !.comps = {"shim"}]
MCSections  == {Sec(1, 0), Sec(1, 1), Sec(2, 2), [Sec(2, 2) EXCEPT !.present = FALSE]}
File(a, s, b, auto, lat) ==
    [authentic |-> a, sbat |-> s, both |-> b, automatic |-> auto, latest |-> lat]
MCRevFiles  == {File(TRUE, Sec(2, 2), TRUE, MCLatest, Tomorrow),
                File(TRUE, Sec(1, 1), TRUE, Tomorrow, SelfRevoker),
                File(TRUE, Sec(1, 1), TRUE, OldFormat2, Garbled),
                File(FALSE, Sec(1, 1), TRUE, Tomorrow, Tomorrow)}
NoReadFaults == FaultKinds \ {"read"}

(* The payloads of this instance obey the publishing discipline.           *)
ASSUME CumulativeAssumption == Cumulative
=============================================================================
