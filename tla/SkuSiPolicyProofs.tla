------------------------- MODULE SkuSiPolicyProofs -------------------------
(* The two updates of SkuSiPolicyVersion in a boot implement the abstract  *)
(* revocation store, for every set of versions and files and every fault   *)
(* but an unreadable version; and without a fault they leave the pair that *)
(* was asked for.                                                          *)
EXTENDS SkuSiPolicy, TLAPS

ReadsWork == "read" \notin Faults

---------------------------------------------------------------------------
(* Versions as numbers                                                     *)

LEMMA TimesNat == ASSUME NEW m \in Nat, NEW n \in Nat PROVE m * n \in Nat
  OBVIOUS

(* The number of a version can be compared.                                *)
LEMMA UllIsNat == ASSUME NEW v \in Version PROVE ssp_ver_to_ull(v) \in Nat
<1>1. v[1] \in Nat /\ v[2] \in Nat /\ v[3] \in Nat /\ v[4] \in Nat /\ Word \in Nat
  BY ConstantsAssumption DEF Version
<1>2. v[1] * Word + v[2] \in Nat
  BY <1>1, TimesNat
<1>3. (v[1] * Word + v[2]) * Word + v[3] \in Nat
  BY <1>1, <1>2, TimesNat
<1> QED
  BY <1>1, <1>3, TimesNat DEF ssp_ver_to_ull

LEMMA VersionsAreNat == \A v \in Versions : ssp_ver_to_ull(v) \in Nat
  BY UllIsNat, ConstantsAssumption

---------------------------------------------------------------------------
(* Types                                                                   *)

LEMMA NoneIsOne == ASSUME NEW S PROVE {} \in AtMostOne(S)
  BY DEF AtMostOne

(* What the caller passes and what the policy makes of it is at most one   *)
(* version each.                                                           *)
LEMMA ArgsTyped ==
    ASSUME TypeOK
    PROVE  /\ Args.va \in AtMostOne(Versions) /\ Args.sa \in AtMostOne(Versions)
           /\ Args.vl \in AtMostOne(Versions) /\ Args.sl \in AtMostOne(Versions)
<1>1. CASE caller = "file"
  <2>1. PICK f \in RevFiles : rev = {f}
    BY <1>1 DEF TypeOK, AtMostOne
  <2>2. Args = f
    BY <1>1, <2>1 DEF Args
  <2> QED
    BY <2>2, ConstantsAssumption DEF RevFile
<1>2. CASE caller # "file"
  BY <1>2, ConstantsAssumption DEF Args, set_ssp_uefi_variable_internal, AtMostOne
<1> QED
  BY <1>1, <1>2

LEMMA SelectTyped ==
    ASSUME TypeOK, NEW p, Select(p)
    PROVE  /\ ssp_ver' \in AtMostOne(Versions) /\ ssp_sig' \in AtMostOne(Versions)
           /\ reset_ssp' \in BOOLEAN
  BY ArgsTyped DEF Select, Choose, AtMostOne, IsReset

LEMMA WrittenTyped ==
    ASSUME NEW S \in AtMostOne(Versions)
    PROVE  {[good |-> TRUE, v |-> n] : n \in S} \in AtMostOne(StoredVersion)
<1>1. CASE S = {}
  BY <1>1, NoneIsOne
<1>2. CASE S # {}
  <2>1. PICK v \in Versions : S = {v}
    BY <1>2 DEF AtMostOne
  <2>2. {[good |-> TRUE, v |-> n] : n \in S} = {[good |-> TRUE, v |-> v]}
    BY <2>1
  <2> QED
    BY <2>2 DEF AtMostOne, StoredVersion
<1> QED
  BY <1>1, <1>2

THEOREM TypeCorrect == Spec => []TypeOK
<1>1. Init => TypeOK
  BY DEF Init, TypeOK, AtMostOne, Steps
<1>2. TypeOK /\ [Next]_vars => TypeOK'
  <2> SUFFICES ASSUME TypeOK, [Next]_vars PROVE TypeOK'
    OBVIOUS
  <2> USE DEF Steps, nv, boot, choice, history
  <2>1. CASE PowerOn
    BY <2>1 DEF PowerOn, TypeOK, AtMostOne
  <2>2. CASE ReadPolicy
    BY <2>2, SelectTyped DEF ReadPolicy, TypeOK, Fails
  <2>3. CASE clear_ssp_policy
    BY <2>3 DEF clear_ssp_policy, TypeOK, Fails
  <2>4. CASE ReadVersion
    BY <2>4 DEF ReadVersion, TypeOK, Fails, Return
  <2>5. CASE DeleteVersion
    BY <2>5, NoneIsOne DEF DeleteVersion, TypeOK, Fails
  <2>6. CASE DeleteSigners
    BY <2>6, NoneIsOne DEF DeleteSigners, TypeOK, Fails
  <2>7. CASE SetVersion
    <3>1. ssp_ver \in AtMostOne(Versions)
      BY DEF TypeOK
    <3> QED
      BY <2>7, <3>1, WrittenTyped DEF SetVersion, TypeOK, Fails, Return
  <2>8. CASE SetSigners
    BY <2>8 DEF SetSigners, TypeOK, Fails, Return
  <2>9. CASE ReturnToCaller
    BY <2>9 DEF ReturnToCaller, TypeOK
  <2>10. CASE load_revocations_file
    BY <2>10 DEF load_revocations_file, TypeOK
  <2>11. CASE NoFile \/ Stop \/ PowerLoss
    BY <2>11 DEF NoFile, Stop, PowerLoss, TypeOK
  <2>12. CASE \E p \in PolicyValue : OsSetPolicy(p)
    BY <2>12 DEF OsSetPolicy, TypeOK
  <2>13. CASE \E n \in Versions : BootManagerUpdates(n)
    BY <2>13 DEF BootManagerUpdates, TypeOK, AtMostOne, StoredVersion
  <2>14. CASE UNCHANGED vars
    BY <2>14 DEF vars, TypeOK
  <2> QED
    BY <2>1, <2>2, <2>3, <2>4, <2>5, <2>6, <2>7, <2>8, <2>9, <2>10, <2>11, <2>12, <2>13, <2>14
       DEF Next
<1> QED
  BY <1>1, <1>2, PTL DEF Spec

---------------------------------------------------------------------------
(* The invariant                                                           *)

floor == IF lost THEN {} ELSE Usable(bootVer)

(* Nothing is in the variable that is older than what the boot found.      *)
Kept ==
    \A w \in Usable(bootVer) : \E o \in Usable(verVar) : ssp_ver_to_ull(o) >= ssp_ver_to_ull(w)

(* The call of efi_main has a whole pair, or none.                         *)
BuiltinInv ==
    /\ caller = "efi_main" => ssp_ver = ssp_sig
    /\ pc = "trust" => caller = "efi_main"
    /\ pc \in {"clear", "version", "delver", "delsig", "setver", "setsig"} /\ secure => ~reset_ssp
    /\ pc \in {"delver", "delsig", "setver"} /\ caller = "efi_main" /\ secure => ssp_ver # {}

(* When a version is compared, the variable holds what the boot found or   *)
(* what was written over it, unless it is known to be lost.                *)
KeptInv ==
    secure /\ ~lost
      /\ \/ pc \in {"policy", "clear", "version", "trust"}
         \/ caller = "efi_main" /\ pc \in {"setsig", "return"}
    => Kept

(* What is about to be written is newer than that, and than what is there. *)
NewerInv ==
    secure /\ pc \in {"delver", "delsig", "setver"} =>
        \A n \in ssp_ver : \A w \in floor \cup Usable(verVar) :
            ssp_ver_to_ull(n) > ssp_ver_to_ull(w)

SspInv == TypeOK /\ BuiltinInv /\ KeptInv /\ NewerInv

LEMMA UsableTyped == ASSUME NEW S \in AtMostOne(StoredVersion) PROVE Usable(S) \in AtMostOne(Versions)
  BY DEF AtMostOne, StoredVersion, Usable

LEMMA UsableWritten == ASSUME NEW n PROVE Usable({[good |-> TRUE, v |-> n]}) = {n}
<1>1. {y \in {[good |-> TRUE, v |-> n]} : y.good} = {[good |-> TRUE, v |-> n]}
  OBVIOUS
<1>2. {x.v : x \in {[good |-> TRUE, v |-> n]}} = {n}
  OBVIOUS
<1> QED
  BY <1>1, <1>2 DEF Usable

LEMMA InitSspInv == Init => BuiltinInv /\ KeptInv /\ NewerInv
  BY DEF Init, BuiltinInv, KeptInv, NewerInv

(* Neither variable nor history changes: the parts about them carry over.  *)
LEMMA Unchanged ==
    ASSUME UNCHANGED <<verVar, bootVer, lost>>
    PROVE  Kept' = Kept /\ floor' = floor /\ Usable(verVar)' = Usable(verVar)
  BY DEF Kept, floor, Usable

(* preserve_ssp_uefi_variable said no: the candidate is newer than what is *)
(* stored, and so than what the boot found.                                *)
LEMMA ComparedNewer ==
    ASSUME TypeOK, ~preserve_ssp_uefi_variable(verVar, ssp_ver), lost \/ Kept
    PROVE  \A n \in ssp_ver : \A w \in floor \cup Usable(verVar) :
               ssp_ver_to_ull(n) > ssp_ver_to_ull(w)
<1> SUFFICES ASSUME NEW n \in ssp_ver, NEW w \in floor \cup Usable(verVar)
             PROVE  ssp_ver_to_ull(n) > ssp_ver_to_ull(w)
  OBVIOUS
<1>1. n \in Versions /\ Usable(verVar) \subseteq Versions /\ Usable(bootVer) \subseteq Versions
  BY UsableTyped DEF TypeOK, AtMostOne
<1>2. \A o \in Usable(verVar) : ssp_ver_to_ull(n) > ssp_ver_to_ull(o)
  <2> SUFFICES ASSUME NEW o \in verVar, o.good PROVE ssp_ver_to_ull(n) > ssp_ver_to_ull(o.v)
    BY DEF Usable
  <2>1. ~(ssp_ver_to_ull(n) <= ssp_ver_to_ull(o.v))
    BY DEF preserve_ssp_uefi_variable
  <2>2. o.v \in Versions
    BY <1>1 DEF Usable
  <2> QED
    BY <1>1, <2>1, <2>2, VersionsAreNat
<1>3. CASE w \in Usable(verVar)
  BY <1>2, <1>3
<1>4. CASE w \in floor
  <2>1. w \in Usable(bootVer) /\ ~lost
    BY <1>4 DEF floor
  <2>2. PICK o \in Usable(verVar) : ssp_ver_to_ull(o) >= ssp_ver_to_ull(w)
    BY <2>1 DEF Kept
  <2> QED
    BY <1>1, <1>2, <2>1, <2>2, VersionsAreNat
<1> QED
  BY <1>3, <1>4
---------------------------------------------------------------------------
(* The invariant is inductive when the version can be read                 *)

LEMMA BuiltinStep ==
    ASSUME ReadsWork, TypeOK, BuiltinInv, [Next]_vars
    PROVE  BuiltinInv'
<1> USE DEF BuiltinInv, nv, boot, choice, history
<1>1. CASE PowerOn
  BY <1>1 DEF PowerOn
<1>2. CASE ReadPolicy
  <2>1. PICK p : Select(p)
    BY <1>2 DEF ReadPolicy
  <2>2. caller = "efi_main" => Args.va = Args.sa /\ Args.vl = Args.sl
    BY DEF Args, set_ssp_uefi_variable_internal
  <2>3. caller = "efi_main" => ssp_ver' = ssp_sig'
    BY <2>1, <2>2 DEF Select, Choose
  <2>4. secure => ~reset_ssp'
    BY <2>1 DEF Select, IsReset
  <2>5. UNCHANGED <<caller, secure>> /\ pc' \in {"version", "clear"}
    BY <1>2 DEF ReadPolicy
  <2> QED
    BY <2>3, <2>4, <2>5
<1>3. CASE clear_ssp_policy
  BY <1>3 DEF clear_ssp_policy
<1>4. CASE ReadVersion
  BY <1>4 DEF ReadVersion, Return, ReadsWork, Fails
<1>5. CASE DeleteVersion
  BY <1>5 DEF DeleteVersion
<1>6. CASE DeleteSigners
  BY <1>6 DEF DeleteSigners
<1>7. CASE SetVersion
  BY <1>7 DEF SetVersion, Return
<1>8. CASE SetSigners
  BY <1>8 DEF SetSigners, Return
<1>9. CASE ReturnToCaller
  BY <1>9 DEF ReturnToCaller
<1>10. CASE load_revocations_file
  BY <1>10 DEF load_revocations_file
<1>11. CASE NoFile \/ Stop \/ PowerLoss
  BY <1>11 DEF NoFile, Stop, PowerLoss
<1>12. CASE \E p \in PolicyValue : OsSetPolicy(p)
  BY <1>12 DEF OsSetPolicy
<1>13. CASE \E n \in Versions : BootManagerUpdates(n)
  BY <1>13 DEF BootManagerUpdates
<1>14. CASE UNCHANGED vars
  BY <1>14 DEF vars
<1> QED
  BY <1>1, <1>2, <1>3, <1>4, <1>5, <1>6, <1>7, <1>8, <1>9, <1>10, <1>11, <1>12, <1>13, <1>14
     DEF Next

(* What the boot began with is at least what the boot began with.          *)
LEMMA KeptAtFirst == ASSUME TypeOK, PowerOn PROVE Kept'
<1>1. Usable(verVar) \subseteq Versions
  BY UsableTyped DEF TypeOK, AtMostOne
<1>2. Usable(bootVer)' = Usable(verVar) /\ Usable(verVar)' = Usable(verVar)
  BY DEF PowerOn, nv, Usable
<1> QED
  BY <1>1, <1>2, VersionsAreNat DEF Kept

(* A version that was compared and then written keeps what the boot found. *)
LEMMA WrittenKept ==
    ASSUME TypeOK, BuiltinInv, NewerInv, SetVersion,
           secure, caller = "efi_main", ~lost'
    PROVE  Kept'
<1>1. pc = "setver" /\ UNCHANGED bootVer
  BY DEF SetVersion, boot
<1>2. ssp_ver # {} /\ ~lost /\ verVar' = {[good |-> TRUE, v |-> n] : n \in ssp_ver}
  BY <1>1 DEF SetVersion, BuiltinInv, history
<1>3. PICK n \in ssp_ver : n \in Versions
  BY <1>2 DEF TypeOK, AtMostOne
<1>4. Usable(bootVer)' = Usable(bootVer)
  BY <1>1 DEF Usable
<1>5. Usable(bootVer) \subseteq Versions
  BY UsableTyped DEF TypeOK, AtMostOne
<1>6. n \in Usable(verVar)'
  <2>1. [good |-> TRUE, v |-> n] \in verVar'
    BY <1>2
  <2> QED
    BY <2>1 DEF Usable
<1>7. \A w \in Usable(bootVer) : ssp_ver_to_ull(n) > ssp_ver_to_ull(w)
  BY <1>1, <1>2, <1>3 DEF NewerInv, floor
<1> QED
  BY <1>3, <1>4, <1>5, <1>6, <1>7, VersionsAreNat DEF Kept

LEMMA KeptStep ==
    ASSUME ReadsWork, SspInv, [Next]_vars
    PROVE  KeptInv'
<1> USE DEF KeptInv, boot, choice, history
<1>1. CASE PowerOn
  BY <1>1, KeptAtFirst DEF SspInv
<1>2. CASE SetVersion
  BY <1>2, WrittenKept DEF SspInv, SetVersion, Return
<1>3. CASE DeleteVersion
  BY <1>3 DEF DeleteVersion
<1>4. CASE \E n \in Versions : BootManagerUpdates(n)
  BY <1>4 DEF BootManagerUpdates
<1>5. CASE UNCHANGED <<verVar, bootVer, lost>>
  <2> USE <1>5, Unchanged DEF SspInv
  <2>1. CASE ReadPolicy \/ clear_ssp_policy
    BY <2>1 DEF ReadPolicy, clear_ssp_policy
  <2>2. CASE ReadVersion
    <3>1. pc = "version" /\ UNCHANGED <<secure, caller>>
          /\ (pc' = "return" \/ pc' = "setver" \/ pc' = "delver")
      BY <2>2 DEF ReadVersion, Return
    <3> QED
      BY <3>1
  <2>3. CASE DeleteSigners
    BY <2>3 DEF DeleteSigners, BuiltinInv
  <2>4. CASE SetSigners \/ ReturnToCaller
    BY <2>4 DEF SetSigners, ReturnToCaller, Return
  <2>5. CASE load_revocations_file
    BY <2>5 DEF load_revocations_file, BuiltinInv
  <2>6. CASE NoFile \/ Stop \/ PowerLoss \/ \E p \in PolicyValue : OsSetPolicy(p)
    BY <2>6 DEF NoFile, Stop, PowerLoss, OsSetPolicy
  <2>7. CASE UNCHANGED vars
    BY <2>7 DEF vars
  <2> QED
    BY <2>1, <2>2, <2>3, <2>4, <2>5, <2>6, <2>7, <1>1, <1>2, <1>3, <1>4 DEF Next
<1>6. PowerOn \/ SetVersion \/ DeleteVersion \/ (\E n \in Versions : BootManagerUpdates(n))
        \/ UNCHANGED <<verVar, bootVer, lost>>
  BY DEF Next, vars, nv, ReadPolicy, clear_ssp_policy, ReadVersion, DeleteSigners, SetSigners,
         ReturnToCaller, load_revocations_file, NoFile, Stop, PowerLoss, OsSetPolicy
<1> QED
  BY <1>1, <1>2, <1>3, <1>4, <1>5, <1>6

LEMMA NewerStep ==
    ASSUME ReadsWork, SspInv, [Next]_vars
    PROVE  NewerInv'
<1> USE DEF NewerInv, nv, boot, choice, history
<1>1. CASE PowerOn
  BY <1>1 DEF PowerOn
<1>2. CASE ReadPolicy \/ clear_ssp_policy
  BY <1>2 DEF ReadPolicy, clear_ssp_policy
<1>3. CASE ReadVersion
  <2> SUFFICES ASSUME secure, pc' \in {"delver", "delsig", "setver"}
               PROVE  \A n \in ssp_ver : \A w \in floor \cup Usable(verVar) :
                          ssp_ver_to_ull(n) > ssp_ver_to_ull(w)
    BY <1>3, Unchanged DEF ReadVersion
  <2>1. ~preserve_ssp_uefi_variable(verVar, ssp_ver)
    <3>1. ~reset_ssp
      BY <1>3 DEF ReadVersion, SspInv, BuiltinInv
    <3>2. CASE verVar = {}
      BY <3>2 DEF preserve_ssp_uefi_variable
    <3>3. CASE verVar # {}
      BY <1>3, <3>1, <3>3 DEF ReadVersion, Return, Fails, ReadsWork
    <3> QED
      BY <3>2, <3>3
  <2>2. lost \/ Kept
    <3>1. pc = "version"
      BY <1>3 DEF ReadVersion
    <3> QED
      BY <3>1 DEF SspInv, KeptInv
  <2> QED
    BY <2>1, <2>2, ComparedNewer DEF SspInv
<1>4. CASE DeleteVersion
  <2>1. Usable(verVar)' \subseteq Usable(verVar) /\ floor' = floor
    BY <1>4 DEF DeleteVersion, Usable, floor
  <2> QED
    BY <1>4, <2>1 DEF DeleteVersion, SspInv
<1>5. CASE DeleteSigners
  <2>1. UNCHANGED <<verVar, bootVer, lost, ssp_ver, secure>> /\ pc = "delsig"
    BY <1>5 DEF DeleteSigners
  <2> QED
    BY <2>1, Unchanged DEF SspInv
<1>6. CASE SetVersion \/ SetSigners \/ ReturnToCaller \/ load_revocations_file
  BY <1>6 DEF SetVersion, SetSigners, ReturnToCaller, load_revocations_file, Return
<1>7. CASE NoFile \/ Stop \/ PowerLoss \/ \E p \in PolicyValue : OsSetPolicy(p)
  BY <1>7 DEF NoFile, Stop, PowerLoss, OsSetPolicy
<1>8. CASE \E n \in Versions : BootManagerUpdates(n)
  BY <1>8 DEF BootManagerUpdates
<1>9. CASE UNCHANGED vars
  <2>1. UNCHANGED <<verVar, bootVer, lost, ssp_ver, secure, pc>>
    BY <1>9 DEF vars
  <2> QED
    BY <2>1, Unchanged DEF SspInv
<1> QED
  BY <1>1, <1>2, <1>3, <1>4, <1>5, <1>6, <1>7, <1>8, <1>9 DEF Next

LEMMA SspInvariant == ReadsWork => (Spec => []SspInv)
<1> SUFFICES ASSUME ReadsWork PROVE Spec => []SspInv
  OBVIOUS
<1>1. Init => BuiltinInv /\ KeptInv /\ NewerInv
  BY InitSspInv
<1>2. TypeOK /\ TypeOK' /\ BuiltinInv /\ KeptInv /\ NewerInv /\ [Next]_vars
        => BuiltinInv' /\ KeptInv' /\ NewerInv'
  BY BuiltinStep, KeptStep, NewerStep DEF SspInv
<1> QED
  BY <1>1, <1>2, TypeCorrect, PTL DEF Spec, SspInv

---------------------------------------------------------------------------
(* The refinement                                                          *)

(* A step that installs a version installs one that is new enough.         *)
LEMMA InstallStep ==
    ASSUME SspInv, SetVersion, ssp_ver # {},
           verVar' = {[good |-> TRUE, v |-> n] : n \in ssp_ver}, UNCHANGED history
    PROVE  Store!StoreNext
<1>1. PICK n \in Versions : ssp_ver = {n}
  BY DEF SspInv, TypeOK, AtMostOne
<1>2. Usable(verVar)' = {n}
  <2>1. verVar' = {[good |-> TRUE, v |-> n]}
    BY <1>1
  <2> QED
    BY <2>1, UsableWritten DEF Usable
<1>3. UNCHANGED <<secure, bootVer, lost>> /\ pc = "setver" /\ pc' # "off"
  BY DEF SetVersion, boot, history, Return
<1>4. (IF lost THEN {} ELSE Usable(bootVer))' = IF lost THEN {} ELSE Usable(bootVer)
  BY <1>3 DEF Usable
<1>5. secure => \A w \in (IF lost THEN {} ELSE Usable(bootVer)) \cup Usable(verVar) : Newer(n, w)
  BY <1>1, <1>3 DEF SspInv, NewerInv, floor, Newer
<1>6. Store!Install(n)
  BY <1>2, <1>3, <1>4, <1>5 DEF Store!Install
<1> QED
  BY <1>6 DEF Store!StoreNext

(* Every step of shim, of the firmware and of the operating system is a    *)
(* step of the abstract store, or leaves what it sees alone.               *)
LEMMA StoreStep ==
    ASSUME SspInv, [Next]_vars
    PROVE  [Store!StoreNext]_(Store!storeVars)
<1> USE DEF Store!storeVars, boot, history
<1>1. CASE PowerOn
  <2>1. Usable(bootVer)' = Usable(verVar) /\ Usable(verVar)' = Usable(verVar) /\ lost' = FALSE
    BY <1>1 DEF PowerOn, nv, Usable
  <2>2. (secure /\ pc # "off")' \in BOOLEAN
    OBVIOUS
  <2> QED
    BY <2>1, <2>2 DEF Store!StoreNext, Store!Start
<1>2. CASE DeleteVersion
  <2>1. UNCHANGED <<secure, bootVer, lost>> /\ pc # "off" /\ pc' # "off"
    BY <1>2 DEF DeleteVersion
  <2>2. CASE verVar' = {}
    BY <2>1, <2>2 DEF Store!StoreNext, Store!Remove, Usable
  <2>3. CASE UNCHANGED verVar
    BY <2>1, <2>3 DEF Usable
  <2> QED
    BY <1>2, <2>2, <2>3 DEF DeleteVersion
<1>3. CASE SetVersion
  <2>1. UNCHANGED <<secure, bootVer>> /\ pc # "off" /\ pc' # "off"
    BY <1>3 DEF SetVersion, Return
  <2>2. CASE ssp_ver # {} /\ verVar' = {[good |-> TRUE, v |-> n] : n \in ssp_ver} /\ UNCHANGED history
    BY <1>3, <2>2, InstallStep
  <2>3. CASE UNCHANGED <<verVar, lost>>
    BY <2>1, <2>3 DEF Usable
  <2>4. CASE UNCHANGED verVar /\ lost' = TRUE /\ "write" \in Faults
    BY <2>1, <2>4 DEF Store!StoreNext, Store!Forget, Usable
  <2> QED
    BY <1>3, <2>2, <2>3, <2>4 DEF SetVersion, Fails
<1>4. CASE \E n \in Versions : BootManagerUpdates(n)
  <2>1. PICK n \in Versions : BootManagerUpdates(n)
    BY <1>4
  <2>2. Usable(verVar)' = {n} /\ UNCHANGED <<secure, bootVer, lost, pc>> /\ pc = "off"
    BY <2>1, UsableWritten DEF BootManagerUpdates, Usable
  <2>3. Store!Install(n)
    BY <2>2 DEF Store!Install, Usable
  <2> QED
    BY <2>3 DEF Store!StoreNext
<1>5. CASE Stop \/ PowerLoss
  BY <1>5 DEF Stop, PowerLoss, nv, Store!StoreNext, Store!Stop, Usable
<1>6. CASE /\ UNCHANGED <<verVar, bootVer, lost, secure>>
           /\ pc' = "off" <=> pc = "off"
  BY <1>6 DEF Usable
<1>7. \/ PowerOn \/ DeleteVersion \/ SetVersion \/ Stop \/ PowerLoss
      \/ \E n \in Versions : BootManagerUpdates(n)
      \/ /\ UNCHANGED <<verVar, bootVer, lost, secure>>
         /\ pc' = "off" <=> pc = "off"
  <2> USE DEF nv
  <2>1. CASE ReadVersion
    BY <2>1 DEF ReadVersion, Return
  <2>2. CASE DeleteSigners
    BY <2>2 DEF DeleteSigners
  <2>3. CASE ReadPolicy \/ clear_ssp_policy \/ SetSigners \/ ReturnToCaller
    BY <2>3 DEF ReadPolicy, clear_ssp_policy, SetSigners, ReturnToCaller, Return
  <2>4. CASE load_revocations_file \/ NoFile \/ (\E p \in PolicyValue : OsSetPolicy(p)) \/ UNCHANGED vars
    BY <2>4 DEF load_revocations_file, NoFile, OsSetPolicy, vars
  <2> QED
    BY <2>1, <2>2, <2>3, <2>4 DEF Next
<1> QED
  BY <1>1, <1>2, <1>3, <1>4, <1>5, <1>6, <1>7

(* set_ssp_uefi_variable, in both its calls of a boot, implements the      *)
(* abstract revocation store, while reads work.                            *)
THEOREM ImplementsStore == ReadsWork => (Spec => SspStore)
<1> SUFFICES ASSUME ReadsWork PROVE Spec => SspStore
  OBVIOUS
<1>1. Init => Store!StoreInit
  BY DEF Init, Store!StoreInit, Store!AtMostOne, Usable, StoredVersion, AtMostOne
<1>2. SspInv /\ [Next]_vars => [Store!StoreNext]_(Store!storeVars)
  BY StoreStep
<1> QED
  BY <1>1, <1>2, SspInvariant, PTL DEF Spec, SspStore, Store!StoreSpec

---------------------------------------------------------------------------
(* What a boot leaves in the two variables                                 *)

(* A file's signers are those of its versions.                             *)
FilesPaired ==
    \A f \in RevFiles : /\ f.va # {} /\ f.sa # {} => f.va = f.sa
                        /\ f.vl # {} /\ f.sl # {} => f.vl = f.sl

(* What is written is what the policy selects from the caller's arguments, *)
(* and both callers see the same policy.                                   *)
SelectInv ==
    /\ pc \notin {"policy", "off"} =>
          /\ ssp_ver = Choose(ssp_policy, secure, Args.va, Args.vl)
          /\ ssp_sig = Choose(ssp_policy, secure, Args.sa, Args.sl)
          /\ reset_ssp = IsReset(ssp_policy, secure)
    /\ caller = "file" => secure
    /\ pc = "trust" => caller = "efi_main"
    /\ ~troubled /\ ssp_policy = "notread"
         /\ pc \notin {"os", "off"} /\ (pc = "policy" => caller = "file")
       => policyVar = "none"

LEMMA SelectStep == TypeOK /\ SelectInv /\ [Next]_vars => SelectInv'
<1> SUFFICES ASSUME TypeOK, SelectInv, [Next]_vars PROVE SelectInv'
  OBVIOUS
<1> USE DEF SelectInv, nv, boot, choice, history
<1>a. ASSUME caller' = caller, rev' = rev PROVE Args' = Args
  BY <1>a DEF Args
<1>1. CASE PowerOn
  BY <1>1 DEF PowerOn
<1>2. CASE ReadPolicy
  <2>1. Args' = Args /\ UNCHANGED <<caller, secure, policyVar>> /\ pc = "policy"
        /\ pc' \in {"version", "clear"}
    BY <1>2, <1>a DEF ReadPolicy
  <2>2. /\ ssp_ver' = Choose(ssp_policy', secure, Args.va, Args.vl)
        /\ ssp_sig' = Choose(ssp_policy', secure, Args.sa, Args.sl)
        /\ reset_ssp' = IsReset(ssp_policy', secure)
    BY <1>2 DEF ReadPolicy, Select, Choose, IsReset
  <2>3. ~troubled' /\ ssp_policy' = "notread" => policyVar = "none"
    BY <1>2 DEF ReadPolicy, TypeOK, PolicyValue, Fails
  <2> QED
    BY <2>1, <2>2, <2>3
<1>3. CASE clear_ssp_policy
  <2>1. Args' = Args
    BY <1>3, <1>a DEF clear_ssp_policy
  <2> QED
    BY <1>3, <2>1 DEF clear_ssp_policy, Fails
<1>4. CASE \/ ReadVersion \/ DeleteVersion \/ DeleteSigners \/ SetVersion \/ SetSigners
           \/ ReturnToCaller
  <2>1. /\ Args' = Args /\ UNCHANGED <<caller, secure, choice, policyVar>>
        /\ pc \notin {"policy", "off", "os", "trust"} /\ pc' \notin {"policy", "off"}
        /\ pc' = "trust" => caller = "efi_main"
        /\ ~troubled' => ~troubled
    BY <1>4, <1>a DEF ReadVersion, DeleteVersion, DeleteSigners, SetVersion, SetSigners,
                      ReturnToCaller, Return, Fails, TypeOK
  <2> QED
    BY <2>1
<1>5. CASE load_revocations_file
  BY <1>5 DEF load_revocations_file
<1>6. CASE NoFile \/ (\E p \in PolicyValue : OsSetPolicy(p))
  <2>1. Args' = Args
    BY <1>6, <1>a DEF NoFile, OsSetPolicy
  <2> QED
    BY <1>6, <2>1 DEF NoFile, OsSetPolicy
<1>7. CASE Stop \/ PowerLoss \/ (\E n \in Versions : BootManagerUpdates(n))
  BY <1>7 DEF Stop, PowerLoss, BootManagerUpdates
<1>8. CASE UNCHANGED vars
  <2>1. Args' = Args
    BY <1>8, <1>a DEF vars
  <2> QED
    BY <1>8, <2>1 DEF vars
<1> QED
  BY <1>1, <1>2, <1>3, <1>4, <1>5, <1>6, <1>7, <1>8 DEF Next

(* A selection that is a pair is one version and its signers.              *)
LEMMA PairSelected ==
    ASSUME TypeOK, FilesPaired, SelectInv, pc \notin {"policy", "off"}
    PROVE  /\ Paired => ssp_sig = ssp_ver
           /\ caller = "efi_main" => Paired
<1>1. CASE caller = "file"
  <2>1. PICK f \in RevFiles : rev = {f}
    BY <1>1 DEF TypeOK, AtMostOne
  <2>2. Args = f
    BY <1>1, <2>1 DEF Args
  <2>3. /\ f.va # {} /\ f.sa # {} => f.va = f.sa
        /\ f.vl # {} /\ f.sl # {} => f.vl = f.sl
    BY DEF FilesPaired
  <2>4. \/ ssp_ver = f.vl /\ ssp_sig = f.sl
        \/ ssp_ver = {} /\ ssp_sig = {}
        \/ ssp_ver = f.va /\ ssp_sig = f.sa
    BY <2>2 DEF SelectInv, Choose
  <2> QED
    BY <1>1, <2>3, <2>4 DEF Paired
<1>2. CASE caller = "efi_main"
  BY <1>2 DEF SelectInv, Choose, Paired, Args, set_ssp_uefi_variable_internal
<1> QED
  BY <1>1, <1>2 DEF TypeOK

(* The pair is as the boot found it, or a newer one has been written; and  *)
(* the latest one of shim is there if it was asked for.                    *)
Fresh(n)  == \A o \in bootVer : o.good => Newer(n, o.v)
Unmoved   == verVar = bootVer /\ sigVar = bootSig
Moved(n)  == verVar = {[good |-> TRUE, v |-> n]} /\ sigVar = {n} /\ Fresh(n)
Whole     == Unmoved \/ \E n \in Versions : Moved(n)
Known     == ssp_policy = "latest" => AtLeast(Builtin)

(* Such a version replaces what is there.                                  *)
Raising(n) ==
    /\ n \in Versions /\ Fresh(n)
    /\ caller = "file" /\ ssp_policy = "latest" => ssp_ver_to_ull(Builtin) <= ssp_ver_to_ull(n)

(* What a call leaves behind.                                              *)
Done ==
    /\ reset_ssp => IF bootVer = {} THEN Unmoved ELSE verVar = {} /\ sigVar = {}
    /\ ~reset_ssp => Whole /\ Known /\ \A n \in ssp_ver : AtLeast(n)
    /\ ~reset_ssp /\ ssp_ver = {} /\ caller = "efi_main" => Unmoved

(* A call on the way, when no firmware call has failed.                    *)
AskedInv ==
    ~troubled =>
        /\ pc \in {"policy", "clear", "version"} =>
              IF caller = "efi_main" THEN Unmoved ELSE Whole /\ Known
        /\ Paired =>
              /\ pc \in {"delver", "delsig"} /\ reset_ssp => bootVer # {}
              /\ pc \in {"delver", "delsig"} /\ ~reset_ssp => ssp_ver # {}
              /\ pc \in {"delver", "delsig", "setver"} => \A n \in ssp_ver : Raising(n)
              /\ pc = "delsig" => verVar = {}
              /\ pc = "setver" => ~reset_ssp /\ ssp_ver # {}
              /\ pc = "setsig" => /\ ~reset_ssp
                                  /\ \E n \in ssp_ver : verVar = {[good |-> TRUE, v |-> n]} /\ Raising(n)
              /\ pc \in {"return", "trust", "os"} => Done

(* A version is at least itself, and at least what it is newer than.       *)
LEMMA WrittenAtLeast ==
    ASSUME NEW n \in Versions, NEW m \in Versions, verVar = {[good |-> TRUE, v |-> n]},
           ssp_ver_to_ull(m) <= ssp_ver_to_ull(n)
    PROVE  AtLeast(m)
  BY DEF AtLeast, preserve_ssp_uefi_variable

(* A version that is not preserved is replaced by a newer one.             *)
LEMMA ReplacedByNewer ==
    ASSUME TypeOK, Whole, caller = "file" => Known, verVar # {},
           ~preserve_ssp_uefi_variable(verVar, ssp_ver), NEW n \in ssp_ver
    PROVE  Raising(n)
<1>1. n \in Versions /\ Builtin \in Versions
  BY ConstantsAssumption DEF TypeOK, AtMostOne
<1>2. \A o \in verVar : o.good => Newer(n, o.v)
  <2> SUFFICES ASSUME NEW o \in verVar, o.good PROVE Newer(n, o.v)
    OBVIOUS
  <2>1. ~(ssp_ver_to_ull(n) <= ssp_ver_to_ull(o.v))
    BY DEF preserve_ssp_uefi_variable
  <2>2. o.v \in Versions
    BY DEF TypeOK, AtMostOne, StoredVersion
  <2> QED
    BY <1>1, <2>1, <2>2, VersionsAreNat DEF Newer
<1>3. Fresh(n)
  <2>1. CASE Unmoved
    BY <1>2, <2>1 DEF Unmoved, Fresh
  <2>2. ASSUME NEW m \in Versions, Moved(m) PROVE Fresh(n)
    <3>1. Newer(n, m)
      <4>1. [good |-> TRUE, v |-> m] \in verVar
        BY <2>2 DEF Moved
      <4> QED
        BY <1>2, <4>1
    <3>2. \A o \in bootVer : o.good => Newer(m, o.v) /\ o.v \in Versions
      BY <2>2 DEF Moved, Fresh, TypeOK, AtMostOne, StoredVersion
    <3> QED
      BY <1>1, <3>1, <3>2, VersionsAreNat DEF Fresh, Newer
  <2> QED
    BY <2>1, <2>2 DEF Whole
<1>4. ASSUME caller = "file", ssp_policy = "latest"
      PROVE  ssp_ver_to_ull(Builtin) <= ssp_ver_to_ull(n)
  <2>1. PICK o \in verVar : o.good /\ ssp_ver_to_ull(Builtin) <= ssp_ver_to_ull(o.v)
    BY <1>4 DEF Known, AtLeast, preserve_ssp_uefi_variable
  <2>2. o.v \in Versions /\ Newer(n, o.v)
    BY <1>2, <2>1 DEF TypeOK, AtMostOne, StoredVersion
  <2> QED
    BY <1>1, <2>1, <2>2, VersionsAreNat DEF Newer
<1> QED
  BY <1>1, <1>3, <1>4 DEF Raising

(* Where nothing is, nothing has been written, and nothing was asked for.  *)
LEMMA NothingThere ==
    ASSUME Whole, caller = "file" => Known, verVar = {}
    PROVE  /\ bootVer = {} /\ Unmoved
           /\ \A n \in Versions : Raising(n)
<1>1. \A n : ~Moved(n)
  BY DEF Moved
<1>2. bootVer = {} /\ Unmoved
  BY <1>1 DEF Whole, Unmoved
<1>3. caller = "file" => ssp_policy # "latest"
  BY DEF Known, AtLeast, preserve_ssp_uefi_variable
<1> QED
  BY <1>2, <1>3 DEF Raising, Fresh

(* The parts speak of these variables only.                                *)
LEMMA SameParts ==
    ASSUME UNCHANGED <<verVar, sigVar, bootVer, bootSig, ssp_policy, caller>>
    PROVE  /\ Unmoved' <=> Unmoved
           /\ Whole' <=> Whole
           /\ Known' <=> Known
           /\ \A n : AtLeast(n)' <=> AtLeast(n)
           /\ \A n : Raising(n)' <=> Raising(n)
  BY DEF Unmoved, Whole, Moved, Fresh, Known, AtLeast, Raising, Newer

LEMMA RaisingStays ==
    ASSUME UNCHANGED <<bootVer, ssp_policy, caller>>
    PROVE  \A n : Raising(n)' <=> Raising(n)
  BY DEF Fresh, Raising, Newer

LEMMA AskedStep ==
    FilesPaired /\ TypeOK /\ SelectInv /\ AskedInv /\ [Next]_vars => AskedInv'
<1> SUFFICES ASSUME FilesPaired, TypeOK, SelectInv, AskedInv, [Next]_vars, ~troubled' PROVE AskedInv'
  BY DEF AskedInv
<1> USE DEF nv, boot, choice, history
<1>1. CASE PowerOn
  BY <1>1 DEF PowerOn, AskedInv, Unmoved
<1>2. CASE ReadPolicy
  <2>1. /\ UNCHANGED <<verVar, sigVar, bootVer, bootSig, caller>> /\ ~troubled
        /\ pc = "policy" /\ pc' \in {"clear", "version"}
    BY <1>2 DEF ReadPolicy, Fails
  <2>2. Unmoved' <=> Unmoved
    BY <2>1 DEF Unmoved
  <2>3. Whole' <=> Whole
    BY <2>1, <2>2 DEF Whole, Moved, Fresh, Newer
  <2>4. caller # "efi_main" => ssp_policy' = ssp_policy
    BY <1>2, <2>1 DEF ReadPolicy, SelectInv, TypeOK
  <2>5. caller # "efi_main" => (Known' <=> Known)
    BY <2>1, <2>4 DEF Known, AtLeast
  <2> QED
    BY <2>1, <2>2, <2>3, <2>5 DEF AskedInv
<1>3. CASE clear_ssp_policy
  <2>1. /\ UNCHANGED <<verVar, sigVar, bootVer, bootSig, ssp_policy, caller>> /\ ~troubled
        /\ pc = "clear" /\ pc' = "version"
    BY <1>3 DEF clear_ssp_policy, Fails
  <2> QED
    BY <2>1, SameParts DEF AskedInv
<1>4. CASE ReadVersion
  <2>1. /\ UNCHANGED <<verVar, sigVar, bootVer, bootSig, ssp_policy, caller, ssp_ver, ssp_sig, reset_ssp>>
        /\ ~troubled /\ pc = "version"
    BY <1>4 DEF ReadVersion, Fails
  <2>2. /\ Unmoved \/ caller # "efi_main"
        /\ Whole /\ (caller = "file" => Known) /\ (caller \in {"efi_main", "file"})
    BY <2>1 DEF AskedInv, Whole, TypeOK
  <2>3. /\ reset_ssp => caller = "efi_main"
        /\ caller = "efi_main" /\ ssp_policy = "latest" /\ ~reset_ssp => ssp_ver = {Builtin}
        /\ reset_ssp => ssp_policy # "latest"
    BY <2>1, <2>2 DEF SelectInv, IsReset, Choose, Args, set_ssp_uefi_variable_internal
  <2>4. ssp_ver \subseteq Versions
    BY DEF TypeOK, AtMostOne
  <2>5. Paired /\ ~reset_ssp /\ (ssp_ver # {} \/ ssp_sig # {} \/ reset_ssp) => ssp_ver # {}
    BY DEF Paired
  <2>6. CASE ssp_ver = {} /\ ssp_sig = {} /\ ~reset_ssp /\ pc' = "return"
    <3>1. Done'
      BY <2>1, <2>2, <2>3, <2>6, SameParts DEF Done, Known
    <3> QED
      BY <2>6, <3>1 DEF AskedInv
  <2>7. CASE (ssp_ver # {} \/ ssp_sig # {} \/ reset_ssp) /\ verVar = {}
               /\ IF reset_ssp THEN pc' = "return" ELSE pc' = "setver"
    <3>1. bootVer = {} /\ Unmoved /\ \A n \in ssp_ver : Raising(n)
      BY <2>2, <2>4, <2>7, NothingThere
    <3>2. reset_ssp => Done'
      BY <2>1, <3>1, SameParts DEF Done
    <3> QED
      BY <2>1, <2>5, <2>7, <3>1, <3>2, SameParts DEF AskedInv, Paired
  <2>8. CASE /\ verVar # {} /\ preserve_ssp_uefi_variable(verVar, ssp_ver) /\ ~reset_ssp
             /\ pc' = "return"
    <3>1. \A n \in ssp_ver : AtLeast(n)
      <4>1. PICK n \in Versions : ssp_ver = {n}
        BY <2>8 DEF preserve_ssp_uefi_variable, TypeOK, AtMostOne
      <4> QED
        BY <2>8, <4>1 DEF AtLeast
    <3>2. ssp_ver # {}
      BY <2>8 DEF preserve_ssp_uefi_variable
    <3>3. Known
      BY <2>2, <2>3, <2>8, <3>1 DEF Known
    <3>4. Done'
      BY <2>1, <2>2, <2>8, <3>1, <3>2, <3>3, SameParts DEF Done
    <3> QED
      BY <2>8, <3>4 DEF AskedInv
  <2>9. CASE /\ ssp_ver # {} \/ ssp_sig # {} \/ reset_ssp
             /\ verVar # {} /\ ~(preserve_ssp_uefi_variable(verVar, ssp_ver) /\ ~reset_ssp)
             /\ pc' = "delver"
    <3>1. reset_ssp => Unmoved /\ bootVer # {}
      BY <2>2, <2>3, <2>9 DEF Unmoved
    <3>2. reset_ssp => ssp_ver = {}
      BY <2>1 DEF SelectInv, Choose, IsReset
    <3>3. ~reset_ssp => \A n \in ssp_ver : Raising(n)
      BY <2>2, <2>9, ReplacedByNewer
    <3> QED
      BY <2>1, <2>5, <2>9, <3>1, <3>2, <3>3, SameParts DEF AskedInv, Paired
  <2> QED
    BY <1>4, <2>6, <2>7, <2>8, <2>9 DEF ReadVersion, Return, Fails
<1>5. CASE DeleteVersion
  <2>1. /\ UNCHANGED <<bootVer, bootSig, ssp_policy, caller, ssp_ver, ssp_sig, reset_ssp>>
        /\ ~troubled /\ pc = "delver" /\ pc' = "delsig" /\ verVar' = {}
    BY <1>5 DEF DeleteVersion, Fails
  <2> QED
    BY <2>1, RaisingStays DEF AskedInv, Paired
<1>6. CASE DeleteSigners
  <2>1. /\ UNCHANGED <<verVar, bootVer, bootSig, ssp_policy, caller, ssp_ver, ssp_sig, reset_ssp>>
        /\ ~troubled /\ pc = "delsig" /\ sigVar' = {}
        /\ pc' = IF reset_ssp THEN "return" ELSE "setver"
    BY <1>6 DEF DeleteSigners, Fails
  <2>2. Paired /\ reset_ssp => Done'
    BY <2>1 DEF AskedInv, Done
  <2> QED
    BY <2>1, <2>2, RaisingStays DEF AskedInv, Paired
<1>7. CASE SetVersion
  <2>1. /\ UNCHANGED <<sigVar, bootVer, bootSig, ssp_policy, caller, ssp_ver, ssp_sig, reset_ssp>>
        /\ ~troubled /\ pc = "setver"
    BY <1>7 DEF SetVersion, Fails
  <2>2. SUFFICES ASSUME Paired PROVE AskedInv'
    <3>1. pc' \in {"setsig", "return"}
      BY <1>7 DEF SetVersion, Return
    <3> QED
      BY <2>1, <2>2, <3>1 DEF AskedInv, Paired
  <2>3. ~reset_ssp /\ ssp_ver # {} /\ \A n \in ssp_ver : Raising(n)
    BY <2>1, <2>2 DEF AskedInv
  <2>4. PICK n \in Versions : ssp_ver = {n}
    BY <2>3 DEF TypeOK, AtMostOne
  <2>5. verVar' = {[good |-> TRUE, v |-> n]} /\ pc' = "setsig"
    BY <1>7, <2>3, <2>4 DEF SetVersion, Fails
  <2> QED
    BY <2>1, <2>3, <2>4, <2>5, RaisingStays DEF AskedInv
<1>8. CASE SetSigners
  <2>1. /\ UNCHANGED <<verVar, bootVer, bootSig, ssp_policy, caller, ssp_ver, ssp_sig, reset_ssp>>
        /\ ~troubled /\ pc = "setsig" /\ pc' = "return"
    BY <1>8 DEF SetSigners, Return, Fails
  <2>2. SUFFICES ASSUME Paired PROVE AskedInv'
    BY <2>1, <2>2 DEF AskedInv, Paired
  <2>3. PICK n \in ssp_ver : ~reset_ssp /\ verVar = {[good |-> TRUE, v |-> n]} /\ Raising(n)
    BY <2>1, <2>2 DEF AskedInv
  <2>4. ssp_ver = {n} /\ ssp_sig = {n} /\ n \in Versions
    BY <2>1, <2>2, <2>3, PairSelected DEF TypeOK, AtMostOne
  <2>5. sigVar' = {n}
    BY <1>8, <2>4 DEF SetSigners, Fails
  <2>6. Moved(n)' /\ n \in Versions
    BY <2>1, <2>3, <2>4, <2>5 DEF Moved, Raising, Fresh, Newer
  <2>7. AtLeast(n)'
    BY <2>1, <2>3, <2>4, VersionsAreNat DEF AtLeast, preserve_ssp_uefi_variable
  <2>8. Known'
    <3>1. CASE caller = "file"
      BY <2>1, <2>3, <3>1 DEF Known, AtLeast, preserve_ssp_uefi_variable, Raising
    <3>2. CASE caller = "efi_main"
      <4>1. ssp_policy = "latest" => n = Builtin
        BY <2>1, <2>4, <3>2 DEF SelectInv, Choose, Args, set_ssp_uefi_variable_internal
      <4> QED
        BY <2>1, <2>7, <4>1 DEF Known
    <3> QED
      BY <3>1, <3>2 DEF TypeOK
  <2>9. Done'
    BY <2>1, <2>3, <2>4, <2>6, <2>7, <2>8 DEF Done, Whole
  <2> QED
    BY <2>1, <2>9 DEF AskedInv
<1>9. CASE ReturnToCaller \/ NoFile \/ (\E p \in PolicyValue : OsSetPolicy(p))
  <2>1. /\ UNCHANGED <<verVar, sigVar, bootVer, bootSig, ssp_policy, caller, ssp_ver, ssp_sig, reset_ssp>>
        /\ ~troubled /\ pc \in {"return", "trust", "os"} /\ pc' \in {"trust", "os"}
    BY <1>9 DEF ReturnToCaller, NoFile, OsSetPolicy
  <2>2. Done' <=> Done
    BY <2>1, SameParts DEF Done
  <2> QED
    BY <2>1, <2>2 DEF AskedInv, Paired
<1>10. CASE load_revocations_file
  <2>1. /\ UNCHANGED <<verVar, sigVar, bootVer, bootSig, ssp_policy>> /\ caller' = "file"
        /\ ~troubled /\ pc = "trust" /\ pc' = "policy" /\ secure
    BY <1>10 DEF load_revocations_file
  <2>2. Done /\ ~reset_ssp
    BY <2>1, PairSelected DEF AskedInv, SelectInv, IsReset
  <2>3. Whole' /\ Known'
    BY <2>1, <2>2 DEF Done, Whole, Unmoved, Moved, Fresh, Known, AtLeast, Newer
  <2> QED
    BY <2>1, <2>3 DEF AskedInv
<1>11. CASE Stop \/ PowerLoss \/ (\E n \in Versions : BootManagerUpdates(n))
  BY <1>11 DEF Stop, PowerLoss, BootManagerUpdates, AskedInv
<1>12. CASE UNCHANGED vars
  <2>1. UNCHANGED <<verVar, sigVar, bootVer, bootSig, ssp_policy, caller, ssp_ver, ssp_sig, reset_ssp,
                    pc, troubled>>
    BY <1>12 DEF vars
  <2>2. Done' <=> Done
    BY <2>1, SameParts DEF Done
  <2> QED
    BY <2>1, <2>2, SameParts DEF AskedInv, Paired
<1> QED
  BY <1>1, <1>2, <1>3, <1>4, <1>5, <1>6, <1>7, <1>8, <1>9, <1>10, <1>11, <1>12 DEF Next

(* In a boot in which no call failed, the two variables are left with one  *)
(* pair, and with the one SSPPolicy asked for, although they are written   *)
(* one after the other, by two callers, and the request is gone before the *)
(* second; provided files are published with a version and its signers.    *)
THEOREM PairLeftAsAsked == FilesPaired => (Spec => []AskedPairLeft)
<1> SUFFICES ASSUME FilesPaired PROVE Spec => []AskedPairLeft
  OBVIOUS
<1>1. Init => SelectInv /\ AskedInv
  BY DEF Init, SelectInv, AskedInv
<1>2. TypeOK /\ SelectInv /\ AskedInv => AskedPairLeft
  <2> SUFFICES ASSUME TypeOK, SelectInv, AskedInv, pc = "os", ~troubled, Paired
               PROVE  AskedPairLeft
    BY DEF AskedPairLeft, PairMoves, RequestHonoured
  <2>1. Done
    BY DEF AskedInv
  <2>2. Whole => IF verVar = bootVer THEN sigVar = bootSig ELSE sigVar = Usable(verVar)
    <3>1. ASSUME NEW n \in Versions, Moved(n) PROVE verVar # bootVer /\ sigVar = Usable(verVar)
      <4>1. ASSUME verVar = bootVer PROVE FALSE
        <5>1. [good |-> TRUE, v |-> n] \in bootVer
          BY <3>1, <4>1 DEF Moved
        <5>2. Newer(n, n)
          BY <3>1, <5>1 DEF Moved, Fresh
        <5> QED
          BY <5>2, VersionsAreNat DEF Newer
      <4> QED
        BY <3>1, <4>1, UsableWritten DEF Moved
    <3> QED
      BY <3>1 DEF Whole, Unmoved
  <2>3. Usable({}) = {}
    BY DEF Usable
  <2>4. PairMoves
    BY <2>1, <2>2, <2>3 DEF Done, PairMoves, Unmoved, TypeOK
  <2>5. ssp_policy = "latest" => AtLeast(Builtin) /\ (caller = "file" => \A n \in Args.vl : AtLeast(n))
    BY <2>1 DEF Done, Known, SelectInv, Choose, IsReset
  <2>6. ssp_policy # "latest" /\ caller = "file" => \A n \in Args.va : AtLeast(n)
    BY <2>1 DEF Done, SelectInv, Choose, IsReset
  <2>7. ssp_policy = "reset" /\ ~secure /\ bootVer # {} => verVar = {} /\ sigVar = {}
    BY <2>1 DEF Done, SelectInv, IsReset
  <2>8. ssp_policy # "latest" /\ caller = "efi_main" =>
           (ssp_policy = "reset" /\ ~secure) \/ <<verVar, sigVar>> = <<bootVer, bootSig>>
    BY <2>1 DEF Done, Unmoved, SelectInv, Choose, IsReset, Args, set_ssp_uefi_variable_internal
  <2> QED
    BY <2>4, <2>5, <2>6, <2>7, <2>8 DEF AskedPairLeft, RequestHonoured
<1> QED
  BY <1>1, <1>2, TypeCorrect, SelectStep, AskedStep, PTL DEF Spec
=============================================================================
