-------------------------- MODULE SbatLevelProofs --------------------------
(***************************************************************************)
(* Proofs about SbatLevel, for all payloads, sections, revocation files    *)
(* and fault sets: type correctness, and, when variables can be read, the  *)
(* safety properties of the level over any number of boots and power cuts. *)
(***************************************************************************)
EXTENDS SbatLevel, TLAPS

(* Reads of existing variables succeed.  The safety properties need it: an *)
(* unreadable SbatLevel is overwritten without any comparison.             *)
ReadsWork == "read" \notin Faults

InSetSbat == {"policy", "clear", "level", "delete", "write", "readback"}

(* Which caller is active when, and when verification may be off.          *)
CallerInv ==
    /\ pc \in BootSteps \ {"stage2", "os"} => ~insecure
    /\ pc \in {"selfcheck", "trust"} => caller = "efi_main"
    /\ pc = "selfcheck" => secureBoot
    /\ pc \in BootSteps /\ caller = "file" => secureBoot /\ rev # {}

(* The selected candidate; a reset is never chosen in secure mode.         *)
CandidateInv ==
    pc \in InSetSbat \ {"policy"} =>
        /\ caller = "efi_main" => candidate \in {Original, Automatic, Latest}
        /\ caller = "efi_main" /\ secureBoot => candidate \in {Automatic, Latest}
        /\ secureBoot => ~reset_sbat

(* The first update works on the level found at power-on.                  *)
FirstUpdateInv ==
    /\ caller = "efi_main" /\ pc \in {"policy", "clear", "level", "delete"} => level = bootLevel
    /\ caller = "efi_main" /\ secureBoot /\ pc \in {"delete", "write"}
          /\ bootLevel.present /\ bootLevel.good => Newer(candidate, bootLevel.data)
    /\ caller = "efi_main" /\ secureBoot /\ pc = "return" /\ status = "ok"
          => level.present /\ level.good

(* The second update starts from a good level that is the enforced one.    *)
SecondUpdateInv ==
    /\ caller = "file" /\ pc \in {"policy", "clear", "level", "delete"} =>
          level.present /\ level.good
    /\ caller = "file" /\ pc \in {"policy", "clear", "level"} => sbat_var = {level.data}
    /\ caller = "file" /\ pc = "delete" => Newer(candidate, level.data)
    /\ caller = "file" /\ pc \in {"delete", "write", "readback"} =>
          sbat_var = {candidate} /\ ~Revoked(candidate, ShimSbat)
    /\ caller = "file" /\ pc \in {"delete", "write"} => Supersedes(candidate, Automatic)
    /\ caller = "file" /\ pc = "write" /\ bootLevel.present /\ bootLevel.good =>
          Newer(candidate, bootLevel.data)

WrittenInv ==
    /\ pc = "write" => ~level.present
    /\ pc = "readback" => level.present /\ level.data = candidate

(* pc values at which the enforced list is tied to the stored level.       *)
Enforcing ==
    \/ pc \in {"trust", "addons", "mok", "stage2", "os"}
    \/ pc = "return" /\ caller = "file"

EnforcedInv ==
    secureBoot /\ Enforcing =>
        /\ sbat_var # {}
        /\ level.present => \A p \in sbat_var : p = level.data \/ Newer(p, level.data)

(* efi_main's first update, or a good second one, has reached Automatic.   *)
AutomaticInv ==
    secureBoot /\ level.present /\ level.good
    /\ (\/ Enforcing
        \/ pc = "readback"
        \/ pc = "return" /\ status = "ok"
        \/ pc = "selfcheck"
        \/ caller = "file" /\ pc \in InSetSbat)
    => Supersedes(level.data, Automatic)

SelfCheckInv ==
    /\ pc \in {"selfcheck", "trust"} /\ secureBoot => level.present /\ level.good
    /\ pc = "trust" /\ secureBoot => sbat_var = {level.data}

(* Nothing accepted so far is refused by the enforced list.                *)
AcceptedInv ==
    /\ pc \in InSetSbat \cup {"return", "selfcheck", "trust"} => addons = {} /\ started = {}
    /\ pc \in {"addons", "mok", "stage2", "os"} /\ secureBoot =>
          \A s \in addons \cup started : \A p \in sbat_var : ~Revoked(p, s)

SafetyInv ==
    /\ TypeOK /\ CallerInv /\ CandidateInv /\ FirstUpdateInv /\ SecondUpdateInv
    /\ WrittenInv /\ EnforcedInv /\ AutomaticInv /\ SelfCheckInv /\ NoRollback
    /\ AcceptedInv
---------------------------------------------------------------------------
(* Type correctness                                                        *)

(* The payloads a caller passes are payloads.                              *)
LEMMA ArgsTyped ==
    ASSUME TypeOK, caller = "file" => rev # {}
    PROVE  ArgAutomatic \in Payloads /\ ArgLatest \in Payloads
<1>1. CASE caller = "file"
  <2>1. rev # {} /\ rev \subseteq RevFile
    BY <1>1, ConstantsAssumption DEF TypeOK
  <2>2. PICK f \in rev : f = CHOOSE g \in rev : TRUE
    BY <2>1
  <2>3. f \in RevFile
    BY <2>1, <2>2
  <2>4. f.automatic \in Payloads /\ f.latest \in Payloads
    BY <2>3 DEF RevFile
  <2> QED BY <1>1, <2>2, <2>4 DEF ArgAutomatic, ArgLatest
<1>2. CASE caller # "file"
  BY <1>2, ConstantsAssumption DEF ArgAutomatic, ArgLatest
<1> QED BY <1>1, <1>2

LEMMA StoredTyped ==
    /\ Absent \in StoredLevel
    /\ \A g \in BOOLEAN, p \in Payloads : [present |-> TRUE, good |-> g, data |-> p] \in StoredLevel
BY ConstantsAssumption DEF Absent, StoredLevel

LEMMA CandidateTyped ==
    ASSUME NEW policy, NEW secure, NEW a \in Payloads, NEW l \in Payloads
    PROVE  /\ Candidate(policy, secure, a, l) \in Payloads
           /\ IsReset(policy, secure) \in BOOLEAN
BY ConstantsAssumption DEF Candidate, IsReset

(* Type correctness needs only that the second update has a file.          *)
TypeInv == TypeOK /\ (pc \in BootSteps /\ caller = "file" => rev # {})

(* TypeInv is inductive.                                                   *)
LEMMA TypeInvariant == Spec => []TypeInv
<1>1. Init => TypeInv
  BY ConstantsAssumption DEF Init, TypeInv, TypeOK, StoredLevel, PolicyValue, BootSteps, Absent
<1>2. TypeInv /\ [Next]_vars => TypeInv'
  <2> SUFFICES ASSUME TypeInv, [Next]_vars PROVE TypeInv'
    OBVIOUS
  <2> USE DEF TypeInv, TypeOK, nv, env, call, Die, Return
  <2>1. CASE PowerOn
    <3>1. rev' \subseteq RevFiles
      BY <2>1 DEF PowerOn
    <3>2. candidate' \in Payloads
      BY <2>1, ConstantsAssumption DEF PowerOn
    <3> QED BY <2>1, <3>1, <3>2 DEF PowerOn, BootSteps
  <2>2. CASE ReadPolicy
    <3>1. caller = "file" => rev # {}
      BY <2>2 DEF ReadPolicy, BootSteps
    <3>2. ArgAutomatic \in Payloads /\ ArgLatest \in Payloads
      BY <3>1, ArgsTyped
    <3>3. \A p : Candidate(p, secure_mode, ArgAutomatic, ArgLatest) \in Payloads
                 /\ IsReset(p, secure_mode) \in BOOLEAN
      BY <3>2, CandidateTyped
    <3> QED BY <2>2, <3>1, <3>3 DEF ReadPolicy, Select, BootSteps
  <2>3. CASE clear_sbat_policy
    BY <2>3 DEF clear_sbat_policy, BootSteps
  <2>4. CASE ReadLevel
    BY <2>4 DEF ReadLevel, BootSteps
  <2>5. CASE DeleteLevel
    BY <2>5, StoredTyped DEF DeleteLevel, BootSteps
  <2>6. CASE WriteLevel
    BY <2>6, StoredTyped DEF WriteLevel, BootSteps
  <2>7. CASE ReadBack
    BY <2>7 DEF ReadBack, BootSteps
  <2>8. CASE ReturnToCaller
    BY <2>8 DEF ReturnToCaller, BootSteps
  <2>9. CASE SelfCheck
    BY <2>9 DEF SelfCheck, BootSteps, StoredLevel
  <2>10. CASE LoadUnbundledTrust
    <3>1. CASE netboot
      <4>1. rev \subseteq RevFile
        BY ConstantsAssumption
      <4>2. \A f \in rev : f.sbat \in Sections
        BY <4>1 DEF RevFile
      <4> QED BY <2>10, <3>1, <4>2 DEF LoadUnbundledTrust, BootSteps
    <3>2. CASE ~netboot
      BY <2>10, <3>2 DEF LoadUnbundledTrust, BootSteps
    <3> QED BY <3>1, <3>2
  <2>11. CASE AddonsDone \/ NoSecondStage \/ Reboot \/ PowerLoss
    BY <2>11 DEF AddonsDone, NoSecondStage, Reboot, PowerLoss, BootSteps
  <2>12. CASE ImportMokState
    BY <2>12 DEF ImportMokState, BootSteps
  <2>13. ASSUME NEW s \in Sections, LoadCertFile(s) PROVE TypeInv'
    BY <2>13 DEF LoadCertFile, BootSteps
  <2>14. ASSUME NEW s \in Sections, StartSecondStage(s) PROVE TypeInv'
    BY <2>14 DEF StartSecondStage, BootSteps
  <2>15. ASSUME NEW p \in PolicyValue, OsSetPolicy(p) PROVE TypeInv'
    BY <2>15 DEF OsSetPolicy, BootSteps
  <2>16. CASE UNCHANGED vars
    BY <2>16 DEF vars
  <2> QED
    BY <2>1, <2>2, <2>3, <2>4, <2>5, <2>6, <2>7, <2>8, <2>9, <2>10, <2>11,
       <2>12, <2>13, <2>14, <2>15, <2>16 DEF Next, ShimStep
<1> QED BY <1>1, <1>2, PTL DEF Spec

(* Every variable always has its declared type: no step of shim, of the    *)
(* firmware or of the running system stores anything else.                 *)
THEOREM TypeCorrect == Spec => []TypeOK
<1>1. TypeInv => TypeOK
  BY DEF TypeInv
<1> QED BY <1>1, TypeInvariant, PTL

---------------------------------------------------------------------------
(* The order on payloads                                                   *)

LEMMA PayloadFields ==
    ASSUME NEW p \in Payloads
    PROVE  p.version \in Nat /\ p.date \in Nat
BY ConstantsAssumption DEF Payload

LEMMA NewerTransitive ==
    ASSUME NEW p \in Payloads, NEW q \in Payloads, NEW r \in Payloads,
           Newer(q, p), Newer(r, q)
    PROVE  Newer(r, p)
BY PayloadFields DEF Newer, Supersedes

LEMMA SupersedesNewer ==
    ASSUME NEW p \in Payloads, NEW q \in Payloads, NEW a \in Payloads,
           Supersedes(p, a), Newer(q, p)
    PROVE  Supersedes(q, a)
BY PayloadFields DEF Newer, Supersedes

LEMMA SupersedesBuiltin ==
    ASSUME NEW p \in Payloads, NEW c \in {Automatic, Latest}, Supersedes(p, c)
    PROVE  Supersedes(p, Automatic)
BY PayloadFields, BuiltinAssumption, ConstantsAssumption DEF Supersedes

LEMMA BuiltinSupersedes ==
    ASSUME NEW c \in {Automatic, Latest}
    PROVE  Supersedes(c, Automatic)
BY PayloadFields, BuiltinAssumption, ConstantsAssumption DEF Supersedes

---------------------------------------------------------------------------
(* The inductive invariant behind the safety properties                    *)

LEMMA SafetyInit == Init => SafetyInv
<1> SUFFICES ASSUME Init PROVE SafetyInv
  OBVIOUS
<1>1. TypeOK
  BY ConstantsAssumption DEF Init, TypeOK, StoredLevel, PolicyValue, BootSteps, Absent
<1> QED BY <1>1 DEF SafetyInv, Init, CallerInv, CandidateInv, FirstUpdateInv, SecondUpdateInv,
              WrittenInv, EnforcedInv, Enforcing, AutomaticInv, SelfCheckInv, NoRollback, AcceptedInv,
              BootSteps, InSetSbat

LEMMA SafetyStep ==
    ASSUME ReadsWork, SafetyInv, TypeOK', [Next]_vars
    PROVE  SafetyInv'
<1> USE DEF nv, env, call, Die, Return, MayFail, ReadsWork, CanRead, BootSteps, InSetSbat,
            CallerInv, CandidateInv, FirstUpdateInv, SecondUpdateInv, WrittenInv, EnforcedInv,
            Enforcing, AutomaticInv, SelfCheckInv, NoRollback, AcceptedInv, SafetyInv, secure_mode
<1>0. /\ status \in {"ok", "error"} /\ caller \in {"efi_main", "file"}
      /\ level \in StoredLevel /\ bootLevel \in StoredLevel /\ candidate \in Payloads
      /\ level.data \in Payloads /\ bootLevel.data \in Payloads
  BY DEF TypeOK, StoredLevel
<1>1. CASE PowerOn
  BY <1>1 DEF PowerOn
<1>2. CASE ReadPolicy
  <2>1. caller = "efi_main" => \A p : Candidate(p, secureBoot, ArgAutomatic, ArgLatest)
                                        \in {Original, Automatic, Latest}
    BY DEF Candidate, ArgAutomatic, ArgLatest
  <2>2. secureBoot => \A p : ~IsReset(p, secureBoot)
    BY DEF IsReset
  <2>3. caller = "efi_main" /\ secureBoot => \A p :
            Candidate(p, secureBoot, ArgAutomatic, ArgLatest) \in {Automatic, Latest}
    BY <2>2 DEF Candidate, ArgAutomatic, ArgLatest
  <2>4. PICK p : Select(p) /\ pc' \in {"clear", "level"}
    BY <1>2 DEF ReadPolicy
  <2>5. (secureBoot /\ ~insecure) = secureBoot
    BY <1>2 DEF ReadPolicy, TypeOK
  <2>6. /\ candidate' = Candidate(p, secureBoot, ArgAutomatic, ArgLatest)
        /\ reset_sbat' = IsReset(p, secureBoot)
    BY <2>4, <2>5 DEF Select
  <2>7. /\ caller = "efi_main" => candidate' \in {Original, Automatic, Latest}
        /\ caller = "efi_main" /\ secureBoot => candidate' \in {Automatic, Latest}
        /\ secureBoot => ~reset_sbat'
    BY <2>1, <2>2, <2>3, <2>6
  <2> QED BY <1>2, <2>4, <2>7 DEF ReadPolicy
<1>3. CASE clear_sbat_policy
  BY <1>3 DEF clear_sbat_policy
<1>4. CASE ReadLevel
  <2> USE <1>0
  <2>1. CASE ~level.present /\ pc' = "write" /\ UNCHANGED <<status, sbat_var>>
    BY <1>4, <2>1 DEF ReadLevel
  <2>2. CASE /\ level.present
             /\ preserve_sbat_uefi_variable(level, candidate) /\ ~reset_sbat
             /\ Return("ok") /\ UNCHANGED sbat_var
    <3>1. level.good /\ Supersedes(level.data, candidate)
      BY <2>2 DEF preserve_sbat_uefi_variable
    <3>2. caller = "efi_main" /\ secureBoot => Supersedes(level.data, Automatic)
      BY <1>4, <3>1, SupersedesBuiltin DEF ReadLevel
    <3> QED BY <1>4, <2>2, <3>1, <3>2 DEF ReadLevel
  <2>3. CASE /\ level.present
             /\ ~preserve_sbat_uefi_variable(level, candidate) \/ reset_sbat
             /\ Return("error") /\ UNCHANGED sbat_var
    BY <1>4, <2>3 DEF ReadLevel
  <2>4. CASE /\ level.present
             /\ ~preserve_sbat_uefi_variable(level, candidate) \/ reset_sbat
             /\ sbat_var' = {candidate}
             /\ \/ Return("error")
                \/ pc' = "delete" /\ ~Revoked(candidate, ShimSbat)
    <3>1. secureBoot /\ level.good => Newer(candidate, level.data)
      BY <1>4, <2>4 DEF ReadLevel, preserve_sbat_uefi_variable, Newer
    <3>2. secureBoot /\ caller = "file" => Supersedes(candidate, Automatic)
      BY <1>4, <3>1, SupersedesNewer, ConstantsAssumption DEF ReadLevel
    <3> QED BY <1>4, <2>4, <3>1, <3>2 DEF ReadLevel
  <2> QED BY <1>4, <2>1, <2>2, <2>3, <2>4 DEF ReadLevel
<1>5. CASE DeleteLevel
  <2> USE <1>0
  <2>1. CASE level' = Absent /\ pc' = "write"
    <3>1. ~Absent.present
      BY DEF Absent
    <3>2. caller = "file" /\ bootLevel.present /\ bootLevel.good => Newer(candidate, bootLevel.data)
      BY <1>5, NewerTransitive DEF DeleteLevel, Newer
    <3> QED BY <1>5, <2>1, <3>1, <3>2 DEF DeleteLevel
  <2>2. CASE Return("error") /\ UNCHANGED level
    <3>1. caller = "file" => sbat_var = {candidate} /\ Newer(candidate, level.data)
      BY <1>5 DEF DeleteLevel
    <3> QED BY <1>5, <2>2, <3>1 DEF DeleteLevel
  <2> QED BY <1>5, <2>1, <2>2 DEF DeleteLevel
<1>6. CASE WriteLevel
  <2> USE <1>0
  <2>1. CASE UNCHANGED level
    BY <1>6, <2>1 DEF WriteLevel
  <2>2. CASE /\ pc' = "readback" /\ UNCHANGED status
             /\ \E g \in BOOLEAN : level' = [present |-> TRUE, good |-> g, data |-> candidate]
    <3>1. level'.present /\ level'.data = candidate
      BY <2>2
    <3>2. secureBoot => Supersedes(candidate, Automatic)
      BY <1>6, BuiltinSupersedes DEF WriteLevel
    <3>3. secureBoot /\ bootLevel.present /\ bootLevel.good => Newer(candidate, bootLevel.data)
      BY <1>6 DEF WriteLevel
    <3> QED BY <1>6, <2>2, <3>1, <3>2, <3>3 DEF WriteLevel, Newer
  <2> QED BY <1>6, <2>1, <2>2 DEF WriteLevel
<1>7. CASE ReadBack
  BY <1>7 DEF ReadBack
<1>8. CASE ReturnToCaller
  BY <1>0, <1>8 DEF ReturnToCaller
<1>9. CASE SelfCheck
  BY <1>0, <1>9 DEF SelfCheck
<1>10. CASE LoadUnbundledTrust
  <2>1. CASE netboot
    <3>1. secureBoot => \A s \in addons' : \A p \in sbat_var : ~Revoked(p, s)
      BY <1>10, <2>1 DEF LoadUnbundledTrust, Accepts
    <3> QED BY <1>0, <1>10, <2>1, <3>1 DEF LoadUnbundledTrust
  <2>2. CASE ~netboot
    <3>1. secureBoot => sbat_var = {level.data}
      BY <1>10 DEF LoadUnbundledTrust
    <3> QED BY <1>0, <1>10, <2>2, <3>1 DEF LoadUnbundledTrust
  <2> QED BY <2>1, <2>2
<1>11. CASE AddonsDone \/ NoSecondStage \/ Reboot \/ PowerLoss
  BY <1>11 DEF AddonsDone, NoSecondStage, Reboot, PowerLoss
<1>12. CASE ImportMokState
  BY <1>12 DEF ImportMokState
<1>13. ASSUME NEW s \in Sections, LoadCertFile(s) PROVE SafetyInv'
  BY <1>0, <1>13 DEF LoadCertFile, Accepts
<1>14. ASSUME NEW s \in Sections, StartSecondStage(s) PROVE SafetyInv'
  <2>1. secureBoot => \A t \in addons' \cup started' : \A p \in sbat_var : ~Revoked(p, t)
    BY <1>14 DEF StartSecondStage, Accepts
  <2> QED BY <1>0, <1>14, <2>1 DEF StartSecondStage
<1>15. ASSUME NEW p \in PolicyValue, OsSetPolicy(p) PROVE SafetyInv'
  BY <1>15 DEF OsSetPolicy
<1>16. CASE UNCHANGED vars
  BY <1>16 DEF vars
<1> QED
  BY <1>1, <1>2, <1>3, <1>4, <1>5, <1>6, <1>7, <1>8, <1>9, <1>10, <1>11, <1>12,
     <1>13, <1>14, <1>15, <1>16 DEF Next, ShimStep

LEMMA SafetyInvariant == ReadsWork => (Spec => []SafetyInv)
<1> SUFFICES ASSUME ReadsWork PROVE Spec => []SafetyInv
  OBVIOUS
<1>1. SafetyInv /\ TypeInv' /\ [Next]_vars => SafetyInv'
  BY SafetyStep DEF TypeInv
<1> QED BY SafetyInit, <1>1, TypeInvariant, PTL DEF Spec

(* No rollback: while reads work, a secure boot never replaces the level   *)
(* it found by an older one, for every policy request, revocations.efi,    *)
(* failed or torn write and power cut.                                     *)
THEOREM LevelNeverRolledBack == ReadsWork => (Spec => []NoRollback)
<1>1. SafetyInv => NoRollback
  BY DEF SafetyInv
<1> QED BY <1>1, SafetyInvariant, PTL

(* What shim enforces in memory is the stored level or a newer one.        *)
THEOREM EnforcedIsCurrent == ReadsWork => (Spec => []EnforcedNotOlder)
<1>1. SafetyInv => EnforcedNotOlder
  BY DEF SafetyInv, EnforcedInv, Enforcing, EnforcedNotOlder, secure_mode, Newer
<1> QED BY <1>1, SafetyInvariant, PTL

(* The invariant for a "latest" request, on top of SafetyInv: the policy   *)
(* is read once, the first update then works on Latest, and the second one *)
(* only goes up from there.                                                *)
LatestDone ==
    \/ pc = "readback"
    \/ pc = "return" /\ (caller = "file" \/ status = "ok")
    \/ pc = "selfcheck"
    \/ pc \in {"trust", "addons", "mok", "stage2", "os"} /\ (secureBoot \/ status = "ok")
    \/ caller = "file" /\ pc \in InSetSbat

LatestInv ==
    /\ sbat_policy = "notread" /\ pc \in BootSteps \ {"os"} /\ (pc # "policy" \/ caller = "file")
          => policyVar = "none"
    /\ sbat_policy = "latest" /\ caller = "efi_main" /\ pc \in InSetSbat \ {"policy"}
          => candidate = Latest
    /\ sbat_policy = "latest" /\ caller = "file" /\ pc \in {"delete", "write", "readback"}
          => Supersedes(candidate, Latest)
    /\ sbat_policy = "latest" /\ LatestDone /\ level.present /\ level.good
          => Supersedes(level.data, Latest)

LEMMA LatestStep ==
    ASSUME ReadsWork, SafetyInv, LatestInv, TypeOK', [Next]_vars
    PROVE  LatestInv'
<1> USE DEF nv, env, call, Die, Return, MayFail, ReadsWork, CanRead, BootSteps, InSetSbat,
            LatestDone, LatestInv
<1>0. /\ status \in {"ok", "error"} /\ caller \in {"efi_main", "file"}
      /\ level.data \in Payloads /\ candidate \in Payloads /\ Latest \in Payloads
  BY ConstantsAssumption DEF SafetyInv, TypeOK, StoredLevel
<1>a. Supersedes(Latest, Latest)
  BY <1>0, PayloadFields DEF Supersedes
<1>b. SecondUpdateInv /\ CallerInv /\ WrittenInv
  BY DEF SafetyInv
<1>1. CASE PowerOn
  BY <1>1 DEF PowerOn
<1>2. CASE ReadPolicy
  <2>1. caller = "efi_main" => Candidate("latest", secure_mode, ArgAutomatic, ArgLatest) = Latest
    BY DEF Candidate, ArgLatest
  <2>2. PICK p : Select(p) /\ pc' \in {"clear", "level"} /\ (p = sbat_policy' \/ sbat_policy' = "notread")
    BY <1>2 DEF ReadPolicy
  <2>3. sbat_policy' = "latest" /\ caller = "efi_main" => candidate' = Latest
    BY <2>1, <2>2 DEF Select
  <2>4. caller = "file" => sbat_policy' = sbat_policy
    BY <1>2 DEF ReadPolicy
  <2>5. policyVar # "notread"
    BY DEF SafetyInv, TypeOK, PolicyValue
  <2> QED BY <1>0, <1>2, <2>2, <2>3, <2>4, <2>5 DEF ReadPolicy
<1>3. CASE clear_sbat_policy
  BY <1>3 DEF clear_sbat_policy
<1>4. CASE ReadLevel
  <2> USE <1>0, <1>b
  <2>1. CASE pc' = "write" /\ ~level.present
    BY <1>4, <2>1 DEF ReadLevel, SecondUpdateInv
  <2>2. CASE pc' = "return" /\ status' = "ok" /\ level.good /\ Supersedes(level.data, candidate)
    BY <1>4, <2>2 DEF ReadLevel
  <2>3. CASE pc' = "return" /\ status' = "error"
    BY <1>4, <2>3 DEF ReadLevel
  <2>4. CASE pc' = "delete" /\ level.present /\ (~preserve_sbat_uefi_variable(level, candidate) \/ reset_sbat)
    <3>1. caller = "file" => level.good /\ Newer(candidate, level.data)
      BY <1>4, <2>4 DEF ReadLevel, preserve_sbat_uefi_variable, Newer, SecondUpdateInv,
                       SafetyInv, CandidateInv, CallerInv
    <3>2. caller = "file" /\ sbat_policy = "latest" => Supersedes(candidate, Latest)
      BY <1>4, <2>4, <3>1, SupersedesNewer DEF ReadLevel
    <3> QED BY <1>4, <2>4, <3>2 DEF ReadLevel
  <2> QED BY <1>4, <2>1, <2>2, <2>3, <2>4 DEF ReadLevel, preserve_sbat_uefi_variable
<1>5. CASE DeleteLevel
  BY <1>0, <1>5 DEF DeleteLevel, Absent
<1>6. CASE WriteLevel
  BY <1>0, <1>a, <1>b, <1>6 DEF WriteLevel, WrittenInv
<1>7. CASE ReadBack
  BY <1>0, <1>7 DEF ReadBack
<1>8. CASE ReturnToCaller
  BY <1>0, <1>b, <1>8 DEF ReturnToCaller, CallerInv, secure_mode
<1>9. CASE SelfCheck
  BY <1>0, <1>b, <1>9 DEF SelfCheck, CallerInv
<1>10. CASE LoadUnbundledTrust
  BY <1>0, <1>b, <1>10 DEF LoadUnbundledTrust, secure_mode, CallerInv
<1>11. CASE AddonsDone \/ NoSecondStage \/ Reboot \/ PowerLoss
  BY <1>11 DEF AddonsDone, NoSecondStage, Reboot, PowerLoss
<1>12. CASE ImportMokState
  BY <1>12 DEF ImportMokState
<1>13. ASSUME NEW s \in Sections, LoadCertFile(s) PROVE LatestInv'
  BY <1>13 DEF LoadCertFile
<1>14. ASSUME NEW s \in Sections, StartSecondStage(s) PROVE LatestInv'
  BY <1>14 DEF StartSecondStage
<1>15. ASSUME NEW p \in PolicyValue, OsSetPolicy(p) PROVE LatestInv'
  BY <1>15 DEF OsSetPolicy
<1>16. CASE UNCHANGED vars
  BY <1>16 DEF vars
<1> QED
  BY <1>1, <1>2, <1>3, <1>4, <1>5, <1>6, <1>7, <1>8, <1>9, <1>10, <1>11, <1>12,
     <1>13, <1>14, <1>15, <1>16 DEF Next, ShimStep

(* Past efi_main's update a secure boot has at least the automatic level,  *)
(* and a boot that was asked for the latest level has that one.            *)
THEOREM RequestReached == ReadsWork => (Spec => []AtLeastRequested)
<1> SUFFICES ASSUME ReadsWork PROVE Spec => []AtLeastRequested
  OBVIOUS
<1>1. Init => LatestInv
  BY DEF Init, LatestInv, LatestDone, BootSteps, InSetSbat
<1>2. SafetyInv /\ LatestInv /\ TypeInv' /\ [Next]_vars => LatestInv'
  BY LatestStep DEF TypeInv
<1>3. SafetyInv /\ LatestInv => AtLeastRequested
  BY DEF SafetyInv, AutomaticInv, Enforcing, LatestInv, LatestDone, AtLeastRequested
<1> QED BY <1>1, <1>2, <1>3, SafetyInvariant, TypeInvariant, PTL DEF Spec

---------------------------------------------------------------------------
(* Every step of shim, of the firmware and of the operating system is a    *)
(* step of the abstract store, or leaves what it sees alone.               *)
LEMMA StoreStep ==
    ASSUME SafetyInv, [Next]_vars
    PROVE  [Store!StoreNext]_(Store!storeVars)
<1> USE DEF Store!storeVars, Usable
<1>0. level \in StoredLevel /\ level.data \in Payloads /\ candidate \in Payloads
  BY DEF SafetyInv, TypeOK, StoredLevel
<1>1. CASE PowerOn
  BY <1>1 DEF PowerOn, nv, Store!StoreNext, Store!Start
<1>2. CASE DeleteLevel
  <2>1. CASE level' = Absent
    BY <1>2, <2>1 DEF DeleteLevel, env, Absent, Store!StoreNext, Store!Remove
  <2>2. CASE UNCHANGED level
    BY <1>2, <2>2 DEF DeleteLevel, env
  <2> QED BY <1>2, <2>1, <2>2 DEF DeleteLevel
<1>3. CASE WriteLevel
  <2>1. UNCHANGED <<bootLevel, secureBoot>> /\ pc = "write" /\ ~level.present
    BY <1>3 DEF WriteLevel, env, SafetyInv, WrittenInv
  <2>2. CASE level' = [present |-> TRUE, good |-> TRUE, data |-> candidate]
    <3>1. secureBoot /\ bootLevel.present /\ bootLevel.good => Newer(candidate, bootLevel.data)
      BY <2>1 DEF SafetyInv, FirstUpdateInv, SecondUpdateInv, TypeOK
    <3>2. Store!Install(candidate)
      BY <2>1, <2>2, <3>1 DEF Store!Install
    <3> QED BY <1>0, <3>2 DEF Store!StoreNext
  <2>3. CASE level' = [present |-> TRUE, good |-> FALSE, data |-> candidate]
    BY <2>1, <2>3 DEF Store!StoreNext, Store!Remove
  <2>4. CASE UNCHANGED level
    BY <2>1, <2>4
  <2> QED BY <1>3, <2>2, <2>3, <2>4 DEF WriteLevel
<1>4. CASE UNCHANGED <<level, bootLevel, secureBoot>>
  BY <1>4
<1>5. PowerOn \/ DeleteLevel \/ WriteLevel \/ UNCHANGED <<level, bootLevel, secureBoot>>
  BY DEF Next, ShimStep, Reboot, PowerLoss, OsSetPolicy, ReadPolicy, clear_sbat_policy,
         ReadLevel, ReadBack, ReturnToCaller, SelfCheck, LoadUnbundledTrust, AddonsDone,
         ImportMokState, LoadCertFile, StartSecondStage, NoSecondStage, nv, env, vars
<1> QED BY <1>1, <1>2, <1>3, <1>4, <1>5

(* SbatLevel implements the abstract revocation store, while reads work.   *)
THEOREM ImplementsStore == ReadsWork => (Spec => LevelStore)
<1> SUFFICES ASSUME ReadsWork PROVE Spec => LevelStore
  OBVIOUS
<1>1. Init => Store!StoreInit
  BY DEF Init, Store!StoreInit, Store!AtMostOne, Usable, StoredLevel
<1>2. SafetyInv /\ [Next]_vars => [Store!StoreNext]_(Store!storeVars)
  BY StoreStep
<1> QED BY <1>1, <1>2, SafetyInvariant, PTL DEF Spec, LevelStore, Store!StoreSpec

---------------------------------------------------------------------------
(* If published payloads are cumulative, nothing that shim accepted in     *)
(* secure mode is revoked by the level stored at the end of the boot.      *)
THEOREM NothingRevokedRuns == ReadsWork /\ Cumulative => (Spec => []RunningNotRevoked)
<1> SUFFICES ASSUME ReadsWork, Cumulative PROVE Spec => []RunningNotRevoked
  OBVIOUS
<1>1. SafetyInv => RunningNotRevoked
  <2> SUFFICES ASSUME SafetyInv, pc \in {"mok", "stage2", "os"}, secureBoot, level.present,
                      NEW s \in addons \cup started
               PROVE  ~Revoked(level.data, s)
    BY DEF RunningNotRevoked
  <2>1. PICK p \in sbat_var : p = level.data \/ Newer(p, level.data)
    BY DEF SafetyInv, EnforcedInv, Enforcing
  <2>2. ~Revoked(p, s)
    BY <2>1 DEF SafetyInv, AcceptedInv
  <2>3. s \in Sections /\ p \in Payloads /\ level.data \in Payloads
    BY <2>1 DEF SafetyInv, TypeOK, StoredLevel
  <2> QED BY <2>1, <2>2, <2>3 DEF Cumulative, Newer
<1> QED BY <1>1, SafetyInvariant, PTL

(* Shim never writes a level that revokes itself: built-in payloads do not *)
(* by assumption, and a payload of revocations.efi is checked first.       *)
THEOREM ShimNeverRevokesItself == ReadsWork => (Spec => NeverSelfRevokes)
<1> SUFFICES ASSUME ReadsWork PROVE Spec => NeverSelfRevokes
  OBVIOUS
<1> DEFINE Safe == level' # level /\ level'.present => ~Revoked(level'.data, ShimSbat)
<1>1. SafetyInv /\ [Next]_vars => [Safe]_vars
  <2> SUFFICES ASSUME SafetyInv, Next, level' # level, level'.present
               PROVE  ~Revoked(level'.data, ShimSbat)
    BY DEF vars
  <2>1. DeleteLevel \/ WriteLevel
    BY DEF Next, ShimStep, PowerOn, Reboot, PowerLoss, OsSetPolicy, ReadPolicy, clear_sbat_policy,
           ReadLevel, ReadBack, ReturnToCaller, SelfCheck, LoadUnbundledTrust, AddonsDone,
           ImportMokState, LoadCertFile, StartSecondStage, NoSecondStage, nv
  <2>2. ~DeleteLevel
    BY DEF DeleteLevel, Absent
  <2>3. pc = "write" /\ level'.data = candidate
    BY <2>1, <2>2 DEF WriteLevel
  <2>4. CASE caller = "file"
    BY <2>3, <2>4 DEF SafetyInv, SecondUpdateInv
  <2>5. CASE caller = "efi_main"
    BY <2>3, <2>5, BuiltinAssumption DEF SafetyInv, CandidateInv, InSetSbat
  <2> QED BY <2>4, <2>5 DEF SafetyInv, TypeOK
<1> QED BY <1>1, SafetyInvariant, PTL DEF Spec, NeverSelfRevokes
=============================================================================
