----------------------------- MODULE SbatLevel -----------------------------
(***************************************************************************)
(* The life of the SbatLevel revocation level over many boots: sbat.c      *)
(* (set_sbat_uefi_variable and what it calls), the part of efi_main that   *)
(* drives it, and load_unbundled_trust, which calls it a second time with  *)
(* the payloads of revocations.efi.                                        *)
(*                                                                         *)
(* level and policyVar live in non-volatile storage; the other variables   *)
(* are shim's memory, lost at every power cycle.  Each firmware call that  *)
(* changes the store is a step of its own, so a power cut may fall between *)
(* any two of them.  Faults names the ways the firmware may fail.          *)
(***************************************************************************)
EXTENDS Integers, FiniteSets

CONSTANTS
    Component,     \* component names of SBAT entries
    Payloads,      \* the SbatLevel payloads that exist
    Original,      \* SBAT_VAR_ORIGINAL
    Automatic,     \* the automatic payload built into this shim
    Latest,        \* the latest payload built into this shim
    ShimSbat,      \* this shim's own .sbat section
    Sections,      \* .sbat sections of second stages and add-on files
    RevFiles,      \* revocations.efi files that may be on the boot medium
    Faults         \* subset of FaultKinds the environment may inject

UINT16 == 0 .. 65535

(* A payload after parse_sbat_var_data: gens[c] is the UINT16 generation   *)
(* required of component c, 0 when the payload has no row for c (a row     *)
(* asking for generation 0 and a missing row both refuse nothing).         *)
Payload == [ok : BOOLEAN, version : Nat, date : Nat, gens : [Component -> UINT16]]

(* An image's .sbat section; comps are the components it has a row for.    *)
Section == [present : BOOLEAN, comps : SUBSET Component, gen : [Component -> UINT16]]

(* A revocations.efi: whether its signature verifies, its own .sbat        *)
(* section, whether it carries both .sbata and .sbatl, and their payloads. *)
RevFile == [authentic : BOOLEAN, sbat : Sections, both : BOOLEAN,
            automatic : Payloads, latest : Payloads]

FaultKinds == {"read", "delete", "write", "corrupt", "crash"}

(* The SbatLevel variable: good says that its attributes, size and "sbat," *)
(* prefix are the expected ones.                                           *)
StoredLevel == [present : BOOLEAN, good : BOOLEAN, data : Payloads]
Absent      == [present |-> FALSE, good |-> FALSE, data |-> Original]

(* The SbatPolicy byte; "none" when the variable does not exist.           *)
PolicyValue == {"latest", "automatic", "reset", "invalid"}

---------------------------------------------------------------------------
(* Pure parts of sbat.c                                                    *)

(* verify_sbat_section outside the shim_lock protocol.                     *)
Revoked(p, s) ==
    \/ ~s.present
    \/ \E c \in s.comps : s.gen[c] < p.gens[c]

(* The comparison of preserve_sbat_uefi_variable: p is kept when q is the  *)
(* candidate.                                                              *)
Supersedes(p, q) == p.version > q.version \/ p.date >= q.date

(* Mutant: the datestamps are not compared.                                *)
PreserveIgnoresDate(stored, candidate_) ==
    stored.good /\ stored.data.version > candidate_.version

preserve_sbat_uefi_variable(stored, candidate_) ==
    stored.good /\ Supersedes(stored.data, candidate_)

(* set_sbat_uefi_variable resets the level; policy is "none" when          *)
(* SbatPolicy could not be read.                                           *)
IsReset(policy, secure) ==
    ~secure /\ policy \in {"none", "reset", "invalid"}

(* Mutant: "latest" selects the automatic payload.                         *)
CandidateNeverLatest(policy, secure, automatic, latest) ==
    IF IsReset(policy, secure) THEN Original ELSE automatic

(* The payload it selects.                                                 *)
Candidate(policy, secure, automatic, latest) ==
    IF policy = "latest" THEN latest
    ELSE IF IsReset(policy, secure) THEN Original
    ELSE automatic

ASSUME ConstantsAssumption ==
    /\ Payloads \subseteq Payload
    /\ {Original, Automatic, Latest} \subseteq Payloads
    /\ ShimSbat \in Section
    /\ Sections \subseteq Section
    /\ RevFiles \subseteq RevFile
    /\ Faults \subseteq FaultKinds

(* What the build guarantees of the payloads compiled into shim: they      *)
(* parse, do not revoke the shim that carries them, and latest is not      *)
(* older than automatic.                                                   *)
ASSUME BuiltinAssumption ==
    /\ \A p \in {Original, Automatic, Latest} : p.ok /\ ~Revoked(p, ShimSbat)
    /\ Latest.version >= Automatic.version
    /\ Latest.date >= Automatic.date

---------------------------------------------------------------------------
VARIABLES
    level,        \* NV: SbatLevel
    policyVar,    \* NV: SbatPolicy
    pc,           \* the step shim is about to take; "off" between boots
    secureBoot,   \* SecureBoot = 1 and SetupMode = 0 for this boot
    insecure,     \* user_insecure_mode
    netboot,      \* booted from a medium without a file system
    rev,          \* revocations.efi on the medium: a set of at most one file
    caller,       \* who called set_sbat_uefi_variable: efi_main or the file
    status,       \* its EFI_STATUS
    sbat_policy,  \* the cached policy byte, "notread" initially
    candidate,    \* sbat_var_candidate
    reset_sbat,   \* reset_sbat
    sbat_var,     \* the list images are verified against: a set of <= 1 payload
    addons,       \* sections of the add-on files accepted in this boot
    started,      \* sections of the second stages started in secure mode
    bootLevel     \* history: SbatLevel as it was when this boot began

nv   == <<level, policyVar>>
env  == <<secureBoot, netboot, rev>>
call == <<caller, status, sbat_policy, candidate, reset_sbat>>
vars == <<level, policyVar, pc, secureBoot, insecure, netboot, rev, caller,
          status, sbat_policy, candidate, reset_sbat, sbat_var, addons,
          started, bootLevel>>

BootSteps == {"policy", "clear", "level", "delete", "write", "readback",
              "return", "selfcheck", "trust", "addons", "mok", "stage2", "os"}

TypeOK ==
    /\ level \in StoredLevel
    /\ policyVar \in PolicyValue \cup {"none"}
    /\ pc \in BootSteps \cup {"off"}
    /\ secureBoot \in BOOLEAN
    /\ insecure \in BOOLEAN
    /\ netboot \in BOOLEAN
    /\ rev \subseteq RevFiles
    /\ caller \in {"efi_main", "file"}
    /\ status \in {"ok", "error"}
    /\ sbat_policy \in PolicyValue \cup {"notread"}
    /\ candidate \in Payloads
    /\ reset_sbat \in BOOLEAN
    /\ sbat_var \subseteq Payloads
    /\ addons \subseteq Sections
    /\ started \subseteq Sections
    /\ bootLevel \in StoredLevel

secure_mode == secureBoot /\ ~insecure

(* The level read by get_variable_attr is usable.                          *)
CanRead   == level.present
MayFail(f) == f \in Faults

(* verify_image as far as SBAT goes: in secure mode the image must not be  *)
(* revoked by the list in memory (one that does not parse to any row       *)
(* refuses nothing); otherwise everything is accepted.                     *)
Accepts(s) == secure_mode => \A p \in sbat_var : ~Revoked(p, s)

---------------------------------------------------------------------------
Init ==
    /\ level \in StoredLevel
    /\ level.present \/ level = Absent
    /\ policyVar \in PolicyValue \cup {"none"}
    /\ pc = "off"
    /\ secureBoot = FALSE /\ insecure = FALSE /\ netboot = FALSE
    /\ rev = {}
    /\ caller = "efi_main" /\ status = "ok"
    /\ sbat_policy = "notread"
    /\ candidate = Original /\ reset_sbat = FALSE
    /\ sbat_var = {}
    /\ addons = {} /\ started = {}
    /\ bootLevel = level

(* The machine starts: memory is fresh, the firmware hands over Secure     *)
(* Boot state and boot medium, and efi_main calls                          *)
(* set_sbat_uefi_variable_internal.                                        *)
PowerOn ==
    /\ pc = "off"
    /\ pc' = "policy"
    /\ secureBoot' \in BOOLEAN
    /\ netboot' \in BOOLEAN
    /\ rev' \in {{}} \cup {{f} : f \in RevFiles}
    /\ insecure' = FALSE
    /\ caller' = "efi_main" /\ status' = "ok"
    /\ sbat_policy' = "notread"
    /\ candidate' = Original /\ reset_sbat' = FALSE
    /\ sbat_var' = {}
    /\ addons' = {} /\ started' = {}
    /\ bootLevel' = level
    /\ UNCHANGED nv

(* The payloads the caller of set_sbat_uefi_variable passes.               *)
ArgAutomatic == IF caller = "file" THEN (CHOOSE f \in rev : TRUE).automatic ELSE Automatic
ArgLatest    == IF caller = "file" THEN (CHOOSE f \in rev : TRUE).latest ELSE Latest

Select(policy) ==
    /\ candidate' = Candidate(policy, secure_mode, ArgAutomatic, ArgLatest)
    /\ reset_sbat' = IsReset(policy, secure_mode)

(* set_sbat_uefi_variable up to the choice of the candidate.  A policy     *)
(* byte read once in this boot is reused by the second call.               *)
ReadPolicy ==
    /\ pc = "policy"
    /\ \/ /\ sbat_policy # "notread"
          /\ Select(sbat_policy)
          /\ pc' = "level"
          /\ UNCHANGED sbat_policy
       \/ /\ sbat_policy = "notread" /\ policyVar # "none"
          /\ sbat_policy' = policyVar
          /\ Select(policyVar)
          /\ pc' = "clear"
       \/ /\ sbat_policy = "notread"
          /\ policyVar = "none" \/ MayFail("read")
          /\ Select("none")
          /\ pc' = "level"
          /\ UNCHANGED sbat_policy
    /\ UNCHANGED <<nv, env, insecure, caller, status, sbat_var, addons, started, bootLevel>>

(* Mutant: the policy is overwritten with POLICY_NOTREAD, not deleted.     *)
ClearWritesNotRead ==
    /\ pc = "clear"
    /\ pc' = "level"
    /\ policyVar' = "notread"
    /\ UNCHANGED <<level, env, insecure, call, sbat_var, addons, started, bootLevel>>

(* clear_sbat_policy: the request is dropped as soon as it has been read;  *)
(* a failure is only reported.                                             *)
clear_sbat_policy ==
    /\ pc = "clear"
    /\ pc' = "level"
    /\ \/ policyVar' = "none"
       \/ MayFail("delete") /\ UNCHANGED policyVar
    /\ UNCHANGED <<level, env, insecure, call, sbat_var, addons, started, bootLevel>>

Return(s) == pc' = "return" /\ status' = s

(* Mutant: the candidate is parsed into a scratch list.                    *)
ReadLevelScratch ==
    /\ pc = "level"
    /\ IF ~CanRead THEN pc' = "write" /\ UNCHANGED status
       ELSE IF preserve_sbat_uefi_variable(level, candidate) /\ ~reset_sbat THEN Return("ok")
       ELSE IF ~candidate.ok \/ Revoked(candidate, ShimSbat) THEN Return("error")
       ELSE pc' = "delete" /\ UNCHANGED status
    /\ UNCHANGED <<nv, env, insecure, caller, sbat_policy, candidate, reset_sbat,
                   sbat_var, addons, started, bootLevel>>

(* Mutant: shim's own section is not checked against the candidate.        *)
ReadLevelNoSelfCheck ==
    /\ pc = "level"
    /\ IF ~CanRead THEN pc' = "write" /\ UNCHANGED <<status, sbat_var>>
       ELSE IF preserve_sbat_uefi_variable(level, candidate) /\ ~reset_sbat
            THEN Return("ok") /\ UNCHANGED sbat_var
       ELSE IF ~candidate.ok THEN Return("error") /\ UNCHANGED sbat_var
       ELSE sbat_var' = {candidate} /\ pc' = "delete" /\ UNCHANGED status
    /\ UNCHANGED <<nv, env, insecure, caller, sbat_policy, candidate, reset_sbat,
                   addons, started, bootLevel>>

(* Reading SbatLevel and deciding: an unreadable level is written at once, *)
(* a level at least as new is preserved, anything else is replaced after   *)
(* the candidate was parsed into sbat_var and found not to revoke shim.    *)
ReadLevel ==
    /\ pc = "level"
    /\ \/ /\ ~CanRead \/ MayFail("read")
          /\ pc' = "write"
          /\ UNCHANGED <<status, sbat_var>>
       \/ /\ CanRead
          /\ preserve_sbat_uefi_variable(level, candidate) /\ ~reset_sbat
          /\ Return("ok")
          /\ UNCHANGED sbat_var
       \/ /\ CanRead
          /\ ~preserve_sbat_uefi_variable(level, candidate) \/ reset_sbat
          /\ ~candidate.ok
          /\ Return("error")
          /\ UNCHANGED sbat_var
       \/ /\ CanRead
          /\ ~preserve_sbat_uefi_variable(level, candidate) \/ reset_sbat
          /\ candidate.ok
          /\ sbat_var' = {candidate}
          /\ IF Revoked(candidate, ShimSbat)
             THEN Return("error")
             ELSE pc' = "delete" /\ UNCHANGED status
    /\ UNCHANGED <<nv, env, insecure, caller, sbat_policy, candidate, reset_sbat,
                   addons, started, bootLevel>>

DeleteLevel ==
    /\ pc = "delete"
    /\ \/ level' = Absent /\ pc' = "write" /\ UNCHANGED status
       \/ MayFail("delete") /\ Return("error") /\ UNCHANGED level
    /\ UNCHANGED <<policyVar, env, insecure, caller, sbat_policy, candidate,
                   reset_sbat, sbat_var, addons, started, bootLevel>>

WriteLevel ==
    /\ pc = "write"
    /\ \/ /\ level' = [present |-> TRUE, good |-> TRUE, data |-> candidate]
          /\ pc' = "readback" /\ UNCHANGED status
       \/ /\ MayFail("corrupt")
          /\ level' = [present |-> TRUE, good |-> FALSE, data |-> candidate]
          /\ pc' = "readback" /\ UNCHANGED status
       \/ MayFail("write") /\ Return("error") /\ UNCHANGED level
    /\ UNCHANGED <<policyVar, env, insecure, caller, sbat_policy, candidate,
                   reset_sbat, sbat_var, addons, started, bootLevel>>

(* Mutant: a level that reads back wrong is written again, without limit.  *)
ReadBackRetries ==
    /\ pc = "readback"
    /\ IF level.good THEN Return("ok") ELSE pc' = "write" /\ UNCHANGED status
    /\ UNCHANGED <<nv, env, insecure, caller, sbat_policy, candidate, reset_sbat,
                   sbat_var, addons, started, bootLevel>>

(* Reading the variable back: an unreadable or different value is an error *)
ReadBack ==
    /\ pc = "readback"
    /\ \/ Return(IF level.good THEN "ok" ELSE "error")
       \/ MayFail("read") /\ Return("error")
    /\ UNCHANGED <<nv, env, insecure, caller, sbat_policy, candidate, reset_sbat,
                   sbat_var, addons, started, bootLevel>>

(* die: ResetSystem(EfiResetShutdown).                                     *)
Die == pc' = "off"

(* Back in the caller.  efi_main gives up in secure mode, and goes on      *)
(* otherwise; load_unbundled_trust ignores load_revocations_file's status  *)
(* and continues with the second pass over the directory.                  *)
ReturnToCaller ==
    /\ pc = "return"
    /\ \/ /\ caller = "efi_main"
          /\ IF status = "error" /\ secure_mode THEN Die
             ELSE IF secure_mode THEN pc' = "selfcheck"
             ELSE pc' = "trust"
       \/ /\ caller = "file"
          /\ pc' = "addons"
    /\ UNCHANGED <<nv, env, insecure, call, sbat_var, addons, started, bootLevel>>

(* Mutant: shim checks itself but does not keep the parsed list.           *)
SelfCheckDropsList ==
    /\ pc = "selfcheck"
    /\ IF level.present /\ level.data.ok /\ ~Revoked(level.data, ShimSbat)
       THEN pc' = "trust" ELSE Die
    /\ UNCHANGED <<nv, env, insecure, call, sbat_var, addons, started, bootLevel>>

(* efi_main, secure mode: parse_sbat_var(&sbat_var, NULL), then shim's own *)
(* section against the result.                                             *)
SelfCheck ==
    /\ pc = "selfcheck"
    /\ \/ /\ level.present /\ level.data.ok
          /\ sbat_var' = {level.data}
          /\ IF Revoked(level.data, ShimSbat) THEN Die ELSE pc' = "trust"
       \/ /\ ~level.present \/ ~level.data.ok \/ MayFail("read")
          /\ sbat_var' = {}
          /\ Die
    /\ UNCHANGED <<nv, env, insecure, call, addons, started, bootLevel>>

(* load_unbundled_trust, first pass.  Without a file system only           *)
(* load_cert_file is called on revocations.efi, and its .db section taken. *)
(* With one, nothing is read in insecure mode; in secure mode              *)
(* load_revocations_file verifies the file and, when both payloads are     *)
(* there, calls set_sbat_uefi_variable.                                    *)
LoadUnbundledTrust ==
    /\ pc = "trust"
    /\ \/ /\ netboot
          /\ addons' = {f.sbat : f \in {g \in rev : (secure_mode => g.authentic) /\ Accepts(g.sbat)}}
          /\ pc' = "mok"
          /\ UNCHANGED caller
       \/ /\ ~netboot /\ ~secure_mode
          /\ pc' = "mok"
          /\ UNCHANGED <<caller, addons>>
       \/ /\ ~netboot /\ secure_mode
          /\ LET usable == \E f \in rev : f.authentic /\ Accepts(f.sbat) /\ f.both IN
             /\ pc' = IF usable THEN "policy" ELSE "addons"
             /\ caller' = IF usable THEN "file" ELSE caller
          /\ UNCHANGED addons
    /\ UNCHANGED <<nv, env, insecure, status, sbat_policy, candidate, reset_sbat,
                   sbat_var, started, bootLevel>>

(* Second pass: load_cert_file on one shim_certificate*.efi.               *)
LoadCertFile(s) ==
    /\ pc = "addons"
    /\ Accepts(s)
    /\ addons' = addons \cup {s}
    /\ UNCHANGED <<nv, env, pc, insecure, call, sbat_var, started, bootLevel>>

AddonsDone ==
    /\ pc = "addons"
    /\ pc' = "mok"
    /\ UNCHANGED <<nv, env, insecure, call, sbat_var, addons, started, bootLevel>>

(* import_mok_state may turn verification off for the rest of the boot     *)
(* (MokSBState), or fail.                                                  *)
ImportMokState ==
    /\ pc = "mok"
    /\ \/ insecure' \in BOOLEAN /\ pc' = "stage2"
       \/ Die /\ UNCHANGED insecure
    /\ UNCHANGED <<nv, env, call, sbat_var, addons, started, bootLevel>>

(* init_grub: a second stage whose section is accepted runs.               *)
StartSecondStage(s) ==
    /\ pc = "stage2"
    /\ Accepts(s)
    /\ started' = IF secure_mode THEN started \cup {s} ELSE started
    /\ pc' = "os"
    /\ UNCHANGED <<nv, env, insecure, call, sbat_var, addons, bootLevel>>

(* No acceptable second stage: init_grub fails and efi_main returns.       *)
NoSecondStage ==
    /\ pc = "stage2"
    /\ pc' = "off"
    /\ UNCHANGED <<nv, env, insecure, call, sbat_var, addons, started, bootLevel>>

(* The running system asks for a policy (mokutil --set-sbat-policy).       *)
OsSetPolicy(p) ==
    /\ pc = "os"
    /\ policyVar' = p
    /\ UNCHANGED <<level, pc, env, insecure, call, sbat_var, addons, started, bootLevel>>

Reboot ==
    /\ pc = "os"
    /\ pc' = "off"
    /\ UNCHANGED <<nv, env, insecure, call, sbat_var, addons, started, bootLevel>>

(* Power is lost in the middle of a boot.                                  *)
PowerLoss ==
    /\ MayFail("crash")
    /\ pc # "off"
    /\ pc' = "off"
    /\ UNCHANGED <<nv, env, insecure, call, sbat_var, addons, started, bootLevel>>

ShimStep ==
    \/ ReadPolicy \/ clear_sbat_policy \/ ReadLevel \/ DeleteLevel \/ WriteLevel
    \/ ReadBack \/ ReturnToCaller \/ SelfCheck \/ LoadUnbundledTrust
    \/ AddonsDone \/ ImportMokState
    \/ \E s \in Sections : LoadCertFile(s) \/ StartSecondStage(s)
    \/ NoSecondStage

Next ==
    \/ PowerOn \/ Reboot \/ PowerLoss \/ ShimStep
    \/ \E p \in PolicyValue : OsSetPolicy(p)

Spec == Init /\ [][Next]_vars

(* Firmware calls return and the machine is switched on again: shim's own  *)
(* sequential steps, power-on and reboot are weakly fair.  Nothing forces  *)
(* a power cut, an OS request or one more certificate file.                *)
Fairness ==
    /\ WF_vars(ReadPolicy) /\ WF_vars(clear_sbat_policy) /\ WF_vars(ReadLevel)
    /\ WF_vars(DeleteLevel) /\ WF_vars(WriteLevel) /\ WF_vars(ReadBack)
    /\ WF_vars(ReturnToCaller) /\ WF_vars(SelfCheck) /\ WF_vars(LoadUnbundledTrust)
    /\ WF_vars(AddonsDone) /\ WF_vars(ImportMokState) /\ WF_vars(NoSecondStage)
    /\ WF_vars(PowerOn) /\ WF_vars(Reboot)

FairSpec == Spec /\ Fairness
---------------------------------------------------------------------------
(* Properties                                                              *)

(* Newer payloads keep refusing the images that older ones refused: what   *)
(* SBAT.md asks of whoever publishes them.                                 *)
Cumulative ==
    \A p, q \in Payloads : ~Supersedes(p, q) =>
        \A s \in Sections : Revoked(p, s) => Revoked(q, s)

(* What is enforced is never older than what is persisted: once efi_main   *)
(* has passed its self-check in secure mode, the list images are verified  *)
(* against is the stored SbatLevel or a payload newer than it, whatever    *)
(* faults hit the second update that revocations.efi triggers.             *)
EnforcedNotOlder ==
    pc \in {"trust", "addons", "mok", "stage2"} /\ secure_mode /\ level.present =>
        \E p \in sbat_var : p = level.data \/ ~Supersedes(level.data, p)

(* Nothing runs below the stored level: an add-on file or second stage     *)
(* that was accepted in secure mode is not revoked by the SbatLevel left   *)
(* in the variable, although that variable may have been rewritten while   *)
(* files were being loaded.                                                *)
RunningNotRevoked ==
    pc \in {"mok", "stage2", "os"} /\ secureBoot /\ level.present =>
        \A s \in addons \cup started : ~Revoked(level.data, s)

(* No rollback within a secure boot: whatever the policy and the faults, a *)
(* readable level found at power-on is never replaced by an older one      *)
(* (the comparison of preserve_sbat_uefi_variable, over both updates).     *)
NoRollback ==
    pc # "off" /\ secureBoot /\ bootLevel.present /\ bootLevel.good /\ level.present =>
        level = bootLevel \/ ~Supersedes(bootLevel.data, level.data)

(* The level as the abstract store sees it.                                *)
Usable(l) == IF l.present /\ l.good THEN {l.data} ELSE {}
Newer(q, p) == ~Supersedes(p, q)

Store == INSTANCE RevocationStore WITH
            Levels <- Payloads, Newer <- Newer, Forgetful <- FALSE,
            stored <- Usable(level), floor <- Usable(bootLevel), protected <- secureBoot

(* The two updates of a boot, with their failures and power cuts,          *)
(* implement the abstract revocation store: every change of SbatLevel is a *)
(* removal or the installation of a level newer than the one at power-on,  *)
(* and shim never goes on after losing track of that one.                  *)
LevelStore == Store!StoreSpec

(* A secure boot that gets past efi_main's update enforces at least the    *)
(* automatic payload of the running shim, even after earlier boots lost    *)
(* power between deleting and rewriting the variable; and in any boot that *)
(* went well so far a "latest" request read once, and deleted at once, has *)
(* brought the level to the latest payload, through both updates.          *)
AtLeastRequested ==
    pc \in {"trust", "mok", "stage2", "os"} /\ level.present /\ level.good =>
        /\ secureBoot => Supersedes(level.data, Automatic)
        /\ sbat_policy = "latest" /\ (secureBoot \/ status = "ok") =>
              Supersedes(level.data, Latest)

(* Shim never writes a level that revokes itself, even one that a          *)
(* correctly signed revocations.efi asks for: otherwise the next secure    *)
(* boot would stop in efi_main's self-check.                               *)
NeverSelfRevokes ==
    [][level' # level /\ level'.present => ~Revoked(level'.data, ShimSbat)]_vars

(* Every boot ends: it hands over to a second stage or stops, it does not  *)
(* hang between the two updates.                                           *)
BootEnds == [](pc = "policy" => <>(pc \in {"os", "off"}))
=============================================================================
