---------------------------- MODULE SkuSiPolicy ----------------------------
(***************************************************************************)
(* The SkuSiPolicy update over many boots: set_ssp_uefi_variable of        *)
(* sbat.c, which efi_main calls with the pair built into shim and          *)
(* load_revocations_file calls again with the sections of revocations.efi. *)
(* The pair is SkuSiPolicyVersion and SkuSiPolicyUpdateSigners, the        *)
(* revocations of the Windows boot manager.  They are two variables, each  *)
(* deleted and written by a firmware call of its own, and the power may be *)
(* cut between any two of them.                                            *)
(*                                                                         *)
(* A list of signers is named by the version it was published with.  A     *)
(* pointer that may be NULL is a set of at most one value.                 *)
(***************************************************************************)
EXTENDS Integers

CONSTANTS
    Word,        \* values of a UINT16: 65536
    Versions,    \* the policy versions that exist
    Builtin,     \* SkuSiPolicyVersion of this shim
    RevFiles,    \* revocations.efi files that may be on the boot medium
    Faults       \* subset of FaultKinds the environment may inject

(* "request": SSPPolicy cannot be read; "read": the version cannot.        *)
FaultKinds == {"request", "read", "delete", "write", "crash"}
Version    == [1 .. 4 -> 0 .. Word - 1]
AtMostOne(S) == {{}} \cup {{x} : x \in S}

(* The sections .sspva, .sspsa, .sspvl and .sspsl of a revocations.efi.    *)
RevFile == [authentic : BOOLEAN, va : AtMostOne(Versions), sa : AtMostOne(Versions),
            vl : AtMostOne(Versions), sl : AtMostOne(Versions)]

(* A stored version; good: it has the expected size and attributes.        *)
StoredVersion == [good : BOOLEAN, v : Versions]
PolicyValue   == {"latest", "automatic", "reset", "invalid"}

ASSUME ConstantsAssumption ==
    /\ Word \in Nat \ {0}
    /\ Versions \subseteq Version
    /\ Builtin \in Versions
    /\ RevFiles \subseteq RevFile
    /\ Faults \subseteq FaultKinds

---------------------------------------------------------------------------
(* Pure parts                                                              *)

(* The four 16-bit fields as one 64-bit number.                            *)
ssp_ver_to_ull(ver) == ((ver[1] * Word + ver[2]) * Word + ver[3]) * Word + ver[4]

(* Mutant: an equal version is written again.                              *)
PreserveOnlyNewer(applied, candidate) ==
    \E o \in applied, n \in candidate :
        o.good /\ ssp_ver_to_ull(n) < ssp_ver_to_ull(o.v)

preserve_ssp_uefi_variable(applied, candidate) ==
    \E o \in applied, n \in candidate :
        o.good /\ ssp_ver_to_ull(n) <= ssp_ver_to_ull(o.v)

IsReset(policy, secure) == policy = "reset" /\ ~secure

(* Mutant: "latest" selects the automatic pair.                            *)
ChooseNeverLatest(policy, secure, automatic, latest) ==
    IF IsReset(policy, secure) THEN {} ELSE automatic

(* What a policy selects; "none" when SSPPolicy could not be read.         *)
Choose(policy, secure, automatic, latest) ==
    IF policy = "latest" THEN latest
    ELSE IF IsReset(policy, secure) THEN {} ELSE automatic

---------------------------------------------------------------------------
VARIABLES
    verVar,      \* NV: SkuSiPolicyVersion, at most one
    sigVar,      \* NV: SkuSiPolicyUpdateSigners, at most one
    policyVar,   \* NV: SSPPolicy
    pc,          \* the step shim is about to take; "off" between boots
    secure,      \* secure_mode()
    rev,         \* the readable revocations.efi of the medium, at most one
    caller,      \* efi_main or the file
    status,      \* the EFI_STATUS of set_ssp_uefi_variable
    ssp_policy,  \* the cached policy byte, "notread" initially
    ssp_ver, ssp_sig, reset_ssp,
    bootVer, bootSig,  \* history: the pair when this boot began
    troubled,    \* history: a firmware call failed in this boot
    lost         \* history: a version could not be written in this boot

nv      == <<verVar, sigVar, policyVar>>
boot    == <<secure, rev, bootVer, bootSig>>
choice  == <<ssp_policy, ssp_ver, ssp_sig, reset_ssp>>
history == <<troubled, lost>>
vars    == <<nv, pc, boot, caller, status, choice, history>>

Steps == {"policy", "clear", "version", "delver", "delsig", "setver", "setsig",
          "return", "trust", "os", "off"}

TypeOK ==
    /\ verVar \in AtMostOne(StoredVersion) /\ bootVer \in AtMostOne(StoredVersion)
    /\ sigVar \in AtMostOne(Versions) /\ bootSig \in AtMostOne(Versions)
    /\ policyVar \in PolicyValue \cup {"none"}
    /\ pc \in Steps
    /\ secure \in BOOLEAN
    /\ rev \in AtMostOne(RevFiles)
    /\ caller \in {"efi_main", "file"}
    /\ caller = "file" => rev # {}
    /\ status \in {"ok", "error"}
    /\ ssp_policy \in PolicyValue \cup {"notread"}
    /\ ssp_ver \in AtMostOne(Versions) /\ ssp_sig \in AtMostOne(Versions)
    /\ reset_ssp \in BOOLEAN
    /\ troubled \in BOOLEAN /\ lost \in BOOLEAN

Init ==
    /\ verVar \in AtMostOne(StoredVersion)
    /\ sigVar \in AtMostOne(Versions)
    /\ policyVar \in PolicyValue \cup {"none"}
    /\ pc = "off"
    /\ secure = FALSE /\ rev = {}
    /\ bootVer = verVar /\ bootSig = sigVar
    /\ caller = "efi_main" /\ status = "ok"
    /\ ssp_policy = "notread" /\ ssp_ver = {} /\ ssp_sig = {} /\ reset_ssp = FALSE
    /\ troubled = FALSE /\ lost = FALSE

(* The machine starts; efi_main calls set_ssp_uefi_variable_internal.      *)
PowerOn ==
    /\ pc = "off"
    /\ pc' = "policy"
    /\ secure' \in BOOLEAN
    /\ rev' \in AtMostOne(RevFiles)
    /\ bootVer' = verVar /\ bootSig' = sigVar
    /\ caller' = "efi_main" /\ status' = "ok"
    /\ ssp_policy' = "notread" /\ ssp_ver' = {} /\ ssp_sig' = {} /\ reset_ssp' = FALSE
    /\ troubled' = FALSE /\ lost' = FALSE
    /\ UNCHANGED nv

(* A firmware call fails with the kind of fault f.                         *)
Fails(f) == f \in Faults /\ troubled' = TRUE

(* The arguments: efi_main passes no automatic pair, the file its sections *)
set_ssp_uefi_variable_internal == [va |-> {}, sa |-> {}, vl |-> {Builtin}, sl |-> {Builtin}]
Args == IF caller = "file" THEN CHOOSE f \in rev : TRUE ELSE set_ssp_uefi_variable_internal

Select(policy) ==
    /\ ssp_ver' = Choose(policy, secure, Args.va, Args.vl)
    /\ ssp_sig' = Choose(policy, secure, Args.sa, Args.sl)
    /\ reset_ssp' = IsReset(policy, secure)

(* The policy byte is read once per boot when it exists, and reused by the *)
(* second call.                                                            *)
ReadPolicy ==
    /\ pc = "policy"
    /\ \/ /\ ssp_policy # "notread"
          /\ Select(ssp_policy)
          /\ pc' = "version"
          /\ UNCHANGED <<ssp_policy, troubled>>
       \/ /\ ssp_policy = "notread" /\ policyVar # "none"
          /\ ssp_policy' = policyVar
          /\ Select(policyVar)
          /\ pc' = "clear"
          /\ UNCHANGED troubled
       \/ /\ ssp_policy = "notread"
          /\ (policyVar = "none" /\ UNCHANGED troubled) \/ Fails("request")
          /\ Select("none")
          /\ pc' = "version"
          /\ UNCHANGED ssp_policy
    /\ status' = "ok"
    /\ UNCHANGED <<nv, boot, caller, lost>>

(* A failure to delete the request is only reported.                       *)
clear_ssp_policy ==
    /\ pc = "clear"
    /\ pc' = "version"
    /\ \/ policyVar' = "none" /\ UNCHANGED troubled
       \/ Fails("delete") /\ UNCHANGED policyVar
    /\ UNCHANGED <<verVar, sigVar, boot, caller, status, choice, lost>>

Return(s) == pc' = "return" /\ status' = s

(* Reading SkuSiPolicyVersion and deciding.  A reset gives up when the     *)
(* version is not there; a version that cannot be read is just written.    *)
ReadVersion ==
    /\ pc = "version"
    /\ \/ /\ ssp_ver = {} /\ ssp_sig = {} /\ ~reset_ssp
          /\ Return("ok")
          /\ UNCHANGED troubled
       \/ /\ ssp_ver # {} \/ ssp_sig # {} \/ reset_ssp
          /\ (verVar = {} /\ UNCHANGED troubled) \/ Fails("read")
          /\ IF reset_ssp THEN Return("error") ELSE pc' = "setver" /\ UNCHANGED status
       \/ /\ ssp_ver # {} \/ ssp_sig # {} \/ reset_ssp
          /\ verVar # {}
          /\ IF preserve_ssp_uefi_variable(verVar, ssp_ver) /\ ~reset_ssp
             THEN Return("ok")
             ELSE pc' = "delver" /\ UNCHANGED status
          /\ UNCHANGED troubled
    /\ UNCHANGED <<nv, boot, caller, choice, lost>>

(* clear_ssp_uefi_variables: both are deleted, whatever the first call     *)
(* returned; the error is only remembered.                                 *)
DeleteVersion ==
    /\ pc = "delver"
    /\ pc' = "delsig"
    /\ \/ verVar' = {} /\ UNCHANGED <<status, troubled>>
       \/ Fails("delete") /\ status' = "error" /\ UNCHANGED verVar
    /\ UNCHANGED <<sigVar, policyVar, boot, caller, choice, lost>>

(* Deleting signers that are not there is an error too.  A reset ends      *)
(* here; an update goes on and forgets the error.                          *)
DeleteSigners ==
    /\ pc = "delsig"
    /\ pc' = IF reset_ssp THEN "return" ELSE "setver"
    /\ \/ /\ sigVar' = {}
          /\ status' = IF sigVar = {} THEN "error" ELSE status
          /\ UNCHANGED troubled
       \/ Fails("delete") /\ status' = "error" /\ UNCHANGED sigVar
    /\ UNCHANGED <<verVar, policyVar, boot, caller, choice, lost>>

(* Mutant: the version is written with EFI_VARIABLE_APPEND_WRITE.          *)
SetVersionAppends ==
    /\ pc = "setver"
    /\ verVar' = verVar \cup {[good |-> TRUE, v |-> n] : n \in ssp_ver}
    /\ pc' = "setsig"
    /\ UNCHANGED <<sigVar, policyVar, boot, caller, status, choice, history>>

(* Mutant: the signers are not written.                                    *)
SetVersionOnly ==
    /\ pc = "setver"
    /\ ssp_ver # {}
    /\ verVar' = {[good |-> TRUE, v |-> n] : n \in ssp_ver}
    /\ Return("ok")
    /\ UNCHANGED <<sigVar, policyVar, boot, caller, choice, history>>

(* A NULL version, half of a pair, is refused by SetVariable.              *)
SetVersion ==
    /\ pc = "setver"
    /\ \/ /\ ssp_ver # {}
          /\ verVar' = {[good |-> TRUE, v |-> n] : n \in ssp_ver}
          /\ pc' = "setsig"
          /\ UNCHANGED <<status, history>>
       \/ /\ ssp_ver = {}
          /\ Return("error")
          /\ UNCHANGED <<verVar, history>>
       \/ /\ Fails("write")
          /\ lost' = TRUE
          /\ Return("error")
          /\ UNCHANGED verVar
    /\ UNCHANGED <<sigVar, policyVar, boot, caller, choice>>

SetSigners ==
    /\ pc = "setsig"
    /\ \/ /\ ssp_sig # {}
          /\ sigVar' = ssp_sig
          /\ Return("ok")
          /\ UNCHANGED troubled
       \/ /\ (ssp_sig = {} /\ UNCHANGED troubled) \/ Fails("write")
          /\ Return("error")
          /\ UNCHANGED sigVar
    /\ UNCHANGED <<verVar, policyVar, boot, caller, choice, lost>>

(* Neither caller acts on the status.                                      *)
ReturnToCaller ==
    /\ pc = "return"
    /\ pc' = IF caller = "efi_main" THEN "trust" ELSE "os"
    /\ UNCHANGED <<nv, boot, caller, status, choice, history>>

(* load_revocations_file, in secure mode: a file that verifies and has at  *)
(* least one whole pair is applied.                                        *)
load_revocations_file ==
    /\ pc = "trust"
    /\ secure
    /\ \E f \in rev : /\ f.authentic
                      /\ (f.va # {} /\ f.sa # {}) \/ (f.vl # {} /\ f.sl # {})
    /\ caller' = "file"
    /\ pc' = "policy"
    /\ UNCHANGED <<nv, boot, status, choice, history>>

(* No such file, or none that can be used: the boot goes on.               *)
NoFile ==
    /\ pc = "trust"
    /\ secure => \A f \in rev : /\ f.authentic => f.va = {} \/ f.sa = {}
                                /\ f.authentic => f.vl = {} \/ f.sl = {}
    /\ pc' = "os"
    /\ UNCHANGED <<nv, boot, caller, status, choice, history>>

(* efi_main stops in one of its other checks, or the system reboots.       *)
Stop ==
    /\ pc \in {"trust", "os"}
    /\ pc' = "off"
    /\ UNCHANGED <<nv, boot, caller, status, choice, history>>

PowerLoss ==
    /\ "crash" \in Faults
    /\ pc # "off"
    /\ pc' = "off"
    /\ UNCHANGED <<nv, boot, caller, status, choice, history>>

(* The running system asks for a policy (mokutil --set-ssp-policy).        *)
OsSetPolicy(p) ==
    /\ pc = "os"
    /\ policyVar' = p
    /\ UNCHANGED <<verVar, sigVar, pc, boot, caller, status, choice, history>>

(* The Windows boot manager raises its own revocations (external).         *)
BootManagerUpdates(n) ==
    /\ pc = "off"
    /\ ~preserve_ssp_uefi_variable(verVar, {n})
    /\ verVar' = {[good |-> TRUE, v |-> n]}
    /\ sigVar' = {n}
    /\ UNCHANGED <<policyVar, pc, boot, caller, status, choice, history>>

Next ==
    \/ PowerOn \/ ReadPolicy \/ clear_ssp_policy \/ ReadVersion
    \/ DeleteVersion \/ DeleteSigners \/ SetVersion \/ SetSigners
    \/ ReturnToCaller \/ load_revocations_file \/ NoFile \/ Stop \/ PowerLoss
    \/ \E p \in PolicyValue : OsSetPolicy(p)
    \/ \E n \in Versions : BootManagerUpdates(n)

Spec == Init /\ [][Next]_vars
---------------------------------------------------------------------------
(* Properties                                                              *)

Usable(s) == {x.v : x \in {y \in s : y.good}}
AtLeast(n) == preserve_ssp_uefi_variable(verVar, {n})
Newer(n, o) == ssp_ver_to_ull(n) > ssp_ver_to_ull(o)

Store == INSTANCE RevocationStore WITH
            Levels <- Versions, Newer <- Newer, Forgetful <- "write" \in Faults,
            stored <- Usable(verVar),
            floor <- IF lost THEN {} ELSE Usable(bootVer),
            protected <- secure /\ pc # "off"

(* The two updates of a boot implement the abstract revocation store: in   *)
(* secure mode SkuSiPolicyVersion is only removed or raised.  Unlike       *)
(* SbatLevel, shim goes on after a failed write, and then the file's       *)
(* version is written without a comparison with the one that was deleted.  *)
SspStore == Store!StoreSpec

(* The selection of the last call is a pair, or nothing.                   *)
Paired == ssp_ver = {} <=> ssp_sig = {}

(* The two variables move together: in a boot without a failed call,       *)
(* whatever an earlier power cut left behind, the signers at the end are   *)
(* those of the version written, or both are as the boot found them.       *)
PairMoves ==
    pc = "os" /\ ~troubled /\ Paired =>
        IF verVar = bootVer THEN sigVar = bootSig ELSE sigVar = Usable(verVar)

(* A boot does what its SSPPolicy asked, through both calls of             *)
(* set_ssp_uefi_variable although the request is deleted after the first:  *)
(* "latest" reaches the pair of shim and of the file, a reset outside      *)
(* Secure Boot removes a pair that is there, and without a request or a    *)
(* file with an automatic pair the boot manager's variables are left alone.*)
RequestHonoured ==
    pc = "os" /\ ~troubled /\ Paired =>
        /\ ssp_policy = "latest" =>
              /\ AtLeast(Builtin)
              /\ caller = "file" => \A n \in Args.vl : AtLeast(n)
        /\ ssp_policy # "latest" /\ caller = "file" => \A n \in Args.va : AtLeast(n)
        /\ ssp_policy = "reset" /\ ~secure /\ bootVer # {} => verVar = {} /\ sigVar = {}
        /\ ssp_policy # "latest" /\ caller = "efi_main" =>
              (ssp_policy = "reset" /\ ~secure) \/ <<verVar, sigVar>> = <<bootVer, bootSig>>

(* What a boot leaves in the two variables is a pair that belongs          *)
(* together, and the pair its SSPPolicy asked for (PairMoves,              *)
(* RequestHonoured), over both calls of set_ssp_uefi_variable.             *)
AskedPairLeft == PairMoves /\ RequestHonoured
=============================================================================
