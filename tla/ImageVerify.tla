---------------------------- MODULE ImageVerify ----------------------------
(***************************************************************************)
(* The verification of images: verify_buffer_authenticode and what it      *)
(* calls in shim.c, its three callers (handle_image, verify_image and      *)
(* shim_verify), the remote verifier of keyless-sign.c, and the TPM        *)
(* measurements of tpm.c.  A boot verifies a sequence of images with the   *)
(* same databases; verification_method and the list of what has been       *)
(* measured survive from one image to the next.                            *)
(***************************************************************************)
EXTENDS Sequences, Integers, FiniteSets

CONSTANTS
    Images,      \* what can be presented for verification
    Configs,     \* databases, built-in certificates and settings of a boot
    MaxImages    \* bound on the number of verifications in a boot

Kinds   == {"sha256", "sha1", "x509", "modsign"}
Lists   == {"db", "dbx", "vendor_db", "vendor_dbx", "MokListRT", "MokListX"}
Callers == {"handle_image", "verify_image", "shim_verify"}
Status  == {"SUCCESS", "NOT_FOUND", "SECURITY_VIOLATION", "INVALID_PARAMETER",
            "UNSUPPORTED", "OUT_OF_RESOURCES"}

(* An image: can its headers be read and hashed, its two hashes, does the  *)
(* certificate table lie inside the file, the entries of that table, and   *)
(* is it allowed by its SBAT section.  An entry of the table has a         *)
(* certificate type, a length that fits or not, the certificates a         *)
(* signature verifies against, and whether the remote verifier's parser    *)
(* understands it and finds the image's hash in it.                        *)
ASSUME ImagesAssumption ==
    \A m \in Images :
        /\ m.readable \in BOOLEAN /\ m.fits \in BOOLEAN /\ m.sbat \in BOOLEAN
        /\ DOMAIN m.sigs = 1 .. Len(m.sigs) /\ Len(m.sigs) \in Nat
        /\ \A k \in DOMAIN m.sigs :
              /\ m.sigs[k].pkcs \in BOOLEAN /\ m.sigs[k].sized \in BOOLEAN
              /\ m.sigs[k].parses \in BOOLEAN

(* A configuration gives every list a sequence of entries [kind, id]; an   *)
(* X.509 entry whose certificate is for module signing only has the kind   *)
(* "modsign", which verify_eku makes shim skip.  The TPM may be missing, or *)
(* at any measurement the TPM or an allocation may fail.  The files are    *)
(* those met in this boot.                                                 *)
ASSUME ConfigsAssumption ==
    \A c \in Configs :
        /\ c.secure \in BOOLEAN /\ c.ignore_db \in BOOLEAN
        /\ c.tpm \in {"none", "works", "fails"}
        /\ c.files \subseteq Images
        /\ \A l \in Lists :
              /\ DOMAIN c.lists[l] = 1 .. Len(c.lists[l]) /\ Len(c.lists[l]) \in Nat
              /\ \A k \in DOMAIN c.lists[l] : c.lists[l][k].kind \in Kinds

ASSUME BoundsAssumption == MaxImages \in Nat

VARIABLES
    conf,      \* the configuration of this boot
    method,    \* verification_method
    pc,        \* where the verification is
    image,     \* the image being verified
    caller,    \* who asked
    i,         \* the entry of the certificate table looked at next
    ret,       \* ret_efi_status, and the final result
    http,      \* the remote verifier's answer for this image
    pcr4,      \* images measured, in order
    pcr7,      \* authorities measured, in order
    measured,  \* measureddata: what tpm_measure_variable remembers
    lost,      \* a failed ReallocatePool has lost measureddata
    unrecorded, \* history: authorities extended whose record failed or was lost
    count      \* verifications so far

authority == <<pcr7, measured, lost, unrecorded>>
vars == <<conf, method, pc, image, caller, i, ret, http, pcr4, authority, count>>

---------------------------------------------------------------------------
(* Databases *)

Matches(e, kind, m, signers) ==
    /\ e.kind = kind
    /\ \/ kind = "sha256" /\ e.id = m.sha256
       \/ kind = "sha1" /\ e.id = m.sha1
       \/ kind = "x509" /\ e.id \in signers

(* check_db_hash and check_db_cert: some entry of the list matches.        *)
Hit(p, m, signers) ==
    \E k \in DOMAIN conf.lists[p.list] : Matches(conf.lists[p.list][k], p.kind, m, signers)

(* The order in which check_denylist asks.  MokListX has no SHA-1 probe.   *)
DenyProbes ==
    << [list |-> "vendor_dbx", kind |-> "sha256"], [list |-> "vendor_dbx", kind |-> "sha1"],
       [list |-> "vendor_dbx", kind |-> "x509"],
       [list |-> "dbx", kind |-> "sha256"], [list |-> "dbx", kind |-> "sha1"],
       [list |-> "dbx", kind |-> "x509"],
       [list |-> "MokListX", kind |-> "sha256"], [list |-> "MokListX", kind |-> "x509"] >>

(* The order in which check_allowlist asks.                                *)
DbProbes ==
    << [list |-> "db", kind |-> "sha256"], [list |-> "db", kind |-> "sha1"],
       [list |-> "db", kind |-> "x509"] >>
OwnProbes ==
    << [list |-> "vendor_db", kind |-> "sha256"], [list |-> "vendor_db", kind |-> "x509"],
       [list |-> "MokListRT", kind |-> "sha256"], [list |-> "MokListRT", kind |-> "x509"] >>
AllowProbes == IF conf.ignore_db THEN OwnProbes ELSE DbProbes \o OwnProbes

Found(probes, m, signers) == \E n \in DOMAIN probes : Hit(probes[n], m, signers)

check_denylist(m, signers) == Found(DenyProbes, m, signers)

check_allowlist(m, signers) == Found(AllowProbes, m, signers)

FirstHit(probes, m, signers) ==
    probes[CHOOSE n \in DOMAIN probes :
              /\ Hit(probes[n], m, signers)
              /\ \A o \in 1 .. n - 1 : ~Hit(probes[o], m, signers)]

(* The name tpm_measure_variable is given for an entry of a list.          *)
LogName(list) == IF list = "vendor_dbx" THEN "dbx" ELSE list

(* The first matching entry of the first list that has one.                *)
Authority(probes, m, signers) ==
    LET p == FirstHit(probes, m, signers)
        l == conf.lists[p.list]
        n == CHOOSE k \in DOMAIN l :
                /\ Matches(l[k], p.kind, m, signers)
                /\ \A o \in 1 .. k - 1 : ~Matches(l[o], p.kind, m, signers)
    IN  [name |-> LogName(p.list), entry |-> l[n]]

---------------------------------------------------------------------------
(* Measurements *)

Extend(a) == pcr7' = IF conf.tpm # "none" THEN Append(pcr7, a) ELSE pcr7

(* Mutant: nothing remembers what has been measured.                       *)
MeasureForgets(a) == Extend(a) /\ UNCHANGED <<measured, lost, unrecorded>>

(* Mutant: the record is kept although the TPM refused the event.          *)
MeasureRecordsRefused(a) ==
    /\ measured' = measured \cup {a}
    /\ \/ a \notin measured /\ Extend(a)
       \/ (a \in measured \/ conf.tpm = "fails") /\ UNCHANGED pcr7
    /\ UNCHANGED <<lost, unrecorded>>

(* What has been measured before is not measured again.  Without a TPM the *)
(* call succeeds and is remembered all the same.  When the event is refused *)
(* nothing changes; but the record follows the extension, and when it fails *)
(* the PCR is extended and nothing remembers it.  tpm_record_data_measure- *)
(* ment may have only the new entry fail, or lose the list to a failed     *)
(* ReallocatePool: measuredcount still counts entries which are then read  *)
(* through NULL, or past the one entry that is allocated next, and which   *)
(* may match (nothing is extended) or not (extended, not to be relied on). *)
tpm_measure_variable(a) ==
    \/ /\ a \notin measured /\ ~lost
       /\ Extend(a) /\ measured' = measured \cup {a}
       /\ UNCHANGED <<lost, unrecorded>>
    \/ (a \in measured \/ conf.tpm = "fails") /\ UNCHANGED authority
    \/ /\ a \notin measured /\ conf.tpm = "fails"
       /\ Extend(a)
       /\ lost' \in {lost, TRUE} /\ measured' = IF lost' THEN {} ELSE measured
       /\ unrecorded' = unrecorded \cup {a} \cup (measured \ measured')

(* The result of measuring the image itself is ignored.                    *)
tpm_log_pe(m) ==
    \/ pcr4' = IF conf.tpm # "none" THEN Append(pcr4, m.sha256) ELSE pcr4
    \/ conf.tpm = "fails" /\ UNCHANGED pcr4

---------------------------------------------------------------------------
Init ==
    /\ conf \in Configs
    /\ method = "nothing"
    /\ pc = "idle" /\ image \in Images \cap conf.files
    /\ caller = "handle_image"
    /\ i = 1 /\ ret = "NOT_FOUND" /\ http = "untried"
    /\ pcr4 = <<>> /\ pcr7 = <<>> /\ measured = {} /\ lost = FALSE /\ unrecorded = {}
    /\ count = 0

Return(s) == pc' = "done" /\ ret' = s

(* An image is presented; its headers are read and it is hashed.           *)
Begin(c, m) ==
    /\ pc \in {"idle", "done"} /\ count < MaxImages
    /\ m \in conf.files
    /\ image' = m /\ caller' = c /\ count' = count + 1
    /\ i' = 1 /\ http' = "untried"
    /\ IF ~m.readable THEN Return("UNSUPPORTED")
       ELSE /\ ret' = "NOT_FOUND"
            /\ pc' = IF c = "shim_verify" THEN "measure_first"
                     ELSE IF conf.secure THEN "deny" ELSE "measure"
    /\ UNCHANGED <<conf, method, pcr4, authority>>

(* shim_verify measures before it verifies, and verifies a copy.           *)
MeasureFirst ==
    /\ pc = "measure_first"
    /\ tpm_log_pe(image)
    /\ \/ ~conf.secure /\ Return("SUCCESS")
       \/ conf.secure /\ pc' = "deny" /\ UNCHANGED ret
       \/ conf.secure /\ Return("OUT_OF_RESOURCES")
    /\ UNCHANGED <<conf, method, image, caller, i, http, authority, count>>

(* check_denylist(NULL, ...)                                               *)
CheckHashDenied ==
    /\ pc = "deny"
    /\ IF check_denylist(image, {})
       THEN /\ tpm_measure_variable(Authority(DenyProbes, image, {}))
            /\ Return("SECURITY_VIOLATION")
       ELSE pc' = "allow" /\ UNCHANGED <<ret, authority>>
    /\ UNCHANGED <<conf, method, image, caller, i, http, pcr4, count>>

update_verification_method(new) == method' = IF method = "nothing" THEN new ELSE method

(* Mutant: a certificate counts as a hash.                                 *)
SetMethodHash(p) == method' = "hash"

(* Except for the SHA-256 probe of db, check_allowlist assigns             *)
(* verification_method before it calls update_verification_method.         *)
SetMethod(p) ==
    LET new == IF p.kind = "x509" THEN "cert" ELSE "hash"
    IN  IF p = [list |-> "db", kind |-> "sha256"]
        THEN update_verification_method(new) ELSE method' = new

(* check_allowlist finds the image and measures what it found.             *)
Allow(signers) ==
    /\ check_allowlist(image, signers)
    /\ SetMethod(FirstHit(AllowProbes, image, signers))
    /\ tpm_measure_variable(Authority(AllowProbes, image, signers))

(* check_allowlist(NULL, ...), and the checks of the certificate table.    *)
CheckHashAllowed ==
    /\ pc = "allow"
    /\ \/ Allow({}) /\ pc' = "sbat" /\ UNCHANGED ret
       \/ /\ ~check_allowlist(image, {})
          /\ IF image.sigs = <<>> THEN Return("SECURITY_VIOLATION")
             ELSE IF ~image.fits THEN Return("INVALID_PARAMETER")
             ELSE pc' = "sigs" /\ UNCHANGED ret
          /\ UNCHANGED <<method, authority>>
    /\ UNCHANGED <<conf, image, caller, i, http, pcr4, count>>

BuiltIn(signers) == {c \in {conf.shim_cert, conf.vendor_cert} : c \in signers}
ShimEntry(c) == [name |-> "Shim", entry |-> [kind |-> "x509", id |-> c]]

(* The status verify_one_signature gives a signature.                      *)
Verdict(m, signers) ==
    IF check_denylist(m, signers) THEN "SECURITY_VIOLATION"
    ELSE IF check_allowlist(m, signers) \/ BuiltIn(signers) # {} THEN "SUCCESS"
    ELSE "NOT_FOUND"

(* Its effects: at most one authority is measured.  The build key is tried *)
(* before the vendor's.                                                    *)
verify_one_signature(signers) ==
    \/ /\ check_denylist(image, signers)
       /\ tpm_measure_variable(Authority(DenyProbes, image, signers))
       /\ UNCHANGED method
    \/ ~check_denylist(image, signers) /\ Allow(signers)
    \/ /\ ~check_denylist(image, signers) /\ ~check_allowlist(image, signers)
       /\ IF BuiltIn(signers) = {} THEN UNCHANGED <<method, authority>>
          ELSE /\ update_verification_method("cert")
               /\ tpm_measure_variable(ShimEntry(IF conf.shim_cert \in signers
                                                 THEN conf.shim_cert ELSE conf.vendor_cert))

(* Mutant: the offset moves on twice.                                      *)
NextSignatureSkips ==
    /\ pc = "sigs" /\ i <= Len(image.sigs)
    /\ i' = i + 2
    /\ UNCHANGED <<conf, method, pc, image, caller, ret, http, pcr4, authority, count>>

(* Mutant: a later signature's status overwrites an earlier success.       *)
NextSignatureClobbers ==
    /\ pc = "sigs" /\ i <= Len(image.sigs)
    /\ LET s == image.sigs[i] IN
       IF ~s.sized
       THEN Return("INVALID_PARAMETER") /\ UNCHANGED <<method, i, authority>>
       ELSE /\ i' = i + 1
            /\ IF s.pkcs
               THEN verify_one_signature(s.signers) /\ ret' = Verdict(image, s.signers)
               ELSE UNCHANGED <<ret, method, authority>>
            /\ UNCHANGED pc
    /\ UNCHANGED <<conf, image, caller, http, pcr4, count>>

(* One round of the loop over the certificate table.                       *)
NextSignature ==
    /\ pc = "sigs" /\ i <= Len(image.sigs)
    /\ LET s == image.sigs[i] IN
       IF ~s.sized
       THEN Return("INVALID_PARAMETER") /\ UNCHANGED <<method, i, authority>>
       ELSE /\ i' = i + 1
            /\ IF s.pkcs
               THEN /\ verify_one_signature(s.signers)
                    /\ ret' = IF ret # "SUCCESS" THEN Verdict(image, s.signers) ELSE ret
               ELSE UNCHANGED <<ret, method, authority>>
            /\ UNCHANGED pc
    /\ UNCHANGED <<conf, image, caller, http, pcr4, count>>

(* osign_parse_pkcs7 takes the last PKCS#7 entry of the table.             *)
Parses(m) ==
    \E k \in DOMAIN m.sigs :
        /\ m.sigs[k].pkcs /\ m.sigs[k].parses
        /\ \A o \in DOMAIN m.sigs : m.sigs[o].pkcs => o <= k

(* osign_http_request, after the loop and whatever its result: a request   *)
(* that succeeds decides, otherwise the result of the loop does.           *)
AskRemote ==
    /\ pc = "sigs" /\ i > Len(image.sigs)
    /\ http' \in IF Parses(image) THEN {"ok", "failed"} ELSE {"untried"}
    /\ IF http' = "ok" \/ ret = "SUCCESS"
       THEN pc' = "sbat" /\ UNCHANGED ret
       ELSE Return(ret)
    /\ UNCHANGED <<conf, method, image, caller, i, pcr4, authority, count>>

(* verify_buffer_sbat.                                                     *)
CheckSbat ==
    /\ pc = "sbat"
    /\ IF ~image.sbat THEN Return("SECURITY_VIOLATION")
       ELSE IF caller = "shim_verify" THEN Return("SUCCESS")
       ELSE pc' = "measure" /\ UNCHANGED ret
    /\ UNCHANGED <<conf, method, image, caller, i, http, pcr4, authority, count>>

(* Mutant: outside secure mode the image is not measured.                  *)
MeasureSecureOnly ==
    /\ pc = "measure"
    /\ IF conf.secure THEN tpm_log_pe(image) ELSE UNCHANGED pcr4
    /\ Return("SUCCESS")
    /\ UNCHANGED <<conf, method, image, caller, i, http, authority, count>>

(* handle_image and verify_image measure what they accepted.               *)
Measure ==
    /\ pc = "measure"
    /\ tpm_log_pe(image)
    /\ Return("SUCCESS")
    /\ UNCHANGED <<conf, method, image, caller, i, http, authority, count>>

Next ==
    \/ \E c \in Callers, m \in Images : Begin(c, m)
    \/ MeasureFirst \/ CheckHashDenied \/ CheckHashAllowed
    \/ NextSignature \/ AskRemote \/ CheckSbat \/ Measure

Spec == Init /\ [][Next]_vars

---------------------------------------------------------------------------
(* Properties *)

TypeOK ==
    /\ image \in Images /\ caller \in Callers
    /\ method \in {"nothing", "hash", "cert"}
    /\ pc \in {"idle", "measure_first", "deny", "allow", "sigs", "sbat", "measure", "done"}
    /\ i \in 1 .. Len(image.sigs) + 1
    /\ ret \in Status /\ http \in {"untried", "ok", "failed"}
    /\ count \in 0 .. MaxImages

(* The policy, without any order of evaluation: no denylist names the      *)
(* image's hash, and an allowlist names it, or the certificate table is in *)
(* order and some signature in it verifies against a trusted certificate   *)
(* and against no denied one, or the remote verifier answered.             *)
Names(l, m, signers, old) ==
    \E k \in DOMAIN conf.lists[l] :
        \/ conf.lists[l][k].kind = "sha256" /\ conf.lists[l][k].id = m.sha256
        \/ conf.lists[l][k].kind = "sha1" /\ conf.lists[l][k].id = m.sha1 /\ old
        \/ conf.lists[l][k].kind = "x509" /\ conf.lists[l][k].id \in signers

Denied(m, signers) ==
    Names("dbx", m, signers, TRUE) \/ Names("vendor_dbx", m, signers, TRUE)
        \/ Names("MokListX", m, signers, FALSE)
Trusted(m, signers) ==
    (~conf.ignore_db /\ Names("db", m, signers, TRUE))
        \/ Names("vendor_db", m, signers, FALSE) \/ Names("MokListRT", m, signers, FALSE)

GoodAt(m, k) ==
    /\ m.sigs[k].pkcs
    /\ ~Denied(m, m.sigs[k].signers)
    /\ \/ Trusted(m, m.sigs[k].signers)
       \/ {conf.shim_cert, conf.vendor_cert} \cap m.sigs[k].signers # {}
GoodSignature(m) == \E k \in DOMAIN m.sigs : GoodAt(m, k)

TableInOrder(m) == m.sigs # <<>> /\ m.fits /\ \A k \in DOMAIN m.sigs : m.sigs[k].sized

Policy(m) ==
    /\ ~Denied(m, {})
    /\ Trusted(m, {}) \/ (TableInOrder(m) /\ (GoodSignature(m) \/ http = "ok"))

(* In secure mode an image is accepted exactly when the policy and its     *)
(* SBAT section allow it: the order of the entries in the certificate      *)
(* table and in the databases, a denied signature next to a good one, a    *)
(* failing remote verifier and the images verified before make no          *)
(* difference.  Running out of memory may only refuse.                     *)
VerdictIsPolicy ==
    pc = "done" /\ conf.secure /\ ret # "OUT_OF_RESOURCES" =>
        (ret = "SUCCESS" <=> image.readable /\ Policy(image) /\ image.sbat)

(* No authority is measured into PCR 7 twice in a boot, also when several  *)
(* images share their authority, unless its own record failed or was lost  *)
(* after an extension.  And what is remembered has been extended: a refused *)
(* event never keeps an authority out of PCR 7 for the rest of the boot.   *)
MeasuredOnce ==
    /\ \A a, b \in DOMAIN pcr7 : a # b /\ pcr7[a] = pcr7[b] => pcr7[a] \in unrecorded
    /\ conf.tpm # "none" => \A a \in measured : \E k \in DOMAIN pcr7 : pcr7[k] = a

(* When measurements work, an image that was accepted is in PCR 4, and     *)
(* unless it was the remote verifier that accepted it, something that      *)
(* allowed it is in PCR 7.  And VERIFIED_BY_HASH, which exit_boot_services *)
(* trusts, only ever stands when an image was found in an allowlist by its *)
(* hash, which is then among what has been measured.                       *)
Authorises(a, m) ==
    /\ a.name \in {"db", "vendor_db", "MokListRT", "Shim"}
    /\ \/ \E kind \in {"sha256", "sha1"} : Matches(a.entry, kind, m, {})
       \/ \E k \in DOMAIN m.sigs : Matches(a.entry, "x509", m, m.sigs[k].signers)
AcceptedIsMeasured ==
    /\ pc = "done" /\ ret = "SUCCESS" /\ conf.tpm = "works" =>
           /\ \E k \in DOMAIN pcr4 : pcr4[k] = image.sha256
           /\ conf.secure /\ http # "ok" => \E k \in DOMAIN pcr7 : Authorises(pcr7[k], image)
    /\ method = "hash" /\ conf.tpm # "fails" =>
           \E a \in measured : a.name \in {"db", "vendor_db", "MokListRT"} /\ a.entry.kind # "x509"
=============================================================================
