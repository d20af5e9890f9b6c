------------------------- MODULE ImageVerifyProofs -------------------------
(***************************************************************************)
(* Proofs about ImageVerify for every set of images and configurations:    *)
(* the verdict of the step-by-step verification is the order-free policy,  *)
(* nothing is measured into PCR 7 twice, and what is accepted is measured. *)
(***************************************************************************)
EXTENDS ImageVerify, WellFoundedInduction, TLAPS

(* check_denylist's eight probes find an entry exactly when one of the     *)
(* denylists names the image or a signer.                                  *)
LEMMA DenylistMeaning ==
    ASSUME NEW m, NEW signers
    PROVE  check_denylist(m, signers) <=> Denied(m, signers)
<1>1. DOMAIN DenyProbes = 1 .. 8
  BY DEF DenyProbes
<1>2. check_denylist(m, signers) <=>
         \/ Hit(DenyProbes[1], m, signers) \/ Hit(DenyProbes[2], m, signers)
         \/ Hit(DenyProbes[3], m, signers) \/ Hit(DenyProbes[4], m, signers)
         \/ Hit(DenyProbes[5], m, signers) \/ Hit(DenyProbes[6], m, signers)
         \/ Hit(DenyProbes[7], m, signers) \/ Hit(DenyProbes[8], m, signers)
  <2>1. \A n \in 1 .. 8 : n = 1 \/ n = 2 \/ n = 3 \/ n = 4 \/ n = 5 \/ n = 6 \/ n = 7 \/ n = 8
    OBVIOUS
  <2>2. {1, 2, 3, 4, 5, 6, 7, 8} \subseteq 1 .. 8
    OBVIOUS
  <2>. QED  BY <1>1, <2>1, <2>2, Zenon DEF check_denylist, Found
<1>3. Names("vendor_dbx", m, signers, TRUE) <=>
         \/ Hit(DenyProbes[1], m, signers) \/ Hit(DenyProbes[2], m, signers)
         \/ Hit(DenyProbes[3], m, signers)
  BY DEF Names, Hit, Matches, DenyProbes
<1>4. Names("dbx", m, signers, TRUE) <=>
         \/ Hit(DenyProbes[4], m, signers) \/ Hit(DenyProbes[5], m, signers)
         \/ Hit(DenyProbes[6], m, signers)
  BY DEF Names, Hit, Matches, DenyProbes
<1>5. Names("MokListX", m, signers, FALSE) <=>
         \/ Hit(DenyProbes[7], m, signers) \/ Hit(DenyProbes[8], m, signers)
  BY DEF Names, Hit, Matches, DenyProbes
<1>. QED  BY <1>2, <1>3, <1>4, <1>5, Zenon DEF Denied

(* The same for check_allowlist, with and without ignore_db.               *)
LEMMA AllowlistMeaning ==
    ASSUME NEW m, NEW signers, conf \in Configs
    PROVE  check_allowlist(m, signers) <=> Trusted(m, signers)
<1>. conf.ignore_db \in BOOLEAN
  BY ConfigsAssumption
<1>1. Found(OwnProbes, m, signers) <=>
         Names("vendor_db", m, signers, FALSE) \/ Names("MokListRT", m, signers, FALSE)
  <2>1. Names("vendor_db", m, signers, FALSE) <=>
           Hit(OwnProbes[1], m, signers) \/ Hit(OwnProbes[2], m, signers)
    BY DEF Names, Hit, Matches, OwnProbes
  <2>2. Names("MokListRT", m, signers, FALSE) <=>
           Hit(OwnProbes[3], m, signers) \/ Hit(OwnProbes[4], m, signers)
    BY DEF Names, Hit, Matches, OwnProbes
  <2>3. DOMAIN OwnProbes = {1, 2, 3, 4}
    <3>1. DOMAIN OwnProbes = 1 .. 4
      BY DEF OwnProbes
    <3>. QED  BY <3>1
  <2>. QED  BY <2>1, <2>2, <2>3, Zenon DEF Found
<1>2. Found(DbProbes \o OwnProbes, m, signers) <=>
         Names("db", m, signers, TRUE) \/ Found(OwnProbes, m, signers)
  <2>1. /\ Len(DbProbes) = 3 /\ Len(OwnProbes) = 4
        /\ DOMAIN DbProbes = 1 .. 3 /\ DOMAIN OwnProbes = 1 .. 4
    BY DEF DbProbes, OwnProbes
  <2>2. /\ DOMAIN (DbProbes \o OwnProbes) = 1 .. 7
        /\ \A n \in 1 .. 3 : (DbProbes \o OwnProbes)[n] = DbProbes[n]
        /\ \A n \in 1 .. 4 : (DbProbes \o OwnProbes)[n + 3] = OwnProbes[n]
    BY <2>1 DEF DbProbes, OwnProbes
  <2>3. Found(DbProbes \o OwnProbes, m, signers) <=>
           Found(DbProbes, m, signers) \/ Found(OwnProbes, m, signers)
    <3>1. \A n \in 1 .. 7 : n \in 1 .. 3 \/ (n - 3 \in 1 .. 4 /\ n = (n - 3) + 3)
      OBVIOUS
    <3>2. \A n \in 1 .. 4 : n + 3 \in 1 .. 7
      OBVIOUS
    <3>3. 1 .. 3 \subseteq 1 .. 7
      OBVIOUS
    <3>. QED  BY <2>1, <2>2, <3>1, <3>2, <3>3 DEF Found
  <2>4. Found(DbProbes, m, signers) <=> Names("db", m, signers, TRUE)
    <3>1. Names("db", m, signers, TRUE) <=>
             \/ Hit(DbProbes[1], m, signers) \/ Hit(DbProbes[2], m, signers)
             \/ Hit(DbProbes[3], m, signers)
      BY DEF Names, Hit, Matches, DbProbes
    <3>2. DOMAIN DbProbes = {1, 2, 3}
      BY <2>1
    <3>. QED  BY <3>1, <3>2, Zenon DEF Found
  <2>. QED  BY <2>3, <2>4
<1>. QED  BY <1>1, <1>2 DEF check_allowlist, AllowProbes, Trusted

(* The verdict on one signature of an image whose hash is not denied.      *)
LEMMA SignatureVerdict ==
    ASSUME conf \in Configs, NEW m, NEW k, m.sigs[k].pkcs
    PROVE  Verdict(m, m.sigs[k].signers) = "SUCCESS" <=> GoodAt(m, k)
<1>1. BuiltIn(m.sigs[k].signers) # {} <=>
         {conf.shim_cert, conf.vendor_cert} \cap m.sigs[k].signers # {}
  BY DEF BuiltIn
<1>. QED
  BY <1>1, DenylistMeaning, AllowlistMeaning DEF Verdict, GoodAt

---------------------------------------------------------------------------
(* The inductive invariant: what each program point has established.       *)

(* Some entry of the table before the n-th is a good signature.            *)
GoodBefore(n) == \E k \in DOMAIN image.sigs : k < n /\ GoodAt(image, k)

PointInv ==
    /\ pc \in {"measure_first", "deny", "allow", "sigs", "sbat", "measure"} => image.readable
    /\ pc \in {"deny", "allow", "sigs", "sbat"} => conf.secure
    /\ pc \in {"measure_first", "deny", "allow", "sigs"} => http = "untried"
    /\ pc \in {"measure_first", "deny", "allow"} => i = 1
    /\ pc \in {"allow", "sigs"} => ~Denied(image, {})

TableInv ==
    pc = "sigs" =>
        /\ ~Trusted(image, {})
        /\ image.sigs # <<>> /\ image.fits
        /\ \A k \in DOMAIN image.sigs : k < i => image.sigs[k].sized
        /\ ret = "SUCCESS" <=> GoodBefore(i)

(* Before the loop no status has been assigned.                            *)
RetInv == pc \in {"measure_first", "deny", "allow"} => ret = "NOT_FOUND"

AcceptInv ==
    /\ pc = "sbat" => Policy(image)
    /\ pc = "measure" /\ conf.secure => Policy(image) /\ image.sbat

(* The state is typed, and this boot's configuration is one there is.      *)
Typed == conf \in Configs /\ TypeOK

VerdictInv == Typed /\ PointInv /\ TableInv /\ RetInv /\ AcceptInv /\ VerdictIsPolicy

(* The initial state: nothing has been verified.                           *)
LEMMA VerdictInit == Init => VerdictInv
<1>. SUFFICES ASSUME Init PROVE VerdictInv
  OBVIOUS
<1>. Len(image.sigs) \in Nat
  BY ImagesAssumption DEF Init
<1>1. Typed
  BY BoundsAssumption DEF Init, Typed, TypeOK, Callers, Status
<1>. QED
  BY <1>1 DEF Init, VerdictInv, PointInv, TableInv, RetInv, AcceptInv, VerdictIsPolicy

(* The policy on the image at hand is a function of the configuration, the *)
(* image and the remote verifier's answer.                                 *)
LEMMA PolicyStable ==
    ASSUME conf' = conf, image' = image
    PROVE  /\ Denied(image, {})' <=> Denied(image, {})
           /\ Trusted(image, {})' <=> Trusted(image, {})
           /\ \A k : GoodAt(image, k)' <=> GoodAt(image, k)
           /\ http' = http => (Policy(image)' <=> Policy(image))
<1>1. Denied(image, {})' <=> Denied(image, {})
  BY DEF Denied, Names
<1>2. Trusted(image, {})' <=> Trusted(image, {})
  BY DEF Trusted, Names
<1>3. \A k : GoodAt(image, k)' <=> GoodAt(image, k)
  BY DEF GoodAt, Denied, Trusted, Names
<1>4. http' = http => (Policy(image)' <=> Policy(image))
  BY <1>1, <1>2, <1>3 DEF Policy, GoodSignature, TableInOrder
<1>. QED  BY <1>1, <1>2, <1>3, <1>4

(* Every step keeps the invariant.                                         *)
LEMMA VerdictNext == VerdictInv /\ [Next]_vars => VerdictInv'
<1>. SUFFICES ASSUME VerdictInv, [Next]_vars PROVE VerdictInv'
  OBVIOUS
<1>. USE DEF VerdictInv
<1>l. \A m \in Images : Len(m.sigs) \in Nat /\ DOMAIN m.sigs = 1 .. Len(m.sigs)
  BY ImagesAssumption
<1>b. /\ image.readable \in BOOLEAN /\ image.fits \in BOOLEAN /\ image.sbat \in BOOLEAN
      /\ conf.secure \in BOOLEAN
  BY ImagesAssumption, ConfigsAssumption DEF Typed, TypeOK
<1>1. ASSUME NEW c \in Callers, NEW m \in Images, Begin(c, m) PROVE VerdictInv'
  <2>1. Typed'
    BY <1>1, <1>l, BoundsAssumption DEF Begin, Return, Typed, TypeOK, Status
  <2>2. PointInv' /\ RetInv'
    BY <1>1, ImagesAssumption, ConfigsAssumption DEF Begin, Return, PointInv, RetInv, Typed, TypeOK
  <2>3. pc' \notin {"sigs", "sbat"} /\ (pc' = "measure" => ~conf'.secure)
    BY <1>1, <1>b DEF Begin, Return
  <2>4. TableInv' /\ AcceptInv'
    BY <2>3 DEF TableInv, AcceptInv
  <2>5. VerdictIsPolicy'
    BY <1>1, ImagesAssumption DEF Begin, Return, VerdictIsPolicy
  <2>. QED  BY <2>1, <2>2, <2>4, <2>5
<1>2. ASSUME MeasureFirst PROVE VerdictInv'
  <2>1. Typed'
    BY <1>2 DEF MeasureFirst, Return, Typed, TypeOK, Status
  <2>2. PointInv' /\ RetInv' /\ TableInv' /\ AcceptInv'
    BY <1>2 DEF MeasureFirst, Return, PointInv, RetInv, TableInv, AcceptInv
  <2>3. VerdictIsPolicy'
    BY <1>2, <1>b DEF MeasureFirst, Return, VerdictIsPolicy
  <2>. QED  BY <2>1, <2>2, <2>3
<1>3. ASSUME CheckHashDenied PROVE VerdictInv'
  <2>. conf' = conf /\ image' = image /\ http' = http
    BY <1>3 DEF CheckHashDenied
  <2>1. Typed'
    BY <1>3 DEF CheckHashDenied, Return, Typed, TypeOK, Status
  <2>2. PointInv' /\ RetInv' /\ TableInv' /\ AcceptInv'
    BY <1>3, PolicyStable, DenylistMeaning
    DEF CheckHashDenied, Return, PointInv, RetInv, TableInv, AcceptInv
  <2>3. VerdictIsPolicy'
    <3>1. pc' = "done" => ret' # "SUCCESS" /\ ~Policy(image)
      BY <1>3, DenylistMeaning DEF CheckHashDenied, Return, Policy
    <3>. QED  BY <3>1, PolicyStable DEF VerdictIsPolicy
  <2>. QED  BY <2>1, <2>2, <2>3
<1>4. ASSUME CheckHashAllowed PROVE VerdictInv'
  <2>. conf' = conf /\ image' = image /\ http' = http /\ i' = i
    BY <1>4 DEF CheckHashAllowed
  <2>a. conf \in Configs
    BY DEF Typed, TypeOK
  <2>b. /\ pc = "allow" /\ ret = "NOT_FOUND" /\ i = 1
        /\ image.readable /\ conf.secure /\ ~Denied(image, {}) /\ http = "untried"
    BY <1>4 DEF CheckHashAllowed, PointInv, RetInv
  <2>1. CASE check_allowlist(image, {})
    <3>1. Allow({}) /\ pc' = "sbat" /\ ret' = ret
      BY <2>1, <1>4 DEF CheckHashAllowed
    <3>2. Policy(image)
      BY <2>1, <2>a, <2>b, AllowlistMeaning DEF Policy
    <3>3. method' \in {"nothing", "hash", "cert"}
      BY <3>1 DEF Allow, SetMethod, update_verification_method, Typed, TypeOK
    <3>4. Typed'
      BY <3>1, <3>3, <1>4 DEF CheckHashAllowed, Typed, TypeOK
    <3>. QED
      BY <3>1, <3>2, <3>4, <2>b, PolicyStable
      DEF PointInv, RetInv, TableInv, AcceptInv, VerdictIsPolicy
  <2>2. CASE ~check_allowlist(image, {})
    <3>1. /\ method' = method
          /\ \/ image.sigs = <<>> /\ pc' = "done" /\ ret' = "SECURITY_VIOLATION"
             \/ image.sigs # <<>> /\ ~image.fits /\ pc' = "done" /\ ret' = "INVALID_PARAMETER"
             \/ image.sigs # <<>> /\ image.fits /\ pc' = "sigs" /\ ret' = ret
      BY <2>2, <1>4 DEF CheckHashAllowed, Allow, Return
    <3>2. ~Trusted(image, {})
      BY <2>2, <2>a, AllowlistMeaning
    <3>3. Typed'
      BY <3>1, <1>4 DEF CheckHashAllowed, Typed, TypeOK, Status
    <3>4. pc' = "done" => ret' # "SUCCESS" /\ ~Policy(image)
      BY <3>1, <3>2 DEF Policy, TableInOrder
    <3>5. VerdictIsPolicy'
      BY <3>4, PolicyStable DEF VerdictIsPolicy
    <3>6. TableInv'
      <4>1. ~GoodBefore(i)'
        BY <2>b, <1>l DEF GoodBefore, Typed, TypeOK
      <4>2. \A k \in DOMAIN image.sigs : ~(k < i)
        BY <2>b, <1>l DEF Typed, TypeOK
      <4>. QED  BY <3>1, <3>2, <2>b, <4>1, <4>2, PolicyStable DEF TableInv
    <3>. QED
      BY <3>1, <3>3, <3>5, <3>6, <2>b, PolicyStable DEF PointInv, RetInv, AcceptInv
  <2>. QED  BY <2>1, <2>2
<1>5. ASSUME NextSignature PROVE VerdictInv'
  <2>. conf' = conf /\ image' = image /\ http' = http
    BY <1>5 DEF NextSignature
  <2>. DEFINE s == image.sigs[i]
  <2>a. conf \in Configs /\ image \in Images
    BY DEF Typed, TypeOK
  <2>b. /\ pc = "sigs" /\ i \in DOMAIN image.sigs /\ i \in Nat
        /\ s.pkcs \in BOOLEAN /\ s.sized \in BOOLEAN
        /\ image.readable /\ conf.secure /\ ~Denied(image, {}) /\ ~Trusted(image, {})
    BY <1>5, <1>l, <2>a, ImagesAssumption DEF NextSignature, Typed, TypeOK, PointInv, TableInv
  <2>1. CASE ~s.sized
    <3>1. pc' = "done" /\ ret' = "INVALID_PARAMETER" /\ method' = method /\ i' = i
      BY <1>5, <2>1 DEF NextSignature, Return
    <3>2. ~Policy(image)
      BY <2>1, <2>b DEF Policy, TableInOrder
    <3>3. Typed'
      BY <3>1, <1>5 DEF NextSignature, Typed, TypeOK, Status
    <3>. QED
      BY <3>1, <3>2, <3>3, PolicyStable
      DEF PointInv, RetInv, TableInv, AcceptInv, VerdictIsPolicy
  <2>2. CASE s.sized
    <3>1. /\ pc' = pc /\ i' = i + 1
          /\ s.pkcs => verify_one_signature(s.signers)
          /\ s.pkcs => ret' = IF ret # "SUCCESS" THEN Verdict(image, s.signers) ELSE ret
          /\ ~s.pkcs => ret' = ret /\ method' = method
      BY <1>5, <2>2, <2>b DEF NextSignature
    <3>2. method' \in {"nothing", "hash", "cert"}
      BY <3>1, <2>b
      DEF verify_one_signature, Allow, SetMethod, update_verification_method, Typed, TypeOK
    <3>3. Verdict(image, s.signers) \in Status
      BY DEF Verdict, Status
    <3>4. Typed'
      BY <3>1, <3>2, <3>3, <2>b, <1>5, <1>l DEF NextSignature, Typed, TypeOK
    <3>5. GoodBefore(i + 1) <=> GoodBefore(i) \/ GoodAt(image, i)
      BY <2>b, <1>l, <2>a DEF GoodBefore
    <3>6. GoodAt(image, i) <=> s.pkcs /\ Verdict(image, s.signers) = "SUCCESS"
      BY <2>a, <2>b, SignatureVerdict DEF GoodAt
    <3>7. ret' = "SUCCESS" <=> GoodBefore(i + 1)
      BY <3>1, <3>5, <3>6, <2>b DEF TableInv
    <3>8. GoodBefore(i)' <=> GoodBefore(i + 1)
      BY <3>1, PolicyStable DEF GoodBefore
    <3>9. \A k \in DOMAIN image.sigs : k < i + 1 => image.sigs[k].sized
      BY <2>2, <2>b, <1>l, <2>a DEF TableInv
    <3>10. TableInv'
      BY <3>1, <3>7, <3>8, <3>9, <2>b, PolicyStable DEF TableInv
    <3>. QED
      BY <3>1, <3>4, <3>10, <2>b, PolicyStable DEF PointInv, RetInv, AcceptInv, VerdictIsPolicy
  <2>. QED  BY <2>1, <2>2, <2>b
<1>6. ASSUME AskRemote PROVE VerdictInv'
  <2>. conf' = conf /\ image' = image /\ i' = i /\ method' = method
    BY <1>6 DEF AskRemote
  <2>b. /\ pc = "sigs" /\ image.readable /\ conf.secure
        /\ ~Denied(image, {}) /\ ~Trusted(image, {})
        /\ i > Len(image.sigs) /\ image.sigs # <<>> /\ image.fits
    BY <1>6 DEF AskRemote, PointInv, TableInv
  <2>1. http' \in {"untried", "ok", "failed"}
    BY <1>6 DEF AskRemote
  <2>2. IF http' = "ok" \/ ret = "SUCCESS"
        THEN pc' = "sbat" /\ ret' = ret ELSE pc' = "done" /\ ret' = ret
    BY <1>6 DEF AskRemote, Return
  <2>3. Typed'
    BY <2>1, <2>2, <1>6 DEF AskRemote, Typed, TypeOK
  <2>4. TableInOrder(image) /\ (ret = "SUCCESS" <=> GoodSignature(image))
    BY <2>b, <1>l DEF TableInv, TableInOrder, GoodBefore, GoodSignature, Typed, TypeOK
  <2>5. /\ TableInOrder(image)'
        /\ GoodSignature(image)' <=> GoodSignature(image)
    BY <2>4, PolicyStable DEF TableInOrder, GoodSignature
  <2>6. Policy(image)' <=> GoodSignature(image) \/ http' = "ok"
    BY <2>b, <2>5, PolicyStable DEF Policy
  <2>. QED
    BY <2>2, <2>3, <2>4, <2>6, <2>b DEF PointInv, RetInv, TableInv, AcceptInv, VerdictIsPolicy
<1>7. ASSUME CheckSbat PROVE VerdictInv'
  <2>. conf' = conf /\ image' = image /\ http' = http
    BY <1>7 DEF CheckSbat
  <2>1. Typed'
    BY <1>7 DEF CheckSbat, Return, Typed, TypeOK, Status
  <2>. QED
    BY <2>1, <1>7, <1>b, PolicyStable
    DEF CheckSbat, Return, PointInv, RetInv, TableInv, AcceptInv, VerdictIsPolicy
<1>8. ASSUME Measure PROVE VerdictInv'
  <2>. conf' = conf /\ image' = image /\ http' = http
    BY <1>8 DEF Measure
  <2>1. Typed'
    BY <1>8 DEF Measure, Return, Typed, TypeOK, Status
  <2>. QED
    BY <2>1, <1>8, <1>b, PolicyStable
    DEF Measure, Return, PointInv, RetInv, TableInv, AcceptInv, VerdictIsPolicy
<1>9. ASSUME UNCHANGED vars PROVE VerdictInv'
  <2>. conf' = conf /\ image' = image /\ http' = http
    BY <1>9 DEF vars
  <2>1. Typed' /\ PointInv' /\ RetInv'
    BY <1>9, PolicyStable DEF vars, Typed, TypeOK, PointInv, RetInv
  <2>2. GoodBefore(i)' <=> GoodBefore(i)
    BY <1>9, PolicyStable DEF vars, GoodBefore
  <2>3. TableInv' /\ AcceptInv' /\ VerdictIsPolicy'
    BY <1>9, <2>2, PolicyStable DEF vars, TableInv, AcceptInv, VerdictIsPolicy
  <2>. QED  BY <2>1, <2>3
<1>. QED
  BY <1>1, <1>2, <1>3, <1>4, <1>5, <1>6, <1>7, <1>8, <1>9 DEF Next

(* For all images and databases, in secure mode shim accepts an image      *)
(* exactly when the order-free policy and its SBAT section allow it.       *)
THEOREM VerdictCorrect == Spec => []VerdictIsPolicy
<1>1. VerdictInv => VerdictIsPolicy
  BY DEF VerdictInv
<1>. QED  BY <1>1, VerdictInit, VerdictNext, PTL DEF Spec

(* Type correctness of the verification's state.                           *)
THEOREM VerifyTypeCorrect == Spec => []TypeOK
<1>1. VerdictInv => TypeOK
  BY DEF VerdictInv, Typed
<1>. QED  BY <1>1, VerdictInit, VerdictNext, PTL DEF Spec

---------------------------------------------------------------------------
(* Measurements *)

(* Everything in PCR 7 is remembered in measureddata, or its record failed *)
(* or was lost.                                                            *)
MeasureInv == pcr7 \in Seq(measured \cup unrecorded) /\ MeasuredOnce

(* tpm_measure_variable keeps it, whatever it is asked to measure.         *)
LEMMA MeasureKeeps ==
    ASSUME NEW a, MeasureInv, tpm_measure_variable(a), conf' = conf
    PROVE  MeasureInv'
<1>. DEFINE W == measured \cup unrecorded
<1>0. /\ pcr7 \in Seq(W) /\ DOMAIN pcr7 = 1 .. Len(pcr7) /\ Len(pcr7) \in Nat
      /\ \A k \in DOMAIN pcr7 : pcr7[k] \in W
  BY DEF MeasureInv
<1>1. CASE UNCHANGED authority
  BY <1>1 DEF authority, MeasureInv, MeasuredOnce
(* The list of what is remembered with one more entry, or with fewer.      *)
<1>2. CASE /\ a \notin measured /\ pcr7' = pcr7 /\ conf.tpm = "none"
           /\ W \subseteq measured' \cup unrecorded' /\ unrecorded \subseteq unrecorded'
  <2>1. pcr7' \in Seq(measured' \cup unrecorded')
    BY <1>0, <1>2
  <2>2. MeasuredOnce'
    BY <1>2 DEF MeasureInv, MeasuredOnce
  <2>. QED  BY <2>1, <2>2 DEF MeasureInv
<1>3. CASE /\ a \notin measured /\ pcr7' = Append(pcr7, a)
           /\ W \cup {a} \subseteq measured' \cup unrecorded'
           /\ unrecorded \subseteq unrecorded' /\ measured' \subseteq measured \cup {a}
  <2>1. pcr7 \in Seq(measured' \cup unrecorded') /\ a \in measured' \cup unrecorded'
    BY <1>0, <1>3
  <2>2. pcr7' \in Seq(measured' \cup unrecorded')
    BY <2>1, <1>3
  <2>3. /\ DOMAIN pcr7' = 1 .. Len(pcr7) + 1
        /\ pcr7'[Len(pcr7) + 1] = a
        /\ \A k \in 1 .. Len(pcr7) : pcr7'[k] = pcr7[k]
    BY <2>1, <1>0, <1>3
  <2>4. \A k \in 1 .. Len(pcr7) : pcr7[k] = a => a \in unrecorded'
    BY <1>0, <1>3
  <2>5. \A x, y \in DOMAIN pcr7' : x # y /\ pcr7'[x] = pcr7'[y] => pcr7'[x] \in unrecorded'
    BY <2>3, <2>4, <1>0, <1>3 DEF MeasureInv, MeasuredOnce
  <2>6. conf.tpm # "none" => \A b \in measured' : \E k \in DOMAIN pcr7' : pcr7'[k] = b
    BY <2>3, <1>0, <1>3 DEF MeasureInv, MeasuredOnce
  <2>. QED  BY <2>2, <2>5, <2>6 DEF MeasureInv, MeasuredOnce
<1>4. CASE /\ a \notin measured /\ Extend(a) /\ measured' = measured \cup {a}
           /\ unrecorded' = unrecorded
  BY <1>2, <1>3, <1>4 DEF Extend
<1>5. CASE /\ a \notin measured /\ conf.tpm = "fails" /\ Extend(a)
           /\ measured' = IF lost' THEN {} ELSE measured
           /\ unrecorded' = unrecorded \cup {a} \cup (measured \ measured')
  <2>1. pcr7' = Append(pcr7, a)
    BY <1>5 DEF Extend
  <2>. QED  BY <2>1, <1>3, <1>5
<1>. QED  BY <1>1, <1>4, <1>5 DEF tpm_measure_variable

LEMMA MeasureInit == Init => MeasureInv
  BY DEF Init, MeasureInv, MeasuredOnce

LEMMA MeasureStep == MeasureInv /\ [Next]_vars => MeasureInv'
<1>. SUFFICES ASSUME MeasureInv, [Next]_vars PROVE MeasureInv'
  OBVIOUS
<1>c. conf' = conf
  BY DEF Next, vars, Begin, MeasureFirst, CheckHashDenied, CheckHashAllowed, NextSignature,
         AskRemote, CheckSbat, Measure
<1>1. CASE UNCHANGED authority
  BY <1>1, <1>c DEF authority, MeasureInv, MeasuredOnce
<1>2. CASE CheckHashDenied
  BY <1>1, <1>2, <1>c, MeasureKeeps DEF CheckHashDenied, authority
<1>3. CASE CheckHashAllowed
  BY <1>1, <1>3, <1>c, MeasureKeeps DEF CheckHashAllowed, Allow, authority
<1>4. CASE NextSignature
  BY <1>1, <1>4, <1>c, MeasureKeeps DEF NextSignature, verify_one_signature, Allow, authority
<1>5. UNCHANGED authority \/ CheckHashDenied \/ CheckHashAllowed \/ NextSignature
  BY DEF Next, vars, authority, Begin, MeasureFirst, AskRemote, CheckSbat, Measure
<1>. QED  BY <1>1, <1>2, <1>3, <1>4, <1>5

(* No authority is extended into PCR 7 twice during a boot unless its own  *)
(* record failed or was lost, and what is remembered has been extended.    *)
THEOREM NothingMeasuredTwice == Spec => []MeasuredOnce
<1>1. MeasureInv => MeasuredOnce
  BY DEF MeasureInv
<1>. QED  BY <1>1, MeasureInit, MeasureStep, PTL DEF Spec

---------------------------------------------------------------------------
(* What is measured of an accepted image                                   *)

(* The first of some entries exists.                                       *)
LEMMA LeastElement ==
    ASSUME NEW S, S \subseteq Nat, S # {}
    PROVE  \E n \in S : \A o \in S : n <= o
<1>. DEFINE R == {p \in Nat \X Nat : p[1] < p[2]}
<1>1. IsWellFoundedOn(R, Nat)
  BY NatLessThanWellFounded DEF OpToRel
<1>2. PICK n \in S : \A o \in S : ~(<<o, n>> \in R)
  BY <1>1, WFMin
<1>3. \A x, y \in Nat : <<x, y>> \in R <=> x < y
  OBVIOUS
<1>4. \A x, y \in Nat : x < y \/ y <= x
  OBVIOUS
<1>. HIDE DEF R
<1>. QED  BY <1>2, <1>3, <1>4

(* A search that finds something finds the first there is.                 *)
LEMMA FirstHitHits ==
    ASSUME NEW probes, NEW n \in Nat, DOMAIN probes = 1 .. n, NEW m, NEW signers,
           Found(probes, m, signers)
    PROVE  \E k \in DOMAIN probes :
              FirstHit(probes, m, signers) = probes[k] /\ Hit(probes[k], m, signers)
<1>. DEFINE S == {k \in DOMAIN probes : Hit(probes[k], m, signers)}
<1>0. S \subseteq Nat /\ S # {}
  BY DEF Found
<1>1. PICK k \in S : \A o \in S : k <= o
  BY <1>0, LeastElement, Zenon
<1>2. \A o \in 1 .. k - 1 : ~Hit(probes[o], m, signers)
  BY <1>1
<1>. DEFINE first == CHOOSE x \in DOMAIN probes :
                        /\ Hit(probes[x], m, signers)
                        /\ \A o \in 1 .. x - 1 : ~Hit(probes[o], m, signers)
<1>3. first \in DOMAIN probes /\ Hit(probes[first], m, signers)
  BY <1>1, <1>2
<1>. QED  BY <1>3 DEF FirstHit

(* What check_db_hash and check_db_cert measure is the entry they matched. *)
LEMMA AuthorityMatches ==
    ASSUME conf \in Configs, NEW probes, NEW n \in Nat, DOMAIN probes = 1 .. n,
           \A k \in DOMAIN probes : probes[k].list \in Lists,
           NEW m, NEW signers, Found(probes, m, signers)
    PROVE  LET p == FirstHit(probes, m, signers)
               a == Authority(probes, m, signers)
           IN  /\ \E k \in DOMAIN probes : p = probes[k]
               /\ a.name = LogName(p.list) /\ Matches(a.entry, p.kind, m, signers)
<1>. DEFINE p == FirstHit(probes, m, signers)
            l == conf.lists[p.list]
            S == {k \in DOMAIN l : Matches(l[k], p.kind, m, signers)}
            first == CHOOSE k \in DOMAIN l :
                        /\ Matches(l[k], p.kind, m, signers)
                        /\ \A o \in 1 .. k - 1 : ~Matches(l[o], p.kind, m, signers)
<1>1. PICK x \in DOMAIN probes : p = probes[x] /\ Hit(probes[x], m, signers)
  BY FirstHitHits, Zenon
<1>2. DOMAIN l = 1 .. Len(l) /\ Len(l) \in Nat
  BY <1>1, ConfigsAssumption
<1>3. PICK k \in S : \A o \in S : k <= o
  <2>1. S \subseteq Nat /\ S # {}
    BY <1>1, <1>2 DEF Hit
  <2>. QED  BY <2>1, LeastElement, Zenon
<1>4. \A o \in 1 .. k - 1 : ~Matches(l[o], p.kind, m, signers)
  BY <1>2, <1>3
<1>5. first \in DOMAIN l /\ Matches(l[first], p.kind, m, signers)
  BY <1>3, <1>4
<1>6. Authority(probes, m, signers) = [name |-> LogName(p.list), entry |-> l[first]]
  BY DEF Authority
<1>7. /\ Authority(probes, m, signers).name = LogName(p.list)
      /\ Authority(probes, m, signers).entry = l[first]
  BY <1>6
<1>. QED  BY <1>1, <1>5, <1>7, Zenon

(* The probes of check_allowlist.                                          *)
AllowNames == {"db", "vendor_db", "MokListRT"}

LEMMA AllowProbesShape ==
    ASSUME conf \in Configs
    PROVE  /\ \E n \in Nat : DOMAIN AllowProbes = 1 .. n
           /\ \A k \in DOMAIN AllowProbes :
                 /\ AllowProbes[k].list \in AllowNames
                 /\ AllowProbes[k].kind \in {"sha256", "sha1", "x509"}
<1>. DEFINE Probe == [list : AllowNames, kind : {"sha256", "sha1", "x509"}]
<1>1. DbProbes \in Seq(Probe)
  BY DEF DbProbes, AllowNames
<1>2. OwnProbes \in Seq(Probe)
  BY DEF OwnProbes, AllowNames
<1>3. AllowProbes \in Seq(Probe)
  <2>1. DbProbes \o OwnProbes \in Seq(Probe)
    BY <1>1, <1>2
  <2>. QED  BY <2>1, <1>2 DEF AllowProbes
<1>4. DOMAIN AllowProbes = 1 .. Len(AllowProbes) /\ Len(AllowProbes) \in Nat
  BY <1>3
<1>5. \A k \in DOMAIN AllowProbes : AllowProbes[k] \in Probe
  <2>1. \A P : \A s \in Seq(P) : \A k \in 1 .. Len(s) : s[k] \in P
    OBVIOUS
  <2>. QED  BY <2>1, <1>3, <1>4, Zenon
<1>. QED  BY <1>4, <1>5

(* What allows an image is measured under the name of its list.            *)
LEMMA AllowAuthority ==
    ASSUME conf \in Configs, NEW m, NEW signers, check_allowlist(m, signers)
    PROVE  LET p == FirstHit(AllowProbes, m, signers)
               a == Authority(AllowProbes, m, signers)
           IN  /\ p.kind \in {"sha256", "sha1", "x509"}
               /\ a.name \in AllowNames
               /\ Matches(a.entry, p.kind, m, signers)
<1>. DEFINE p == FirstHit(AllowProbes, m, signers)
            a == Authority(AllowProbes, m, signers)
<1>1. PICK n \in Nat : DOMAIN AllowProbes = 1 .. n
  BY AllowProbesShape
<1>2. \A k \in DOMAIN AllowProbes : AllowProbes[k].list \in AllowNames
                                  /\ AllowProbes[k].kind \in {"sha256", "sha1", "x509"}
  BY AllowProbesShape
<1>3. \A k \in DOMAIN AllowProbes : AllowProbes[k].list \in Lists
  BY <1>2 DEF AllowNames, Lists
<1>4. /\ \E k \in DOMAIN AllowProbes : p = AllowProbes[k]
      /\ a.name = LogName(p.list) /\ Matches(a.entry, p.kind, m, signers)
  BY <1>1, <1>3, AuthorityMatches DEF check_allowlist
<1>. QED  BY <1>2, <1>4 DEF LogName, AllowNames

(* Unless the TPM or an allocation fails, tpm_measure_variable remembers   *)
(* the authority and forgets nothing.                                      *)
LEMMA MeasureRemembers ==
    ASSUME NEW a, tpm_measure_variable(a), conf.tpm # "fails"
    PROVE  measured \subseteq measured' /\ a \in measured'
  BY DEF tpm_measure_variable, authority

(* The image is in PCR 4, and something that allows it in measureddata.    *)
Logged     == \E k \in DOMAIN pcr4 : pcr4[k] = image.sha256
Authorised == \E a \in measured : Authorises(a, image)

(* shim_verify has measured before it verifies, the others measure last.   *)
LogInv ==
    /\ pcr4 \in Seq({m.sha256 : m \in Images})
    /\ /\ conf.tpm = "works"
       /\ \/ pc = "done" /\ ret = "SUCCESS"
          \/ pc \in {"deny", "allow", "sigs", "sbat"} /\ caller = "shim_verify"
       => Logged

(* From the check that succeeds on, its authority is remembered.           *)
GrantInv ==
    conf.tpm # "fails" =>
        /\ pc = "sigs" /\ ret = "SUCCESS" => Authorised
        /\ /\ pc \in {"sbat", "measure"} \/ (pc = "done" /\ ret = "SUCCESS")
           /\ conf.secure /\ http # "ok"
           => Authorised
        /\ method = "hash" =>
              \E a \in measured : a.name \in AllowNames /\ a.entry.kind # "x509"

LEMMA LogAppended ==
    ASSUME Typed, LogInv, tpm_log_pe(image), image' = image
    PROVE  /\ pcr4' \in Seq({m.sha256 : m \in Images})
           /\ Logged => Logged'
           /\ conf.tpm = "works" => Logged'
<1>. DEFINE V == {m.sha256 : m \in Images}
<1>1. pcr4 \in Seq(V) /\ image.sha256 \in V
  BY DEF LogInv, Typed, TypeOK
<1>2. CASE pcr4' = pcr4 /\ conf.tpm # "works"
  BY <1>1, <1>2 DEF Logged
<1>3. CASE pcr4' = Append(pcr4, image.sha256)
  <2>1. /\ pcr4' \in Seq(V)
        /\ DOMAIN pcr4 = 1 .. Len(pcr4) /\ Len(pcr4) \in Nat
        /\ DOMAIN pcr4' = 1 .. Len(pcr4) + 1
        /\ pcr4'[Len(pcr4) + 1] = image.sha256
        /\ \A k \in 1 .. Len(pcr4) : pcr4'[k] = pcr4[k]
    BY <1>1, <1>3
  <2>. QED  BY <2>1 DEF Logged
<1>. QED  BY <1>2, <1>3 DEF tpm_log_pe

LEMMA LogStep == VerdictInv /\ LogInv /\ [Next]_vars => LogInv'
<1>. SUFFICES ASSUME VerdictInv, LogInv, [Next]_vars PROVE LogInv'
  OBVIOUS
<1>. Typed
  BY DEF VerdictInv
<1>1. ASSUME NEW c \in Callers, NEW m \in Images, Begin(c, m) PROVE LogInv'
  BY <1>1 DEF Begin, Return, LogInv
<1>2. CASE MeasureFirst
  BY <1>2, LogAppended DEF MeasureFirst, Return, LogInv
<1>3. CASE Measure
  BY <1>3, LogAppended DEF Measure, Return, LogInv
<1>4. CASE pcr4' = pcr4 /\ image' = image /\ conf' = conf /\ caller' = caller
           /\ (CheckHashDenied \/ CheckHashAllowed \/ NextSignature \/ AskRemote \/ CheckSbat)
  <2>1. pc \in {"deny", "allow", "sigs", "sbat"}
    BY <1>4 DEF CheckHashDenied, CheckHashAllowed, NextSignature, AskRemote, CheckSbat
  <2>2. /\ pc' \in {"deny", "allow", "sigs", "sbat", "measure", "done"}
        /\ pc' = "done" /\ ret' = "SUCCESS" => caller = "shim_verify"
    BY <1>4 DEF CheckHashDenied, CheckHashAllowed, NextSignature, AskRemote, CheckSbat, Return
  <2>. QED  BY <1>4, <2>1, <2>2 DEF LogInv, Logged
<1>5. CASE UNCHANGED vars
  BY <1>5 DEF vars, LogInv, Logged
<1>6. \/ \E c \in Callers, m \in Images : Begin(c, m)
      \/ MeasureFirst \/ Measure \/ UNCHANGED vars
      \/ /\ pcr4' = pcr4 /\ image' = image /\ conf' = conf /\ caller' = caller
         /\ CheckHashDenied \/ CheckHashAllowed \/ NextSignature \/ AskRemote \/ CheckSbat
  BY DEF Next, CheckHashDenied, CheckHashAllowed, NextSignature, AskRemote, CheckSbat
<1>. QED  BY <1>1, <1>2, <1>3, <1>4, <1>5, <1>6

(* The hash or the signature that is found allows the image.               *)
LEMMA AllowedBy ==
    ASSUME Typed, NEW signers, Allow(signers),
           signers = {} \/ \E k \in DOMAIN image.sigs : signers = image.sigs[k].signers,
           conf.tpm # "fails", image' = image
    PROVE  /\ Authorised'
           /\ method' = "hash" /\ method # "hash" =>
                 \E a \in measured' : a.name \in AllowNames /\ a.entry.kind # "x509"
<1>. DEFINE p == FirstHit(AllowProbes, image, signers)
            a == Authority(AllowProbes, image, signers)
<1>1. /\ p.kind \in {"sha256", "sha1", "x509"} /\ a.name \in AllowNames
      /\ Matches(a.entry, p.kind, image, signers)
  BY AllowAuthority DEF Allow, Typed
<1>2. a \in measured'
  BY MeasureRemembers DEF Allow
<1>3. Authorises(a, image)
  <2>1. CASE p.kind = "x509"
    BY <2>1, <1>1 DEF Authorises, AllowNames, Matches
  <2>2. CASE p.kind \in {"sha256", "sha1"}
    BY <2>2, <1>1 DEF Authorises, AllowNames, Matches
  <2>. QED  BY <2>1, <2>2, <1>1
<1>4. method' = "hash" /\ method # "hash" => p.kind # "x509"
  BY DEF Allow, SetMethod, update_verification_method
<1>5. a.entry.kind = p.kind
  BY <1>1 DEF Matches
<1>. QED  BY <1>1, <1>2, <1>3, <1>4, <1>5 DEF Authorised

LEMMA GrantStep == VerdictInv /\ GrantInv /\ [Next]_vars => GrantInv'
<1>. SUFFICES ASSUME VerdictInv, GrantInv, [Next]_vars, conf'.tpm # "fails" PROVE GrantInv'
  BY DEF GrantInv
<1>c. conf' = conf
  BY DEF Next, vars, Begin, MeasureFirst, CheckHashDenied, CheckHashAllowed, NextSignature,
         AskRemote, CheckSbat, Measure
<1>. Typed /\ conf.tpm # "fails"
  BY <1>c DEF VerdictInv
(* What does not measure and does not get past a check keeps it.           *)
<1>k. ASSUME image' = image, measured \subseteq measured'
      PROVE  Authorised => Authorised'
  BY <1>k DEF Authorised
<1>h. ASSUME measured \subseteq measured', method' = "hash" => method = "hash"
      PROVE  method' = "hash" => \E a \in measured' : a.name \in AllowNames /\ a.entry.kind # "x509"
  BY <1>h DEF GrantInv
<1>1. ASSUME NEW c \in Callers, NEW m \in Images, Begin(c, m) PROVE GrantInv'
  <2>1. /\ measured' = measured /\ method' = method
        /\ pc' \notin {"sigs", "sbat"} /\ (pc' = "measure" => ~conf.secure)
        /\ pc' = "done" => ret' # "SUCCESS"
    BY <1>1 DEF authority, Begin, Return
  <2>. QED  BY <2>1, <1>c, <1>h DEF GrantInv
<1>2. CASE MeasureFirst
  <2>1. /\ measured' = measured /\ method' = method
        /\ pc' \in {"deny", "done"} /\ (pc' = "done" => ret' # "SUCCESS" \/ ~conf.secure)
    BY <1>2 DEF authority, MeasureFirst, Return
  <2>. QED  BY <2>1, <1>c, <1>h DEF GrantInv
<1>3. CASE CheckHashDenied
  <2>1. /\ measured \subseteq measured' /\ method' = method
        /\ pc' = "allow" \/ (pc' = "done" /\ ret' # "SUCCESS")
    BY <1>3, MeasureRemembers DEF authority, CheckHashDenied, Return
  <2>. QED  BY <2>1, <1>c, <1>h DEF GrantInv
<1>4. CASE CheckHashAllowed
  <2>. image' = image /\ pc = "allow" /\ ret = "NOT_FOUND"
    BY <1>4 DEF CheckHashAllowed, VerdictInv, RetInv
  <2>1. CASE Allow({})
    <3>1. measured \subseteq measured'
      BY <2>1, MeasureRemembers DEF Allow
    <3>2. Authorised'
      BY <2>1, AllowedBy
    <3>3. method' = "hash" => \E a \in measured' : a.name \in AllowNames /\ a.entry.kind # "x509"
      BY <2>1, <3>1, <1>h, AllowedBy
    <3>. QED  BY <3>2, <3>3 DEF GrantInv
  <2>2. CASE ~Allow({})
    <3>1. /\ measured' = measured /\ method' = method
          /\ (pc' = "done" /\ ret' # "SUCCESS") \/ (pc' = "sigs" /\ ret' = ret)
      BY <1>4, <2>2 DEF authority, CheckHashAllowed, Return
    <3>. QED  BY <3>1, <1>h DEF GrantInv
  <2>. QED  BY <2>1, <2>2
<1>5. CASE NextSignature
  <2>. DEFINE s == image.sigs[i]
  <2>. image' = image /\ pc = "sigs"
    BY <1>5 DEF NextSignature
  <2>1. i \in DOMAIN image.sigs
    BY <1>5, ImagesAssumption DEF NextSignature, Typed, TypeOK
  <2>2. CASE ~s.sized \/ ~s.pkcs
    <3>1. /\ measured' = measured /\ method' = method
          /\ (pc' = "done" /\ ret' # "SUCCESS") \/ (pc' = "sigs" /\ ret' = ret)
      BY <1>5, <2>2 DEF authority, NextSignature, Return
    <3>2. ret = "SUCCESS" => Authorised
      BY DEF GrantInv
    <3>. QED  BY <3>1, <3>2, <1>h, <1>k DEF GrantInv
  <2>3. CASE s.sized /\ s.pkcs
    <3>1. /\ pc' = "sigs" /\ verify_one_signature(s.signers)
          /\ ret' = IF ret # "SUCCESS" THEN Verdict(image, s.signers) ELSE ret
      BY <1>5, <2>3 DEF NextSignature
    <3>2. ret = "SUCCESS" => Authorised
      BY DEF GrantInv
    <3>3. CASE /\ check_denylist(image, s.signers)
               /\ tpm_measure_variable(Authority(DenyProbes, image, s.signers))
               /\ method' = method
      <4>1. measured \subseteq measured'
        BY <3>3, MeasureRemembers
      <4>2. Verdict(image, s.signers) # "SUCCESS"
        BY <3>3 DEF Verdict
      <4>. QED  BY <3>1, <3>2, <3>3, <4>1, <4>2, <1>h, <1>k DEF GrantInv
    <3>4. CASE Allow(s.signers)
      <4>1. measured \subseteq measured'
        BY <3>4, MeasureRemembers DEF Allow
      <4>2. Authorised'
        BY <3>4, <2>1, AllowedBy
      <4>3. method' = "hash" => \E a \in measured' : a.name \in AllowNames /\ a.entry.kind # "x509"
        BY <3>4, <2>1, <4>1, <1>h, AllowedBy
      <4>. QED  BY <4>2, <4>3 DEF GrantInv
    <3>5. CASE /\ ~check_denylist(image, s.signers) /\ ~check_allowlist(image, s.signers)
               /\ BuiltIn(s.signers) = {} /\ UNCHANGED <<method, authority>>
      <4>1. Verdict(image, s.signers) # "SUCCESS"
        BY <3>5 DEF Verdict
      <4>. QED  BY <3>1, <3>2, <3>5, <4>1, <1>h, <1>k DEF authority, GrantInv
    <3>6. CASE /\ BuiltIn(s.signers) # {}
               /\ update_verification_method("cert")
               /\ tpm_measure_variable(ShimEntry(IF conf.shim_cert \in s.signers
                                                 THEN conf.shim_cert ELSE conf.vendor_cert))
      <4>. DEFINE c == IF conf.shim_cert \in s.signers THEN conf.shim_cert ELSE conf.vendor_cert
      <4>1. measured \subseteq measured' /\ ShimEntry(c) \in measured'
        BY <3>6, MeasureRemembers
      <4>2. c \in s.signers
        BY <3>6 DEF BuiltIn
      <4>3. Authorises(ShimEntry(c), image)
        BY <4>2, <2>1 DEF Authorises, ShimEntry, Matches
      <4>4. Authorised'
        BY <4>1, <4>3 DEF Authorised
      <4>5. method' = "hash" => method = "hash"
        BY <3>6 DEF update_verification_method
      <4>. QED  BY <4>1, <4>4, <4>5, <1>h DEF GrantInv
    <3>. QED  BY <3>1, <3>3, <3>4, <3>5, <3>6 DEF verify_one_signature
  <2>. QED  BY <2>1, <2>2, <2>3
<1>6. CASE AskRemote
  <2>1. /\ pc = "sigs" /\ image' = image /\ measured' = measured /\ method' = method
        /\ \/ pc' = "sbat" /\ (http' = "ok" \/ ret = "SUCCESS")
           \/ pc' = "done" /\ ret' # "SUCCESS"
    BY <1>6 DEF authority, AskRemote, Return
  <2>2. ret = "SUCCESS" => Authorised
    BY <2>1 DEF GrantInv
  <2>. QED  BY <2>1, <2>2, <1>h, <1>k DEF GrantInv
<1>7. CASE CheckSbat \/ Measure
  <2>1. /\ pc \in {"sbat", "measure"} /\ image' = image /\ http' = http
        /\ measured' = measured /\ method' = method /\ pc' \in {"measure", "done"}
    BY <1>7 DEF authority, CheckSbat, Measure, Return
  <2>2. conf.secure /\ http # "ok" => Authorised
    BY <2>1 DEF GrantInv
  <2>. QED  BY <2>1, <2>2, <1>c, <1>h, <1>k DEF GrantInv
<1>8. CASE UNCHANGED vars
  BY <1>8 DEF authority, vars, GrantInv, Authorised
<1>. QED  BY <1>1, <1>2, <1>3, <1>4, <1>5, <1>6, <1>7, <1>8 DEF Next

(* An image shim accepts is in PCR 4 and what allowed it is in PCR 7, when *)
(* measurements work, whichever list, signature or caller it was; and      *)
(* VERIFIED_BY_HASH stands only when some image was found by its hash.     *)
THEOREM AcceptedIsInPcrs == Spec => []AcceptedIsMeasured
<1>1. Init => LogInv /\ GrantInv
  <2>1. Init => LogInv
    BY DEF Init, LogInv
  <2>. QED  BY <2>1 DEF Init, GrantInv
<1>2. LogInv /\ GrantInv /\ MeasuredOnce => AcceptedIsMeasured
  <2>. SUFFICES ASSUME LogInv, GrantInv, MeasuredOnce PROVE AcceptedIsMeasured
    OBVIOUS
  <2>1. ASSUME pc = "done", ret = "SUCCESS", conf.tpm = "works", conf.secure, http # "ok"
        PROVE  \E k \in DOMAIN pcr7 : Authorises(pcr7[k], image)
    <3>1. PICK a \in measured : Authorises(a, image)
      BY <2>1 DEF GrantInv, Authorised
    <3>. QED  BY <2>1, <3>1 DEF MeasuredOnce
  <2>2. pc = "done" /\ ret = "SUCCESS" /\ conf.tpm = "works" =>
           \E k \in DOMAIN pcr4 : pcr4[k] = image.sha256
    BY DEF LogInv, Logged
  <2>3. method = "hash" /\ conf.tpm # "fails" =>
           \E a \in measured : a.name \in {"db", "vendor_db", "MokListRT"} /\ a.entry.kind # "x509"
    BY DEF GrantInv, AllowNames
  <2>. QED  BY <2>1, <2>2, <2>3 DEF AcceptedIsMeasured
<1>. QED
  BY <1>1, <1>2, VerdictInit, VerdictNext, MeasureInit, MeasureStep, LogStep, GrantStep,
     PTL DEF Spec, MeasureInv
=============================================================================
