--------------------------- MODULE MCImageVerify ---------------------------
(* Small instances: three certificates, images with up to two signatures.  *)
(* In one family of boots each image is verified again and again against   *)
(* each configuration; in the other three images share their authorities.  *)
EXTENDS ImageVerify

Sig(p, z, s, c) == [pkcs |-> p, sized |-> z, parses |-> s, signers |-> c]
Good(c)  == Sig(TRUE, TRUE, TRUE, c)
Image(h, s) == [readable |-> TRUE, sha256 |-> h, sha1 |-> h, fits |-> TRUE,
                sigs |-> s, sbat |-> TRUE]

(* "ca" issued "leaf", so a signature by the leaf verifies against both.   *)
Sigs == { Good({"ca", "leaf"}), Good({"other"}), Sig(TRUE, TRUE, FALSE, {"own"}),
          Sig(FALSE, TRUE, FALSE, {}), Sig(TRUE, FALSE, FALSE, {"ca"}) }
Plain   == { Image("h1", s) : s \in {<<>>} \cup {<<a>> : a \in Sigs} \cup (Sigs \X Sigs) }
Odd     == { [Image("h1", <<Good({"ca"})>>) EXCEPT !.readable = FALSE],
             [Image("h1", <<Good({"ca"})>>) EXCEPT !.fits = FALSE],
             [Image("h1", <<Good({"ca"})>>) EXCEPT !.sbat = FALSE] }
OneImage == Plain \cup Odd

(* Two files, signed by the same or by different people.                   *)
FewImages == { Image("h1", <<Good({"ca", "leaf"})>>),
               Image("h2", <<Good({"other"}), Good({"ca", "leaf"})>>),
               Image("h3", <<Sig(TRUE, TRUE, FALSE, {"own"})>>) }

Hash(h) == [kind |-> "sha256", id |-> h]
Old(h)  == [kind |-> "sha1", id |-> h]
Cert(c) == [kind |-> "x509", id |-> c]
Mod(c)  == [kind |-> "modsign", id |-> c]

Empty == [l \in Lists |-> <<>>]
Config(l) == [secure |-> TRUE, ignore_db |-> FALSE, tpm |-> "works", lists |-> l,
              shim_cert |-> "own", vendor_cert |-> "vendor", files |-> {}]

Denials == { [Empty EXCEPT ![l] = d] : l \in {"dbx", "vendor_dbx", "MokListX"},
             d \in {<<Hash("h1")>>, <<Old("h1")>>, <<Mod("leaf"), Cert("leaf")>>, <<Cert("other")>>} }
            \cup {Empty}
Allowed == { <<"db", <<Cert("ca"), Cert("leaf")>> >>, <<"db", <<Hash("h1")>> >>,
             <<"db", <<Old("h1"), Cert("other")>> >>, <<"vendor_db", <<Cert("leaf")>> >>,
             <<"MokListRT", <<Hash("h1")>> >>, <<"MokListRT", <<Mod("ca"), Cert("other")>> >>,
             <<"db", <<>> >> }
OneConfigs ==
    { Config([d EXCEPT ![a[1]] = a[2]]) : d \in Denials, a \in Allowed }
    \cup { [Config([Empty EXCEPT !.db = <<Hash("h1"), Cert("ca")>>]) EXCEPT !.ignore_db = b, !.secure = ~b]
           : b \in BOOLEAN }

FewLists == { [Empty EXCEPT !.db = <<Hash("h1"), Cert("other")>>, !.MokListRT = <<Cert("leaf"), Hash("h2")>>],
              [Empty EXCEPT !.db = <<Cert("ca")>>, !.dbx = <<Cert("other")>>],
              [Empty EXCEPT !.vendor_db = <<Cert("leaf")>>, !.dbx = <<Hash("h2")>>,
                            !.vendor_dbx = <<Hash("h2")>>, !.db = <<Hash("h3")>>] }
FewConfigs == { [Config(l) EXCEPT !.secure = s, !.tpm = t, !.files = FewImages] : l \in FewLists, s \in BOOLEAN,
                t \in {"none", "works", "fails"} }

MCImages  == OneImage \cup FewImages
MCConfigs == { [c EXCEPT !.files = {m}] : c \in OneConfigs, m \in OneImage } \cup FewConfigs
=============================================================================
