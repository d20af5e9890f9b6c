--------------------------- MODULE MCMokManager ----------------------------
(* A small instance of MokManager: lists that are missing, sound, written  *)
(* by the operating system or unparsable; requests that name some of the   *)
(* stored keys.                                                            *)
EXTENDS MokManager

Esl(t, s) == [type |-> t, ids |-> s]
List(n) == [here |-> TRUE, runtime |-> FALSE, parses |-> TRUE, nodes |-> n]

Hashes == Esl("sha256", <<"h1", "h2", "h3">>)
CertA  == Esl("x509", <<"a">>)
MCDisk == Esl("x509", <<"disk">>)

Sound     == List(<<Hashes, CertA>>)
Garbled   == [List(<<>>) EXCEPT !.parses = FALSE]
Untrusted == [List(<<CertA>>) EXCEPT !.runtime = TRUE]
Pair(m, x) == [l \in Lists |-> IF l = "MokList" THEN m ELSE x]

MCStored == {Pair(Sound, NoList), Pair(NoList, Sound), Pair(Garbled, Untrusted)}
MCKeyLists  == {<<Esl("sha256", <<"h2", "h4">>), CertA>>}
MCSwitches  == {"set", "odd"}
MCPasswords == {"clear", "sha"}
MCAuthKinds == {"sha", "crypt", "odd", "long"}

(* A node with a hash twice.                                               *)
RepStored == {Pair(List(<<Esl("sha256", <<"h1", "h2", "h2", "h3">>)>>), NoList)}
RepKeyLists  == {<<Esl("sha256", <<"h2">>)>>}
=============================================================================
