---------------------------- MODULE MCMokMirror ----------------------------
(* A small instance of MokMirror.  One family of boots has key databases   *)
(* around the limits at which they are split, over firmware that reports   *)
(* its limits in different ways; the other has flags with good and bad     *)
(* attributes, and more faults.                                            *)
EXTENDS MokMirror

MCIds == {"hashes", "cert", "pair", "vendor", "empty"}
Esl(i, n, s) == [id |-> i, n |-> n, size |-> s]
Hashes == Esl("hashes", 3, 48)
Cert   == Esl("cert", 1, 100)
Pair   == Esl("pair", 3, 70)
Vendor == Esl("vendor", 1, 80)
Empty  == Esl("empty", 1, 0)

Good(d) == [here |-> TRUE, good |-> TRUE, data |-> d]
Bad(d)  == [here |-> TRUE, good |-> FALSE, data |-> d]
None    == [v \in Vars |-> Absent]

Plain == [nv |-> None, addend |-> [v \in KeyDb |-> <<>>], locked |-> {}, foreign |-> <<>>, max |-> 1024,
          query |-> "static", named |-> FALSE, sb |-> TRUE, faults |-> 0]

Lists   == {<<Pair>>, <<Cert, Pair>>, <<Pair, Cert>>, <<Cert>>, <<Hashes>>}
Addends == {<<>>, <<Vendor>>}
(* Nothing fits; a certificate does; two of a pair fit, or do only without *)
(* the name's extra digit; a list just fits with or without its name.      *)
Limits  == {60, 150, 188, 190, 238, 258, 500}

DbConfigs ==
    {[Plain EXCEPT !.nv["MokList"] = Good(l), !.addend["MokList"] = a, !.max = m,
                   !.query = q, !.named = n, !.faults = f] :
        l \in Lists, a \in Addends, m \in Limits, q \in {"static", "dynamic"},
        n \in BOOLEAN, f \in {0}}
    \union
    {[Plain EXCEPT !.nv["MokList"] = g, !.nv["MokListX"] = x, !.addend["MokList"] = a,
                   !.max = m, !.query = q, !.faults = 1] :
        g \in {Absent, Good(<<Cert, Pair>>), Bad(<<Pair>>)}, x \in {Absent, Good(<<Pair>>)},
        a \in Addends, m \in {60, 190}, q \in {"static", "unsupported"}}
    \union
    {[Plain EXCEPT !.nv["MokList"] = Good(l), !.max = m] :
        l \in {<<Empty, Cert>>, <<Pair, Empty, Cert>>}, m \in {60, 190}}

StateConfigs ==
    {[Plain EXCEPT !.nv["MokSBState"] = s, !.nv["MokListTrusted"] = t, !.nv["MokPolicy"] = p,
                   !.nv["MokDBState"] = p, !.nv["SbatLevel"] = l, !.foreign = f, !.sb = b, !.locked = k,
                   !.faults = 2] :
        s \in {Absent, Good(<<1>>), Bad(<<1>>)}, t \in {Absent, Bad(<<0>>)},
        p \in {Absent, Bad(<<1>>), Good(<<1, 0>>)}, l \in {Good(<<7, 7>>)},
        f \in {<<>>, [v \in {"MokList", "MokPolicy", "MokListTrusted"} |-> 200]}, b \in BOOLEAN,
        k \in {{}, {"MokSBState", "MokListTrusted"}}}

MCConfigs  == DbConfigs \union StateConfigs
GapConfigs == {[Plain EXCEPT !.nv["MokList"] = Good(<<Hashes>>), !.max = 150]}
=============================================================================
