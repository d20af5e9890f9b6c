---------------------------- MODULE MCPeLoader ----------------------------
(* A small instance of PeLoader: offsets of four bits, pages of two bytes,  *)
(* and images of at most three sections out of those below.                *)
EXTENDS PeLoader

Sec(va, vsize, raw, rawsize, name, flags) ==
    [va |-> va, vsize |-> vsize, raw |-> raw, rawsize |-> rawsize, name |-> name, flags |-> flags]

Text   == Sec(2, 2, 2, 2, "", {"read", "execute"})
Data   == Sec(4, 2, 4, 1, "", {"read", "write"})
Reloc  == Sec(6, 2, 6, 2, ".reloc", {"read", "discardable"})

(* Longer in memory or in the file, overlapping, in the middle of a page,  *)
(* all rights, no rights, without data, in the headers, behind the end of  *)
(* the file, too large, empty, wrapping around.                            *)
Odd == {Sec(2, 3, 2, 1, "", {"read", "execute"}),
        Sec(2, 1, 2, 4, "", {"read", "execute"}),
        Sec(3, 3, 4, 3, "", {"read", "write"}),
        Sec(4, 2, 4, 2, "", {"read", "write", "execute"}),
        Sec(4, 2, 4, 2, "", {"write"}),
        Sec(4, 3, 0, 0, "", {"read", "write", "bss"}),
        Sec(4, 2, 1, 2, "", {"read"}),
        Sec(4, 2, 9, 2, "", {"read"}),
        Sec(4, 6, 4, 2, "", {"read"}),
        Sec(4, 0, 4, 2, "", {"read", "discardable"}),
        Sec(4, 14, 4, 2, "", {"read"}),
        Sec(9, 8, 4, 2, "", {"read", "discardable"}),
        Sec(2, 2, 4, 2, "", {"read", "write", "execute", "discardable"}),
        Sec(4, 2, 4, 2, ".sbat", {"read"}),
        Sec(4, 2, 4, 1, ".sbat", {"read"}),
        Sec(6, 1, 8, 2, ".reloc", {"read", "discardable"})}

Tables == {<<a, b>> : a \in {Text}, b \in Odd} \cup {<<a, b>> : a \in Odd, b \in {Data, Text}}
          \cup {<<Text, a, Reloc>> : a \in Odd \cup {Data}}
          \cup {<<>>, <<Sec(4, 2, 4, 2, ".sbat", {"read"}), Sec(6, 1, 6, 1, ".sbat", {"read"}), Text>>}

Image(table, entry, blocks) ==
    [len |-> 10, headers |-> 2, size |-> 8, entry |-> entry, wellformed |-> TRUE, nx |-> TRUE,
     directory |-> TRUE, reloc |-> [va |-> 6, size |-> 2], certs |-> [va |-> 0, size |-> 0],
     sections |-> table, fixups |-> {2}, blocks |-> blocks]

Plain == Image(<<Text, Data, Reloc>>, 2, TRUE)

MCFiles ==
    {Image(t, e, TRUE) : t \in Tables, e \in {2, 4}}
        \cup {Image(<<Text, Data, Reloc>>, 2, FALSE)}
        \cup {[Plain EXCEPT !.nx = FALSE], [Plain EXCEPT !.wellformed = FALSE],
              [Plain EXCEPT !.directory = FALSE], [Plain EXCEPT !.entry = 8],
              [Plain EXCEPT !.headers = 9], [Plain EXCEPT !.len = 1],
              [Plain EXCEPT !.reloc.size = 0], [Plain EXCEPT !.reloc.size = 10],
              [Plain EXCEPT !.certs = [va |-> 8, size |-> 2]],
              [Plain EXCEPT !.certs = [va |-> 7, size |-> 2]],
              [Plain EXCEPT !.certs = [va |-> 11, size |-> 2]],
              [Plain EXCEPT !.certs = [va |-> 7, size |-> 3], !.len = 10]}
=============================================================================
