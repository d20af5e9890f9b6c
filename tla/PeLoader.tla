------------------------------ MODULE PeLoader ------------------------------
(***************************************************************************)
(* How shim puts an image into memory and enters it: start_image of        *)
(* shim.c, handle_image, generate_hash and update_mem_attrs of pe.c, and   *)
(* the parts of pe-relocate.c they use.  Memory is a function from offsets *)
(* in the image to what has been written there; the headers give offsets   *)
(* of 32 bits, and sums of them wrap around.                               *)
(*                                                                         *)
(* An address is one more than its offset, so that NULL can be 0.          *)
(* SectionAlignment is at most a page.                                     *)
(***************************************************************************)
EXTENDS Integers, Sequences

CONSTANTS
    Word,        \* values of a UINT32
    PageSize,
    Files        \* images that may be read

Flags == {"read", "write", "execute", "discardable", "bss"}
Offset == 0 .. Word - 1

(* A file: its length, SizeOfHeaders, SizeOfImage, the entry point,        *)
(* whether the headers themselves are in order, NX_COMPAT, whether the     *)
(* directory has a relocation entry, that entry and the one of the         *)
(* certificate table, the sections, the offsets that need relocation and   *)
(* whether their table is in order.                                        *)
Section == [va : Offset, vsize : Offset, raw : Offset, rawsize : Offset,
            name : {"", ".reloc", ".sbat"}, flags : SUBSET Flags]
Range32 == [va : Offset, size : Offset]
File    == [len : Offset, headers : Offset, size : Offset, entry : Offset,
            wellformed : BOOLEAN, nx : BOOLEAN, directory : BOOLEAN,
            reloc : Range32, certs : Range32, sections : Seq(Section),
            fixups : SUBSET Offset, blocks : BOOLEAN]

ASSUME ConstantsAssumption ==
    /\ Word \in Nat \ {0} /\ PageSize \in Nat \ {0}
    /\ Files \subseteq File

VARIABLES
    pc, file,
    secure, require_nx,  \* secure_mode() and MOK_POLICY_REQUIRE_NX
    proto,       \* the memory attribute protocol: "none", "works", "fails"
    hashed,      \* file offsets in the Authenticode hash
    sbat,        \* file offsets checked as SBAT section
    i,           \* the section looked at next
    mem,         \* offset in memory -> file offset, Zero or Untouched
    attrs,       \* page -> what may be done with it
    RelocSection, found_entry_point,
    fixed,       \* offsets that have been relocated
    moved,       \* the buffer is not at ImageBase
    held,        \* handle_image has pages it would have to give back
    li           \* whose data is in the loaded-image protocol

boot    == <<secure, require_nx, proto>>
checks  == <<hashed, sbat>>
image   == <<mem, attrs, fixed, moved>>
locals  == <<i, RelocSection, found_entry_point>>
vars    == <<pc, file, boot, checks, image, locals, held, li>>

Zero      == -1
Untouched == -2
NULL      == 0

ImageAddress(size, offset) == IF offset < size THEN offset + 1 ELSE NULL

Start(f, s) == ImageAddress(f.size, s.va)
LastByte(va, n) == (va + n + Word - 1) % Word
End(f, s)   == ImageAddress(f.size, LastByte(s.va, s.vsize))
Bytes(s)    == s.va .. s.va + s.vsize - 1
Raw(s)      == s.raw .. s.raw + s.rawsize - 1
Has(s, x)   == x \in s.flags
PagesOf(f)  == {a \div PageSize : a \in 0 .. f.size - 1}

---------------------------------------------------------------------------
(* Checks on the headers                                                   *)

(* "wellformed" stands for the checks that only concern where the headers  *)
(* and their tables lie, and for the machine type.                         *)
read_header(f) ==
    /\ f.wellformed
    /\ require_nx => f.nx
    /\ f.headers <= f.size
    /\ f.certs.va < f.len \/ (f.certs.va = f.len /\ f.certs.size = 0)

InsideHeaders(f, s) == ~Has(s, "bss") /\ (s.va < f.headers \/ s.raw < f.headers)

get_section_vma(f, s) ==
    /\ ~Has(s, "discardable") => Start(f, s) # NULL /\ End(f, s) # NULL
    /\ ~InsideHeaders(f, s)
    /\ Start(f, s) <= End(f, s)

SumOfBytes(f) ==
    LET sum[k \in 0 .. Len(f.sections)] ==
            IF k = 0 THEN f.headers ELSE sum[k - 1] + f.sections[k].rawsize
    IN  sum[Len(f.sections)]

(* Mutant: a section's data may begin in the file and end behind it.       *)
SectionDataStarts(f) ==
    /\ f.headers <= f.len
    /\ \A k \in DOMAIN f.sections : get_section_vma(f, f.sections[k])
    /\ \A k \in DOMAIN f.sections : f.sections[k].rawsize # 0 => f.sections[k].raw < f.len

(* generate_hash accepts the table: the headers and each section's data    *)
(* are in the file, and so is all of it together.                          *)
SectionDataInFile(f) ==
    /\ f.headers <= f.len
    /\ \A k \in DOMAIN f.sections : get_section_vma(f, f.sections[k])
    /\ SumOfBytes(f) <= f.len
    /\ \A k \in DOMAIN f.sections :
          LET s == f.sections[k] IN
          s.rawsize # 0 => s.raw < f.len /\ s.rawsize <= f.len - s.raw

(* With a certificate table, what lies between the sections and the table  *)
(* is hashed as well; the table must be the end of the file.               *)
TailInOrder(f) ==
    f.len > SumOfBytes(f) /\ f.certs.size # 0 =>
        /\ f.certs.size <= f.len - SumOfBytes(f)
        /\ f.certs.va = f.len - f.certs.size
HashedTail(f) == IF f.certs.size # 0 THEN SumOfBytes(f) .. f.len - f.certs.size - 1 ELSE {}

(* The checksum and the certificate table's directory entry are left out   *)
(* by the format, and not told apart from the headers around them.         *)
Hashed(f) ==
    0 .. f.headers - 1 \cup HashedTail(f)
        \cup UNION {Raw(f.sections[k]) : k \in DOMAIN f.sections}

(* verify_buffer_sbat: a section that is too short for its virtual size is *)
(* ignored; two are refused, unless the first was ignored.                 *)
SbatUsable(s) == s.name = ".sbat" /\ s.rawsize # 0 /\ s.rawsize >= s.vsize
SbatRepeated(f) ==
    \E j, k \in DOMAIN f.sections :
        j < k /\ SbatUsable(f.sections[j]) /\ f.sections[k].name = ".sbat"
SbatBytes(f) ==
    UNION {Raw(f.sections[k]) : k \in {j \in DOMAIN f.sections : SbatUsable(f.sections[j])}}
---------------------------------------------------------------------------
Init ==
    /\ pc = "idle" /\ file \in Files
    /\ secure \in BOOLEAN /\ require_nx \in BOOLEAN
    /\ proto \in {"none", "works", "fails"}
    /\ hashed = {} /\ sbat = {}
    /\ mem = <<>> /\ attrs = <<>> /\ fixed = {} /\ moved \in BOOLEAN
    /\ i = 1 /\ RelocSection = 0 /\ found_entry_point = 0
    /\ held = FALSE /\ li = "shim"

Refuse == pc' = "restore" /\ held' = FALSE
Goto(l) == pc' = l /\ UNCHANGED held

(* The file has been read.  Its path goes into the loaded image; without   *)
(* memory for it the image is not looked at.                               *)
start_image ==
    /\ pc = "idle"
    /\ \/ li' = "stage" /\ Goto("header")
       \/ UNCHANGED li /\ Refuse
    /\ UNCHANGED <<file, boot, checks, image, locals>>

ReadHeader ==
    /\ pc = "header"
    /\ IF read_header(file) THEN Goto(IF secure THEN "verify" ELSE "hash") ELSE Refuse
    /\ UNCHANGED <<file, boot, checks, image, locals, li>>

(* verify_buffer: hash, signatures, SBAT section.  Whether a signature     *)
(* holds is not modelled here.                                             *)
verify_buffer ==
    /\ pc = "verify"
    /\ \/ /\ SectionDataInFile(file) /\ TailInOrder(file) /\ ~SbatRepeated(file)
          /\ hashed' = Hashed(file) /\ sbat' = SbatBytes(file)
          /\ Goto("hash")
       \/ Refuse /\ UNCHANGED checks
    /\ UNCHANGED <<file, boot, image, locals, li>>

(* generate_hash once more, for the measurement; it may be out of memory.  *)
generate_hash ==
    /\ pc = "hash"
    /\ \/ /\ SectionDataInFile(file) /\ TailInOrder(file)
          /\ hashed' = Hashed(file)
          /\ Goto("allocate")
       \/ Refuse /\ UNCHANGED hashed
    /\ UNCHANGED <<file, boot, sbat, image, locals, li>>

(* What the two translations of attributes and the firmware's Set and      *)
(* Clear make of a page's rights: first those not wanted are taken away,   *)
(* then those wanted are given; either call may fail.                      *)
Outcomes == IF proto = "works" THEN {"set"} ELSE IF proto = "none" THEN {"kept"}
            ELSE {"set", "half", "kept"}
update_mem_attrs(old, pages, rights) ==
    {[p \in DOMAIN old |->
        IF p \notin pages \/ o = "kept" THEN old[p]
        ELSE IF o = "half" THEN old[p] \cap rights ELSE rights] : o \in Outcomes}

(* Pages are allocated, made writable but not executable, and the headers  *)
(* are copied.                                                             *)
AllocateImage ==
    /\ pc = "allocate"
    /\ \/ Refuse /\ UNCHANGED <<mem, attrs>>
       \/ /\ attrs' \in update_mem_attrs([p \in PagesOf(file) |-> {"R", "W", "X"}],
                                         PagesOf(file), {"R", "W"})
          /\ mem' = [a \in 0 .. file.size - 1 |-> IF a < file.headers THEN a ELSE Untouched]
          /\ IF ImageAddress(file.size, file.entry) = NULL THEN Refuse
             ELSE pc' = "sections" /\ held' = TRUE
    /\ UNCHANGED <<file, boot, checks, locals, fixed, moved, li>>

Skipped(s) == (Has(s, "discardable") /\ s.vsize = 0) \/ ~Has(s, "read")

(* The section called .reloc is believed if it has data and the directory  *)
(* entry lies in it.                                                       *)
RelocFits(f, s) ==
    /\ s.rawsize # 0 /\ s.vsize # 0
    /\ Start(f, s) # NULL /\ End(f, s) # NULL
    /\ ImageAddress(f.size, f.reloc.va) = Start(f, s)
    /\ ImageAddress(f.size, LastByte(f.reloc.va, f.reloc.size)) <= End(f, s)

SectionRefused(f, s) ==
    \/ require_nx /\ {"write", "execute"} \subseteq s.flags /\ ~Has(s, "discardable")
    \/ End(f, s) < Start(f, s)
    \/ s.name = ".reloc" /\ (RelocSection # 0 \/ ~RelocFits(f, s))
    \/ /\ ~Has(s, "discardable")
       /\ Start(f, s) = NULL \/ End(f, s) = NULL \/ InsideHeaders(f, s)

(* Mutant: as many bytes are copied as the section has in memory.          *)
CopySectionLong(s) ==
    [a \in DOMAIN mem |->
        IF a \notin Bytes(s) THEN mem[a]
        ELSE IF Has(s, "bss") THEN Zero ELSE s.raw + (a - s.va)]

CopySection(s) ==
    [a \in DOMAIN mem |->
        IF a \notin Bytes(s) THEN mem[a]
        ELSE IF Has(s, "bss") \/ a - s.va >= s.rawsize THEN Zero
        ELSE s.raw + (a - s.va)]

(* One round of the first loop over the sections.                          *)
LoadSection ==
    /\ pc = "sections" /\ i <= Len(file.sections)
    /\ LET s == file.sections[i] IN
       \/ Skipped(s) /\ i' = i + 1 /\ Goto("sections")
             /\ UNCHANGED <<mem, RelocSection, found_entry_point>>
       \/ ~Skipped(s) /\ SectionRefused(file, s) /\ Refuse
             /\ UNCHANGED <<mem, i, RelocSection, found_entry_point>>
       \/ /\ ~Skipped(s) /\ ~SectionRefused(file, s)
          /\ i' = i + 1 /\ Goto("sections")
          /\ found_entry_point' = found_entry_point
                + IF s.va <= file.entry /\ LastByte(s.va, s.vsize) > file.entry THEN 1 ELSE 0
          /\ RelocSection' = IF s.name = ".reloc" THEN i ELSE RelocSection
          /\ mem' = IF Has(s, "discardable") THEN mem ELSE CopySection(s)
    /\ UNCHANGED <<file, boot, checks, attrs, fixed, moved, li>>

(* The table that relocate_coff reads lies outside the image.              *)
TableNowhere(f, s) ==
    /\ ImageAddress(f.size, s.raw) = NULL
    /\ ImageAddress(f.size, LastByte(s.raw, f.reloc.size)) = NULL
TableAcross(f, s) ==
    (ImageAddress(f.size, s.raw) = NULL) # (ImageAddress(f.size, LastByte(s.raw, f.reloc.size)) = NULL)

relocate_coff ==
    /\ pc = "sections" /\ i > Len(file.sections)
    /\ IF ~file.directory THEN Refuse /\ UNCHANGED <<i, fixed>>
       ELSE IF file.reloc.size = 0 \/ RelocSection = 0
               \/ TableNowhere(file, file.sections[RelocSection])
            THEN Goto("protect") /\ i' = 1 /\ UNCHANGED fixed
       ELSE IF TableAcross(file, file.sections[RelocSection]) \/ (moved /\ ~file.blocks)
            THEN Refuse /\ UNCHANGED <<i, fixed>>
       ELSE Goto("protect") /\ i' = 1 /\ fixed' = IF moved THEN file.fixups ELSE {}
    /\ UNCHANGED <<file, boot, checks, mem, attrs, moved, RelocSection, found_entry_point, li>>

Rights(s) == {"R"} \cup (IF Has(s, "write") THEN {"W"} ELSE {})
                   \cup (IF Has(s, "execute") THEN {"X"} ELSE {})

(* The length is rounded up to pages; a section that does not begin with a *)
(* page is left as it is.  For a discardable section the base may be NULL. *)
SectionPages(f, s) ==
    IF End(f, s) = NULL THEN {}
    ELSE IF Start(f, s) = NULL THEN 0 .. LastByte(s.va, s.vsize) \div PageSize
    ELSE IF s.va % PageSize # 0 THEN {}
    ELSE s.va \div PageSize .. LastByte(s.va, s.vsize) \div PageSize

(* Mutant: the rights of one section are added to those of the others.     *)
ProtectSectionAdds ==
    /\ pc = "protect" /\ i <= Len(file.sections)
    /\ LET s == file.sections[i] IN
       attrs' = [p \in DOMAIN attrs |-> IF p \in SectionPages(file, s)
                                        THEN attrs[p] \cup Rights(s) ELSE attrs[p]]
    /\ i' = i + 1
    /\ UNCHANGED <<pc, file, boot, checks, mem, fixed, moved, RelocSection,
                   found_entry_point, held, li>>

(* One round of the second loop over the sections.                         *)
ProtectSection ==
    /\ pc = "protect" /\ i <= Len(file.sections)
    /\ LET s == file.sections[i] IN
       IF Skipped(s) THEN UNCHANGED attrs
       ELSE attrs' \in update_mem_attrs(attrs, SectionPages(file, s), Rights(s))
    /\ i' = i + 1
    /\ UNCHANGED <<pc, file, boot, checks, mem, fixed, moved, RelocSection,
                   found_entry_point, held, li>>

(* Mutant: an image that is refused at the end keeps its pages.            *)
FinishKeepsPages ==
    /\ pc = "protect" /\ i > Len(file.sections)
    /\ IF found_entry_point = 1 THEN Goto("entered") ELSE Goto("restore")
    /\ UNCHANGED <<file, boot, checks, image, locals, li>>

(* The entry point has to be in exactly one section.  start_image enters   *)
(* the image.                                                              *)
Finish ==
    /\ pc = "protect" /\ i > Len(file.sections)
    /\ IF found_entry_point = 1 THEN Goto("entered") ELSE Refuse
    /\ UNCHANGED <<file, boot, checks, image, locals, li>>

(* The program comes back; its pages are not given back.                   *)
EntryReturns ==
    /\ pc = "entered"
    /\ Refuse
    /\ UNCHANGED <<file, boot, checks, image, locals, li>>

(* start_image cleans up, and is called for another image.                 *)
restore_loaded_image ==
    /\ pc = "restore"
    /\ li' = "shim"
    /\ Goto("idle")
    /\ file' \in Files /\ moved' \in BOOLEAN
    /\ hashed' = {} /\ sbat' = {}
    /\ mem' = <<>> /\ attrs' = <<>> /\ fixed' = {}
    /\ i' = 1 /\ RelocSection' = 0 /\ found_entry_point' = 0
    /\ UNCHANGED boot

Next ==
    \/ start_image \/ ReadHeader \/ verify_buffer \/ generate_hash \/ AllocateImage
    \/ LoadSection \/ relocate_coff \/ ProtectSection \/ Finish
    \/ EntryReturns \/ restore_loaded_image

Spec == Init /\ [][Next]_vars
---------------------------------------------------------------------------
(* Properties                                                              *)

(* Everything stays in range: what is copied comes from the file, and a    *)
(* page is only held while the image is loaded and run, on every path that *)
(* refuses it; whoever sees the loaded image between two programs finds    *)
(* shim's.                                                                 *)
TypeOK ==
    /\ pc \in {"idle", "header", "verify", "hash", "allocate", "sections", "protect",
               "entered", "restore"}
    /\ file \in Files /\ secure \in BOOLEAN /\ require_nx \in BOOLEAN /\ moved \in BOOLEAN
    /\ proto \in {"none", "works", "fails"}
    /\ i \in 1 .. Len(file.sections) + 1 /\ RelocSection \in 0 .. Len(file.sections)
    /\ found_entry_point \in 0 .. Len(file.sections)
    /\ hashed \subseteq 0 .. file.len - 1
    /\ \A a \in DOMAIN mem : mem[a] \in Untouched .. file.len - 1
    /\ \A p \in DOMAIN attrs : attrs[p] \subseteq {"R", "W", "X"}
    /\ fixed \in {{}, file.fixups}
    /\ held <=> pc \in {"sections", "protect", "entered"}
    /\ li \in {"shim", "stage"} /\ (pc = "idle" => li = "shim")

(* What shim checked is what runs: every byte of the file that the loader  *)
(* has put into memory is in the hash, and so is the section that was      *)
(* checked as SBAT data, although the hash goes by the sizes in the file,  *)
(* the loader by those in memory, and no two of them check the same things.*)
LoadedIsHashed ==
    /\ \A a \in DOMAIN mem : mem[a] >= 0 => mem[a] \in hashed
    /\ sbat \subseteq hashed

Sections     == {file.sections[k] : k \in DOMAIN file.sections}
Copied(k)    == ~Skipped(file.sections[k]) /\ ~Has(file.sections[k], "discardable")
LastOf(S)    == CHOOSE k \in S : \A j \in S : j <= k

(* What the section table says of an offset, with the last section first.  *)
Declared(a) ==
    LET over == {k \in DOMAIN file.sections : Copied(k) /\ a \in Bytes(file.sections[k])}
        s    == file.sections[LastOf(over)]
    IN  IF over = {} THEN (IF a < file.headers THEN a ELSE Untouched)
        ELSE IF Has(s, "bss") \/ a - s.va >= s.rawsize THEN Zero ELSE s.raw + (a - s.va)

DeclaredRights(p) ==
    LET over == {k \in DOMAIN file.sections :
                    ~Skipped(file.sections[k]) /\ p \in SectionPages(file, file.sections[k])}
    IN  IF over = {} THEN {"R", "W"} ELSE Rights(file.sections[LastOf(over)])

(* An image that is entered is laid out as its section table says, starts  *)
(* in memory that has been written, is relocated unless it was loaded at   *)
(* its base or has no usable .reloc section, and with a memory protection  *)
(* protocol that works has the rights its sections ask for and no page     *)
(* that is both writable and executable where the policy requires NX.      *)
(* Discardable sections are not loaded: neither an entry point in one nor  *)
(* one that is writable and executable is meant.                           *)
RunsAsDeclared ==
    pc = "entered" =>
        /\ \A a \in 0 .. file.size - 1 : mem[a] = Declared(a)
        /\ (\A s \in Sections : Has(s, "discardable") => file.entry \notin Bytes(s))
              => mem[file.entry] # Untouched
        /\ moved /\ file.reloc.size # 0
             /\ (\E s \in Sections : s.name = ".reloc" /\ ~Skipped(s) /\ s.raw < file.size)
              => fixed = file.fixups
        /\ proto = "works" => \A p \in PagesOf(file) : attrs[p] = DeclaredRights(p)
        /\ proto = "works" /\ require_nx
             /\ (\A s \in Sections : ~({"write", "execute", "discardable"} \subseteq s.flags))
              => \A p \in PagesOf(file) : ~({"W", "X"} \subseteq attrs[p])
=============================================================================
