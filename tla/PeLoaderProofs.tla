-------------------------- MODULE PeLoaderProofs --------------------------
(* What the loader puts into memory was hashed, is what the section table  *)
(* declares and stays in range, for every set of images, every width of an *)
(* offset and every page size.                                             *)
EXTENDS PeLoader, WellFoundedInduction, TLAPS

Loaded == {"allocate", "sections", "protect", "entered"}
Early  == {"idle", "header", "verify", "hash", "allocate"}

(* From the last hash on, the file's sections are known to lie in it and   *)
(* what is hashed does not change; nothing is in memory before.            *)
HashInv ==
    /\ file \in Files
    /\ i \in Nat \ {0}
    /\ pc \in Loaded => hashed = Hashed(file)
    /\ pc \in Early => mem = <<>>
    /\ pc \in {"idle", "header"} => sbat = {}
    /\ sbat \in {{}, SbatBytes(file)}
    /\ sbat # {} => hashed = Hashed(file)
    /\ LoadedIsHashed

(* The section checked as SBAT data is among what generate_hash reads.     *)
LEMMA SbatInHash == ASSUME NEW f PROVE SbatBytes(f) \subseteq Hashed(f)
  BY DEF SbatBytes, Hashed

(* Offsets are natural numbers.                                            *)
LEMMA OffsetsAreNat == Offset \subseteq Nat
  BY ConstantsAssumption DEF Offset

LEMMA FieldsAreNat ==
    ASSUME NEW s \in Section
    PROVE  s.va \in Nat /\ s.vsize \in Nat /\ s.raw \in Nat /\ s.rawsize \in Nat
<1>1. s.va \in Offset /\ s.vsize \in Offset /\ s.raw \in Offset /\ s.rawsize \in Offset
  BY DEF Section
<1> QED
  BY <1>1, OffsetsAreNat

(* So is what the loader copies of a section, at most as much as the file  *)
(* has of it.                                                              *)
LEMMA CopiedInHash ==
    ASSUME NEW f \in File, NEW k \in DOMAIN f.sections, NEW a \in Nat,
           a - f.sections[k].va < f.sections[k].rawsize, f.sections[k].va <= a
    PROVE  f.sections[k].raw + (a - f.sections[k].va) \in Hashed(f)
<1> DEFINE s == f.sections[k]
<1>1. s \in Section
  BY DEF File
<1>2. s.va \in Nat /\ s.raw \in Nat /\ s.rawsize \in Nat
  BY <1>1, FieldsAreNat
<1> HIDE DEF s
<1>3. s.raw + (a - s.va) \in Raw(s)
  BY <1>2 DEF Raw, s
<1> QED
  BY <1>3 DEF Hashed, s

LEMMA InitHashInv == Init => HashInv
  BY SMT DEF Init, HashInv, LoadedIsHashed, Loaded, Early

LEMMA NextHashInv == HashInv /\ [Next]_vars => HashInv'
<1> SUFFICES ASSUME HashInv, [Next]_vars PROVE HashInv'
  OBVIOUS
<1> USE DEF HashInv, Loaded, Early
<1>1. CASE start_image
  BY <1>1 DEF start_image, Refuse, Goto, boot, checks, image, locals, LoadedIsHashed
<1>2. CASE ReadHeader
  BY <1>2 DEF ReadHeader, Refuse, Goto, boot, checks, image, locals, LoadedIsHashed
<1>3. CASE verify_buffer
  BY <1>3, SbatInHash DEF verify_buffer, Refuse, Goto, boot, checks, image, locals, LoadedIsHashed
<1>4. CASE generate_hash
  BY <1>4, SbatInHash DEF generate_hash, Refuse, Goto, boot, checks, image, locals, LoadedIsHashed
<1>5. CASE AllocateImage
  <2>1. pc = "allocate" /\ hashed = Hashed(file) /\ UNCHANGED <<file, hashed, sbat, i>>
    BY <1>5 DEF AllocateImage, boot, checks, locals
  <2>2. LoadedIsHashed'
    <3>1. \A a \in DOMAIN mem' : mem'[a] >= 0 => mem'[a] \in Hashed(file)
      <4>1. CASE UNCHANGED mem
        BY <4>1, <2>1 DEF LoadedIsHashed
      <4>2. CASE mem' = [a \in 0 .. file.size - 1 |-> IF a < file.headers THEN a ELSE Untouched]
        <5> SUFFICES ASSUME NEW a \in 0 .. file.size - 1, mem'[a] >= 0
                     PROVE  mem'[a] \in Hashed(file)
          BY <4>2
        <5>1. file \in File /\ file.headers \in Nat
          BY ConstantsAssumption DEF File, Offset
        <5>2. mem'[a] = a /\ a < file.headers
          BY <4>2, <5>1 DEF Untouched
        <5> QED
          BY <5>1, <5>2 DEF Hashed
      <4> QED
        BY <1>5, <4>1, <4>2 DEF AllocateImage
    <3> QED
      BY <3>1, <2>1 DEF LoadedIsHashed
  <2>3. pc' \in {"restore", "sections"}
    BY <1>5 DEF AllocateImage, Refuse
  <2> QED
    BY <2>1, <2>2, <2>3
<1>6. CASE LoadSection
  <2> DEFINE s == file.sections[i]
  <2>1. /\ pc = "sections" /\ i \in DOMAIN file.sections
        /\ hashed = Hashed(file) /\ UNCHANGED <<file, hashed, sbat>>
    <3>1. file \in File
      BY ConstantsAssumption
    <3>2. file.sections \in Seq(Section)
      BY <3>1 DEF File
    <3> QED
      BY <1>6, <3>2 DEF LoadSection, boot, checks
  <2>2. pc' \in {"sections", "restore"} /\ i' \in Nat \ {0}
    BY <1>6 DEF LoadSection, Refuse, Goto
  <2>3. mem' = mem \/ mem' = CopySection(s)
    BY <1>6 DEF LoadSection
  <2>4. LoadedIsHashed'
    <3>1. CASE mem' = mem
      BY <3>1, <2>1 DEF LoadedIsHashed
    <3>2. CASE mem' = CopySection(s)
      <4> SUFFICES ASSUME NEW a \in DOMAIN mem, mem'[a] >= 0
                   PROVE  mem'[a] \in hashed
        BY <3>2, <2>1 DEF LoadedIsHashed, CopySection
      <4>0. file \in File /\ s \in Section
        BY <2>1, ConstantsAssumption DEF File
      <4>1. CASE a \notin Bytes(s)
        BY <4>1, <3>2 DEF LoadedIsHashed, CopySection
      <4>2. CASE a \in Bytes(s) /\ (Has(s, "bss") \/ a - s.va >= s.rawsize)
        BY <4>2, <3>2 DEF CopySection, Zero
      <4>3. CASE a \in Bytes(s) /\ ~(Has(s, "bss") \/ a - s.va >= s.rawsize)
        <5>1. mem'[a] = s.raw + (a - s.va)
          BY <4>3, <3>2 DEF CopySection
        <5>2. a \in Nat /\ s.va <= a /\ a - s.va < s.rawsize
          BY <4>3, <4>0, FieldsAreNat DEF Bytes
        <5> QED
          BY <5>1, <5>2, <4>0, <2>1, CopiedInHash
      <4> QED
        BY <4>1, <4>2, <4>3
    <3> QED
      BY <2>3, <3>1, <3>2
  <2> QED
    BY <2>1, <2>2, <2>4
<1>7. CASE relocate_coff
  BY <1>7 DEF relocate_coff, Refuse, Goto, boot, checks, LoadedIsHashed
<1>8. CASE ProtectSection
  BY <1>8 DEF ProtectSection, boot, checks, LoadedIsHashed
<1>9. CASE Finish
  BY <1>9 DEF Finish, Refuse, Goto, boot, checks, image, locals, LoadedIsHashed
<1>10. CASE EntryReturns
  BY <1>10 DEF EntryReturns, Refuse, boot, checks, image, locals, LoadedIsHashed
<1>11. CASE restore_loaded_image
  BY <1>11 DEF restore_loaded_image, Goto, boot, LoadedIsHashed
<1>12. CASE UNCHANGED vars
  BY <1>12 DEF vars, boot, checks, image, locals, LoadedIsHashed
<1> QED
  BY <1>1, <1>2, <1>3, <1>4, <1>5, <1>6, <1>7, <1>8, <1>9, <1>10, <1>11, <1>12 DEF Next

(* What is loaded was hashed: whatever images there are, every byte of a   *)
(* file that handle_image has put into memory, and every byte that was     *)
(* checked as SBAT data, was read by generate_hash before.                 *)
THEOREM WhatRunsWasHashed == Spec => []LoadedIsHashed
<1>1. HashInv => LoadedIsHashed
  BY DEF HashInv
<1> QED
  BY InitHashInv, NextHashInv, <1>1, PTL DEF Spec

---------------------------------------------------------------------------
(* Sizes                                                                   *)

LEMMA FileFields ==
    ASSUME NEW f \in Files
    PROVE  /\ f.len \in Nat /\ f.headers \in Nat /\ f.size \in Nat /\ f.entry \in Nat
           /\ f.size < Word /\ f.entry < Word /\ f.certs.size \in Nat
           /\ f.sections \in Seq(Section)
<1>1. f \in File
  BY ConstantsAssumption
<1>2. /\ f.len \in Offset /\ f.headers \in Offset /\ f.size \in Offset /\ f.entry \in Offset
      /\ f.certs \in Range32 /\ f.sections \in Seq(Section)
  BY <1>1 DEF File
<1>3. f.certs.size \in Offset
  BY <1>2 DEF Range32
<1> QED
  BY <1>2, <1>3, ConstantsAssumption DEF Offset

(* Every set of natural numbers has a least element.                       *)
LEMMA LeastElement ==
    ASSUME NEW S, S \subseteq Nat, S # {}
    PROVE  \E n \in S : \A m \in S : n <= m
<1> DEFINE R == {p \in Nat \X Nat : p[1] < p[2]}
<1>1. IsWellFoundedOn(R, Nat)
  BY NatLessThanWellFounded DEF OpToRel
<1>2. PICK n \in S : \A m \in S : ~(<<m, n>> \in R)
  BY <1>1, WFMin
<1>3. \A x, y \in Nat : <<x, y>> \in R <=> x < y
  OBVIOUS
<1>4. \A x, y \in Nat : x < y \/ y <= x
  OBVIOUS
<1> HIDE DEF R
<1> QED
  BY <1>2, <1>3, <1>4

(* The sum of the headers and the sections' data is a number: by induction *)
(* over the section table, that is, from the least counterexample.         *)
LEMMA SumIsNat == ASSUME NEW f \in Files PROVE SumOfBytes(f) \in Nat
<1> DEFINE n == Len(f.sections)
           Rec(g, m) == g = [k \in 0 .. m |-> IF k = 0 THEN f.headers
                                              ELSE g[k - 1] + f.sections[k].rawsize]
           sum == CHOOSE g : Rec(g, n)
<1>1. n \in Nat /\ f.headers \in Nat /\ \A k \in 1 .. n : f.sections[k].rawsize \in Nat
  <2>1. f.sections \in Seq(Section) /\ f.headers \in Nat
    BY FileFields
  <2>2. n \in Nat /\ \A k \in 1 .. n : f.sections[k] \in Section
    BY <2>1
  <2> QED
    BY <2>1, <2>2, FieldsAreNat
<1>2. \A m \in 0 .. n : \E g : Rec(g, m)
  <2> DEFINE Bad == {m \in 0 .. n : ~\E g : Rec(g, m)}
  <2> SUFFICES ASSUME Bad # {} PROVE FALSE
    OBVIOUS
  <2>1. Bad \subseteq Nat
    BY <1>1
  <2>2. PICK m \in Bad : \A o \in Bad : m <= o
    BY <2>1, LeastElement, Zenon
  <2>3. CASE m = 0
    <3>1. Rec([k \in 0 .. 0 |-> f.headers], 0)
      OBVIOUS
    <3> QED
      BY <2>3, <3>1
  <2>4. CASE m # 0
    <3>0. m \in 0 .. n /\ n \in Nat /\ (m - 1 \in Bad => m <= m - 1)
      BY <1>1, <2>2
    <3>1. m \in 1 .. n /\ m - 1 \in 0 .. n /\ m - 1 \notin Bad
      <4> HIDE DEF n, Bad
      <4> QED
        BY <3>0, <2>4
    <3>2. PICK g : Rec(g, m - 1)
      BY <3>1
    <3> DEFINE h == [k \in 0 .. m |-> IF k = m THEN g[m - 1] + f.sections[m].rawsize ELSE g[k]]
    <3>3. \A k \in 0 .. m : k # m => k \in 0 .. m - 1
      BY <3>1
    <3>4. \A k \in 0 .. m - 1 : g[k] = IF k = 0 THEN f.headers ELSE g[k - 1] + f.sections[k].rawsize
      BY <3>2
    <3>5. \A k \in 0 .. m : k # 0 => k - 1 \in 0 .. m /\ k - 1 # m
      BY <3>1
    <3>6. \A k \in 0 .. m : h[k] = IF k = 0 THEN f.headers ELSE h[k - 1] + f.sections[k].rawsize
      BY <3>1, <3>3, <3>4, <3>5
    <3>7. Rec(h, m)
      BY <3>6
    <3> QED
      BY <3>7
  <2> QED
    BY <2>3, <2>4
<1>3. Rec(sum, n)
  <2>1. \E g : Rec(g, n)
    BY <1>1, <1>2
  <2> QED
    BY <2>1
<1>4. \A k \in 0 .. n : sum[k] = IF k = 0 THEN f.headers ELSE sum[k - 1] + f.sections[k].rawsize
  BY <1>3
<1>5. SumOfBytes(f) = sum[n]
  BY DEF SumOfBytes
<1> HIDE DEF sum
<1>6. \A k \in 0 .. n : sum[k] \in Nat
  <2> DEFINE Bad == {k \in 0 .. n : sum[k] \notin Nat}
  <2> SUFFICES ASSUME Bad # {} PROVE FALSE
    OBVIOUS
  <2>1. Bad \subseteq Nat
    BY <1>1
  <2>2. PICK k \in Bad : \A o \in Bad : k <= o
    BY <2>1, LeastElement, Zenon
  <2>3. k # 0
    BY <1>1, <1>4, <2>2
  <2>4. k \in 0 .. n /\ n \in Nat /\ (k - 1 \in Bad => k <= k - 1)
    BY <1>1, <2>2
  <2>5. k \in 1 .. n /\ k - 1 \in 0 .. n /\ k - 1 \notin Bad
    <3> HIDE DEF n, Bad
    <3> QED
      BY <2>3, <2>4
  <2>6. sum[k] \notin Nat /\ sum[k - 1] \in Nat
    BY <2>2, <2>5
  <2>7. f.sections[k].rawsize \in Nat /\ sum[k] = sum[k - 1] + f.sections[k].rawsize
    BY <1>1, <1>4, <2>3, <2>5
  <2> HIDE DEF n, Bad
  <2> QED
    BY <2>6, <2>7
<1> QED
  BY <1>1, <1>5, <1>6

(* What generate_hash reads of a file it accepts lies in the file.         *)
LEMMA HashedInFile ==
    ASSUME NEW f \in Files, SectionDataInFile(f), TailInOrder(f)
    PROVE  Hashed(f) \subseteq 0 .. f.len - 1
<1>1. /\ f.len \in Nat /\ f.headers \in Nat /\ f.certs.size \in Nat
      /\ f.sections \in Seq(Section) /\ SumOfBytes(f) \in Nat
  BY FileFields, SumIsNat
<1>2. 0 .. f.headers - 1 \subseteq 0 .. f.len - 1
  BY <1>1 DEF SectionDataInFile
<1>3. HashedTail(f) \subseteq 0 .. f.len - 1
  BY <1>1 DEF HashedTail
<1>4. ASSUME NEW k \in DOMAIN f.sections PROVE Raw(f.sections[k]) \subseteq 0 .. f.len - 1
  <2> DEFINE s == f.sections[k]
  <2>1. s \in Section
    BY <1>1
  <2>2. s.raw \in Nat /\ s.rawsize \in Nat
    BY <2>1, FieldsAreNat
  <2>3. s.rawsize # 0 => s.raw < f.len /\ s.rawsize <= f.len - s.raw
    BY DEF SectionDataInFile
  <2> HIDE DEF s
  <2> QED
    BY <1>1, <2>2, <2>3 DEF Raw, s
<1> QED
  BY <1>2, <1>3, <1>4 DEF Hashed

---------------------------------------------------------------------------
(* Types                                                                   *)

Held == {"sections", "protect", "entered"}

(* The parts of TypeOK that do not depend on what has been hashed.         *)
StateInv ==
    /\ pc \in {"idle", "header", "verify", "hash", "allocate", "sections", "protect",
               "entered", "restore"}
    /\ file \in Files /\ secure \in BOOLEAN /\ require_nx \in BOOLEAN /\ moved \in BOOLEAN
    /\ proto \in {"none", "works", "fails"}
    /\ held <=> pc \in Held
    /\ li \in {"shim", "stage"} /\ (pc = "idle" => li = "shim")
    /\ fixed \in {{}, file.fixups}

(* Where the loops are.                                                    *)
LoopInv ==
    /\ i \in 1 .. Len(file.sections) + 1
    /\ RelocSection \in 0 .. Len(file.sections)
    /\ found_entry_point \in 0 .. Len(file.sections)
    /\ pc \in {"idle", "header", "verify", "hash", "allocate"} =>
          i = 1 /\ RelocSection = 0 /\ found_entry_point = 0
    /\ pc = "sections" => RelocSection < i /\ found_entry_point < i

(* What has been hashed is in the file, what is in memory are bytes of it  *)
(* or marks, and pages have rights.                                        *)
BytesInv ==
    /\ hashed \subseteq 0 .. file.len - 1
    /\ \A a \in DOMAIN mem : mem[a] \in Int /\ mem[a] >= Untouched
    /\ \A p \in DOMAIN attrs : attrs[p] \subseteq {"R", "W", "X"}
    /\ pc \in {"idle", "header", "verify", "hash", "allocate"} => mem = <<>> /\ attrs = <<>>
    /\ pc \in Held => DOMAIN mem = 0 .. file.size - 1 /\ DOMAIN attrs = PagesOf(file)
    /\ pc \in {"idle", "header"} => hashed = {}

LEMMA StateStep == StateInv /\ [Next]_vars => StateInv'
<1> SUFFICES ASSUME StateInv, [Next]_vars PROVE StateInv'
  OBVIOUS
<1> USE DEF StateInv, Held, Refuse, Goto, boot, checks, image, locals
<1>1. CASE start_image \/ ReadHeader \/ verify_buffer \/ generate_hash
  BY <1>1 DEF start_image, ReadHeader, verify_buffer, generate_hash
<1>2. CASE AllocateImage
  BY <1>2 DEF AllocateImage
<1>3. CASE LoadSection
  <2>1. /\ pc = "sections" /\ UNCHANGED <<file, boot, fixed, moved, li>>
        /\ \/ pc' = "sections" /\ held' = held
           \/ pc' = "restore" /\ held' = FALSE
    BY <1>3, Zenon DEF LoadSection
  <2> QED
    BY <2>1
<1>4. CASE relocate_coff
  BY <1>4 DEF relocate_coff
<1>5. CASE ProtectSection \/ Finish \/ EntryReturns
  BY <1>5 DEF ProtectSection, Finish, EntryReturns
<1>6. CASE restore_loaded_image
  BY <1>6 DEF restore_loaded_image
<1>7. CASE UNCHANGED vars
  BY <1>7 DEF vars
<1> QED
  BY <1>1, <1>2, <1>3, <1>4, <1>5, <1>6, <1>7 DEF Next

LEMMA SectionsLen ==
    ASSUME NEW f \in Files
    PROVE  /\ Len(f.sections) \in Nat /\ DOMAIN f.sections = 1 .. Len(f.sections)
           /\ \A k \in 1 .. Len(f.sections) : f.sections[k] \in Section
<1>1. f.sections \in Seq(Section)
  BY FileFields
<1> QED
  BY <1>1

LEMMA LoopStep == StateInv /\ LoopInv /\ [Next]_vars => LoopInv'
<1> SUFFICES ASSUME StateInv, LoopInv, [Next]_vars PROVE LoopInv'
  OBVIOUS
<1> USE DEF LoopInv, Refuse, Goto, boot, checks, image, locals
<1>0. Len(file.sections) \in Nat /\ file \in Files
  BY SectionsLen DEF StateInv
<1>1. CASE start_image \/ ReadHeader \/ verify_buffer \/ generate_hash
  BY <1>1 DEF start_image, ReadHeader, verify_buffer, generate_hash
<1>2. CASE AllocateImage
  BY <1>0, <1>2 DEF AllocateImage
<1>3. CASE LoadSection
  <2>1. /\ UNCHANGED file /\ pc = "sections" /\ i <= Len(file.sections)
        /\ \/ pc' = "restore" /\ UNCHANGED <<i, RelocSection, found_entry_point>>
           \/ /\ pc' = "sections" /\ i' = i + 1
              /\ RelocSection' \in {RelocSection, i}
              /\ found_entry_point' \in {found_entry_point, found_entry_point + 0, found_entry_point + 1}
    BY <1>3 DEF LoadSection
  <2> QED
    BY <1>0, <2>1
<1>4. CASE relocate_coff
  BY <1>0, <1>4 DEF relocate_coff
<1>5. CASE ProtectSection
  BY <1>0, <1>5 DEF ProtectSection
<1>6. CASE Finish \/ EntryReturns
  BY <1>6 DEF Finish, EntryReturns
<1>7. CASE restore_loaded_image
  <2>1. Len(file'.sections) \in Nat
    BY <1>7, SectionsLen DEF restore_loaded_image
  <2> QED
    BY <1>7, <2>1 DEF restore_loaded_image
<1>8. CASE UNCHANGED vars
  BY <1>8 DEF vars
<1> QED
  BY <1>1, <1>2, <1>3, <1>4, <1>5, <1>6, <1>7, <1>8 DEF Next

(* update_mem_attrs changes no page's rights to anything odd.              *)
LEMMA RightsKept ==
    ASSUME NEW old, NEW pages, NEW rights \in SUBSET {"R", "W", "X"},
           \A p \in DOMAIN old : old[p] \subseteq {"R", "W", "X"},
           NEW new \in update_mem_attrs(old, pages, rights)
    PROVE  DOMAIN new = DOMAIN old /\ \A p \in DOMAIN old : new[p] \subseteq {"R", "W", "X"}
<1>1. PICK o \in Outcomes : new = [p \in DOMAIN old |->
                               IF p \notin pages \/ o = "kept" THEN old[p]
                               ELSE IF o = "half" THEN old[p] \cap rights ELSE rights]
  BY DEF update_mem_attrs
<1> QED
  BY <1>1

LEMMA BytesStep == StateInv /\ LoopInv /\ BytesInv /\ [Next]_vars => BytesInv'
<1> SUFFICES ASSUME StateInv, LoopInv, BytesInv, [Next]_vars PROVE BytesInv'
  OBVIOUS
<1> USE DEF BytesInv, Refuse, Goto, boot, checks, image, locals, Held
<1>0. file \in Files
  BY DEF StateInv
<1>1. CASE start_image
  BY <1>1 DEF start_image
<1>2. CASE ReadHeader
  BY <1>2 DEF ReadHeader
<1>3. CASE verify_buffer
  BY <1>0, <1>3, HashedInFile DEF verify_buffer
<1>4. CASE generate_hash
  BY <1>0, <1>4, HashedInFile DEF generate_hash
<1>5. CASE AllocateImage
  <2>1. /\ UNCHANGED <<file, hashed>> /\ pc' \in {"sections", "restore"} /\ pc = "allocate"
        /\ \/ pc' = "restore" /\ UNCHANGED <<mem, attrs>>
           \/ /\ attrs' \in update_mem_attrs([p \in PagesOf(file) |-> {"R", "W", "X"}],
                                             PagesOf(file), {"R", "W"})
              /\ mem' = [a \in 0 .. file.size - 1 |-> IF a < file.headers THEN a ELSE Untouched]
    BY <1>5 DEF AllocateImage
  <2>2. CASE pc' = "restore" /\ UNCHANGED <<mem, attrs>>
    BY <2>1, <2>2
  <2>3. CASE /\ attrs' \in update_mem_attrs([p \in PagesOf(file) |-> {"R", "W", "X"}],
                                            PagesOf(file), {"R", "W"})
             /\ mem' = [a \in 0 .. file.size - 1 |-> IF a < file.headers THEN a ELSE Untouched]
    <3>1. DOMAIN attrs' = PagesOf(file) /\ \A p \in PagesOf(file) : attrs'[p] \subseteq {"R", "W", "X"}
      <4> DEFINE old == [p \in PagesOf(file) |-> {"R", "W", "X"}]
      <4>1. DOMAIN old = PagesOf(file) /\ \A p \in DOMAIN old : old[p] \subseteq {"R", "W", "X"}
        OBVIOUS
      <4> HIDE DEF old
      <4>2. attrs' \in update_mem_attrs(old, PagesOf(file), {"R", "W"})
        BY <2>3 DEF old
      <4> QED
        BY <4>1, <4>2, RightsKept
    <3>2. \A a \in DOMAIN mem' : mem'[a] \in Int /\ mem'[a] >= Untouched
      BY <2>3, <1>0, FileFields DEF Untouched
    <3>3. DOMAIN mem' = 0 .. file.size - 1
      BY <2>3
    <3> QED
      BY <2>1, <3>1, <3>2, <3>3
  <2> QED
    BY <2>1, <2>2, <2>3
<1>6. CASE LoadSection
  <2> DEFINE s == file.sections[i]
  <2>1. /\ UNCHANGED <<file, hashed, attrs>> /\ pc = "sections" /\ pc' \in {"sections", "restore"}
        /\ mem' = mem \/ mem' = CopySection(s)
        /\ i <= Len(file.sections)
    BY <1>6 DEF LoadSection
  <2>2. s \in Section
    BY <1>0, <2>1, SectionsLen DEF LoopInv
  <2>3. CASE mem' = CopySection(s)
    <3>1. DOMAIN mem' = DOMAIN mem
      BY <2>3 DEF CopySection
    <3>2. s.va \in Nat /\ s.raw \in Nat /\ s.vsize \in Nat
      BY <2>2, FieldsAreNat
    <3> HIDE DEF s
    <3>3. ASSUME NEW a \in DOMAIN mem PROVE mem'[a] \in Int /\ mem'[a] >= Untouched
      <4>1. a \in Int
        BY <2>1, <1>0, FileFields
      <4> QED
        BY <2>3, <3>2, <4>1 DEF CopySection, Bytes, Zero, Untouched
    <3> QED
      BY <2>1, <3>1, <3>3
  <2> QED
    BY <2>1, <2>3
<1>7. CASE relocate_coff
  BY <1>7 DEF relocate_coff
<1>8. CASE ProtectSection
  <2> DEFINE s == file.sections[i]
  <2>1. /\ UNCHANGED <<file, hashed, mem, pc>> /\ pc = "protect"
        /\ attrs' = attrs \/ attrs' \in update_mem_attrs(attrs, SectionPages(file, s), Rights(s))
    BY <1>8 DEF ProtectSection
  <2>2. Rights(s) \subseteq {"R", "W", "X"}
    BY DEF Rights
  <2>3. DOMAIN attrs' = DOMAIN attrs /\ \A p \in DOMAIN attrs : attrs'[p] \subseteq {"R", "W", "X"}
    BY <2>1, <2>2, RightsKept
  <2> QED
    BY <2>1, <2>3
<1>9. CASE Finish \/ EntryReturns
  BY <1>9 DEF Finish, EntryReturns
<1>10. CASE restore_loaded_image
  BY <1>10 DEF restore_loaded_image
<1>11. CASE UNCHANGED vars
  BY <1>11 DEF vars
<1> QED
  BY <1>1, <1>2, <1>3, <1>4, <1>5, <1>6, <1>7, <1>8, <1>9, <1>10, <1>11 DEF Next

LEMMA LoaderInit == Init => StateInv /\ LoopInv /\ BytesInv
<1> SUFFICES ASSUME Init PROVE StateInv /\ LoopInv /\ BytesInv
  OBVIOUS
<1>1. Len(file.sections) \in Nat
  BY SectionsLen DEF Init
<1>2. StateInv /\ LoopInv
  BY <1>1 DEF Init, StateInv, LoopInv, Held
<1>3. DOMAIN mem = {} /\ DOMAIN attrs = {}
  BY DEF Init
<1> QED
  BY <1>2, <1>3 DEF Init, BytesInv, Held

(* Offsets, counters, pages and the loaded image stay in range, whatever   *)
(* the headers say: what is copied comes from the file, and the pages of a *)
(* refused image are given back.                                           *)
THEOREM TypeCorrect == Spec => []TypeOK
<1>1. StateInv /\ LoopInv /\ BytesInv /\ LoadedIsHashed => TypeOK
  <2> SUFFICES ASSUME StateInv, LoopInv, BytesInv, LoadedIsHashed PROVE TypeOK
    OBVIOUS
  <2>1. file.len \in Nat
    BY FileFields DEF StateInv
  <2>2. ASSUME NEW a \in DOMAIN mem PROVE mem[a] \in Untouched .. file.len - 1
    <3>1. mem[a] >= 0 => mem[a] \in 0 .. file.len - 1
      BY DEF LoadedIsHashed, BytesInv
    <3> QED
      BY <2>1, <3>1 DEF BytesInv, Untouched
  <2> QED
    BY <2>2 DEF TypeOK, StateInv, LoopInv, BytesInv, Held
<1> QED
  BY <1>1, LoaderInit, StateStep, LoopStep, BytesStep, WhatRunsWasHashed, PTL DEF Spec
---------------------------------------------------------------------------
(* The image that runs                                                     *)

(* The sections before the n-th that are copied over an offset, or give a  *)
(* page its rights, and what the last of them makes of it.                 *)
Over(f, a, n) ==
    {k \in DOMAIN f.sections : /\ k < n /\ a \in Bytes(f.sections[k])
                               /\ ~Skipped(f.sections[k]) /\ ~Has(f.sections[k], "discardable")}
PagesOver(f, p, n) ==
    {k \in DOMAIN f.sections : /\ k < n /\ p \in SectionPages(f, f.sections[k])
                               /\ ~Skipped(f.sections[k])}
Taken(s, a) == IF Has(s, "bss") \/ a - s.va >= s.rawsize THEN Zero ELSE s.raw + (a - s.va)
Content(f, a, S) == IF S = {} THEN (IF a < f.headers THEN a ELSE Untouched)
                    ELSE Taken(f.sections[LastOf(S)], a)
PageRights(f, S) == IF S = {} THEN {"R", "W"} ELSE Rights(f.sections[LastOf(S)])

LaidOut(f, m, n)   == \A a \in 0 .. f.size - 1 : m[a] = Content(f, a, Over(f, a, n))
Protected(f, at, n) == \A p \in PagesOf(f) : at[p] = PageRights(f, PagesOver(f, p, n))

(* The sections before the n-th that are not skipped have passed the       *)
(* checks: none but a discardable one is writable and executable, the one  *)
(* called .reloc is the one that was kept.                                 *)
Passed(f, nx, rs, n) ==
    \A k \in DOMAIN f.sections : k < n /\ ~Skipped(f.sections[k]) =>
        /\ nx => ~({"write", "execute"} \subseteq f.sections[k].flags)
                 \/ Has(f.sections[k], "discardable")
        /\ f.sections[k].name = ".reloc" => rs = k

(* An entry point that was found lies in one of them.                      *)
EntryIn(f, found, n) ==
    found # 0 => \E k \in DOMAIN f.sections :
                    k < n /\ ~Skipped(f.sections[k]) /\ f.entry \in Bytes(f.sections[k])

Relocated(f, rs, mv, fx) ==
    mv /\ f.reloc.size # 0 /\ rs # 0 /\ f.sections[rs].raw < f.size => fx = f.fixups

(* How far the two loops over the sections have come.                      *)
AllOf(f) == Len(f.sections) + 1
LayoutInv ==
    /\ pc \in Held => file.entry < file.size
    /\ pc = "sections" =>
          /\ LaidOut(file, mem, i)
          /\ Passed(file, require_nx, RelocSection, i)
          /\ EntryIn(file, found_entry_point, i)
          /\ proto = "works" => \A p \in PagesOf(file) : attrs[p] = {"R", "W"}
    /\ pc \in {"protect", "entered"} =>
          /\ LaidOut(file, mem, AllOf(file))
          /\ Passed(file, require_nx, RelocSection, AllOf(file))
          /\ EntryIn(file, found_entry_point, AllOf(file))
          /\ Relocated(file, RelocSection, moved, fixed)
    /\ pc = "protect" /\ proto = "works" => Protected(file, attrs, i)
    /\ pc = "entered" => /\ proto = "works" => Protected(file, attrs, AllOf(file))
                         /\ found_entry_point = 1

(* The section looked at now comes last among those looked at.             *)
LEMMA LastIsNew ==
    ASSUME NEW S, NEW n \in Nat, \A k \in S : k \in Nat /\ k < n
    PROVE  LastOf(S \cup {n}) = n
<1>1. \A k \in S \cup {n} : k <= n
  OBVIOUS
<1>2. \A c : c \in S \cup {n} /\ (\A j \in S \cup {n} : j <= c) => c = n
  <2> SUFFICES ASSUME NEW c, c \in S, \A j \in S \cup {n} : j <= c PROVE FALSE
    OBVIOUS
  <2>1. c \in Nat /\ c < n /\ n <= c
    OBVIOUS
  <2> QED
    BY <2>1
<1> DEFINE c == LastOf(S \cup {n})
<1>3. c \in S \cup {n} /\ \A j \in S \cup {n} : j <= c
  BY <1>1 DEF LastOf
<1> QED
  BY <1>2, <1>3

(* One section more is looked at.                                          *)
LEMMA OverNext ==
    ASSUME NEW f \in Files, NEW n \in 1 .. Len(f.sections), NEW a
    PROVE  /\ n \in Nat /\ n \in DOMAIN f.sections
           /\ (\A k \in Over(f, a, n) : k \in Nat /\ k < n)
           /\ (\A k \in PagesOver(f, a, n) : k \in Nat /\ k < n)
           /\ Over(f, a, n + 1) =
                 IF /\ a \in Bytes(f.sections[n]) /\ ~Skipped(f.sections[n])
                    /\ ~Has(f.sections[n], "discardable")
                 THEN Over(f, a, n) \cup {n} ELSE Over(f, a, n)
           /\ PagesOver(f, a, n + 1) =
                 IF a \in SectionPages(f, f.sections[n]) /\ ~Skipped(f.sections[n])
                 THEN PagesOver(f, a, n) \cup {n} ELSE PagesOver(f, a, n)
<1>1. n \in Nat /\ n \in DOMAIN f.sections /\ \A k \in DOMAIN f.sections : k \in Nat
  BY SectionsLen
<1>2. \A k \in DOMAIN f.sections : k < n + 1 <=> k < n \/ k = n
  BY <1>1
<1>3. ~(n < n)
  BY <1>1
<1> QED
  BY <1>1, <1>2, <1>3, Zenon DEF Over, PagesOver

(* Nothing is over an offset before the first section.                     *)
LEMMA OverFirst ==
    ASSUME NEW f \in Files, NEW a
    PROVE  Over(f, a, 1) = {} /\ PagesOver(f, a, 1) = {}
<1>1. \A k \in DOMAIN f.sections : ~(k < 1)
  BY SectionsLen
<1> QED
  BY <1>1 DEF Over, PagesOver

(* Two offsets that agree in 32 bits: a section whose last byte, as the    *)
(* code computes it, lies behind the entry point holds the entry point.    *)
LEMMA EntryInBytes ==
    ASSUME NEW w \in Nat \ {0}, NEW va \in 0 .. w - 1, NEW size \in 0 .. w - 1,
           NEW e \in 0 .. w - 1, va <= e, (va + size + w - 1) % w > e, va # 0 \/ size # 0
    PROVE  e \in va .. va + size - 1
<1>1. CASE va + size - 1 < w
  <2>1. va + size - 1 \in 0 .. w - 1
    BY <1>1
  <2>2. (va + size + w - 1) % w = va + size - 1
    BY <2>1
  <2> QED
    BY <2>2
<1>2. CASE va + size - 1 >= w
  <2>1. va + size - 1 - w \in 0 .. w - 1
    BY <1>2
  <2>2. (va + size + w - 1) % w = va + size - 1 - w
    BY <2>1
  <2> QED
    BY <2>2
<1> QED
  BY <1>1, <1>2

(* The first loop: one more section is copied, or none.                    *)
LEMMA LaidNext ==
    ASSUME file \in Files, i \in 1 .. Len(file.sections), DOMAIN mem = 0 .. file.size - 1,
           LaidOut(file, mem, i), NEW m,
           m = IF Skipped(file.sections[i]) \/ Has(file.sections[i], "discardable") THEN mem
               ELSE CopySection(file.sections[i])
    PROVE  LaidOut(file, m, i + 1)
<1> DEFINE s == file.sections[i]
<1> SUFFICES ASSUME NEW a \in 0 .. file.size - 1
             PROVE  m[a] = Content(file, a, Over(file, a, i + 1))
  BY DEF LaidOut
<1>1. mem[a] = Content(file, a, Over(file, a, i))
  BY DEF LaidOut
<1>2. /\ i \in Nat /\ \A k \in Over(file, a, i) : k \in Nat /\ k < i
      /\ Over(file, a, i + 1) =
            IF a \in Bytes(s) /\ ~Skipped(s) /\ ~Has(s, "discardable")
            THEN Over(file, a, i) \cup {i} ELSE Over(file, a, i)
  BY OverNext
<1>3. CASE a \in Bytes(s) /\ ~Skipped(s) /\ ~Has(s, "discardable")
  <2>1. LastOf(Over(file, a, i) \cup {i}) = i
    BY <1>2, LastIsNew
  <2>2. Content(file, a, Over(file, a, i + 1)) = Taken(s, a)
    BY <1>2, <1>3, <2>1 DEF Content
  <2>3. m[a] = Taken(s, a)
    BY <1>3 DEF CopySection, Taken
  <2> QED
    BY <2>2, <2>3
<1>4. CASE ~(a \in Bytes(s) /\ ~Skipped(s) /\ ~Has(s, "discardable"))
  <2>1. m[a] = mem[a]
    BY <1>4 DEF CopySection
  <2> QED
    BY <1>1, <1>2, <1>4, <2>1
<1> QED
  BY <1>3, <1>4

(* ... and one more has passed the checks.                                 *)
LEMMA PassedNext ==
    ASSUME NEW f \in Files, NEW n \in 1 .. Len(f.sections), NEW nx, NEW rs, NEW rt,
           Passed(f, nx, rs, n), rs \in Nat,
           LET s == f.sections[n] IN
           \/ Skipped(s) /\ rt = rs
           \/ /\ nx => ~({"write", "execute"} \subseteq s.flags) \/ Has(s, "discardable")
              /\ s.name = ".reloc" => rs = 0
              /\ rt = IF s.name = ".reloc" THEN n ELSE rs
    PROVE  Passed(f, nx, rt, n + 1)
<1>1. n \in Nat /\ \A k \in DOMAIN f.sections : k \in Nat /\ k # 0
  BY SectionsLen
<1>2. \A k \in DOMAIN f.sections : k < n + 1 <=> k < n \/ k = n
  BY <1>1
<1>3. ASSUME NEW k \in DOMAIN f.sections, k < n, ~Skipped(f.sections[k]),
             f.sections[k].name = ".reloc"
      PROVE  rt = k
  <2>1. rs = k /\ rs # 0
    BY <1>1, <1>3 DEF Passed
  <2> QED
    BY <2>1
<1> QED
  BY <1>2, <1>3, Zenon DEF Passed

(* A section that passed them and seems to hold the entry point does.      *)
LEMMA EntryNext ==
    ASSUME NEW f \in Files, NEW n \in 1 .. Len(f.sections), NEW found, NEW more,
           f.entry < f.size, EntryIn(f, found, n), found \in Nat,
           LET s == f.sections[n] IN
           \/ more = found
           \/ /\ ~Skipped(s)
              /\ Has(s, "discardable") \/ (Start(f, s) # NULL /\ End(f, s) # NULL)
              /\ s.va <= f.entry /\ LastByte(s.va, s.vsize) > f.entry
    PROVE  EntryIn(f, more, n + 1)
<1> DEFINE s == f.sections[n]
<1>1. /\ n \in Nat /\ n \in DOMAIN f.sections /\ s \in Section
      /\ \A k \in DOMAIN f.sections : k \in Nat
  BY SectionsLen
<1>2. n < n + 1 /\ \A k \in DOMAIN f.sections : k < n => k < n + 1
  BY <1>1
<1>3. CASE more = found
  BY <1>2, <1>3 DEF EntryIn
<1>4. CASE /\ ~Skipped(s)
           /\ Has(s, "discardable") \/ (Start(f, s) # NULL /\ End(f, s) # NULL)
           /\ s.va <= f.entry /\ LastByte(s.va, s.vsize) > f.entry
  <2>1. /\ Word \in Nat \ {0} /\ s.va \in 0 .. Word - 1 /\ s.vsize \in 0 .. Word - 1
        /\ f.entry \in 0 .. Word - 1 /\ f.size \in Nat /\ f.size < Word
    <3>1. s.va \in Offset /\ s.vsize \in Offset
      BY <1>1 DEF Section
    <3>2. f.entry \in Nat /\ f.entry < Word /\ f.size \in Nat /\ f.size < Word
      BY FileFields
    <3> HIDE DEF s
    <3> QED
      BY <3>1, <3>2, ConstantsAssumption DEF Offset
  <2>2. s.va # 0 \/ s.vsize # 0
    <3> SUFFICES ASSUME s.va = 0, s.vsize = 0 PROVE FALSE
      OBVIOUS
    <3>1. End(f, s) # NULL
      BY <1>4 DEF Skipped
    <3>2. LastByte(0, 0) = Word - 1
      BY <2>1 DEF LastByte
    <3>3. ~(Word - 1 < f.size)
      BY <2>1
    <3> QED
      BY <3>1, <3>2, <3>3 DEF End, ImageAddress
  <2>3. f.entry \in Bytes(s)
    <3> HIDE DEF s
    <3> QED
      BY <1>4, <2>1, <2>2, EntryInBytes DEF LastByte, Bytes
  <2> QED
    BY <1>1, <1>2, <1>4, <2>3 DEF EntryIn
<1> QED
  BY <1>3, <1>4

(* The second loop: one more section gives its pages their rights.         *)
LEMMA ProtectedNext ==
    ASSUME NEW f \in Files, NEW n \in 1 .. Len(f.sections), NEW at, DOMAIN at = PagesOf(f),
           Protected(f, at, n), NEW bt,
           bt = IF Skipped(f.sections[n]) THEN at
                ELSE [p \in DOMAIN at |-> IF p \notin SectionPages(f, f.sections[n]) THEN at[p]
                                          ELSE Rights(f.sections[n])]
    PROVE  Protected(f, bt, n + 1)
<1> DEFINE s == f.sections[n]
<1> SUFFICES ASSUME NEW p \in PagesOf(f) PROVE bt[p] = PageRights(f, PagesOver(f, p, n + 1))
  BY DEF Protected
<1>1. at[p] = PageRights(f, PagesOver(f, p, n))
  BY DEF Protected
<1>2. /\ n \in Nat /\ \A k \in PagesOver(f, p, n) : k \in Nat /\ k < n
      /\ PagesOver(f, p, n + 1) =
            IF p \in SectionPages(f, s) /\ ~Skipped(s) THEN PagesOver(f, p, n) \cup {n}
            ELSE PagesOver(f, p, n)
  BY OverNext
<1>3. CASE p \in SectionPages(f, s) /\ ~Skipped(s)
  <2>1. LastOf(PagesOver(f, p, n) \cup {n}) = n
    BY <1>2, LastIsNew
  <2>2. PageRights(f, PagesOver(f, p, n + 1)) = Rights(s)
    BY <1>2, <1>3, <2>1 DEF PageRights
  <2> QED
    BY <1>3, <2>2
<1>4. CASE ~(p \in SectionPages(f, s) /\ ~Skipped(s))
  BY <1>1, <1>2, <1>4
<1> QED
  BY <1>3, <1>4

LEMMA LayoutStep ==
    StateInv /\ LoopInv /\ BytesInv /\ LayoutInv /\ [Next]_vars => LayoutInv'
<1> SUFFICES ASSUME StateInv, LoopInv, BytesInv, LayoutInv, [Next]_vars PROVE LayoutInv'
  OBVIOUS
<1>0. /\ file \in Files /\ Len(file.sections) \in Nat /\ i \in 1 .. Len(file.sections) + 1
      /\ RelocSection \in Nat /\ found_entry_point \in Nat
  <2>1. Len(file.sections) \in Nat
    BY SectionsLen DEF StateInv
  <2> QED
    BY <2>1 DEF StateInv, LoopInv
<1>1. CASE start_image \/ ReadHeader \/ verify_buffer \/ generate_hash
  <2>1. pc' \notin {"sections", "protect", "entered"}
    BY <1>1 DEF start_image, ReadHeader, verify_buffer, generate_hash, Refuse, Goto
  <2> QED
    BY <2>1 DEF LayoutInv, Held
<1>2. CASE AllocateImage
  <2>1. CASE pc' = "restore"
    BY <2>1 DEF LayoutInv, Held
  <2>2. CASE pc' # "restore"
    <3>1. /\ pc' = "sections" /\ UNCHANGED <<file, require_nx, proto, i, RelocSection, found_entry_point>>
          /\ attrs' \in update_mem_attrs([p \in PagesOf(file) |-> {"R", "W", "X"}],
                                         PagesOf(file), {"R", "W"})
          /\ mem' = [a \in 0 .. file.size - 1 |-> IF a < file.headers THEN a ELSE Untouched]
          /\ ImageAddress(file.size, file.entry) # NULL
          /\ pc = "allocate"
      BY <1>2, <2>2, Zenon DEF AllocateImage, Refuse, boot, locals
    <3>2. file.entry < file.size
      BY <3>1 DEF ImageAddress
    <3>3. i = 1 /\ RelocSection = 0 /\ found_entry_point = 0
      BY <3>1 DEF LoopInv
    <3>4. LaidOut(file, mem', 1)
      BY <3>1, <1>0, OverFirst DEF LaidOut, Content
    <3>5. Passed(file, require_nx, RelocSection, 1)
      <4>1. \A k \in DOMAIN file.sections : ~(k < 1)
        BY <1>0, SectionsLen
      <4> QED
        BY <4>1 DEF Passed
    <3>6. EntryIn(file, found_entry_point, 1)
      BY <3>3 DEF EntryIn
    <3>7. proto = "works" => \A p \in PagesOf(file) : attrs'[p] = {"R", "W"}
      BY <3>1 DEF update_mem_attrs, Outcomes
    <3> QED
      BY <3>1, <3>2, <3>3, <3>4, <3>5, <3>6, <3>7 DEF LayoutInv
  <2> QED
    BY <2>1, <2>2
<1>3. CASE LoadSection
  <2> DEFINE s == file.sections[i]
  <2>1. CASE pc' = "restore"
    BY <2>1 DEF LayoutInv, Held
  <2>2. CASE pc' # "restore"
    <3>1. /\ pc = "sections" /\ pc' = "sections" /\ i <= Len(file.sections) /\ i' = i + 1
          /\ UNCHANGED <<file, require_nx, proto, attrs>>
          /\ \/ Skipped(s) /\ UNCHANGED <<mem, RelocSection, found_entry_point>>
             \/ /\ ~Skipped(s) /\ ~SectionRefused(file, s)
                /\ found_entry_point' = found_entry_point
                      + IF s.va <= file.entry /\ LastByte(s.va, s.vsize) > file.entry THEN 1 ELSE 0
                /\ RelocSection' = IF s.name = ".reloc" THEN i ELSE RelocSection
                /\ mem' = IF Has(s, "discardable") THEN mem ELSE CopySection(s)
      BY <1>3, <2>2, Zenon DEF LoadSection, Refuse, Goto, boot
    <3>2. /\ i \in 1 .. Len(file.sections) /\ DOMAIN mem = 0 .. file.size - 1
          /\ file.entry < file.size
          /\ LaidOut(file, mem, i) /\ Passed(file, require_nx, RelocSection, i)
          /\ EntryIn(file, found_entry_point, i)
          /\ proto = "works" => \A p \in PagesOf(file) : attrs[p] = {"R", "W"}
      BY <3>1, <1>0 DEF LayoutInv, BytesInv, Held
    <3>3. mem' = IF Skipped(s) \/ Has(s, "discardable") THEN mem ELSE CopySection(s)
      BY <3>1, Zenon
    <3>4. LaidOut(file, mem', i + 1)
      BY <3>2, <3>3, <1>0, LaidNext
    <3>5. Passed(file, require_nx, RelocSection', i + 1)
      <4>1. \/ Skipped(s) /\ RelocSection' = RelocSection
            \/ /\ require_nx => ~({"write", "execute"} \subseteq s.flags) \/ Has(s, "discardable")
               /\ s.name = ".reloc" => RelocSection = 0
               /\ RelocSection' = IF s.name = ".reloc" THEN i ELSE RelocSection
        BY <3>1, Zenon DEF SectionRefused
      <4> QED
        BY <4>1, <3>2, <1>0, PassedNext
    <3>6. EntryIn(file, found_entry_point', i + 1)
      <4>1. \/ found_entry_point' = found_entry_point
            \/ /\ ~Skipped(s)
               /\ Has(s, "discardable") \/ (Start(file, s) # NULL /\ End(file, s) # NULL)
               /\ s.va <= file.entry /\ LastByte(s.va, s.vsize) > file.entry
        <5>1. CASE s.va <= file.entry /\ LastByte(s.va, s.vsize) > file.entry
          BY <3>1, <5>1, Zenon DEF SectionRefused
        <5>2. CASE ~(s.va <= file.entry /\ LastByte(s.va, s.vsize) > file.entry)
          BY <3>1, <5>2, <1>0
        <5> QED
          BY <5>1, <5>2
      <4> QED
        BY <4>1, <3>2, <1>0, EntryNext
    <3> QED
      BY <3>1, <3>2, <3>4, <3>5, <3>6 DEF LayoutInv
  <2> QED
    BY <2>1, <2>2
<1>4. CASE relocate_coff
  <2>1. CASE pc' = "restore"
    BY <2>1 DEF LayoutInv, Held
  <2>2. CASE pc' # "restore"
    <3>1. /\ pc = "sections" /\ pc' = "protect" /\ i > Len(file.sections) /\ i' = 1
          /\ UNCHANGED <<file, require_nx, proto, mem, attrs, moved, RelocSection, found_entry_point>>
          /\ \/ \/ file.reloc.size = 0 \/ RelocSection = 0
                \/ TableNowhere(file, file.sections[RelocSection])
             \/ fixed' = IF moved THEN file.fixups ELSE {}
      BY <1>4, <2>2, Zenon DEF relocate_coff, Refuse, Goto, boot
    <3>2. i = AllOf(file)
      BY <3>1, <1>0 DEF AllOf
    <3>3. /\ file.entry < file.size
          /\ LaidOut(file, mem, i) /\ Passed(file, require_nx, RelocSection, i)
          /\ EntryIn(file, found_entry_point, i)
          /\ proto = "works" => \A p \in PagesOf(file) : attrs[p] = {"R", "W"}
      BY <3>1 DEF LayoutInv, Held
    <3>4. Relocated(file, RelocSection, moved, fixed')
      <4> SUFFICES ASSUME moved, file.reloc.size # 0, RelocSection # 0,
                          file.sections[RelocSection].raw < file.size
                   PROVE  fixed' = file.fixups
        BY DEF Relocated
      <4>1. file.sections[RelocSection].raw \in Nat
        <5>1. file.sections[RelocSection] \in Section
          BY <1>0, SectionsLen DEF LoopInv
        <5> QED
          BY <5>1, FieldsAreNat
      <4>2. ~TableNowhere(file, file.sections[RelocSection])
        BY <4>1 DEF TableNowhere, ImageAddress, NULL
      <4> QED
        BY <3>1, <4>2
    <3>5. proto = "works" => Protected(file, attrs, 1)
      BY <3>3, <1>0, OverFirst DEF Protected, PageRights
    <3> QED
      BY <3>1, <3>2, <3>3, <3>4, <3>5 DEF LayoutInv
  <2> QED
    BY <2>1, <2>2
<1>5. CASE ProtectSection
  <2> DEFINE s == file.sections[i]
  <2>1. /\ pc = "protect" /\ pc' = "protect" /\ i <= Len(file.sections) /\ i' = i + 1
        /\ UNCHANGED <<file, require_nx, proto, mem, moved, fixed, RelocSection, found_entry_point>>
        /\ IF Skipped(s) THEN UNCHANGED attrs
           ELSE attrs' \in update_mem_attrs(attrs, SectionPages(file, s), Rights(s))
    BY <1>5, Zenon DEF ProtectSection, boot
  <2>2. /\ i \in 1 .. Len(file.sections) /\ DOMAIN attrs = PagesOf(file)
        /\ file.entry < file.size
        /\ LaidOut(file, mem, AllOf(file)) /\ Passed(file, require_nx, RelocSection, AllOf(file))
        /\ EntryIn(file, found_entry_point, AllOf(file))
        /\ Relocated(file, RelocSection, moved, fixed)
        /\ proto = "works" => Protected(file, attrs, i)
    BY <2>1, <1>0 DEF LayoutInv, BytesInv, Held
  <2>3. ASSUME proto = "works" PROVE Protected(file, attrs', i + 1)
    <3>1. attrs' = IF Skipped(s) THEN attrs
                   ELSE [p \in DOMAIN attrs |-> IF p \notin SectionPages(file, s) THEN attrs[p]
                                                ELSE Rights(s)]
      BY <2>1, <2>3 DEF update_mem_attrs, Outcomes
    <3> QED
      BY <2>2, <2>3, <3>1, <1>0, ProtectedNext
  <2> QED
    BY <2>1, <2>2, <2>3 DEF LayoutInv
<1>6. CASE Finish
  <2>1. CASE pc' = "restore"
    BY <2>1 DEF LayoutInv, Held
  <2>2. CASE pc' # "restore"
    <3>1. /\ pc = "protect" /\ pc' = "entered" /\ i > Len(file.sections) /\ found_entry_point = 1
          /\ UNCHANGED <<file, require_nx, proto, mem, attrs, moved, fixed, RelocSection,
                         found_entry_point>>
      BY <1>6, <2>2, Zenon DEF Finish, Refuse, Goto, boot, image, locals
    <3>2. i = AllOf(file)
      BY <3>1, <1>0 DEF AllOf
    <3> QED
      BY <3>1, <3>2 DEF LayoutInv, Held
  <2> QED
    BY <2>1, <2>2
<1>7. CASE EntryReturns \/ restore_loaded_image
  <2>1. pc' \notin {"sections", "protect", "entered"}
    BY <1>7 DEF EntryReturns, restore_loaded_image, Refuse, Goto
  <2> QED
    BY <2>1 DEF LayoutInv, Held
<1>8. CASE UNCHANGED vars
  BY <1>8 DEF vars, boot, image, locals, LayoutInv
<1> QED
  BY <1>1, <1>2, <1>3, <1>4, <1>5, <1>6, <1>7, <1>8 DEF Next

(* A set of natural numbers that is bounded has a greatest element.        *)
LEMMA LastElement ==
    ASSUME NEW S, S \subseteq Nat, S # {}, NEW n \in Nat, \A k \in S : k <= n
    PROVE  \E m \in S : \A k \in S : k <= m
<1> DEFINE T == {m \in Nat : \A k \in S : k <= m}
<1>1. T \subseteq Nat /\ T # {}
  OBVIOUS
<1>2. PICK m \in T : \A o \in T : m <= o
  BY <1>1, LeastElement, Zenon
<1>3. m \in S
  <2> SUFFICES ASSUME m \notin S PROVE FALSE
    OBVIOUS
  <2>1. \A k \in S : k \in Nat /\ k <= m /\ k # m
    BY <1>2
  <2>2. \A k \in S : k <= m - 1
    BY <2>1, <1>2
  <2>3. m # 0
    <3>1. PICK k : k \in S
      OBVIOUS
    <3>2. m \in Nat /\ k \in Nat /\ k <= m /\ k # m
      BY <1>2, <2>1, <3>1
    <3> QED
      BY <3>2
  <2>4. m - 1 \in T
    BY <2>2, <2>3, <1>2
  <2>5. m <= m - 1
    BY <1>2, <2>4
  <2> QED
    BY <1>2, <2>5
<1> QED
  BY <1>2, <1>3

(* AllOf is beyond the number of every section.                            *)
LEMMA AllSections ==
    ASSUME NEW f \in Files, NEW k \in DOMAIN f.sections PROVE k < AllOf(f) /\ k # 0
  BY SectionsLen DEF AllOf

(* The image that is entered was laid out, relocated and protected as its  *)
(* section table says, whatever images there are.                          *)
THEOREM EnteredAsDeclared == Spec => []RunsAsDeclared
<1>1. Init => LayoutInv
  BY DEF Init, LayoutInv, Held
<1>2. StateInv /\ LoopInv /\ BytesInv /\ LayoutInv => RunsAsDeclared
  <2> SUFFICES ASSUME StateInv, BytesInv, LayoutInv, pc = "entered"
               PROVE  RunsAsDeclared
    BY DEF RunsAsDeclared
  <2>1. /\ file \in Files /\ file.entry < file.size
        /\ LaidOut(file, mem, AllOf(file))
        /\ Passed(file, require_nx, RelocSection, AllOf(file))
        /\ EntryIn(file, found_entry_point, AllOf(file)) /\ found_entry_point = 1
        /\ Relocated(file, RelocSection, moved, fixed)
        /\ proto = "works" => Protected(file, attrs, AllOf(file))
    BY DEF StateInv, LayoutInv, Held
  <2>2. \A k \in DOMAIN file.sections : k < AllOf(file) /\ k # 0
    BY <2>1, AllSections
  <2>3. \A a \in 0 .. file.size - 1 : mem[a] = Declared(a)
    <3> SUFFICES ASSUME NEW a \in 0 .. file.size - 1 PROVE mem[a] = Declared(a)
      OBVIOUS
    <3>1. Over(file, a, AllOf(file)) =
             {k \in DOMAIN file.sections : Copied(k) /\ a \in Bytes(file.sections[k])}
      BY <2>2 DEF Over, Copied
    <3>2. mem[a] = Content(file, a, Over(file, a, AllOf(file)))
      BY <2>1 DEF LaidOut
    <3> QED
      BY <3>1, <3>2, Zenon DEF Declared, Content, Taken
  <2>4. ASSUME \A s \in Sections : Has(s, "discardable") => file.entry \notin Bytes(s)
        PROVE  mem[file.entry] # Untouched
    <3> DEFINE a    == file.entry
               over == Over(file, a, AllOf(file))
    <3>1. PICK k \in DOMAIN file.sections :
             ~Skipped(file.sections[k]) /\ a \in Bytes(file.sections[k])
      BY <2>1 DEF EntryIn
    <3>2. ~Has(file.sections[k], "discardable")
      BY <3>1, <2>4 DEF Sections
    <3>3. k \in over
      BY <2>2, <3>1, <3>2 DEF Over
    <3>4. a \in 0 .. file.size - 1 /\ mem[a] = Content(file, a, over)
      BY <2>1, FileFields DEF LaidOut
    <3>5. LastOf(over) \in over
      <4>1. over \subseteq Nat /\ \A j \in over : j <= Len(file.sections)
        BY <2>1, SectionsLen DEF Over
      <4>2. Len(file.sections) \in Nat
        BY <2>1, SectionsLen
      <4>3. \E n \in over : \A j \in over : j <= n
        BY <3>3, <4>1, <4>2, LastElement
      <4> HIDE DEF over
      <4> QED
        BY <4>3 DEF LastOf
    <3> DEFINE s == file.sections[LastOf(over)]
    <3>6. s \in Section /\ a \in Bytes(s)
      BY <2>1, <3>5, SectionsLen DEF Over
    <3>7. mem[a] = Taken(s, a)
      BY <3>3, <3>4 DEF Content
    <3>8. s.va \in Nat /\ s.raw \in Nat /\ a \in Nat /\ s.va <= a
      <4>1. s.va \in Nat /\ s.raw \in Nat /\ s.vsize \in Nat /\ a \in Nat
        BY <2>1, <3>6, FieldsAreNat, FileFields
      <4> HIDE DEF s, a
      <4> QED
        BY <3>6, <4>1 DEF Bytes
    <3> HIDE DEF s, a
    <3>9. Taken(s, a) >= Zero
      BY <3>8 DEF Taken, Zero
    <3> QED
      BY <3>7, <3>9 DEF Zero, Untouched, a
  <2>5. ASSUME moved, file.reloc.size # 0,
               \E s \in Sections : s.name = ".reloc" /\ ~Skipped(s) /\ s.raw < file.size
        PROVE  fixed = file.fixups
    <3>1. PICK k \in DOMAIN file.sections :
             /\ file.sections[k].name = ".reloc" /\ ~Skipped(file.sections[k])
             /\ file.sections[k].raw < file.size
      BY <2>5 DEF Sections
    <3>2. RelocSection = k /\ k # 0
      BY <2>1, <2>2, <3>1 DEF Passed
    <3> QED
      BY <2>1, <2>5, <3>1, <3>2 DEF Relocated
  <2>6. ASSUME proto = "works", NEW p \in PagesOf(file) PROVE attrs[p] = DeclaredRights(p)
    <3>1. PagesOver(file, p, AllOf(file)) =
             {k \in DOMAIN file.sections :
                 ~Skipped(file.sections[k]) /\ p \in SectionPages(file, file.sections[k])}
      BY <2>2 DEF PagesOver
    <3>2. attrs[p] = PageRights(file, PagesOver(file, p, AllOf(file)))
      BY <2>1, <2>6 DEF Protected
    <3> QED
      BY <3>1, <3>2, Zenon DEF DeclaredRights, PageRights
  <2>7. ASSUME proto = "works", require_nx, NEW p \in PagesOf(file),
               \A s \in Sections : ~({"write", "execute", "discardable"} \subseteq s.flags)
        PROVE  ~({"W", "X"} \subseteq attrs[p])
    <3> DEFINE over == PagesOver(file, p, AllOf(file))
    <3>1. attrs[p] = PageRights(file, over)
      BY <2>1, <2>7 DEF Protected
    <3>2. CASE over = {}
      BY <3>1, <3>2 DEF PageRights
    <3>3. CASE over # {}
      <4>1. LastOf(over) \in over
        <5>1. over \subseteq Nat /\ \A j \in over : j <= Len(file.sections)
          BY <2>1, SectionsLen DEF PagesOver
        <5>2. Len(file.sections) \in Nat
          BY <2>1, SectionsLen
        <5>3. \E n \in over : \A j \in over : j <= n
          BY <3>3, <5>1, <5>2, LastElement
        <5> HIDE DEF over
        <5> QED
          BY <5>3 DEF LastOf
      <4> DEFINE k == LastOf(over)
                 s == file.sections[k]
      <4>2. k \in DOMAIN file.sections /\ ~Skipped(s)
        BY <4>1 DEF PagesOver
      <4>3. ~({"write", "execute"} \subseteq s.flags) \/ Has(s, "discardable")
        BY <2>1, <2>2, <2>7, <4>2 DEF Passed
      <4>4. ~({"write", "execute", "discardable"} \subseteq s.flags)
        BY <2>7, <4>2 DEF Sections
      <4>5. attrs[p] = Rights(s)
        BY <3>1, <3>3 DEF PageRights
      <4> HIDE DEF s
      <4> QED
        BY <4>3, <4>4, <4>5 DEF Rights, Has
    <3> QED
      BY <3>2, <3>3
  <2> QED
    BY <2>3, <2>4, <2>5, <2>6, <2>7 DEF RunsAsDeclared
<1> QED
  BY <1>1, <1>2, LoaderInit, StateStep, LoopStep, BytesStep, LayoutStep, PTL DEF Spec
=============================================================================
