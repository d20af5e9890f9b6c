--------------------------- MODULE ShimHooksProofs ---------------------------
(* What the hooks and the protocol guarantee, for any number of nested     *)
(* shims and of programs that start one another.                           *)
EXTENDS ShimHooks, SequenceTheorems, TLAPS

---------------------------------------------------------------------------
(* The table and the protocol database                                     *)

Tables == [table : [Services -> Pointer], saved : [Shims -> [Services -> Pointer]],
           protocols : Seq(Shims)]

LEMMA NamesFacts ==
    /\ \A i \in Shims : i \in Pointer /\ i # "firmware" /\ i # "null"
    /\ "firmware" \in Pointer /\ "null" \in Pointer
    /\ Hooked \subseteq Services /\ "Exit" \in Services /\ "Exit" \notin Hooked
  BY ShimsAssumption DEF Pointer, Hooked, Services

LEMMA WithoutType ==
    ASSUME NEW s \in Seq(Shims), NEW i
    PROVE  Without(s, i) \in Seq(Shims)
<1>1. CASE \E k \in DOMAIN s : s[k] = i
  <2> DEFINE k == CHOOSE k \in DOMAIN s : s[k] = i
  <2>1. k \in 1 .. Len(s) /\ Len(s) \in Nat
    BY <1>1
  <2> HIDE DEF k
  <2>2. /\ \A m \in 1 .. k - 1 : s[m] \in Shims
        /\ \A m \in k + 1 .. Len(s) : s[m] \in Shims
    BY <2>1, ElementOfSeq
  <2>3. SubSeq(s, 1, k - 1) \in Seq(Shims) /\ SubSeq(s, k + 1, Len(s)) \in Seq(Shims)
    BY <2>1, <2>2, SubSeqProperties
  <2>4. RemoveAt(s, k) \in Seq(Shims)
    BY <2>3, ConcatProperties DEF RemoveAt
  <2> QED
    BY <1>1, <2>4 DEF Without, k
<1> QED
  BY <1>1 DEF Without

LEMMA TablesType ==
    ASSUME NEW b \in Tables, NEW i \in Shims
    PROVE  /\ hook_system_services(i, b) \in Tables
           /\ unhook_system_services(i, b) \in Tables
           /\ hook_exit(i, b) \in Tables /\ unhook_exit(i, b) \in Tables
           /\ uninstall_shim_protocols(i, b) \in Tables
           /\ install_shim_protocols(i, b) \in Tables
<1> USE NamesFacts DEF Tables
<1>1. hook_system_services(i, b) \in Tables
  <2> DEFINE t == [x \in Services |-> IF x \in Hooked THEN i ELSE b.table[x]]
             v == [x \in Services |-> IF x \in Hooked THEN b.table[x] ELSE b.saved[i][x]]
  <2>1. t \in [Services -> Pointer] /\ v \in [Services -> Pointer]
    OBVIOUS
  <2>2. [b.saved EXCEPT ![i] = v] \in [Shims -> [Services -> Pointer]]
    BY <2>1
  <2>3. hook_system_services(i, b) = [b EXCEPT !.saved = [b.saved EXCEPT ![i] = v], !.table = t]
    BY DEF hook_system_services
  <2> QED
    BY <2>1, <2>2, <2>3
<1>2. unhook_system_services(i, b) \in Tables
  BY DEF unhook_system_services
<1>3. hook_exit(i, b) \in Tables
  BY DEF hook_exit
<1>4. unhook_exit(i, b) \in Tables
  <2>1. [b.table EXCEPT !["Exit"] = b.saved[i]["Exit"]] \in [Services -> Pointer]
    OBVIOUS
  <2> QED
    BY <2>1 DEF unhook_exit
<1>5. uninstall_shim_protocols(i, b) \in Tables
  BY WithoutType DEF uninstall_shim_protocols
<1>6. install_shim_protocols(i, b) \in Tables
  <2>1. Append(uninstall_shim_protocols(i, b).protocols, i) \in Seq(Shims)
    BY <1>5, AppendProperties
  <2> QED
    BY <1>5, <2>1 DEF install_shim_protocols
<1> QED
  BY <1>1, <1>2, <1>3, <1>4, <1>5, <1>6

LEMMA InitFiniType ==
    ASSUME NEW b \in Tables, NEW i \in Shims
    PROVE  shim_init(i, b) \in Tables /\ shim_fini(i, b) \in Tables
<1>1. (IF secure /\ i \in VendorCerts THEN hook_system_services(i, b) ELSE b) \in Tables
  BY TablesType
<1>2. shim_init(i, b) \in Tables
  BY <1>1, TablesType DEF shim_init
<1>3. shim_fini(i, b) \in Tables
  BY TablesType DEF shim_fini
<1> QED
  BY <1>2, <1>3

---------------------------------------------------------------------------
(* The stack                                                               *)

LEMMA NewFrameType ==
    /\ \A i \in Shims, f \in BOOLEAN, v \in Shims \cup {"firmware"}, t \in BOOLEAN :
           NewFrame("efi_main", i, v, t, f) \in Frame
    /\ \A i \in Shims \cup {"none"}, v \in Shims \cup {"firmware"}, t \in BOOLEAN :
           NewFrame("image", i, v, t, FALSE) \in Frame
    /\ \A i \in Shims : NewFrame("stage2", i, "firmware", FALSE, FALSE) \in Frame
  BY DEF NewFrame, Frame, Steps, Starting, Results

LEMMA PushFacts ==
    ASSUME NEW s \in Seq(Frame), NEW f \in Frame
    PROVE  /\ Append(s, f) \in Seq(Frame) /\ Len(Append(s, f)) = Len(s) + 1
           /\ \A k \in 1 .. Len(s) : Append(s, f)[k] = s[k]
           /\ Append(s, f)[Len(s) + 1] = f
  BY AppendProperties

LEMMA PrefixFacts ==
    ASSUME NEW S, NEW s \in Seq(S), NEW n \in 0 .. Len(s)
    PROVE  /\ SubSeq(s, 1, n) \in Seq(S) /\ Len(SubSeq(s, 1, n)) = n
           /\ \A k \in 1 .. n : SubSeq(s, 1, n)[k] = s[k]
           /\ SubSeq(s, 1, n) = <<>> <=> n = 0
<1>1. n \in Nat /\ n <= Len(s) /\ Len(s) \in Nat
  OBVIOUS
<1>2. SubSeq(s, 1, n) \in Seq(S) /\ Len(SubSeq(s, 1, n)) = n
      /\ \A k \in 1 .. n : SubSeq(s, 1, n)[k] = s[k]
  BY <1>1
<1> QED
  BY <1>1, <1>2

LEMMA FrontFacts ==
    ASSUME NEW S, NEW s \in Seq(S), s # <<>>
    PROVE  /\ Front(s) \in Seq(S) /\ Len(Front(s)) = Len(s) - 1
           /\ \A k \in 1 .. Len(s) - 1 : Front(s)[k] = s[k]
           /\ Front(s) = <<>> <=> Len(s) = 1
<1>1. Len(s) \in Nat /\ Len(s) > 0 /\ Len(s) - 1 \in 0 .. Len(s)
  BY EmptySeq
<1> QED
  <2>1. /\ SubSeq(s, 1, Len(s) - 1) \in Seq(S)
        /\ Len(SubSeq(s, 1, Len(s) - 1)) = Len(s) - 1
        /\ \A k \in 1 .. Len(s) - 1 : SubSeq(s, 1, Len(s) - 1)[k] = s[k]
        /\ SubSeq(s, 1, Len(s) - 1) = <<>> <=> Len(s) - 1 = 0
    BY <1>1, PrefixFacts
  <2> QED
    BY <1>1, <2>1 DEF Front

(* The running frame goes on to step x.                                    *)
LEMMA StepFacts ==
    ASSUME NEW s \in Seq(Frame), s # <<>>, NEW x \in Steps
    PROVE  LET t == [s EXCEPT ![Len(s)].step = x]
           IN  /\ t \in Seq(Frame) /\ Len(t) = Len(s)
               /\ \A k \in 1 .. Len(s) - 1 : t[k] = s[k]
               /\ t[Len(s)] = [s[Len(s)] EXCEPT !.step = x]
<1>1. Len(s) \in 1 .. Len(s) /\ Len(s) \in Nat
  BY EmptySeq
<1>2. [s[Len(s)] EXCEPT !.step = x] \in Frame
  <2>1. s[Len(s)] \in Frame
    BY <1>1, ElementOfSeq
  <2> QED
    BY <2>1 DEF Frame
<1> QED
  BY <1>1, <1>2, ExceptSeq

LEMMA AfterType == \A fr, r : AfterStartImage(fr, r) \in Starting \cup {"fini"}
  BY DEF AfterStartImage, Starting

LEMMA AdvanceFacts ==
    ASSUME NEW s \in Seq(Frame), s # <<>>, NEW r \in Results
    PROVE  /\ Advance(s, r) \in Seq(Frame) /\ Len(Advance(s, r)) = Len(s)
           /\ \A k \in 1 .. Len(s) - 1 : Advance(s, r)[k] = s[k]
           /\ \E x \in Starting \cup {"fini"} :
                 Advance(s, r)[Len(s)] = [s[Len(s)] EXCEPT !.step = x, !.status = r]
<1> DEFINE x == AfterStartImage(s[Len(s)], r)
           f == [s[Len(s)] EXCEPT !.step = x, !.status = r]
<1>1. Len(s) \in 1 .. Len(s) /\ Len(s) \in Nat /\ s[Len(s)] \in Frame
  BY EmptySeq, ElementOfSeq
<1>2. x \in Starting \cup {"fini"} /\ x \in Steps
  BY AfterType DEF Steps
<1>3. f \in Frame
  BY <1>1, <1>2 DEF Frame
<1>4. Advance(s, r) = [s EXCEPT ![Len(s)] = f]
  BY <1>1 DEF Advance
<1> HIDE DEF f
<1>5. /\ [s EXCEPT ![Len(s)] = f] \in Seq(Frame) /\ Len([s EXCEPT ![Len(s)] = f]) = Len(s)
      /\ \A k \in 1 .. Len(s) : [s EXCEPT ![Len(s)] = f][k] = IF k = Len(s) THEN f ELSE s[k]
  BY <1>1, <1>3, ExceptSeq
<1>6. \E y \in Starting \cup {"fini"} : f = [s[Len(s)] EXCEPT !.step = y, !.status = r]
  BY <1>2 DEF f
<1>7. /\ Advance(s, r) \in Seq(Frame) /\ Len(Advance(s, r)) = Len(s)
  BY <1>4, <1>5, Zenon
<1>a. \A k \in 1 .. Len(s) - 1 : k \in 1 .. Len(s) /\ k # Len(s)
  BY <1>1
<1>b. \A k \in 1 .. Len(s) - 1 : Advance(s, r)[k] = s[k]
  BY <1>4, <1>5, <1>a, Zenon
<1>8. Advance(s, r)[Len(s)] = f
  <2>1. Len(s) \in DOMAIN s
    BY <1>1
  <2> QED
    BY <1>4, <2>1
<1>9. \E y \in Starting \cup {"fini"} :
         Advance(s, r)[Len(s)] = [s[Len(s)] EXCEPT !.step = y, !.status = r]
  BY <1>6, <1>8, Zenon
<1> HIDE DEF x
<1> QED
  BY <1>7, <1>b, <1>9, Zenon

LEMMA UntrackFacts ==
    ASSUME NEW s \in Seq(Frame), NEW i
    PROVE  /\ Untrack(s, i) \in Seq(Frame) /\ Len(Untrack(s, i)) = Len(s)
           /\ \A k \in 1 .. Len(s) : \E t \in BOOLEAN : Untrack(s, i)[k] = [s[k] EXCEPT !.tracked = t]
<1>1. \A k \in 1 .. Len(s) : s[k] \in Frame
  BY ElementOfSeq
<1>2. \A k \in 1 .. Len(s) : [s[k] EXCEPT !.tracked = @ /\ s[k].via # i] \in Frame
  BY <1>1 DEF Frame
<1>3. Untrack(s, i) = [k \in 1 .. Len(s) |-> [s[k] EXCEPT !.tracked = @ /\ s[k].via # i]]
  BY DEF Untrack
<1>4. \A k \in 1 .. Len(s) : (s[k].tracked /\ s[k].via # i) \in BOOLEAN
  OBVIOUS
<1> DEFINE g(k) == [s[k] EXCEPT !.tracked = @ /\ s[k].via # i]
<1>5. Untrack(s, i) \in [1 .. Len(s) -> Frame] /\ Len(s) \in Nat
  <2>1. \A k \in 1 .. Len(s) : g(k) \in Frame
    BY <1>2
  <2>2. Untrack(s, i) = [k \in 1 .. Len(s) |-> g(k)]
    BY <1>3
  <2> HIDE DEF g
  <2> QED
    BY <2>1, <2>2
<1>6. Untrack(s, i) \in Seq(Frame) /\ Len(Untrack(s, i)) = Len(s)
  BY <1>5, SeqDef
<1>7. \A k \in 1 .. Len(s) : Untrack(s, i)[k] = [s[k] EXCEPT !.tracked = s[k].tracked /\ s[k].via # i]
  BY <1>3
<1> QED
  BY <1>4, <1>6, <1>7

---------------------------------------------------------------------------
(* Types                                                                   *)

FlagsOK ==
    /\ habits \in HabitSets
    /\ secure \in BOOLEAN /\ retain \in BOOLEAN
    /\ participating \in [Shims -> BOOLEAN]
    /\ by_hash \in [Shims -> BOOLEAN]
    /\ last_loaded \in [Shims -> BOOLEAN]
    /\ sbat_loaded \in [Shims -> BOOLEAN]
    /\ called \in [Shims -> BOOLEAN]
    /\ exited \subseteq Shims

ExitShape ==
    /\ exit \in [dir : {"none", "down", "up"}, chain : Seq(Shims), status : Results]
    /\ exit.dir = "up" => exit.chain # <<>>

Phases == {"run", "os", "reset", "returned"}

LEMMA TypeParts ==
    TypeOK <=> /\ FlagsOK /\ bs \in Tables /\ stack \in Seq(Frame) /\ phase \in Phases
               /\ exit \in [dir : {"none", "down", "up"}, chain : Seq(Shims), status : Results]
  BY Zenon DEF TypeOK, FlagsOK, Tables, Phases

LEMMA SetFlag ==
    ASSUME NEW f \in [Shims -> BOOLEAN], NEW i, NEW b \in BOOLEAN
    PROVE  [f EXCEPT ![i] = b] \in [Shims -> BOOLEAN]
  OBVIOUS

(* How control comes back to a starter.                                    *)
LEMMA BackFacts ==
    ASSUME NEW low, NEW fr \in Frame, NEW r, NEW b \in Tables, BackToStarter(low, fr, r, b),
           participating \in [Shims -> BOOLEAN]
    PROVE  /\ bs' \in Tables /\ stack' = low /\ participating' \in [Shims -> BOOLEAN]
           /\ phase' \in {phase, "returned", "reset"}
           /\ phase' = phase => fr.via # "firmware" \/ low # <<>> \/ phase = "returned"
<1>0. fr.via \in Shims \cup {"firmware"}
  BY DEF Frame
<1>1. CASE fr.via = "firmware"
  BY <1>1 DEF BackToStarter
<1>2. CASE fr.via # "firmware" /\ r = "ok"
  BY <1>2 DEF BackToStarter
<1>3. CASE fr.via # "firmware" /\ r # "ok"
  <2>1. fr.via \in Shims
    BY <1>0, <1>3
  <2>2. install_shim_protocols(fr.via, b) \in Tables
    BY <2>1, TablesType
  <2>3. /\ hook_system_services(fr.via, b) \in Tables
        /\ hook_system_services(fr.via, install_shim_protocols(fr.via, b)) \in Tables
    BY <2>1, <2>2, TablesType
  <2>4. [participating EXCEPT ![fr.via] = FALSE] \in [Shims -> BOOLEAN]
    BY SetFlag
  <2> QED
    BY <1>3, <2>3, <2>4 DEF BackToStarter
<1> QED
  BY <1>1, <1>2, <1>3

LEMMA VerifiedType ==
    ASSUME NEW i \in Shims, Verified(i), by_hash \in [Shims -> BOOLEAN]
    PROVE  by_hash' \in [Shims -> BOOLEAN]
  BY SetFlag DEF Verified

LEMMA TopFacts ==
    ASSUME stack \in Seq(Frame), stack # <<>>
    PROVE  /\ Top \in Frame /\ Len(stack) \in Nat /\ Len(stack) > 0
           /\ Len(stack) \in 1 .. Len(stack)
<1>1. Len(stack) \in Nat /\ Len(stack) > 0 /\ Len(stack) \in 1 .. Len(stack)
  BY EmptySeq
<1> QED
  BY <1>1, ElementOfSeq DEF Top

---------------------------------------------------------------------------
(* The order of frames                                                     *)

Programs == {"stage2", "image"}

(* The firmware's shim is at the bottom, a second stage is on its shim,    *)
(* which waits for it, and everything else is on a program.                *)
Linked(s) ==
    \A k \in 1 .. Len(s) :
        /\ k = 1 => s[k].kind = "efi_main" /\ s[k].via = "firmware" /\ s[k].shim = First
        /\ s[k].kind = "efi_main" => s[k].shim \in Shims /\ s[k].step # "verify"
        /\ s[k].kind \in Programs => s[k].step \in {"init", "verify"}
        /\ s[k].kind = "stage2" =>
              /\ k > 1 /\ s[k - 1].kind = "efi_main" /\ s[k - 1].step \in Starting
              /\ s[k].via = "firmware"
        /\ k > 1 /\ s[k].kind # "stage2" => s[k - 1].kind \in Programs

FrameInv ==
    /\ phase = "run" => stack # <<>>
    /\ phase = "run" /\ exit.dir # "none" => Top.kind \in Programs
    /\ Linked(stack)

(* An image that exits is taken off the stack, a second stage with the     *)
(* shim that started it.                                                   *)
LEMMA ExitingFrame ==
    ASSUME stack \in Seq(Frame), FrameInv, phase = "run", exit.dir # "none",
           NEW n, n = IF Top.kind = "stage2" THEN Len(stack) - 1 ELSE Len(stack)
    PROVE  /\ n \in 1 .. Len(stack) /\ stack[n] \in Frame /\ Len(stack) \in Nat
           /\ n - 1 \in 0 .. Len(stack)
           /\ stack[n].kind \in {"efi_main", "image"}
<1>1. stack # <<>> /\ Top.kind \in Programs
  BY DEF FrameInv
<1>2. Len(stack) \in 1 .. Len(stack) /\ Len(stack) \in Nat
  BY <1>1, TopFacts
<1>3. Top.kind = "stage2" => Len(stack) > 1 /\ stack[Len(stack) - 1].kind = "efi_main"
  BY <1>2 DEF FrameInv, Linked, Top
<1>4. n \in 1 .. Len(stack)
  BY <1>2, <1>3
<1> QED
  BY <1>1, <1>2, <1>3, <1>4, ElementOfSeq DEF Programs, Top


LEMMA LastExit ==
    ASSUME ExitShape, exit.dir = "up"
    PROVE  /\ Last(exit.chain) \in Shims
           /\ Len(exit.chain) # 1 => Front(exit.chain) \in Seq(Shims) /\ Front(exit.chain) # <<>>
<1>1. exit.chain \in Seq(Shims) /\ exit.chain # <<>>
  BY DEF ExitShape
<1>2. Len(exit.chain) \in 1 .. Len(exit.chain) /\ Len(exit.chain) \in Nat
  BY <1>1, EmptySeq
<1>3. Last(exit.chain) \in Shims
  BY <1>1, <1>2, ElementOfSeq DEF Last
<1>4. /\ Front(exit.chain) \in Seq(Shims)
      /\ Front(exit.chain) = <<>> <=> Len(exit.chain) = 1
  BY <1>1, FrontFacts
<1> QED
  BY <1>3, <1>4

LEMMA FlagsStep == TypeOK /\ ExitShape /\ FrameInv /\ [Next]_vars => FlagsOK'
<1> SUFFICES ASSUME TypeOK, ExitShape, FrameInv, [Next]_vars PROVE FlagsOK'
  OBVIOUS
<1>0. FlagsOK /\ bs \in Tables /\ stack \in Seq(Frame)
  BY TypeParts
<1>a. \A i \in Shims : participating[i] \in BOOLEAN /\ called[i] \in BOOLEAN
  BY <1>0 DEF FlagsOK
<1> USE DEF FlagsOK
<1>s. ASSUME Step, UNCHANGED habits PROVE FlagsOK'
  <2>1. ASSUME NEW i \in Shims, EfiMain(i) PROVE FlagsOK'
    <3>1. participating' \in [Shims -> BOOLEAN]
      BY <1>0, <1>a, <2>1, SetFlag DEF EfiMain
    <3>2. sbat_loaded' \in [Shims -> BOOLEAN]
      BY <1>0, <2>1, SetFlag DEF EfiMain
    <3> QED
      BY <1>0, <1>s, <2>1, <3>1, <3>2, VerifiedType DEF EfiMain
  <2>2. ASSUME NEW i \in Shims, EfiMainReturns(i) PROVE FlagsOK'
    <3>1. BackToStarter(Front(stack), Top, Top.status, shim_fini(i, bs)) /\ stack # <<>>
      BY <2>2 DEF EfiMainReturns, InShim, Running
    <3>2. participating' \in [Shims -> BOOLEAN]
      BY <1>0, <3>1, TopFacts, InitFiniType, BackFacts
    <3> QED
      BY <1>0, <1>s, <2>2, <3>2, SetFlag DEF EfiMainReturns
  <2>3. ASSUME NEW i \in Shims, start_image(i) PROVE FlagsOK'
    BY <1>0, <1>s, <2>3, SetFlag, VerifiedType DEF start_image
  <2>4. ASSUME NEW i \in Shims, NEW r \in Results, StartImageFails(i, r) PROVE FlagsOK'
    BY <1>0, <1>s, <2>4, VerifiedType DEF StartImageFails
  <2>5. ASSUME NEW r \in Results, ProgramReturns(r) PROVE FlagsOK'
    <3>1. participating' \in [Shims -> BOOLEAN]
      BY <1>0, <2>5, TopFacts, BackFacts DEF ProgramReturns, InProgram, Running
    <3> QED
      BY <1>0, <1>s, <2>5, <3>1 DEF ProgramReturns
  <2>6. ASSUME shim_verify PROVE FlagsOK'
    <3>1. Head(bs.protocols) \in Shims
      BY <1>0, <2>6, HeadTailProperties DEF shim_verify, Tables
    <3> QED
      BY <1>0, <1>s, <2>6, <3>1, SetFlag, VerifiedType DEF shim_verify
  <2>7. ASSUME NEW r \in {"ok", "error", "notfound"}, load_network_drivers(r) PROVE FlagsOK'
    <3>1. bs.table["LoadImage"] \in Shims /\ (r # "notfound") \in BOOLEAN
          /\ (called[bs.table["LoadImage"]] \/ r # "notfound") \in BOOLEAN
      BY <2>7 DEF load_network_drivers
    <3>2. participating' \in [Shims -> BOOLEAN]
      BY <1>0, <2>7, SetFlag DEF load_network_drivers
    <3>3. last_loaded' \in [Shims -> BOOLEAN]
      BY <1>0, <2>7, <3>1, SetFlag DEF load_network_drivers
    <3>4. called' \in [Shims -> BOOLEAN]
      BY <1>0, <2>7, <3>1, SetFlag DEF load_network_drivers
    <3> QED
      BY <1>0, <1>s, <2>7, <3>2, <3>3, <3>4 DEF load_network_drivers
  <2>8. ASSUME NEW ok \in BOOLEAN, load_image(ok) PROVE FlagsOK'
    BY <1>0, <1>s, <2>8, SetFlag DEF load_image
  <2>9. ASSUME NEW j, NEW tr \in BOOLEAN, replacement_start_image(j, tr) PROVE FlagsOK'
    <3>1. bs.table["StartImage"] \in Shims
      BY <2>9 DEF replacement_start_image
    <3>2. (participating[bs.table["StartImage"]] \/ tr) \in BOOLEAN
          /\ (called[bs.table["StartImage"]] \/ tr) \in BOOLEAN
      OBVIOUS
    <3> QED
      BY <1>0, <1>s, <2>9, <3>2, SetFlag DEF replacement_start_image
  <2>10. ASSUME DoExitFailed PROVE FlagsOK'
    <3>1. Last(exit.chain) \in Shims
      BY <2>10, LastExit DEF DoExitFailed
    <3>2. participating' \in [Shims -> BOOLEAN]
      BY <1>0, <1>a, <2>10, <3>1, SetFlag DEF DoExitFailed
    <3> QED
      BY <1>0, <1>s, <2>10, <3>2 DEF DoExitFailed
  <2>11. ASSUME do_exit PROVE FlagsOK'
    BY <1>0, <1>s, <2>11, SetFlag DEF do_exit
  <2>12. ASSUME FirmwareExit PROVE FlagsOK'
    <3> DEFINE n == IF Top.kind = "stage2" THEN Len(stack) - 1 ELSE Len(stack)
    <3>1. /\ phase = "run" /\ exit.dir # "none"
          /\ BackToStarter(SubSeq(stack, 1, n - 1), stack[n], exit.status, bs)
      BY <2>12 DEF FirmwareExit
    <3>2. stack[n] \in Frame
      BY <1>0, <3>1, ExitingFrame
    <3> HIDE DEF n
    <3>3. participating' \in [Shims -> BOOLEAN]
      BY <1>0, <3>1, <3>2, BackFacts
    <3> QED
      BY <1>0, <1>s, <2>12, <3>3 DEF FirmwareExit
  <2>13. ASSUME NEW r \in Results, CallExit(r) PROVE FlagsOK'
    BY <1>0, <1>s, <2>13 DEF CallExit
  <2>14. ASSUME NEW j, StartImageDirect(j) PROVE FlagsOK'
    BY <1>0, <1>s, <2>14 DEF StartImageDirect
  <2>15. ASSUME ShimVerifyReturns \/ SetRetain \/ ExitDirect \/ exit_boot_services \/ FirmwareRefusesExit
         PROVE FlagsOK'
    BY <1>0, <1>s, <2>15 DEF ShimVerifyReturns, SetRetain, ExitDirect, exit_boot_services,
       FirmwareRefusesExit
  <2> QED
    BY <1>s, <2>1, <2>2, <2>3, <2>4, <2>5, <2>6, <2>7, <2>8, <2>9, <2>10, <2>11, <2>12, <2>13,
       <2>14, <2>15, Zenon DEF Step
<1>u. ASSUME UNCHANGED vars PROVE FlagsOK'
  BY <1>0, <1>u DEF vars
<1> QED
  BY <1>s, <1>u DEF Next

LEMMA TablesStep == TypeOK /\ ExitShape /\ FrameInv /\ [Next]_vars => bs' \in Tables
<1> SUFFICES ASSUME TypeOK, ExitShape, FrameInv, [Next]_vars PROVE bs' \in Tables
  OBVIOUS
<1>0. FlagsOK /\ bs \in Tables /\ stack \in Seq(Frame) /\ participating \in [Shims -> BOOLEAN]
  BY TypeParts DEF FlagsOK
<1>a. \A i \in Shims : /\ unhook_system_services(i, bs) \in Tables
                       /\ uninstall_shim_protocols(i, unhook_system_services(i, bs)) \in Tables
                       /\ hook_system_services(i, unhook_system_services(i, bs)) \in Tables
                       /\ shim_init(i, bs) \in Tables /\ shim_fini(i, bs) \in Tables
  <2> TAKE i \in Shims
  <2>1. unhook_system_services(i, bs) \in Tables
    BY <1>0, TablesType
  <2> QED
    BY <1>0, <2>1, TablesType, InitFiniType
<1>b. \A i \in Shims : \A b \in Tables :
          hook_system_services(i, install_shim_protocols(i, b)) \in Tables
  <2> TAKE i \in Shims
  <2> TAKE b \in Tables
  <2>1. install_shim_protocols(i, b) \in Tables
    BY TablesType
  <2> QED
    BY <2>1, TablesType
<1>s. ASSUME Step PROVE bs' \in Tables
  <2>1. ASSUME NEW i \in Shims, EfiMain(i) PROVE bs' \in Tables
    BY <1>0, <1>a, <2>1 DEF EfiMain
  <2>2. ASSUME NEW i \in Shims, EfiMainReturns(i) PROVE bs' \in Tables
    <3>1. BackToStarter(Front(stack), Top, Top.status, shim_fini(i, bs)) /\ stack # <<>>
      BY <2>2 DEF EfiMainReturns, InShim, Running
    <3> QED
      BY <1>0, <1>a, <3>1, TopFacts, BackFacts
  <2>3. ASSUME NEW i \in Shims, start_image(i) \/ \E r \in Results : StartImageFails(i, r)
        PROVE  bs' \in Tables
    BY <1>0, <2>3 DEF start_image, StartImageFails
  <2>4. ASSUME NEW r \in Results, ProgramReturns(r) PROVE bs' \in Tables
    BY <1>0, <2>4, TopFacts, BackFacts DEF ProgramReturns, InProgram, Running
  <2>5. ASSUME NEW r \in {"ok", "error", "notfound"}, load_network_drivers(r) PROVE bs' \in Tables
    <3> DEFINE i == bs.table["LoadImage"]
               u == unhook_system_services(i, bs)
               b == IF retain THEN u ELSE uninstall_shim_protocols(i, u)
    <3>1. i \in Shims
      BY <2>5 DEF load_network_drivers
    <3>2. b \in Tables
      BY <1>a, <3>1
    <3>3. hook_system_services(i, install_shim_protocols(i, b)) \in Tables
      BY <1>b, <3>1, <3>2
    <3>4. bs' \in {bs, b, hook_system_services(i, install_shim_protocols(i, b))}
      BY <2>5 DEF load_network_drivers
    <3> QED
      BY <1>0, <3>2, <3>3, <3>4
  <2>6. ASSUME NEW ok \in BOOLEAN, load_image(ok) PROVE bs' \in Tables
    BY <1>a, <2>6 DEF load_image
  <2>7. ASSUME NEW j, NEW tr \in BOOLEAN, replacement_start_image(j, tr) PROVE bs' \in Tables
    BY <1>a, <2>7 DEF replacement_start_image
  <2>8. ASSUME exit_boot_services PROVE bs' \in Tables
    BY <1>0, <1>a, <2>8 DEF exit_boot_services
  <2>9. ASSUME do_exit PROVE bs' \in Tables
    BY <1>a, <2>9 DEF do_exit
  <2>10. ASSUME FirmwareExit PROVE bs' \in Tables
    <3> DEFINE n == IF Top.kind = "stage2" THEN Len(stack) - 1 ELSE Len(stack)
    <3>1. /\ phase = "run" /\ exit.dir # "none"
          /\ BackToStarter(SubSeq(stack, 1, n - 1), stack[n], exit.status, bs)
      BY <2>10 DEF FirmwareExit
    <3>2. stack[n] \in Frame
      BY <1>0, <3>1, ExitingFrame
    <3> HIDE DEF n
    <3> QED
      BY <1>0, <3>1, <3>2, BackFacts
  <2>11. ASSUME DoExitFailed PROVE bs' \in Tables
    <3>1. Last(exit.chain) \in Shims
      BY <2>11, LastExit DEF DoExitFailed
    <3> QED
      BY <1>0, <1>a, <2>11, <3>1 DEF DoExitFailed
  <2>12. ASSUME shim_verify \/ ShimVerifyReturns \/ SetRetain \/ ExitDirect \/ FirmwareRefusesExit
                \/ (\E r \in Results : CallExit(r)) \/ \E j : StartImageDirect(j)
         PROVE bs' \in Tables
    BY <1>0, <2>12 DEF shim_verify, ShimVerifyReturns, SetRetain, ExitDirect,
       FirmwareRefusesExit, CallExit, StartImageDirect
  <2> QED
    BY <1>s, <2>1, <2>2, <2>3, <2>4, <2>5, <2>6, <2>7, <2>8, <2>9, <2>10, <2>11, <2>12, Zenon DEF Step
<1>u. ASSUME UNCHANGED vars PROVE bs' \in Tables
  BY <1>0, <1>u DEF vars
<1> QED
  BY <1>s, <1>u DEF Next

LEMMA ExitStep == TypeOK /\ ExitShape /\ [Next]_vars => ExitShape'
<1> SUFFICES ASSUME TypeOK, ExitShape, [Next]_vars PROVE ExitShape'
  OBVIOUS
<1>0. NoExit \in [dir : {"none", "down", "up"}, chain : Seq(Shims), status : Results]
      /\ NoExit.dir = "none"
  BY EmptySeq DEF NoExit, Results
<1>1. ASSUME NEW r \in Results, CallExit(r) PROVE ExitShape'
  BY <1>1, EmptySeq DEF CallExit, ExitShape
<1>2. ASSUME do_exit PROVE ExitShape'
  <2>1. bs.table["Exit"] \in Shims /\ exit.chain \in Seq(Shims) /\ exit.dir = "down"
        /\ exit' = [exit EXCEPT !.chain = Append(exit.chain, bs.table["Exit"])]
    BY <1>2 DEF do_exit, ExitShape
  <2>2. Append(exit.chain, bs.table["Exit"]) \in Seq(Shims)
    BY <2>1, AppendProperties
  <2> QED
    BY <2>1, <2>2 DEF ExitShape
<1>3. ASSUME FirmwareExit PROVE ExitShape'
  BY <1>0, <1>3 DEF FirmwareExit, ExitShape
<1>4. ASSUME FirmwareRefusesExit PROVE ExitShape'
  BY <1>0, <1>4 DEF FirmwareRefusesExit, ExitShape
<1>5. ASSUME DoExitFailed PROVE ExitShape'
  <2>1. exit.dir = "up" /\ exit' \in {exit, NoExit, [exit EXCEPT !.chain = Front(exit.chain)]}
        /\ (Len(exit.chain) = 1 => exit' \in {exit, NoExit})
    BY <1>5 DEF DoExitFailed
  <2>2. Len(exit.chain) # 1 => Front(exit.chain) \in Seq(Shims) /\ Front(exit.chain) # <<>>
    BY <2>1, LastExit
  <2> QED
    BY <1>0, <2>1, <2>2 DEF ExitShape
<1>6. CASE exit' = exit
  BY <1>6 DEF ExitShape
<1>s. ASSUME Step PROVE ExitShape'
  <2>1. \A i \in Shims : EfiMain(i) \/ EfiMainReturns(i) \/ start_image(i) => exit' = exit
    BY DEF EfiMain, EfiMainReturns, start_image
  <2>2. \A i \in Shims, r \in Results : StartImageFails(i, r) => exit' = exit
    BY DEF StartImageFails
  <2>3. \A r : ProgramReturns(r) \/ load_network_drivers(r) \/ load_image(r) => exit' = exit
    BY DEF ProgramReturns, load_network_drivers, load_image
  <2>4. \A j, tr : StartImageDirect(j) \/ replacement_start_image(j, tr) => exit' = exit
    BY DEF StartImageDirect, replacement_start_image
  <2>5. shim_verify \/ ShimVerifyReturns \/ SetRetain \/ ExitDirect \/ exit_boot_services => exit' = exit
    BY DEF shim_verify, ShimVerifyReturns, SetRetain, ExitDirect, exit_boot_services
  <2> QED
    BY <1>s, <1>1, <1>2, <1>3, <1>4, <1>5, <1>6, <2>1, <2>2, <2>3, <2>4, <2>5, Zenon DEF Step
<1>u. ASSUME UNCHANGED vars PROVE ExitShape'
  BY <1>6, <1>u DEF vars
<1> QED
  BY <1>s, <1>u DEF Next

---------------------------------------------------------------------------
(* The frames keep their order                                             *)

(* t has the frames of s, up to the running one's step and what is tracked. *)
SameFrames(s, t) ==
    /\ Len(t) = Len(s)
    /\ \A k \in 1 .. Len(s) :
           /\ t[k].kind = s[k].kind /\ t[k].shim = s[k].shim /\ t[k].via = s[k].via
           /\ k < Len(s) => t[k].step = s[k].step

LEMMA LinkedSame ==
    ASSUME NEW s \in Seq(Frame), NEW t \in Seq(Frame), s # <<>>, Linked(s), SameFrames(s, t),
           t[Len(s)].kind = "efi_main" => t[Len(s)].step # "verify",
           t[Len(s)].kind \in Programs => t[Len(s)].step \in {"init", "verify"}
    PROVE  Linked(t)
<1>1. Len(s) \in Nat /\ Len(t) = Len(s)
  BY DEF SameFrames
<1> SUFFICES ASSUME NEW k \in 1 .. Len(s)
             PROVE  /\ k = 1 => t[k].kind = "efi_main" /\ t[k].via = "firmware" /\ t[k].shim = First
                    /\ t[k].kind = "efi_main" => t[k].shim \in Shims /\ t[k].step # "verify"
                    /\ t[k].kind \in Programs => t[k].step \in {"init", "verify"}
                    /\ t[k].kind = "stage2" =>
                          /\ k > 1 /\ t[k - 1].kind = "efi_main" /\ t[k - 1].step \in Starting
                          /\ t[k].via = "firmware"
                    /\ k > 1 /\ t[k].kind # "stage2" => t[k - 1].kind \in Programs
  BY <1>1 DEF Linked
<1>2. /\ t[k].kind = s[k].kind /\ t[k].shim = s[k].shim /\ t[k].via = s[k].via
      /\ k < Len(s) => t[k].step = s[k].step
  BY DEF SameFrames
<1>3. k > 1 => /\ k - 1 \in 1 .. Len(s) /\ t[k - 1].kind = s[k - 1].kind
               /\ t[k - 1].step = s[k - 1].step
  BY <1>1 DEF SameFrames
<1>4. k = Len(s) \/ k < Len(s)
  BY <1>1
<1> QED
  BY <1>1, <1>2, <1>3, <1>4 DEF Linked

LEMMA LinkedPrefix ==
    ASSUME NEW s \in Seq(Frame), Linked(s), NEW n \in 0 .. Len(s)
    PROVE  Linked(SubSeq(s, 1, n))
<1>1. /\ Len(SubSeq(s, 1, n)) = n /\ n \in Nat /\ n <= Len(s) /\ Len(s) \in Nat
      /\ \A k \in 1 .. n : SubSeq(s, 1, n)[k] = s[k]
  BY PrefixFacts
<1>2. \A k \in 1 .. n : k > 1 => SubSeq(s, 1, n)[k - 1] = s[k - 1]
  BY <1>1
<1> QED
  BY <1>1, <1>2 DEF Linked

LEMMA LinkedPush ==
    ASSUME NEW s \in Seq(Frame), s # <<>>, Linked(s), NEW f \in Frame, f.step = "init",
           f.kind = "efi_main" => f.shim \in Shims,
           \/ /\ f.kind = "stage2" /\ f.via = "firmware"
              /\ s[Len(s)].kind = "efi_main" /\ s[Len(s)].step \in Starting
           \/ f.kind # "stage2" /\ s[Len(s)].kind \in Programs
    PROVE  Linked(Append(s, f))
<1>1. /\ Len(Append(s, f)) = Len(s) + 1 /\ Len(s) \in Nat /\ Len(s) > 0
      /\ \A k \in 1 .. Len(s) : Append(s, f)[k] = s[k]
      /\ Append(s, f)[Len(s) + 1] = f
  BY PushFacts, EmptySeq
<1> DEFINE t == Append(s, f)
<1>2. \A k \in 1 .. Len(s) :
        /\ k = 1 => t[k].kind = "efi_main" /\ t[k].via = "firmware" /\ t[k].shim = First
        /\ t[k].kind = "efi_main" => t[k].shim \in Shims /\ t[k].step # "verify"
        /\ t[k].kind \in Programs => t[k].step \in {"init", "verify"}
        /\ t[k].kind = "stage2" =>
              /\ k > 1 /\ t[k - 1].kind = "efi_main" /\ t[k - 1].step \in Starting
              /\ t[k].via = "firmware"
        /\ k > 1 /\ t[k].kind # "stage2" => t[k - 1].kind \in Programs
  <2> TAKE k \in 1 .. Len(s)
  <2>1. t[k] = s[k] /\ (k > 1 => t[k - 1] = s[k - 1])
    BY <1>1
  <2> QED
    BY <1>1, <2>1 DEF Linked
<1>3. t[Len(s)] = s[Len(s)] /\ Len(s) + 1 - 1 = Len(s) /\ Len(s) + 1 > 1
  BY <1>1
<1>4. \A k \in 1 .. Len(t) : k \in 1 .. Len(s) \/ k = Len(s) + 1
  BY <1>1
<1> HIDE DEF t
<1>5. t[Len(s) + 1] = f
  BY <1>1 DEF t
<1>6. Linked(t)
  <2> SUFFICES ASSUME NEW k \in 1 .. Len(t)
             PROVE  /\ k = 1 => t[k].kind = "efi_main" /\ t[k].via = "firmware" /\ t[k].shim = First
                    /\ t[k].kind = "efi_main" => t[k].shim \in Shims /\ t[k].step # "verify"
                    /\ t[k].kind \in Programs => t[k].step \in {"init", "verify"}
                    /\ t[k].kind = "stage2" =>
                          /\ k > 1 /\ t[k - 1].kind = "efi_main" /\ t[k - 1].step \in Starting
                          /\ t[k].via = "firmware"
                    /\ k > 1 /\ t[k].kind # "stage2" => t[k - 1].kind \in Programs
    BY DEF Linked
  <2>1. CASE k \in 1 .. Len(s)
    BY <1>2, <2>1
  <2>2. CASE k = Len(s) + 1
    <3>1. k > 1 /\ k # 1 /\ t[k] = f /\ t[k - 1] = s[Len(s)]
      BY <1>1, <1>3, <1>5, <2>2
    <3> QED
      BY <3>1 DEF Programs
  <2> QED
    BY <1>4, <2>1, <2>2
<1> QED
  BY <1>6 DEF t

LEMMA SetStep ==
    ASSUME stack \in Seq(Frame), stack # <<>>, Linked(stack), NEW x \in Steps,
           Top.kind = "efi_main" => x # "verify",
           Top.kind \in Programs => x \in {"init", "verify"},
           stack' = [stack EXCEPT ![Len(stack)].step = x]
    PROVE  /\ stack' \in Seq(Frame) /\ stack' # <<>> /\ Linked(stack')
           /\ SameFrames(stack, stack') /\ Top' = [Top EXCEPT !.step = x]
<1>1. /\ stack' \in Seq(Frame) /\ Len(stack') = Len(stack)
      /\ \A k \in 1 .. Len(stack) - 1 : stack'[k] = stack[k]
      /\ stack'[Len(stack)] = [stack[Len(stack)] EXCEPT !.step = x]
  BY StepFacts
<1>2. Len(stack) \in Nat /\ Len(stack) > 0 /\ Top \in Frame
  BY TopFacts
<1>3. Top' = [Top EXCEPT !.step = x]
  BY <1>1 DEF Top
<1>4. SameFrames(stack, stack')
  <2> SUFFICES ASSUME NEW k \in 1 .. Len(stack)
               PROVE  /\ stack'[k].kind = stack[k].kind /\ stack'[k].shim = stack[k].shim
                      /\ stack'[k].via = stack[k].via
                      /\ k < Len(stack) => stack'[k].step = stack[k].step
    BY <1>1 DEF SameFrames
  <2>1. CASE k = Len(stack)
    BY <1>1, <1>2, <2>1 DEF Top, Frame
  <2>2. CASE k # Len(stack)
    <3>1. k \in 1 .. Len(stack) - 1
      BY <1>2, <2>2
    <3> QED
      BY <1>1, <3>1
  <2> QED
    BY <2>1, <2>2
<1>5. stack'[Len(stack)].kind = Top.kind /\ stack'[Len(stack)].step = x
  BY <1>1, <1>2 DEF Top, Frame
<1>6. Linked(stack')
  <2>1. /\ stack'[Len(stack)].kind = "efi_main" => stack'[Len(stack)].step # "verify"
        /\ stack'[Len(stack)].kind \in Programs => stack'[Len(stack)].step \in {"init", "verify"}
    BY <1>5
  <2>2. stack' \in Seq(Frame)
    BY <1>1
  <2> QED
    BY <1>4, <2>1, <2>2, LinkedSame, Zenon
<1>7. stack' # <<>>
  BY <1>1, <1>2, EmptySeq
<1> QED
  BY <1>1, <1>3, <1>4, <1>6, <1>7

LEMMA AdvanceLinked ==
    ASSUME NEW s \in Seq(Frame), s # <<>>, Linked(s), NEW r \in Results,
           s[Len(s)].kind = "efi_main"
    PROVE  /\ Advance(s, r) \in Seq(Frame) /\ Advance(s, r) # <<>> /\ Linked(Advance(s, r))
           /\ SameFrames(s, Advance(s, r)) /\ Advance(s, r)[Len(s)].step \in Starting \cup {"fini"}
<1> DEFINE t == Advance(s, r)
<1>1. /\ t \in Seq(Frame) /\ Len(t) = Len(s)
      /\ \A k \in 1 .. Len(s) - 1 : t[k] = s[k]
  BY AdvanceFacts
<1>2. PICK x \in Starting \cup {"fini"} : t[Len(s)] = [s[Len(s)] EXCEPT !.step = x, !.status = r]
  BY AdvanceFacts, Zenon
<1>3. Len(s) \in Nat /\ Len(s) > 0 /\ Len(s) \in 1 .. Len(s) /\ s[Len(s)] \in Frame
  BY EmptySeq, ElementOfSeq
<1> HIDE DEF t
<1>4. /\ t[Len(s)].kind = s[Len(s)].kind /\ t[Len(s)].shim = s[Len(s)].shim
      /\ t[Len(s)].via = s[Len(s)].via /\ t[Len(s)].step = x
  BY <1>2, <1>3 DEF Frame
<1>5. SameFrames(s, t)
  <2> SUFFICES ASSUME NEW k \in 1 .. Len(s)
               PROVE  /\ t[k].kind = s[k].kind /\ t[k].shim = s[k].shim /\ t[k].via = s[k].via
                      /\ k < Len(s) => t[k].step = s[k].step
    BY <1>1 DEF SameFrames
  <2>1. CASE k = Len(s)
    BY <1>3, <1>4, <2>1
  <2>2. CASE k # Len(s)
    <3>1. k \in 1 .. Len(s) - 1
      BY <1>3, <2>2
    <3> QED
      BY <1>1, <3>1
  <2> QED
    BY <2>1, <2>2
<1>6. t[Len(s)].kind = "efi_main" /\ x # "verify" /\ "efi_main" \notin Programs
  BY <1>2, <1>4 DEF Starting, Programs
<1>7. Linked(t)
  BY <1>1, <1>4, <1>5, <1>6, LinkedSame
<1>8. t # <<>>
  BY <1>1, <1>3, EmptySeq
<1> QED
  BY <1>1, <1>4, <1>5, <1>7, <1>8 DEF t

LEMMA UntrackLinked ==
    ASSUME NEW s \in Seq(Frame), s # <<>>, Linked(s), NEW i
    PROVE  /\ Untrack(s, i) \in Seq(Frame) /\ Untrack(s, i) # <<>> /\ Linked(Untrack(s, i))
           /\ SameFrames(s, Untrack(s, i)) /\ Untrack(s, i)[Len(s)].step = s[Len(s)].step
<1> DEFINE t == Untrack(s, i)
<1>1. /\ t \in Seq(Frame) /\ Len(t) = Len(s)
      /\ \A k \in 1 .. Len(s) : \E b \in BOOLEAN : t[k] = [s[k] EXCEPT !.tracked = b]
  BY UntrackFacts
<1>2. Len(s) \in Nat /\ Len(s) > 0 /\ Len(s) \in 1 .. Len(s)
  BY EmptySeq
<1> HIDE DEF t
<1>3. \A k \in 1 .. Len(s) : /\ t[k].kind = s[k].kind /\ t[k].shim = s[k].shim
                             /\ t[k].via = s[k].via /\ t[k].step = s[k].step
  <2> TAKE k \in 1 .. Len(s)
  <2>1. s[k] \in Frame
    BY ElementOfSeq
  <2>2. PICK b \in BOOLEAN : t[k] = [s[k] EXCEPT !.tracked = b]
    BY <1>1, Zenon
  <2> QED
    BY <2>1, <2>2 DEF Frame
<1>4. SameFrames(s, t)
  BY <1>1, <1>3 DEF SameFrames
<1>5. /\ t[Len(s)].kind = "efi_main" => t[Len(s)].step # "verify"
      /\ t[Len(s)].kind \in Programs => t[Len(s)].step \in {"init", "verify"}
  BY <1>2, <1>3 DEF Linked
<1>6. Linked(t)
  BY <1>1, <1>4, <1>5, LinkedSame
<1>7. t # <<>>
  BY <1>1, <1>2, EmptySeq
<1> QED
  BY <1>1, <1>2, <1>3, <1>4, <1>6, <1>7 DEF t

(* What is pushed by StartImage.                                           *)
Startable == {"none"} \cup {k \in Shims \ {First} : ~OnStack(k) /\ bs.saved[k]["Exit"] = "null"}

Started(f, j, v) ==
    /\ stack' = Append(stack, f)
    /\ f.kind = (IF j = "none" THEN "image" ELSE "efi_main")
    /\ f.shim = j /\ f.via = v /\ f.step = "init"
    /\ stack' \in Seq(Frame) /\ stack' # <<>> /\ Linked(stack')

LEMMA ChildFacts ==
    ASSUME stack \in Seq(Frame), stack # <<>>, Linked(stack), Top.kind \in Programs,
           NEW j \in Shims \cup {"none"}, NEW v \in Shims \cup {"firmware"},
           \E tr \in BOOLEAN : Child(j, v, tr)
    PROVE  \E f \in Frame : Started(f, j, v)
<1> PICK tr \in BOOLEAN : Child(j, v, tr)
  OBVIOUS
<1>1. PICK u \in BOOLEAN : stack' = Append(stack,
          NewFrame(IF j = "none" THEN "image" ELSE "efi_main", j, v, tr, u /\ j # "none"))
  BY Zenon DEF Child
<1> DEFINE f == NewFrame(IF j = "none" THEN "image" ELSE "efi_main", j, v, tr, u /\ j # "none")
<1>2. f \in Frame
  <2>1. CASE j = "none"
    <3>1. f = NewFrame("image", j, v, tr, FALSE)
      BY <2>1 DEF NewFrame
    <3> QED
      BY <3>1, NewFrameType
  <2>2. CASE j # "none"
    <3>1. f = NewFrame("efi_main", j, v, tr, u)
      BY <2>2 DEF NewFrame
    <3> QED
      BY <2>2, <3>1, NewFrameType
  <2> QED
    BY <2>1, <2>2
<1>3. /\ f.kind = (IF j = "none" THEN "image" ELSE "efi_main")
      /\ f.shim = j /\ f.via = v /\ f.step = "init"
  BY DEF NewFrame
<1> HIDE DEF f
<1>4. stack' = Append(stack, f)
  BY <1>1 DEF f
<1>5. Linked(Append(stack, f))
  <2>1. f.kind = "efi_main" => f.shim \in Shims
    BY <1>3
  <2>2. f.kind # "stage2" /\ stack[Len(stack)].kind \in Programs
    BY <1>3 DEF Top
  <2> QED
    BY <1>2, <1>3, <2>1, <2>2, LinkedPush
<1>6. Append(stack, f) \in Seq(Frame) /\ Append(stack, f) # <<>>
  BY <1>2, PushFacts, EmptySeq
<1> QED
  BY <1>2, <1>3, <1>4, <1>5, <1>6 DEF Started

StackGoal == stack \in Seq(Frame) /\ phase \in Phases /\ FrameInv

(* The shorter stack an ending frame leaves.                               *)
LEMMA PopLinked ==
    ASSUME stack \in Seq(Frame), Linked(stack), NEW n \in 1 .. Len(stack), NEW r,
           NEW b \in Tables, participating \in [Shims -> BOOLEAN], phase = "run",
           BackToStarter(SubSeq(stack, 1, n - 1), stack[n], r, b), exit'.dir = "none"
    PROVE  StackGoal'
<1> DEFINE low == SubSeq(stack, 1, n - 1)
<1>1. /\ n - 1 \in 0 .. Len(stack) /\ n \in Nat /\ stack[n] \in Frame
  BY ElementOfSeq
<1>2. low \in Seq(Frame) /\ (low = <<>> <=> n - 1 = 0) /\ Linked(low)
  BY <1>1, PrefixFacts, LinkedPrefix
<1>3. n = 1 => stack[n].via = "firmware"
  BY DEF Linked
<1> HIDE DEF low
<1>4. BackToStarter(low, stack[n], r, b)
  BY DEF low
<1>5. /\ stack' = low /\ phase' \in {phase, "returned", "reset"}
      /\ phase' = phase => stack[n].via # "firmware" \/ low # <<>> \/ phase = "returned"
  BY <1>1, <1>4, BackFacts
<1>6. phase' = "run" => low # <<>>
  BY <1>1, <1>2, <1>3, <1>5
<1> QED
  BY <1>2, <1>5, <1>6 DEF StackGoal, FrameInv, Phases

LEMMA StackStep == TypeOK /\ ExitShape /\ FrameInv /\ [Next]_vars => StackGoal'
<1> SUFFICES ASSUME TypeOK, ExitShape, FrameInv, [Next]_vars PROVE StackGoal'
  OBVIOUS
<1>0. /\ FlagsOK /\ bs \in Tables /\ stack \in Seq(Frame) /\ phase \in Phases
      /\ participating \in [Shims -> BOOLEAN]
      /\ Linked(stack) /\ (phase = "run" => stack # <<>>)
      /\ (phase = "run" /\ exit.dir # "none" => Top.kind \in Programs)
  BY TypeParts DEF FlagsOK, FrameInv
<1>a. ASSUME stack' = stack, phase' \in Phases, phase' # "run" \/ (phase' = phase /\ (exit'.dir # "none" => exit.dir # "none"))
      PROVE  StackGoal'
  <2>1. Top' = Top
    BY <1>a DEF Top
  <2> QED
    BY <1>0, <1>a, <2>1 DEF StackGoal, FrameInv
<1>b. ASSUME stack' \in Seq(Frame), stack' # <<>>, Linked(stack'), phase' \in Phases, exit'.dir = "none"
      PROVE  StackGoal'
  BY <1>b DEF StackGoal, FrameInv
<1>c. \A r \in {"run", "os", "reset", "returned"} : r \in Phases
  BY DEF Phases
<1>s. ASSUME Step PROVE StackGoal'
  <2>1. ASSUME NEW i \in Shims, EfiMain(i) PROVE StackGoal'
    <3>1. /\ phase = "run" /\ stack # <<>> /\ exit' = exit /\ exit.dir = "none"
          /\ Top.kind = "efi_main"
      BY <2>1 DEF EfiMain, InShim, Running
    <3>2. CASE phase' = "reset" /\ stack' = stack
      BY <1>a, <1>c, <3>2
    <3>3. CASE phase' = phase /\ stack' = [stack EXCEPT ![Len(stack)].step = "first"]
      <4>1. "first" \in Steps /\ Top.kind \notin Programs
        BY <3>1 DEF Steps, Starting, Programs
      <4>2. stack' \in Seq(Frame) /\ stack' # <<>> /\ Linked(stack')
        BY <1>0, <3>1, <3>3, <4>1, SetStep
      <4> QED
        BY <1>b, <1>c, <3>1, <3>3, <4>2
    <3> QED
      BY <2>1, <3>2, <3>3 DEF EfiMain
  <2>2. ASSUME NEW i \in Shims, EfiMainReturns(i) PROVE StackGoal'
    <3>1. /\ phase = "run" /\ stack # <<>> /\ exit' = exit /\ exit.dir = "none"
          /\ BackToStarter(Front(stack), Top, Top.status, shim_fini(i, bs))
      BY <2>2 DEF EfiMainReturns, InShim, Running
    <3>2. Len(stack) \in 1 .. Len(stack) /\ Front(stack) = SubSeq(stack, 1, Len(stack) - 1)
      BY <1>0, <3>1, TopFacts DEF Front
    <3>3. shim_fini(i, bs) \in Tables
      BY <1>0, InitFiniType
    <3> QED
      BY <1>0, <3>1, <3>2, <3>3, PopLinked DEF Top
  <2>3. ASSUME NEW i \in Shims, start_image(i) PROVE StackGoal'
    <3> DEFINE f == NewFrame("stage2", i, "firmware", FALSE, FALSE)
    <3>1. /\ phase' = phase /\ phase = "run" /\ stack # <<>> /\ exit' = exit /\ exit.dir = "none"
          /\ Top.kind = "efi_main" /\ Top.step \in Starting /\ stack' = Append(stack, f)
      BY <2>3 DEF start_image, InShim, Running
    <3>2. f \in Frame
      BY NewFrameType
    <3>3. f.kind = "stage2" /\ f.via = "firmware" /\ f.step = "init"
      BY DEF NewFrame
    <3> HIDE DEF f
    <3>4. Linked(Append(stack, f))
      BY <1>0, <3>1, <3>2, <3>3, LinkedPush DEF Top
    <3>5. Append(stack, f) \in Seq(Frame) /\ Append(stack, f) # <<>>
      BY <1>0, <3>2, PushFacts, EmptySeq
    <3> QED
      BY <1>0, <1>b, <3>1, <3>4, <3>5
  <2>4. ASSUME NEW i \in Shims, NEW r \in Results, StartImageFails(i, r) PROVE StackGoal'
    <3>1. /\ phase' = phase /\ phase = "run" /\ stack # <<>> /\ exit' = exit /\ exit.dir = "none"
          /\ Top.kind = "efi_main" /\ stack' = Advance(stack, r)
      BY <2>4 DEF StartImageFails, InShim, Running
    <3>2. stack' \in Seq(Frame) /\ stack' # <<>> /\ Linked(stack')
      BY <1>0, <3>1, AdvanceLinked DEF Top
    <3> QED
      BY <1>0, <1>b, <3>1, <3>2
  <2>5. ASSUME NEW r \in Results, ProgramReturns(r) PROVE StackGoal'
    <3>1. /\ phase = "run" /\ stack # <<>> /\ exit' = exit /\ exit.dir = "none"
          /\ Top.kind \in Programs
      BY <2>5 DEF ProgramReturns, InProgram, Running, Programs
    <3>2. /\ Len(stack) \in 1 .. Len(stack) /\ Front(stack) = SubSeq(stack, 1, Len(stack) - 1)
          /\ Len(stack) \in Nat
      BY <1>0, <3>1, TopFacts DEF Front
    <3>3. CASE Top.kind = "stage2"
      <4>1. stack' = Advance(Front(stack), r) /\ phase' = phase
        BY <2>5, <3>3 DEF ProgramReturns
      <4>2. /\ Len(stack) > 1 /\ stack[Len(stack) - 1].kind = "efi_main"
        BY <1>0, <3>2, <3>3 DEF Linked, Top
      <4>3. /\ Front(stack) \in Seq(Frame) /\ Front(stack) # <<>>
            /\ Len(Front(stack)) = Len(stack) - 1
            /\ Front(stack)[Len(stack) - 1] = stack[Len(stack) - 1]
        <5>1. Len(stack) - 1 \in 1 .. Len(stack) - 1
          BY <3>2, <4>2
        <5>2. /\ Front(stack) \in Seq(Frame) /\ Len(Front(stack)) = Len(stack) - 1
              /\ \A k \in 1 .. Len(stack) - 1 : Front(stack)[k] = stack[k]
              /\ Front(stack) = <<>> <=> Len(stack) = 1
          BY <1>0, <3>1, FrontFacts
        <5> QED
          BY <3>2, <4>2, <5>1, <5>2
      <4>4. Linked(Front(stack))
        <5>1. Len(stack) - 1 \in 0 .. Len(stack)
          BY <3>2
        <5> QED
          BY <1>0, <3>2, <5>1, LinkedPrefix
      <4>5. stack' \in Seq(Frame) /\ stack' # <<>> /\ Linked(stack')
        BY <4>1, <4>2, <4>3, <4>4, AdvanceLinked
      <4> QED
        BY <1>0, <1>b, <3>1, <4>1, <4>5
    <3>4. CASE Top.kind # "stage2"
      <4>1. BackToStarter(Front(stack), Top, r, bs)
        BY <2>5, <3>4 DEF ProgramReturns
      <4> QED
        BY <1>0, <3>1, <3>2, <4>1, PopLinked DEF Top
    <3> QED
      BY <3>3, <3>4
  <2>6. ASSUME shim_verify PROVE StackGoal'
    <3>1. /\ phase' = phase /\ phase = "run" /\ stack # <<>> /\ exit' = exit /\ exit.dir = "none"
          /\ Top.kind \in Programs /\ Top.step = "init"
      BY <2>6 DEF shim_verify, InProgram, Running, Programs
    <3> DEFINE x == IF DriversLoad THEN "verify" ELSE Top.step
    <3>2. stack' = [stack EXCEPT ![Len(stack)].step = x]
      BY <2>6 DEF shim_verify, Top
    <3>3. x \in Steps /\ x \in {"init", "verify"} /\ Top.kind # "efi_main"
      BY <3>1 DEF Steps, Programs
    <3> HIDE DEF x
    <3>4. stack' \in Seq(Frame) /\ stack' # <<>> /\ Linked(stack')
      BY <1>0, <3>1, <3>2, <3>3, SetStep
    <3> QED
      BY <1>0, <1>b, <3>1, <3>4
  <2>7. ASSUME ShimVerifyReturns PROVE StackGoal'
    <3>1. /\ phase' = phase /\ phase = "run" /\ stack # <<>> /\ exit' = exit /\ exit.dir = "none"
          /\ stack' = [stack EXCEPT ![Len(stack)].step = "init"]
      BY <2>7 DEF ShimVerifyReturns, Running
    <3>2. "init" \in Steps
      BY DEF Steps
    <3>3. stack' \in Seq(Frame) /\ stack' # <<>> /\ Linked(stack')
      BY <1>0, <3>1, <3>2, SetStep
    <3> QED
      BY <1>0, <1>b, <3>1, <3>3
  <2>8. ASSUME NEW r \in {"ok", "error", "notfound"}, load_network_drivers(r) PROVE StackGoal'
    <3>1. /\ phase = "run" /\ stack # <<>> /\ exit' = exit /\ exit.dir = "none"
          /\ stack' = Untrack(stack, bs.table["LoadImage"]) /\ phase' \in {phase, "reset"}
      BY <2>8 DEF load_network_drivers, Running
    <3>2. stack' \in Seq(Frame) /\ stack' # <<>> /\ Linked(stack')
      BY <1>0, <3>1, UntrackLinked
    <3> QED
      BY <1>b, <1>c, <3>1, <3>2
  <2>9. ASSUME NEW ok \in BOOLEAN, load_image(ok) PROVE StackGoal'
    <3>1. /\ phase' = phase /\ phase = "run" /\ stack # <<>> /\ exit' = exit /\ exit.dir = "none"
          /\ stack' = Untrack(stack, bs.table["LoadImage"])
      BY <2>9 DEF load_image, InProgram, Running
    <3>2. stack' \in Seq(Frame) /\ stack' # <<>> /\ Linked(stack')
      BY <1>0, <3>1, UntrackLinked
    <3> QED
      BY <1>0, <1>b, <3>1, <3>2
  <2>10. ASSUME NEW j \in Startable, NEW tr \in BOOLEAN,
                StartImageDirect(j) \/ replacement_start_image(j, tr) PROVE StackGoal'
    <3>1. /\ phase' = phase /\ phase = "run" /\ stack # <<>> /\ exit' = exit /\ exit.dir = "none"
          /\ Top.kind \in Programs
      BY <2>10 DEF StartImageDirect, replacement_start_image, InProgram, Running, Programs
    <3>2. \E v \in Shims \cup {"firmware"}, t \in BOOLEAN : Child(j, v, t)
      BY <2>10 DEF StartImageDirect, replacement_start_image
    <3>3. j \in Shims \cup {"none"}
      BY DEF Startable
    <3>4. stack' \in Seq(Frame) /\ stack' # <<>> /\ Linked(stack')
      BY <1>0, <3>1, <3>2, <3>3, ChildFacts DEF Started
    <3> QED
      BY <1>0, <1>b, <3>1, <3>4
  <2>11. ASSUME SetRetain \/ ExitDirect \/ exit_boot_services \/ do_exit
                \/ FirmwareRefusesExit \/ DoExitFailed PROVE StackGoal'
    <3>1. stack' = stack /\ phase' \in {phase, "os", "reset"}
      BY <2>11 DEF SetRetain, ExitDirect, exit_boot_services, do_exit, FirmwareRefusesExit, DoExitFailed
    <3>2. SetRetain \/ ExitDirect \/ exit_boot_services => exit' = exit
      BY DEF SetRetain, ExitDirect, exit_boot_services
    <3>3. do_exit \/ FirmwareRefusesExit \/ DoExitFailed => exit.dir # "none"
      BY DEF do_exit, FirmwareRefusesExit, DoExitFailed
    <3> QED
      BY <1>0, <1>a, <1>c, <2>11, <3>1, <3>2, <3>3
  <2>12. ASSUME NEW r \in Results, CallExit(r) PROVE StackGoal'
    <3>1. stack' = stack /\ phase' = phase /\ Top.kind \in Programs /\ stack # <<>>
      BY <2>12 DEF CallExit, InProgram, Running, Programs
    <3>2. Top' = Top
      BY <3>1 DEF Top
    <3> QED
      BY <1>0, <3>1, <3>2 DEF StackGoal, FrameInv
  <2>13. ASSUME FirmwareExit PROVE StackGoal'
    <3> DEFINE n == IF Top.kind = "stage2" THEN Len(stack) - 1 ELSE Len(stack)
    <3>1. /\ phase = "run" /\ exit.dir # "none" /\ exit' = NoExit
          /\ BackToStarter(SubSeq(stack, 1, n - 1), stack[n], exit.status, bs)
      BY <2>13 DEF FirmwareExit
    <3>2. n \in 1 .. Len(stack)
      BY <1>0, <3>1, ExitingFrame
    <3> HIDE DEF n
    <3> QED
      BY <1>0, <3>1, <3>2, PopLinked DEF NoExit
  <2> QED
    BY <1>s, <2>1, <2>2, <2>3, <2>4, <2>5, <2>6, <2>7, <2>8, <2>9, <2>10, <2>11, <2>12, <2>13,
       Zenon DEF Step, Startable
<1>u. ASSUME UNCHANGED vars PROVE StackGoal'
  <2>1. stack' = stack /\ phase' = phase /\ exit' = exit
    BY <1>u DEF vars
  <2> QED
    BY <1>0, <1>a, <2>1
<1> QED
  BY <1>s, <1>u DEF Next

LEMMA InitTypes == Init => TypeOK /\ ExitShape /\ FrameInv
<1> SUFFICES ASSUME Init PROVE TypeOK /\ ExitShape /\ FrameInv
  OBVIOUS
<1>1. FlagsOK
  BY DEF Init, FlagsOK
<1>2. bs \in Tables
  BY NamesFacts, EmptySeq DEF Init, Tables
<1>3. PICK f \in BOOLEAN : stack = <<NewFrame("efi_main", First, "firmware", FALSE, f)>>
  BY DEF Init
<1> DEFINE g == NewFrame("efi_main", First, "firmware", FALSE, f)
<1>4. g \in Frame
  BY NewFrameType, ShimsAssumption
<1>5. /\ g.kind = "efi_main" /\ g.shim = First /\ g.via = "firmware" /\ g.step = "init"
  BY DEF NewFrame
<1> HIDE DEF g
<1>6. stack = <<g>> /\ stack \in Seq(Frame) /\ stack # <<>>
  <2>1. stack = <<g>>
    BY <1>3 DEF g
  <2> QED
    BY <1>4, <2>1
<1>7. Linked(stack)
  BY <1>5, <1>6, ShimsAssumption DEF Linked, Programs
<1>8. /\ exit \in [dir : {"none", "down", "up"}, chain : Seq(Shims), status : Results]
      /\ exit.dir = "none" /\ phase \in Phases
  BY EmptySeq DEF Init, NoExit, Results, Phases
<1> QED
  BY <1>1, <1>2, <1>6, <1>7, <1>8, TypeParts DEF ExitShape, FrameInv

LEMMA BaseStep == TypeOK /\ ExitShape /\ FrameInv /\ [Next]_vars => (TypeOK /\ ExitShape /\ FrameInv)'
<1> SUFFICES ASSUME TypeOK, ExitShape, FrameInv, [Next]_vars PROVE (TypeOK /\ ExitShape /\ FrameInv)'
  OBVIOUS
<1>1. ExitShape' /\ FlagsOK' /\ bs' \in Tables /\ StackGoal'
  BY FlagsStep, TablesStep, ExitStep, StackStep
<1>2. TypeOK' <=> /\ FlagsOK' /\ bs' \in Tables /\ stack' \in Seq(Frame) /\ phase' \in Phases
                  /\ exit' \in [dir : {"none", "down", "up"}, chain : Seq(Shims), status : Results]
  BY Zenon DEF TypeOK, FlagsOK, Tables, Phases
<1> QED
  BY <1>1, <1>2 DEF StackGoal, ExitShape

(* The table only ever holds the firmware's services and the hooks of      *)
(* shims of this boot, whatever starts, fails and exits in which order, and *)
(* init_grub only ever goes from one of its steps to another.              *)
THEOREM TypeCorrect == Spec => []TypeOK
<1>1. Init => TypeOK /\ ExitShape /\ FrameInv
  BY InitTypes
<1>2. (TypeOK /\ ExitShape /\ FrameInv) /\ [Next]_vars => (TypeOK /\ ExitShape /\ FrameInv)'
  BY BaseStep
<1> QED
  BY <1>1, <1>2, PTL DEF Spec

LEMMA BaseHolds == Spec => [](TypeOK /\ ExitShape /\ FrameInv)
  BY InitTypes, BaseStep, PTL DEF Spec

---------------------------------------------------------------------------
(* Leaving boot services                                                   *)

(* A shim that counts its program as participating has been called by it.  *)
CalledInv == \A i \in Shims : participating[i] => called[i]

LEMMA BackParticipation ==
    ASSUME NEW low, NEW fr, NEW r, NEW b, BackToStarter(low, fr, r, b),
           participating \in [Shims -> BOOLEAN]
    PROVE  /\ \A i \in Shims : participating'[i] => participating[i]
           /\ phase' \in {phase, "returned", "reset"}
  BY DEF BackToStarter

LEMMA CalledStep == TypeOK /\ ExitShape /\ CalledInv /\ [Next]_vars => CalledInv'
<1> SUFFICES ASSUME TypeOK, ExitShape, CalledInv, [Next]_vars PROVE CalledInv'
  OBVIOUS
<1>0. participating \in [Shims -> BOOLEAN] /\ called \in [Shims -> BOOLEAN]
  BY DEF TypeOK
<1>a. ASSUME called' = called, \A i \in Shims : participating'[i] => participating[i]
      PROVE  CalledInv'
  BY <1>a DEF CalledInv
<1>s. ASSUME Step PROVE CalledInv'
  <2>1. ASSUME NEW i \in Shims, EfiMain(i) PROVE CalledInv'
    BY <1>0, <1>a, <2>1 DEF EfiMain
  <2>2. ASSUME NEW i \in Shims, EfiMainReturns(i) PROVE CalledInv'
    BY <1>0, <1>a, <2>2, BackParticipation DEF EfiMainReturns
  <2>3. ASSUME NEW i \in Shims, start_image(i) PROVE CalledInv'
    BY <1>0, <2>3 DEF start_image, CalledInv
  <2>4. ASSUME NEW r \in Results, ProgramReturns(r) PROVE CalledInv'
    BY <1>0, <1>a, <2>4, BackParticipation DEF ProgramReturns
  <2>5. ASSUME shim_verify PROVE CalledInv'
    BY <1>0, <2>5 DEF shim_verify, CalledInv
  <2>6. ASSUME NEW r \in {"ok", "error", "notfound"}, load_network_drivers(r) PROVE CalledInv'
    <3> DEFINE i == bs.table["LoadImage"]
    <3>1. /\ called' = [called EXCEPT ![i] = called[i] \/ r # "notfound"]
          /\ \/ participating' = participating
             \/ r = "ok" /\ participating' = [participating EXCEPT ![i] = TRUE]
             \/ participating' = [participating EXCEPT ![i] = FALSE]
      BY <2>6 DEF load_network_drivers
    <3> HIDE DEF i
    <3> QED
      BY <1>0, <3>1 DEF CalledInv
  <2>7. ASSUME NEW j, NEW tr \in BOOLEAN, replacement_start_image(j, tr) PROVE CalledInv'
    <3> DEFINE i == bs.table["StartImage"]
    <3>1. /\ called' = [called EXCEPT ![i] = called[i] \/ tr]
          /\ participating' = [participating EXCEPT ![i] = participating[i] \/ tr]
          /\ i \in Shims
      BY <2>7 DEF replacement_start_image
    <3> HIDE DEF i
    <3>2. called'[i] = (called[i] \/ tr) /\ participating'[i] = (participating[i] \/ tr)
      BY <1>0, <3>1
    <3>3. \A k \in Shims : k # i => called'[k] = called[k] /\ participating'[k] = participating[k]
      BY <1>0, <3>1
    <3> QED
      BY <3>1, <3>2, <3>3 DEF CalledInv
  <2>8. ASSUME DoExitFailed PROVE CalledInv'
    BY <1>0, <1>a, <2>8 DEF DoExitFailed
  <2>9. ASSUME FirmwareExit PROVE CalledInv'
    BY <1>0, <1>a, <2>9, BackParticipation DEF FirmwareExit
  <2>10. CASE participating' = participating /\ called' = called
    BY <1>a, <2>10
  <2>11. /\ \A i \in Shims : \A r \in Results : StartImageFails(i, r) => participating' = participating /\ called' = called
         /\ \A r : CallExit(r) \/ load_image(r) => participating' = participating /\ called' = called
         /\ \A j : StartImageDirect(j) => participating' = participating /\ called' = called
         /\ ShimVerifyReturns \/ SetRetain \/ ExitDirect \/ exit_boot_services \/ do_exit
            \/ FirmwareRefusesExit => participating' = participating /\ called' = called
    BY DEF StartImageFails, CallExit, load_image, StartImageDirect, ShimVerifyReturns, SetRetain,
       ExitDirect, exit_boot_services, do_exit, FirmwareRefusesExit
  <2> QED
    BY <1>s, <2>1, <2>2, <2>3, <2>4, <2>5, <2>6, <2>7, <2>8, <2>9, <2>10, <2>11, Zenon DEF Step
<1>u. ASSUME UNCHANGED vars PROVE CalledInv'
  BY <1>a, <1>u DEF vars
<1> QED
  BY <1>s, <1>u DEF Next

(* Boot services end by ExitBootServices only.                             *)
LEMMA OnlyExitEnds ==
    ASSUME TypeOK, Step, phase' = "os"
    PROVE  ExitDirect \/ exit_boot_services
<1>0. participating \in [Shims -> BOOLEAN]
  BY DEF TypeOK
<1>1. \A i \in Shims : ~(EfiMain(i) \/ start_image(i))
  BY DEF EfiMain, start_image, InShim, Running
<1>2. \A i \in Shims : ~EfiMainReturns(i)
  BY <1>0, BackParticipation DEF EfiMainReturns, InShim, Running
<1>3. \A i \in Shims : \A r \in Results : ~StartImageFails(i, r)
  BY DEF StartImageFails, InShim, Running
<1>4. \A r \in Results : ~ProgramReturns(r)
  BY <1>0, BackParticipation DEF ProgramReturns, InProgram, Running
<1>5. \A r : ~CallExit(r) /\ ~load_network_drivers(r) /\ ~load_image(r)
  BY DEF CallExit, load_network_drivers, load_image, InProgram, Running
<1>6. \A j, tr : ~StartImageDirect(j) /\ ~replacement_start_image(j, tr)
  BY DEF StartImageDirect, replacement_start_image, InProgram, Running
<1>7. ~FirmwareExit
  BY <1>0, BackParticipation DEF FirmwareExit
<1>8. /\ ~shim_verify /\ ~ShimVerifyReturns /\ ~SetRetain
      /\ ~do_exit /\ ~FirmwareRefusesExit /\ ~DoExitFailed
  BY DEF shim_verify, ShimVerifyReturns, SetRetain, do_exit, FirmwareRefusesExit, DoExitFailed,
     InProgram, Running
<1> QED
  BY <1>1, <1>2, <1>3, <1>4, <1>5, <1>6, <1>7, <1>8, Zenon DEF Step

(* Boot services are never left through shim's hook by a second stage that *)
(* has not called into shim, unless shim has verified something by hash:   *)
(* exit_boot_services looks at loader_is_participating, and whatever sets  *)
(* that is a call into this shim since start_image cleared it.             *)
THEOREM ExitMeansParticipation == Spec => ExitNeedsParticipation
<1>1. Init => CalledInv
  BY DEF Init, CalledInv
<1>2. TypeOK /\ ExitShape /\ CalledInv /\ [Next]_vars => CalledInv'
  BY CalledStep
<1>3. TypeOK /\ CalledInv /\ [Next]_vars =>
        [phase' = "os" => \A i \in Shims :
              bs.table["ExitBootServices"] = i => called[i] \/ by_hash[i]]_vars
  <2> SUFFICES ASSUME TypeOK, CalledInv, Step, phase' = "os", NEW i \in Shims,
                      bs.table["ExitBootServices"] = i
               PROVE  called[i] \/ by_hash[i]
    BY DEF Next
  <2>1. exit_boot_services
    BY OnlyExitEnds, NamesFacts DEF ExitDirect
  <2>2. participating[i] \/ by_hash[i]
    BY <2>1 DEF exit_boot_services
  <2> QED
    BY <2>2 DEF CalledInv
<1> QED
  BY <1>1, <1>2, <1>3, BaseHolds, PTL DEF Spec, ExitNeedsParticipation

---------------------------------------------------------------------------
(* Whose hooks and whose protocol                                          *)

Hooks(b, t) == \A x \in Hooked : b.table[x] = t
Saved(b, j) == \A x \in Hooked : b.saved[j][x] = "firmware"
Clean(b)    == Hooks(b, "firmware") /\ b.protocols = <<>>
PastInit(f) == f.kind = "efi_main" /\ f.step # "init"

(* j is the shim nearest below frame n, and nothing above j was started    *)
(* through a hook, which would have taken j's hooks out.                   *)
HookedBy(s, n, j) ==
    \E m \in 1 .. n :
        /\ PastInit(s[m]) /\ s[m].shim = j
        /\ \A l \in m + 1 .. n : s[l].kind # "efi_main" /\ s[l].via = "firmware"

TableInv(s, b) ==
    \/ Clean(b)
    \/ \E j \in Shims : /\ Hooks(b, j) /\ b.protocols \in {<<>>, <<j>>}
                        /\ HookedBy(s, Len(s), j)
SavedInv(s, b) == \A k \in 1 .. Len(s) : PastInit(s[k]) => Saved(b, s[k].shim)
ViaInv(s) == \A k \in 1 .. Len(s) : s[k].via # "firmware" =>
                 s[k].via \in Shims /\ HookedBy(s, k - 1, s[k].via)

LEMMA WithoutOne == \A i : Without(<<>>, i) = <<>> /\ Without(<<i>>, i) = <<>>
<1> TAKE i
<1>1. Without(<<>>, i) = <<>>
  BY DEF Without
<1>2. Without(<<i>>, i) = RemoveAt(<<i>>, 1)
  <2> DEFINE s == <<i>>
  <2>1. DOMAIN s = {1} /\ s[1] = i
    OBVIOUS
  <2> HIDE DEF s
  <2>2. (\E k \in DOMAIN s : s[k] = i) /\ (CHOOSE k \in DOMAIN s : s[k] = i) = 1
    BY <2>1
  <2>3. Without(s, i) = RemoveAt(s, 1)
    BY <2>2 DEF Without
  <2> QED
    BY <2>3 DEF s
<1>3. RemoveAt(<<i>>, 1) = SubSeq(<<i>>, 1, 0) \o SubSeq(<<i>>, 2, 1)
  BY DEF RemoveAt
<1>4. SubSeq(<<i>>, 1, 0) = <<>> /\ SubSeq(<<i>>, 2, 1) = <<>>
  OBVIOUS
<1>5. <<>> \o <<>> = <<>>
  OBVIOUS
<1> QED
  BY <1>1, <1>2, <1>3, <1>4, <1>5

LEMMA HookTables ==
    ASSUME NEW b \in Tables, NEW i \in Shims
    PROVE  LET h == hook_system_services(i, b)
           IN  /\ Hooks(h, i) /\ h.protocols = b.protocols
               /\ Hooks(b, "firmware") => \A j \in Shims : j = i \/ Saved(b, j) => Saved(h, j)
<1> DEFINE h == hook_system_services(i, b)
<1> USE NamesFacts
<1>1. h.table = [x \in Services |-> IF x \in Hooked THEN i ELSE b.table[x]]
      /\ h.protocols = b.protocols
  BY DEF hook_system_services, Tables
<1>2. Hooks(h, i)
  BY <1>1 DEF Hooks
<1>3. h.saved[i] = [x \in Services |-> IF x \in Hooked THEN b.table[x] ELSE b.saved[i][x]]
      /\ \A j \in Shims : j # i => h.saved[j] = b.saved[j]
  BY DEF hook_system_services, Tables
<1>4. ASSUME Hooks(b, "firmware"), NEW j \in Shims, j = i \/ Saved(b, j) PROVE Saved(h, j)
  BY <1>3, <1>4 DEF Saved, Hooks
<1> HIDE DEF h
<1> QED
  BY <1>1, <1>2, <1>4 DEF h

LEMMA UnhookTables ==
    ASSUME NEW b \in Tables, NEW i \in Shims
    PROVE  LET u == unhook_system_services(i, b)
           IN  /\ Saved(b, i) => Hooks(u, "firmware")
               /\ u.protocols = b.protocols /\ u.saved = b.saved
<1> USE NamesFacts
<1> DEFINE u == unhook_system_services(i, b)
<1>1. u.table = [x \in Services |-> IF x \in Hooked THEN b.saved[i][x] ELSE b.table[x]]
      /\ u.protocols = b.protocols /\ u.saved = b.saved
  BY DEF unhook_system_services, Tables
<1>2. Saved(b, i) => Hooks(u, "firmware")
  BY <1>1 DEF Saved, Hooks
<1> QED
  BY <1>1, <1>2

LEMMA ProtocolTables ==
    ASSUME NEW b \in Tables, NEW i \in Shims, b.protocols \in {<<>>, <<i>>}
    PROVE  LET u == uninstall_shim_protocols(i, b)  n == install_shim_protocols(i, b)
           IN  /\ u.table = b.table /\ u.saved = b.saved /\ u.protocols = <<>>
               /\ n.table = b.table /\ n.saved = b.saved /\ n.protocols = <<i>>
<1> DEFINE u == uninstall_shim_protocols(i, b)
<1>1. u.table = b.table /\ u.saved = b.saved /\ u.protocols = Without(b.protocols, i)
  BY DEF uninstall_shim_protocols, Tables
<1>2. u.protocols = <<>> /\ u \in Tables
  BY <1>1, WithoutOne, TablesType
<1> HIDE DEF u
<1>3. install_shim_protocols(i, b) = [u EXCEPT !.protocols = Append(u.protocols, i)]
  BY DEF install_shim_protocols, u
<1>4. Append(<<>>, i) = <<i>>
  OBVIOUS
<1>5. install_shim_protocols(i, b) = [u EXCEPT !.protocols = <<i>>]
  BY <1>2, <1>3, <1>4
<1> QED
  BY <1>1, <1>2, <1>5 DEF Tables, u

LEMMA ExitTables ==
    ASSUME NEW b \in Tables, NEW i \in Shims, NEW h \in {hook_exit(i, b), unhook_exit(i, b)}
    PROVE  /\ h \in Tables /\ h.protocols = b.protocols
           /\ \A x \in Hooked : h.table[x] = b.table[x]
           /\ \A j \in Shims : \A x \in Hooked : h.saved[j][x] = b.saved[j][x]
<1> USE NamesFacts
<1>1. h \in Tables
  BY TablesType
<1>2. CASE h = hook_exit(i, b)
  <2>1. /\ h.protocols = b.protocols /\ h.table = [b.table EXCEPT !["Exit"] = i]
        /\ h.saved = [b.saved EXCEPT ![i] = [b.saved[i] EXCEPT !["Exit"] = b.table["Exit"]]]
    BY <1>2 DEF hook_exit, Tables
  <2>2. b.table \in [Services -> Pointer] /\ b.saved \in [Shims -> [Services -> Pointer]]
    BY DEF Tables
  <2>3. \A x \in Hooked : h.table[x] = b.table[x]
    BY <2>1, <2>2
  <2>4. \A j \in Shims : \A x \in Hooked : h.saved[j][x] = b.saved[j][x]
    <3> TAKE j \in Shims
    <3> TAKE x \in Hooked
    <3>1. CASE j = i
      BY <2>1, <2>2, <3>1
    <3>2. CASE j # i
      BY <2>1, <2>2, <3>2
    <3> QED
      BY <3>1, <3>2
  <2> QED
    BY <1>1, <2>1, <2>3, <2>4
<1>3. CASE h = unhook_exit(i, b)
  BY <1>1, <1>3 DEF unhook_exit, Tables
<1> QED
  BY <1>2, <1>3

LEMMA InitHooks ==
    ASSUME NEW b \in Tables, NEW i \in Shims, i \in VendorCerts, secure, Clean(b)
    PROVE  LET h == shim_init(i, b)
           IN  /\ Hooks(h, i) /\ h.protocols = <<i>>
               /\ \A j \in Shims : j = i \/ Saved(b, j) => Saved(h, j)
<1> DEFINE c == hook_system_services(i, b)
           d == hook_exit(i, c)
<1>1. /\ c \in Tables /\ Hooks(c, i) /\ c.protocols = <<>>
      /\ \A j \in Shims : j = i \/ Saved(b, j) => Saved(c, j)
  BY HookTables, TablesType DEF Clean
<1> HIDE DEF c
<1>2. /\ d \in Tables /\ d.protocols = <<>>
      /\ \A x \in Hooked : d.table[x] = c.table[x]
      /\ \A j \in Shims : \A x \in Hooked : d.saved[j][x] = c.saved[j][x]
  BY <1>1, ExitTables
<1>3. Hooks(d, i) /\ \A j \in Shims : Saved(c, j) => Saved(d, j)
  BY <1>1, <1>2 DEF Hooks, Saved
<1> HIDE DEF d
<1>4. shim_init(i, b) = install_shim_protocols(i, d)
  BY DEF shim_init, c, d
<1>5. LET n == install_shim_protocols(i, d)
      IN n.table = d.table /\ n.saved = d.saved /\ n.protocols = <<i>>
  BY <1>2, ProtocolTables
<1> QED
  BY <1>1, <1>3, <1>4, <1>5 DEF Hooks, Saved

LEMMA FiniClean ==
    ASSUME NEW b \in Tables, NEW i \in Shims, secure, Saved(b, i), b.protocols \in {<<>>, <<i>>}
    PROVE  LET h == shim_fini(i, b)
           IN  Clean(h) /\ \A j \in Shims : Saved(b, j) => Saved(h, j)
<1> DEFINE u == uninstall_shim_protocols(i, b)
           v == unhook_system_services(i, u)
<1>1. u \in Tables /\ u.table = b.table /\ u.saved = b.saved /\ u.protocols = <<>>
  BY ProtocolTables, TablesType
<1>2. Saved(u, i) /\ \A j \in Shims : Saved(b, j) => Saved(u, j)
  BY <1>1 DEF Saved
<1> HIDE DEF u
<1>3. v \in Tables /\ Hooks(v, "firmware") /\ v.protocols = <<>> /\ v.saved = u.saved
  BY <1>1, <1>2, UnhookTables, TablesType
<1> HIDE DEF v
<1>4. shim_fini(i, b) = unhook_exit(i, v)
  BY DEF shim_fini, u, v
<1>5. LET h == unhook_exit(i, v)
      IN  /\ h.protocols = <<>>
          /\ \A x \in Hooked : h.table[x] = v.table[x]
          /\ \A j \in Shims : \A x \in Hooked : h.saved[j][x] = v.saved[j][x]
  BY <1>3, ExitTables
<1> QED
  BY <1>2, <1>3, <1>4, <1>5 DEF Clean, Hooks, Saved

(* HookedBy(s, n, j) looks at the first n frames only, and for an efi_main *)
(* only at being past its first step.                                      *)
Agree(s, t, n) ==
    \A k \in 1 .. n : /\ t[k].kind = s[k].kind /\ t[k].shim = s[k].shim /\ t[k].via = s[k].via
                      /\ PastInit(s[k]) => PastInit(t[k])

LEMMA HookedAgree ==
    ASSUME NEW s, NEW t, NEW n \in Nat, Agree(s, t, n), NEW j, HookedBy(s, n, j)
    PROVE  HookedBy(t, n, j)
<1>1. PICK m \in 1 .. n : /\ PastInit(s[m]) /\ s[m].shim = j
                          /\ \A l \in m + 1 .. n : s[l].kind # "efi_main" /\ s[l].via = "firmware"
  BY DEF HookedBy
<1>2. PastInit(t[m]) /\ t[m].shim = j
  BY <1>1 DEF Agree
<1>3. \A l \in m + 1 .. n : t[l].kind # "efi_main" /\ t[l].via = "firmware"
  <2> TAKE l \in m + 1 .. n
  <2>1. l \in 1 .. n
    BY <1>1
  <2> QED
    BY <1>1, <2>1 DEF Agree
<1> QED
  BY <1>2, <1>3 DEF HookedBy

LEMMA HookedPush ==
    ASSUME NEW s, NEW n \in Nat, NEW j, HookedBy(s, n, j),
           s[n + 1].kind # "efi_main", s[n + 1].via = "firmware"
    PROVE  HookedBy(s, n + 1, j)
<1>1. PICK m \in 1 .. n : /\ PastInit(s[m]) /\ s[m].shim = j
                          /\ \A l \in m + 1 .. n : s[l].kind # "efi_main" /\ s[l].via = "firmware"
  BY DEF HookedBy
<1>2. \A l \in m + 1 .. n + 1 : s[l].kind # "efi_main" /\ s[l].via = "firmware"
  <2> TAKE l \in m + 1 .. n + 1
  <2>1. l \in m + 1 .. n \/ l = n + 1
    BY <1>1
  <2> QED
    BY <1>1, <2>1
<1>3. m \in 1 .. n + 1
  BY <1>1
<1> QED
  BY <1>1, <1>2, <1>3 DEF HookedBy

LEMMA HookedTop ==
    ASSUME NEW s, NEW n \in Nat, n > 0, NEW j, HookedBy(s, n, j)
    PROVE  /\ s[n].kind = "efi_main" => PastInit(s[n]) /\ s[n].shim = j
           /\ s[n].kind # "efi_main" => s[n].via = "firmware" /\ HookedBy(s, n - 1, j)
<1>1. PICK m \in 1 .. n : /\ PastInit(s[m]) /\ s[m].shim = j
                          /\ \A l \in m + 1 .. n : s[l].kind # "efi_main" /\ s[l].via = "firmware"
  BY DEF HookedBy
<1>2. CASE m = n
  BY <1>1, <1>2 DEF PastInit
<1>3. CASE m # n
  <2>1. m \in 1 .. n - 1 /\ n \in m + 1 .. n
    BY <1>1, <1>3
  <2>2. s[n].kind # "efi_main" /\ s[n].via = "firmware"
    BY <1>1, <2>1
  <2>3. \A l \in m + 1 .. n - 1 : s[l].kind # "efi_main" /\ s[l].via = "firmware"
    <3> TAKE l \in m + 1 .. n - 1
    <3>1. l \in m + 1 .. n
      OBVIOUS
    <3> QED
      BY <1>1, <3>1
  <2>4. HookedBy(s, n - 1, j)
    BY <1>1, <2>1, <2>3 DEF HookedBy
  <2> QED
    BY <2>2, <2>4
<1> QED
  BY <1>2, <1>3

LEMMA HookedSaved ==
    ASSUME NEW s, NEW b, NEW n \in Nat, n <= Len(s), Len(s) \in Nat, NEW j,
           HookedBy(s, n, j), SavedInv(s, b)
    PROVE  Saved(b, j)
<1>1. PICK m \in 1 .. n : PastInit(s[m]) /\ s[m].shim = j
  BY DEF HookedBy
<1>2. m \in 1 .. Len(s)
  BY <1>1
<1> QED
  BY <1>1, <1>2 DEF SavedInv

(* The running frame changes its step, or frames lose track of an image.   *)
LEMMA HooksSame ==
    ASSUME NEW s \in Seq(Frame), s # <<>>, NEW t, SameFrames(s, t),
           PastInit(s[Len(s)]) <=> PastInit(t[Len(s)]), NEW b
    PROVE  /\ TableInv(s, b) => TableInv(t, b)
           /\ SavedInv(s, b) => SavedInv(t, b)
           /\ ViaInv(s) => ViaInv(t)
<1>1. Len(s) \in Nat /\ Len(s) > 0 /\ Len(t) = Len(s)
  BY EmptySeq DEF SameFrames
<1>2. \A k \in 1 .. Len(s) : /\ t[k].kind = s[k].kind /\ t[k].shim = s[k].shim /\ t[k].via = s[k].via
                             /\ PastInit(s[k]) <=> PastInit(t[k])
  <2> TAKE k \in 1 .. Len(s)
  <2>1. k = Len(s) \/ k < Len(s)
    BY <1>1
  <2> QED
    BY <2>1 DEF SameFrames, PastInit
<1>3. \A n \in 0 .. Len(s) : n \in Nat /\ Agree(s, t, n)
  BY <1>1, <1>2 DEF Agree
<1>4. \A n \in 0 .. Len(s) : \A j : HookedBy(s, n, j) => HookedBy(t, n, j)
  BY <1>3, HookedAgree
<1>5. Len(s) \in 0 .. Len(s) /\ \A k \in 1 .. Len(s) : k - 1 \in 0 .. Len(s)
  BY <1>1
<1>6. TableInv(s, b) => TableInv(t, b)
  BY <1>1, <1>4, <1>5 DEF TableInv
<1>7. SavedInv(s, b) => SavedInv(t, b)
  BY <1>1, <1>2 DEF SavedInv
<1>8. ViaInv(s) => ViaInv(t)
  BY <1>1, <1>2, <1>4, <1>5 DEF ViaInv
<1> QED
  BY <1>6, <1>7, <1>8

LEMMA HooksPrefix ==
    ASSUME NEW s \in Seq(Frame), NEW n \in 0 .. Len(s), NEW b
    PROVE  LET t == SubSeq(s, 1, n)
           IN  /\ SavedInv(s, b) => SavedInv(t, b)
               /\ ViaInv(s) => ViaInv(t)
               /\ \A j : HookedBy(s, n, j) => HookedBy(t, n, j)
<1> DEFINE t == SubSeq(s, 1, n)
<1>1. Len(t) = n /\ n \in Nat /\ n <= Len(s) /\ Len(s) \in Nat /\ \A k \in 1 .. n : t[k] = s[k]
  BY PrefixFacts
<1> HIDE DEF t
<1>2. \A k \in 0 .. n : k \in Nat /\ Agree(s, t, k)
  BY <1>1 DEF Agree
<1>3. \A k \in 0 .. n : \A j : HookedBy(s, k, j) => HookedBy(t, k, j)
  BY <1>2, HookedAgree
<1>4. n \in 0 .. n /\ (\A k \in 1 .. n : k \in 1 .. Len(s) /\ k - 1 \in 0 .. n)
  BY <1>1
<1>5. SavedInv(s, b) => SavedInv(t, b)
  BY <1>1, <1>4 DEF SavedInv
<1>6. ViaInv(s) => ViaInv(t)
  BY <1>1, <1>3, <1>4 DEF ViaInv
<1>7. \A j : HookedBy(s, n, j) => HookedBy(t, n, j)
  BY <1>3, <1>4
<1> QED
  BY <1>5, <1>6, <1>7 DEF t

LEMMA HooksPush ==
    ASSUME NEW s \in Seq(Frame), NEW f \in Frame, f.step = "init", NEW b
    PROVE  LET t == Append(s, f)
           IN  /\ SavedInv(s, b) => SavedInv(t, b)
               /\ ViaInv(s) /\ (f.via # "firmware" => f.via \in Shims /\ HookedBy(s, Len(s), f.via))
                    => ViaInv(t)
               /\ TableInv(s, b) /\ (Clean(b) \/ (f.kind # "efi_main" /\ f.via = "firmware"))
                    => TableInv(t, b)
<1> DEFINE t == Append(s, f)
           n == Len(s)
<1>1. Len(t) = n + 1 /\ n \in Nat /\ (\A k \in 1 .. n : t[k] = s[k]) /\ t[n + 1] = f
  BY PushFacts
<1> HIDE DEF t, n
<1>2. \A k \in 0 .. n : k \in Nat /\ Agree(s, t, k)
  BY <1>1 DEF Agree
<1>3. \A k \in 0 .. n : \A j : HookedBy(s, k, j) => HookedBy(t, k, j)
  BY <1>2, HookedAgree
<1>4. \A k \in 1 .. n + 1 : \/ k \in 1 .. n /\ k - 1 \in 0 .. n /\ t[k] = s[k]
                            \/ k = n + 1 /\ k - 1 = n /\ n \in 0 .. n /\ t[k] = f
  BY <1>1
<1>5. SavedInv(s, b) => SavedInv(t, b)
  BY <1>1, <1>4 DEF SavedInv, PastInit, n
<1>6. ASSUME ViaInv(s), f.via # "firmware" => f.via \in Shims /\ HookedBy(s, n, f.via)
      PROVE  ViaInv(t)
  <2> SUFFICES ASSUME NEW k \in 1 .. n + 1, t[k].via # "firmware"
               PROVE  t[k].via \in Shims /\ HookedBy(t, k - 1, t[k].via)
    BY <1>1 DEF ViaInv
  <2>1. CASE k \in 1 .. n /\ k - 1 \in 0 .. n /\ t[k] = s[k]
    BY <1>3, <1>6, <2>1 DEF ViaInv, n
  <2>2. CASE k - 1 = n /\ n \in 0 .. n /\ t[k] = f
    BY <1>3, <1>6, <2>2
  <2> QED
    BY <1>4, <2>1, <2>2
<1>7. ASSUME TableInv(s, b), Clean(b) \/ (f.kind # "efi_main" /\ f.via = "firmware")
      PROVE  TableInv(t, b)
  <2>1. CASE Clean(b)
    BY <2>1 DEF TableInv
  <2>2. CASE ~Clean(b) /\ f.kind # "efi_main" /\ f.via = "firmware"
    <3>1. PICK j \in Shims : /\ Hooks(b, j) /\ b.protocols \in {<<>>, <<j>>}
                             /\ HookedBy(s, n, j)
      BY <1>7, <2>2 DEF TableInv, n
    <3>2. n \in 0 .. n
      BY <1>1
    <3>3. HookedBy(t, n, j)
      BY <1>3, <3>1, <3>2
    <3>4. HookedBy(t, n + 1, j)
      BY <1>1, <2>2, <3>3, HookedPush
    <3> QED
      BY <1>1, <3>1, <3>4 DEF TableInv
  <2> QED
    BY <1>7, <2>1, <2>2
<1> QED
  BY <1>5, <1>6, <1>7 DEF t, n

---------------------------------------------------------------------------
(* A shim waits at one place only                                          *)

Distinct(s) ==
    \A k \in 1 .. Len(s) : \A l \in 1 .. Len(s) :
        s[k].kind = "efi_main" /\ s[l].kind = "efi_main" /\ s[k].shim = s[l].shim => k = l

LEMMA DistinctSame ==
    ASSUME NEW s, NEW t, SameFrames(s, t), Distinct(s)
    PROVE  Distinct(t)
  BY DEF SameFrames, Distinct

LEMMA DistinctPrefix ==
    ASSUME NEW s \in Seq(Frame), NEW n \in 0 .. Len(s), Distinct(s)
    PROVE  Distinct(SubSeq(s, 1, n))
<1>1. /\ Len(SubSeq(s, 1, n)) = n /\ n \in Nat /\ n <= Len(s) /\ Len(s) \in Nat
      /\ \A k \in 1 .. n : SubSeq(s, 1, n)[k] = s[k]
  BY PrefixFacts
<1>2. \A k \in 1 .. n : k \in 1 .. Len(s)
  BY <1>1
<1> QED
  BY <1>1, <1>2 DEF Distinct

LEMMA DistinctPush ==
    ASSUME NEW s \in Seq(Frame), NEW f \in Frame, Distinct(s),
           f.kind = "efi_main" => \A k \in 1 .. Len(s) : s[k].shim # f.shim
    PROVE  Distinct(Append(s, f))
<1> DEFINE t == Append(s, f)
           n == Len(s)
<1>1. Len(t) = n + 1 /\ n \in Nat /\ (\A k \in 1 .. n : t[k] = s[k]) /\ t[n + 1] = f
  BY PushFacts
<1> HIDE DEF t, n
<1>2. \A k \in 1 .. n + 1 : (k \in 1 .. n /\ t[k] = s[k]) \/ (k = n + 1 /\ t[k] = f)
  BY <1>1
<1>3. SUFFICES ASSUME NEW k \in 1 .. n + 1, NEW l \in 1 .. n + 1, t[k].kind = "efi_main",
                      t[l].kind = "efi_main", t[k].shim = t[l].shim
               PROVE  k = l
  BY <1>1 DEF Distinct, t
<1>4. CASE k \in 1 .. n /\ l \in 1 .. n
  BY <1>1, <1>3, <1>4 DEF Distinct, n
<1>5. CASE k \in 1 .. n /\ l = n + 1 /\ t[l] = f
  BY <1>1, <1>3, <1>5 DEF n
<1>6. CASE l \in 1 .. n /\ k = n + 1 /\ t[k] = f
  BY <1>1, <1>3, <1>6 DEF n
<1> QED
  BY <1>2, <1>4, <1>5, <1>6

(* What a step of the boot does to the stack.                              *)
LEMMA FrameMoves ==
    ASSUME TypeOK, FrameInv, [Next]_vars
    PROVE  \/ stack' = stack
           \/ SameFrames(stack, stack')
           \/ \E f \in Frame : /\ stack' = Append(stack, f)
                               /\ f.kind = "efi_main" => \A k \in 1 .. Len(stack) : stack[k].shim # f.shim
           \/ \E n \in 0 .. Len(stack) :
                 \/ stack' = SubSeq(stack, 1, n)
                 \/ SameFrames(SubSeq(stack, 1, n), stack')
<1> DEFINE Goal ==
           \/ stack' = stack
           \/ SameFrames(stack, stack')
           \/ \E f \in Frame : /\ stack' = Append(stack, f)
                               /\ f.kind = "efi_main" => \A k \in 1 .. Len(stack) : stack[k].shim # f.shim
           \/ \E n \in 0 .. Len(stack) :
                 \/ stack' = SubSeq(stack, 1, n)
                 \/ SameFrames(SubSeq(stack, 1, n), stack')
<1>0. /\ bs \in Tables /\ stack \in Seq(Frame) /\ Linked(stack)
      /\ participating \in [Shims -> BOOLEAN]
      /\ (phase = "run" => stack # <<>>)
  BY TypeParts DEF FrameInv, FlagsOK
<1>n. stack # <<>> => /\ Len(stack) \in 1 .. Len(stack) /\ Len(stack) \in Nat /\ Top \in Frame
                      /\ Front(stack) = SubSeq(stack, 1, Len(stack) - 1)
                      /\ Len(stack) - 1 \in 0 .. Len(stack)
  BY <1>0, TopFacts DEF Front
<1> SUFFICES ASSUME [Next]_vars PROVE Goal
  OBVIOUS
<1>s. ASSUME Step PROVE Goal
  <2>1. ASSUME NEW i \in Shims, EfiMain(i) PROVE Goal
    <3>1. stack # <<>> /\ Top.kind = "efi_main" /\ "first" \in Steps /\ "efi_main" \notin Programs
      BY <1>0, <2>1 DEF EfiMain, InShim, Running, Steps, Starting, Programs
    <3>2. stack' = stack \/ stack' = [stack EXCEPT ![Len(stack)].step = "first"]
      BY <2>1 DEF EfiMain
    <3>3. stack' = [stack EXCEPT ![Len(stack)].step = "first"] => SameFrames(stack, stack')
      BY <1>0, <3>1, SetStep
    <3> QED
      BY <3>2, <3>3
  <2>2. ASSUME NEW i \in Shims, EfiMainReturns(i) PROVE Goal
    <3>1. stack # <<>> /\ BackToStarter(Front(stack), Top, Top.status, shim_fini(i, bs))
      BY <2>2 DEF EfiMainReturns, InShim, Running
    <3>2. stack' = Front(stack)
      BY <1>0, <1>n, <3>1, InitFiniType, BackFacts
    <3> QED
      BY <1>n, <3>1, <3>2
  <2>3. ASSUME NEW i \in Shims, start_image(i) PROVE Goal
    <3> DEFINE f == NewFrame("stage2", i, "firmware", FALSE, FALSE)
    <3>1. stack' = Append(stack, f)
      BY <2>3 DEF start_image
    <3>2. f \in Frame /\ f.kind # "efi_main"
      BY NewFrameType DEF NewFrame
    <3> HIDE DEF f
    <3> QED
      BY <3>1, <3>2
  <2>4. ASSUME NEW i \in Shims, NEW r \in Results, StartImageFails(i, r) PROVE Goal
    <3>1. stack # <<>> /\ Top.kind = "efi_main" /\ stack' = Advance(stack, r)
      BY <2>4 DEF StartImageFails, InShim, Running
    <3> QED
      BY <1>0, <3>1, AdvanceLinked DEF Top
  <2>5. ASSUME NEW r \in Results, ProgramReturns(r) PROVE Goal
    <3>1. stack # <<>> /\ Top.kind \in Programs
      BY <2>5 DEF ProgramReturns, InProgram, Running, Programs
    <3>3. CASE Top.kind = "stage2"
      <4>1. stack' = Advance(Front(stack), r)
        BY <2>5, <3>3 DEF ProgramReturns
      <4>2. Len(stack) > 1 /\ stack[Len(stack) - 1].kind = "efi_main"
        BY <1>0, <1>n, <3>1, <3>3 DEF Linked, Top
      <4>3. /\ Front(stack) \in Seq(Frame) /\ Len(Front(stack)) = Len(stack) - 1
            /\ \A k \in 1 .. Len(stack) - 1 : Front(stack)[k] = stack[k]
            /\ Front(stack) = <<>> <=> Len(stack) = 1
        BY <1>0, <3>1, FrontFacts
      <4>4. Len(stack) - 1 \in 1 .. Len(stack) - 1 /\ Front(stack) # <<>>
        BY <1>n, <3>1, <4>2, <4>3
      <4>5. Linked(Front(stack))
        BY <1>0, <1>n, <3>1, LinkedPrefix
      <4>6. SameFrames(Front(stack), stack')
        BY <4>1, <4>2, <4>3, <4>4, <4>5, AdvanceLinked
      <4> QED
        BY <1>n, <3>1, <4>6
    <3>4. CASE Top.kind # "stage2"
      <4>1. BackToStarter(Front(stack), Top, r, bs)
        BY <2>5, <3>4 DEF ProgramReturns
      <4>2. stack' = Front(stack)
        BY <1>0, <1>n, <3>1, <4>1, BackFacts
      <4> QED
        BY <1>n, <3>1, <4>2
    <3> QED
      BY <3>3, <3>4
  <2>6. ASSUME shim_verify PROVE Goal
    <3>1. /\ stack # <<>> /\ Top.kind \in Programs /\ Top.step = "init"
      BY <2>6 DEF shim_verify, InProgram, Running, Programs
    <3> DEFINE x == IF DriversLoad THEN "verify" ELSE Top.step
    <3>2. stack' = [stack EXCEPT ![Len(stack)].step = x]
      BY <2>6 DEF shim_verify, Top
    <3>3. x \in Steps /\ x \in {"init", "verify"} /\ Top.kind # "efi_main"
      BY <3>1 DEF Steps, Programs
    <3> HIDE DEF x
    <3>4. SameFrames(stack, stack')
      BY <1>0, <3>1, <3>2, <3>3, SetStep
    <3> QED
      BY <3>4
  <2>7. ASSUME ShimVerifyReturns PROVE Goal
    <3>1. stack # <<>> /\ stack' = [stack EXCEPT ![Len(stack)].step = "init"] /\ "init" \in Steps
      BY <2>7 DEF ShimVerifyReturns, Running, Steps
    <3>2. SameFrames(stack, stack')
      BY <1>0, <3>1, SetStep
    <3> QED
      BY <3>2
  <2>8. ASSUME NEW r, load_network_drivers(r) \/ load_image(r) PROVE Goal
    <3>1. stack # <<>> /\ stack' = Untrack(stack, bs.table["LoadImage"])
      BY <2>8 DEF load_network_drivers, load_image, InProgram, Running
    <3>2. SameFrames(stack, stack')
      BY <1>0, <3>1, UntrackLinked
    <3> QED
      BY <3>2
  <2>9. ASSUME NEW j \in Startable, NEW tr \in BOOLEAN,
               StartImageDirect(j) \/ replacement_start_image(j, tr) PROVE Goal
    <3>1. stack # <<>> /\ Top.kind \in Programs
      BY <2>9 DEF StartImageDirect, replacement_start_image, InProgram, Running, Programs
    <3>2. \E v \in Shims \cup {"firmware"}, t \in BOOLEAN : Child(j, v, t)
      BY <2>9 DEF StartImageDirect, replacement_start_image
    <3>3. j \in Shims \cup {"none"} /\ (j # "none" => ~OnStack(j))
      BY DEF Startable
    <3>4. \E f \in Frame : /\ stack' = Append(stack, f) /\ f.shim = j
                           /\ f.kind = IF j = "none" THEN "image" ELSE "efi_main"
      <4>1. \E f \in Frame : \E v : Started(f, j, v)
        BY <1>0, <3>1, <3>2, <3>3, ChildFacts
      <4> QED
        BY <4>1 DEF Started
    <3>5. j # "none" => \A k \in 1 .. Len(stack) : stack[k].shim # j
      BY <3>3 DEF OnStack
    <3> QED
      BY <3>4, <3>5
  <2>10. ASSUME SetRetain \/ ExitDirect \/ exit_boot_services \/ do_exit
                \/ FirmwareRefusesExit \/ DoExitFailed \/ \E r : CallExit(r)
         PROVE  Goal
    BY <2>10 DEF SetRetain, ExitDirect, exit_boot_services, do_exit, FirmwareRefusesExit,
       DoExitFailed, CallExit
  <2>11. ASSUME FirmwareExit PROVE Goal
    <3> DEFINE n == IF Top.kind = "stage2" THEN Len(stack) - 1 ELSE Len(stack)
    <3>1. /\ phase = "run" /\ exit.dir # "none"
          /\ BackToStarter(SubSeq(stack, 1, n - 1), stack[n], exit.status, bs)
      BY <2>11 DEF FirmwareExit
    <3>2. stack[n] \in Frame /\ n - 1 \in 0 .. Len(stack)
      BY <1>0, <3>1, ExitingFrame
    <3> HIDE DEF n
    <3>3. stack' = SubSeq(stack, 1, n - 1)
      BY <1>0, <3>1, <3>2, BackFacts
    <3> QED
      BY <3>2, <3>3
  <2> HIDE DEF Goal
  <2> QED
    BY <1>s, <2>1, <2>2, <2>3, <2>4, <2>5, <2>6, <2>7, <2>8, <2>9, <2>10, <2>11,
       Zenon DEF Step, Startable
<1>u. ASSUME UNCHANGED vars PROVE Goal
  BY <1>u DEF vars
<1> QED
  BY <1>s, <1>u DEF Next

LEMMA DistinctStep == TypeOK /\ FrameInv /\ Distinct(stack) /\ [Next]_vars => Distinct(stack')
<1> SUFFICES ASSUME TypeOK, FrameInv, Distinct(stack), [Next]_vars PROVE Distinct(stack')
  OBVIOUS
<1>1. stack \in Seq(Frame)
  BY DEF TypeOK
<1>2. ASSUME NEW n \in 0 .. Len(stack), stack' = SubSeq(stack, 1, n) \/ SameFrames(SubSeq(stack, 1, n), stack')
      PROVE  Distinct(stack')
  BY <1>1, <1>2, DistinctPrefix, DistinctSame
<1>3. ASSUME NEW f \in Frame, stack' = Append(stack, f),
             f.kind = "efi_main" => \A k \in 1 .. Len(stack) : stack[k].shim # f.shim
      PROVE  Distinct(stack')
  BY <1>1, <1>3, DistinctPush
<1>4. SameFrames(stack, stack') => Distinct(stack')
  BY DistinctSame
<1>5. stack' = stack => Distinct(stack')
  OBVIOUS
<1> QED
  BY <1>2, <1>3, <1>4, <1>5, FrameMoves, Zenon

---------------------------------------------------------------------------
(* Which shims have their list                                             *)

LoadedOn(s, f) == \A k \in 1 .. Len(s) : PastInit(s[k]) => f[s[k].shim]

(* A shim past its start has loaded its list, unless Exit() has come       *)
(* through its do_exit since.                                              *)
Listed == [i \in Shims |-> sbat_loaded[i] \/ i \in exited]
ListInv == secure => LoadedOn(stack, Listed)

LEMMA LoadedSame ==
    ASSUME NEW s \in Seq(Frame), s # <<>>, NEW t, SameFrames(s, t),
           PastInit(s[Len(s)]) <=> PastInit(t[Len(s)]), NEW f, LoadedOn(s, f)
    PROVE  LoadedOn(t, f)
<1>1. Len(s) \in Nat /\ Len(s) > 0 /\ Len(t) = Len(s)
  BY EmptySeq DEF SameFrames
<1>2. \A k \in 1 .. Len(s) : t[k].shim = s[k].shim /\ (PastInit(s[k]) <=> PastInit(t[k]))
  <2> TAKE k \in 1 .. Len(s)
  <2>1. k = Len(s) \/ k < Len(s)
    BY <1>1
  <2> QED
    BY <2>1 DEF SameFrames, PastInit
<1> QED
  BY <1>1, <1>2 DEF LoadedOn

LEMMA LoadedPrefix ==
    ASSUME NEW s \in Seq(Frame), NEW n \in 0 .. Len(s), NEW f, LoadedOn(s, f)
    PROVE  LoadedOn(SubSeq(s, 1, n), f)
<1>1. /\ Len(SubSeq(s, 1, n)) = n /\ n \in Nat /\ n <= Len(s) /\ Len(s) \in Nat
      /\ \A k \in 1 .. n : SubSeq(s, 1, n)[k] = s[k]
  BY PrefixFacts
<1>2. \A k \in 1 .. n : k \in 1 .. Len(s)
  BY <1>1
<1> QED
  BY <1>1, <1>2 DEF LoadedOn

LEMMA LoadedPush ==
    ASSUME NEW s \in Seq(Frame), NEW g \in Frame, g.step = "init", NEW f, LoadedOn(s, f)
    PROVE  LoadedOn(Append(s, g), f)
<1>1. /\ Len(Append(s, g)) = Len(s) + 1 /\ Len(s) \in Nat
      /\ (\A k \in 1 .. Len(s) : Append(s, g)[k] = s[k]) /\ Append(s, g)[Len(s) + 1] = g
  BY PushFacts
<1>2. \A k \in 1 .. Len(s) + 1 : k \in 1 .. Len(s) \/ k = Len(s) + 1
  BY <1>1
<1> QED
  BY <1>1, <1>2 DEF LoadedOn, PastInit
LEMMA SecureStays == [Next]_vars => secure' = secure
<1> USE DEF EfiMain, EfiMainReturns, start_image, StartImageFails, ProgramReturns, CallExit,
     shim_verify, ShimVerifyReturns, SetRetain, load_network_drivers, load_image, StartImageDirect,
     replacement_start_image, ExitDirect, exit_boot_services
<1>1. Step => secure' = secure
  BY DEF Step, do_exit, FirmwareExit, FirmwareRefusesExit, DoExitFailed
<1> QED
  BY <1>1 DEF Next, vars

LEMMA ListStep ==
    TypeOK /\ FrameInv /\ Distinct(stack) /\ ListInv /\ [Next]_vars => ListInv'
<1> SUFFICES ASSUME TypeOK, FrameInv, Distinct(stack), ListInv, [Next]_vars, secure'
             PROVE  LoadedOn(stack', Listed')
  BY DEF ListInv, LoadedOn, PastInit
<1> DEFINE Goal == LoadedOn(stack', Listed')
<1>0. /\ bs \in Tables /\ stack \in Seq(Frame) /\ Linked(stack) /\ FlagsOK
      /\ participating \in [Shims -> BOOLEAN] /\ sbat_loaded \in [Shims -> BOOLEAN]
      /\ (phase = "run" => stack # <<>>)
  BY TypeParts DEF FrameInv, FlagsOK
<1>n. stack # <<>> => /\ Len(stack) \in 1 .. Len(stack) /\ Len(stack) \in Nat /\ Top \in Frame
                      /\ Front(stack) = SubSeq(stack, 1, Len(stack) - 1)
                      /\ Len(stack) - 1 \in 0 .. Len(stack)
  BY <1>0, TopFacts DEF Front
<1>i. LoadedOn(stack, Listed) /\ secure
  BY SecureStays DEF ListInv
<1>a. ASSUME UNCHANGED <<sbat_loaded, exited>>, LoadedOn(stack', Listed) PROVE Goal
  <2>1. Listed' = Listed
    BY <1>a DEF Listed
  <2> QED
    BY <1>a, <2>1 DEF LoadedOn
<1>s. ASSUME Step PROVE Goal
  <2>1. ASSUME NEW i \in Shims, EfiMain(i) PROVE Goal
    <3>1. stack # <<>> /\ Top.kind = "efi_main" /\ Top.shim = i /\ exited' = exited
      BY <2>1 DEF EfiMain, InShim, Running
    <3>2. CASE UNCHANGED <<stack, sbat_loaded>>
      BY <1>a, <1>i, <3>1, <3>2
    <3>3. CASE /\ stack' = [stack EXCEPT ![Len(stack)].step = "first"]
               /\ sbat_loaded' = [sbat_loaded EXCEPT ![i] = secure]
      <4>1. "first" \in Steps /\ "efi_main" \notin Programs
        BY DEF Steps, Starting, Programs
      <4>2. SameFrames(stack, stack')
        BY <1>0, <3>1, <3>3, <4>1, SetStep
      <4>3. Listed'[i] /\ \A k \in Shims : Listed[k] => Listed'[k]
        BY <1>0, <1>i, <3>1, <3>3 DEF Listed
      <4> SUFFICES ASSUME NEW k \in 1 .. Len(stack), PastInit(stack'[k])
                   PROVE  Listed'[stack'[k].shim]
        BY <4>2 DEF LoadedOn, SameFrames
      <4>4. stack'[k].shim = stack[k].shim /\ stack'[k].kind = stack[k].kind
            /\ (k < Len(stack) => stack'[k].step = stack[k].step)
        BY <4>2 DEF SameFrames
      <4>5. CASE k = Len(stack)
        BY <3>1, <4>3, <4>4, <4>5 DEF Top
      <4>6. CASE k < Len(stack)
        <5>1. PastInit(stack[k]) /\ stack[k].shim \in Shims
          BY <1>0, <4>4, <4>6 DEF PastInit, Linked
        <5>2. Listed[stack[k].shim]
          BY <1>i, <5>1 DEF LoadedOn
        <5> QED
          BY <4>3, <4>4, <5>1, <5>2
      <4> QED
        BY <1>n, <3>1, <4>5, <4>6
    <3> QED
      BY <2>1, <3>2, <3>3 DEF EfiMain
  <2>2. ASSUME NEW i \in Shims, EfiMainReturns(i) PROVE Goal
    <3>1. /\ stack # <<>> /\ Top.kind = "efi_main" /\ Top.shim = i /\ exited' = exited
          /\ sbat_loaded' = [sbat_loaded EXCEPT ![i] = FALSE]
          /\ BackToStarter(Front(stack), Top, Top.status, shim_fini(i, bs))
      BY <2>2 DEF EfiMainReturns, InShim, Running
    <3>2. stack' = Front(stack)
      BY <1>0, <1>n, <3>1, InitFiniType, BackFacts
    <3>3. /\ Len(stack') = Len(stack) - 1 /\ \A k \in 1 .. Len(stack) - 1 : stack'[k] = stack[k]
      BY <1>0, <3>1, <3>2, FrontFacts
    <3> SUFFICES ASSUME NEW k \in 1 .. Len(stack) - 1, PastInit(stack[k])
                 PROVE  Listed'[stack[k].shim]
      BY <3>3 DEF LoadedOn
    <3>4. k \in 1 .. Len(stack) /\ k # Len(stack)
      BY <1>n, <3>1
    <3>5. stack[k].shim \in Shims /\ stack[k].shim # i
      BY <1>0, <1>n, <3>1, <3>4 DEF Linked, PastInit, Distinct, Top
    <3>6. Listed[stack[k].shim]
      BY <1>i, <3>4 DEF LoadedOn
    <3> QED
      BY <1>0, <3>1, <3>5, <3>6 DEF Listed
  <2>3. ASSUME NEW i \in Shims, start_image(i) PROVE Goal
    <3> DEFINE f == NewFrame("stage2", i, "firmware", FALSE, FALSE)
    <3>1. stack' = Append(stack, f) /\ UNCHANGED <<sbat_loaded, exited>>
      BY <2>3 DEF start_image
    <3>2. f \in Frame /\ f.step = "init"
      BY NewFrameType DEF NewFrame
    <3> HIDE DEF f
    <3>3. LoadedOn(stack', Listed)
      BY <1>0, <1>i, <3>1, <3>2, LoadedPush
    <3> QED
      BY <1>a, <3>1, <3>3
  <2>4. ASSUME NEW i \in Shims, NEW r \in Results, StartImageFails(i, r) PROVE Goal
    <3>1. /\ stack # <<>> /\ Top.kind = "efi_main" /\ Top.step \in Starting
          /\ stack' = Advance(stack, r) /\ UNCHANGED <<sbat_loaded, exited>>
      BY <2>4 DEF StartImageFails, InShim, Running
    <3>2. SameFrames(stack, stack') /\ stack'[Len(stack)].step \in Starting \cup {"fini"}
      BY <1>0, <3>1, AdvanceLinked DEF Top
    <3>3. PastInit(stack[Len(stack)]) /\ PastInit(stack'[Len(stack)])
      BY <1>n, <3>1, <3>2 DEF PastInit, SameFrames, Top, Starting
    <3>4. LoadedOn(stack', Listed)
      BY <1>0, <1>i, <3>1, <3>2, <3>3, LoadedSame
    <3> QED
      BY <1>a, <3>1, <3>4
  <2>5. ASSUME NEW r \in Results, ProgramReturns(r) PROVE Goal
    <3>1. stack # <<>> /\ Top.kind \in Programs /\ UNCHANGED <<sbat_loaded, exited>>
      BY <2>5 DEF ProgramReturns, InProgram, Running, Programs
    <3>2. /\ Front(stack) \in Seq(Frame) /\ Len(Front(stack)) = Len(stack) - 1
          /\ \A k \in 1 .. Len(stack) - 1 : Front(stack)[k] = stack[k]
          /\ Front(stack) = <<>> <=> Len(stack) = 1
      BY <1>0, <3>1, FrontFacts
    <3>3. Linked(Front(stack)) /\ LoadedOn(Front(stack), Listed)
      BY <1>0, <1>i, <1>n, <3>1, LinkedPrefix, LoadedPrefix
    <3>4. CASE Top.kind = "stage2"
      <4>1. stack' = Advance(Front(stack), r)
        BY <2>5, <3>4 DEF ProgramReturns
      <4>2. /\ Len(stack) > 1 /\ stack[Len(stack) - 1].kind = "efi_main"
            /\ stack[Len(stack) - 1].step \in Starting
        BY <1>0, <1>n, <3>1, <3>4 DEF Linked, Top
      <4>3. Len(stack) - 1 \in 1 .. Len(stack) - 1 /\ Front(stack) # <<>>
        BY <1>n, <3>1, <3>2, <4>2
      <4>4. /\ SameFrames(Front(stack), stack')
            /\ stack'[Len(stack) - 1].step \in Starting \cup {"fini"}
        BY <3>2, <3>3, <4>1, <4>2, <4>3, AdvanceLinked
      <4>5. stack'[Len(stack) - 1].kind = "efi_main"
        BY <3>2, <4>2, <4>3, <4>4 DEF SameFrames
      <4>6. PastInit(Front(stack)[Len(stack) - 1]) /\ PastInit(stack'[Len(stack) - 1])
        BY <3>2, <4>2, <4>3, <4>4, <4>5 DEF PastInit, Starting
      <4>7. LoadedOn(stack', Listed)
        BY <3>2, <3>3, <4>3, <4>4, <4>6, LoadedSame
      <4> QED
        BY <1>a, <3>1, <4>7
    <3>5. CASE Top.kind # "stage2"
      <4>1. BackToStarter(Front(stack), Top, r, bs)
        BY <2>5, <3>5 DEF ProgramReturns
      <4>2. stack' = Front(stack)
        BY <1>0, <1>n, <3>1, <4>1, BackFacts
      <4> QED
        BY <1>a, <3>1, <3>3, <4>2
    <3> QED
      BY <3>4, <3>5
  <2>6. ASSUME shim_verify \/ ShimVerifyReturns PROVE Goal
    <3>1. stack # <<>> /\ Top.kind # "efi_main" /\ UNCHANGED <<sbat_loaded, exited>>
      BY <1>0, <1>n, <2>6 DEF shim_verify, ShimVerifyReturns, InProgram, Running, Linked, Top
    <3> DEFINE x == IF ShimVerifyReturns THEN "init" ELSE IF DriversLoad THEN "verify" ELSE Top.step
    <3>2. stack' = [stack EXCEPT ![Len(stack)].step = x]
      BY <2>6 DEF shim_verify, ShimVerifyReturns, Top
    <3>3. x \in Steps /\ x \in {"init", "verify"}
      BY <2>6 DEF shim_verify, InProgram, Steps
    <3> HIDE DEF x
    <3>4. SameFrames(stack, stack')
      BY <1>0, <3>1, <3>2, <3>3, SetStep
    <3>5. ~PastInit(stack[Len(stack)]) /\ ~PastInit(stack'[Len(stack)])
      BY <1>n, <3>1, <3>4 DEF PastInit, SameFrames, Top
    <3>6. LoadedOn(stack', Listed)
      BY <1>0, <1>i, <3>1, <3>4, <3>5, LoadedSame
    <3> QED
      BY <1>a, <3>1, <3>6
  <2>7. ASSUME NEW r, load_network_drivers(r) \/ load_image(r) PROVE Goal
    <3>1. /\ stack # <<>> /\ stack' = Untrack(stack, bs.table["LoadImage"])
          /\ UNCHANGED <<sbat_loaded, exited>>
      BY <2>7 DEF load_network_drivers, load_image, InProgram, Running
    <3>2. SameFrames(stack, stack') /\ stack'[Len(stack)].step = stack[Len(stack)].step
      BY <1>0, <3>1, UntrackLinked
    <3>3. PastInit(stack[Len(stack)]) <=> PastInit(stack'[Len(stack)])
      BY <1>n, <3>1, <3>2 DEF PastInit, SameFrames
    <3>4. LoadedOn(stack', Listed)
      BY <1>0, <1>i, <3>1, <3>2, <3>3, LoadedSame
    <3> QED
      BY <1>a, <3>1, <3>4
  <2>8. ASSUME NEW j \in Startable, NEW tr \in BOOLEAN,
               StartImageDirect(j) \/ replacement_start_image(j, tr) PROVE Goal
    <3>1. stack # <<>> /\ Top.kind \in Programs /\ UNCHANGED <<sbat_loaded, exited>>
      BY <2>8 DEF StartImageDirect, replacement_start_image, InProgram, Running, Programs
    <3>2. \E v \in Shims \cup {"firmware"}, t \in BOOLEAN : Child(j, v, t)
      BY <2>8 DEF StartImageDirect, replacement_start_image
    <3>3. j \in Shims \cup {"none"}
      BY DEF Startable
    <3>4. \E f \in Frame : stack' = Append(stack, f) /\ f.step = "init"
      BY <1>0, <3>1, <3>2, <3>3, ChildFacts DEF Started
    <3>5. LoadedOn(stack', Listed)
      BY <1>0, <1>i, <3>4, LoadedPush
    <3> QED
      BY <1>a, <3>1, <3>5
  <2>9. ASSUME SetRetain \/ ExitDirect \/ exit_boot_services \/ FirmwareRefusesExit \/ DoExitFailed
               \/ \E r \in Results : CallExit(r)
        PROVE  Goal
    BY <1>a, <1>i, <2>9 DEF SetRetain, ExitDirect, exit_boot_services, FirmwareRefusesExit,
       DoExitFailed, CallExit
  <2>10. ASSUME do_exit PROVE Goal
    <3> DEFINE i == bs.table["Exit"]
    <3>1. /\ i \in Shims /\ stack' = stack /\ exited' = exited \cup {i}
          /\ sbat_loaded' = [sbat_loaded EXCEPT ![i] = FALSE]
      BY <2>10 DEF do_exit
    <3> HIDE DEF i
    <3>2. \A k \in Shims : Listed[k] => Listed'[k]
      BY <1>0, <3>1 DEF Listed
    <3>3. \A k \in 1 .. Len(stack) : PastInit(stack[k]) => stack[k].shim \in Shims
      BY <1>0 DEF Linked, PastInit
    <3> QED
      BY <1>i, <3>1, <3>2, <3>3 DEF LoadedOn
  <2>11. ASSUME FirmwareExit PROVE Goal
    <3> DEFINE n == IF Top.kind = "stage2" THEN Len(stack) - 1 ELSE Len(stack)
    <3>1. /\ phase = "run" /\ exit.dir # "none" /\ UNCHANGED <<sbat_loaded, exited>>
          /\ BackToStarter(SubSeq(stack, 1, n - 1), stack[n], exit.status, bs)
      BY <2>11 DEF FirmwareExit
    <3>2. stack[n] \in Frame /\ n - 1 \in 0 .. Len(stack)
      BY <1>0, <3>1, ExitingFrame
    <3> HIDE DEF n
    <3>3. stack' = SubSeq(stack, 1, n - 1)
      BY <1>0, <3>1, <3>2, BackFacts
    <3>4. LoadedOn(stack', Listed)
      BY <1>0, <1>i, <3>2, <3>3, LoadedPrefix
    <3> QED
      BY <1>a, <3>1, <3>4
  <2> HIDE DEF Goal
  <2> QED
    BY <1>s, <2>1, <2>2, <2>3, <2>4, <2>5, <2>6, <2>7, <2>8, <2>9, <2>10, <2>11,
       Zenon DEF Step, Startable
<1>u. ASSUME UNCHANGED vars PROVE Goal
  BY <1>a, <1>i, <1>u DEF vars
<1> QED
  BY <1>s, <1>u DEF Next

---------------------------------------------------------------------------
(* Of the usual programs only the first shim's second stage calls Exit(),  *)
(* which is never refused.                                                 *)

OutermostInv ==
    Usual /\ phase = "run" /\ exit.dir # "none" => exit.dir = "down" /\ Len(stack) = 2

LEMMA ExitEnds ==
    ASSUME TypeOK, FrameInv, OutermostInv, Usual, FirmwareExit
    PROVE  stack' = <<>>
<1>0. /\ bs \in Tables /\ stack \in Seq(Frame) /\ Linked(stack)
      /\ participating \in [Shims -> BOOLEAN]
  BY TypeParts DEF FrameInv, FlagsOK
<1> DEFINE n == IF Top.kind = "stage2" THEN Len(stack) - 1 ELSE Len(stack)
<1>1. /\ phase = "run" /\ exit.dir # "none"
      /\ BackToStarter(SubSeq(stack, 1, n - 1), stack[n], exit.status, bs)
  BY DEF FirmwareExit
<1>2. Len(stack) = 2 /\ Top.kind \in Programs
  BY <1>1 DEF OutermostInv, FrameInv
<1>3. stack[1].kind = "efi_main" /\ (stack[2].kind # "stage2" => stack[1].kind \in Programs)
  <2>1. 1 \in 1 .. Len(stack) /\ 2 \in 1 .. Len(stack)
    BY <1>2
  <2> QED
    BY <1>0, <2>1 DEF Linked
<1>4. n = 1
  BY <1>2, <1>3 DEF Top, Programs
<1>5. stack[n] \in Frame
  BY <1>0, <1>1, ExitingFrame
<1> HIDE DEF n
<1>6. stack' = SubSeq(stack, 1, n - 1)
  BY <1>0, <1>1, <1>5, BackFacts
<1> QED
  BY <1>4, <1>6
LEMMA OutermostStep == TypeOK /\ FrameInv /\ OutermostInv /\ [Next]_vars => OutermostInv'
<1> SUFFICES ASSUME TypeOK, FrameInv, OutermostInv, [Next]_vars,
                    Usual', phase' = "run", exit'.dir # "none"
             PROVE  exit'.dir = "down" /\ Len(stack') = 2
  BY DEF OutermostInv
<1>0. /\ stack \in Seq(Frame) /\ Linked(stack)
      /\ exit \in [dir : {"none", "down", "up"}, chain : Seq(Shims), status : Results]
  BY TypeParts DEF FrameInv
<1>h. Usual /\ habits' = habits
  BY DEF Usual, Next, vars
<1>i. phase = "run" /\ exit.dir # "none" => exit.dir = "down" /\ Len(stack) = 2
  BY <1>h DEF OutermostInv
<1>s. ASSUME Step PROVE exit'.dir = "down" /\ Len(stack') = 2
  <2> USE DEF EfiMain, EfiMainReturns, start_image, StartImageFails, ProgramReturns,
       shim_verify, ShimVerifyReturns, SetRetain, load_network_drivers, load_image, StartImageDirect,
       replacement_start_image, ExitDirect, exit_boot_services
  <2>1. do_exit \/ FirmwareExit \/ FirmwareRefusesExit \/ DoExitFailed
        \/ (\E r \in Results : CallExit(r)) \/ (Running /\ exit' = exit)
    BY <1>s DEF Step, InShim, InProgram, Running
  <2>2. ~(Running /\ exit' = exit) /\ ~FirmwareExit /\ ~FirmwareRefusesExit /\ ~DoExitFailed
    <3>1. ~(Running /\ exit' = exit)
      BY DEF Running
    <3>2. ~FirmwareExit
      BY DEF FirmwareExit, NoExit
    <3>3. ~FirmwareRefusesExit
      BY <1>h DEF FirmwareRefusesExit, Usual
    <3>4. ~DoExitFailed
      BY <1>i DEF DoExitFailed
    <3> QED
      BY <3>1, <3>2, <3>3, <3>4
  <2>3. ASSUME do_exit PROVE exit'.dir = "down" /\ Len(stack') = 2
    <3>1. /\ exit' = [exit EXCEPT !.chain = Append(exit.chain, bs.table["Exit"])]
          /\ phase = "run" /\ exit.dir = "down" /\ stack' = stack
      BY <2>3 DEF do_exit
    <3> QED
      BY <1>0, <1>i, <3>1
  <2>4. ASSUME NEW r \in Results, CallExit(r) PROVE exit'.dir = "down" /\ Len(stack') = 2
    <3>1. /\ stack # <<>> /\ Top.kind \in Programs /\ (Len(stack) > 2 => "exit" \in habits)
          /\ exit'.dir = "down" /\ stack' = stack
      BY <2>4 DEF CallExit, InProgram, Running, Programs
    <3>2. "exit" \notin habits
      BY <1>h DEF Usual
    <3>3. Len(stack) \in Nat /\ Len(stack) \in 1 .. Len(stack)
      BY <1>0, <3>1, TopFacts
    <3>4. Len(stack) # 1
      BY <1>0, <3>1, <3>3 DEF Linked, Top, Programs
    <3>5. \A n \in Nat : n \in 1 .. n /\ ~(n > 2) /\ n # 1 => n = 2
      OBVIOUS
    <3>6. Len(stack) = 2
      BY <3>1, <3>2, <3>3, <3>4, <3>5, Zenon
    <3> QED
      BY <3>1, <3>6
  <2> QED
    BY <2>1, <2>2, <2>3, <2>4
<1>u. CASE UNCHANGED vars
  BY <1>i, <1>u DEF vars
<1> QED
  BY <1>s, <1>u DEF Next

---------------------------------------------------------------------------
(* The protocol and the hooks are of the same shim                         *)

(* Without secure mode no shim hooks anything but Exit.                    *)
PlainInv ==
    ~secure => /\ Hooks(bs, "firmware")
               /\ \A k \in 1 .. Len(stack) : stack[k].via = "firmware"

HookInv ==
    Usual /\ secure /\ Running =>
        ~retain /\ TableInv(stack, bs) /\ SavedInv(stack, bs) /\ ViaInv(stack)

(* A frame ends with the table clean: the starter's hooks come back when   *)
(* the image was started through them and failed.                          *)
LEMMA BackHooks ==
    ASSUME stack \in Seq(Frame), stack # <<>>, Linked(stack), NEW b \in Tables, Clean(b),
           SavedInv(Front(stack), b), ViaInv(stack), NEW r,
           BackToStarter(Front(stack), Top, r, b),
           participating \in [Shims -> BOOLEAN]
    PROVE  /\ stack' = Front(stack)
           /\ phase' = "reset" \/ (TableInv(stack', bs') /\ SavedInv(stack', bs') /\ ViaInv(stack'))
<1> DEFINE low == Front(stack)
           v == Top.via
<1>1. /\ Len(stack) \in Nat /\ Len(stack) \in 1 .. Len(stack) /\ Top \in Frame
      /\ low = SubSeq(stack, 1, Len(stack) - 1) /\ Len(stack) - 1 \in 0 .. Len(stack)
  BY TopFacts DEF Front
<1>2. stack' = low
  BY <1>1, BackFacts
<1>3. Len(low) = Len(stack) - 1 /\ low \in Seq(Frame)
  BY FrontFacts
<1>4. ViaInv(low) /\ \A j : HookedBy(stack, Len(stack) - 1, j) => HookedBy(low, Len(low), j)
  BY <1>1, <1>3, HooksPrefix
<1>5. v # "firmware" => v \in Shims /\ HookedBy(low, Len(low), v)
  BY <1>1, <1>4 DEF ViaInv, Top
<1> HIDE DEF low, v
<1>6. SavedInv(low, b)
  BY DEF low
<1>7. CASE bs' = b
  BY <1>2, <1>4, <1>6, <1>7 DEF TableInv, low
<1>8. ASSUME v # "firmware",
             NEW c \in {b, install_shim_protocols(v, b)}, bs' = hook_system_services(v, c)
      PROVE  TableInv(stack', bs') /\ SavedInv(stack', bs')
  <2>1. v \in Shims /\ b.protocols = <<>> /\ Hooks(b, "firmware")
    BY <1>5, <1>8 DEF Clean
  <2>2. c \in Tables /\ c.table = b.table /\ c.saved = b.saved /\ c.protocols \in {<<>>, <<v>>}
    BY <1>8, <2>1, ProtocolTables, TablesType
  <2>3. Hooks(c, "firmware") /\ \A j : Saved(b, j) => Saved(c, j)
    BY <2>1, <2>2 DEF Hooks, Saved
  <2>4. /\ Hooks(bs', v) /\ bs'.protocols = c.protocols
        /\ \A j \in Shims : j = v \/ Saved(c, j) => Saved(bs', j)
    BY <1>8, <2>1, <2>2, <2>3, HookTables
  <2>5. TableInv(low, bs')
    BY <1>5, <1>8, <2>1, <2>2, <2>4 DEF TableInv
  <2>6. \A k \in 1 .. Len(low) : PastInit(low[k]) => low[k].shim \in Shims
    <3>1. Linked(low)
      BY <1>1, LinkedPrefix
    <3> QED
      BY <3>1 DEF Linked, PastInit
  <2> QED
    BY <1>2, <1>6, <2>1, <2>3, <2>4, <2>5, <2>6 DEF SavedInv, low
<1>9. \/ bs' = b
      \/ phase' = "reset"
      \/ v # "firmware" /\ bs' = hook_system_services(v, b)
      \/ v # "firmware" /\ bs' = hook_system_services(v, install_shim_protocols(v, b))
  BY DEF BackToStarter, v
<1>10. ASSUME v # "firmware", bs' = hook_system_services(v, b)
             \/ bs' = hook_system_services(v, install_shim_protocols(v, b))
       PROVE TableInv(stack', bs') /\ SavedInv(stack', bs')
  BY <1>8, <1>10
<1> QED
  BY <1>2, <1>4, <1>7, <1>9, <1>10 DEF low

AllFirmware(s) == \A k \in 1 .. Len(s) : s[k].via = "firmware"

LEMMA FirmwarePush ==
    ASSUME NEW s \in Seq(Frame), NEW f \in Frame, AllFirmware(s), f.via = "firmware"
    PROVE  AllFirmware(Append(s, f))
<1>1. /\ Len(Append(s, f)) = Len(s) + 1 /\ Len(s) \in Nat
      /\ (\A k \in 1 .. Len(s) : Append(s, f)[k] = s[k]) /\ Append(s, f)[Len(s) + 1] = f
  BY PushFacts
<1>2. \A k \in 1 .. Len(s) + 1 : k \in 1 .. Len(s) \/ k = Len(s) + 1
  BY <1>1
<1> QED
  BY <1>1, <1>2 DEF AllFirmware

LEMMA FirmwarePrefix ==
    ASSUME NEW s \in Seq(Frame), NEW n \in 0 .. Len(s), AllFirmware(s)
    PROVE  AllFirmware(SubSeq(s, 1, n))
<1>1. /\ Len(SubSeq(s, 1, n)) = n /\ n \in Nat /\ n <= Len(s) /\ Len(s) \in Nat
      /\ \A k \in 1 .. n : SubSeq(s, 1, n)[k] = s[k]
  BY PrefixFacts
<1>2. \A k \in 1 .. n : k \in 1 .. Len(s)
  BY <1>1
<1> QED
  BY <1>1, <1>2 DEF AllFirmware

LEMMA FirmwareSame ==
    ASSUME NEW s, NEW t, SameFrames(s, t), AllFirmware(s)
    PROVE  AllFirmware(t)
  BY DEF SameFrames, AllFirmware

LEMMA PlainTables ==
    ASSUME NEW b \in Tables, NEW i \in Shims, ~secure, Hooks(b, "firmware")
    PROVE  Hooks(shim_init(i, b), "firmware") /\ Hooks(shim_fini(i, b), "firmware")
<1> DEFINE h == hook_exit(i, b)
           u == uninstall_shim_protocols(i, b)
<1>1. shim_init(i, b) = install_shim_protocols(i, h) /\ shim_fini(i, b) = unhook_exit(i, u)
  BY DEF shim_init, shim_fini
<1>2. h \in Tables /\ Hooks(h, "firmware")
  BY ExitTables DEF Hooks
<1>3. u \in Tables /\ Hooks(u, "firmware")
  BY TablesType DEF uninstall_shim_protocols, Tables, Hooks
<1> HIDE DEF h, u
<1>4. Hooks(install_shim_protocols(i, h), "firmware")
  BY <1>2 DEF install_shim_protocols, uninstall_shim_protocols, Tables, Hooks
<1>5. Hooks(unhook_exit(i, u), "firmware")
  BY <1>3, ExitTables DEF Hooks
<1> QED
  BY <1>1, <1>4, <1>5

LEMMA PlainBack ==
    ASSUME NEW low, NEW fr, NEW r, NEW b, BackToStarter(low, fr, r, b), fr.via = "firmware"
    PROVE  bs' = b /\ stack' = low
  BY DEF BackToStarter

LEMMA PlainStep == TypeOK /\ ExitShape /\ FrameInv /\ PlainInv /\ [Next]_vars => PlainInv'
<1> SUFFICES ASSUME TypeOK, ExitShape, FrameInv, PlainInv, [Next]_vars, ~secure'
             PROVE  Hooks(bs', "firmware") /\ AllFirmware(stack')
  BY Zenon DEF PlainInv, AllFirmware, Hooks
<1> DEFINE Goal == Hooks(bs', "firmware") /\ AllFirmware(stack')
<1>0. /\ bs \in Tables /\ stack \in Seq(Frame) /\ Linked(stack)
      /\ (phase = "run" => stack # <<>>)
  BY TypeParts DEF FrameInv
<1>n. stack # <<>> => /\ Len(stack) \in 1 .. Len(stack) /\ Len(stack) \in Nat /\ Top \in Frame
                      /\ Front(stack) = SubSeq(stack, 1, Len(stack) - 1)
                      /\ Len(stack) - 1 \in 0 .. Len(stack)
  BY <1>0, TopFacts DEF Front
<1>e. [Next]_vars => secure' = secure
  <2> USE DEF EfiMain, EfiMainReturns, start_image, StartImageFails, ProgramReturns, CallExit,
       shim_verify, ShimVerifyReturns, SetRetain, load_network_drivers, load_image, StartImageDirect,
       replacement_start_image, ExitDirect, exit_boot_services, do_exit, FirmwareExit,
       FirmwareRefusesExit, DoExitFailed
  <2>1. Step => secure' = secure
    BY DEF Step
  <2> QED
    BY <2>1 DEF Next, vars
<1>f. ~secure /\ Hooks(bs, "firmware") /\ AllFirmware(stack)
  BY <1>e DEF PlainInv, AllFirmware
<1>x. \A x \in Hooked : bs.table[x] \notin Shims
  BY <1>f, NamesFacts DEF Hooks
<1>y. "LoadImage" \in Hooked /\ "StartImage" \in Hooked /\ "ExitBootServices" \in Hooked
  BY DEF Hooked
<1>a. ASSUME bs' = bs, stack' = stack PROVE Goal
  BY <1>a, <1>f
<1>b. ASSUME NEW n \in 0 .. Len(stack), stack' = SubSeq(stack, 1, n) \/ SameFrames(SubSeq(stack, 1, n), stack')
      PROVE  AllFirmware(stack')
  BY <1>0, <1>b, <1>f, FirmwarePrefix, FirmwareSame
<1>s. ASSUME Step PROVE Goal
  <2>1. ASSUME NEW i \in Shims, EfiMain(i) PROVE Goal
    <3>1. bs' = bs \/ bs' = shim_init(i, bs)
      BY <2>1 DEF EfiMain
    <3>2. Hooks(bs', "firmware")
      BY <1>0, <1>f, <3>1, PlainTables
    <3>3. stack # <<>> /\ Top.kind = "efi_main" /\ "first" \in Steps /\ "efi_main" \notin Programs
      BY <1>0, <2>1 DEF EfiMain, InShim, Running, Steps, Starting, Programs
    <3>4. stack' = stack \/ stack' = [stack EXCEPT ![Len(stack)].step = "first"]
      BY <2>1 DEF EfiMain
    <3>5. stack' = [stack EXCEPT ![Len(stack)].step = "first"] => SameFrames(stack, stack')
      BY <1>0, <3>3, SetStep
    <3> QED
      BY <1>f, <3>2, <3>4, <3>5, FirmwareSame
  <2>2. ASSUME NEW i \in Shims, EfiMainReturns(i) PROVE Goal
    <3>1. stack # <<>> /\ BackToStarter(Front(stack), Top, Top.status, shim_fini(i, bs))
      BY <2>2 DEF EfiMainReturns, InShim, Running
    <3>2. Top.via = "firmware"
      BY <1>f, <1>n, <3>1 DEF AllFirmware, Top
    <3>3. bs' = shim_fini(i, bs) /\ stack' = Front(stack)
      BY <3>1, <3>2, PlainBack
    <3> QED
      BY <1>0, <1>b, <1>f, <1>n, <3>1, <3>3, PlainTables
  <2>3. ASSUME NEW i \in Shims, start_image(i) PROVE Goal
    <3> DEFINE f == NewFrame("stage2", i, "firmware", FALSE, FALSE)
    <3>1. stack' = Append(stack, f) /\ bs' = bs
      BY <2>3 DEF start_image
    <3>2. f \in Frame /\ f.via = "firmware"
      BY NewFrameType DEF NewFrame
    <3> HIDE DEF f
    <3> QED
      BY <1>0, <1>f, <3>1, <3>2, FirmwarePush
  <2>4. ASSUME NEW i \in Shims, NEW r \in Results, StartImageFails(i, r) PROVE Goal
    <3>1. stack # <<>> /\ Top.kind = "efi_main" /\ stack' = Advance(stack, r) /\ bs' = bs
      BY <2>4 DEF StartImageFails, InShim, Running
    <3>2. SameFrames(stack, stack')
      BY <1>0, <3>1, AdvanceLinked DEF Top
    <3> QED
      BY <1>f, <3>1, <3>2, FirmwareSame
  <2>5. ASSUME NEW r \in Results, ProgramReturns(r) PROVE Goal
    <3>1. stack # <<>> /\ Top.kind \in Programs
      BY <2>5 DEF ProgramReturns, InProgram, Running, Programs
    <3>2. CASE Top.kind = "stage2"
      <4>1. stack' = Advance(Front(stack), r) /\ bs' = bs
        BY <2>5, <3>2 DEF ProgramReturns
      <4>2. Len(stack) > 1 /\ stack[Len(stack) - 1].kind = "efi_main"
        BY <1>0, <1>n, <3>1, <3>2 DEF Linked, Top
      <4>3. /\ Front(stack) \in Seq(Frame) /\ Len(Front(stack)) = Len(stack) - 1
            /\ \A k \in 1 .. Len(stack) - 1 : Front(stack)[k] = stack[k]
            /\ Front(stack) = <<>> <=> Len(stack) = 1
        BY <1>0, <3>1, FrontFacts
      <4>4. Len(stack) - 1 \in 1 .. Len(stack) - 1 /\ Front(stack) # <<>>
        BY <1>n, <3>1, <4>2, <4>3
      <4>5. Linked(Front(stack))
        BY <1>0, <1>n, <3>1, LinkedPrefix
      <4>6. SameFrames(Front(stack), stack')
        BY <4>1, <4>2, <4>3, <4>4, <4>5, AdvanceLinked
      <4> QED
        BY <1>b, <1>f, <1>n, <3>1, <4>1, <4>6
    <3>3. CASE Top.kind # "stage2"
      <4>1. BackToStarter(Front(stack), Top, r, bs)
        BY <2>5, <3>3 DEF ProgramReturns
      <4>2. Top.via = "firmware"
        BY <1>f, <1>n, <3>1 DEF AllFirmware, Top
      <4>3. bs' = bs /\ stack' = Front(stack)
        BY <4>1, <4>2, PlainBack
      <4> QED
        BY <1>b, <1>f, <1>n, <3>1, <4>3
    <3> QED
      BY <3>2, <3>3
  <2>6. ASSUME shim_verify \/ ShimVerifyReturns PROVE Goal
    <3>1. /\ stack # <<>> /\ bs' = bs /\ Top.kind # "efi_main"
      BY <1>0, <1>n, <2>6 DEF shim_verify, ShimVerifyReturns, InProgram, Running, Linked, Top
    <3> DEFINE x == IF ShimVerifyReturns THEN "init" ELSE IF DriversLoad THEN "verify" ELSE Top.step
    <3>2. stack' = [stack EXCEPT ![Len(stack)].step = x]
      BY <2>6 DEF shim_verify, ShimVerifyReturns, Top
    <3>3. x \in Steps /\ x \in {"init", "verify"}
      BY <2>6 DEF shim_verify, InProgram, Steps
    <3> HIDE DEF x
    <3>4. SameFrames(stack, stack')
      BY <1>0, <3>1, <3>2, <3>3, SetStep
    <3> QED
      BY <1>f, <3>1, <3>4, FirmwareSame
  <2>7. \A r : ~load_network_drivers(r) /\ ~load_image(r)
    BY <1>x, <1>y DEF load_network_drivers, load_image
  <2>8. \A j, tr : ~replacement_start_image(j, tr)
    BY <1>x, <1>y DEF replacement_start_image
  <2>9. ASSUME NEW j \in Startable, StartImageDirect(j) PROVE Goal
    <3>1. bs' = bs /\ stack # <<>> /\ Top.kind \in Programs /\ Child(j, "firmware", FALSE)
      BY <2>9 DEF StartImageDirect, InProgram, Running, Programs
    <3>2. j \in Shims \cup {"none"}
      BY DEF Startable
    <3>a. "firmware" \in Shims \cup {"firmware"} /\ FALSE \in BOOLEAN
      OBVIOUS
    <3>b. stack \in Seq(Frame) /\ stack # <<>> /\ Linked(stack) /\ Top.kind \in Programs
      BY <1>0, <3>1
    <3>3. PICK f \in Frame : Started(f, j, "firmware")
      BY <3>1, <3>2, <3>a, <3>b, ChildFacts
    <3> QED
      BY <1>0, <1>f, <3>1, <3>3, FirmwarePush DEF Started
  <2>10. ~exit_boot_services
    BY <1>x, <1>y DEF exit_boot_services
  <2>11. SetRetain \/ ExitDirect \/ FirmwareRefusesExit => bs' = bs /\ stack' = stack
    BY DEF SetRetain, ExitDirect, FirmwareRefusesExit
  <2>12. \A r : CallExit(r) => bs' = bs /\ stack' = stack
    BY DEF CallExit
  <2>13. ASSUME do_exit PROVE Goal
    <3>1. bs.table["Exit"] \in Shims /\ bs' = shim_fini(bs.table["Exit"], bs) /\ stack' = stack
      BY <2>13 DEF do_exit
    <3> QED
      BY <1>0, <1>f, <3>1, PlainTables
  <2>14. ASSUME FirmwareExit PROVE Goal
    <3> DEFINE n == IF Top.kind = "stage2" THEN Len(stack) - 1 ELSE Len(stack)
    <3>1. /\ phase = "run" /\ exit.dir # "none"
          /\ BackToStarter(SubSeq(stack, 1, n - 1), stack[n], exit.status, bs)
      BY <2>14 DEF FirmwareExit
    <3>2. n \in 1 .. Len(stack) /\ n - 1 \in 0 .. Len(stack)
      BY <1>0, <3>1, ExitingFrame
    <3> HIDE DEF n
    <3>3. stack[n].via = "firmware"
      BY <1>f, <3>2 DEF AllFirmware
    <3>4. bs' = bs /\ stack' = SubSeq(stack, 1, n - 1)
      BY <3>1, <3>3, PlainBack
    <3> QED
      BY <1>b, <1>f, <3>2, <3>4
  <2>15. ASSUME DoExitFailed PROVE Goal
    <3>1. Last(exit.chain) \in Shims /\ stack' = stack
          /\ (bs' = bs \/ bs' = shim_init(Last(exit.chain), bs))
      BY <2>15, LastExit DEF DoExitFailed
    <3> QED
      BY <1>0, <1>f, <3>1, PlainTables
  <2> HIDE DEF Goal
  <2> QED
    BY <1>s, <1>a, <2>1, <2>2, <2>3, <2>4, <2>5, <2>6, <2>7, <2>8, <2>9, <2>10, <2>11, <2>12,
       <2>13, <2>14, <2>15, Zenon DEF Step, Startable
<1>u. ASSUME UNCHANGED vars PROVE Goal
  BY <1>a, <1>u DEF vars
<1> QED
  BY <1>s, <1>u DEF Next

(* Whose hook a program calls.                                             *)
LEMMA InHands ==
    ASSUME stack \in Seq(Frame), NEW b \in Tables, TableInv(stack, b), SavedInv(stack, b),
           NEW x \in Hooked, NEW i, i = b.table[x], i \in Shims
    PROVE  /\ Hooks(b, i) /\ b.protocols \in {<<>>, <<i>>}
           /\ HookedBy(stack, Len(stack), i) /\ Saved(b, i)
<1>1. ~Clean(b)
  BY NamesFacts DEF Clean, Hooks
<1>2. PICK j \in Shims : Hooks(b, j) /\ b.protocols \in {<<>>, <<j>>} /\ HookedBy(stack, Len(stack), j)
  BY <1>1 DEF TableInv
<1>3. j = i
  BY <1>2 DEF Hooks
<1>4. Len(stack) \in Nat /\ Len(stack) <= Len(stack)
  OBVIOUS
<1>5. Saved(b, j)
  BY <1>2, <1>4, HookedSaved
<1> QED
  BY <1>2, <1>3, <1>5

LEMMA SavedMono ==
    ASSUME NEW s, Linked(s), NEW b, NEW h, SavedInv(s, b),
           \A j \in Shims : Saved(b, j) => Saved(h, j)
    PROVE  SavedInv(s, h)
  BY DEF SavedInv, Linked, PastInit

(* A hook that takes itself out, and puts itself and perhaps the protocol  *)
(* back.                                                                   *)
LEMMA Rehook ==
    ASSUME stack \in Seq(Frame), Linked(stack), NEW b \in Tables, SavedInv(stack, b),
           NEW i \in Shims, Saved(b, i), b.protocols \in {<<>>, <<i>>},
           HookedBy(stack, Len(stack), i),
           NEW c \in Tables, Hooks(c, "firmware"), c.saved = b.saved, c.protocols \in {<<>>, <<i>>},
           NEW h, h = hook_system_services(i, c)
    PROVE  TableInv(stack, h) /\ SavedInv(stack, h)
<1>1. /\ Hooks(h, i) /\ h.protocols = c.protocols
      /\ \A j \in Shims : j = i \/ Saved(c, j) => Saved(h, j)
  BY HookTables
<1>2. \A j \in Shims : Saved(b, j) => Saved(h, j)
  BY <1>1 DEF Saved
<1>3. TableInv(stack, h)
  BY <1>1 DEF TableInv
<1> QED
  BY <1>2, <1>3, SavedMono

LEMMA UnhookSteps ==
    ASSUME NEW b \in Tables, NEW i \in Shims, Saved(b, i), b.protocols \in {<<>>, <<i>>}
    PROVE  LET u == unhook_system_services(i, b)
               c == uninstall_shim_protocols(i, u)
               n == install_shim_protocols(i, c)
               m == install_shim_protocols(i, u)
           IN  /\ u \in Tables /\ Hooks(u, "firmware") /\ u.saved = b.saved /\ u.protocols = b.protocols
               /\ c \in Tables /\ Clean(c) /\ c.saved = b.saved
               /\ n \in Tables /\ Hooks(n, "firmware") /\ n.saved = b.saved /\ n.protocols = <<i>>
               /\ m \in Tables /\ Hooks(m, "firmware") /\ m.saved = b.saved /\ m.protocols = <<i>>
<1> DEFINE u == unhook_system_services(i, b)
           c == uninstall_shim_protocols(i, u)
           n == install_shim_protocols(i, c)
           m == install_shim_protocols(i, u)
<1>1. u \in Tables /\ Hooks(u, "firmware") /\ u.saved = b.saved /\ u.protocols = b.protocols
  BY UnhookTables, TablesType
<1> HIDE DEF u
<1>2. c \in Tables /\ c.table = u.table /\ c.saved = u.saved /\ c.protocols = <<>>
  BY <1>1, ProtocolTables, TablesType
<1>3. m \in Tables /\ m.table = u.table /\ m.saved = u.saved /\ m.protocols = <<i>>
  BY <1>1, ProtocolTables, TablesType
<1> HIDE DEF c, m
<1>4. n \in Tables /\ n.table = c.table /\ n.saved = c.saved /\ n.protocols = <<i>>
  BY <1>2, ProtocolTables, TablesType
<1> HIDE DEF n
<1>5. Clean(c) /\ Hooks(n, "firmware") /\ Hooks(m, "firmware")
  BY <1>1, <1>2, <1>3, <1>4 DEF Clean, Hooks
<1> QED
  BY <1>1, <1>2, <1>3, <1>4, <1>5 DEF u, c, n, m

(* EfiMain: the new shim's hooks replace the firmware's services.          *)
LEMMA StartHooks ==
    ASSUME stack \in Seq(Frame), stack # <<>>, Linked(stack), Distinct(stack),
           bs \in Tables, TableInv(stack, bs), SavedInv(stack, bs), ViaInv(stack),
           NEW i \in Shims, i \in VendorCerts, secure,
           Top.kind = "efi_main", Top.shim = i, Top.step = "init",
           bs' = shim_init(i, bs), stack' = [stack EXCEPT ![Len(stack)].step = "first"]
    PROVE  TableInv(stack', bs') /\ SavedInv(stack', bs') /\ ViaInv(stack')
<1>1. Len(stack) \in Nat /\ Len(stack) > 0 /\ Len(stack) \in 1 .. Len(stack) /\ Top \in Frame
  BY TopFacts
<1>2. Clean(bs)
  <2>1. \A j : ~HookedBy(stack, Len(stack), j)
    BY <1>1, HookedTop DEF PastInit, Top
  <2> QED
    BY <2>1 DEF TableInv
<1>3. /\ Hooks(bs', i) /\ bs'.protocols = <<i>>
      /\ \A j \in Shims : j = i \/ Saved(bs, j) => Saved(bs', j)
  BY <1>2, InitHooks
<1>4. "first" \in Steps /\ "efi_main" \notin Programs /\ "first" # "verify"
  BY DEF Steps, Starting, Programs
<1>5. SameFrames(stack, stack') /\ Top' = [Top EXCEPT !.step = "first"]
  BY <1>4, SetStep
<1>6. Len(stack') = Len(stack)
  BY <1>5 DEF SameFrames
<1>7. stack'[Len(stack)] = [Top EXCEPT !.step = "first"]
  BY <1>5, <1>6 DEF Top
<1>8. PastInit(stack'[Len(stack)]) /\ stack'[Len(stack)].shim = i
  BY <1>1, <1>7 DEF PastInit, Frame
<1>9. HookedBy(stack', Len(stack'), i)
  <2>1. \A l \in Len(stack) + 1 .. Len(stack) : FALSE
    BY <1>1
  <2> QED
    BY <1>1, <1>6, <1>8, <2>1 DEF HookedBy
<1>10. \A k \in 1 .. Len(stack) : \/ k = Len(stack)
                                  \/ /\ k < Len(stack) /\ (PastInit(stack'[k]) => PastInit(stack[k]))
                                     /\ stack'[k].shim = stack[k].shim
  <2> TAKE k \in 1 .. Len(stack)
  <2>1. k = Len(stack) \/ k < Len(stack)
    BY <1>1
  <2> QED
    BY <1>5, <2>1 DEF SameFrames, PastInit
<1>11. SavedInv(stack', bs')
  <2> SUFFICES ASSUME NEW k \in 1 .. Len(stack), PastInit(stack'[k])
               PROVE  Saved(bs', stack'[k].shim)
    BY <1>6 DEF SavedInv
  <2>1. CASE k = Len(stack)
    BY <1>3, <1>8, <2>1
  <2>2. CASE k < Len(stack) /\ PastInit(stack[k]) /\ stack'[k].shim = stack[k].shim
    BY <1>3, <2>2 DEF SavedInv, Linked, PastInit
  <2> QED
    BY <1>10, <2>1, <2>2
<1>12. \A n \in 0 .. Len(stack) : n \in Nat /\ Agree(stack, stack', n)
  <2> TAKE n \in 0 .. Len(stack)
  <2>1. \A k \in 1 .. n : k \in 1 .. Len(stack) /\ (k < Len(stack) \/ k = Len(stack))
    BY <1>1
  <2>2. ~PastInit(stack[Len(stack)])
    BY DEF PastInit, Top
  <2> QED
    BY <1>5, <2>1, <2>2 DEF Agree, SameFrames, PastInit
<1>13. \A n \in 0 .. Len(stack) : \A j : HookedBy(stack, n, j) => HookedBy(stack', n, j)
  BY <1>12, HookedAgree
<1>14. \A k \in 1 .. Len(stack) : k - 1 \in 0 .. Len(stack) /\ stack'[k].via = stack[k].via
  BY <1>1, <1>5 DEF SameFrames
<1>15. ViaInv(stack')
  BY <1>6, <1>13, <1>14 DEF ViaInv
<1> QED
  BY <1>3, <1>9, <1>11, <1>15 DEF TableInv

LEMMA HookStep ==
    ASSUME VendorCerts = Shims
    PROVE  TypeOK /\ FrameInv /\ Distinct(stack) /\ OutermostInv /\ HookInv /\ [Next]_vars => HookInv'
<1> SUFFICES ASSUME TypeOK, FrameInv, Distinct(stack), OutermostInv, HookInv, [Next]_vars,
                    Usual', secure', Running'
             PROVE  ~retain' /\ TableInv(stack', bs') /\ SavedInv(stack', bs') /\ ViaInv(stack')
  BY Zenon DEF HookInv, TableInv, SavedInv, ViaInv, Hooks, Saved, Clean, HookedBy, PastInit
<1> DEFINE Tabs == TableInv(stack', bs') /\ SavedInv(stack', bs') /\ ViaInv(stack')
           Goal == ~retain' /\ Tabs
<1>0. /\ bs \in Tables /\ stack \in Seq(Frame) /\ Linked(stack)
      /\ participating \in [Shims -> BOOLEAN]
  BY TypeParts DEF FrameInv, FlagsOK
<1>h. Usual /\ habits' = habits
  BY DEF Usual, Next, vars
<1>g. "retain" \notin habits /\ "stale" \notin habits /\ "refuse" \notin habits
  BY <1>h DEF Usual
<1>e. secure /\ (Running \/ FirmwareExit \/ FirmwareRefusesExit \/ DoExitFailed)
  <2> USE DEF EfiMain, EfiMainReturns, start_image, StartImageFails, ProgramReturns, CallExit,
       shim_verify, ShimVerifyReturns, SetRetain, load_network_drivers, load_image, StartImageDirect,
       replacement_start_image, ExitDirect, exit_boot_services
  <2>1. Step => secure' = secure
    BY DEF Step, do_exit, FirmwareExit, FirmwareRefusesExit, DoExitFailed
  <2>2. do_exit => exit'.dir # "none"
    <3> SUFFICES ASSUME do_exit PROVE exit'.dir # "none"
      OBVIOUS
    <3>1. exit.dir = "down" /\ exit' = [exit EXCEPT !.chain = Append(exit.chain, bs.table["Exit"])]
      BY DEF do_exit
    <3>2. exit \in [dir : {"none", "down", "up"}, chain : Seq(Shims), status : Results]
      BY TypeParts
    <3> QED
      BY <3>1, <3>2
  <2>3. Step => Running \/ FirmwareExit \/ FirmwareRefusesExit \/ DoExitFailed \/ do_exit
    BY DEF Step, InShim, InProgram, Running
  <2>4. exit'.dir = "none"
    BY DEF Running
  <2> HIDE DEF EfiMain, EfiMainReturns, start_image, StartImageFails, ProgramReturns, CallExit,
       shim_verify, ShimVerifyReturns, SetRetain, load_network_drivers, load_image, StartImageDirect,
       replacement_start_image, ExitDirect, exit_boot_services
  <2> QED
    BY <2>1, <2>2, <2>3, <2>4 DEF Next, vars, Running
<1>x. ~FirmwareExit /\ ~FirmwareRefusesExit /\ ~DoExitFailed
  <2>1. ~FirmwareExit
    BY <1>h, ExitEnds DEF Running
  <2>2. ~FirmwareRefusesExit
    BY <1>g DEF FirmwareRefusesExit
  <2>3. ~DoExitFailed
    BY <1>h DEF DoExitFailed, OutermostInv
  <2> QED
    BY <2>1, <2>2, <2>3
<1>r. /\ Running /\ stack # <<>> /\ phase = "run" /\ exit.dir = "none" /\ phase' = "run" /\ exit'.dir = "none"
  BY <1>e, <1>x DEF Running
<1>n. /\ Len(stack) \in 1 .. Len(stack) /\ Len(stack) \in Nat /\ Len(stack) > 0 /\ Top \in Frame
      /\ Front(stack) = SubSeq(stack, 1, Len(stack) - 1)
      /\ Len(stack) - 1 \in 0 .. Len(stack)
  BY <1>0, <1>r, TopFacts DEF Front
<1>i. ~retain /\ TableInv(stack, bs) /\ SavedInv(stack, bs) /\ ViaInv(stack)
  BY <1>e, <1>h, <1>r DEF HookInv
<1>y. "LoadImage" \in Hooked /\ "StartImage" \in Hooked /\ "ExitBootServices" \in Hooked
  BY DEF Hooked
<1>z. SavedInv(Front(stack), bs) /\ ViaInv(Front(stack))
      /\ \A j : HookedBy(stack, Len(stack) - 1, j) => HookedBy(Front(stack), Len(stack) - 1, j)
  BY <1>0, <1>i, <1>n, HooksPrefix
<1>f. /\ Front(stack) \in Seq(Frame) /\ Len(Front(stack)) = Len(stack) - 1
      /\ \A k \in 1 .. Len(stack) - 1 : Front(stack)[k] = stack[k]
      /\ Front(stack) = <<>> <=> Len(stack) = 1
  BY <1>0, <1>r, FrontFacts
<1>a. ASSUME stack' = stack, bs' = bs PROVE Tabs
  BY <1>a, <1>i
<1>s. ASSUME Step PROVE Goal
  <2>1. ASSUME NEW i \in Shims, EfiMain(i) PROVE Goal
    <3>1. /\ Top.kind = "efi_main" /\ Top.shim = i /\ Top.step = "init" /\ retain' = FALSE
          /\ bs' = shim_init(i, bs) /\ stack' = [stack EXCEPT ![Len(stack)].step = "first"]
      BY <1>r, <2>1 DEF EfiMain, InShim
    <3>2. Tabs
      BY <1>0, <1>e, <1>i, <1>r, <3>1, StartHooks
    <3> QED
      BY <3>1, <3>2
  <2>2. ASSUME NEW i \in Shims, EfiMainReturns(i) PROVE Goal
    <3> DEFINE b == shim_fini(i, bs)
    <3>1. /\ Top.kind = "efi_main" /\ Top.shim = i /\ Top.step = "fini" /\ retain' = retain
          /\ BackToStarter(Front(stack), Top, Top.status, b)
      BY <2>2 DEF EfiMainReturns, InShim
    <3>2. PastInit(stack[Len(stack)]) /\ Saved(bs, i)
      BY <1>i, <1>n, <3>1 DEF PastInit, SavedInv, Top
    <3>3. bs.protocols \in {<<>>, <<i>>}
      <4>1. \A j : HookedBy(stack, Len(stack), j) => j = i
        BY <1>n, <3>1, HookedTop DEF Top
      <4> QED
        BY <1>i, <4>1 DEF TableInv, Clean
    <3>4. b \in Tables
      BY <1>0, InitFiniType
    <3>5. Clean(b) /\ \A j \in Shims : Saved(bs, j) => Saved(b, j)
      BY <1>0, <1>e, <3>2, <3>3, FiniClean
    <3>6. Linked(Front(stack))
      BY <1>0, <1>n, LinkedPrefix
    <3> HIDE DEF b
    <3>7. SavedInv(Front(stack), b)
      BY <1>z, <3>5, <3>6, SavedMono
    <3>8. Tabs
      BY <1>0, <1>i, <1>r, <3>1, <3>4, <3>5, <3>7, BackHooks
    <3> QED
      BY <1>i, <3>1, <3>8
  <2>3. ASSUME NEW i \in Shims, start_image(i) PROVE Goal
    <3> DEFINE f == NewFrame("stage2", i, "firmware", FALSE, FALSE)
    <3>1. stack' = Append(stack, f) /\ bs' = bs /\ retain' = retain
      BY <2>3 DEF start_image
    <3>2. f \in Frame /\ f.step = "init" /\ f.kind # "efi_main" /\ f.via = "firmware"
      BY NewFrameType DEF NewFrame
    <3> HIDE DEF f
    <3>3. Tabs
      BY <1>0, <1>i, <3>1, <3>2, HooksPush
    <3> QED
      BY <1>i, <3>1, <3>3
  <2>4. ASSUME NEW i \in Shims, NEW r \in Results, StartImageFails(i, r) PROVE Goal
    <3>1. /\ Top.kind = "efi_main" /\ stack' = Advance(stack, r) /\ bs' = bs /\ retain' = retain
          /\ Top.step \in Starting
      BY <2>4 DEF StartImageFails, InShim
    <3>2. SameFrames(stack, stack') /\ stack'[Len(stack)].step \in Starting \cup {"fini"}
      BY <1>0, <1>r, <3>1, AdvanceLinked DEF Top
    <3>3. PastInit(stack[Len(stack)]) /\ PastInit(stack'[Len(stack)])
      BY <1>n, <3>1, <3>2 DEF PastInit, SameFrames, Top, Starting
    <3>4. Tabs
      BY <1>0, <1>i, <1>r, <3>1, <3>2, <3>3, HooksSame
    <3> QED
      BY <1>i, <3>1, <3>4
  <2>5. ASSUME NEW r \in Results, ProgramReturns(r) PROVE Goal
    <3>1. Top.kind \in Programs /\ retain' = retain /\ Top.kind # "efi_main"
      BY <2>5 DEF ProgramReturns, InProgram, Programs
    <3>2. CASE Top.kind = "stage2"
      <4>1. stack' = Advance(Front(stack), r) /\ bs' = bs
        BY <2>5, <3>2 DEF ProgramReturns
      <4>2. /\ Len(stack) > 1 /\ stack[Len(stack) - 1].kind = "efi_main"
            /\ stack[Len(stack) - 1].step \in Starting
        BY <1>0, <1>n, <3>2 DEF Linked, Top
      <4>3. Len(stack) - 1 \in 1 .. Len(stack) - 1 /\ Front(stack) # <<>>
        <5>1. Len(stack) \in Nat
          BY <1>n
        <5>2. Front(stack) = <<>> <=> Len(stack) = 1
          BY <1>f
        <5>3. \A n \in Nat : n > 1 => n - 1 \in 1 .. n - 1 /\ n # 1
          OBVIOUS
        <5>4. Len(stack) - 1 \in 1 .. Len(stack) - 1 /\ Len(stack) # 1
          BY <4>2, <5>1, <5>3, Zenon
        <5> QED
          BY <5>2, <5>4, Zenon
      <4>4. Linked(Front(stack))
        BY <1>0, <1>n, LinkedPrefix
      <4>5. /\ SameFrames(Front(stack), stack')
            /\ stack'[Len(stack) - 1].step \in Starting \cup {"fini"}
        BY <1>f, <4>1, <4>2, <4>3, <4>4, AdvanceLinked
      <4>6. stack'[Len(stack) - 1].kind = "efi_main"
        BY <1>f, <4>2, <4>3, <4>5 DEF SameFrames
      <4>7. PastInit(Front(stack)[Len(stack) - 1]) /\ PastInit(stack'[Len(stack) - 1])
        BY <1>f, <4>2, <4>3, <4>5, <4>6 DEF PastInit, Starting
      <4>8. TableInv(Front(stack), bs)
        <5>1. \A j : HookedBy(stack, Len(stack), j) => HookedBy(Front(stack), Len(stack) - 1, j)
          BY <1>n, <1>z, <3>1, HookedTop DEF Top
        <5> QED
          BY <1>f, <1>i, <5>1 DEF TableInv
      <4>9. Tabs
        BY <1>f, <1>z, <4>1, <4>3, <4>5, <4>7, <4>8, HooksSame
      <4> QED
        BY <1>i, <3>1, <4>9
    <3>3. CASE Top.kind # "stage2"
      <4>1. BackToStarter(Front(stack), Top, r, bs)
        BY <2>5, <3>3 DEF ProgramReturns
      <4>2. CASE Top.via # "firmware"
        <5>1. \A j : ~HookedBy(stack, Len(stack), j)
          BY <1>n, <3>1, <4>2, HookedTop DEF Top
        <5>2. Clean(bs)
          BY <1>i, <5>1 DEF TableInv
        <5>3. Tabs
          BY <1>0, <1>i, <1>r, <1>z, <4>1, <5>2, BackHooks
        <5> QED
          BY <1>i, <3>1, <5>3
      <4>3. CASE Top.via = "firmware"
        <5>1. bs' = bs /\ stack' = Front(stack)
          BY <4>1, <4>3, PlainBack
        <5>2. \A j : HookedBy(stack, Len(stack), j) => HookedBy(Front(stack), Len(stack) - 1, j)
          BY <1>n, <1>z, <3>1, HookedTop DEF Top
        <5>3. TableInv(Front(stack), bs)
          BY <1>f, <1>i, <5>2 DEF TableInv
        <5> QED
          BY <1>i, <1>z, <3>1, <5>1, <5>3
      <4> QED
        BY <4>2, <4>3
    <3> QED
      BY <3>2, <3>3
  <2>6. ASSUME shim_verify \/ ShimVerifyReturns PROVE Goal
    <3>1. bs' = bs /\ Top.kind # "efi_main" /\ retain' = retain
      BY <1>0, <1>n, <2>6 DEF shim_verify, ShimVerifyReturns, InProgram, Linked, Top
    <3> DEFINE x == IF ShimVerifyReturns THEN "init" ELSE IF DriversLoad THEN "verify" ELSE Top.step
    <3>2. stack' = [stack EXCEPT ![Len(stack)].step = x]
      BY <2>6 DEF shim_verify, ShimVerifyReturns, Top
    <3>3. x \in Steps /\ x \in {"init", "verify"}
      BY <2>6 DEF shim_verify, InProgram, Steps
    <3> HIDE DEF x
    <3>4. SameFrames(stack, stack')
      BY <1>0, <1>r, <3>1, <3>2, <3>3, SetStep
    <3>5. ~PastInit(stack[Len(stack)]) /\ ~PastInit(stack'[Len(stack)])
      BY <1>n, <3>1, <3>4 DEF PastInit, SameFrames, Top
    <3>6. Tabs
      BY <1>0, <1>i, <1>r, <3>1, <3>4, <3>5, HooksSame
    <3> QED
      BY <1>i, <3>1, <3>6
  <2>7. ASSUME NEW s \in Seq(Frame), s = Untrack(stack, bs.table["LoadImage"])
        PROVE  \A b : TableInv(stack, b) /\ SavedInv(stack, b) => TableInv(s, b) /\ SavedInv(s, b) /\ ViaInv(s)
    <3>1. SameFrames(stack, s) /\ s[Len(stack)].step = stack[Len(stack)].step
      BY <1>0, <1>r, <2>7, UntrackLinked
    <3>2. PastInit(stack[Len(stack)]) <=> PastInit(s[Len(stack)])
      BY <1>n, <3>1 DEF PastInit, SameFrames
    <3> QED
      BY <1>0, <1>i, <1>r, <3>1, <3>2, HooksSame
  <2>8. ASSUME NEW r \in {"ok", "error", "notfound"}, load_network_drivers(r) PROVE Goal
    <3> DEFINE i == bs.table["LoadImage"]
               u == unhook_system_services(i, bs)
               c == uninstall_shim_protocols(i, u)
               n == install_shim_protocols(i, c)
    <3>1. /\ i \in Shims /\ stack' = Untrack(stack, i) /\ retain' = retain
          /\ bs' \in {bs, c, hook_system_services(i, n)}
      BY <1>i, <1>r, <2>8 DEF load_network_drivers
    <3>2. /\ bs.protocols \in {<<>>, <<i>>} /\ HookedBy(stack, Len(stack), i) /\ Saved(bs, i)
      BY <1>0, <1>i, <1>y, <3>1, InHands
    <3>3. /\ Clean(c) /\ c.saved = bs.saved
          /\ n \in Tables /\ Hooks(n, "firmware") /\ n.saved = bs.saved /\ n.protocols = <<i>>
      BY <1>0, <3>1, <3>2, UnhookSteps
    <3> HIDE DEF c, n
    <3>4. TableInv(stack, c) /\ SavedInv(stack, c)
      BY <1>i, <3>3 DEF TableInv, SavedInv, Saved
    <3> HIDE DEF i
    <3>5. TableInv(stack, hook_system_services(i, n)) /\ SavedInv(stack, hook_system_services(i, n))
      BY <1>0, <1>i, <3>1, <3>2, <3>3, Rehook
    <3>6. TableInv(stack, bs') /\ SavedInv(stack, bs')
      BY <1>i, <3>1, <3>4, <3>5
    <3>7. stack' \in Seq(Frame)
      BY <1>0, <1>r, <3>1, UntrackLinked
    <3>8. Tabs
      BY <2>7, <3>1, <3>6, <3>7 DEF i
    <3> QED
      BY <1>i, <3>1, <3>8
  <2>9. ASSUME NEW i \in Shims, NEW x \in Hooked, i = bs.table[x],
               NEW h, h = hook_system_services(i, unhook_system_services(i, bs))
        PROVE  TableInv(stack, h) /\ SavedInv(stack, h)
    <3>1. /\ bs.protocols \in {<<>>, <<i>>} /\ HookedBy(stack, Len(stack), i) /\ Saved(bs, i)
      BY <1>0, <1>i, <2>9, InHands
    <3>2. LET u == unhook_system_services(i, bs)
          IN  u \in Tables /\ Hooks(u, "firmware") /\ u.saved = bs.saved /\ u.protocols = bs.protocols
      BY <1>0, <3>1, UnhookSteps
    <3> QED
      BY <1>0, <1>i, <2>9, <3>1, <3>2, Rehook
  <2>10. ASSUME NEW ok \in BOOLEAN, load_image(ok) PROVE Goal
    <3> DEFINE i == bs.table["LoadImage"]
    <3>1. /\ i \in Shims /\ stack' = Untrack(stack, i) /\ retain' = retain
          /\ bs' = hook_system_services(i, unhook_system_services(i, bs))
      BY <2>10 DEF load_image
    <3>2. TableInv(stack, bs') /\ SavedInv(stack, bs')
      BY <1>y, <2>9, <3>1
    <3>3. stack' \in Seq(Frame)
      BY <1>0, <1>r, <3>1, UntrackLinked
    <3>4. Tabs
      BY <2>7, <3>1, <3>2, <3>3
    <3> QED
      BY <1>i, <3>1, <3>4
  <2>11. ASSUME NEW j \in Startable, StartImageDirect(j) PROVE Goal
    <3>1. /\ bs' = bs /\ Top.kind \in Programs /\ Child(j, "firmware", FALSE) /\ retain' = retain
          /\ bs.table["StartImage"] = "firmware"
      BY <2>11 DEF StartImageDirect, InProgram, Programs
    <3>2. j \in Shims \cup {"none"} /\ "firmware" \in Shims \cup {"firmware"} /\ FALSE \in BOOLEAN
      BY DEF Startable
    <3>b. stack \in Seq(Frame) /\ stack # <<>> /\ Linked(stack) /\ Top.kind \in Programs
      BY <1>0, <1>r, <3>1
    <3>3. PICK f \in Frame : Started(f, j, "firmware")
      BY <3>1, <3>2, <3>b, ChildFacts
    <3>4. Clean(bs)
      BY <1>i, <1>y, <3>1, NamesFacts DEF TableInv, Hooks
    <3>5. Tabs
      BY <1>0, <1>i, <3>1, <3>3, <3>4, HooksPush DEF Started
    <3> QED
      BY <1>i, <3>1, <3>5
  <2>12. ASSUME NEW j \in Startable, NEW tr \in BOOLEAN, replacement_start_image(j, tr) PROVE Goal
    <3> DEFINE i == bs.table["StartImage"]
               u == unhook_system_services(i, bs)
               c == uninstall_shim_protocols(i, u)
    <3>1. /\ i \in Shims /\ Top.kind \in Programs /\ Child(j, i, tr) /\ retain' = retain
          /\ tr /\ bs' = c
      BY <1>g, <1>i, <2>12 DEF replacement_start_image, InProgram, Programs
    <3>2. /\ bs.protocols \in {<<>>, <<i>>} /\ HookedBy(stack, Len(stack), i) /\ Saved(bs, i)
      BY <1>0, <1>i, <1>y, <3>1, InHands
    <3>3. Clean(c) /\ c.saved = bs.saved
      BY <1>0, <3>1, <3>2, UnhookSteps
    <3> HIDE DEF c, i
    <3>4. TableInv(stack, bs') /\ SavedInv(stack, bs') /\ Clean(bs')
      BY <1>i, <3>1, <3>3 DEF TableInv, SavedInv, Saved
    <3>5. j \in Shims \cup {"none"} /\ i \in Shims \cup {"firmware"}
      BY <3>1 DEF Startable
    <3>b. stack \in Seq(Frame) /\ stack # <<>> /\ Linked(stack) /\ Top.kind \in Programs
      BY <1>0, <1>r, <3>1
    <3>6. PICK f \in Frame : Started(f, j, i)
      BY <3>1, <3>5, <3>b, ChildFacts
    <3>7. Tabs
      BY <1>0, <1>i, <3>1, <3>2, <3>4, <3>6, HooksPush DEF Started
    <3> QED
      BY <1>i, <3>1, <3>7
  <2>13. ~SetRetain /\ ~ExitDirect /\ ~do_exit /\ \A r : ~CallExit(r)
    <3>1. ~SetRetain
      BY <1>g DEF SetRetain
    <3>2. ~ExitDirect /\ ~do_exit
      BY <1>r DEF ExitDirect, do_exit
    <3>3. ASSUME NEW r, CallExit(r) PROVE FALSE
      <4>1. exit' = [dir |-> "down", chain |-> <<>>, status |-> r]
        BY <3>3 DEF CallExit
      <4> QED
        BY <1>r, <4>1
    <3> QED
      BY <3>1, <3>2, <3>3
  <2>14. ASSUME exit_boot_services PROVE Goal
    <3> DEFINE i == bs.table["ExitBootServices"]
    <3>1. /\ i \in Shims /\ stack' = stack /\ retain' = retain
          /\ bs' = hook_system_services(i, unhook_system_services(i, bs))
      BY <1>r, <2>14 DEF exit_boot_services
    <3>2. TableInv(stack, bs') /\ SavedInv(stack, bs')
      BY <1>y, <2>9, <3>1
    <3> QED
      BY <1>i, <3>1, <3>2
  <2> HIDE DEF Goal
  <2> QED
    BY <1>s, <1>x, <2>1, <2>2, <2>3, <2>4, <2>5, <2>6, <2>8, <2>10, <2>11, <2>12, <2>13, <2>14,
       Zenon DEF Step, Startable
<1>u. ASSUME UNCHANGED vars PROVE Goal
  BY <1>a, <1>i, <1>u DEF vars
<1> QED
  BY <1>s, <1>u DEF Next

(* However shims start and leave each other, a program that calls shim is  *)
(* heard by the shim whose hooks are in the table.  Every shim of the boot *)
(* has certificates of its own: one that has none installs its protocol    *)
(* without hooks, and then a shim nested in it hooks while the first       *)
(* protocol is the other's.                                                *)
LEMMA ProtocolIsOfTheHooks ==
    ASSUME VendorCerts = Shims
    PROVE  Spec => []ProtocolMatchesHooks
<1>1. Init => Distinct(stack) /\ OutermostInv /\ PlainInv /\ HookInv
  <2> SUFFICES ASSUME Init PROVE Distinct(stack) /\ OutermostInv /\ PlainInv /\ HookInv
    OBVIOUS
  <2>1. PICK f \in BOOLEAN : stack = <<NewFrame("efi_main", First, "firmware", FALSE, f)>>
    BY DEF Init
  <2>2. Len(stack) = 1 /\ stack[1].step = "init" /\ stack[1].via = "firmware"
    BY <2>1 DEF NewFrame
  <2>3. \A k \in 1 .. Len(stack) : k = 1
    BY <2>2
  <2>5. Clean(bs)
    BY NamesFacts DEF Init, Clean, Hooks
  <2>6. TableInv(stack, bs) /\ SavedInv(stack, bs) /\ ViaInv(stack)
    BY <2>2, <2>3, <2>5 DEF TableInv, SavedInv, ViaInv, PastInit
  <2>7. PlainInv /\ HookInv
    BY <2>2, <2>3, <2>5, <2>6 DEF PlainInv, HookInv, Clean, Init
  <2> QED
    BY <2>3, <2>7 DEF Init, NoExit, Distinct, OutermostInv
<1>2. TypeOK /\ FrameInv /\ Distinct(stack) /\ [Next]_vars => Distinct(stack)'
  BY DistinctStep DEF Distinct
<1>3. TypeOK /\ FrameInv /\ OutermostInv /\ [Next]_vars => OutermostInv'
  BY OutermostStep
<1>4. TypeOK /\ ExitShape /\ FrameInv /\ PlainInv /\ [Next]_vars => PlainInv'
  BY PlainStep
<1>5. TypeOK /\ FrameInv /\ Distinct(stack) /\ OutermostInv /\ HookInv /\ [Next]_vars => HookInv'
  BY HookStep
<1>6. PlainInv /\ HookInv => ProtocolMatchesHooks
  <2> SUFFICES ASSUME PlainInv, HookInv,
                      Usual, InProgram, bs.table["ExitBootServices"] \in Shims, bs.protocols # <<>>
               PROVE  Head(bs.protocols) = bs.table["ExitBootServices"]
    BY DEF ProtocolMatchesHooks
  <2>1. "ExitBootServices" \in Hooked
    BY DEF Hooked
  <2>2. ~Hooks(bs, "firmware") /\ secure
    BY <2>1, NamesFacts DEF Hooks, PlainInv
  <2>3. TableInv(stack, bs)
    BY <2>2 DEF HookInv, InProgram
  <2>4. PICK j \in Shims : Hooks(bs, j) /\ bs.protocols \in {<<>>, <<j>>}
    BY <2>2, <2>3 DEF TableInv, Clean
  <2>5. bs.table["ExitBootServices"] = j /\ bs.protocols = <<j>>
    BY <2>1, <2>4 DEF Hooks
  <2> QED
    BY <2>5
<1> QED
  BY <1>1, <1>2, <1>3, <1>4, <1>5, <1>6, BaseHolds, PTL DEF Spec

---------------------------------------------------------------------------
(* Where the pointers lead                                                 *)

LEMMA RemoveFacts ==
    ASSUME NEW S, NEW s \in Seq(S), NEW k \in 1 .. Len(s)
    PROVE  /\ Len(RemoveAt(s, k)) = Len(s) - 1
           /\ \A j \in 1 .. Len(s) - 1 : RemoveAt(s, k)[j] = IF j < k THEN s[j] ELSE s[j + 1]
<1> DEFINE a == SubSeq(s, 1, k - 1)
           b == SubSeq(s, k + 1, Len(s))
<1>1. k \in Nat /\ 1 <= k /\ k <= Len(s) /\ Len(s) \in Nat
  OBVIOUS
<1>2. /\ a \in Seq(S) /\ Len(a) = k - 1 /\ \A j \in 1 .. k - 1 : a[j] = s[j]
  BY <1>1
<1>3. /\ b \in Seq(S) /\ Len(b) = Len(s) - k /\ \A j \in 1 .. Len(s) - k : b[j] = s[k + j]
  BY <1>1
<1>4. RemoveAt(s, k) = a \o b
  BY DEF RemoveAt
<1> HIDE DEF a, b
<1>5. /\ Len(a \o b) = Len(s) - 1
      /\ \A j \in 1 .. Len(s) - 1 : (a \o b)[j] = IF j <= k - 1 THEN a[j] ELSE b[j - (k - 1)]
  <2>1. /\ Len(a \o b) = Len(a) + Len(b)
        /\ \A j \in 1 .. Len(a) + Len(b) : (a \o b)[j] = IF j <= Len(a) THEN a[j] ELSE b[j - Len(a)]
    BY <1>2, <1>3, ConcatProperties
  <2>2. Len(a) + Len(b) = Len(s) - 1
    BY <1>1, <1>2, <1>3
  <2> QED
    BY <1>2, <2>1, <2>2
<1>6. ASSUME NEW j \in 1 .. Len(s) - 1
      PROVE  RemoveAt(s, k)[j] = IF j < k THEN s[j] ELSE s[j + 1]
  <2>1. CASE j < k
    <3>1. j \in 1 .. k - 1 /\ j <= k - 1
      BY <1>1, <2>1
    <3> QED
      BY <1>2, <1>4, <1>5, <2>1, <3>1
  <2>2. CASE ~(j < k)
    <3>1. j - (k - 1) \in 1 .. Len(s) - k /\ k + (j - (k - 1)) = j + 1 /\ ~(j <= k - 1)
      BY <1>1, <2>2
    <3> QED
      BY <1>3, <1>4, <1>5, <2>2, <3>1
  <2> QED
    BY <2>1, <2>2
<1> QED
  BY <1>4, <1>5, <1>6

(* A protocol is installed once, so uninstalling it leaves none.           *)
LEMMA WithoutFacts ==
    ASSUME NEW s \in Seq(Shims), NEW i, IsInjective(s)
    PROVE  /\ IsInjective(Without(s, i))
           /\ Range(Without(s, i)) = Range(s) \ {i}
<1>0. Len(s) \in Nat /\ DOMAIN s = 1 .. Len(s)
  OBVIOUS
<1>i. \A l, m \in 1 .. Len(s) : s[l] = s[m] => l = m
  BY <1>0 DEF IsInjective
<1>1. CASE \E k \in DOMAIN s : s[k] = i
  <2> DEFINE k == CHOOSE k \in DOMAIN s : s[k] = i
             t == RemoveAt(s, k)
  <2>1. k \in 1 .. Len(s) /\ s[k] = i
    BY <1>1
  <2>2. Without(s, i) = t
    BY <1>1 DEF Without
  <2> HIDE DEF k
  <2>3. /\ Len(t) = Len(s) - 1
        /\ \A j \in 1 .. Len(s) - 1 : t[j] = IF j < k THEN s[j] ELSE s[j + 1]
    BY <2>1, RemoveFacts
  <2>4. t \in Seq(Shims)
    BY <2>2, WithoutType
  <2> HIDE DEF t
  <2>5. DOMAIN t = 1 .. Len(s) - 1
    BY <2>3, <2>4
  <2>6. ASSUME NEW l \in 1 .. Len(s) - 1, NEW m \in 1 .. Len(s) - 1, t[l] = t[m]
        PROVE  l = m
    <3>1. \A j \in 1 .. Len(s) - 1 : j \in 1 .. Len(s) /\ j + 1 \in 1 .. Len(s)
      BY <1>0
    <3>2. (IF l < k THEN l ELSE l + 1) = (IF m < k THEN m ELSE m + 1)
      BY <1>i, <2>3, <2>6, <3>1
    <3> QED
      BY <1>0, <2>1, <3>2
  <2>7. IsInjective(t)
    BY <2>5, <2>6 DEF IsInjective
  <2>8. ASSUME NEW x \in Range(t) PROVE x \in Range(s) \ {i}
    <3>1. PICK j \in 1 .. Len(s) - 1 : x = t[j]
      BY <2>5 DEF Range
    <3>2. PICK m \in 1 .. Len(s) : x = s[m] /\ m # k
      <4>1. CASE j < k
        <5>1. j \in 1 .. Len(s) /\ j # k
          BY <1>0, <2>1, <4>1
        <5> QED
          BY <2>3, <3>1, <4>1, <5>1
      <4>2. CASE ~(j < k)
        <5>1. j + 1 \in 1 .. Len(s) /\ j + 1 # k
          BY <1>0, <2>1, <4>2
        <5> QED
          BY <2>3, <3>1, <4>2, <5>1
      <4> QED
        BY <4>1, <4>2
    <3> QED
      BY <1>i, <2>1, <3>2 DEF Range
  <2>9. ASSUME NEW x \in Range(s), x # i PROVE x \in Range(t)
    <3>1. PICK m \in 1 .. Len(s) : x = s[m]
      BY DEF Range
    <3>2. m # k
      BY <2>1, <2>9, <3>1
    <3>3. CASE m < k
      <4>1. m \in 1 .. Len(s) - 1
        BY <1>0, <2>1, <3>3
      <4>2. x = t[m]
        BY <2>3, <3>1, <3>3, <4>1
      <4> QED
        BY <2>5, <4>1, <4>2 DEF Range
    <3>4. CASE m > k
      <4>1. m - 1 \in 1 .. Len(s) - 1 /\ ~(m - 1 < k) /\ m - 1 + 1 = m
        BY <1>0, <2>1, <3>4
      <4>2. x = t[m - 1]
        BY <2>3, <3>1, <4>1
      <4> QED
        BY <2>5, <4>1, <4>2 DEF Range
    <3> QED
      BY <1>0, <2>1, <3>2, <3>3, <3>4
  <2> QED
    BY <2>2, <2>7, <2>8, <2>9
<1>2. CASE ~\E k \in DOMAIN s : s[k] = i
  BY <1>2 DEF Without, Range
<1> QED
  BY <1>1, <1>2

LEMMA AppendOne ==
    ASSUME NEW s \in Seq(Shims), NEW i \in Shims, IsInjective(s), i \notin Range(s)
    PROVE  IsInjective(Append(s, i)) /\ Range(Append(s, i)) = Range(s) \cup {i}
<1> DEFINE t == Append(s, i)
           n == Len(s)
<1>1. n \in Nat /\ DOMAIN s = 1 .. n /\ DOMAIN t = 1 .. n + 1
      /\ (\A k \in 1 .. n : t[k] = s[k]) /\ t[n + 1] = i
  OBVIOUS
<1> HIDE DEF t, n
<1>2. \A k \in 1 .. n + 1 : k \in 1 .. n \/ k = n + 1
  BY <1>1
<1>3. \A k \in 1 .. n : k \in 1 .. n + 1 /\ s[k] # i
  BY <1>1 DEF Range
<1>4. n + 1 \in 1 .. n + 1
  BY <1>1
<1>5. ASSUME NEW k \in 1 .. n + 1, NEW l \in 1 .. n + 1, t[k] = t[l] PROVE k = l
  <2>1. CASE k \in 1 .. n /\ l \in 1 .. n
    BY <1>1, <1>5, <2>1 DEF IsInjective
  <2>2. CASE k = n + 1 \/ l = n + 1
    BY <1>1, <1>2, <1>3, <1>5, <2>2
  <2> QED
    BY <1>2, <2>1, <2>2
<1>6. Range(t) = Range(s) \cup {i}
  BY <1>1, <1>2, <1>3, <1>4 DEF Range
<1>7. IsInjective(t)
  BY <1>1, <1>5 DEF IsInjective
<1> QED
  BY <1>6, <1>7 DEF t

(* What the operations do to the Exit pointers and to the protocols.       *)
SameExit(b, h) ==
    /\ h.table["Exit"] = b.table["Exit"]
    /\ \A j \in Shims : h.saved[j]["Exit"] = b.saved[j]["Exit"]

LEMMA ServicesExit ==
    ASSUME NEW b \in Tables, NEW i \in Shims
    PROVE  LET h == hook_system_services(i, b)
               u == unhook_system_services(i, b)
           IN  /\ SameExit(b, h) /\ h.protocols = b.protocols
               /\ SameExit(b, u) /\ u.protocols = b.protocols
<1> USE NamesFacts
<1> DEFINE h == hook_system_services(i, b)
           u == unhook_system_services(i, b)
<1>1. /\ h.table = [x \in Services |-> IF x \in Hooked THEN i ELSE b.table[x]]
      /\ h.saved[i] = [x \in Services |-> IF x \in Hooked THEN b.table[x] ELSE b.saved[i][x]]
      /\ \A j \in Shims : j # i => h.saved[j] = b.saved[j]
      /\ h.protocols = b.protocols
  BY DEF hook_system_services, Tables
<1>2. /\ u.table = [x \in Services |-> IF x \in Hooked THEN b.saved[i][x] ELSE b.table[x]]
      /\ u.protocols = b.protocols /\ u.saved = b.saved
  BY DEF unhook_system_services, Tables
<1> HIDE DEF h, u
<1>3. SameExit(b, h)
  <2>1. \A j \in Shims : h.saved[j]["Exit"] = b.saved[j]["Exit"]
    <3> TAKE j \in Shims
    <3> QED
      BY <1>1
  <2> QED
    BY <1>1, <2>1 DEF SameExit
<1>4. SameExit(b, u)
  BY <1>2 DEF SameExit
<1> QED
  BY <1>1, <1>2, <1>3, <1>4 DEF h, u

LEMMA ProtocolSets ==
    ASSUME NEW b \in Tables, NEW i \in Shims, IsInjective(b.protocols)
    PROVE  LET u == uninstall_shim_protocols(i, b)  n == install_shim_protocols(i, b)
           IN  /\ u.table = b.table /\ u.saved = b.saved
               /\ IsInjective(u.protocols) /\ Range(u.protocols) = Range(b.protocols) \ {i}
               /\ n.table = b.table /\ n.saved = b.saved
               /\ IsInjective(n.protocols) /\ Range(n.protocols) = Range(b.protocols) \cup {i}
<1> DEFINE u == uninstall_shim_protocols(i, b)
<1>0. b.protocols \in Seq(Shims)
  BY DEF Tables
<1>1. u.table = b.table /\ u.saved = b.saved /\ u.protocols = Without(b.protocols, i)
  BY DEF uninstall_shim_protocols, Tables
<1>2. /\ IsInjective(u.protocols) /\ Range(u.protocols) = Range(b.protocols) \ {i}
      /\ u \in Tables /\ u.protocols \in Seq(Shims)
  BY <1>0, <1>1, WithoutFacts, WithoutType, TablesType
<1> HIDE DEF u
<1>3. install_shim_protocols(i, b) = [u EXCEPT !.protocols = Append(u.protocols, i)]
  BY DEF install_shim_protocols, u
<1>4. /\ IsInjective(Append(u.protocols, i))
      /\ Range(Append(u.protocols, i)) = Range(b.protocols) \cup {i}
  <2>1. /\ IsInjective(Append(u.protocols, i))
        /\ Range(Append(u.protocols, i)) = Range(u.protocols) \cup {i}
    BY <1>2, AppendOne
  <2> QED
    BY <1>2, <2>1
<1>5. LET n == install_shim_protocols(i, b)
      IN n.table = u.table /\ n.saved = u.saved /\ n.protocols = Append(u.protocols, i)
  BY <1>2, <1>3 DEF Tables
<1> QED
  BY <1>1, <1>2, <1>4, <1>5 DEF u

LEMMA ExitPointers ==
    ASSUME NEW b \in Tables, NEW i \in Shims
    PROVE  LET h == hook_exit(i, b)  u == unhook_exit(i, b)
           IN  /\ h.table["Exit"] = i /\ h.saved[i]["Exit"] = b.table["Exit"]
               /\ \A j \in Shims : j # i => h.saved[j]["Exit"] = b.saved[j]["Exit"]
               /\ u.table["Exit"] = b.saved[i]["Exit"] /\ u.saved = b.saved
<1> USE NamesFacts
<1>0. b.table \in [Services -> Pointer] /\ b.saved \in [Shims -> [Services -> Pointer]]
  BY DEF Tables
<1> DEFINE h == hook_exit(i, b)
           u == unhook_exit(i, b)
<1>1. /\ h.table = [b.table EXCEPT !["Exit"] = i]
      /\ h.saved = [b.saved EXCEPT ![i] = [b.saved[i] EXCEPT !["Exit"] = b.table["Exit"]]]
  BY DEF hook_exit, Tables
<1>2. u.table = [b.table EXCEPT !["Exit"] = b.saved[i]["Exit"]] /\ u.saved = b.saved
  BY DEF unhook_exit, Tables
<1> HIDE DEF h, u
<1>3. h.saved[i] = [b.saved[i] EXCEPT !["Exit"] = b.table["Exit"]]
      /\ \A j \in Shims : j # i => h.saved[j] = b.saved[j]
  BY <1>0, <1>1
<1>4. b.saved[i] \in [Services -> Pointer]
  BY <1>0
<1> QED
  BY <1>0, <1>1, <1>2, <1>3, <1>4 DEF h, u

(* shim_init and shim_fini as a whole, for a shim with certificates.       *)
LEMMA InitPointers ==
    ASSUME NEW b \in Tables, NEW i \in Shims, i \in VendorCerts, secure \in BOOLEAN,
           Hooks(b, "firmware"), IsInjective(b.protocols)
    PROVE  LET h == shim_init(i, b)
           IN  /\ IF secure THEN Hooks(h, i) ELSE Hooks(h, "firmware")
               /\ secure => \A j \in Shims : j = i \/ Saved(b, j) => Saved(h, j)
               /\ h.table["Exit"] = i /\ h.saved[i]["Exit"] = b.table["Exit"]
               /\ \A j \in Shims : j # i => h.saved[j]["Exit"] = b.saved[j]["Exit"]
               /\ IsInjective(h.protocols) /\ Range(h.protocols) = Range(b.protocols) \cup {i}
<1> DEFINE c == IF secure THEN hook_system_services(i, b) ELSE b
           d == hook_exit(i, c)
<1>1. /\ c \in Tables /\ c.protocols = b.protocols /\ SameExit(b, c)
      /\ IF secure THEN Hooks(c, i) ELSE Hooks(c, "firmware")
      /\ secure => \A j \in Shims : j = i \/ Saved(b, j) => Saved(c, j)
  <2>1. CASE secure
    <3>1. c = hook_system_services(i, b)
      BY <2>1
    <3> QED
      BY <2>1, <3>1, HookTables, TablesType, ServicesExit
  <2>2. CASE ~secure
    <3>1. c = b
      BY <2>2
    <3> QED
      BY <2>2, <3>1 DEF SameExit
  <2> QED
    BY <2>1, <2>2
<1>2. shim_init(i, b) = install_shim_protocols(i, d)
  BY DEF shim_init
<1> HIDE DEF c
<1>3. /\ d \in Tables /\ d.protocols = c.protocols
      /\ \A x \in Hooked : d.table[x] = c.table[x]
      /\ \A j \in Shims : \A x \in Hooked : d.saved[j][x] = c.saved[j][x]
  BY <1>1, ExitTables
<1>4. /\ d.table["Exit"] = i /\ d.saved[i]["Exit"] = c.table["Exit"]
      /\ \A j \in Shims : j # i => d.saved[j]["Exit"] = c.saved[j]["Exit"]
  BY <1>1, ExitPointers
<1> HIDE DEF d
<1>5. LET n == install_shim_protocols(i, d)
      IN  /\ n.table = d.table /\ n.saved = d.saved
          /\ IsInjective(n.protocols) /\ Range(n.protocols) = Range(d.protocols) \cup {i}
  BY <1>1, <1>3, ProtocolSets
<1> DEFINE h == shim_init(i, b)
<1>6. /\ h.table = d.table /\ h.saved = d.saved
      /\ IsInjective(h.protocols) /\ Range(h.protocols) = Range(b.protocols) \cup {i}
  BY <1>1, <1>2, <1>3, <1>5
<1> HIDE DEF h
<1>7. /\ h.table["Exit"] = i /\ h.saved[i]["Exit"] = b.table["Exit"]
      /\ \A j \in Shims : j # i => h.saved[j]["Exit"] = b.saved[j]["Exit"]
  BY <1>1, <1>4, <1>6 DEF SameExit
<1>8. IF secure THEN Hooks(h, i) ELSE Hooks(h, "firmware")
  BY <1>1, <1>3, <1>6 DEF Hooks
<1>9. secure => \A j \in Shims : j = i \/ Saved(b, j) => Saved(h, j)
  BY <1>1, <1>3, <1>6 DEF Saved
<1> QED
  BY <1>6, <1>7, <1>8, <1>9 DEF h

LEMMA FiniPointers ==
    ASSUME NEW b \in Tables, NEW i \in Shims, IsInjective(b.protocols),
           IF secure THEN Saved(b, i) ELSE Hooks(b, "firmware")
    PROVE  LET h == shim_fini(i, b)
           IN  /\ Hooks(h, "firmware") /\ \A j \in Shims : Saved(b, j) => Saved(h, j)
               /\ h.table["Exit"] = b.saved[i]["Exit"]
               /\ \A j \in Shims : h.saved[j]["Exit"] = b.saved[j]["Exit"]
               /\ IsInjective(h.protocols) /\ Range(h.protocols) = Range(b.protocols) \ {i}
<1> DEFINE u == uninstall_shim_protocols(i, b)
           v == IF secure THEN unhook_system_services(i, u) ELSE u
<1>1. /\ u \in Tables /\ u.table = b.table /\ u.saved = b.saved
      /\ IsInjective(u.protocols) /\ Range(u.protocols) = Range(b.protocols) \ {i}
  BY ProtocolSets, TablesType
<1>2. shim_fini(i, b) = unhook_exit(i, v)
  BY DEF shim_fini
<1> HIDE DEF u
<1>3. /\ v \in Tables /\ Hooks(v, "firmware") /\ v.protocols = u.protocols /\ v.saved = u.saved
  <2>1. CASE secure
    <3>1. Saved(u, i)
      BY <1>1, <2>1 DEF Saved
    <3>2. v = unhook_system_services(i, u)
      BY <2>1
    <3> QED
      BY <1>1, <3>1, <3>2, UnhookTables, TablesType
  <2>2. CASE ~secure
    <3>1. v = u
      BY <2>2
    <3> QED
      BY <1>1, <2>2, <3>1 DEF Hooks
  <2> QED
    BY <2>1, <2>2
<1> HIDE DEF v
<1> DEFINE h == unhook_exit(i, v)
<1>4. /\ h.protocols = v.protocols
      /\ \A x \in Hooked : h.table[x] = v.table[x]
      /\ h.table["Exit"] = v.saved[i]["Exit"] /\ h.saved = v.saved
  BY <1>3, ExitTables, ExitPointers
<1> HIDE DEF h
<1>5. Hooks(h, "firmware") /\ \A j \in Shims : Saved(b, j) => Saved(h, j)
  BY <1>1, <1>3, <1>4 DEF Hooks, Saved
<1>6. /\ h.table["Exit"] = b.saved[i]["Exit"]
      /\ \A j \in Shims : h.saved[j]["Exit"] = b.saved[j]["Exit"]
      /\ IsInjective(h.protocols) /\ Range(h.protocols) = Range(b.protocols) \ {i}
  BY <1>1, <1>3, <1>4
<1>7. shim_fini(i, b) = h
  BY <1>2 DEF h
<1> QED
  BY <1>5, <1>6, <1>7

(* p lists, from the top, the frames of the shims between shim_init and    *)
(* shim_fini: Exit leads from each of them to the next, and from the last  *)
(* one to the firmware.                                                    *)
ExitPath(s, b, n, p) ==
    /\ \A k \in 1 .. n : PastInit(s[p[k]]) /\ p[k] + k >= n + 1
    /\ \A k \in 1 .. n : \A l \in 1 .. n : k < l => p[l] < p[k]
    /\ \A m \in 1 .. Len(s) : PastInit(s[m]) => \E k \in 1 .. n : p[k] = m
    /\ b.table["Exit"] = IF n = 0 THEN "firmware" ELSE s[p[1]].shim
    /\ \A k \in 1 .. n : b.saved[s[p[k]].shim]["Exit"] =
                             IF k = n THEN "firmware" ELSE s[p[k + 1]].shim
ExitInv(s, b) == \E n \in Nat : \E p \in [1 .. n -> 1 .. Len(s)] : ExitPath(s, b, n, p)

(* The protocols are of those shims, each there once.                      *)
Waits(s) == {s[k].shim : k \in {l \in 1 .. Len(s) : PastInit(s[l])}}
ProtInv(s, b) == IsInjective(b.protocols) /\ Range(b.protocols) \subseteq Waits(s)

(* The same shims wait at the same places.                                 *)
SameWaits(s, t) ==
    /\ \A k \in 1 .. Len(s) : PastInit(s[k]) =>
          k \in 1 .. Len(t) /\ PastInit(t[k]) /\ t[k].shim = s[k].shim
    /\ \A k \in 1 .. Len(t) : PastInit(t[k]) => k \in 1 .. Len(s) /\ PastInit(s[k])

LEMMA WaitsShims == ASSUME NEW s, Linked(s) PROVE Waits(s) \subseteq Shims
  BY DEF Waits, Linked, PastInit

LEMMA WaitsEqual ==
    ASSUME NEW s, NEW t, SameWaits(s, t)
    PROVE  Waits(t) = Waits(s)
  BY DEF Waits, SameWaits

LEMMA ExitSame ==
    ASSUME NEW s, NEW t, SameWaits(s, t), Linked(s), NEW b, NEW h, SameExit(b, h), ExitInv(s, b)
    PROVE  ExitInv(t, h)
<1>1. PICK n \in Nat : \E p \in [1 .. n -> 1 .. Len(s)] : ExitPath(s, b, n, p)
  BY DEF ExitInv
<1>2. PICK p \in [1 .. n -> 1 .. Len(s)] : ExitPath(s, b, n, p)
  BY <1>1
<1>3. \A k \in 1 .. n : /\ p[k] \in 1 .. Len(s) /\ PastInit(s[p[k]]) /\ p[k] + k >= n + 1
                        /\ p[k] \in 1 .. Len(t) /\ PastInit(t[p[k]])
                        /\ t[p[k]].shim = s[p[k]].shim /\ s[p[k]].shim \in Shims
  <2> TAKE k \in 1 .. n
  <2>1. p[k] \in 1 .. Len(s) /\ PastInit(s[p[k]]) /\ p[k] + k >= n + 1
    BY <1>2 DEF ExitPath
  <2> QED
    BY <2>1 DEF SameWaits, Linked, PastInit
<1>4. p \in [1 .. n -> 1 .. Len(t)]
  BY <1>3
<1>5. \A m \in 1 .. Len(t) : PastInit(t[m]) => \E k \in 1 .. n : p[k] = m
  BY <1>2 DEF ExitPath, SameWaits
<1>6. h.table["Exit"] = IF n = 0 THEN "firmware" ELSE t[p[1]].shim
  <2>1. h.table["Exit"] = IF n = 0 THEN "firmware" ELSE s[p[1]].shim
    BY <1>2 DEF ExitPath, SameExit
  <2>2. n # 0 => 1 \in 1 .. n
    OBVIOUS
  <2> QED
    BY <1>3, <2>1, <2>2
<1>7. ASSUME NEW k \in 1 .. n
      PROVE  h.saved[t[p[k]].shim]["Exit"] = IF k = n THEN "firmware" ELSE t[p[k + 1]].shim
  <2>1. h.saved[s[p[k]].shim]["Exit"] = IF k = n THEN "firmware" ELSE s[p[k + 1]].shim
    BY <1>2, <1>3 DEF ExitPath, SameExit
  <2>2. k # n => k + 1 \in 1 .. n
    OBVIOUS
  <2> QED
    BY <1>3, <2>1, <2>2
<1>8. ExitPath(t, h, n, p)
  BY <1>2, <1>3, <1>5, <1>6, <1>7 DEF ExitPath
<1> QED
  BY <1>4, <1>8 DEF ExitInv

(* The shim of the last frame goes past shim_init.                         *)
LEMMA ExitStarts ==
    ASSUME NEW s \in Seq(Frame), s # <<>>, Linked(s), Distinct(s), NEW t, SameFrames(s, t),
           ~PastInit(s[Len(s)]), PastInit(t[Len(s)]), NEW i \in Shims, s[Len(s)].shim = i,
           s[Len(s)].kind = "efi_main", NEW b, NEW h,
           h.table["Exit"] = i, h.saved[i]["Exit"] = b.table["Exit"],
           \A j \in Shims : j # i => h.saved[j]["Exit"] = b.saved[j]["Exit"]
    PROVE  /\ ExitInv(s, b) => ExitInv(t, h)
           /\ Waits(t) = Waits(s) \cup {i}
<1> DEFINE N == Len(s)
<1>1. N \in Nat /\ N > 0 /\ Len(t) = N /\ N \in 1 .. N
  BY EmptySeq DEF SameFrames
<1>2. \A k \in 1 .. N : /\ t[k].shim = s[k].shim
                        /\ k # N => (PastInit(t[k]) <=> PastInit(s[k]))
                        /\ k # N /\ PastInit(s[k]) => s[k].shim # i /\ s[k].shim \in Shims
  <2> TAKE k \in 1 .. N
  <2>1. t[k].shim = s[k].shim
    BY DEF SameFrames
  <2>2. k # N => (PastInit(t[k]) <=> PastInit(s[k]))
    <3>1. k # N => k < Len(s)
      BY <1>1
    <3> QED
      BY <3>1 DEF SameFrames, PastInit
  <2>3. k # N /\ PastInit(s[k]) => s[k].shim # i /\ s[k].shim \in Shims
    BY <1>1 DEF Distinct, Linked, PastInit
  <2> QED
    BY <2>1, <2>2, <2>3
<1>t. PastInit(t[N]) /\ ~PastInit(s[N]) /\ s[N].shim = i
  OBVIOUS
<1>w. Waits(t) = Waits(s) \cup {i}
  BY <1>1, <1>2, <1>t DEF Waits
<1>e. ASSUME ExitInv(s, b) PROVE ExitInv(t, h)
  <2>1. PICK n \in Nat : \E p \in [1 .. n -> 1 .. N] : ExitPath(s, b, n, p)
    BY <1>e DEF ExitInv
  <2>2. PICK p \in [1 .. n -> 1 .. N] : ExitPath(s, b, n, p)
    BY <2>1
  <2> HIDE DEF N
  <2>3. \A k \in 1 .. n : /\ p[k] \in 1 .. N /\ p[k] # N /\ PastInit(s[p[k]]) /\ p[k] + k >= n + 1
                          /\ p[k] < N
    <3> TAKE k \in 1 .. n
    <3>1. p[k] \in 1 .. N /\ PastInit(s[p[k]]) /\ p[k] + k >= n + 1
      BY <2>2 DEF ExitPath
    <3>2. p[k] # N
      BY <1>t, <3>1
    <3> QED
      BY <1>1, <3>1, <3>2
  <2> DEFINE q == [k \in 1 .. n + 1 |-> IF k = 1 THEN N ELSE p[k - 1]]
  <2>4. \A k \in 1 .. n + 1 : k = 1 \/ k - 1 \in 1 .. n
    OBVIOUS
  <2>5. q \in [1 .. n + 1 -> 1 .. N]
    BY <1>1, <2>3, <2>4
  <2>6. q[1] = N /\ \A k \in 1 .. n : k + 1 \in 1 .. n + 1 /\ q[k + 1] = p[k]
    OBVIOUS
  <2>7. \A k \in 1 .. n + 1 : k # 1 => k - 1 \in 1 .. n /\ q[k] = p[k - 1]
    OBVIOUS
  <2> HIDE DEF q
  <2>8. \A k \in 1 .. n + 1 : PastInit(t[q[k]]) /\ q[k] + k >= n + 2
    <3> TAKE k \in 1 .. n + 1
    <3>1. CASE k = 1
      <4>1. n = 0 \/ 1 \in 1 .. n
        OBVIOUS
      <4>2. N >= n + 1
        BY <1>1, <2>3, <4>1
      <4> QED
        BY <1>1, <1>t, <2>6, <3>1, <4>2
    <3>2. CASE k # 1
      <4>1. k - 1 \in 1 .. n /\ q[k] = p[k - 1]
        BY <2>7, <3>2
      <4>2. PastInit(s[q[k]]) /\ q[k] + (k - 1) >= n + 1 /\ q[k] \in 1 .. N /\ q[k] # N
        BY <2>3, <4>1
      <4>3. q[k] + k >= n + 2
        BY <1>1, <4>2
      <4> QED
        BY <1>2, <4>2, <4>3
    <3> QED
      BY <3>1, <3>2
  <2>9. ASSUME NEW k \in 1 .. n + 1, NEW l \in 1 .. n + 1, k < l PROVE q[l] < q[k]
    <3>1. l # 1 /\ l - 1 \in 1 .. n /\ q[l] = p[l - 1]
      BY <2>7, <2>9
    <3>2. CASE k = 1
      BY <2>3, <2>6, <3>1, <3>2
    <3>3. CASE k # 1
      <4>1. k - 1 \in 1 .. n /\ q[k] = p[k - 1] /\ k - 1 < l - 1
        BY <2>7, <2>9, <3>3
      <4> QED
        BY <2>2, <3>1, <4>1 DEF ExitPath
    <3> QED
      BY <3>2, <3>3
  <2>10. ASSUME NEW m \in 1 .. N, PastInit(t[m]) PROVE \E k \in 1 .. n + 1 : q[k] = m
    <3>1. CASE m = N
      BY <2>6, <3>1
    <3>2. CASE m # N
      <4>1. PastInit(s[m])
        BY <1>2, <2>10, <3>2
      <4>2. PICK k \in 1 .. n : p[k] = m
        BY <2>2, <4>1 DEF ExitPath, N
      <4> QED
        BY <2>6, <4>2
    <3> QED
      BY <3>1, <3>2
  <2>11. h.table["Exit"] = t[q[1]].shim
    BY <1>1, <1>2, <1>t, <2>6
  <2>12. ASSUME NEW k \in 1 .. n + 1
         PROVE  h.saved[t[q[k]].shim]["Exit"] = IF k = n + 1 THEN "firmware" ELSE t[q[k + 1]].shim
    <3>1. CASE k = 1
      <4>1. h.saved[t[q[k]].shim]["Exit"] = IF n = 0 THEN "firmware" ELSE s[p[1]].shim
        BY <1>1, <1>2, <1>t, <2>2, <2>6, <3>1 DEF ExitPath
      <4>2. n # 0 => 1 \in 1 .. n /\ q[2] = p[1] /\ s[p[1]].shim = t[p[1]].shim
        <5>1. n # 0 => 1 \in 1 .. n
          OBVIOUS
        <5> QED
          BY <1>2, <2>3, <2>6, <5>1
      <4> QED
        BY <3>1, <4>1, <4>2
    <3>2. CASE k # 1
      <4> DEFINE m == k - 1
      <4>1. m \in 1 .. n /\ q[k] = p[m] /\ (k = n + 1 <=> m = n)
        BY <2>7, <3>2
      <4> HIDE DEF m
      <4>2. s[p[m]].shim # i /\ s[p[m]].shim \in Shims /\ t[p[m]].shim = s[p[m]].shim
        BY <1>2, <2>3, <4>1
      <4>3. h.saved[t[q[k]].shim]["Exit"] = IF m = n THEN "firmware" ELSE s[p[m + 1]].shim
        <5>1. h.saved[s[p[m]].shim]["Exit"] = b.saved[s[p[m]].shim]["Exit"]
          BY <4>2
        <5>2. b.saved[s[p[m]].shim]["Exit"] = IF m = n THEN "firmware" ELSE s[p[m + 1]].shim
          BY <2>2, <4>1 DEF ExitPath
        <5>3. t[q[k]].shim = s[p[m]].shim
          BY <4>1, <4>2
        <5> QED
          BY <5>1, <5>2, <5>3
      <4>4. m # n => m + 1 \in 1 .. n /\ m + 1 = k /\ q[k + 1] = p[k] /\ s[p[k]].shim = t[p[k]].shim
        <5>1. m # n => m + 1 \in 1 .. n /\ m + 1 = k
          BY <4>1 DEF m
        <5>2. m # n => q[k + 1] = p[k]
          BY <2>6, <5>1
        <5> QED
          BY <1>2, <2>3, <5>1, <5>2
      <4> QED
        BY <4>1, <4>3, <4>4
    <3> QED
      BY <3>1, <3>2
  <2>13. ExitPath(t, h, n + 1, q)
    BY <1>1, <2>8, <2>9, <2>10, <2>11, <2>12 DEF ExitPath
  <2>14. n + 1 \in Nat
    OBVIOUS
  <2> QED
    BY <1>1, <2>5, <2>13, <2>14 DEF ExitInv
<1> QED
  BY <1>w, <1>e

(* The shim of the last frame has run shim_fini and is taken off.          *)
LEMMA ExitLeaves ==
    ASSUME NEW s \in Seq(Frame), s # <<>>, Linked(s), Distinct(s),
           PastInit(s[Len(s)]), NEW i \in Shims, s[Len(s)].shim = i, NEW b, NEW h,
           h.table["Exit"] = b.saved[i]["Exit"],
           \A j \in Shims : h.saved[j]["Exit"] = b.saved[j]["Exit"]
    PROVE  /\ ExitInv(s, b) => ExitInv(Front(s), h)
           /\ Waits(Front(s)) = Waits(s) \ {i}
<1> DEFINE N == Len(s)
           t == Front(s)
<1>1. /\ N \in Nat /\ N > 0 /\ Len(t) = N - 1 /\ N \in 1 .. N
      /\ \A k \in 1 .. N - 1 : k \in 1 .. N /\ t[k] = s[k] /\ k # N
  BY FrontFacts, EmptySeq
<1> HIDE DEF t
<1>2. \A k \in 1 .. N : k # N => k \in 1 .. N - 1
  BY <1>1
<1>3. \A k \in 1 .. N - 1 : PastInit(s[k]) => s[k].shim # i /\ s[k].shim \in Shims
  <2> TAKE k \in 1 .. N - 1
  <2>1. k \in 1 .. Len(s) /\ k # Len(s)
    BY <1>1
  <2> QED
    BY <1>1, <2>1 DEF Distinct, Linked, PastInit
<1>t. PastInit(s[N]) /\ s[N].shim = i
  OBVIOUS
<1>w. Waits(t) = Waits(s) \ {i}
  <2>1. \A x : x \in Waits(t) <=> \E k \in 1 .. N - 1 : PastInit(t[k]) /\ x = t[k].shim
    BY <1>1 DEF Waits
  <2>2. \A x : x \in Waits(s) <=> \E k \in 1 .. N : PastInit(s[k]) /\ x = s[k].shim
    BY DEF Waits
  <2> HIDE DEF N
  <2>3. \A x : x \in Waits(t) => x \in Waits(s) /\ x # i
    BY <1>1, <1>3, <2>1, <2>2
  <2>4. \A x : x \in Waits(s) /\ x # i => x \in Waits(t)
    BY <1>1, <1>2, <1>t, <2>1, <2>2
  <2> QED
    BY <2>3, <2>4
<1>e. ASSUME ExitInv(s, b) PROVE ExitInv(t, h)
  <2>1. PICK n \in Nat : \E p \in [1 .. n -> 1 .. N] : ExitPath(s, b, n, p)
    BY <1>e DEF ExitInv
  <2>2. PICK p \in [1 .. n -> 1 .. N] : ExitPath(s, b, n, p)
    BY <2>1
  <2>3. \A k \in 1 .. n : p[k] \in 1 .. N /\ PastInit(s[p[k]]) /\ p[k] + k >= n + 1
    BY <2>2 DEF ExitPath
  <2>4. \A k \in 1 .. n : \A l \in 1 .. n : k < l => p[l] < p[k]
    BY <2>2 DEF ExitPath
  <2>5. \A m \in 1 .. N : PastInit(s[m]) => \E k \in 1 .. n : p[k] = m
    BY <2>2 DEF ExitPath
  <2> HIDE DEF N
  <2>6. n > 0 /\ p[1] = N /\ 1 \in 1 .. n
    <3>1. PICK k \in 1 .. n : p[k] = N
      BY <1>1, <1>t, <2>5
    <3>2. 1 \in 1 .. n /\ (k = 1 \/ 1 < k)
      OBVIOUS
    <3>3. 1 < k => p[k] < p[1]
      BY <2>4, <3>2
    <3>4. k = 1
      BY <1>1, <2>3, <3>1, <3>2, <3>3
    <3> QED
      BY <3>1, <3>2, <3>4
  <2> DEFINE q == [k \in 1 .. n - 1 |-> p[k + 1]]
  <2>7. \A k \in 1 .. n - 1 : k + 1 \in 1 .. n /\ q[k] = p[k + 1] /\ 1 < k + 1
    OBVIOUS
  <2>8. \A k \in 1 .. n - 1 : /\ q[k] \in 1 .. N - 1 /\ q[k] \in 1 .. N /\ q[k] + (k + 1) >= n + 1
                              /\ PastInit(s[q[k]]) /\ t[q[k]] = s[q[k]]
    <3> TAKE k \in 1 .. n - 1
    <3>1. k + 1 \in 1 .. n /\ q[k] = p[k + 1] /\ 1 < k + 1
      BY <2>7
    <3>2. q[k] \in 1 .. N /\ PastInit(s[q[k]]) /\ q[k] + (k + 1) >= n + 1
      BY <2>3, <3>1
    <3>3. q[k] < N
      BY <2>4, <2>6, <3>1
    <3>4. q[k] \in 1 .. N - 1
      BY <1>1, <3>2, <3>3
    <3> QED
      BY <1>1, <3>2, <3>4
  <2>9. q \in [1 .. n - 1 -> 1 .. N - 1]
    <3>1. \A k \in 1 .. n - 1 : p[k + 1] \in 1 .. N - 1
      BY <2>7, <2>8
    <3> QED
      BY <3>1
  <2> HIDE DEF q
  <2>10. \A k \in 1 .. n - 1 : PastInit(t[q[k]]) /\ q[k] + k >= (n - 1) + 1
    <3> TAKE k \in 1 .. n - 1
    <3>1. q[k] + k >= (n - 1) + 1
      BY <1>1, <2>8
    <3> QED
      BY <2>8, <3>1
  <2>11. ASSUME NEW k \in 1 .. n - 1, NEW l \in 1 .. n - 1, k < l PROVE q[l] < q[k]
    <3>1. k + 1 < l + 1
      BY <2>11
    <3> QED
      BY <2>4, <2>7, <3>1
  <2>12. ASSUME NEW m \in 1 .. N - 1, PastInit(t[m]) PROVE \E k \in 1 .. n - 1 : q[k] = m
    <3>1. m \in 1 .. N /\ PastInit(s[m]) /\ m # N
      BY <1>1, <2>12
    <3>2. PICK k \in 1 .. n : p[k] = m
      BY <2>5, <3>1
    <3>3. k # 1
      BY <2>6, <3>1, <3>2
    <3>4. k - 1 \in 1 .. n - 1 /\ (k - 1) + 1 = k
      BY <3>3
    <3>5. q[k - 1] = m
      BY <2>7, <3>2, <3>4
    <3> QED
      BY <3>4, <3>5
  <2>13. \A k \in 1 .. n : b.saved[s[p[k]].shim]["Exit"] =
                               IF k = n THEN "firmware" ELSE s[p[k + 1]].shim
    BY <2>2 DEF ExitPath
  <2>14. h.table["Exit"] = IF n - 1 = 0 THEN "firmware" ELSE t[q[1]].shim
    <3>1. h.table["Exit"] = IF 1 = n THEN "firmware" ELSE s[p[2]].shim
      <4>1. s[p[1]].shim = i /\ 1 + 1 = 2
        BY <1>t, <2>6
      <4> QED
        BY <2>6, <2>13, <4>1
    <3>2. n # 1 => 1 \in 1 .. n - 1
      BY <2>6
    <3>3. n # 1 => q[1] = p[2] /\ t[q[1]] = s[q[1]]
      BY <2>7, <2>8, <3>2
    <3> QED
      BY <2>6, <3>1, <3>3
  <2>15. ASSUME NEW k \in 1 .. n - 1
         PROVE  h.saved[t[q[k]].shim]["Exit"] = IF k = n - 1 THEN "firmware" ELSE t[q[k + 1]].shim
    <3>1. k + 1 \in 1 .. n /\ q[k] = p[k + 1] /\ (k = n - 1 <=> k + 1 = n)
      BY <2>7
    <3>2. s[q[k]].shim \in Shims /\ t[q[k]] = s[q[k]]
      BY <1>3, <2>8
    <3>3. h.saved[t[q[k]].shim]["Exit"] = b.saved[s[p[k + 1]].shim]["Exit"]
      BY <3>1, <3>2
    <3>4. b.saved[s[p[k + 1]].shim]["Exit"] = IF k + 1 = n THEN "firmware" ELSE s[p[(k + 1) + 1]].shim
      BY <2>13, <3>1
    <3>5. k # n - 1 => k + 1 \in 1 .. n - 1
      OBVIOUS
    <3>6. k # n - 1 => q[k + 1] = p[(k + 1) + 1] /\ t[q[k + 1]] = s[q[k + 1]]
      BY <2>7, <2>8, <3>5
    <3> QED
      BY <3>1, <3>3, <3>4, <3>6
  <2>16. ExitPath(t, h, n - 1, q)
    BY <1>1, <2>10, <2>11, <2>12, <2>14, <2>15 DEF ExitPath
  <2>17. n - 1 \in Nat
    BY <2>6
  <2> QED
    BY <1>1, <2>9, <2>16, <2>17 DEF ExitInv
<1> QED
  BY <1>w, <1>e DEF t

HooksInv(s, b) ==
    Hooks(b, "firmware") \/ \E j \in Shims : Hooks(b, j) /\ HookedBy(s, Len(s), j)

(* Every pointer is of a shim that waits.                                  *)
Own(s, b) ==
    /\ HooksInv(s, b) /\ ViaInv(s) /\ (secure => SavedInv(s, b))
    /\ ExitInv(s, b) /\ ProtInv(s, b)

LEMMA SameExitRefl == \A b : SameExit(b, b)
  BY DEF SameExit

LEMMA SameWaitsFacts ==
    ASSUME NEW s \in Seq(Frame), NEW t, SameFrames(s, t), s # <<>>,
           PastInit(s[Len(s)]) <=> PastInit(t[Len(s)])
    PROVE  SameWaits(s, t)
<1>1. Len(s) \in Nat /\ Len(t) = Len(s)
  BY DEF SameFrames
<1>2. \A k \in 1 .. Len(s) : t[k].shim = s[k].shim /\ (PastInit(s[k]) <=> PastInit(t[k]))
  <2> TAKE k \in 1 .. Len(s)
  <2>1. k = Len(s) \/ k < Len(s)
    BY <1>1
  <2> QED
    BY <2>1 DEF SameFrames, PastInit
<1> QED
  BY <1>1, <1>2 DEF SameWaits

LEMMA OwnSame ==
    ASSUME NEW s \in Seq(Frame), s # <<>>, Linked(s), NEW t, SameFrames(s, t),
           PastInit(s[Len(s)]) <=> PastInit(t[Len(s)]), NEW b, Own(s, b)
    PROVE  Own(t, b)
<1>1. SameWaits(s, t)
  BY SameWaitsFacts
<1>2. ExitInv(t, b) /\ ProtInv(t, b)
  BY <1>1, ExitSame, SameExitRefl, WaitsEqual DEF Own, ProtInv
<1>3. ViaInv(t) /\ (secure => SavedInv(t, b))
  BY HooksSame DEF Own
<1>4. Len(s) \in Nat /\ Len(t) = Len(s)
  BY DEF SameFrames
<1>5. Agree(s, t, Len(s))
  BY <1>1, <1>4 DEF Agree, SameFrames, SameWaits
<1>6. HooksInv(t, b)
  BY <1>4, <1>5, HookedAgree DEF Own, HooksInv
<1> QED
  BY <1>2, <1>3, <1>6 DEF Own

LEMMA OwnPush ==
    ASSUME NEW s \in Seq(Frame), Linked(s), NEW f \in Frame, f.step = "init", NEW b, Own(s, b),
           f.via # "firmware" => f.via \in Shims /\ HookedBy(s, Len(s), f.via),
           Hooks(b, "firmware") \/ (f.kind # "efi_main" /\ f.via = "firmware")
    PROVE  Own(Append(s, f), b)
<1> DEFINE t == Append(s, f)
           n == Len(s)
<1>1. Len(t) = n + 1 /\ n \in Nat /\ (\A k \in 1 .. n : t[k] = s[k]) /\ t[n + 1] = f
  BY PushFacts
<1>2. ViaInv(t) /\ (secure => SavedInv(t, b))
  BY HooksPush DEF Own
<1> HIDE DEF t
<1>3. SameWaits(s, t)
  <2>1. \A k \in 1 .. n : k \in 1 .. n + 1
    BY <1>1
  <2>2. \A k \in 1 .. n + 1 : k \in 1 .. n \/ k = n + 1
    BY <1>1
  <2> QED
    BY <1>1, <2>1, <2>2 DEF SameWaits, PastInit
<1>4. ExitInv(t, b) /\ ProtInv(t, b)
  BY <1>3, ExitSame, SameExitRefl, WaitsEqual DEF Own, ProtInv
<1>5. HooksInv(t, b)
  <2>1. CASE Hooks(b, "firmware")
    BY <2>1 DEF HooksInv
  <2>2. CASE ~Hooks(b, "firmware")
    <3>1. PICK j \in Shims : Hooks(b, j) /\ HookedBy(s, n, j)
      BY <2>2 DEF Own, HooksInv
    <3>2. Agree(s, t, n)
      BY <1>1 DEF Agree
    <3>3. HookedBy(t, n + 1, j)
      BY <1>1, <2>2, <3>1, <3>2, HookedAgree, HookedPush
    <3> QED
      BY <1>1, <3>1, <3>3 DEF HooksInv
  <2> QED
    BY <2>1, <2>2
<1> QED
  BY <1>2, <1>4, <1>5 DEF Own, t

LEMMA OwnTables ==
    ASSUME NEW s, Linked(s), NEW b, NEW h, Own(s, b), SameExit(b, h), HooksInv(s, h),
           secure => \A j \in Shims : Saved(b, j) => Saved(h, j),
           IsInjective(h.protocols), Range(h.protocols) \subseteq Waits(s)
    PROVE  Own(s, h)
<1>1. SameWaits(s, s)
  BY DEF SameWaits
<1>2. ExitInv(s, h)
  BY <1>1, ExitSame DEF Own
<1>3. secure => SavedInv(s, h)
  BY SavedMono DEF Own
<1> QED
  BY <1>2, <1>3 DEF Own, ProtInv

LEMMA HookedWaits ==
    ASSUME NEW s, NEW n \in Nat, n <= Len(s), Len(s) \in Nat, NEW j, HookedBy(s, n, j)
    PROVE  j \in Waits(s)
<1>1. PICK m \in 1 .. n : PastInit(s[m]) /\ s[m].shim = j
  BY DEF HookedBy
<1>2. m \in 1 .. Len(s)
  BY <1>1
<1> QED
  BY <1>1, <1>2 DEF Waits

(* What a hook of shim i does while the table is the firmware's.           *)
LEMMA OwnMoves ==
    ASSUME NEW s \in Seq(Frame), Linked(s), NEW b \in Tables, Own(s, b), Hooks(b, "firmware"),
           NEW i \in Shims, HookedBy(s, Len(s), i)
    PROVE  LET u == uninstall_shim_protocols(i, b)
               n == install_shim_protocols(i, b)
               h == hook_system_services(i, b)
           IN  /\ u \in Tables /\ Own(s, u) /\ Hooks(u, "firmware")
               /\ n \in Tables /\ Own(s, n) /\ Hooks(n, "firmware")
               /\ h \in Tables /\ Own(s, h)
<1> DEFINE u == uninstall_shim_protocols(i, b)
           n == install_shim_protocols(i, b)
           h == hook_system_services(i, b)
<1>0. IsInjective(b.protocols) /\ Range(b.protocols) \subseteq Waits(s) /\ i \in Waits(s)
  BY HookedWaits DEF Own, ProtInv
<1>1. /\ u \in Tables /\ n \in Tables /\ h \in Tables
      /\ u.table = b.table /\ u.saved = b.saved
      /\ IsInjective(u.protocols) /\ Range(u.protocols) = Range(b.protocols) \ {i}
      /\ n.table = b.table /\ n.saved = b.saved
      /\ IsInjective(n.protocols) /\ Range(n.protocols) = Range(b.protocols) \cup {i}
  BY <1>0, ProtocolSets, TablesType
<1>2. /\ SameExit(b, h) /\ h.protocols = b.protocols /\ Hooks(h, i)
      /\ \A j \in Shims : j = i \/ Saved(b, j) => Saved(h, j)
  BY ServicesExit, HookTables
<1> HIDE DEF u, n, h
<1>3. Hooks(u, "firmware") /\ Hooks(n, "firmware") /\ SameExit(b, u) /\ SameExit(b, n)
      /\ \A j \in Shims : Saved(b, j) => Saved(u, j) /\ Saved(n, j)
  BY <1>1 DEF Hooks, Saved, SameExit
<1>4. HooksInv(s, u) /\ HooksInv(s, n) /\ HooksInv(s, h)
  BY <1>2, <1>3 DEF HooksInv
<1>5. /\ Range(u.protocols) \subseteq Waits(s) /\ Range(n.protocols) \subseteq Waits(s)
      /\ Range(h.protocols) \subseteq Waits(s) /\ IsInjective(h.protocols)
  BY <1>0, <1>1, <1>2
<1>6. Own(s, u) /\ Own(s, n) /\ Own(s, h)
  BY <1>1, <1>2, <1>3, <1>4, <1>5, OwnTables
<1> QED
  BY <1>1, <1>3, <1>6 DEF u, n, h

(* A hook that is called is of a shim that waits; it takes itself out.     *)
LEMMA OwnCalled ==
    ASSUME NEW s \in Seq(Frame), Linked(s), NEW b \in Tables, Own(s, b),
           ~secure => Hooks(b, "firmware"),
           NEW x \in Hooked, NEW i \in Shims, i = b.table[x]
    PROVE  LET u == unhook_system_services(i, b)
           IN  /\ HookedBy(s, Len(s), i) /\ secure
               /\ u \in Tables /\ Own(s, u) /\ Hooks(u, "firmware")
<1> DEFINE u == unhook_system_services(i, b)
<1>1. ~Hooks(b, "firmware")
  BY NamesFacts DEF Hooks
<1>2. PICK j \in Shims : Hooks(b, j) /\ HookedBy(s, Len(s), j)
  BY <1>1 DEF Own, HooksInv
<1>3. j = i
  BY <1>2 DEF Hooks
<1>4. secure
  BY <1>1
<1>5. Len(s) \in Nat /\ Len(s) <= Len(s)
  OBVIOUS
<1>6. Saved(b, i)
  BY <1>2, <1>3, <1>4, <1>5, HookedSaved DEF Own
<1>7. /\ u \in Tables /\ Hooks(u, "firmware") /\ u.saved = b.saved /\ SameExit(b, u)
      /\ u.protocols = b.protocols
  BY <1>6, UnhookTables, ServicesExit, TablesType
<1> HIDE DEF u
<1>8. Own(s, u)
  <2>1. \A k \in Shims : Saved(b, k) => Saved(u, k)
    BY <1>7 DEF Saved
  <2>2. HooksInv(s, u)
    BY <1>7 DEF HooksInv
  <2>3. IsInjective(u.protocols) /\ Range(u.protocols) \subseteq Waits(s)
    BY <1>7 DEF Own, ProtInv
  <2> QED
    BY <1>7, <2>1, <2>2, <2>3, OwnTables
<1> QED
  BY <1>2, <1>3, <1>4, <1>7, <1>8 DEF u

(* A program ends.                                                         *)
LEMMA OwnFront ==
    ASSUME NEW s \in Seq(Frame), s # <<>>, Linked(s), s[Len(s)].kind # "efi_main", NEW b, Own(s, b)
    PROVE  Own(Front(s), b) /\ (s[Len(s)].via # "firmware" => Hooks(b, "firmware"))
<1> DEFINE n == Len(s)
           t == Front(s)
<1>1. /\ n \in Nat /\ n > 0 /\ Len(t) = n - 1 /\ t = SubSeq(s, 1, n - 1) /\ n - 1 \in 0 .. Len(s)
      /\ n - 1 \in Nat /\ \A k \in 1 .. n - 1 : t[k] = s[k]
  BY FrontFacts, EmptySeq DEF Front
<1>2. /\ ViaInv(s) => ViaInv(t)
      /\ SavedInv(s, b) => SavedInv(t, b)
      /\ \A j : HookedBy(s, n - 1, j) => HookedBy(t, n - 1, j)
  BY <1>1, HooksPrefix
<1> HIDE DEF t
<1>3. SameWaits(s, t)
  <2>1. \A k \in 1 .. n : k \in 1 .. n - 1 \/ k = n
    BY <1>1
  <2>2. \A k \in 1 .. n - 1 : k \in 1 .. n
    BY <1>1
  <2> QED
    BY <1>1, <2>1, <2>2 DEF SameWaits, PastInit
<1>4. ExitInv(t, b) /\ ProtInv(t, b)
  BY <1>3, ExitSame, SameExitRefl, WaitsEqual DEF Own, ProtInv
<1>5. \A j : HookedBy(s, n, j) => s[n].via = "firmware" /\ HookedBy(s, n - 1, j)
  BY <1>1, HookedTop
<1>6. HooksInv(t, b)
  BY <1>1, <1>2, <1>5 DEF Own, HooksInv
<1>7. s[n].via # "firmware" => Hooks(b, "firmware")
  BY <1>5 DEF Own, HooksInv
<1> QED
  BY <1>2, <1>4, <1>6, <1>7 DEF Own, t

(* The end of efi_main, before control goes back to the starter.           *)
LEMMA OwnLeaves ==
    ASSUME NEW s \in Seq(Frame), s # <<>>, Linked(s), Distinct(s), NEW b \in Tables, Own(s, b),
           PastInit(s[Len(s)]), NEW i \in Shims, s[Len(s)].shim = i,
           ~secure => Hooks(b, "firmware")
    PROVE  LET h == shim_fini(i, b)
           IN  h \in Tables /\ Own(Front(s), h) /\ Hooks(h, "firmware")
<1> DEFINE n == Len(s)
           t == Front(s)
           h == shim_fini(i, b)
<1>1. /\ n \in Nat /\ n > 0 /\ n \in 1 .. n /\ Len(t) = n - 1 /\ t = SubSeq(s, 1, n - 1)
      /\ n - 1 \in 0 .. Len(s)
  BY FrontFacts, EmptySeq DEF Front
<1>2. secure => Saved(b, i)
  BY <1>1 DEF Own, SavedInv
<1>3. /\ h \in Tables /\ Hooks(h, "firmware") /\ \A j \in Shims : Saved(b, j) => Saved(h, j)
      /\ h.table["Exit"] = b.saved[i]["Exit"]
      /\ \A j \in Shims : h.saved[j]["Exit"] = b.saved[j]["Exit"]
      /\ IsInjective(h.protocols) /\ Range(h.protocols) = Range(b.protocols) \ {i}
  BY <1>2, FiniPointers, InitFiniType DEF Own, ProtInv
<1> HIDE DEF h
<1>4. ExitInv(t, h) /\ Waits(t) = Waits(s) \ {i}
  <2>1. ExitInv(s, b)
    BY DEF Own
  <2>2. /\ h.table["Exit"] = b.saved[i]["Exit"]
        /\ \A j \in Shims : h.saved[j]["Exit"] = b.saved[j]["Exit"]
    BY <1>3
  <2> QED
    BY <2>1, <2>2, ExitLeaves
<1>5. ViaInv(t) /\ (secure => SavedInv(s, h))
  <2>1. /\ SavedInv(s, h) => SavedInv(SubSeq(s, 1, n - 1), h)
        /\ ViaInv(s) => ViaInv(SubSeq(s, 1, n - 1))
    BY <1>1, HooksPrefix
  <2>2. secure => SavedInv(s, h)
    BY <1>3, SavedMono DEF Own
  <2> QED
    BY <1>1, <2>1, <2>2 DEF Own
<1>6. secure => SavedInv(t, h)
  BY <1>1, <1>5, HooksPrefix
<1>7. ProtInv(t, h)
  BY <1>3, <1>4 DEF Own, ProtInv
<1>8. HooksInv(t, h)
  BY <1>3 DEF HooksInv
<1> QED
  BY <1>3, <1>4, <1>5, <1>6, <1>7, <1>8 DEF Own, h

(* The start of efi_main: what was hooked before has been taken out by the *)
(* hook it was started through, or was never there.                        *)
LEMMA OwnStarts ==
    ASSUME NEW s \in Seq(Frame), s # <<>>, Linked(s), Distinct(s), NEW b \in Tables, Own(s, b),
           NEW t, SameFrames(s, t), NEW i \in Shims, i \in VendorCerts, secure \in BOOLEAN,
           s[Len(s)].kind = "efi_main", s[Len(s)].shim = i, s[Len(s)].step = "init",
           PastInit(t[Len(s)])
    PROVE  Own(t, shim_init(i, b))
<1> DEFINE N == Len(s)
           h == shim_init(i, b)
<1>1. N \in Nat /\ N > 0 /\ N \in 1 .. N /\ Len(t) = N /\ N \in 0 .. N
  BY EmptySeq DEF SameFrames
<1>2. ~PastInit(s[N])
  BY DEF PastInit
<1>3. Hooks(b, "firmware")
  <2>1. \A j : ~HookedBy(s, N, j)
    BY <1>1, <1>2, HookedTop
  <2> QED
    BY <2>1 DEF Own, HooksInv
<1>4. /\ IF secure THEN Hooks(h, i) ELSE Hooks(h, "firmware")
      /\ secure => \A j \in Shims : j = i \/ Saved(b, j) => Saved(h, j)
      /\ h.table["Exit"] = i /\ h.saved[i]["Exit"] = b.table["Exit"]
      /\ \A j \in Shims : j # i => h.saved[j]["Exit"] = b.saved[j]["Exit"]
      /\ IsInjective(h.protocols) /\ Range(h.protocols) = Range(b.protocols) \cup {i}
  BY <1>3, InitPointers DEF Own, ProtInv
<1> HIDE DEF h
<1>5. ExitInv(t, h) /\ Waits(t) = Waits(s) \cup {i}
  BY <1>2, <1>4, ExitStarts DEF Own
<1>6. ProtInv(t, h)
  BY <1>4, <1>5 DEF Own, ProtInv
<1>7. \A k \in 1 .. N : /\ t[k].shim = s[k].shim /\ t[k].via = s[k].via /\ t[k].kind = s[k].kind
                        /\ k # N => (PastInit(t[k]) <=> PastInit(s[k]))
  <2> TAKE k \in 1 .. N
  <2>1. k # N => k < Len(s)
    BY <1>1
  <2> QED
    BY <2>1 DEF SameFrames, PastInit
<1>8. secure => SavedInv(t, h)
  <2> SUFFICES ASSUME secure, NEW k \in 1 .. N, PastInit(t[k]) PROVE Saved(h, t[k].shim)
    BY <1>1 DEF SavedInv
  <2>1. CASE k = N
    BY <1>4, <1>7, <2>1
  <2>2. CASE k # N
    <3>1. PastInit(s[k]) /\ s[k].shim \in Shims /\ Saved(b, s[k].shim)
      BY <1>7, <2>2 DEF Own, SavedInv, Linked, PastInit
    <3> QED
      BY <1>4, <1>7, <3>1
  <2> QED
    BY <2>1, <2>2
<1>9. \A n \in 0 .. N : n \in Nat /\ Agree(s, t, n)
  <2> TAKE n \in 0 .. N
  <2>1. \A k \in 1 .. n : k \in 1 .. N
    BY <1>1
  <2> QED
    BY <1>2, <1>7, <2>1 DEF Agree
<1>10. ViaInv(t)
  <2>1. \A k \in 1 .. N : k - 1 \in 0 .. N
    BY <1>1
  <2>2. \A n \in 0 .. N : \A j : HookedBy(s, n, j) => HookedBy(t, n, j)
    BY <1>9, HookedAgree
  <2> QED
    BY <1>1, <1>7, <2>1, <2>2 DEF Own, ViaInv
<1>11. HookedBy(t, N, i)
  <2>1. \A l \in N + 1 .. N : FALSE
    BY <1>1
  <2> QED
    BY <1>1, <1>7, <2>1 DEF HookedBy
<1>12. HooksInv(t, h)
  BY <1>1, <1>4, <1>11 DEF HooksInv
<1> QED
  BY <1>5, <1>6, <1>8, <1>10, <1>12 DEF Own, h

(* Back at the starter, whose hook goes on when there was one.             *)
LEMMA OwnBack ==
    ASSUME stack \in Seq(Frame), stack # <<>>, Linked(stack), ViaInv(stack),
           NEW b \in Tables, Own(Front(stack), b), Top.via # "firmware" => Hooks(b, "firmware"),
           NEW r, BackToStarter(Front(stack), Top, r, b), participating \in [Shims -> BOOLEAN]
    PROVE  Own(stack', bs')
<1> DEFINE low == Front(stack)
           v == Top.via
<1>1. /\ Len(stack) \in Nat /\ Len(stack) \in 1 .. Len(stack) /\ Top \in Frame
      /\ low = SubSeq(stack, 1, Len(stack) - 1) /\ Len(stack) - 1 \in 0 .. Len(stack)
  BY TopFacts DEF Front
<1>2. stack' = low
  BY <1>1, BackFacts
<1>3. Len(low) = Len(stack) - 1 /\ low \in Seq(Frame) /\ Linked(low)
  BY <1>1, FrontFacts, LinkedPrefix
<1>4. v # "firmware" => v \in Shims /\ HookedBy(low, Len(low), v)
  <2>1. v # "firmware" => v \in Shims /\ HookedBy(stack, Len(stack) - 1, v)
    BY <1>1 DEF ViaInv, Top
  <2>2. \A j : HookedBy(stack, Len(stack) - 1, j) => HookedBy(low, Len(low), j)
    BY <1>1, <1>3, HooksPrefix
  <2> QED
    BY <2>1, <2>2
<1>5. \/ bs' = b
      \/ v # "firmware" /\ bs' = hook_system_services(v, b)
      \/ v # "firmware" /\ bs' = hook_system_services(v, install_shim_protocols(v, b))
  BY DEF BackToStarter
<1> HIDE DEF low
<1>6. ASSUME v # "firmware"
      PROVE  /\ Own(low, hook_system_services(v, b))
             /\ Own(low, hook_system_services(v, install_shim_protocols(v, b)))
  <2>1. Hooks(b, "firmware") /\ v \in Shims /\ HookedBy(low, Len(low), v) /\ Own(low, b)
    BY <1>4, <1>6 DEF low
  <2> HIDE DEF v
  <2>2. LET n == install_shim_protocols(v, b)
        IN  n \in Tables /\ Own(low, n) /\ Hooks(n, "firmware")
    BY <1>3, <2>1, OwnMoves
  <2> QED
    BY <1>3, <2>1, <2>2, OwnMoves
<1> QED
  BY <1>2, <1>5, <1>6 DEF low

---------------------------------------------------------------------------
(* Exit() is called over the first shim only, which takes everything out   *)
(* and, refused by the firmware, puts it back.                             *)
OwnInv ==
    /\ exit.dir # "none" => Len(stack) = 2
    /\ exit.chain = <<>> => Own(stack, bs)
    /\ exit.chain # <<>> =>
          /\ exit.dir # "none" /\ exit.chain = <<First>>
          /\ ViaInv(stack) /\ (secure => SavedInv(stack, bs)) /\ Hooks(bs, "firmware")
          /\ bs.table["Exit"] = "firmware" /\ bs.protocols = <<>>

LEMMA ExitTwo ==
    ASSUME NEW s, Len(s) = 2, PastInit(s[1]), ~PastInit(s[2]), s[1].shim = First
    PROVE  \A b : ExitInv(s, b) <=> b.table["Exit"] = First /\ b.saved[First]["Exit"] = "firmware"
<1> TAKE b
<1>0. 1 \in 1 .. 2 /\ 2 \in 1 .. 2 /\ \A k \in 1 .. 2 : k = 1 \/ k = 2
  OBVIOUS
<1>1. ASSUME ExitInv(s, b) PROVE b.table["Exit"] = First /\ b.saved[First]["Exit"] = "firmware"
  <2>1. PICK n \in Nat : \E p \in [1 .. n -> 1 .. 2] : ExitPath(s, b, n, p)
    BY <1>1 DEF ExitInv
  <2>2. PICK p \in [1 .. n -> 1 .. 2] : ExitPath(s, b, n, p)
    BY <2>1
  <2>3. \A k \in 1 .. n : p[k] = 1
    BY <1>0, <2>2 DEF ExitPath
  <2>4. \A k \in 1 .. n : \A l \in 1 .. n : ~(k < l)
    <3> SUFFICES ASSUME NEW k \in 1 .. n, NEW l \in 1 .. n, k < l PROVE FALSE
      OBVIOUS
    <3>1. p[l] < p[k]
      BY <2>2 DEF ExitPath
    <3> QED
      BY <2>3, <3>1
  <2>5. PICK k \in 1 .. n : p[k] = 1
    BY <1>0, <2>2 DEF ExitPath
  <2>6. n = 1
    <3>1. n >= 1 /\ 1 \in 1 .. n /\ n \in 1 .. n
      BY <2>5
    <3>2. ~(1 < n)
      BY <2>4, <3>1
    <3> QED
      BY <3>1, <3>2
  <2> QED
    BY <2>2, <2>3, <2>6 DEF ExitPath
<1>2. ASSUME b.table["Exit"] = First, b.saved[First]["Exit"] = "firmware" PROVE ExitInv(s, b)
  <2> DEFINE p == [k \in 1 .. 1 |-> 1]
  <2>1. p \in [1 .. 1 -> 1 .. 2] /\ p[1] = 1 /\ 1 \in Nat /\ \A k \in 1 .. 1 : k = 1
    OBVIOUS
  <2> HIDE DEF p
  <2>2. ExitPath(s, b, 1, p)
    <3>1. \A k \in 1 .. 1 : PastInit(s[p[k]]) /\ p[k] + k >= 1 + 1
      BY <2>1
    <3>2. \A k \in 1 .. 1 : \A l \in 1 .. 1 : k < l => p[l] < p[k]
      OBVIOUS
    <3>3. \A m \in 1 .. Len(s) : PastInit(s[m]) => \E k \in 1 .. 1 : p[k] = m
      BY <1>0, <2>1
    <3>4. b.table["Exit"] = IF 1 = 0 THEN "firmware" ELSE s[p[1]].shim
      BY <1>2, <2>1
    <3>5. \A k \in 1 .. 1 : b.saved[s[p[k]].shim]["Exit"] =
                               IF k = 1 THEN "firmware" ELSE s[p[k + 1]].shim
      BY <1>2, <2>1
    <3> QED
      BY <3>1, <3>2, <3>3, <3>4, <3>5 DEF ExitPath
  <2> QED
    BY <2>1, <2>2 DEF ExitInv
<1> QED
  BY <1>1, <1>2

(* The two frames of an Exit().                                            *)
LEMMA ExitFrames ==
    ASSUME stack \in Seq(Frame), Len(stack) = 2, Linked(stack), Top.kind \in Programs
    PROVE  /\ stack[1].kind = "efi_main" /\ stack[1].shim = First /\ stack[1].via = "firmware"
           /\ PastInit(stack[1]) /\ ~PastInit(stack[2]) /\ Top.kind = "stage2" /\ First \in Shims
           /\ Waits(stack) = {First} /\ HookedBy(stack, 2, First)
           /\ \A b : SavedInv(stack, b) <=> Saved(b, First)
<1>0. 1 \in 1 .. 2 /\ 2 \in 1 .. 2 /\ \A k \in 1 .. 2 : k = 1 \/ k = 2
  OBVIOUS
<1>1. /\ stack[1].kind = "efi_main" /\ stack[1].shim = First /\ stack[1].via = "firmware"
      /\ First \in Shims
  BY <1>0, ShimsAssumption DEF Linked
<1>2. Top = stack[2]
  BY DEF Top
<1>3. Top.kind = "stage2"
  <2>1. 2 > 1 /\ 2 - 1 = 1
    OBVIOUS
  <2>2. stack[2].kind # "stage2" => stack[1].kind \in Programs
    BY <1>0, <2>1 DEF Linked
  <2> QED
    BY <1>1, <1>2, <2>2 DEF Programs
<1>4. stack[1].step \in Starting /\ stack[2].via = "firmware"
  <2>1. 2 - 1 = 1
    OBVIOUS
  <2> QED
    BY <1>0, <1>2, <1>3, <2>1 DEF Linked
<1>5. PastInit(stack[1]) /\ ~PastInit(stack[2])
  BY <1>1, <1>2, <1>3, <1>4 DEF PastInit, Starting
<1>6. Waits(stack) = {First}
  BY <1>0, <1>1, <1>5 DEF Waits
<1>7. HookedBy(stack, 2, First)
  <2>1. \A l \in 1 + 1 .. 2 : l = 2
    OBVIOUS
  <2> QED
    BY <1>0, <1>1, <1>2, <1>3, <1>4, <1>5, <2>1 DEF HookedBy
<1>8. \A b : SavedInv(stack, b) <=> Saved(b, First)
  BY <1>0, <1>1, <1>5 DEF SavedInv
<1> QED
  BY <1>1, <1>3, <1>5, <1>6, <1>7, <1>8

LEMMA OwnExits ==
    ASSUME VendorCerts = Shims, TypeOK, ExitShape, FrameInv, PlainInv, OwnInv,
           phase = "run", exit.dir # "none", Step
    PROVE  do_exit \/ FirmwareExit \/ FirmwareRefusesExit \/ DoExitFailed => OwnInv'
<1>0. /\ bs \in Tables /\ stack \in Seq(Frame) /\ Linked(stack) /\ Top.kind \in Programs
      /\ exit \in [dir : {"none", "down", "up"}, chain : Seq(Shims), status : Results]
      /\ participating \in [Shims -> BOOLEAN] /\ secure \in BOOLEAN
  BY TypeParts DEF FrameInv, FlagsOK
<1>1. Len(stack) = 2
  BY DEF OwnInv
<1>2. /\ stack[1].kind = "efi_main" /\ stack[1].shim = First /\ stack[1].via = "firmware"
      /\ PastInit(stack[1]) /\ ~PastInit(stack[2]) /\ Top.kind = "stage2" /\ First \in Shims
      /\ Waits(stack) = {First} /\ HookedBy(stack, 2, First)
      /\ \A b : SavedInv(stack, b) <=> Saved(b, First)
  BY <1>0, <1>1, ExitFrames
<1>3. \A b : ExitInv(stack, b) <=> b.table["Exit"] = First /\ b.saved[First]["Exit"] = "firmware"
  BY <1>1, <1>2, ExitTwo
<1>4. First # "firmware"
  BY <1>2, NamesFacts
<1>5. exit.chain = <<>> => Own(stack, bs)
  BY DEF OwnInv
<1>6. exit.chain # <<>> =>
          /\ exit.chain = <<First>>
          /\ ViaInv(stack) /\ (secure => SavedInv(stack, bs)) /\ Hooks(bs, "firmware")
          /\ bs.table["Exit"] = "firmware" /\ bs.protocols = <<>>
  BY DEF OwnInv
<1>7. bs.table["Exit"] = "firmware" => exit.chain # <<>>
  BY <1>3, <1>4, <1>5 DEF Own
<1>a. ASSUME do_exit PROVE OwnInv'
  <2> DEFINE i == bs.table["Exit"]
             h == shim_fini(i, bs)
  <2>1. /\ i \in Shims /\ bs' = h /\ exit' = [exit EXCEPT !.chain = Append(exit.chain, i)]
        /\ stack' = stack /\ secure' = secure /\ exit.dir = "down"
    BY <1>a DEF do_exit
  <2>2. exit.chain = <<>>
    BY <1>6, <2>1, NamesFacts
  <2>3. Own(stack, bs) /\ i = First
    BY <1>3, <1>5, <2>2 DEF Own
  <2>4. IF secure THEN Saved(bs, i) ELSE Hooks(bs, "firmware")
    BY <1>2, <2>3 DEF Own, PlainInv
  <2>5. IsInjective(bs.protocols) /\ Range(bs.protocols) \subseteq {i}
    BY <1>2, <2>3 DEF Own, ProtInv
  <2>6. /\ Hooks(h, "firmware") /\ \A j \in Shims : Saved(bs, j) => Saved(h, j)
        /\ h.table["Exit"] = bs.saved[i]["Exit"] /\ h \in Tables
        /\ Range(h.protocols) = Range(bs.protocols) \ {i}
    BY <1>0, <2>1, <2>4, <2>5, FiniPointers, InitFiniType
  <2> HIDE DEF h
  <2>7. h.protocols = <<>>
    <3>1. h.protocols \in Seq(Shims) /\ Range(h.protocols) = {}
      BY <2>5, <2>6 DEF Tables
    <3>2. h.protocols # <<>> => h.protocols[1] \in Range(h.protocols)
      BY <3>1 DEF Range
    <3> QED
      BY <3>1, <3>2
  <2>8. h.table["Exit"] = "firmware"
    BY <1>3, <2>3, <2>6 DEF Own
  <2>9. ViaInv(stack) /\ (secure => SavedInv(stack, h))
    BY <1>2, <2>3, <2>6 DEF Own
  <2>10. exit'.chain = <<First>> /\ exit'.dir = "down" /\ <<First>> # <<>>
    BY <1>0, <2>1, <2>2, <2>3
  <2> HIDE DEF i
  <2> QED
    BY <1>1, <2>1, <2>6, <2>7, <2>8, <2>9, <2>10 DEF OwnInv
<1>b. ASSUME FirmwareExit PROVE OwnInv'
  <2>1. exit.chain # <<>> /\ secure' = secure /\ exit' = NoExit
    BY <1>7, <1>b DEF FirmwareExit
  <2> DEFINE low == SubSeq(stack, 1, 1 - 1)
  <2>2. BackToStarter(low, stack[1], exit.status, bs)
    <3>1. (IF Top.kind = "stage2" THEN Len(stack) - 1 ELSE Len(stack)) = 1
      BY <1>1, <1>2
    <3> QED
      BY <1>b, <3>1 DEF FirmwareExit
  <2>3. low = <<>>
    BY <1>0, PrefixFacts
  <2> HIDE DEF low
  <2>4. bs' = bs /\ stack' = <<>>
    BY <1>2, <2>2, <2>3, PlainBack
  <2>5. Own(<<>>, bs)
    <3>1. Hooks(bs, "firmware") /\ bs.table["Exit"] = "firmware" /\ bs.protocols = <<>>
      BY <1>6, <2>1
    <3>2. ViaInv(<<>>) /\ SavedInv(<<>>, bs)
      BY DEF ViaInv, SavedInv
    <3>3. ExitInv(<<>>, bs)
      <4> DEFINE p == [k \in 1 .. 0 |-> 1]
      <4>1. p \in [1 .. 0 -> 1 .. 0] /\ 0 \in Nat /\ Len(<<>>) = 0
        OBVIOUS
      <4> HIDE DEF p
      <4>2. ExitPath(<<>>, bs, 0, p)
        BY <3>1, <4>1 DEF ExitPath
      <4> QED
        BY <4>1, <4>2 DEF ExitInv
    <3>4. ProtInv(<<>>, bs)
      BY <3>1 DEF ProtInv, IsInjective, Range
    <3> QED
      BY <3>1, <3>2, <3>3, <3>4 DEF Own, HooksInv
  <2> QED
    BY <2>1, <2>4, <2>5 DEF OwnInv, Own, HooksInv, ViaInv, SavedInv, ExitInv, ProtInv, NoExit
<1>c. ASSUME FirmwareRefusesExit PROVE OwnInv'
  <2>1. exit.chain # <<>> /\ secure' = secure /\ stack' = stack /\ bs' = bs
        /\ exit' = [exit EXCEPT !.dir = "up"]
    BY <1>7, <1>c DEF FirmwareRefusesExit
  <2>2. exit'.dir = "up" /\ exit'.chain = exit.chain
    BY <1>0, <2>1
  <2> QED
    BY <1>1, <1>6, <2>1, <2>2 DEF OwnInv
<1>d. ASSUME DoExitFailed PROVE OwnInv'
  <2>1. exit.chain # <<>> /\ exit.chain = <<First>> /\ Last(exit.chain) = First /\ Len(exit.chain) = 1
        /\ secure' = secure /\ stack' = stack
    <3>1. exit.chain # <<>>
      BY <1>d DEF DoExitFailed, ExitShape
    <3>2. Last(<<First>>) = First
      BY DEF Last
    <3> QED
      BY <1>6, <1>d, <3>1, <3>2 DEF DoExitFailed
  <2>2. CASE bs' = bs /\ exit' = exit
    BY <1>1, <1>6, <2>1, <2>2 DEF OwnInv
  <2>3. CASE bs' = shim_init(First, bs) /\ exit' = NoExit
    <3> DEFINE h == shim_init(First, bs)
    <3>1. IsInjective(bs.protocols) /\ Range(bs.protocols) = {}
      BY <1>6, <2>1 DEF IsInjective, Range
    <3>2. /\ IF secure THEN Hooks(h, First) ELSE Hooks(h, "firmware")
          /\ secure => Saved(h, First)
          /\ h.table["Exit"] = First /\ h.saved[First]["Exit"] = bs.table["Exit"]
          /\ IsInjective(h.protocols) /\ Range(h.protocols) = {First}
      <4>1. Hooks(bs, "firmware") /\ First \in VendorCerts
        BY <1>2, <1>6, <2>1
      <4>2. /\ IF secure THEN Hooks(h, First) ELSE Hooks(h, "firmware")
            /\ secure => \A j \in Shims : j = First \/ Saved(bs, j) => Saved(h, j)
            /\ h.table["Exit"] = First /\ h.saved[First]["Exit"] = bs.table["Exit"]
            /\ IsInjective(h.protocols) /\ Range(h.protocols) = Range(bs.protocols) \cup {First}
        <5>1. IsInjective(bs.protocols) /\ First \in Shims /\ bs \in Tables /\ secure \in BOOLEAN
          BY <1>0, <1>2, <3>1
        <5> QED
          BY <4>1, <5>1, InitPointers
      <4> HIDE DEF h
      <4> QED
        BY <1>2, <3>1, <4>2
    <3> HIDE DEF h
    <3>3. Own(stack, h)
      <4>1. HooksInv(stack, h)
        BY <1>1, <1>2, <3>2 DEF HooksInv
      <4>2. ViaInv(stack) /\ (secure => SavedInv(stack, h))
        BY <1>2, <1>6, <2>1, <3>2
      <4>3. ExitInv(stack, h)
        BY <1>3, <1>6, <2>1, <3>2
      <4>4. ProtInv(stack, h)
        BY <1>2, <3>2 DEF ProtInv
      <4> QED
        BY <4>1, <4>2, <4>3, <4>4 DEF Own
    <3> QED
      BY <2>1, <2>3, <3>3 DEF OwnInv, Own, HooksInv, ViaInv, SavedInv, ExitInv, ProtInv, NoExit, h
  <2> QED
    BY <1>d, <2>1, <2>2, <2>3 DEF DoExitFailed
<1> QED
  BY <1>a, <1>b, <1>c, <1>d

LEMMA OwnPrime == secure' = secure => (Own(stack, bs)' <=> Own(stack', bs'))
<1>1. HooksInv(stack, bs)' <=> HooksInv(stack', bs')
  BY DEF HooksInv, HookedBy, Hooks, PastInit
<1>2. ViaInv(stack)' <=> ViaInv(stack')
  BY DEF ViaInv, HookedBy, PastInit
<1>3. SavedInv(stack, bs)' <=> SavedInv(stack', bs')
  BY DEF SavedInv, Saved, PastInit
<1>4. ExitInv(stack, bs)' <=> ExitInv(stack', bs')
  BY DEF ExitInv
<1>5. ProtInv(stack, bs)' <=> ProtInv(stack', bs')
  BY DEF ProtInv
<1> QED
  BY <1>1, <1>2, <1>3, <1>4, <1>5 DEF Own

LEMMA OwnStep ==
    ASSUME VendorCerts = Shims, \A h \in HabitSets : "exit" \notin h
    PROVE  TypeOK /\ ExitShape /\ FrameInv /\ Distinct(stack) /\ PlainInv /\ OwnInv
              /\ [Next]_vars => OwnInv'
<1> SUFFICES ASSUME TypeOK, ExitShape, FrameInv, Distinct(stack), PlainInv, OwnInv, [Next]_vars
             PROVE  OwnInv'
  OBVIOUS
<1> DEFINE Goal == Own(stack', bs') /\ exit' = exit
<1>0. /\ bs \in Tables /\ stack \in Seq(Frame) /\ Linked(stack)
      /\ participating \in [Shims -> BOOLEAN] /\ secure \in BOOLEAN /\ "exit" \notin habits
  BY TypeParts DEF FrameInv, FlagsOK
<1>y. "LoadImage" \in Hooked /\ "StartImage" \in Hooked /\ "ExitBootServices" \in Hooked
  BY DEF Hooked
<1>p. ~secure => Hooks(bs, "firmware")
  BY DEF PlainInv
<1>e. Step => secure' = secure
  BY DEF Step, EfiMain, EfiMainReturns, start_image, StartImageFails, ProgramReturns, CallExit,
     shim_verify, ShimVerifyReturns, SetRetain, load_network_drivers, load_image, StartImageDirect,
     replacement_start_image, ExitDirect, exit_boot_services, do_exit, FirmwareExit,
     FirmwareRefusesExit, DoExitFailed
<1>x. CASE Step /\ (do_exit \/ FirmwareExit \/ FirmwareRefusesExit \/ DoExitFailed)
  <2>1. phase = "run" /\ exit.dir # "none"
    BY <1>x DEF do_exit, FirmwareExit, FirmwareRefusesExit, DoExitFailed
  <2> QED
    BY <1>x, <2>1, OwnExits
<1>s. CASE Step /\ ~(do_exit \/ FirmwareExit \/ FirmwareRefusesExit \/ DoExitFailed)
  <2>r. Running
    BY <1>s DEF Step, EfiMain, EfiMainReturns, start_image, StartImageFails, ProgramReturns, CallExit,
       shim_verify, ShimVerifyReturns, SetRetain, load_network_drivers, load_image, StartImageDirect,
       replacement_start_image, ExitDirect, exit_boot_services, InShim, InProgram
  <2>i. exit.dir = "none" /\ exit.chain = <<>> /\ Own(stack, bs) /\ stack # <<>>
    BY <2>r DEF Running, OwnInv
  <2>n. /\ Len(stack) \in 1 .. Len(stack) /\ Len(stack) \in Nat /\ Len(stack) > 0 /\ Top \in Frame
        /\ Front(stack) = SubSeq(stack, 1, Len(stack) - 1)
        /\ Len(stack) - 1 \in 0 .. Len(stack)
    BY <1>0, <2>i, TopFacts DEF Front
  <2>f. /\ Front(stack) \in Seq(Frame) /\ Len(Front(stack)) = Len(stack) - 1
        /\ \A k \in 1 .. Len(stack) - 1 : Front(stack)[k] = stack[k]
        /\ Front(stack) = <<>> <=> Len(stack) = 1
    BY <1>0, <2>i, FrontFacts
  <2>v. ViaInv(stack)
    BY <2>i DEF Own
  <2>1. ASSUME NEW i \in Shims, EfiMain(i) PROVE Goal
    <3>1. Top.kind = "efi_main" /\ Top.shim = i /\ Top.step = "init" /\ exit' = exit
      BY <2>1 DEF EfiMain, InShim
    <3>2. CASE bs' = bs /\ stack' = stack
      BY <2>i, <3>1, <3>2
    <3>3. CASE bs' = shim_init(i, bs) /\ stack' = [stack EXCEPT ![Len(stack)].step = "first"]
      <4>1. /\ SameFrames(stack, stack') /\ Top' = [Top EXCEPT !.step = "first"]
        BY <1>0, <2>i, <3>1, <3>3, SetStep DEF Steps, Starting, Programs
      <4>2. PastInit(stack'[Len(stack)])
        BY <2>n, <3>1, <4>1 DEF PastInit, SameFrames, Top, Frame
      <4>3. Own(stack', shim_init(i, bs))
        BY <1>0, <2>i, <3>1, <4>1, <4>2, OwnStarts DEF Top
      <4> QED
        BY <3>1, <3>3, <4>3
    <3> QED
      BY <2>1, <3>2, <3>3 DEF EfiMain
  <2>2. ASSUME NEW i \in Shims, EfiMainReturns(i) PROVE Goal
    <3> DEFINE h == shim_fini(i, bs)
    <3>1. /\ Top.kind = "efi_main" /\ Top.shim = i /\ Top.step = "fini" /\ exit' = exit
          /\ BackToStarter(Front(stack), Top, Top.status, h)
      BY <2>2 DEF EfiMainReturns, InShim
    <3>2. PastInit(stack[Len(stack)]) /\ stack[Len(stack)].shim = i
      BY <3>1 DEF PastInit, Top
    <3>3. h \in Tables /\ Own(Front(stack), h) /\ Hooks(h, "firmware")
      BY <1>0, <1>p, <2>i, <3>2, OwnLeaves
    <3> HIDE DEF h
    <3>4. Own(stack', bs')
      BY <1>0, <2>i, <2>v, <3>1, <3>3, OwnBack
    <3> QED
      BY <3>1, <3>4
  <2>3. ASSUME NEW i \in Shims, start_image(i) PROVE Goal
    <3> DEFINE f == NewFrame("stage2", i, "firmware", FALSE, FALSE)
    <3>1. stack' = Append(stack, f) /\ bs' = bs /\ exit' = exit
      BY <2>3 DEF start_image
    <3>2. f \in Frame /\ f.step = "init" /\ f.kind # "efi_main" /\ f.via = "firmware"
      BY NewFrameType DEF NewFrame
    <3> HIDE DEF f
    <3>3. Own(stack', bs')
      BY <1>0, <2>i, <3>1, <3>2, OwnPush
    <3> QED
      BY <3>1, <3>3
  <2>4. ASSUME NEW i \in Shims, NEW r \in Results, StartImageFails(i, r) PROVE Goal
    <3>1. /\ Top.kind = "efi_main" /\ stack' = Advance(stack, r) /\ bs' = bs /\ exit' = exit
          /\ Top.step \in Starting
      BY <2>4 DEF StartImageFails, InShim
    <3>2. SameFrames(stack, stack') /\ stack'[Len(stack)].step \in Starting \cup {"fini"}
      BY <1>0, <2>i, <3>1, AdvanceLinked DEF Top
    <3>3. PastInit(stack[Len(stack)]) /\ PastInit(stack'[Len(stack)])
      BY <2>n, <3>1, <3>2 DEF PastInit, SameFrames, Top, Starting
    <3>4. Own(stack', bs')
      BY <1>0, <2>i, <3>1, <3>2, <3>3, OwnSame
    <3> QED
      BY <3>1, <3>4
  <2>5. ASSUME NEW r \in Results, ProgramReturns(r) PROVE Goal
    <3>1. Top.kind \in Programs /\ exit' = exit /\ Top.kind # "efi_main"
      BY <2>5 DEF ProgramReturns, InProgram, Programs
    <3>2. Own(Front(stack), bs) /\ (Top.via # "firmware" => Hooks(bs, "firmware"))
      BY <1>0, <2>i, <3>1, OwnFront DEF Top
    <3>3. CASE Top.kind = "stage2"
      <4>1. stack' = Advance(Front(stack), r) /\ bs' = bs
        BY <2>5, <3>3 DEF ProgramReturns
      <4>2. /\ Len(stack) > 1 /\ stack[Len(stack) - 1].kind = "efi_main"
            /\ stack[Len(stack) - 1].step \in Starting
        BY <1>0, <2>n, <3>3 DEF Linked, Top
      <4>3. Len(stack) - 1 \in 1 .. Len(stack) - 1 /\ Front(stack) # <<>>
        <5>1. \A n \in Nat : n > 1 => n - 1 \in 1 .. n - 1 /\ n # 1
          OBVIOUS
        <5>2. Len(stack) - 1 \in 1 .. Len(stack) - 1 /\ Len(stack) # 1
          BY <2>n, <4>2, <5>1, Zenon
        <5> QED
          BY <2>f, <5>2, Zenon
      <4>4. Linked(Front(stack))
        BY <1>0, <2>n, LinkedPrefix
      <4>5. /\ SameFrames(Front(stack), stack')
            /\ stack'[Len(stack) - 1].step \in Starting \cup {"fini"}
        BY <2>f, <4>1, <4>2, <4>3, <4>4, AdvanceLinked
      <4>6. stack'[Len(stack) - 1].kind = "efi_main"
        BY <2>f, <4>2, <4>3, <4>5 DEF SameFrames
      <4>7. PastInit(Front(stack)[Len(stack) - 1]) /\ PastInit(stack'[Len(stack) - 1])
        BY <2>f, <4>2, <4>3, <4>5, <4>6 DEF PastInit, Starting
      <4>8. Own(stack', bs)
        BY <2>f, <3>2, <4>3, <4>4, <4>5, <4>7, OwnSame
      <4> QED
        BY <3>1, <4>1, <4>8
    <3>4. CASE Top.kind # "stage2"
      <4>1. BackToStarter(Front(stack), Top, r, bs)
        BY <2>5, <3>4 DEF ProgramReturns
      <4>2. Own(stack', bs')
        BY <1>0, <2>i, <2>v, <3>2, <4>1, OwnBack
      <4> QED
        BY <3>1, <4>2
    <3> QED
      BY <3>3, <3>4
  <2>6. ASSUME shim_verify \/ ShimVerifyReturns PROVE Goal
    <3>1. bs' = bs /\ Top.kind # "efi_main" /\ exit' = exit
      BY <1>0, <2>n, <2>6 DEF shim_verify, ShimVerifyReturns, InProgram, Linked, Top
    <3> DEFINE x == IF ShimVerifyReturns THEN "init" ELSE IF DriversLoad THEN "verify" ELSE Top.step
    <3>2. stack' = [stack EXCEPT ![Len(stack)].step = x]
      BY <2>6 DEF shim_verify, ShimVerifyReturns, Top
    <3>3. x \in Steps /\ x \in {"init", "verify"}
      BY <2>6 DEF shim_verify, InProgram, Steps
    <3> HIDE DEF x
    <3>4. SameFrames(stack, stack')
      BY <1>0, <2>i, <3>1, <3>2, <3>3, SetStep
    <3>5. ~PastInit(stack[Len(stack)]) /\ ~PastInit(stack'[Len(stack)])
      BY <2>n, <3>1, <3>4 DEF PastInit, SameFrames, Top
    <3>6. Own(stack', bs')
      BY <1>0, <2>i, <3>1, <3>4, <3>5, OwnSame
    <3> QED
      BY <3>1, <3>6
  <2>7. ASSUME NEW i, NEW b, Own(stack, b), stack' = Untrack(stack, i) PROVE Own(stack', b)
    <3>1. SameFrames(stack, stack') /\ stack'[Len(stack)].step = stack[Len(stack)].step
      BY <1>0, <2>i, <2>7, UntrackLinked
    <3>2. PastInit(stack[Len(stack)]) <=> PastInit(stack'[Len(stack)])
      BY <2>n, <3>1 DEF PastInit, SameFrames
    <3> QED
      BY <1>0, <2>i, <2>7, <3>1, <3>2, OwnSame
  <2>8. ASSUME NEW r \in {"ok", "error", "notfound"}, load_network_drivers(r) PROVE Goal
    <3> DEFINE i == bs.table["LoadImage"]
               u == unhook_system_services(i, bs)
               b == IF retain THEN u ELSE uninstall_shim_protocols(i, u)
               n == install_shim_protocols(i, b)
    <3>1. /\ i \in Shims /\ stack' = Untrack(stack, i) /\ exit' = exit
          /\ bs' \in {bs, b, hook_system_services(i, n)}
      BY <2>8 DEF load_network_drivers
    <3>2. HookedBy(stack, Len(stack), i) /\ u \in Tables /\ Own(stack, u) /\ Hooks(u, "firmware")
      BY <1>0, <1>p, <1>y, <2>i, <3>1, OwnCalled
    <3> HIDE DEF i, u
    <3>3. b \in Tables /\ Own(stack, b) /\ Hooks(b, "firmware")
      BY <1>0, <3>1, <3>2, OwnMoves
    <3> HIDE DEF b
    <3>4. n \in Tables /\ Own(stack, n) /\ Hooks(n, "firmware")
      BY <1>0, <3>1, <3>2, <3>3, OwnMoves
    <3> HIDE DEF n
    <3>5. Own(stack, hook_system_services(i, n))
      BY <1>0, <3>1, <3>2, <3>4, OwnMoves
    <3>6. Own(stack, bs')
      BY <2>i, <3>1, <3>3, <3>5
    <3> QED
      BY <2>7, <3>1, <3>6
  <2>9. ASSUME NEW i \in Shims, NEW x \in Hooked, i = bs.table[x]
        PROVE  Own(stack, hook_system_services(i, unhook_system_services(i, bs)))
    <3> DEFINE u == unhook_system_services(i, bs)
    <3>1. HookedBy(stack, Len(stack), i) /\ u \in Tables /\ Own(stack, u) /\ Hooks(u, "firmware")
      BY <1>0, <1>p, <2>i, <2>9, OwnCalled
    <3> HIDE DEF u
    <3>2. Own(stack, hook_system_services(i, u))
      BY <1>0, <3>1, OwnMoves
    <3> QED
      BY <3>2 DEF u
  <2>10. ASSUME NEW ok \in BOOLEAN, load_image(ok) PROVE Goal
    <3> DEFINE i == bs.table["LoadImage"]
    <3>1. /\ i \in Shims /\ stack' = Untrack(stack, i) /\ exit' = exit
          /\ bs' = hook_system_services(i, unhook_system_services(i, bs))
      BY <2>10 DEF load_image
    <3>2. Own(stack, bs')
      BY <1>y, <2>9, <3>1
    <3> QED
      BY <2>7, <3>1, <3>2
  <2>11. ASSUME NEW j \in Startable, StartImageDirect(j) PROVE Goal
    <3>1. /\ bs' = bs /\ Top.kind \in Programs /\ Child(j, "firmware", FALSE) /\ exit' = exit
          /\ bs.table["StartImage"] = "firmware"
      BY <2>11 DEF StartImageDirect, InProgram, Programs
    <3>2. j \in Shims \cup {"none"} /\ "firmware" \in Shims \cup {"firmware"} /\ FALSE \in BOOLEAN
      BY DEF Startable
    <3>b. stack \in Seq(Frame) /\ stack # <<>> /\ Linked(stack) /\ Top.kind \in Programs
      BY <1>0, <2>i, <3>1
    <3>3. PICK f \in Frame : Started(f, j, "firmware")
      BY <3>1, <3>2, <3>b, ChildFacts
    <3>4. Hooks(bs, "firmware")
      BY <1>y, <2>i, <3>1, NamesFacts DEF Own, HooksInv, Hooks
    <3>5. Own(stack', bs')
      BY <1>0, <2>i, <3>1, <3>3, <3>4, OwnPush DEF Started
    <3> QED
      BY <3>1, <3>5
  <2>12. ASSUME NEW j \in Startable, NEW tr \in BOOLEAN, replacement_start_image(j, tr) PROVE Goal
    <3> DEFINE i == bs.table["StartImage"]
               u == unhook_system_services(i, bs)
               c == uninstall_shim_protocols(i, u)
    <3>1. /\ i \in Shims /\ Top.kind \in Programs /\ Child(j, i, tr) /\ exit' = exit
          /\ bs' \in {c, u}
      BY <2>12 DEF replacement_start_image, InProgram, Programs
    <3>2. HookedBy(stack, Len(stack), i) /\ u \in Tables /\ Own(stack, u) /\ Hooks(u, "firmware")
      BY <1>0, <1>p, <1>y, <2>i, <3>1, OwnCalled
    <3> HIDE DEF i, u
    <3>3. Own(stack, c) /\ Hooks(c, "firmware")
      BY <1>0, <3>1, <3>2, OwnMoves
    <3> HIDE DEF c
    <3>4. Own(stack, bs') /\ Hooks(bs', "firmware")
      BY <3>1, <3>2, <3>3
    <3>5. j \in Shims \cup {"none"} /\ i \in Shims \cup {"firmware"}
      BY <3>1 DEF Startable
    <3>a. \E t \in BOOLEAN : Child(j, i, t)
      BY <3>1
    <3>b. stack \in Seq(Frame) /\ stack # <<>> /\ Linked(stack) /\ Top.kind \in Programs
      BY <1>0, <2>i, <3>1
    <3>6. PICK f \in Frame : Started(f, j, i)
      BY <3>5, <3>a, <3>b, ChildFacts
    <3>7. Own(stack', bs')
      BY <1>0, <3>1, <3>2, <3>4, <3>6, OwnPush DEF Started
    <3> QED
      BY <3>1, <3>7
  <2>13. ASSUME SetRetain \/ ExitDirect PROVE Goal
    BY <2>i, <2>13 DEF SetRetain, ExitDirect
  <2>14. ASSUME exit_boot_services PROVE Goal
    <3> DEFINE i == bs.table["ExitBootServices"]
    <3>1. /\ i \in Shims /\ stack' = stack /\ exit' = exit
          /\ bs' \in {bs, hook_system_services(i, unhook_system_services(i, bs))}
      BY <2>14 DEF exit_boot_services
    <3>2. Own(stack, bs')
      BY <1>y, <2>i, <2>9, <3>1
    <3> QED
      BY <3>1, <3>2
  <2>15. ASSUME NEW r \in Results, CallExit(r) PROVE OwnInv'
    <3>1. /\ stack' = stack /\ bs' = bs /\ exit' = [dir |-> "down", chain |-> <<>>, status |-> r]
          /\ ~(Len(stack) > 2) /\ Top.kind \in Programs
      BY <1>0, <2>15 DEF CallExit, InProgram, Programs
    <3>2. Len(stack) # 1
      BY <1>0, <2>n, <3>1 DEF Linked, Top, Programs
    <3>3. Len(stack) = 2
      <4>1. \A n \in Nat : n > 0 /\ n # 1 /\ ~(n > 2) => n = 2
        OBVIOUS
      <4> QED
        BY <2>n, <3>1, <3>2, <4>1, Zenon
    <3>4. exit'.chain = <<>> /\ secure' = secure
      BY <1>e, <1>s, <3>1
    <3> QED
      BY <2>i, <3>1, <3>3, <3>4, OwnPrime DEF OwnInv
  <2>16. Goal => OwnInv'
    <3>1. ASSUME Goal PROVE OwnInv'
      BY <1>e, <1>s, <2>i, <3>1, OwnPrime DEF OwnInv
    <3> QED
      BY <3>1
  <2> HIDE DEF Goal
  <2> QED
    BY <1>s, <2>1, <2>2, <2>3, <2>4, <2>5, <2>6, <2>8, <2>10, <2>11, <2>12, <2>13, <2>14, <2>15, <2>16,
       Zenon DEF Step, Startable
<1>u. CASE UNCHANGED vars
  BY <1>u DEF vars, OwnInv, Own, HooksInv, ViaInv, SavedInv, ExitInv, ProtInv
<1> QED
  BY <1>s, <1>u, <1>x DEF Next

LEMMA PathFacts ==
    ASSUME NEW n \in Nat, NEW S, NEW c \in [1 .. n -> S], NEW e
    PROVE  Append(c, e)[n + 1] = e /\ \A k \in 1 .. n : Append(c, e)[k] = c[k]
<1>1. c \in Seq(S) /\ Len(c) = n
  OBVIOUS
<1> QED
  BY <1>1, AppendProperties

LEMMA ChainFrom ==
    ASSUME NEW x, NEW n \in 0 .. Len(stack), NEW c \in [1 .. n -> Alive],
           bs.table[x] = IF n = 0 THEN "firmware" ELSE c[1],
           \A k \in 1 .. n : bs.saved[c[k]][x] = IF k = n THEN "firmware" ELSE c[k + 1]
    PROVE  \E m \in 0 .. Len(stack) : \E d \in [1 .. m -> Alive] :
               LET path == Append(d, "firmware")
               IN  path[1] = bs.table[x] /\ \A k \in 1 .. m : path[k + 1] = bs.saved[d[k]][x]
<1> DEFINE path == Append(c, "firmware")
<1>1. n \in Nat
  OBVIOUS
<1>2. path[n + 1] = "firmware" /\ \A k \in 1 .. n : path[k] = c[k]
  BY <1>1, PathFacts
<1> HIDE DEF path
<1>3. path[1] = bs.table[x]
  <2>1. n # 0 => 1 \in 1 .. n
    BY <1>1
  <2>2. n = 0 => n + 1 = 1
    OBVIOUS
  <2> QED
    BY <1>2, <2>1, <2>2
<1>4. ASSUME NEW k \in 1 .. n PROVE path[k + 1] = bs.saved[c[k]][x]
  <2>1. k # n => k + 1 \in 1 .. n
    BY <1>1
  <2> QED
    BY <1>2, <2>1
<1> QED
  BY <1>3, <1>4 DEF path

LEMMA OwnChains ==
    ASSUME TypeOK, FrameInv, PlainInv, OwnInv
    PROVE  ChainsEndInFirmware
<1>0. bs \in Tables /\ stack \in Seq(Frame) /\ Linked(stack) /\ Len(stack) \in Nat
  BY TypeParts DEF FrameInv
<1>1. Waits(stack) \subseteq Alive
  BY <1>0, WaitsShims DEF Waits, Alive
<1>2. HooksInv(stack, bs) /\ (secure => SavedInv(stack, bs))
  BY DEF OwnInv, Own, HooksInv
<1> DEFINE Leads(x) == \E m \in 0 .. Len(stack) : \E d \in [1 .. m -> Alive] :
               LET path == Append(d, "firmware")
               IN  path[1] = bs.table[x] /\ \A k \in 1 .. m : path[k + 1] = bs.saved[d[k]][x]
<1>3. ASSUME NEW x, bs.table[x] = "firmware" PROVE Leads(x)
  <2> DEFINE c == [k \in 1 .. 0 |-> k]
  <2>1. c \in [1 .. 0 -> Alive] /\ 0 \in 0 .. Len(stack) /\ \A k \in 1 .. 0 : FALSE
    BY <1>0
  <2> HIDE DEF c
  <2> QED
    BY <1>3, <2>1, ChainFrom
<1>4. ASSUME NEW x \in Hooked PROVE Leads(x)
  <2>1. CASE Hooks(bs, "firmware")
    BY <1>3, <2>1 DEF Hooks
  <2>2. CASE ~Hooks(bs, "firmware")
    <3>1. PICK j \in Shims : Hooks(bs, j) /\ HookedBy(stack, Len(stack), j)
      BY <1>2, <2>2 DEF HooksInv
    <3>2. j \in Alive
      BY <1>0, <1>1, <3>1, HookedWaits
    <3>3. Saved(bs, j)
      <4>1. secure /\ Len(stack) <= Len(stack)
        BY <1>0, <2>2 DEF PlainInv
      <4> QED
        BY <1>0, <1>2, <3>1, <4>1, HookedSaved
    <3>4. 1 \in 0 .. Len(stack)
      BY <1>0, <3>1 DEF HookedBy
    <3> DEFINE c == [k \in 1 .. 1 |-> j]
    <3>5. c \in [1 .. 1 -> Alive] /\ \A k \in 1 .. 1 : k = 1 /\ c[k] = j
      BY <3>2
    <3>6. 1 \in 1 .. 1 /\ c[1] = j
      BY <3>5
    <3> HIDE DEF c
    <3>7. bs.table[x] = IF 1 = 0 THEN "firmware" ELSE c[1]
      BY <3>1, <3>6 DEF Hooks
    <3>8. \A k \in 1 .. 1 : bs.saved[c[k]][x] = IF k = 1 THEN "firmware" ELSE c[k + 1]
      BY <3>3, <3>5 DEF Saved
    <3> QED
      BY <3>4, <3>5, <3>7, <3>8, ChainFrom
  <2> QED
    BY <2>1, <2>2
<1>5. Leads("Exit")
  <2>1. CASE exit.chain # <<>>
    BY <1>3, <2>1 DEF OwnInv
  <2>2. CASE exit.chain = <<>>
    <3>1. PICK n \in Nat : \E p \in [1 .. n -> 1 .. Len(stack)] : ExitPath(stack, bs, n, p)
      BY <2>2 DEF OwnInv, Own, ExitInv
    <3>2. PICK p \in [1 .. n -> 1 .. Len(stack)] : ExitPath(stack, bs, n, p)
      BY <3>1
    <3>3. n \in 0 .. Len(stack)
      <4>1. \A k \in 1 .. n : p[k] \in 1 .. Len(stack) /\ p[k] + k >= n + 1
        BY <3>2 DEF ExitPath
      <4>2. n # 0 => 1 \in 1 .. n
        OBVIOUS
      <4>3. n # 0 => p[1] \in 1 .. Len(stack) /\ p[1] + 1 >= n + 1
        BY <4>1, <4>2
      <4> QED
        BY <1>0, <4>3
    <3> DEFINE c == [k \in 1 .. n |-> stack[p[k]].shim]
    <3>4. \A k \in 1 .. n : stack[p[k]].shim \in Alive
      <4>1. \A k \in 1 .. n : p[k] \in 1 .. Len(stack) /\ PastInit(stack[p[k]])
        BY <3>2 DEF ExitPath
      <4> QED
        BY <1>1, <4>1 DEF Waits
    <3>5. c \in [1 .. n -> Alive] /\ \A k \in 1 .. n : c[k] = stack[p[k]].shim
      BY <3>4
    <3> HIDE DEF c
    <3>6. bs.table["Exit"] = IF n = 0 THEN "firmware" ELSE c[1]
      <4>1. n # 0 => 1 \in 1 .. n
        OBVIOUS
      <4> QED
        BY <3>2, <3>5, <4>1 DEF ExitPath
    <3>7. ASSUME NEW k \in 1 .. n
          PROVE  bs.saved[c[k]]["Exit"] = IF k = n THEN "firmware" ELSE c[k + 1]
      <4>1. k # n => k + 1 \in 1 .. n
        OBVIOUS
      <4> QED
        BY <3>2, <3>5, <4>1 DEF ExitPath
    <3> QED
      BY <3>3, <3>5, <3>6, <3>7, ChainFrom
  <2> QED
    BY <2>1, <2>2
<1>6. Range(bs.protocols) \subseteq Alive
  <2>1. CASE exit.chain # <<>>
    BY <2>1 DEF OwnInv, Range
  <2>2. CASE exit.chain = <<>>
    BY <1>1, <2>2 DEF OwnInv, Own, ProtInv
  <2> QED
    BY <2>1, <2>2
<1> HIDE DEF Leads
<1>7. \A x \in Services : Leads(x)
  BY <1>4, <1>5 DEF Services
<1> QED
  BY <1>6, <1>7 DEF ChainsEndInFirmware, Leads

(* Under the hypotheses of PointersLeadToFirmware, which says why.         *)
LEMMA OwnHolds ==
    ASSUME VendorCerts = Shims, \A h \in HabitSets : "exit" \notin h
    PROVE  Spec => [](Distinct(stack) /\ PlainInv /\ OwnInv)
<1>1. Init => Distinct(stack) /\ PlainInv /\ OwnInv
  <2> SUFFICES ASSUME Init PROVE Distinct(stack) /\ PlainInv /\ OwnInv
    OBVIOUS
  <2>1. PICK f \in BOOLEAN : stack = <<NewFrame("efi_main", First, "firmware", FALSE, f)>>
    BY DEF Init
  <2>2. Len(stack) = 1 /\ stack[1].step = "init" /\ stack[1].via = "firmware"
    BY <2>1 DEF NewFrame
  <2>3. \A k \in 1 .. Len(stack) : k = 1 /\ ~PastInit(stack[k]) /\ stack[k].via = "firmware"
    BY <2>2 DEF PastInit
  <2>4. Hooks(bs, "firmware") /\ bs.table["Exit"] = "firmware" /\ bs.protocols = <<>>
    BY NamesFacts DEF Init, Hooks
  <2>5. ExitInv(stack, bs)
    <3> DEFINE p == [k \in 1 .. 0 |-> 1]
    <3>1. p \in [1 .. 0 -> 1 .. Len(stack)] /\ 0 \in Nat
      OBVIOUS
    <3> HIDE DEF p
    <3>2. ExitPath(stack, bs, 0, p)
      BY <2>3, <2>4 DEF ExitPath
    <3> QED
      BY <3>1, <3>2 DEF ExitInv
  <2>6. Own(stack, bs)
    BY <2>3, <2>4, <2>5 DEF Own, HooksInv, ViaInv, SavedInv, ProtInv, IsInjective, Range
  <2>7. exit.dir = "none" /\ exit.chain = <<>>
    BY DEF Init, NoExit
  <2> QED
    BY <2>3, <2>4, <2>6, <2>7 DEF Distinct, PlainInv, OwnInv
<1>2. TypeOK /\ FrameInv /\ Distinct(stack) /\ [Next]_vars => Distinct(stack)'
  BY DistinctStep DEF Distinct
<1>3. TypeOK /\ ExitShape /\ FrameInv /\ PlainInv /\ [Next]_vars => PlainInv'
  BY PlainStep
<1>4. TypeOK /\ ExitShape /\ FrameInv /\ Distinct(stack) /\ PlainInv /\ OwnInv /\ [Next]_vars => OwnInv'
  BY OwnStep
<1> QED
  BY <1>1, <1>2, <1>3, <1>4, BaseHolds, PTL DEF Spec

(* No boot service is ever NULL or in an image that is gone, and a shim    *)
(* that has left has taken its hooks and its protocol with it, however     *)
(* shims start each other, fail, are refused and leave, for any number of  *)
(* them.  Every shim of the boot has certificates of its own: shim_fini    *)
(* takes out hooks a shim without any has never put in, and leaves its     *)
(* NULL pointers in the table.  And only the first shim's second stage     *)
(* calls Exit(): called over a shim that was started later it takes out    *)
(* the hooks of every shim, of those that stay too.                        *)
THEOREM PointersLeadToFirmware ==
    ASSUME VendorCerts = Shims, \A h \in HabitSets : "exit" \notin h
    PROVE  Spec => []ChainsEndInFirmware
<1>1. TypeOK /\ FrameInv /\ PlainInv /\ OwnInv => ChainsEndInFirmware
  BY OwnChains
<1>2. Spec => [](Distinct(stack) /\ PlainInv /\ OwnInv)
  BY OwnHolds
<1> QED
  BY <1>1, <1>2, BaseHolds, PTL

---------------------------------------------------------------------------
(* What is listed in the protocol database is of a shim that waits, and    *)
(* what waits has its list                                                 *)

(* In secure mode no program finds the protocol of a shim whose list is    *)
(* empty, and no such shim starts an image, while every shim loads its own *)
(* list, frees it when it leaves, and takes its protocol out and in again  *)
(* around what others start, load as drivers or fail to start.  A refused  *)
(* Exit() is in it: the protocol is back, the list is not, for the shims   *)
(* whose do_exit ran and for no other.  The hypotheses are those of        *)
(* PointersLeadToFirmware: shim_fini is what takes out the protocol.       *)
THEOREM SbatIsMandatory ==
    ASSUME VendorCerts = Shims, \A h \in HabitSets : "exit" \notin h
    PROVE  Spec => []SbatMandatory
<1>1. Init => ListInv
  <2> SUFFICES ASSUME Init PROVE LoadedOn(stack, Listed)
    BY DEF ListInv
  <2>1. PICK f \in BOOLEAN : stack = <<NewFrame("efi_main", First, "firmware", FALSE, f)>>
    BY DEF Init
  <2>2. Len(stack) = 1 /\ stack[1].step = "init"
    BY <2>1 DEF NewFrame
  <2>3. \A k \in 1 .. Len(stack) : ~PastInit(stack[k])
    BY <2>2 DEF PastInit
  <2> QED
    BY <2>3 DEF LoadedOn
<1>2. TypeOK /\ FrameInv /\ Distinct(stack) /\ ListInv /\ [Next]_vars => ListInv'
  BY ListStep
<1>3. TypeOK /\ FrameInv /\ OwnInv /\ ListInv => SbatMandatory
  <2> SUFFICES ASSUME TypeOK, FrameInv, OwnInv, ListInv, secure, NEW i \in Shims,
                      i \in Range(bs.protocols) \/ InShim(i, Starting)
               PROVE  sbat_loaded[i] \/ i \in exited
    BY DEF SbatMandatory
  <2>1. i \in Waits(stack)
    <3>1. CASE i \in Range(bs.protocols)
      <4>1. exit.chain = <<>>
        BY <3>1 DEF OwnInv, Range
      <4> QED
        BY <3>1, <4>1 DEF OwnInv, Own, ProtInv
    <3>2. CASE InShim(i, Starting)
      <4>1. stack \in Seq(Frame) /\ stack # <<>>
        BY <3>2, TypeParts DEF InShim, Running
      <4>2. Len(stack) \in 1 .. Len(stack)
        BY <4>1, TopFacts
      <4>3. PastInit(stack[Len(stack)]) /\ stack[Len(stack)].shim = i
        BY <3>2 DEF InShim, Top, PastInit, Starting
      <4> QED
        BY <4>2, <4>3 DEF Waits
    <3> QED
      BY <3>1, <3>2
  <2>2. Listed[i]
    BY <2>1 DEF ListInv, LoadedOn, Waits
  <2> QED
    BY <2>2 DEF Listed
<1>4. Spec => [](Distinct(stack) /\ PlainInv /\ OwnInv)
  BY OwnHolds
<1> QED
  BY <1>1, <1>2, <1>3, <1>4, BaseHolds, PTL DEF Spec

(* What shim starts finds the protocol and the hooks of one shim, and is   *)
(* verified against a list, however shims start and leave each other.      *)
THEOREM BootIsGuarded ==
    ASSUME VendorCerts = Shims, \A h \in HabitSets : "exit" \notin h
    PROVE  Spec => []GuardedBoot
<1>1. Spec => []ProtocolMatchesHooks /\ []SbatMandatory
  BY ProtocolIsOfTheHooks, SbatIsMandatory
<1> QED
  BY <1>1, PTL DEF GuardedBoot
=============================================================================
