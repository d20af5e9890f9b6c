----------------------------- MODULE ShimHooks -----------------------------
(***************************************************************************)
(* The boot-services table, the SHIM_LOCK protocol and the programs that   *)
(* run between them: replacements.c, shim_init and shim_fini,              *)
(* install_shim_protocols and uninstall_shim_protocols, start_image and    *)
(* init_grub.  Several shims may be nested (shim -> fallback -> shim ->    *)
(* grub): each has its own static variables, all share one table and one   *)
(* protocol database.  Whatever runs is on a stack of frames; a program    *)
(* started by a shim or by StartImage may call any boot service through    *)
(* whatever pointer the table holds at that moment.                        *)
(***************************************************************************)
EXTENDS Sequences, SequencesExt, Integers

CONSTANTS
    Shims,         \* the shim binaries of one boot
    First,         \* the one the firmware starts
    VendorCerts,   \* shims built with vendor certificates or hashes
    HabitSets,     \* what programs may do besides the usual in one boot
    MaxDepth       \* bound on the number of frames

(* "retain": a program may set ShimRetainProtocol; "stale": it may start   *)
(* an image other than the one it loaded last; "exit": programs deeper     *)
(* than the first shim's own second stage may call Exit() rather than      *)
(* return; "refuse": Exit() may be called in a way the firmware refuses;   *)
(* "drivers": the network drivers of http-request.c are on the disk.       *)
HabitKinds == {"retain", "stale", "exit", "refuse", "drivers"}

ASSUME ShimsAssumption ==
    /\ First \in Shims /\ VendorCerts \subseteq Shims
    /\ \A h \in HabitSets : h \subseteq HabitKinds
    /\ MaxDepth \in Nat
    /\ Shims \cap {"firmware", "null"} = {}

Hooked   == {"LoadImage", "StartImage", "ExitBootServices"}
Services == Hooked \cup {"Exit"}
Pointer  == Shims \cup {"firmware", "null"}

(* The stages init_grub goes through, and the one before and after; a      *)
(* program is in "init", or in "verify" during a call of shim_verify.      *)
Starting == {"first", "mokmanager", "again", "default"}
Steps   == {"init", "fini", "verify"} \cup Starting
Results == {"ok", "denied", "notfound", "error"}
Frame   == [kind : {"efi_main", "stage2", "image"}, shim : Shims \cup {"none"},
            via : Shims \cup {"firmware"}, tracked : BOOLEAN, step : Steps,
            use_fb : BOOLEAN, status : Results]

VARIABLES
    habits,        \* the habits of this boot's programs
    bs,            \* table, saved pointers of each shim, installed protocols
    secure,        \* secure_mode()
    retain,        \* ShimRetainProtocol is set, volatile and non-zero
    participating, \* loader_is_participating of each shim
    by_hash,       \* verification_method = VERIFIED_BY_HASH of each shim
    last_loaded,   \* last_loaded_image of each shim is a live handle
    sbat_loaded,   \* sbat_var of each shim is non-empty
    stack,         \* frames, the running one last
    exit,          \* an Exit() call in progress
    phase,         \* "run", or how the boot ended
    called,        \* history: did the stage a shim started call into shim?
    exited         \* history: the shims whose do_exit has run

vars == <<habits, bs, secure, retain, participating, by_hash, last_loaded, sbat_loaded,
          stack, exit, phase, called, exited>>

TypeOK ==
    /\ habits \in HabitSets
    /\ bs \in [table : [Services -> Pointer], saved : [Shims -> [Services -> Pointer]],
               protocols : Seq(Shims)]
    /\ secure \in BOOLEAN /\ retain \in BOOLEAN
    /\ participating \in [Shims -> BOOLEAN]
    /\ by_hash \in [Shims -> BOOLEAN]
    /\ last_loaded \in [Shims -> BOOLEAN]
    /\ sbat_loaded \in [Shims -> BOOLEAN]
    /\ stack \in Seq(Frame)
    /\ exit \in [dir : {"none", "down", "up"}, chain : Seq(Shims), status : Results]
    /\ phase \in {"run", "os", "reset", "returned"}
    /\ called \in [Shims -> BOOLEAN]
    /\ exited \subseteq Shims

Top     == stack[Len(stack)]
Running == phase = "run" /\ exit.dir = "none" /\ stack # <<>>
InShim(i, steps) == Running /\ Top.kind = "efi_main" /\ Top.shim = i /\ Top.step \in steps
InProgram == Running /\ Top.kind \in {"stage2", "image"} /\ Top.step = "init"

---------------------------------------------------------------------------
(* replacements.c and the protocol functions of shim.c, on a value b of bs *)

hook_system_services(i, b) ==
    [b EXCEPT !.saved[i] = [x \in Services |-> IF x \in Hooked THEN b.table[x] ELSE @[x]],
              !.table    = [x \in Services |-> IF x \in Hooked THEN i ELSE @[x]]]

unhook_system_services(i, b) ==
    [b EXCEPT !.table = [x \in Services |-> IF x \in Hooked THEN b.saved[i][x] ELSE @[x]]]

hook_exit(i, b) ==
    [b EXCEPT !.saved[i]["Exit"] = b.table["Exit"], !.table["Exit"] = i]

unhook_exit(i, b) == [b EXCEPT !.table["Exit"] = b.saved[i]["Exit"]]

(* UninstallProtocolInterface is given this shim's own handle and          *)
(* interface, so it cannot remove another shim's protocol.                 *)
Without(s, i) == IF \E k \in DOMAIN s : s[k] = i
                 THEN RemoveAt(s, CHOOSE k \in DOMAIN s : s[k] = i) ELSE s

uninstall_shim_protocols(i, b) == [b EXCEPT !.protocols = Without(@, i)]

(* A protocol already there is first removed by uninstall_shim_protocols.  *)
install_shim_protocols(i, b) ==
    [uninstall_shim_protocols(i, b) EXCEPT !.protocols = Append(@, i)]

(* shim_init after set_second_stage.                                       *)
shim_init(i, b) ==
    install_shim_protocols(i,
        hook_exit(i, IF secure /\ i \in VendorCerts THEN hook_system_services(i, b) ELSE b))

(* Mutant: the Exit() hook is left behind.                                 *)
ShimFiniKeepsExit(i, b) ==
    LET u == uninstall_shim_protocols(i, b)
    IN  IF secure THEN unhook_system_services(i, u) ELSE u

(* Mutant: the protocol is left behind.                                    *)
ShimFiniKeepsProtocol(i, b) ==
    unhook_exit(i, IF secure THEN unhook_system_services(i, b) ELSE b)

shim_fini(i, b) ==
    LET u == uninstall_shim_protocols(i, b)
    IN  unhook_exit(i, IF secure THEN unhook_system_services(i, u) ELSE u)

---------------------------------------------------------------------------
NewFrame(k, i, v, t, f) ==
    [kind |-> k, shim |-> i, via |-> v, tracked |-> t, step |-> "init",
     use_fb |-> f, status |-> "ok"]

NoExit == [dir |-> "none", chain |-> <<>>, status |-> "ok"]

Init ==
    /\ habits \in HabitSets
    /\ bs = [table |-> [x \in Services |-> "firmware"],
             saved |-> [i \in Shims |-> [x \in Services |-> "null"]],
             protocols |-> <<>>]
    /\ secure \in BOOLEAN
    /\ retain = FALSE
    /\ participating = [i \in Shims |-> FALSE]
    /\ by_hash = [i \in Shims |-> FALSE]
    /\ last_loaded = [i \in Shims |-> FALSE]
    /\ sbat_loaded = [i \in Shims |-> FALSE]
    /\ \E f \in BOOLEAN : stack = <<NewFrame("efi_main", First, "firmware", FALSE, f)>>
    /\ exit = NoExit
    /\ phase = "run"
    /\ called = [i \in Shims |-> FALSE]
    /\ exited = {}

(* verify_buffer ran: verification_method ends as VERIFIED_BY_HASH or not, *)
(* since check_allowlist also assigns VERIFIED_BY_CERT over it.            *)
Verified(i) == \E h \in IF secure THEN BOOLEAN ELSE {by_hash[i]} :
                   by_hash' = [by_hash EXCEPT ![i] = h]

(* Mutant: the SBAT list is not loaded.                                    *)
EfiMainNoSbat(i) ==
    /\ InShim(i, {"init"})
    /\ bs' = shim_init(i, bs)
    /\ stack' = [stack EXCEPT ![Len(stack)].step = "first"]
    /\ participating' = [participating EXCEPT ![i] = FALSE]
    /\ retain' = FALSE
    /\ UNCHANGED <<secure, by_hash, last_loaded, sbat_loaded, exit, phase, called, exited>>

(* efi_main up to init_grub: in secure mode the SBAT list is loaded (or    *)
(* the machine is reset), the retain request is dropped, shim_init runs.   *)
(* Installing the protocol may fail, which is fatal.  load_unbundled_trust *)
(* may have verified images, so verification_method is any of its values.  *)
EfiMain(i) ==
    /\ InShim(i, {"init"})
    /\ \/ /\ bs' = shim_init(i, bs)
          /\ stack' = [stack EXCEPT ![Len(stack)].step = "first"]
          /\ sbat_loaded' = [sbat_loaded EXCEPT ![i] = secure]
          /\ participating' = [participating EXCEPT ![i] = IF secure /\ i \in VendorCerts THEN FALSE ELSE @]
          /\ UNCHANGED phase
       \/ phase' = "reset" /\ UNCHANGED <<bs, stack, sbat_loaded, participating>>
    /\ retain' = FALSE
    /\ Verified(i)
    /\ UNCHANGED <<secure, last_loaded, exit, called, exited>>

(* Mutant: the status ends up where the next step belongs.                 *)
AfterStartImageStatus(fr, r) ==
    IF fr.step = "first" /\ r = "denied" THEN "mokmanager" ELSE r

(* Where init_grub goes after start_image returned r in a given step.      *)
AfterStartImage(fr, r) ==
    CASE fr.step = "first" /\ r = "denied" -> "mokmanager"
      [] fr.step = "mokmanager" /\ r = "ok" -> "again"
      [] fr.step \in {"first", "again"} /\ r = "notfound" /\ ~fr.use_fb -> "default"
      [] OTHER -> "fini"

Advance(stk, r) ==
    [stk EXCEPT ![Len(stk)].step = AfterStartImage(stk[Len(stk)], r),
                ![Len(stk)].status = r]

(* Mutant: loader_is_participating is not reset for the new stage.         *)
StartImageKeepsFlag(i) ==
    /\ InShim(i, Starting)
    /\ Len(stack) < MaxDepth
    /\ stack' = Append(stack, NewFrame("stage2", i, "firmware", FALSE, FALSE))
    /\ Verified(i)
    /\ called' = [called EXCEPT ![i] = FALSE]
    /\ UNCHANGED <<bs, secure, retain, participating, last_loaded, sbat_loaded,
                   exit, phase, exited>>

(* start_image: handle_image accepts the file and its entry point is       *)
(* called.                                                                 *)
start_image(i) ==
    /\ InShim(i, Starting)
    /\ Len(stack) < MaxDepth
    /\ stack' = Append(stack, NewFrame("stage2", i, "firmware", FALSE, FALSE))
    /\ participating' = [participating EXCEPT ![i] = FALSE]
    /\ Verified(i)
    /\ called' = [called EXCEPT ![i] = FALSE]
    /\ UNCHANGED <<bs, secure, retain, last_loaded, sbat_loaded, exit, phase, exited>>

(* start_image: the file is missing or refused; one refused for its SBAT   *)
(* section has been through the signature check.                           *)
StartImageFails(i, r) ==
    /\ InShim(i, Starting)
    /\ r # "ok"
    /\ stack' = Advance(stack, r)
    /\ IF r = "denied" THEN Verified(i) ELSE UNCHANGED by_hash
    /\ UNCHANGED <<bs, secure, retain, participating, last_loaded,
                   sbat_loaded, exit, phase, called, exited>>

---------------------------------------------------------------------------
(* Control comes back to whoever started the frame just removed.  low is   *)
(* the stack below it, fr the frame, r its status, b the value of bs.      *)
(* After a StartImage through a shim's hook, replacement_start_image goes  *)
(* on: on an error it reinstalls and rehooks, on success it leaves things  *)
(* as they are.                                                            *)
BackToStarter(low, fr, r, b) ==
    IF fr.via = "firmware"
    THEN /\ bs' = b
         /\ phase' = IF low = <<>> THEN "returned" ELSE phase
         /\ stack' = low
         /\ UNCHANGED participating
    ELSE IF r = "ok"
    THEN bs' = b /\ stack' = low /\ UNCHANGED <<phase, participating>>
    ELSE \/ /\ bs' = hook_system_services(fr.via,
                        IF fr.tracked
                        THEN install_shim_protocols(fr.via, b) ELSE b)
            /\ participating' = [participating EXCEPT ![fr.via] = FALSE]
            /\ stack' = low
            /\ UNCHANGED phase
         \/ /\ fr.tracked
            /\ bs' = b /\ phase' = "reset" /\ stack' = low
            /\ UNCHANGED participating

(* init_grub is over: shim_fini, and efi_main returns.                     *)
EfiMainReturns(i) ==
    /\ InShim(i, {"fini"})
    /\ BackToStarter(Front(stack), Top, Top.status, shim_fini(i, bs))
    /\ sbat_loaded' = [sbat_loaded EXCEPT ![i] = FALSE]
    /\ UNCHANGED <<secure, retain, by_hash, last_loaded, exit, called, exited>>

(* A program's entry point returns: a second stage to start_image, a       *)
(* chain-loaded image to StartImage.                                       *)
ProgramReturns(r) ==
    /\ InProgram
    /\ IF Top.kind = "stage2"
       THEN stack' = Advance(Front(stack), r) /\ UNCHANGED <<bs, phase, participating>>
       ELSE BackToStarter(Front(stack), Top, r, bs)
    /\ UNCHANGED <<secure, retain, by_hash, last_loaded, sbat_loaded, exit, called, exited>>

DriversLoad == secure /\ "drivers" \in habits

(* shim_verify through the first protocol LocateProtocol finds.            *)
shim_verify ==
    /\ InProgram /\ bs.protocols # <<>>
    /\ LET i == Head(bs.protocols) IN
       /\ participating' = [participating EXCEPT ![i] = TRUE]
       /\ called' = [called EXCEPT ![i] = TRUE]
       /\ Verified(i)
    /\ stack' = [stack EXCEPT ![Len(stack)].step = IF DriversLoad THEN "verify" ELSE @]
    /\ UNCHANGED <<bs, secure, retain, last_loaded, sbat_loaded,
                   exit, phase, exited>>

ShimVerifyReturns ==
    /\ Running /\ Top.step = "verify"
    /\ stack' = [stack EXCEPT ![Len(stack)].step = "init"]
    /\ UNCHANGED <<bs, secure, retain, participating, by_hash, last_loaded,
                   sbat_loaded, exit, phase, called, exited>>

(* A frame started through shim i is no longer its last_loaded_image.      *)
Untrack(stk, i) ==
    [k \in DOMAIN stk |-> [stk[k] EXCEPT !.tracked = @ /\ stk[k].via # i]]

(* verify_buffer asks the remote verifier, and send_http_get_request first *)
(* loads the network drivers with LoadImage and StartImage, through the    *)
(* table like anybody: when it is hooked, through load_image and           *)
(* replacement_start_image.  One driver per step: LoadImage refuses it, or *)
(* it is started with status r.                                            *)
load_network_drivers(r) ==
    /\ DriversLoad /\ Running
    /\ Top.step \in Starting \cup {"verify"}
    /\ bs.table["LoadImage"] \in Shims
    /\ LET i == bs.table["LoadImage"]
           u == unhook_system_services(i, bs)
           b == IF retain THEN u ELSE uninstall_shim_protocols(i, u) IN
       /\ stack' = Untrack(stack, i)
       /\ last_loaded' = [last_loaded EXCEPT ![i] = r # "notfound"]
       /\ called' = [called EXCEPT ![i] = @ \/ r # "notfound"]
       /\ \/ r = "notfound" /\ bs' = bs /\ UNCHANGED <<participating, phase>>
          \/ /\ r = "ok" /\ bs' = b
             /\ participating' = [participating EXCEPT ![i] = TRUE]
             /\ UNCHANGED phase
          \/ /\ r = "error" /\ bs' = hook_system_services(i, install_shim_protocols(i, b))
             /\ participating' = [participating EXCEPT ![i] = FALSE]
             /\ UNCHANGED phase
          \/ /\ r = "error" /\ bs' = b /\ phase' = "reset"
             /\ UNCHANGED participating
    /\ UNCHANGED <<secure, retain, by_hash, sbat_loaded, exit, exited>>

(* Mutant: the hooks are put back without having been taken out.           *)
LoadImageHooksTwice(ok) ==
    /\ InProgram /\ bs.table["LoadImage"] \in Shims
    /\ LET i == bs.table["LoadImage"] IN
       /\ bs' = hook_system_services(i, bs)
       /\ last_loaded' = [last_loaded EXCEPT ![i] = ok]
    /\ UNCHANGED <<secure, retain, participating, by_hash, sbat_loaded, stack,
                   exit, phase, called, exited>>

(* LoadImage through a shim's hook: unhook, call, hook again, remember the *)
(* handle, which makes every earlier one stale.  Called straight on the    *)
(* firmware it changes nothing here.                                       *)
load_image(ok) ==
    /\ InProgram /\ bs.table["LoadImage"] \in Shims
    /\ LET i == bs.table["LoadImage"] IN
       /\ bs' = hook_system_services(i, unhook_system_services(i, bs))
       /\ last_loaded' = [last_loaded EXCEPT ![i] = ok]
       /\ stack' = Untrack(stack, i)
    /\ UNCHANGED <<secure, retain, participating, by_hash, sbat_loaded,
                   exit, phase, called, exited>>

(* StartImage of an ordinary image (j = "none") or of another shim.  tr    *)
(* says whether it is the image last loaded through the hook.              *)
OnStack(j) == \E k \in 1 .. Len(stack) : stack[k].shim = j
Child(j, v, tr) ==
    \E f \in BOOLEAN :
        stack' = Append(stack, NewFrame(IF j = "none" THEN "image" ELSE "efi_main", j, v, tr,
                                        f /\ j # "none"))

StartImageDirect(j) ==
    /\ InProgram /\ bs.table["StartImage"] = "firmware"
    /\ Len(stack) < MaxDepth
    /\ Child(j, "firmware", FALSE)
    /\ UNCHANGED <<bs, secure, retain, participating, by_hash, last_loaded,
                   sbat_loaded, exit, phase, called, exited>>

(* Mutant: shim's protocol stays installed while the image runs.           *)
StartImageKeepsProtocol(j, tr) ==
    /\ InProgram /\ bs.table["StartImage"] \in Shims
    /\ Len(stack) < MaxDepth
    /\ LET i == bs.table["StartImage"] IN
       /\ tr /\ last_loaded[i]
       /\ bs' = unhook_system_services(i, bs)
       /\ participating' = [participating EXCEPT ![i] = TRUE]
       /\ called' = [called EXCEPT ![i] = TRUE]
       /\ Child(j, i, tr)
    /\ UNCHANGED <<secure, retain, by_hash, last_loaded, sbat_loaded, exit, phase, exited>>

replacement_start_image(j, tr) ==
    /\ InProgram /\ bs.table["StartImage"] \in Shims
    /\ Len(stack) < MaxDepth
    /\ LET i == bs.table["StartImage"]
           b == unhook_system_services(i, bs) IN
       /\ IF tr THEN last_loaded[i] ELSE "stale" \in habits
       /\ bs' = IF tr /\ ~retain THEN uninstall_shim_protocols(i, b) ELSE b
       /\ participating' = [participating EXCEPT ![i] = @ \/ tr]
       /\ called' = [called EXCEPT ![i] = @ \/ tr]
       /\ Child(j, i, tr)
    /\ UNCHANGED <<secure, retain, by_hash, last_loaded, sbat_loaded, exit, phase, exited>>

(* A second stage sets ShimRetainProtocol.                                 *)
SetRetain ==
    /\ "retain" \in habits /\ InProgram /\ ~retain
    /\ retain' = TRUE
    /\ UNCHANGED <<bs, secure, participating, by_hash, last_loaded, sbat_loaded,
                   stack, exit, phase, called, exited>>

(* ExitBootServices straight on the firmware, or through a shim's hook.    *)
ExitDirect ==
    /\ InProgram /\ bs.table["ExitBootServices"] = "firmware"
    /\ phase' = "os"
    /\ UNCHANGED <<bs, secure, retain, participating, by_hash, last_loaded,
                   sbat_loaded, stack, exit, called, exited>>

exit_boot_services ==
    /\ InProgram /\ bs.table["ExitBootServices"] \in Shims
    /\ LET i == bs.table["ExitBootServices"]
           b == unhook_system_services(i, bs) IN
       IF participating[i] \/ by_hash[i]
       THEN \/ phase' = "os" /\ UNCHANGED bs
            \/ bs' = hook_system_services(i, b) /\ UNCHANGED phase
       ELSE phase' = "reset" /\ UNCHANGED bs
    /\ UNCHANGED <<secure, retain, participating, by_hash, last_loaded,
                   sbat_loaded, stack, exit, called, exited>>

---------------------------------------------------------------------------
(* Exit().  Every shim whose do_exit is in the chain of Exit pointers runs *)
(* shim_fini and calls the next pointer; the firmware then ends the image, *)
(* or refuses, and each do_exit, the last one first, runs shim_init.  The  *)
(* image handle of a second stage is that of the shim that started it.     *)
CallExit(r) ==
    /\ InProgram
    /\ Len(stack) > 2 => "exit" \in habits
    /\ exit' = [dir |-> "down", chain |-> <<>>, status |-> r]
    /\ UNCHANGED <<bs, secure, retain, participating, by_hash, last_loaded,
                   sbat_loaded, stack, phase, called, exited>>

do_exit ==
    /\ phase = "run" /\ exit.dir = "down" /\ bs.table["Exit"] \in Shims
    /\ LET i == bs.table["Exit"] IN
       /\ bs' = shim_fini(i, bs)
       /\ sbat_loaded' = [sbat_loaded EXCEPT ![i] = FALSE]
       /\ exit' = [exit EXCEPT !.chain = Append(@, i)]
       /\ exited' = exited \cup {i}
    /\ UNCHANGED <<secure, retain, participating, by_hash, last_loaded, stack,
                   phase, called>>

FirmwareExit ==
    /\ phase = "run" /\ exit.dir = "down" /\ bs.table["Exit"] = "firmware"
    /\ LET n  == IF Top.kind = "stage2" THEN Len(stack) - 1 ELSE Len(stack)
       IN  BackToStarter(SubSeq(stack, 1, n - 1), stack[n], exit.status, bs)
    /\ exit' = NoExit
    /\ UNCHANGED <<secure, retain, by_hash, last_loaded, sbat_loaded, called, exited>>

FirmwareRefusesExit ==
    /\ "refuse" \in habits
    /\ phase = "run" /\ exit.dir = "down" /\ bs.table["Exit"] = "firmware"
    /\ exit' = IF exit.chain = <<>> THEN NoExit ELSE [exit EXCEPT !.dir = "up"]
    /\ UNCHANGED <<bs, secure, retain, participating, by_hash, last_loaded,
                   sbat_loaded, stack, phase, called, exited>>

DoExitFailed ==
    /\ phase = "run" /\ exit.dir = "up"
    /\ LET i == Last(exit.chain) IN
       \/ /\ bs' = shim_init(i, bs)
          /\ participating' = [participating EXCEPT ![i] = IF secure /\ i \in VendorCerts THEN FALSE ELSE @]
          /\ exit' = IF Len(exit.chain) = 1 THEN NoExit
                     ELSE [exit EXCEPT !.chain = Front(@)]
          /\ UNCHANGED phase
       \/ phase' = "reset" /\ UNCHANGED <<bs, participating, exit>>
    /\ UNCHANGED <<secure, retain, by_hash, last_loaded, sbat_loaded, stack, called, exited>>

Step ==
    \/ \E i \in Shims :
         \/ EfiMain(i) \/ EfiMainReturns(i) \/ start_image(i)
         \/ \E r \in Results : StartImageFails(i, r)
    \/ \E r \in Results : ProgramReturns(r) \/ CallExit(r)
    \/ shim_verify \/ ShimVerifyReturns \/ SetRetain
    \/ \E r \in {"ok", "error", "notfound"} : load_network_drivers(r)
    \/ \E ok \in BOOLEAN : load_image(ok)
    \/ \E j \in {"none"} \cup {k \in Shims \ {First} : ~OnStack(k) /\ bs.saved[k]["Exit"] = "null"} :
         \/ StartImageDirect(j)
         \/ \E tr \in BOOLEAN : replacement_start_image(j, tr)
    \/ ExitDirect \/ exit_boot_services
    \/ do_exit \/ FirmwareExit \/ FirmwareRefusesExit \/ DoExitFailed

Next == Step /\ UNCHANGED habits

Spec == Init /\ [][Next]_vars

---------------------------------------------------------------------------
(* Properties                                                              *)

(* The shims that are in memory.                                           *)
Alive == {stack[k].shim : k \in DOMAIN stack} \cap Shims

(* Following the pointers from the table through the saved ones always     *)
(* leads to the firmware, past shims that are still there: no service is   *)
(* NULL or in an image that is gone, and no shim has saved its own hook as *)
(* the system's service, however calls are nested, fail and are refused.   *)
(* Nor is a protocol left whose shim is gone.  So when the first shim      *)
(* gives control back to the firmware, nothing of any shim is left in the  *)
(* table or in the protocol database.                                      *)
ChainsEndInFirmware ==
    /\ \A x \in Services : \E n \in 0 .. Len(stack) : \E c \in [1 .. n -> Alive] :
          LET path == Append(c, "firmware")
          IN  path[1] = bs.table[x] /\ \A k \in 1 .. n : path[k + 1] = bs.saved[c[k]][x]
    /\ Range(bs.protocols) \subseteq Alive

(* No program does more than bring network drivers.                        *)
Usual == habits \subseteq {"drivers"}

(* The situation the comment in install_shim_protocols wants to prevent:   *)
(* the program gets one shim's protocol but another shim's table hooks, so *)
(* that "even though it will participate and verify the kernel, the systab *)
(* never finds out".  Neither a program that retains the protocol nor one  *)
(* whose Exit() was refused is meant.                                      *)
ProtocolMatchesHooks ==
    Usual /\ InProgram /\ bs.table["ExitBootServices"] \in Shims /\ bs.protocols # <<>> =>
        Head(bs.protocols) = bs.table["ExitBootServices"]

(* SBAT is mandatory for binaries loaded by shim: in secure mode a program *)
(* never finds the protocol of a shim whose list is empty, nor does such a *)
(* shim start an image, whatever programs do and however shims come and    *)
(* go.  A shim whose do_exit ran has freed its list, and has not loaded it *)
(* again when the Exit() was refused: it is exempt.                        *)
SbatMandatory ==
    secure => \A i \in Shims :
        i \in Range(bs.protocols) \/ InShim(i, Starting) => sbat_loaded[i] \/ i \in exited

(* What is started finds the protocol and the hooks of one shim, and is    *)
(* verified against a list (ProtocolMatchesHooks, SbatMandatory), however  *)
(* two shims start and leave each other.                                   *)
GuardedBoot == ProtocolMatchesHooks /\ SbatMandatory

(* Boot services are never left through shim's hook by a second stage that *)
(* has not called into shim since it was started, unless shim has verified *)
(* something by hash.                                                      *)
ExitNeedsParticipation ==
    [][phase' = "os" => \A i \in Shims :
          bs.table["ExitBootServices"] = i => called[i] \/ by_hash[i]]_vars

(* What the comments in efi_main and shim_init promise of the first stage  *)
(* shim starts: it can "call back in and use shim functions", and when     *)
(* shim has certificates of its own, anything it boots is made to          *)
(* validate the next image, that is, ExitBootServices is hooked.           *)
FirstStageGuarded ==
    [][\A i \in Shims :
          InShim(i, {"first"}) /\ Len(stack') > Len(stack) =>
              /\ i \in Range(bs'.protocols)
              /\ secure /\ i \in VendorCerts => bs'.table["ExitBootServices"] = i]_vars
=============================================================================
