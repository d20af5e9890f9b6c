------------------------------ MODULE Fallback ------------------------------
(***************************************************************************)
(* fallback.c.  When no entry of BootOrder starts anything, the firmware   *)
(* boots \EFI\BOOT\BOOTX64.EFI, which is shim, and shim starts fallback.   *)
(* Fallback reads the CSV files of the directories under \EFI, finds or    *)
(* creates a Boot#### variable for each of their rows, puts these in front *)
(* of BootOrder, and then starts the first of them or resets the machine.  *)
(* The module follows a machine through many boots, with calls that fail,  *)
(* power cuts, and firmware that forgets or hides entries.                 *)
(***************************************************************************)
EXTENDS Integers, Sequences, SequencesExt, FiniteSets, FiniteSetsExt

CONSTANTS
    MaxNumber,   \* the largest number of an entry, 0xffff in the code
    Rows,        \* what an entry can be for: a file, a label and arguments
    Malformed,   \* rows whose file or label is empty
    Short,       \* rows with fewer than two commas
    Bootable,    \* rows whose file starts an operating system
    Disks,       \* directories under \EFI, as sequences
    Stores,      \* entries and orders found at first
    MaxFaults,   \* calls that may fail
    MaxLosses    \* power cuts, and entries lost or hidden by the firmware

Numbers == 0 .. MaxNumber
Free    == "free"

(* A directory is the sequence of its CSV files in the order fallback      *)
(* tries them, BOOTX64.CSV before BOOT.CSV, and a file a sequence of rows. *)
(* What a row with too few commas does to a second such row is not         *)
(* modelled.                                                               *)
ASSUME FallbackAssumption ==
    /\ MaxNumber \in Nat /\ MaxFaults \in Nat /\ MaxLosses \in Nat
    /\ Free \notin Rows
    /\ Malformed \subseteq Rows /\ Short \subseteq Rows /\ Bootable \subseteq Rows
    /\ Malformed \cap Short = {}
    /\ Disks \subseteq Seq(Seq(Seq(Rows)))
    /\ \A disk \in Disks : \A d \in Range(disk) : \A f \in Range(d) :
            Cardinality({k \in DOMAIN f : f[k] \in Short}) <= 1
    /\ Stores \subseteq [entries : [Numbers -> Rows \cup {Free}], order : Seq(Numbers)]

VARIABLES
    entries, hidden,    \* the Boot#### variables, and those that are masked
    order,              \* the variable BootOrder; empty when there is none
    no_reboot,          \* the variable FB_NO_REBOOT
    disk, tpm,          \* the machine
    pc,
    dirs, files, todo,  \* what is left of the disk, a directory and a file
    i,                  \* add_boot_option's static variable
    bootorder,
    first_new_option,
    before,             \* history: the store as fallback found it
    trouble,            \* history: something failed in this boot
    doubled,            \* history: rows whose entries could not be looked up
    unread,             \* history: numbers overwritten because they could not be read
    faults, losses

nvram    == <<entries, hidden, order, no_reboot>>
machine  == <<disk, tpm>>
scan     == <<dirs, files, todo>>
lists    == <<i, bootorder, first_new_option, unread>>
counts   == <<faults, losses>>
vars     == <<nvram, machine, pc, scan, lists, before, trouble, doubled, counts>>

(* Each step either works or is one of the calls that fail.                *)
Works == UNCHANGED <<faults, trouble>>
Fails == faults < MaxFaults /\ faults' = faults + 1 /\ trouble' = TRUE

Goto(p) == pc' = p
Blank   == [entries |-> [n \in Numbers |-> Free], order |-> <<>>, stored |-> <<>>]

(* What was in memory is gone.                                             *)
Leave(p) == /\ pc' = p
            /\ dirs' = <<>> /\ files' = <<>> /\ todo' = <<>>
            /\ i' = 0 /\ bootorder' = <<>> /\ first_new_option' = Free
            /\ before' = Blank /\ trouble' = FALSE /\ unread' = {}

Init == /\ \E s \in Stores : entries = s.entries /\ order = s.order
        /\ disk \in Disks /\ tpm \in BOOLEAN
        /\ hidden = {} /\ no_reboot = FALSE
        /\ pc = "firmware"
        /\ dirs = <<>> /\ files = <<>> /\ todo = <<>>
        /\ i = 0 /\ bootorder = <<>> /\ first_new_option = Free
        /\ before = Blank /\ trouble = FALSE /\ doubled = {} /\ unread = {}
        /\ faults = 0 /\ losses = 0

---------------------------------------------------------------------------
(* The firmware's boot manager and the operating system *)

Starts(n) == entries[n] \in Bootable

FirmwareBoots == /\ pc = "firmware"
                 /\ \E n \in Range(order) : Starts(n)
                 /\ Leave("os")
                 /\ UNCHANGED <<nvram, machine, doubled, counts>>

(* A BootOrder that cannot be read is as good as none.                     *)
set_boot_order(read) ==
    /\ bootorder' = read
    /\ before' = [entries |-> entries, order |-> read, stored |-> order]

(* shim is started from \EFI\BOOT and looks for fallback.efi there.        *)
should_use_fallback ==
    /\ pc = "firmware"
    /\ ~ \E n \in Range(order) : Starts(n)
    /\ \/ /\ Goto("scan") /\ dirs' = disk
          /\ files' = <<>> /\ todo' = <<>> /\ i' = 0 /\ first_new_option' = Free /\ unread' = {}
          /\ \/ set_boot_order(order) /\ trouble' = FALSE /\ UNCHANGED faults
             \/ set_boot_order(<<>>) /\ Fails
       \/ /\ faults < MaxFaults /\ faults' = faults + 1
          /\ Leave("off")
    /\ UNCHANGED <<nvram, machine, doubled, losses>>

PowerOn == /\ pc = "off" /\ Goto("firmware")
           /\ UNCHANGED <<nvram, machine, scan, lists, before, trouble, doubled, counts>>

Reboot == /\ pc = "os" /\ Leave("firmware")
          /\ UNCHANGED <<nvram, machine, doubled, counts>>

(* The reasons fallback exists: BootOrder is lost, or an entry, or the     *)
(* firmware masks an entry.                                                *)
FirmwareForgets ==
    /\ pc = "os" /\ losses < MaxLosses
    /\ \/ order # <<>> /\ order' = <<>> /\ UNCHANGED <<entries, hidden>>
       \/ \E n \in Numbers :
            /\ entries[n] # Free
            /\ \/ /\ entries' = [entries EXCEPT ![n] = Free]
                  /\ hidden' = hidden \ {n}
               \/ n \notin hidden /\ hidden' = hidden \cup {n} /\ UNCHANGED entries
            /\ UNCHANGED order
    /\ losses' = losses + 1
    /\ UNCHANGED <<no_reboot, machine, pc, scan, lists, before, trouble, doubled, faults>>

PowerLoss == /\ pc \notin {"firmware", "off", "os"} /\ losses < MaxLosses
             /\ Leave("off") /\ losses' = losses + 1
             /\ UNCHANGED <<nvram, machine, doubled, faults>>

---------------------------------------------------------------------------
(* Reading the disk *)

(* The elements of s that are not in S, in their order.                    *)
Without(s, S) ==
    LET kept[k \in 0 .. Len(s)] ==
            IF k = 0 THEN <<>> ELSE IF s[k] \in S THEN kept[k - 1] ELSE Append(kept[k - 1], s[k])
    IN  kept[Len(s)]

(* With a comma missing, a row's last field is taken from the next line,   *)
(* whose first comma becomes a terminator: that line is still parsed, and  *)
(* then the end of the file seems to be reached.                           *)
Parsed(file) ==
    LET k    == SelectInSeq(file, LAMBDA r : r \in Short)
        read == IF k \in {0, Len(file)} THEN file ELSE SubSeq(file, 1, k + 1)
    IN  Without(read, Malformed)

(* An entry of \EFI that is a directory; one that cannot be opened or      *)
(* listed is passed over.  When \EFI itself cannot be read, or memory runs *)
(* out, fallback returns without looking at BootOrder again.               *)
OpenDirectory ==
    /\ pc = "scan" /\ dirs # <<>> /\ files = <<>> /\ todo = <<>>
    /\ \/ dirs' = Tail(dirs) /\ files' = Head(dirs) /\ Works /\ UNCHANGED <<pc, todo, lists, before>>
       \/ dirs' = Tail(dirs) /\ Fails /\ UNCHANGED <<pc, files, todo, lists, before>>
       \/ faults < MaxFaults /\ faults' = faults + 1 /\ Leave("off")
    /\ UNCHANGED <<nvram, machine, doubled, losses>>

(* BOOT.CSV is read when there is no BOOTX64.CSV, or it cannot be read.    *)
try_boot_csv ==
    /\ pc = "scan" /\ files # <<>> /\ todo = <<>>
    /\ \/ todo' = Parsed(Head(files)) /\ files' = <<>> /\ Works
       \/ files' = Tail(files) /\ Fails /\ UNCHANGED todo
    /\ UNCHANGED <<nvram, machine, pc, dirs, lists, before, doubled, losses>>

---------------------------------------------------------------------------
(* A row *)

Row == Head(todo)

(* Mutant: an entry the firmware has masked is not recognised.             *)
MatchesShown(r) == {n \in Numbers : entries[n] = r /\ n \notin hidden}

(* find_boot_option compares everything that makes up the entry; masked    *)
(* entries are recognised by check_masked_boot_option.  The firmware lists *)
(* its variables in any order.                                             *)
Matches(r) == {n \in Numbers : entries[n] = r}

KeepFirst == first_new_option' = IF first_new_option = Free THEN Row ELSE first_new_option

(* Mutants: the entry stays where it was too; the entry behind it is lost; *)
(* an entry that is in no order is left out of it.                         *)
ToFrontTwice(n)   == <<n>> \o bootorder
ToFrontLosing(n)  ==
    LET k == SelectInSeq(bootorder, LAMBDA m : m = n)
    IN  IF k = 0 THEN <<n>> \o bootorder
        ELSE <<n>> \o SubSeq(bootorder, 1, k - 1) \o SubSeq(bootorder, k + 2, Len(bootorder))
ToFrontListed(n)  == IF n \in Range(bootorder) THEN <<n>> \o Remove(bootorder, n) ELSE bootorder

(* Only the first place the number stands at is closed.                    *)
ToFront(n) ==
    LET k == SelectInSeq(bootorder, LAMBDA m : m = n)
    IN  <<n>> \o (IF k = 0 THEN bootorder ELSE RemoveAt(bootorder, k))

(* find_boot_option's errors, whatever they are, mean that there is no     *)
(* entry yet.                                                              *)
add_to_boot_list ==
    /\ pc = "scan" /\ todo # <<>>
    /\ \/ /\ \E n \in Matches(Row) : bootorder' = ToFront(n)
          /\ KeepFirst /\ todo' = Tail(todo) /\ Works
          /\ UNCHANGED <<pc, doubled>>
       \/ /\ Matches(Row) = {}
          /\ Goto("add") /\ Works
          /\ UNCHANGED <<todo, bootorder, first_new_option, doubled>>
       \/ /\ Fails                         \* no path
          /\ todo' = Tail(todo)
          /\ UNCHANGED <<pc, bootorder, first_new_option, doubled>>
       \/ /\ Fails /\ Matches(Row) # {}    \* no memory for the new order
          /\ KeepFirst /\ todo' = Tail(todo)
          /\ UNCHANGED <<pc, bootorder, doubled>>
       \/ /\ Fails                         \* no answer to the lookup
          /\ Goto("add") /\ doubled' = doubled \cup {Row}
          /\ UNCHANGED <<todo, bootorder, first_new_option>>
    /\ UNCHANGED <<nvram, machine, dirs, files, i, unread, before, losses>>

(* Mutant: the loop over the numbers goes one too far.                     *)
FreeNumbersPast == {n \in i .. MaxNumber + 1 : n > MaxNumber \/ entries[n] = Free}

FreeNumbers == {n \in i .. MaxNumber : entries[n] = Free}

(* A new entry takes the first number that cannot be read as a variable.   *)
(* It is the one to start even if it cannot be written.  (Without memory   *)
(* for its data it is as if its path could not be made, above.)            *)
add_boot_option ==
    /\ pc = "add" /\ Goto("scan") /\ todo' = Tail(todo)
    /\ \/ /\ FreeNumbers = {}
          /\ i' = MaxNumber + 1 /\ trouble' = TRUE
          /\ UNCHANGED <<entries, hidden, bootorder, first_new_option, unread, faults>>
       \/ \E n \in i .. MaxNumber + 1 :
          /\ KeepFirst /\ i' = n
          /\ \/ /\ FreeNumbers # {} /\ n = Min(FreeNumbers) /\ Works
                /\ entries' = [entries EXCEPT ![n] = Row]
                /\ bootorder' = <<n>> \o bootorder
                /\ UNCHANGED <<hidden, unread>>
             \/ /\ FreeNumbers # {} /\ n = Min(FreeNumbers) /\ Fails    \* not written
                /\ UNCHANGED <<entries, hidden, bootorder, unread>>
             \/ /\ FreeNumbers # {} /\ n = Min(FreeNumbers) /\ Fails    \* no memory
                /\ entries' = [entries EXCEPT ![n] = Row]
                /\ UNCHANGED <<hidden, bootorder, unread>>
             \/ /\ \A m \in FreeNumbers : n < m                         \* not read
                /\ n \in Numbers /\ Fails
                /\ entries' = [entries EXCEPT ![n] = Row]
                /\ hidden' = hidden \ {n} /\ unread' = unread \cup {n}
                /\ bootorder' = <<n>> \o bootorder
    /\ UNCHANGED <<order, no_reboot, machine, dirs, files, before, doubled, losses>>

---------------------------------------------------------------------------
(* The order, and what comes next *)

Scanned == pc = "scan" /\ dirs = <<>> /\ files = <<>> /\ todo = <<>>

(* update_boot_order deletes the variable before it writes it.             *)
DeleteOrder ==
    /\ Scanned
    /\ \/ bootorder = <<>> /\ Goto("decide") /\ Works /\ UNCHANGED <<order, scan, lists, before>>
       \/ bootorder # <<>> /\ order' = <<>> /\ Goto("write") /\ Works /\ UNCHANGED <<scan, lists, before>>
       \/ /\ bootorder # <<>> /\ faults < MaxFaults /\ faults' = faults + 1
          /\ Leave("off") /\ UNCHANGED order
    /\ UNCHANGED <<entries, hidden, no_reboot, machine, doubled, losses>>

(* Mutant: nothing is written if there was no order before.                *)
NewOrderKept == IF before.order = <<>> THEN <<>> ELSE bootorder

NewOrder == bootorder

WriteOrder ==
    /\ pc = "write"
    /\ \/ order' = NewOrder /\ Goto("decide") /\ Works /\ UNCHANGED <<scan, lists, before>>
       \/ faults < MaxFaults /\ faults' = faults + 1 /\ Leave("off") /\ UNCHANGED order
    /\ UNCHANGED <<entries, hidden, no_reboot, machine, doubled, losses>>

(* With a TPM a reset is preferred, so that its registers show a boot      *)
(* without fallback, unless the user has asked to be spared.               *)
Decide == /\ pc = "decide"
          /\ Goto(CASE ~tpm -> "start" [] tpm /\ no_reboot -> "try" [] OTHER -> "countdown")
          /\ UNCHANGED <<nvram, machine, scan, lists, before, trouble, doubled, counts>>

(* What is started does not return.  When it cannot be, the countdown      *)
(* follows after the first attempt and the reset after the last.           *)
try_start_first_option ==
    /\ pc \in {"try", "start"}
    /\ \/ first_new_option \in Bootable /\ Leave("os")
       \/ first_new_option \notin Bootable /\ pc = "start" /\ Leave("firmware")
       \/ /\ first_new_option \notin Bootable /\ pc = "try" /\ Goto("countdown")
          /\ UNCHANGED <<scan, lists, before, trouble>>
    /\ UNCHANGED <<nvram, machine, doubled, counts>>

(* Nobody presses a key, or one of the three choices.                      *)
Countdown ==
    /\ pc = "countdown"
    /\ \/ Leave("firmware") /\ UNCHANGED <<no_reboot, faults>>
       \/ Goto("start") /\ UNCHANGED <<no_reboot, scan, lists, before, trouble, faults>>
       \/ Goto("start") /\ no_reboot' = TRUE /\ UNCHANGED <<scan, lists, before, trouble, faults>>
       \/ faults < MaxFaults /\ faults' = faults + 1 /\ Leave("firmware") /\ UNCHANGED no_reboot
    /\ UNCHANGED <<entries, hidden, order, machine, doubled, losses>>

Step == \/ FirmwareBoots \/ should_use_fallback \/ PowerOn \/ Reboot
        \/ OpenDirectory \/ try_boot_csv \/ add_to_boot_list \/ add_boot_option
        \/ DeleteOrder \/ WriteOrder \/ Decide \/ try_start_first_option \/ Countdown

Next == Step \/ FirmwareForgets \/ PowerLoss

(* The machine is used, and fallback is a sequential program.              *)
Spec == Init /\ [][Next]_vars /\ WF_vars(Step)

---------------------------------------------------------------------------
TypeOK ==
    /\ entries \in [Numbers -> Rows \cup {Free}] /\ hidden \subseteq Numbers
    /\ order \in Seq(Numbers) /\ bootorder \in Seq(Numbers)
    /\ no_reboot \in BOOLEAN /\ tpm \in BOOLEAN /\ trouble \in BOOLEAN
    /\ disk \in Disks
    /\ pc \in {"firmware", "off", "os", "scan", "add", "write", "decide", "try", "start", "countdown"}
    /\ dirs \in Seq(Seq(Seq(Rows))) /\ files \in Seq(Seq(Rows)) /\ todo \in Seq(Rows)
    /\ pc = "add" => todo # <<>>
    /\ i \in 0 .. MaxNumber + 1
    /\ first_new_option \in Rows \cup {Free} /\ doubled \subseteq Rows /\ unread \subseteq Numbers
    /\ faults \in 0 .. MaxFaults /\ losses \in 0 .. MaxLosses

(* Fallback has carried out its work, whatever failed on the way.          *)
Updated == pc \in {"decide", "try", "start", "countdown"}

(* The rows fallback is to handle, and all it can come across.             *)
Wanted == UNION {Range(Parsed(Head(d))) : d \in Range(disk) \ {<<>>}}
RowsOf(d) == UNION {UNION {Range(f) : f \in Range(e)} : e \in Range(d)}
OnDisk == RowsOf(disk)

(* When nothing failed, there is an entry for every row of every CSV file, *)
(* old or new, masked or lost from BootOrder, and it comes in BootOrder    *)
(* before all entries that are for something else.                         *)
RowsFirst ==
    Updated /\ ~trouble =>
        \A r \in Wanted : \E k \in DOMAIN order :
            /\ entries[order[k]] = r
            /\ \A j \in 1 .. k - 1 : entries[order[j]] \in Wanted

(* Running fallback again, after a power cut anywhere or with entries the  *)
(* firmware has masked, creates no second entry for the same row, unless   *)
(* the first could not be looked up.                                       *)
NoDuplicateEntries ==
    \A m, n \in Numbers : entries[m] = entries[n] /\ entries[m] \in OnDisk \ doubled => m = n

(* No row of a disk has two entries at first.                              *)
FoundOnce ==
    \A s \in Stores, d \in Disks, m, n \in Numbers :
        s.entries[m] = s.entries[n] /\ s.entries[m] \in RowsOf(d) => m = n

(* The entries fallback does not handle stay in BootOrder, in the order in *)
(* which they were read, also when calls fail in between; or, when it has  *)
(* read none and found none, BootOrder stays as it is.  No number is       *)
(* repeated, unless it stood there twice, or without an entry, or its      *)
(* entry could not be read.                                                *)
Repeated(s, n) == \E j, k \in DOMAIN s : j # k /\ s[j] = n /\ s[k] = n
OthersKeepTheirOrder ==
    LET Others(s) == Without(s, {n \in Numbers : entries[n] \in OnDisk})
    IN  Updated =>
           /\ Others(order) = Others(before.order) \/ order = before.stored
           /\ \A n \in Numbers \ unread :
                  Repeated(order, n) =>
                      \/ Repeated(before.stored, n)
                      \/ n \in Range(before.stored) /\ before.entries[n] = Free

(* Once nothing fails any more the machine boots, again and again, unless  *)
(* no number is left for an entry that could start.                        *)
Full == /\ \A n \in Numbers : entries[n] # Free
        /\ \A n \in Numbers : entries[n] \notin Wanted \cap Bootable
BootsUnlessFull == []<>(pc = "os" \/ Full)
=============================================================================
