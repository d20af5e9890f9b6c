----------------------------- MODULE MokMirror -----------------------------
(***************************************************************************)
(* import_mok_state of mok.c: in two passes over the table of MOK          *)
(* variables, shim checks each boot-services variable, deletes the ones    *)
(* with the wrong attributes, copies the others to volatile variables the  *)
(* operating system can read, splitting key databases that are too large,  *)
(* measures them, and sets the flags they control.  Between the passes it  *)
(* copies everything to a configuration table, and after them it may run   *)
(* MokManager.  efi_main then decides whether the boot goes on.            *)
(***************************************************************************)
EXTENDS Integers, Sequences, SequencesExt, FiniteSets, FiniteSetsExt

CONSTANTS
    Ids,        \* what tells the signature lists apart
    Configs,    \* variables, built-in lists and firmware of a boot
    Faults      \* the kinds of faults the firmware may have

FaultKinds == {"read", "delete", "set", "query", "tpm", "nomem", "table", "request"}

ASSUME FaultsAssumption == Faults \subseteq FaultKinds

---------------------------------------------------------------------------
(* The table of variables: mok_state_variable_data *)

Order == <<"MokList", "MokListX", "MokSBState", "MokDBState", "SbatLevel",
           "MokListTrusted", "MokPolicy">>
Vars  == Range(Order)

KeyDb       == {"MokList", "MokListX"}
DeleteFirst == Vars \ {"MokDBState"}
Measured    == {"MokSBState", "SbatLevel"}
Logged      == Vars \ {"MokDBState", "SbatLevel"}
Inverted     == {"MokListTrusted"}
HasState    == {"MokSBState", "MokDBState", "MokListTrusted", "MokPolicy"}

(* The length of the name of the volatile copy.                            *)
RtNameLen == [v \in Vars |->
    CASE v = "MokList" -> 9 [] v = "MokListX" -> 10 [] v = "MokSBState" -> 12
      [] v = "MokListTrusted" -> 16 [] OTHER -> 11]

---------------------------------------------------------------------------
(* Data.  A key database is a sequence of signature lists [id, n, size]:   *)
(* n signatures of size bytes each, after a header.  The other variables   *)
(* are sequences of bytes.                                                 *)

Header  == 28                  \* sizeof(EFI_SIGNATURE_LIST)
MinSize == Header + 17 + 20    \* a header and a SHA-1 signature
NullSha == <<[id |-> "null", n |-> 1, size |-> 48]>>

SignatureList == [id : Ids \union {"null"}, n : Nat, size : Nat]

EslSize(e) == Header + e.n * e.size

(* Where each signature list of a database ends.                           *)
Ends(db) == LET end[k \in 0 .. Len(db)] == IF k = 0 THEN 0 ELSE end[k - 1] + EslSize(db[k])
            IN  end

DbSize(db) == Ends(db)[Len(db)]

Signatures(db) == UNION {{<<db[k].id, j>> : j \in 1 .. db[k].n} : k \in DOMAIN db}

(* A configuration: the stored variables, what is prepended to the key     *)
(* databases (vendor list, build certificate, user certificates), which    *)
(* variables cannot be deleted, copies left by someone else and their      *)
(* sizes, the largest variable and how QueryVariableInfo reports it,       *)
(* whether the firmware counts a variable's name, whether Secure Boot is   *)
(* on, and a bound on the number of faults in the boot.                    *)
ASSUME ConfigsAssumption ==
    \A c \in Configs :
        /\ DOMAIN c.nv = Vars
        /\ \A v \in Vars : c.nv[v].here \in BOOLEAN /\ c.nv[v].good \in BOOLEAN
        /\ \A v \in KeyDb : c.nv[v].data \in Seq(SignatureList) /\ c.addend[v] \in Seq(SignatureList)
        /\ \A v \in Vars \ KeyDb : c.nv[v].data \in Seq(0 .. 255)
        /\ c.max \in Nat /\ c.query \in {"static", "dynamic", "unsupported"}
        /\ c.named \in BOOLEAN /\ c.sb \in BOOLEAN 
        /\ DOMAIN c.foreign \subseteq Vars /\ \A v \in DOMAIN c.foreign : c.foreign[v] \in Nat
        /\ c.locked \subseteq Vars /\ c.faults \in Nat

VARIABLES
    conf,       \* the configuration of this boot
    nv,         \* the boot-services variables
    rt,         \* the volatile copies: <<variable, number>> -> contents
    data,       \* v->data
    state,      \* what v->state points to: user_insecure_mode, ignore_db, ...
    measured,   \* variables measured
    table,      \* the configuration table
    pc,         \* where import_mok_state is
    pass,       \* 1: only_first, 2: the full state
    cur,        \* index of the variable being imported
    one,        \* ret of import_one_mok_state
    status,     \* efi_status of mirror_one_mok_variable
    ret,        \* ret of import_mok_state
    full,       \* FullData
    at,         \* the loop of mirror_mok_db: list, signature, number, did_one
    trouble,    \* what has gone wrong in this boot
    faults      \* faults left

vars == <<conf, nv, rt, data, state, measured, table, pc, pass, cur, one, status,
          ret, full, at, trouble, faults>>

boot == <<nv, data, state, measured, table>>
loop == <<full, at>>

Cur == Order[cur]
Status == {"SUCCESS", "SECURITY_VIOLATION", "OUT_OF_RESOURCES", "INVALID_PARAMETER",
           "DEVICE_ERROR"}
Absent == [here |-> FALSE, good |-> TRUE, data |-> <<>>]
Start == [k |-> 1, j |-> 0, i |-> 0, did |-> FALSE]

Fault(kind) ==
    /\ kind \in Faults /\ faults > 0
    /\ faults' = faults - 1
    /\ trouble' = trouble \union {kind}

Ok == UNCHANGED <<faults, trouble>>

(* Mutant: the last error wins.                                            *)
CombineClobbers(r, s) == IF s = "SUCCESS" THEN r ELSE s

(* An error never overwrites a security violation.                         *)
Combine(r, s) == IF s = "SUCCESS" \/ r = "SECURITY_VIOLATION" THEN r ELSE s



---------------------------------------------------------------------------
(* The firmware's volatile variables *)

Digits(i) == IF i < 10 THEN 1 ELSE 2
NameSize(x) == 2 * (RtNameLen[x[1]] + (IF x[2] = 0 THEN 0 ELSE Digits(x[2])) + 1)

Used == MapThenSumSet(LAMBDA x : rt[x].size + NameSize(x), DOMAIN rt)

(* get_max_var_sz                                                          *)
MaxVar == IF conf.query = "dynamic" THEN Max({conf.max - Used, 0}) ELSE conf.max

Fits(x, size) == size + (IF conf.named THEN NameSize(x) ELSE 0) <= MaxVar

Present(x) == x \in DOMAIN rt

(* SetVariable: a variable of someone else's has other attributes, and     *)
(* cannot be overwritten.                                                  *)
SetVariable(x, size, sigs) ==
    \/ /\ Fits(x, size) /\ ~(Present(x) /\ ~rt[x].ours)
       /\ rt' = [y \in DOMAIN rt \union {x} |->
                    IF y = x THEN [size |-> size, sigs |-> sigs, ours |-> TRUE] ELSE rt[y]]
       /\ status' = "SUCCESS"
       /\ Ok
    \/ /\ ~Fits(x, size) \/ (Present(x) /\ ~rt[x].ours)
       /\ status' = IF Fits(x, size) THEN "INVALID_PARAMETER" ELSE "OUT_OF_RESOURCES"
       /\ trouble' = trouble \union {"set"}
       /\ UNCHANGED <<rt, faults>>
    \/ /\ Fault("set")
       /\ status' \in {"OUT_OF_RESOURCES", "INVALID_PARAMETER", "DEVICE_ERROR"}
       /\ UNCHANGED rt

---------------------------------------------------------------------------
(* import_one_mok_state *)

Init ==
    /\ conf \in Configs
    /\ nv = conf.nv
    /\ rt = [x \in {<<v, 0>> : v \in DOMAIN conf.foreign} |->
                 [size |-> conf.foreign[x[1]], sigs |-> {}, ours |-> FALSE]]
    /\ data = [v \in Vars |-> <<>>]
    /\ state = [v \in HasState |-> 0]
    /\ measured = {} /\ table = [v \in Vars |-> <<>>]
    /\ pc = "import" /\ pass = 1 /\ cur = 1
    /\ one = "SUCCESS" /\ status = "SUCCESS" /\ ret = "SUCCESS"
    /\ full = <<>> /\ at = Start
    /\ trouble = {} /\ faults = conf.faults

Reading == pc = "import" /\ data[Cur] = <<>>

(* The variable was read in the first pass, or is not there and needs no   *)
(* default.                                                                *)
NothingToRead ==
    /\ pc = "import"
    /\ data[Cur] # <<>> \/ (~nv[Cur].here /\ Cur \notin Inverted)
    /\ one' = "SUCCESS" /\ pc' = "delete" /\ Ok
    /\ UNCHANGED <<conf, boot, rt, pass, cur, status, ret, loop>>

DefaultInverse ==
    /\ Reading /\ ~nv[Cur].here /\ Cur \in Inverted
    /\ \/ /\ data' = [data EXCEPT ![Cur] = <<1>>]
          /\ one' = "SUCCESS" /\ pc' = "delete" /\ Ok
       \/ /\ one' = "OUT_OF_RESOURCES" /\ pc' = "next" /\ Fault("nomem")
          /\ UNCHANGED data
    /\ UNCHANGED <<conf, nv, state, measured, table, rt, pass, cur, status, ret, loop>>

(* Mutant: attributes are not looked at.                                   *)
AcceptableAny(v) == nv[v].here

Acceptable(v) == nv[v].here /\ nv[v].good


ReadGood ==
    /\ Reading /\ Acceptable(Cur)
    /\ data' = [data EXCEPT ![Cur] = IF Cur \in Inverted THEN <<>> ELSE nv[Cur].data]
    /\ one' = "SUCCESS" /\ pc' = "delete" /\ Ok
    /\ UNCHANGED <<conf, nv, state, measured, table, rt, pass, cur, status, ret, loop>>

(* A variable with the wrong attributes, or one that cannot be read, is    *)
(* deleted.                                                                *)
DeleteBad ==
    /\ Reading /\ nv[Cur].here
    /\ one' = "SUCCESS" /\ pc' = "delete"
    /\ Cur \notin conf.locked /\ nv' = [nv EXCEPT ![Cur] = Absent]
    /\ \/ ~Acceptable(Cur) /\ Ok
       \/ Fault("read")
    /\ UNCHANGED <<conf, data, state, measured, table, rt, pass, cur, status, ret, loop>>

DeleteBadFails ==
    /\ Reading /\ nv[Cur].here
    /\ one' = "SECURITY_VIOLATION" /\ pc' = "delete"
    /\ Cur \in conf.locked
    /\ \/ ~Acceptable(Cur) /\ Ok
       \/ Fault("read")
    /\ UNCHANGED <<conf, boot, rt, pass, cur, status, ret, loop>>

---------------------------------------------------------------------------
(* maybe_mirror_one_mok_variable and mirror_one_mok_variable *)

(* Mutant: copies are never deleted first.                                 *)
DeleteRtNever ==
    /\ pc = "delete" /\ pc' = "fill" /\ Ok
    /\ UNCHANGED <<conf, boot, rt, pass, cur, one, status, ret, loop>>

DeleteRt ==
    /\ pc = "delete" /\ pc' = "fill"
    /\ \/ /\ pass = 1 /\ Cur \in DeleteFirst
          /\ rt' = [x \in DOMAIN rt \ {<<Cur, 0>>} |-> rt[x]] /\ Ok
       \/ /\ pass = 1 /\ Cur \in DeleteFirst /\ Present(<<Cur, 0>>)
          /\ Fault("delete") /\ UNCHANGED rt
       \/ /\ ~(pass = 1 /\ Cur \in DeleteFirst)
          /\ Ok /\ UNCHANGED rt
    /\ UNCHANGED <<conf, boot, pass, cur, one, status, ret, loop>>


(* What is prepended, in the order vendor list, build certificate, user    *)
(* certificates.                                                           *)
Addend(v) == IF v \in KeyDb THEN conf.addend[v] ELSE <<>>

FullData(v) == LET f == Addend(v) \o data[v]
               IN  IF v \in KeyDb /\ f = <<>> THEN NullSha ELSE f


(* The old buffer is taken over when nothing is prepended.                 *)
Reuse(v) == data[v] # <<>> /\ Addend(v) = <<>>

Fill ==
    /\ pc = "fill"
    /\ \/ /\ full' = FullData(Cur)
          /\ data' = IF Reuse(Cur) THEN [data EXCEPT ![Cur] = <<>>] ELSE data
          /\ status' = "SUCCESS" /\ Ok
          /\ pc' = IF Cur \in KeyDb /\ full' # <<>> THEN "db"
                   ELSE IF full' # <<>> /\ pass = 1 THEN "set" ELSE "settle"
       \/ /\ ~Reuse(Cur) /\ FullData(Cur) # <<>> /\ Fault("nomem")
          /\ status' = "OUT_OF_RESOURCES" /\ pc' = "combine"
          /\ UNCHANGED <<full, data>>
    /\ at' = Start
    /\ UNCHANGED <<conf, nv, rt, state, measured, table, pass, cur, one, ret>>

SetPlain ==
    /\ pc = "set" /\ pc' = "measure"
    /\ SetVariable(<<Cur, 0>>, Len(full), full)
    /\ UNCHANGED <<conf, boot, pass, cur, one, ret, loop>>

(* mirror_mok_db: the whole database, when it fits or when the firmware    *)
(* cannot tell.                                                            *)
Whole == DbSize(full) <= MaxVar \/ conf.query = "unsupported"

MirrorWhole ==
    /\ pc = "db" /\ Whole /\ pc' = "measure"
    /\ \/ pass = 1 /\ SetVariable(<<Cur, 0>>, DbSize(full), Signatures(full))
       \/ pass = 2 /\ status' = "SUCCESS" /\ Ok /\ UNCHANGED rt
    /\ UNCHANGED <<conf, boot, pass, cur, one, ret, loop>>

(* The bytes from the current position on: before the header of a list,    *)
(* or inside the list once some of its signatures are done.                *)
Rest == DbSize(full) - Ends(full)[at.k - 1]
        - (IF at.j = 0 THEN 0 ELSE Header + at.j * full[at.k].size)

(* A list of signatures without a size ends the loop.                      *)
More == Rest >= MinSize /\ full[at.k].size # 0

QueryFails ==
    /\ pc \in {"db", "loop"} /\ conf.query # "unsupported" /\ Fault("query")
    /\ pc = "loop" => More
    /\ status' = "DEVICE_ERROR" /\ pc' = "measure"
    /\ UNCHANGED <<conf, boot, rt, pass, cur, one, ret, loop>>

Split ==
    /\ pc = "db" /\ ~Whole
    /\ \/ pc' = "loop" /\ status' = "SUCCESS" /\ Ok
       \/ pass = 2 /\ pc' = "measure" /\ status' = "OUT_OF_RESOURCES" /\ Fault("nomem")
    /\ UNCHANGED <<conf, boot, rt, pass, cur, one, ret, loop>>

---------------------------------------------------------------------------
(* The loop of mirror_mok_db, one iteration per step *)

(* The name of the variable in hand.  In the second pass the first portion *)
(* is measured against the name with a zero.                               *)
LoopNameSize == IF pass = 2 /\ at.i = 0 THEN NameSize(<<Cur, 0>>) + 2
                ELSE NameSize(<<Cur, at.i>>)

HowMany(room, e) ==
    IF room > Header THEN Min({(room - Header) \div e.size, e.n - at.j}) ELSE 0

(* Mutants: skip the whole list; stay on a list that is done.              *)
AdvanceList(n) == [at EXCEPT !.k = at.k + 1, !.j = 0]
AdvanceNoWrap(n) == [at EXCEPT !.j = at.j + n]

(* The position after n more signatures of the current list.               *)
Advance(n) == IF at.j + n = full[at.k].n THEN [at EXCEPT !.k = at.k + 1, !.j = 0]
              ELSE [at EXCEPT !.j = at.j + n]


EslNext ==
    LET e == full[at.k]
        n == HowMany(Max({MaxVar - LoopNameSize, 0}), e)
    IN  \* nothing of this list fits in a variable: skip it
        \/ /\ n = 0
           /\ at' = [at EXCEPT !.k = at.k + 1, !.j = 0]
           /\ trouble' = trouble \union {"skipped"}
           /\ UNCHANGED <<pc, status, rt, faults>>
        \* the first pass has written this portion
        \/ /\ n > 0 /\ pass = 2 /\ at.i = 0
           /\ at' = [Advance(n) EXCEPT !.i = 1]
           /\ status' = "SUCCESS" /\ Ok
           /\ UNCHANGED <<pc, rt>>
        \* mirror_one_esl
        \/ /\ n > 0 /\ ~(pass = 2 /\ at.i = 0)
           /\ SetVariable(<<Cur, at.i>>, Header + n * e.size,
                          {<<e.id, at.j + m>> : m \in 1 .. n})
           /\ at' = IF status' = "SUCCESS"
                    THEN [Advance(n) EXCEPT !.did = TRUE,
                                            !.i = IF pass = 1 THEN @ ELSE @ + 1]
                    ELSE at
           /\ pc' = IF pass = 1 \/ status' # "SUCCESS" THEN "end" ELSE "loop"
        \/ /\ n > 0 /\ ~(pass = 2 /\ at.i = 0) /\ Fault("nomem")
           /\ status' = "OUT_OF_RESOURCES" /\ pc' = "end"
           /\ UNCHANGED <<rt, at>>

MirrorEsl ==
    /\ pc = "loop" /\ More
    /\ EslNext
    /\ UNCHANGED <<conf, boot, pass, cur, one, ret, full>>

LoopDone ==
    /\ pc = "loop" /\ ~More /\ pc' = "end" /\ Ok
    /\ UNCHANGED <<conf, boot, rt, pass, cur, one, status, ret, loop>>

(* Mutant: no dummy entry.                                                 *)
MirrorEndNoDummy ==
    /\ pc = "end" /\ pc' = "measure" /\ Ok
    /\ UNCHANGED <<conf, boot, rt, pass, cur, one, status, ret, loop>>

(* A database of which nothing could be written gets a dummy entry.        *)
MirrorEnd ==
    /\ pc = "end" /\ pc' = "measure"
    /\ \/ /\ status = "SUCCESS" /\ pass = 1 /\ ~at.did
          /\ SetVariable(<<Cur, 0>>, DbSize(NullSha), Signatures(NullSha))
       \/ /\ ~(status = "SUCCESS" /\ pass = 1 /\ ~at.did)
          /\ Ok /\ UNCHANGED <<status, rt>>
    /\ UNCHANGED <<conf, boot, pass, cur, one, ret, loop>>

---------------------------------------------------------------------------
(* The rest of mirror_one_mok_variable and its callers *)

(* Mutant: a failed measurement is ignored.                                *)
MeasureIgnored ==
    /\ pc = "measure" /\ pc' = "log"
    /\ \/ pass = 1 /\ Cur \in Measured /\ measured' = measured \union {Cur} /\ Ok
       \/ pass = 1 /\ Cur \in Measured /\ Fault("tpm") /\ UNCHANGED measured
       \/ ~(pass = 1 /\ Cur \in Measured) /\ Ok /\ UNCHANGED measured
    /\ UNCHANGED <<conf, nv, rt, data, state, table, pass, cur, one, status, ret, loop>>

(* A measurement's result replaces the result of the copy; a log entry's   *)
(* does not.                                                               *)
Measure ==
    /\ pc = "measure"
    /\ \/ /\ pass = 1 /\ Cur \in Measured
          /\ measured' = measured \union {Cur}
          /\ status' = "SUCCESS" /\ pc' = "log" /\ Ok
       \/ /\ pass = 1 /\ Cur \in Measured /\ Fault("tpm")
          /\ status' \in {"DEVICE_ERROR", "OUT_OF_RESOURCES"} /\ pc' = "combine"
          /\ UNCHANGED measured
       \/ /\ ~(pass = 1 /\ Cur \in Measured)
          /\ pc' = IF pass = 1 THEN "log" ELSE "settle"
          /\ Ok /\ UNCHANGED <<measured, status>>
    /\ UNCHANGED <<conf, nv, rt, data, state, table, pass, cur, one, ret, loop>>

Log ==
    /\ pc = "log"
    /\ \/ pc' = "settle" /\ Ok /\ UNCHANGED status
       \/ /\ Cur \in Logged /\ Fault("tpm")
          /\ status' = "DEVICE_ERROR" /\ pc' = "combine"
    /\ UNCHANGED <<conf, boot, rt, pass, cur, one, ret, loop>>

(* Mutant: the old data is kept.                                           *)
SettleKeepsOld ==
    /\ pc = "settle" /\ pc' = "combine" /\ Ok
    /\ data' = [data EXCEPT ![Cur] = IF data[Cur] = <<>> THEN full ELSE @]
    /\ UNCHANGED <<conf, nv, rt, state, measured, table, pass, cur, one, status, ret, loop>>

Settle ==
    /\ pc = "settle" /\ pc' = "combine" /\ Ok
    /\ data' = [data EXCEPT ![Cur] = full]
    /\ UNCHANGED <<conf, nv, rt, state, measured, table, pass, cur, one, status, ret, loop>>


CombineOne ==
    /\ pc = "combine" /\ pc' = "next" /\ Ok
    /\ one' = Combine(one, status)
    /\ state' = IF Cur \in HasState /\ Len(data[Cur]) = 1
                THEN [state EXCEPT ![Cur] = data[Cur][1]] ELSE state
    /\ UNCHANGED <<conf, nv, rt, data, measured, table, pass, cur, status, ret, loop>>

(* import_mok_state: the results of the second pass are dropped.           *)
NextVariable ==
    /\ pc = "next" /\ Ok
    /\ ret' = IF pass = 1 THEN Combine(ret, one) ELSE ret
    /\ full' = <<>> /\ at' = Start /\ one' = "SUCCESS" /\ status' = "SUCCESS"
    /\ \/ cur < Len(Order) /\ cur' = cur + 1 /\ pc' = "import"
       \/ cur = Len(Order) /\ cur' = 1 /\ pc' = IF pass = 1 THEN "table" ELSE "request"
    /\ UNCHANGED <<conf, boot, rt, pass>>

InstallTable ==
    /\ pc = "table" /\ pc' = "import" /\ pass' = 2
    /\ \/ table' = data /\ Ok
       \/ Fault("table") /\ UNCHANGED table
    /\ UNCHANGED <<conf, nv, rt, data, state, measured, cur, one, status, ret, loop>>

(* MokManager is not needed, or runs and returns; or it cannot be started. *)
CheckMokRequest ==
    /\ pc = "request" /\ pc' = "decide"
    /\ \/ Ok /\ UNCHANGED ret
       \/ Fault("request") /\ ret' = Combine(ret, "DEVICE_ERROR")
    /\ UNCHANGED <<conf, boot, rt, pass, cur, one, status, loop>>

secure_mode == conf.sb /\ state["MokSBState"] = 0

Decide ==
    /\ pc = "decide" /\ Ok
    /\ pc' = IF \/ ret = "SUCCESS"
                \/ ~secure_mode /\ ret \in {"INVALID_PARAMETER", "OUT_OF_RESOURCES"}
             THEN "boot" ELSE "dead"
    /\ UNCHANGED <<conf, boot, rt, pass, cur, one, status, ret, loop>>

Finished == pc \in {"boot", "dead"} /\ UNCHANGED vars

Next ==
    \/ NothingToRead \/ DefaultInverse \/ ReadGood \/ DeleteBad \/ DeleteBadFails
    \/ DeleteRt \/ Fill \/ SetPlain \/ MirrorWhole \/ QueryFails \/ Split
    \/ MirrorEsl \/ LoopDone \/ MirrorEnd \/ Measure \/ Log \/ Settle \/ CombineOne
    \/ NextVariable \/ InstallTable \/ CheckMokRequest \/ Decide \/ Finished

Spec == Init /\ [][Next]_vars

---------------------------------------------------------------------------
(* Properties *)

(* Statuses, flags and the position in a split database stay in range.     *)
TypeOK ==
    /\ {one, status, ret} \subseteq Status
    /\ pass \in 1 .. 2 /\ cur \in DOMAIN Order
    /\ \A v \in HasState : state[v] \in 0 .. 255
    /\ \A x \in DOMAIN rt : x[1] \in Vars /\ (x[2] # 0 => x[1] \in KeyDb)
    /\ at.k \in 1 .. Len(full) + 1
    /\ at.j # 0 => at.j < full[at.k].n
    /\ trouble \subseteq FaultKinds \union {"skipped"}

Done == pc \in {"boot", "dead"}

(* What was stored in key database v, with what shim adds to it.           *)
Wanted(v) == Addend(v) \o (IF conf.nv[v].here /\ conf.nv[v].good THEN conf.nv[v].data ELSE <<>>)

Mirrored(v) == UNION {rt[x].sigs : x \in {y \in DOMAIN rt : y[1] = v}}

(* Nothing that stands in the store at the start is deleted between the    *)
(* passes: where the firmware reports what is left, its limit only falls.  *)
Steady == conf.query = "dynamic" => DOMAIN conf.foreign = {}

(* When no call failed, no list had to be skipped, every signature is at   *)
(* least as large as the smallest the loop looks for, and the limit does   *)
(* not rise, each signature of MokList and MokListX is in some copy the    *)
(* operating system can read.                                              *)
CopiesComplete ==
    Done /\ trouble = {} /\ Steady
    => \A v \in KeyDb :
          (\A k \in DOMAIN Wanted(v) : Wanted(v)[k].size >= MinSize)
          => Signatures(Wanted(v)) \subseteq Mirrored(v)

(* The configuration table, which the operating system prefers to the      *)
(* copies, has every key database in full, with the built-in entries first *)
(* and once, even where the copies had to be split and whatever failed but *)
(* its own steps.                                                          *)
TableComplete ==
    ret = "SUCCESS" /\ pass = 2 /\ trouble \intersect {"table", "read"} = {}
    => \A v \in KeyDb : table[v] = IF Wanted(v) = <<>> THEN NullSha ELSE Wanted(v)

(* The two passes of mirror_mok_db cover a key database between them, and  *)
(* the first of them the table (CopiesComplete, TableComplete).            *)
NothingLost == CopiesComplete /\ TableComplete

(* import_mok_state returns a security violation when a variable with the  *)
(* wrong attributes cannot be removed, and no later error replaces it: a   *)
(* boot that goes on has left no such variable behind.                     *)
NoBadLeft == pc = "boot" => \A v \in Vars : nv[v].here => nv[v].good

(* user_insecure_mode, ignore_db and mok_policy are set only from a        *)
(* variable that had the right attributes, whatever failed on the way, and *)
(* Secure Boot is never turned off by one for a boot that went well        *)
(* without this being measured.                                            *)
SwitchesEarned ==
    /\ \A v \in HasState \ Inverted :
           state[v] # 0 => conf.nv[v].here /\ conf.nv[v].good /\ conf.nv[v].data = <<state[v]>>
    /\ Done /\ ret = "SUCCESS" /\ state["MokSBState"] # 0 => "MokSBState" \in measured

(* A variable with the wrong attributes neither survives the import nor    *)
(* takes effect in a boot that goes on (NoBadLeft, SwitchesEarned).        *)
BadVariablesRefused == NoBadLeft /\ SwitchesEarned

(* "We always want to create our key databases": when the import succeeds, *)
(* each of them has its first copy, if only with a dummy entry.  And that  *)
(* copy is one shim wrote: a volatile variable left by someone else under  *)
(* its name does not survive the first pass, unless it cannot be deleted,  *)
(* or memory for a default runs out before it is.  (MokIgnoreDB is not     *)
(* deleted first.)                                                         *)
CopiesAreShims ==
    /\ Done /\ ret = "SUCCESS"
       => \A v \in KeyDb : Present(<<v, 0>>) /\ rt[<<v, 0>>].ours
    /\ Done /\ "delete" \notin trouble
       => \A v \in DeleteFirst :
             Present(<<v, 0>>) => rt[<<v, 0>>].ours \/ (v \in Inverted /\ "nomem" \in trouble)

(* Every signature that would fit in a variable of its own is mirrored     *)
(* when nothing fails and the firmware's limit does not move.              *)
EntriesThatFit ==
    Done /\ trouble \subseteq {"skipped"} /\ conf.query = "static"
    => \A v \in KeyDb : \A k \in DOMAIN Wanted(v) :
          Header + Wanted(v)[k].size + NameSize(<<v, 10>>) <= conf.max
          => Signatures(<<Wanted(v)[k]>>) \subseteq Mirrored(v)
=============================================================================
