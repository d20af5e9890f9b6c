---------------------------- MODULE MokManager -----------------------------
(***************************************************************************)
(* MokManager over several boots.  The operating system leaves requests    *)
(* and password hashes in variables; mok.c starts MokManager when it sees  *)
(* one; check_mok_request takes the requests, enter_mok_menu lets the user *)
(* carry them out, and the machine resets if anything changed.             *)
(***************************************************************************)
EXTENDS Integers, Sequences, SequencesExt, FiniteSets

CONSTANTS
    Stored,       \* the pairs of lists a machine may start with
    KeyLists,     \* what it may ask to add or delete: sequences of signature lists
    DiskNode,     \* what the user may enroll from disk
    Switches,     \* contents of the requests to change a setting
    Passwords,    \* contents of a request to change the password
    AuthKinds,    \* kinds of password hashes the operating system writes
    MaxRequests,  \* bound on the variables the operating system writes
    MaxFaults     \* bound on failing writes and deletions

ASSUME BoundsAssumption == MaxRequests \in Nat /\ MaxFaults \in Nat

Lists == {"MokList", "MokListX"}
NewOf(l)  == IF l = "MokList" THEN "MokNew" ELSE "MokXNew"
DelOf(l)  == IF l = "MokList" THEN "MokDel" ELSE "MokXDel"
AuthOf(l) == IF l = "MokList" THEN "MokAuth" ELSE "MokXAuth"
DelAuthOf(l) == IF l = "MokList" THEN "MokDelAuth" ELSE "MokXDelAuth"

KeyRequests    == {"MokNew", "MokDel", "MokXNew", "MokXDel"}
SwitchRequests == {"MokSB", "MokDB", "MokListTrustedNew"}
Requests == KeyRequests \union SwitchRequests \union {"MokPW"}
Auths    == <<"MokAuth", "MokDelAuth", "MokXAuth", "MokXDelAuth">>

(* A hash has the length of a SHA-256 digest, of a PASSWORD_CRYPT, some    *)
(* other length that still fits in the buffer, or one that does not.       *)
AuthSize == [none |-> 0, odd |-> 20, sha |-> 32, crypt |-> 194, long |-> 300]
Valid(k) == k \in {"sha", "crypt"}

(* What the operating system writes: passwords and hashes of some kind.    *)
ASSUME ContentsAssumption ==
    /\ Passwords \subseteq {"clear", "sha", "crypt", "odd"}
    /\ AuthKinds \subseteq {"sha", "crypt", "odd", "long"}

(* A signature list: its type and its certificates or hashes.  One that is *)
(* cut short within its first hash, which count_keys lets pass, is left    *)
(* out.                                                                    *)
Node == [type : STRING, ids : Seq(STRING) \ {<<>>}]

ASSUME NodesAssumption == KeyLists \subseteq Seq(Node) \ {<<>>} /\ DiskNode \in Node

(* A stored list: is it there, can the operating system have written it,   *)
(* does it parse, and its nodes.                                           *)
NoList == [here |-> FALSE, runtime |-> FALSE, parses |-> TRUE, nodes |-> <<>>]

ASSUME StoredAssumption ==
    Stored \subseteq
        [Lists -> [here : BOOLEAN, runtime : BOOLEAN, parses : BOOLEAN,
                   nodes : Seq(Node)]]

VARIABLES
    lists,    \* MokList and MokListX
    switch,   \* MokSBState, MokDBState, MokListTrusted by their requests
    pwstore,  \* the kind of hash in MokPWStore
    req,      \* the request variables
    auth,     \* the password hash variables
    pc,       \* "os", "shim", "take", "pw", "scan", "menu", "out", "lost"
    held,     \* enter_mok_menu's pointers to the requests
    taken,    \* check_mok_request's pointers to the same buffers
    freed,    \* requests whose buffer has been freed, with repetition
    size,     \* auth_size of enter_mok_menu
    seen,     \* the hashes found at the top of the menu loop
    changed,  \* mok_changed
    proof,    \* history: what the user has proved in this boot
    start,    \* history: the stored state when MokManager started
    trouble,  \* history: calls that failed, and lists erased, in this boot
    writes,   \* bound: variables written by the operating system
    faults    \* bound: failures so far

store == <<lists, switch, pwstore>>
nvram == <<req, auth>>
menu  == <<held, taken, freed, size, seen, changed>>
vars  == <<store, nvram, pc, menu, proof, start, trouble, writes, faults>>

(* The contents of a request are a sequence; an absent one is empty.       *)
None == <<>>
NoRequests == [r \in Requests |-> None]

Ok == UNCHANGED <<trouble, faults>>
Fault(what) ==
    /\ faults < MaxFaults
    /\ faults' = faults + 1
    /\ trouble' = trouble \union {what}

Gone(rs, as) ==
    /\ req' = [r \in Requests |-> IF r \in rs THEN None ELSE req[r]]
    /\ auth' = [a \in Range(Auths) |-> IF a \in as THEN "none" ELSE auth[a]]

(* LibDeleteVariable on some request and hash variables; one may fail.     *)
Delete(rs, as) ==
    \/ Gone(rs, as) /\ Ok
    \/ \E x \in {r \in rs : req[r] # None} \union {a \in as : auth[a] # "none"} :
          Gone(rs \ {x}, as \ {x}) /\ Fault("delete")

---------------------------------------------------------------------------
(* Deleting keys from a list of nodes *)

(* match_hash: the pointer starts at the first hash whatever start is.     *)
match_hash(h, from, s) ==
    LET hits == {i \in from .. Len(s) - 1 : s[i - from + 1] = h}
    IN  IF hits = {} THEN -1 ELSE CHOOSE i \in hits : \A j \in hits : i <= j

(* The loop of delete_hash_in_list, which runs at most once for each hash: *)
(* what is left of them, and del_ind, after k rounds.  The hash there is   *)
(* removed, and the last one takes its node with it.                       *)
HashLoop(h, ids) ==
    LET after[k \in 0 .. Len(ids)] ==
            IF k = 0 THEN [ids |-> ids, del |-> match_hash(h, 0, ids)]
            ELSE LET p == after[k - 1]
                     t == RemoveAt(p.ids, p.del + 1)
                 IN  IF p.del < 0 THEN p ELSE [ids |-> t, del |-> match_hash(h, p.del, t)]
    IN  after[Len(ids)].ids

(* Mutant: the remaining hashes are not moved up.                          *)
DeleteHashCutsEnd(type, h, node) ==
    IF node.type # type \/ match_hash(h, 0, node.ids) < 0 THEN node
    ELSE [node EXCEPT !.ids = SubSeq(@, 1, match_hash(h, 0, @))]

delete_hash_in_list(type, h, node) ==
    IF node.type # type THEN node
    ELSE [node EXCEPT !.ids = HashLoop(h, @)]

delete_cert(cert, node) ==
    IF node.type = "x509" /\ node.ids = <<cert>> THEN [node EXCEPT !.ids = <<>>] ELSE node

(* build_mok_list keeps one certificate of a node.                         *)
build_mok_list(nodes) ==
    [k \in DOMAIN nodes |->
        IF nodes[k].type = "x509" THEN [nodes[k] EXCEPT !.ids = <<Head(@)>>] ELSE nodes[k]]

(* One request node applied to one node of the list, hash by hash.         *)
Strike(d, node) ==
    FoldLeft(LAMBDA n, h : IF d.type = "x509" THEN delete_cert(h, n)
                           ELSE delete_hash_in_list(d.type, h, n),
             node, d.ids)

(* The whole request applied to one node of the list.                      *)
StrikeAll(dels, node) == FoldLeft(LAMBDA n, d : Strike(d, n), node, build_mok_list(dels))

(* write_back_mok_list leaves out empty nodes.                             *)
write_back_mok_list(nodes) ==
    FoldLeft(LAMBDA kept, n : IF n.ids = <<>> THEN kept ELSE Append(kept, n), <<>>, nodes)

(* delete_keys.                                                            *)
Remaining(nodes, dels) ==
    write_back_mok_list([k \in DOMAIN nodes |-> StrikeAll(dels, build_mok_list(nodes)[k])])

---------------------------------------------------------------------------
(* Between boots, and the start of MokManager *)

Init ==
    /\ lists \in Stored
    /\ switch = [r \in SwitchRequests |-> FALSE]
    /\ pwstore = "none"
    /\ req = NoRequests /\ auth = [a \in Range(Auths) |-> "none"]
    /\ pc = "os"
    /\ held = NoRequests /\ taken = NoRequests /\ freed = <<>>
    /\ size = 194 /\ seen = {} /\ changed = FALSE
    /\ proof = {} /\ trouble = {}
    /\ start = <<lists, switch, pwstore>>
    /\ writes = 0 /\ faults = 0

OsRequest ==
    /\ pc = "os" /\ writes < MaxRequests
    /\ writes' = writes + 1
    /\ \/ \E r \in KeyRequests, n \in KeyLists : req' = [req EXCEPT ![r] = n]
       \/ \E r \in SwitchRequests, s \in Switches : req' = [req EXCEPT ![r] = <<s>>]
       \/ \E p \in Passwords : req' = [req EXCEPT !["MokPW"] = <<p>>]
    /\ UNCHANGED <<store, auth, pc, menu, proof, start, trouble, faults>>

OsAuth ==
    /\ pc = "os" /\ writes < MaxRequests
    /\ writes' = writes + 1
    /\ \E a \in Range(Auths), k \in AuthKinds : auth' = [auth EXCEPT ![a] = k]
    /\ UNCHANGED <<store, req, pc, menu, proof, start, trouble, faults>>

OsReboot ==
    /\ pc = "os" /\ pc' = "shim"
    /\ UNCHANGED <<store, nvram, menu, proof, start, trouble, writes, faults>>

(* check_mok_request of mok.c.                                             *)
Asked ==
    \/ \E r \in Requests : req[r] # None
    \/ auth["MokAuth"] # "none" \/ auth["MokXAuth"] # "none"

CheckMokRequest ==
    /\ pc = "shim"
    /\ pc' = IF Asked THEN "take" ELSE "os"
    /\ proof' = {} /\ trouble' = {}
    /\ start' = <<lists, switch, pwstore>>
    /\ freed' = <<>> /\ size' = 194
    /\ UNCHANGED <<store, nvram, held, taken, seen, changed, writes, faults>>

(* check_mok_request of MokManager.c reads every request, then deletes it; *)
(* those it cannot read are reported and stay where they are.              *)
Take ==
    /\ pc = "take" /\ pc' = "pw"
    /\ \E unread \in SUBSET {r \in Requests : req[r] # None} :
          /\ held' = [r \in Requests |-> IF r \in unread THEN None ELSE req[r]]
          /\ IF unread = {} THEN Delete(Requests, {})
             ELSE Gone(Requests \ unread, {}) /\ Fault("read")
    /\ taken' = held'
    /\ UNCHANGED <<store, freed, size, seen, changed, proof, start, writes>>

(* verify_pw and draw_countdown.  When MokPWStore cannot be read verify_pw *)
(* lets the user in without asking for the password.                       *)
EnterMenu ==
    /\ pc = "pw" /\ pc' = "scan"
    /\ \/ proof' = (IF Valid(pwstore) THEN proof \union {"password"} ELSE proof) /\ Ok
       \/ Valid(pwstore) /\ Fault("pwread") /\ UNCHANGED proof
    /\ UNCHANGED <<store, nvram, menu, start, writes>>

StayOut ==
    /\ pc = "pw" /\ pc' = "out"
    /\ UNCHANGED <<store, nvram, menu, proof, start, trouble, writes, faults>>

---------------------------------------------------------------------------
(* The menu *)

(* Mutant: a hash that is not there leaves no room for the next.           *)
SizeAfterZeroed ==
    [i \in 0 .. 4 |-> IF i = 0 THEN size ELSE AuthSize[auth[Auths[i]]]]

(* GetVariable on the four hashes in turn: auth_size is the room given and *)
(* the length found, and goes from one call, and one loop, to the next.    *)
SizeAfter ==
    LET f[i \in 0 .. 4] ==
            IF i = 0 THEN size
            ELSE IF auth[Auths[i]] = "none" THEN f[i - 1] ELSE AuthSize[auth[Auths[i]]]
    IN  f

Found(i) == Valid(auth[Auths[i]]) /\ AuthSize[auth[Auths[i]]] <= SizeAfter[i - 1]

Scan ==
    /\ pc = "scan" /\ pc' = "menu"
    /\ seen' = {Auths[i] : i \in {j \in 1 .. 4 : Found(j)}}
    /\ size' = SizeAfter[4]
    /\ UNCHANGED <<store, nvram, held, taken, freed, changed, proof, start, trouble, writes,
                   faults>>

(* A hash longer than the buffer is refused while auth_size says that      *)
(* there is less room, and makes it say that there is enough: read again   *)
(* without a shorter one in between, it is written past the end of auth.   *)
Overruns(i) == auth[Auths[i]] = "long" /\ AuthSize.long <= SizeAfter[i - 1]

(* What the menu does after that is undefined: it goes on as Scan does, or *)
(* it is never heard of again until the machine is switched off and on.    *)
Overrun ==
    /\ pc = "scan" /\ pc' = "lost"
    /\ \E i \in 1 .. 4 : Overruns(i)
    /\ UNCHANGED <<store, nvram, menu, proof, start, trouble, writes, faults>>

PowerCycle ==
    /\ pc = "lost" /\ pc' = "shim"
    /\ held' = NoRequests /\ taken' = NoRequests /\ seen' = {} /\ changed' = FALSE
    /\ UNCHANGED <<store, nvram, freed, size, proof, start, trouble, writes, faults>>

(* The menu cannot be allocated: enter_mok_menu returns at once, without   *)
(* the reset.                                                              *)
MenuNoMemory ==
    /\ pc = "scan" /\ pc' = "out"
    /\ changed' = FALSE /\ Fault("nomem")
    /\ UNCHANGED <<store, nvram, held, taken, freed, size, seen, proof, start, writes>>

(* Mutant: mok_changed follows the last choice only.                       *)
DoneLastOnly(done) == changed' = done

(* The end of the menu loop: a choice that succeeded means a reset.        *)
Done(done) == changed' = (changed \/ done)

(* The pointer to a request that was carried out is forgotten.             *)
Forget(r) == held' = [held EXCEPT ![r] = None]

(* A choice the user declines, gives no password for, or that names        *)
(* something unusable, changes nothing and comes back to the menu.         *)
Again ==
    /\ pc = "menu" /\ pc' = "scan"
    /\ Done(FALSE) /\ Ok
    /\ UNCHANGED <<store, nvram, held, taken, freed, size, seen, proof, start, writes>>

(* write_db: a list the operating system could have written is replaced.   *)
Written(l, nodes) ==
    [here |-> TRUE, runtime |-> FALSE,
     parses |-> lists[l].runtime \/ lists[l].parses,
     nodes |-> (IF lists[l].runtime THEN <<>> ELSE lists[l].nodes) \o nodes]

(* Mutant: a hash of the wrong length is not asked about.                  *)
StoreKeysUnchecked(l, new) ==
    /\ auth[AuthOf(l)] # "none"
    /\ proof' = IF Valid(auth[AuthOf(l)]) THEN proof \union {AuthOf(l)} ELSE proof
    /\ lists' = [lists EXCEPT ![l] = new]

(* store_keys when it returns success.  With a hash of the wrong length it *)
(* returns the status of GetVariable, which is success, and stores nothing.*)
store_keys(l, new) ==
    \/ /\ Valid(auth[AuthOf(l)])
       /\ proof' = proof \union {AuthOf(l)}
       /\ lists' = [lists EXCEPT ![l] = new]
    \/ /\ auth[AuthOf(l)] = "odd"
       /\ UNCHANGED <<proof, lists>>

mok_enrollment_prompt(l) ==
    /\ pc = "menu" /\ pc' = "scan"
    /\ held[NewOf(l)] # None
    /\ store_keys(l, Written(l, held[NewOf(l)]))
    /\ Delete({NewOf(l)}, {AuthOf(l)})
    /\ Forget(NewOf(l)) /\ Done(TRUE)
    /\ UNCHANGED <<switch, pwstore, taken, freed, size, seen, start, writes>>

mok_reset_prompt(l) ==
    /\ pc = "menu" /\ pc' = "scan"
    /\ held[NewOf(l)] = None /\ AuthOf(l) \in seen
    /\ store_keys(l, NoList)
    /\ Delete({NewOf(l)}, {AuthOf(l)})
    /\ Done(TRUE)
    /\ UNCHANGED <<switch, pwstore, held, taken, freed, size, seen, start, writes>>

(* The write of a list, a switch or a password fails.                      *)
WriteFails ==
    /\ pc = "menu" /\ pc' = "scan"
    /\ held # NoRequests \/ seen # {}
    /\ Fault("set") /\ Done(FALSE)
    /\ UNCHANGED <<store, nvram, held, taken, freed, size, seen, proof, start, writes>>

(* mok_deletion_prompt, the request's buffer being freed at the end.       *)
mok_deletion_prompt(l) ==
    /\ pc = "menu" /\ pc' = "scan"
    /\ held[DelOf(l)] # None
    /\ \/ /\ Valid(auth[DelAuthOf(l)])
          /\ lists[l].here /\ ~lists[l].runtime /\ lists[l].parses
          /\ proof' = proof \union {DelAuthOf(l)}
          /\ LET left == Remaining(lists[l].nodes, held[DelOf(l)])
             IN  \/ lists' = [lists EXCEPT ![l] = IF left = <<>> THEN NoList
                                                  ELSE [@ EXCEPT !.nodes = left]]
                    /\ Delete({DelOf(l)}, {DelAuthOf(l)})
                 \* the result of removing an empty list is not looked at
                 \/ left = <<>> /\ UNCHANGED lists /\ Fault("set")
                    /\ Gone({DelOf(l)}, {DelAuthOf(l)})
       \/ /\ auth[DelAuthOf(l)] = "odd"
          /\ UNCHANGED <<proof, lists>>
          /\ Delete({DelOf(l)}, {DelAuthOf(l)})
    /\ freed' = Append(freed, DelOf(l))
    /\ Forget(DelOf(l)) /\ Done(TRUE)
    /\ UNCHANGED <<switch, pwstore, taken, size, seen, start, writes>>

(* delete_keys erases a list it cannot trust or parse, and fails.          *)
DeletionErases(l) ==
    /\ pc = "menu" /\ pc' = "scan"
    /\ held[DelOf(l)] # None /\ Valid(auth[DelAuthOf(l)])
    /\ lists[l].here /\ (lists[l].runtime \/ ~lists[l].parses)
    /\ proof' = proof \union {DelAuthOf(l)}
    /\ lists' = [lists EXCEPT ![l] = NoList]
    /\ trouble' = trouble \union {"erased"}
    /\ Done(FALSE)
    /\ UNCHANGED <<switch, pwstore, nvram, held, taken, freed, size, seen, start, writes, faults>>

(* "Delete MOK" is offered for a hash without a request, and gives up.     *)
DeletionAborts ==
    /\ pc = "menu" /\ pc' = "out"
    /\ \E l \in Lists : held[DelOf(l)] = None /\ DelAuthOf(l) \in seen
    /\ UNCHANGED <<store, nvram, menu, proof, start, trouble, writes, faults>>

(* mok_sb_prompt, mok_db_prompt and mok_tml_prompt: three characters of    *)
(* the password in the request, then a question.                           *)
SwitchPrompt(r) ==
    /\ pc = "menu" /\ pc' = "scan"
    /\ held[r] # None /\ held[r] # <<"odd">>
    /\ proof' = proof \union {r}
    /\ \/ /\ switch' = [switch EXCEPT ![r] = held[r] = <<"set">>]
          /\ Forget(r) /\ Done(TRUE) /\ Ok /\ UNCHANGED nvram
       \/ /\ Delete({r}, {}) /\ Done(FALSE) /\ UNCHANGED <<switch, held>>
    /\ UNCHANGED <<lists, pwstore, taken, freed, size, seen, start, writes>>

(* Whoever sets a password confirms it; clearing it asks for nothing more. *)
mok_pw_prompt ==
    /\ pc = "menu" /\ pc' = "scan"
    /\ held["MokPW"] # None /\ held["MokPW"] # <<"odd">>
    /\ \/ /\ pwstore' = IF held["MokPW"] = <<"clear">> THEN "none" ELSE held["MokPW"][1]
          /\ Delete({"MokPW"}, {})
       \/ /\ held["MokPW"] = <<"clear">> /\ Fault("set")
          /\ Gone({"MokPW"}, {}) /\ UNCHANGED pwstore
    /\ proof' = proof \union {"MokPW"}
    /\ Forget("MokPW") /\ Done(TRUE)
    /\ UNCHANGED <<lists, switch, taken, freed, size, seen, start, writes>>

(* mok_key_enroll and mok_hash_enroll.  enroll_file also succeeds when the *)
(* certificate is not valid.  The same file is enrolled once: a bound.     *)
EnrollFromDisk ==
    /\ pc = "menu" /\ pc' = "scan"
    /\ \/ lists' = [lists EXCEPT !["MokList"] = Written("MokList", <<DiskNode>>)]
       \/ UNCHANGED lists
    /\ DiskNode \notin Range(lists["MokList"].nodes)
    /\ proof' = proof \union {"disk"}
    /\ Done(TRUE) /\ Ok
    /\ UNCHANGED <<switch, pwstore, nvram, held, taken, freed, size, seen, start, writes>>

MenuBoot ==
    /\ pc = "menu" /\ pc' = "out"
    /\ UNCHANGED <<store, nvram, menu, proof, start, trouble, writes, faults>>

(* Mutant: reset_system comes back, and check_mok_request frees buffers.   *)
ResetReturns ==
    /\ pc = "out" /\ changed /\ pc' = "shim"
    /\ freed' = freed \o SetToSeq({r \in Requests : taken[r] # None})
    /\ held' = NoRequests /\ taken' = NoRequests /\ seen' = {} /\ changed' = FALSE
    /\ UNCHANGED <<store, nvram, size, proof, start, trouble, writes, faults>>

(* reset_system does not return.                                           *)
Reset ==
    /\ pc = "out" /\ changed /\ pc' = "shim"
    /\ held' = NoRequests /\ taken' = NoRequests /\ seen' = {} /\ changed' = FALSE
    /\ UNCHANGED <<store, nvram, freed, size, proof, start, trouble, writes, faults>>

(* Mutant: the hashes are left for the next boot.                          *)
ReturnKeepsAuths ==
    /\ pc = "out" /\ ~changed /\ pc' = "os"
    /\ freed' = freed \o SetToSeq({r \in Requests : taken[r] # None})
    /\ held' = NoRequests /\ taken' = NoRequests /\ seen' = {}
    /\ Ok
    /\ UNCHANGED <<store, nvram, size, changed, proof, start, writes>>

(* check_mok_request frees its buffers and deletes the hashes; the boot    *)
(* goes on.                                                                *)
Return ==
    /\ pc = "out" /\ ~changed /\ pc' = "os"
    /\ freed' = freed \o SetToSeq({r \in Requests : taken[r] # None})
    /\ held' = NoRequests /\ taken' = NoRequests /\ seen' = {}
    /\ Delete({}, Range(Auths))
    /\ UNCHANGED <<store, size, changed, proof, start, writes>>

Next ==
    \/ OsRequest \/ OsAuth \/ OsReboot \/ CheckMokRequest \/ Take \/ EnterMenu \/ StayOut
    \/ Scan \/ Overrun \/ PowerCycle \/ MenuNoMemory \/ Again
    \/ \E l \in Lists : \/ mok_enrollment_prompt(l) \/ mok_reset_prompt(l)
                        \/ mok_deletion_prompt(l) \/ DeletionErases(l)
    \/ DeletionAborts \/ WriteFails
    \/ \E r \in SwitchRequests : SwitchPrompt(r)
    \/ mok_pw_prompt \/ EnrollFromDisk \/ MenuBoot \/ Reset \/ Return

Spec == Init /\ [][Next]_vars

---------------------------------------------------------------------------
(* Properties *)

(* Requests, hashes and pointers stay in range; the menu only holds        *)
(* pointers its caller has.                                                *)
TypeOK ==
    /\ \A l \in Lists : lists[l].here \in BOOLEAN /\ lists[l].parses \in BOOLEAN
    /\ \A r \in SwitchRequests : switch[r] \in BOOLEAN
    /\ pwstore \in {"none", "sha", "crypt"}
    /\ \A a \in Range(Auths) : auth[a] \in DOMAIN AuthSize
    /\ \A r \in Requests : held[r] \in {None, taken[r]}
    /\ size \in {20, 32, 194, 300} /\ seen \subseteq Range(Auths)
    /\ changed \in BOOLEAN

(* mok.c starts MokManager after it has mirrored the lists, because any    *)
(* change makes MokManager reset the machine: when the boot goes on, the   *)
(* stored state is what it was, unless delete_keys erased a list or there  *)
(* was no memory left for the menu.  The same reset keeps the buffer that  *)
(* mok_deletion_prompt and its caller both free from being freed twice.    *)
RebootAfterChange ==
    /\ pc = "os" /\ trouble \intersect {"erased", "nomem"} = {} => start = <<lists, switch, pwstore>>
    /\ "nomem" \notin trouble => \A m, n \in DOMAIN freed : freed[m] = freed[n] => m = n

(* No change is carried out without the user's proof: the password of the  *)
(* request for that list, or presence at the disk menu, and also the MOK   *)
(* password when there was one, unless it could not be read.               *)
ChangesAuthorised ==
    /\ \A l \in Lists : lists[l] # start[1][l] =>
          \/ {AuthOf(l), DelAuthOf(l)} \intersect proof # {}
          \/ l = "MokList" /\ "disk" \in proof
    /\ \A r \in SwitchRequests : switch[r] # start[2][r] => r \in proof
    /\ (start # <<lists, switch, pwstore>> /\ Valid(start[3]))
          => "password" \in proof \/ "pwread" \in trouble

(* Requests are for one boot: when MokManager has run and the boot goes    *)
(* on, no request or password hash is left, unless in this very boot a     *)
(* request could not be read or a deletion failed.                         *)
NothingLeftBehind ==
    [][pc = "out" /\ pc' = "os" /\ trouble' \intersect {"read", "delete"} = {}
       => req' = NoRequests /\ \A a \in Range(Auths) : auth'[a] = "none"]_vars

Deleted(l) == pc = "menu" /\ held[DelOf(l)] # None /\ held'[DelOf(l)] = None
              /\ Valid(auth[DelAuthOf(l)]) /\ faults' = faults

Ids(nodes, type) == UNION {Range(nodes[k].ids) : k \in {j \in DOMAIN nodes : nodes[j].type = type}}

Types == {"x509", "sha256"}

DeletesExactly(l) ==
    \A t \in Types :
        Ids(lists'[l].nodes, t) = Ids(lists[l].nodes, t) \ Ids(held[DelOf(l)], t)

OneCertificate(nodes) ==
    \A k \in DOMAIN nodes : nodes[k].type = "x509" => Len(nodes[k].ids) = 1

Plain(nodes) == OneCertificate(nodes) /\ \A k \in DOMAIN nodes : IsInjective(nodes[k].ids)

(* Deleting keys removes what the request names from the list and nothing  *)
(* else, when no node of the list has a hash twice, and none of either has *)
(* several certificates.                                                   *)
DeletesWhatIsNamed ==
    [][\A l \in Lists :
         Deleted(l) /\ Plain(lists[l].nodes) /\ OneCertificate(held[DelOf(l)]) => DeletesExactly(l)]_vars

(* The same when a node has a hash twice.                                  *)
RepeatsDeleted ==
    [][\A l \in Lists : Deleted(l) => DeletesExactly(l)]_vars
=============================================================================
