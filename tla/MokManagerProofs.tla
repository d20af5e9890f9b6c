-------------------------- MODULE MokManagerProofs --------------------------
(* What MokManager never does, for every set of stored lists and requests  *)
(* and any number of boots, failures and menu choices.                     *)
EXTENDS MokManager, FiniteSetTheorems, SequenceTheorems,
        WellFoundedInduction, TLAPS

AuthNames == {"MokAuth", "MokDelAuth", "MokXAuth", "MokXDelAuth"}

LEMMA AuthsRange == Range(Auths) = AuthNames
  BY DEF Auths, AuthNames, Range

---------------------------------------------------------------------------
(* Shapes: which fields the functions of the model have.  The nodes of a   *)
(* list are whatever the deletions have made of them.                      *)

Fields == {"here", "runtime", "parses", "nodes"}

ListsShape ==
    /\ lists = [l \in Lists |-> lists[l]]
    /\ \A l \in Lists : /\ lists[l] = [f \in Fields |-> lists[l][f]]
                        /\ lists[l].here \in BOOLEAN /\ lists[l].parses \in BOOLEAN
                        /\ lists[l].runtime \in BOOLEAN

LEMMA WrittenShape ==
    ASSUME ListsShape, NEW l \in Lists, NEW nodes
    PROVE  LET w == Written(l, nodes)
           IN  /\ w = [f \in Fields |-> w[f]]
               /\ w.here \in BOOLEAN /\ w.parses \in BOOLEAN /\ w.runtime \in BOOLEAN
  BY DEF ListsShape, Written, Fields

LEMMA NoListShape ==
    /\ NoList = [f \in Fields |-> NoList[f]]
    /\ NoList.here \in BOOLEAN /\ NoList.parses \in BOOLEAN /\ NoList.runtime \in BOOLEAN
  BY DEF NoList, Fields

(* One list is replaced by another.                                        *)
LEMMA ReplaceShape ==
    ASSUME ListsShape, NEW l \in Lists, NEW w,
           w = [f \in Fields |-> w[f]],
           w.here \in BOOLEAN, w.parses \in BOOLEAN, w.runtime \in BOOLEAN,
           lists' = [lists EXCEPT ![l] = w]
    PROVE  ListsShape'
<1>1. lists' = [k \in Lists |-> IF k = l THEN w ELSE lists[k]]
  BY DEF ListsShape
<1> QED
  BY <1>1 DEF ListsShape

LEMMA ListsStep == ListsShape /\ [Next]_vars => ListsShape'
<1> SUFFICES ASSUME ListsShape, [Next]_vars PROVE ListsShape'
  OBVIOUS
<1> USE DEF store, nvram, menu
<1>0. ASSUME UNCHANGED lists PROVE ListsShape'
  BY <1>0 DEF ListsShape
<1>1. CASE OsRequest \/ OsAuth \/ OsReboot \/ CheckMokRequest
  BY <1>0, <1>1 DEF OsRequest, OsAuth, OsReboot, CheckMokRequest
<1>2. CASE Take \/ EnterMenu \/ StayOut \/ Scan \/ Overrun \/ PowerCycle \/ MenuNoMemory
  BY <1>0, <1>2 DEF Take, EnterMenu, StayOut, Scan, Overrun, PowerCycle, MenuNoMemory
<1>3. CASE Again \/ DeletionAborts \/ WriteFails \/ MenuBoot
  BY <1>0, <1>3 DEF Again, DeletionAborts, WriteFails, MenuBoot
<1>4. ASSUME NEW l \in Lists, mok_enrollment_prompt(l) PROVE ListsShape'
  <2>1. \/ lists' = [lists EXCEPT ![l] = Written(l, held[NewOf(l)])]
        \/ UNCHANGED lists
    BY <1>4 DEF mok_enrollment_prompt, store_keys
  <2> QED
    BY <1>0, <2>1, WrittenShape, ReplaceShape
<1>5. ASSUME NEW l \in Lists, mok_reset_prompt(l) PROVE ListsShape'
  <2>1. lists' = [lists EXCEPT ![l] = NoList] \/ UNCHANGED lists
    BY <1>5 DEF mok_reset_prompt, store_keys
  <2> QED
    BY <1>0, <2>1, NoListShape, ReplaceShape
<1>6. ASSUME NEW l \in Lists, mok_deletion_prompt(l) PROVE ListsShape'
  <2>1. PICK left : \/ UNCHANGED lists
                    \/ lists' = [lists EXCEPT ![l] = NoList]
                    \/ lists' = [lists EXCEPT ![l] = [lists[l] EXCEPT !.nodes = left]]
    BY <1>6 DEF mok_deletion_prompt
  <2>2. LET w == [lists[l] EXCEPT !.nodes = left]
        IN  /\ w = [f \in Fields |-> w[f]]
            /\ w.here \in BOOLEAN /\ w.parses \in BOOLEAN /\ w.runtime \in BOOLEAN
    BY DEF ListsShape, Fields
  <2> QED
    BY <1>0, <2>1, <2>2, NoListShape, ReplaceShape
<1>7. ASSUME NEW l \in Lists, DeletionErases(l) PROVE ListsShape'
  <2>1. lists' = [lists EXCEPT ![l] = NoList]
    BY <1>7 DEF DeletionErases
  <2> QED
    BY <2>1, NoListShape, ReplaceShape
<1>8. CASE mok_pw_prompt \/ \E r \in SwitchRequests : SwitchPrompt(r)
  BY <1>0, <1>8 DEF mok_pw_prompt, SwitchPrompt
<1>9. CASE EnrollFromDisk
  <2>1. \/ lists' = [lists EXCEPT !["MokList"] = Written("MokList", <<DiskNode>>)]
        \/ UNCHANGED lists
    BY <1>9 DEF EnrollFromDisk
  <2> QED
    BY <1>0, <2>1, WrittenShape, ReplaceShape DEF Lists
<1>10. CASE Reset \/ Return \/ UNCHANGED vars
  BY <1>0, <1>10 DEF Reset, Return, vars
<1> QED
  BY <1>1, <1>2, <1>3, <1>4, <1>5, <1>6, <1>7, <1>8, <1>9, <1>10 DEF Next

LEMMA ListsInit == Init => ListsShape
<1> SUFFICES ASSUME Init PROVE ListsShape
  OBVIOUS
<1>1. lists \in [Lists -> [here : BOOLEAN, runtime : BOOLEAN, parses : BOOLEAN,
                          nodes : Seq(Node)]]
  BY StoredAssumption DEF Init
<1> QED
  BY <1>1 DEF ListsShape, Fields

(* The request and hash variables.                                         *)
PwContents == {None, <<"clear">>, <<"sha">>, <<"crypt">>, <<"odd">>}
Kinds == {"none", "odd", "sha", "crypt", "long"}

NvramShape ==
    /\ req = [r \in Requests |-> req[r]]
    /\ auth \in [AuthNames -> Kinds]
    /\ req["MokPW"] \in PwContents

LEMMA KindsAreSizes == Kinds = DOMAIN AuthSize
  BY DEF Kinds, AuthSize

LEMMA GoneShape ==
    ASSUME NvramShape, NEW rs, NEW as, Gone(rs, as)
    PROVE  NvramShape' /\ \A r \in Requests : req'[r] \in {None, req[r]}
<1>1. /\ req' = [r \in Requests |-> IF r \in rs THEN None ELSE req[r]]
      /\ auth' = [a \in AuthNames |-> IF a \in as THEN "none" ELSE auth[a]]
  BY AuthsRange DEF Gone
<1>2. auth' \in [AuthNames -> Kinds]
  BY <1>1 DEF NvramShape, Kinds
<1>3. \A r \in Requests : req'[r] \in {None, req[r]}
  BY <1>1
<1>4. req' = [r \in Requests |-> req'[r]]
  BY <1>1
<1> QED
  BY <1>2, <1>3, <1>4 DEF NvramShape, PwContents, Requests

(* LibDeleteVariable on some of them.                                      *)
LEMMA DeleteShape ==
    ASSUME NvramShape, NEW rs, NEW as, Delete(rs, as)
    PROVE  NvramShape' /\ \A r \in Requests : req'[r] \in {None, req[r]}
<1>1. PICK xs, ys : Gone(xs, ys)
  BY DEF Delete
<1> QED
  BY <1>1, GoneShape

LEMMA NvramInit == Init => NvramShape
  BY AuthsRange DEF Init, NvramShape, NoRequests, PwContents, Kinds, Requests

LEMMA NvramStep == NvramShape /\ [Next]_vars => NvramShape'
<1> SUFFICES ASSUME NvramShape, [Next]_vars PROVE NvramShape'
  OBVIOUS
<1> USE DEF store, nvram, menu
<1>0. ASSUME UNCHANGED nvram PROVE NvramShape'
  BY <1>0 DEF NvramShape
<1>1. CASE OsRequest
  <2>1. auth' = auth
    BY <1>1 DEF OsRequest
  <2>2. PICK r, x : /\ r \in Requests
                    /\ req' = [req EXCEPT ![r] = x]
                    /\ r = "MokPW" => x \in PwContents
    <3>1. CASE \E r \in KeyRequests, n \in KeyLists : req' = [req EXCEPT ![r] = n]
      BY <3>1 DEF KeyRequests, Requests
    <3>2. CASE \E r \in SwitchRequests, s \in Switches : req' = [req EXCEPT ![r] = <<s>>]
      BY <3>2 DEF SwitchRequests, Requests
    <3>3. CASE \E q \in Passwords : req' = [req EXCEPT !["MokPW"] = <<q>>]
      BY <3>3, ContentsAssumption DEF PwContents, Requests
    <3> QED
      BY <1>1, <3>1, <3>2, <3>3 DEF OsRequest
  <2>3. req' = [q \in Requests |-> IF q = r THEN x ELSE req[q]]
    BY <2>2 DEF NvramShape
  <2> QED
    BY <2>1, <2>2, <2>3 DEF NvramShape, Requests
<1>2. CASE OsAuth
  <2>1. req' = req
    BY <1>2 DEF OsAuth
  <2>2. PICK a \in AuthNames, k \in AuthKinds : auth' = [auth EXCEPT ![a] = k]
    BY <1>2, AuthsRange DEF OsAuth
  <2>3. k \in Kinds
    BY ContentsAssumption DEF Kinds
  <2> QED
    BY <2>1, <2>2, <2>3 DEF NvramShape
<1>3. CASE OsReboot \/ CheckMokRequest \/ EnterMenu \/ StayOut \/ Scan \/ Overrun \/ PowerCycle
  BY <1>0, <1>3 DEF OsReboot, CheckMokRequest, EnterMenu, StayOut, Scan, Overrun, PowerCycle
<1>4. CASE Take
  BY <1>4, DeleteShape, GoneShape DEF Take
<1>5. CASE MenuNoMemory \/ Again \/ DeletionAborts \/ WriteFails \/ MenuBoot \/ EnrollFromDisk \/ Reset
  BY <1>0, <1>5 DEF MenuNoMemory, Again, DeletionAborts, WriteFails, MenuBoot, EnrollFromDisk, Reset
<1>6. ASSUME NEW l \in Lists, mok_enrollment_prompt(l) \/ mok_reset_prompt(l) PROVE NvramShape'
  BY <1>6, DeleteShape DEF mok_enrollment_prompt, mok_reset_prompt
<1>7. ASSUME NEW l \in Lists, mok_deletion_prompt(l) PROVE NvramShape'
  <2>1. PICK rs, as : Gone(rs, as) \/ Delete(rs, as)
    BY <1>7 DEF mok_deletion_prompt
  <2> QED
    BY <2>1, GoneShape, DeleteShape
<1>8. ASSUME NEW l \in Lists, DeletionErases(l) PROVE NvramShape'
  BY <1>0, <1>8 DEF DeletionErases
<1>9. ASSUME NEW r \in SwitchRequests, SwitchPrompt(r) PROVE NvramShape'
  BY <1>0, <1>9, DeleteShape DEF SwitchPrompt
<1>10. CASE mok_pw_prompt
  BY <1>10, GoneShape, DeleteShape DEF mok_pw_prompt
<1>11. CASE Return
  BY <1>11, DeleteShape DEF Return
<1>12. CASE UNCHANGED vars
  BY <1>0, <1>12 DEF vars
<1> QED
  BY <1>1, <1>2, <1>3, <1>4, <1>5, <1>6, <1>7, <1>8, <1>9, <1>10, <1>11, <1>12 DEF Next

(* enter_mok_menu's pointers are those of its caller, or NULL.             *)
HeldShape ==
    /\ held = [r \in Requests |-> held[r]]
    /\ \A r \in Requests : held[r] \in {None, taken[r]}
    /\ held["MokPW"] \in PwContents

LEMMA ForgetShape ==
    ASSUME HeldShape, NEW r \in Requests, Forget(r), taken' = taken
    PROVE  HeldShape'
<1>1. held' = [q \in Requests |-> IF q = r THEN None ELSE held[q]]
  BY DEF Forget, HeldShape
<1> QED
  BY <1>1 DEF HeldShape, PwContents, Requests

LEMMA HeldInit == Init => HeldShape
  BY DEF Init, HeldShape, NoRequests, PwContents, Requests

LEMMA RequestNames ==
    /\ \A l \in Lists : NewOf(l) \in Requests /\ DelOf(l) \in Requests
    /\ SwitchRequests \subseteq Requests /\ "MokPW" \in Requests
  BY DEF Lists, NewOf, DelOf, Requests, KeyRequests, SwitchRequests

LEMMA HeldStep == NvramShape /\ HeldShape /\ [Next]_vars => HeldShape'
<1> SUFFICES ASSUME NvramShape, HeldShape, [Next]_vars PROVE HeldShape'
  OBVIOUS
<1> USE DEF store, nvram, menu
<1>0. ASSUME UNCHANGED <<held, taken>> PROVE HeldShape'
  BY <1>0 DEF HeldShape
<1>1. CASE OsRequest \/ OsAuth \/ OsReboot \/ CheckMokRequest
  BY <1>0, <1>1 DEF OsRequest, OsAuth, OsReboot, CheckMokRequest
<1>2. CASE EnterMenu \/ StayOut \/ Scan \/ Overrun \/ MenuNoMemory
  BY <1>0, <1>2 DEF EnterMenu, StayOut, Scan, Overrun, MenuNoMemory
<1>3. CASE Take
  <2>1. PICK unread : held' = [r \in Requests |-> IF r \in unread THEN None ELSE req[r]]
    BY <1>3 DEF Take
  <2>2. taken' = held'
    BY <1>3 DEF Take
  <2> QED
    BY <2>1, <2>2 DEF HeldShape, NvramShape, PwContents, Requests
<1>4. CASE Again \/ DeletionAborts \/ WriteFails \/ MenuBoot \/ EnrollFromDisk
  BY <1>0, <1>4 DEF Again, DeletionAborts, WriteFails, MenuBoot, EnrollFromDisk
<1>5. ASSUME NEW l \in Lists, mok_enrollment_prompt(l) PROVE HeldShape'
  BY <1>5, ForgetShape, RequestNames DEF mok_enrollment_prompt
<1>6. ASSUME NEW l \in Lists, mok_reset_prompt(l) PROVE HeldShape'
  BY <1>0, <1>6 DEF mok_reset_prompt
<1>7. ASSUME NEW l \in Lists, mok_deletion_prompt(l) PROVE HeldShape'
  <2>1. Forget(DelOf(l)) /\ taken' = taken
    BY <1>7 DEF mok_deletion_prompt
  <2> QED
    BY <2>1, ForgetShape, RequestNames
<1>8. ASSUME NEW l \in Lists, DeletionErases(l) PROVE HeldShape'
  BY <1>0, <1>8 DEF DeletionErases
<1>9. ASSUME NEW r \in SwitchRequests, SwitchPrompt(r) PROVE HeldShape'
  BY <1>0, <1>9, ForgetShape, RequestNames DEF SwitchPrompt
<1>10. CASE mok_pw_prompt
  BY <1>10, ForgetShape, RequestNames DEF mok_pw_prompt
<1>11. CASE Reset \/ Return \/ PowerCycle
  <2>1. held' = NoRequests /\ taken' = NoRequests
    BY <1>11 DEF Reset, Return, PowerCycle
  <2> QED
    BY <2>1 DEF HeldShape, NoRequests, PwContents, Requests
<1>12. CASE UNCHANGED vars
  BY <1>0, <1>12 DEF vars
<1> QED
  BY <1>1, <1>2, <1>3, <1>4, <1>5, <1>6, <1>7, <1>8, <1>9, <1>10, <1>11, <1>12 DEF Next

(* The switches and the password.                                          *)
SettingsShape ==
    /\ switch \in [SwitchRequests -> BOOLEAN]
    /\ pwstore \in {"none", "sha", "crypt"}

LEMMA SettingsStep == HeldShape /\ SettingsShape /\ [Next]_vars => SettingsShape'
<1> SUFFICES ASSUME HeldShape, SettingsShape, [Next]_vars PROVE SettingsShape'
  OBVIOUS
<1> USE DEF store, nvram, menu
<1>0. ASSUME UNCHANGED <<switch, pwstore>> PROVE SettingsShape'
  BY <1>0 DEF SettingsShape
<1>1. CASE OsRequest \/ OsAuth \/ OsReboot \/ CheckMokRequest \/ Take \/ EnterMenu \/ StayOut
  BY <1>0, <1>1 DEF OsRequest, OsAuth, OsReboot, CheckMokRequest, Take, EnterMenu, StayOut
<1>2. CASE Scan \/ Overrun \/ PowerCycle \/ MenuNoMemory \/ Again \/ DeletionAborts
  BY <1>0, <1>2 DEF Scan, Overrun, PowerCycle, MenuNoMemory, Again, DeletionAborts
<1>3. CASE WriteFails \/ MenuBoot \/ EnrollFromDisk \/ Reset \/ Return \/ UNCHANGED vars
  BY <1>0, <1>3 DEF WriteFails, MenuBoot, EnrollFromDisk, Reset, Return, vars
<1>4. ASSUME NEW l \in Lists,
             mok_enrollment_prompt(l) \/ mok_reset_prompt(l) \/ mok_deletion_prompt(l)
               \/ DeletionErases(l)
      PROVE  SettingsShape'
  BY <1>0, <1>4 DEF mok_enrollment_prompt, mok_reset_prompt, mok_deletion_prompt, DeletionErases
<1>5. ASSUME NEW r \in SwitchRequests, SwitchPrompt(r) PROVE SettingsShape'
  <2>1. pwstore' = pwstore
    BY <1>5 DEF SwitchPrompt
  <2>2. PICK b \in BOOLEAN : switch' = switch \/ switch' = [switch EXCEPT ![r] = b]
    <3>1. (held[r] = <<"set">>) \in BOOLEAN
      OBVIOUS
    <3> QED
      BY <1>5, <3>1 DEF SwitchPrompt
  <2> QED
    BY <2>1, <2>2 DEF SettingsShape
<1>6. CASE mok_pw_prompt
  <2>1. switch' = switch
    BY <1>6 DEF mok_pw_prompt
  <2>2. \/ pwstore' = pwstore
        \/ pwstore' = IF held["MokPW"] = <<"clear">> THEN "none" ELSE held["MokPW"][1]
    BY <1>6 DEF mok_pw_prompt
  <2>3. held["MokPW"] \in {<<"clear">>, <<"sha">>, <<"crypt">>}
    BY <1>6 DEF mok_pw_prompt, HeldShape, PwContents
  <2> QED
    BY <2>1, <2>2, <2>3 DEF SettingsShape
<1> QED
  BY <1>1, <1>2, <1>3, <1>4, <1>5, <1>6 DEF Next

(* auth_size takes the length of the last hash found, or stays.            *)
Sizes == {20, 32, 194, 300}

LEMMA SizeAfterType ==
    ASSUME NvramShape, size \in Sizes
    PROVE  \A i \in 0 .. 4 : SizeAfter[i] \in Sizes
<1> DEFINE a(i) == auth[Auths[i]]
           next(i, n) == IF a(i) = "none" THEN n ELSE AuthSize[a(i)]
           s1 == next(1, size)
           s2 == next(2, s1)
           s3 == next(3, s2)
           s4 == next(4, s3)
           g == [i \in 0 .. 4 |-> IF i = 0 THEN size ELSE IF i = 1 THEN s1
                                  ELSE IF i = 2 THEN s2 ELSE IF i = 3 THEN s3 ELSE s4]
           Rec(f) == f = [i \in 0 .. 4 |-> IF i = 0 THEN size ELSE next(i, f[i - 1])]
<1>1. Rec(g)
  <2>1. g[0] = size /\ g[1] = s1 /\ g[2] = s2 /\ g[3] = s3
    OBVIOUS
  <2>2. \A i \in 0 .. 4 : g[i] = IF i = 0 THEN size ELSE next(i, g[i - 1])
    <3> TAKE i \in 0 .. 4
    <3>1. CASE i = 0
      BY <3>1
    <3>2. CASE i = 1
      BY <3>2, <2>1
    <3>3. CASE i = 2
      BY <3>3, <2>1
    <3>4. CASE i = 3
      BY <3>4, <2>1
    <3>5. CASE i = 4
      BY <3>5, <2>1
    <3> QED
      BY <3>1, <3>2, <3>3, <3>4, <3>5
  <2> HIDE DEF next
  <2> QED
    BY <2>2
<1>2. SizeAfter = CHOOSE f : Rec(f)
  BY DEF SizeAfter
<1> HIDE DEF g
<1>3. Rec(SizeAfter)
  <2> HIDE DEF Rec
  <2> QED
    BY <1>1, <1>2
<1>4. \A i \in 1 .. 4, n \in Sizes : next(i, n) \in Sizes
  <2>1. \A i \in 1 .. 4 : a(i) \in Kinds
    BY DEF NvramShape, Auths, AuthNames
  <2>2. \A k \in Kinds \ {"none"} : AuthSize[k] \in Sizes
    BY DEF Kinds, AuthSize, Sizes
  <2> QED
    BY <2>1, <2>2
<1> HIDE DEF next
<1>5. SizeAfter[0] \in Sizes
  BY <1>3
<1>6. SizeAfter[1] \in Sizes
  BY <1>3, <1>4, <1>5
<1>7. SizeAfter[2] \in Sizes
  BY <1>3, <1>4, <1>6
<1>8. SizeAfter[3] \in Sizes
  BY <1>3, <1>4, <1>7
<1>9. SizeAfter[4] \in Sizes
  BY <1>3, <1>4, <1>8
<1> QED
  BY <1>5, <1>6, <1>7, <1>8, <1>9

(* The loop of enter_mok_menu.                                             *)
MenuShape ==
    /\ size \in Sizes /\ seen \subseteq AuthNames /\ changed \in BOOLEAN

LEMMA MenuStep == NvramShape /\ MenuShape /\ [Next]_vars => MenuShape'
<1> SUFFICES ASSUME NvramShape, MenuShape, [Next]_vars PROVE MenuShape'
  OBVIOUS
<1> USE DEF store, nvram, menu
<1>0. ASSUME UNCHANGED <<size, seen>>, changed' \in BOOLEAN PROVE MenuShape'
  BY <1>0 DEF MenuShape
<1>a. changed \in BOOLEAN /\ \A d \in BOOLEAN : Done(d) => changed' \in BOOLEAN
  BY DEF MenuShape, Done
<1>1. CASE OsRequest \/ OsAuth \/ OsReboot \/ Take \/ EnterMenu \/ StayOut
  BY <1>0, <1>a, <1>1 DEF OsRequest, OsAuth, OsReboot, Take, EnterMenu, StayOut
<1>2. CASE CheckMokRequest
  BY <1>2 DEF CheckMokRequest, MenuShape, Sizes
<1>3. CASE Scan
  <2>1. size' = SizeAfter[4] /\ changed' = changed
    BY <1>3 DEF Scan
  <2>2. seen' \subseteq AuthNames
    BY <1>3 DEF Scan, Auths, AuthNames
  <2> QED
    BY <2>1, <2>2, SizeAfterType DEF MenuShape
<1>4. CASE Overrun \/ MenuNoMemory \/ DeletionAborts \/ MenuBoot
  BY <1>0, <1>a, <1>4 DEF Overrun, MenuNoMemory, DeletionAborts, MenuBoot
<1>5. CASE Again \/ WriteFails \/ EnrollFromDisk
  BY <1>0, <1>a, <1>5 DEF Again, WriteFails, EnrollFromDisk
<1>6. ASSUME NEW l \in Lists,
             mok_enrollment_prompt(l) \/ mok_reset_prompt(l) \/ mok_deletion_prompt(l)
               \/ DeletionErases(l)
      PROVE  MenuShape'
  BY <1>0, <1>a, <1>6 DEF mok_enrollment_prompt, mok_reset_prompt, mok_deletion_prompt,
                          DeletionErases
<1>7. ASSUME NEW r \in SwitchRequests, SwitchPrompt(r) PROVE MenuShape'
  BY <1>0, <1>a, <1>7 DEF SwitchPrompt
<1>8. CASE mok_pw_prompt
  BY <1>0, <1>a, <1>8 DEF mok_pw_prompt
<1>9. CASE Reset \/ Return \/ PowerCycle
  BY <1>a, <1>9 DEF Reset, Return, PowerCycle, MenuShape
<1>10. CASE UNCHANGED vars
  BY <1>0, <1>a, <1>10 DEF vars
<1> QED
  BY <1>1, <1>2, <1>3, <1>4, <1>5, <1>6, <1>7, <1>8, <1>9, <1>10 DEF Next

Shapes == ListsShape /\ NvramShape /\ HeldShape /\ SettingsShape /\ MenuShape

LEMMA ShapesHold == Spec => []Shapes
<1>1. Init => Shapes
  <2>1. Init => SettingsShape
    BY DEF Init, SettingsShape
  <2>2. Init => MenuShape
    BY DEF Init, MenuShape, Sizes
  <2> QED
    BY <2>1, <2>2, ListsInit, NvramInit, HeldInit DEF Shapes
<1>2. Shapes /\ [Next]_vars => Shapes'
  BY ListsStep, NvramStep, HeldStep, SettingsStep, MenuStep DEF Shapes
<1> QED
  BY <1>1, <1>2, PTL DEF Spec

(* Every variable keeps its type, and the menu never works on a request    *)
(* its caller does not own.                                                *)
THEOREM TypeCorrect == Spec => []TypeOK
<1>1. Shapes => TypeOK
  BY AuthsRange, KindsAreSizes
     DEF Shapes, ListsShape, NvramShape, HeldShape, SettingsShape, MenuShape, Sizes, TypeOK
<1> QED
  BY <1>1, ShapesHold, PTL

---------------------------------------------------------------------------
(* Nothing changes without the user's proof                                *)

Proved(l) == \/ {AuthOf(l), DelAuthOf(l)} \intersect proof # {}
             \/ l = "MokList" /\ "disk" \in proof

(* Before the menu nothing has changed, and in the menu the password has   *)
(* been given if there was one and it could be read.                       *)
AuthorisedInv ==
    /\ ChangesAuthorised
    /\ pc \in {"take", "pw"} => start = <<lists, switch, pwstore>>
    /\ pc \in {"scan", "menu"} /\ Valid(start[3]) => "password" \in proof \/ "pwread" \in trouble

(* What has failed in a boot is known until the next one starts.           *)
LEMMA TroubleGrows ==
    /\ Ok \/ (\E x : Fault(x)) => trouble \subseteq trouble'
    /\ \A rs, as : Delete(rs, as) => trouble \subseteq trouble'
<1>1. Ok \/ (\E x : Fault(x)) => trouble \subseteq trouble'
  BY DEF Ok, Fault
<1> QED
  BY <1>1 DEF Delete

(* A choice in the menu that asks for the proof of what it changes.        *)
LEMMA ProvedChoice ==
    ASSUME AuthorisedInv, pc \in {"scan", "menu"}, pc' \in {"scan", "menu", "out"},
           start' = start, proof \subseteq proof', trouble \subseteq trouble',
           \A l \in Lists : lists'[l] # lists[l] => Proved(l)',
           \A r \in SwitchRequests : switch'[r] # switch[r] => r \in proof'
    PROVE  AuthorisedInv'
<1>1. \A l \in Lists : Proved(l) => Proved(l)'
  BY DEF Proved
<1>2. \A l \in Lists : lists'[l] # start'[1][l] => Proved(l)'
  BY <1>1 DEF AuthorisedInv, ChangesAuthorised, Proved
<1>3. \A r \in SwitchRequests : switch'[r] # start'[2][r] => r \in proof'
  BY DEF AuthorisedInv, ChangesAuthorised
<1>4. Valid(start'[3]) => "password" \in proof' \/ "pwread" \in trouble'
  BY DEF AuthorisedInv, Valid
<1> QED
  BY <1>2, <1>3, <1>4 DEF AuthorisedInv, ChangesAuthorised, Proved, Valid

LEMMA AuthorisedStep == Shapes /\ AuthorisedInv /\ [Next]_vars => AuthorisedInv'
<1> SUFFICES ASSUME Shapes, AuthorisedInv, [Next]_vars PROVE AuthorisedInv'
  OBVIOUS
<1> USE DEF store, nvram, menu
<1>0. ASSUME UNCHANGED <<store, start, proof>>, pc' \notin {"take", "pw", "scan", "menu"},
             trouble \subseteq trouble'
      PROVE  AuthorisedInv'
  BY <1>0 DEF AuthorisedInv, ChangesAuthorised, Valid
<1>a. ASSUME NEW l \in Lists, NEW w, lists' = [lists EXCEPT ![l] = w], Proved(l)'
      PROVE  \A k \in Lists : lists'[k] # lists[k] => Proved(k)'
  BY <1>a DEF Shapes, ListsShape
<1>1. CASE OsRequest \/ OsAuth \/ OsReboot \/ StayOut
  BY <1>0, <1>1 DEF OsRequest, OsAuth, OsReboot, StayOut
<1>2. CASE CheckMokRequest
  BY <1>2 DEF CheckMokRequest, AuthorisedInv, ChangesAuthorised, Valid
<1>3. CASE Take
  BY <1>3 DEF Take, AuthorisedInv, ChangesAuthorised, Valid
<1>4. CASE EnterMenu
  <2>1. UNCHANGED <<store, start>> /\ pc = "pw" /\ pc' = "scan"
    BY <1>4 DEF EnterMenu
  <2>2. start = <<lists, switch, pwstore>>
    BY <2>1 DEF AuthorisedInv
  <2>3. Valid(pwstore) => "password" \in proof' \/ "pwread" \in trouble'
    BY <1>4 DEF EnterMenu, Fault
  <2> QED
    BY <2>1, <2>2, <2>3 DEF AuthorisedInv, ChangesAuthorised, Valid
<1>5. CASE Scan \/ Again \/ WriteFails
  <2>1. /\ UNCHANGED <<store, start, proof>> /\ trouble \subseteq trouble'
        /\ pc \in {"scan", "menu"} /\ pc' \in {"scan", "menu"}
    BY <1>5, TroubleGrows DEF Scan, Again, WriteFails
  <2> QED
    BY <2>1, ProvedChoice
<1>6. CASE Overrun \/ PowerCycle \/ MenuNoMemory \/ DeletionAborts \/ MenuBoot
  BY <1>0, <1>6, TroubleGrows DEF Overrun, PowerCycle, MenuNoMemory, DeletionAborts, MenuBoot
<1>7. ASSUME NEW l \in Lists, NEW w, store_keys(l, w), pc = "menu", pc' = "scan",
             UNCHANGED <<switch, pwstore, start>>, trouble \subseteq trouble'
      PROVE  AuthorisedInv'
  <2>1. CASE UNCHANGED <<lists, proof>>
    BY <2>1, <1>7, ProvedChoice
  <2>2. CASE proof' = proof \union {AuthOf(l)} /\ lists' = [lists EXCEPT ![l] = w]
    BY <2>2, <1>7, <1>a, ProvedChoice DEF Proved
  <2> QED
    BY <2>1, <2>2, <1>7 DEF store_keys
<1>8. ASSUME NEW l \in Lists, mok_enrollment_prompt(l) \/ mok_reset_prompt(l)
      PROVE  AuthorisedInv'
  BY <1>7, <1>8, TroubleGrows DEF mok_enrollment_prompt, mok_reset_prompt
<1>9. ASSUME NEW l \in Lists, mok_deletion_prompt(l) \/ DeletionErases(l)
      PROVE  AuthorisedInv'
  <2>1. pc = "menu" /\ pc' = "scan" /\ UNCHANGED <<switch, start>>
    BY <1>9 DEF mok_deletion_prompt, DeletionErases
  <2>2. \/ UNCHANGED <<lists, proof>>
        \/ /\ proof' = proof \union {DelAuthOf(l)}
           /\ UNCHANGED lists \/ \E w : lists' = [lists EXCEPT ![l] = w]
    BY <1>9 DEF mok_deletion_prompt, DeletionErases
  <2>3. DelAuthOf(l) \in proof' => Proved(l)'
    BY DEF Proved
  <2>4. trouble \subseteq trouble'
    <3>1. \/ (\E rs, as : Delete(rs, as)) \/ (\E x : Fault(x))
          \/ trouble' = trouble \union {"erased"}
      BY <1>9 DEF mok_deletion_prompt, DeletionErases
    <3> QED
      BY <3>1, TroubleGrows
  <2> QED
    BY <2>1, <2>2, <2>3, <2>4, <1>a, ProvedChoice
<1>10. ASSUME NEW r \in SwitchRequests, SwitchPrompt(r) PROVE AuthorisedInv'
  <2>1. /\ pc = "menu" /\ pc' = "scan" /\ UNCHANGED <<lists, start>>
        /\ proof' = proof \union {r}
        /\ UNCHANGED switch \/ \E b : switch' = [switch EXCEPT ![r] = b]
    BY <1>10 DEF SwitchPrompt
  <2>2. \A q \in SwitchRequests : switch'[q] # switch[q] => q = r
    BY <2>1 DEF Shapes, SettingsShape
  <2>3. trouble \subseteq trouble'
    BY <1>10, TroubleGrows DEF SwitchPrompt
  <2> QED
    BY <2>1, <2>2, <2>3, ProvedChoice
<1>11. CASE mok_pw_prompt
  <2>1. /\ pc = "menu" /\ pc' = "scan" /\ UNCHANGED <<lists, switch, start>>
        /\ proof' = proof \union {"MokPW"} /\ trouble \subseteq trouble'
    BY <1>11, TroubleGrows DEF mok_pw_prompt
  <2> QED
    BY <2>1, ProvedChoice
<1>12. CASE EnrollFromDisk
  <2>1. /\ pc = "menu" /\ pc' = "scan" /\ UNCHANGED <<switch, start>>
        /\ proof' = proof \union {"disk"} /\ trouble \subseteq trouble'
        /\ UNCHANGED lists \/ \E w : lists' = [lists EXCEPT !["MokList"] = w]
    BY <1>12, TroubleGrows DEF EnrollFromDisk
  <2>2. "MokList" \in Lists /\ Proved("MokList")'
    BY <2>1 DEF Lists, Proved
  <2> QED
    BY <2>1, <2>2, <1>a, ProvedChoice
<1>13. CASE Reset \/ Return
  BY <1>0, <1>13, TroubleGrows DEF Reset, Return
<1>14. CASE UNCHANGED vars
  BY <1>14 DEF vars, AuthorisedInv, ChangesAuthorised, Valid
<1> QED
  BY <1>1, <1>2, <1>3, <1>4, <1>5, <1>6, <1>8, <1>9, <1>10, <1>11, <1>12, <1>13, <1>14
     DEF Next

(* Whatever the operating system asks for, the stored lists, switches and  *)
(* password are what they were when MokManager started, or the user has    *)
(* proved to be allowed to change them; the MOK password is only left out  *)
(* in a boot in which verify_pw could not read it.                         *)
THEOREM NoChangeWithoutProof == Spec => []ChangesAuthorised
<1>1. Init => AuthorisedInv
  BY DEF Init, AuthorisedInv, ChangesAuthorised, Valid
<1>2. AuthorisedInv => ChangesAuthorised
  BY DEF AuthorisedInv
<1> QED
  BY <1>1, <1>2, AuthorisedStep, ShapesHold, PTL DEF Spec

---------------------------------------------------------------------------
(* No boot with changes, and no buffer freed twice                         *)

Erased == trouble \intersect {"erased", "nomem"} # {}

(* A change that is not announced by mok_changed is one of those the       *)
(* history records.                                                        *)
ResetInv == pc # "shim" /\ ~changed /\ ~Erased => start = <<lists, switch, pwstore>>

LEMMA ResetStep == MenuShape /\ ResetInv /\ [Next]_vars => ResetInv'
<1> SUFFICES ASSUME MenuShape, ResetInv, [Next]_vars PROVE ResetInv'
  OBVIOUS
<1> USE DEF store, nvram, menu, ResetInv
<1>0. ASSUME UNCHANGED <<store, start, changed>>, trouble \subseteq trouble', pc # "shim"
      PROVE  ResetInv'
  BY <1>0 DEF Erased
<1>c. ASSUME Done(TRUE) PROVE ResetInv'
  BY <1>c DEF Done
<1>d. Done(FALSE) => changed' = changed
  BY DEF Done, MenuShape
<1>1. CASE OsRequest \/ OsAuth \/ EnterMenu \/ StayOut \/ Scan \/ Overrun \/ DeletionAborts \/ MenuBoot
  BY <1>0, <1>1, TroubleGrows
     DEF OsRequest, OsAuth, EnterMenu, StayOut, Scan, Overrun, DeletionAborts, MenuBoot
<1>2. CASE OsReboot \/ Reset \/ PowerCycle
  BY <1>2 DEF OsReboot, Reset, PowerCycle
<1>3. CASE CheckMokRequest
  BY <1>3 DEF CheckMokRequest
<1>4. CASE Take
  BY <1>0, TroubleGrows, <1>4 DEF Take
<1>5. CASE MenuNoMemory
  BY <1>5 DEF MenuNoMemory, Fault, Erased
<1>6. CASE Again \/ WriteFails
  BY <1>0, TroubleGrows, <1>d, <1>6 DEF Again, WriteFails
<1>7. ASSUME NEW l \in Lists,
             mok_enrollment_prompt(l) \/ mok_reset_prompt(l) \/ mok_deletion_prompt(l)
      PROVE  ResetInv'
  BY <1>c, <1>7 DEF mok_enrollment_prompt, mok_reset_prompt, mok_deletion_prompt
<1>8. ASSUME NEW l \in Lists, DeletionErases(l) PROVE ResetInv'
  BY <1>8 DEF DeletionErases, Erased
<1>9. ASSUME NEW r \in SwitchRequests, SwitchPrompt(r) PROVE ResetInv'
  <2>1. CASE Done(TRUE)
    BY <1>c, <2>1
  <2>2. CASE Delete({r}, {}) /\ Done(FALSE) /\ UNCHANGED <<switch, held>>
    BY <1>0, TroubleGrows, <1>d, <1>9, <2>2 DEF SwitchPrompt
  <2> QED
    BY <1>9, <2>1, <2>2 DEF SwitchPrompt
<1>10. CASE mok_pw_prompt \/ EnrollFromDisk
  BY <1>c, <1>10 DEF mok_pw_prompt, EnrollFromDisk
<1>11. CASE Return
  BY <1>0, TroubleGrows, <1>11 DEF Return
<1>12. CASE UNCHANGED vars
  BY <1>12 DEF vars, Erased
<1> QED
  BY <1>1, <1>2, <1>3, <1>4, <1>5, <1>6, <1>7, <1>8, <1>9, <1>10, <1>11, <1>12 DEF Next

NoMemory == "nomem" \in trouble

(* A freed request is one the menu has forgotten, so it is not freed again *)
(* there; and mok_changed is set, so that check_mok_request does not come  *)
(* to free it once more.                                                   *)
FreedInv ==
    ~NoMemory =>
        /\ IsInjective(freed)
        /\ pc \in {"take", "pw"} => freed = <<>>
        /\ pc \in {"scan", "menu", "out"} =>
              /\ freed \in Seq(Requests)
              /\ \A m \in DOMAIN freed : held[freed[m]] = None
              /\ freed # <<>> => changed

LEMMA EmptyInjective == <<>> \in Seq(Requests) /\ IsInjective(<<>>)
  BY DEF IsInjective

LEMMA AppendFresh ==
    ASSUME NEW s \in Seq(Requests), IsInjective(s), NEW r \in Requests,
           \A m \in DOMAIN s : s[m] # r
    PROVE  /\ Append(s, r) \in Seq(Requests) /\ IsInjective(Append(s, r))
           /\ \A m \in DOMAIN Append(s, r) : Append(s, r)[m] = r \/ \E k \in DOMAIN s : Append(s, r)[m] = s[k]
<1>1. /\ DOMAIN s = 1 .. Len(s) /\ Len(s) \in Nat
      /\ Append(s, r) \in Seq(Requests)
      /\ DOMAIN Append(s, r) = 1 .. (Len(s) + 1)
      /\ \A i \in 1 .. Len(s) : Append(s, r)[i] = s[i]
      /\ Append(s, r)[Len(s) + 1] = r
  BY AppendProperties, LenProperties
<1>2. IsInjective(Append(s, r))
  <2> SUFFICES ASSUME NEW a \in 1 .. (Len(s) + 1), NEW b \in 1 .. (Len(s) + 1),
                      Append(s, r)[a] = Append(s, r)[b]
               PROVE  a = b
    BY <1>1 DEF IsInjective
  <2>1. CASE a \in 1 .. Len(s) /\ b \in 1 .. Len(s)
    BY <1>1, <2>1 DEF IsInjective
  <2>2. CASE a = Len(s) + 1 \/ b = Len(s) + 1
    BY <1>1, <2>2
  <2> QED
    BY <1>1, <2>1, <2>2
<1> QED
  BY <1>1, <1>2

(* The buffers check_mok_request frees are different ones.                 *)
LEMMA SetToSeqInjective ==
    ASSUME NEW S \in SUBSET Requests
    PROVE  SetToSeq(S) \in Seq(Requests) /\ IsInjective(SetToSeq(S))
<1>1. IsFiniteSet(Requests)
  <2> DEFINE names == <<"MokNew", "MokDel", "MokXNew", "MokXDel", "MokSB", "MokDB",
                        "MokListTrustedNew", "MokPW">>
  <2>1. names \in [1 .. 8 -> Requests]
    BY DEF Requests, KeyRequests, SwitchRequests
  <2>2. \A r \in Requests : \E n \in 1 .. 8 : names[n] = r
    <3>1. /\ names[1] = "MokNew" /\ names[2] = "MokDel" /\ names[3] = "MokXNew"
          /\ names[4] = "MokXDel" /\ names[5] = "MokSB" /\ names[6] = "MokDB"
          /\ names[7] = "MokListTrustedNew" /\ names[8] = "MokPW"
      OBVIOUS
    <3>2. 1 \in 1 .. 8 /\ 2 \in 1 .. 8 /\ 3 \in 1 .. 8 /\ 4 \in 1 .. 8
          /\ 5 \in 1 .. 8 /\ 6 \in 1 .. 8 /\ 7 \in 1 .. 8 /\ 8 \in 1 .. 8
      OBVIOUS
    <3> HIDE DEF names
    <3> QED
      BY <3>1, <3>2, Zenon DEF Requests, KeyRequests, SwitchRequests
  <2> HIDE DEF names
  <2>3. names \in Surjection(1 .. 8, Requests)
    BY <2>1, <2>2 DEF Surjection
  <2>4. IsFiniteSet(1 .. 8)
    <3>1. 1 \in Int /\ 8 \in Int
      OBVIOUS
    <3> QED
      BY <3>1, FS_Interval, Zenon
  <2> QED
    BY <2>3, <2>4, FS_Surjection
<1>2. IsFiniteSet(S)
  BY <1>1, FS_Subset
<1>3. Cardinality(S) \in Nat /\ ExistsBijection(1 .. Cardinality(S), S)
  BY <1>2, FS_CardinalityType
<1>4. \E f \in [1 .. Cardinality(S) -> S] : IsInjective(f)
  BY <1>3 DEF ExistsBijection, Bijection, Injection, IsInjective
<1>5. SetToSeq(S) \in [1 .. Cardinality(S) -> S] /\ IsInjective(SetToSeq(S))
  BY <1>4 DEF SetToSeq
<1>6. SetToSeq(S) \in Seq(S)
  BY <1>3, <1>5, SeqDef
<1> QED
  BY <1>5, <1>6, SeqMonotonic

LEMMA FreedStep == Shapes /\ FreedInv /\ [Next]_vars => FreedInv'
<1> SUFFICES ASSUME Shapes, FreedInv, [Next]_vars PROVE FreedInv'
  OBVIOUS
<1> USE DEF store, nvram, menu, NoMemory
<1>a. (Ok \/ \E x : Fault(x)) => (NoMemory => NoMemory')
  BY TroubleGrows
<1>b. \A rs, as : Delete(rs, as) => (NoMemory => NoMemory')
  BY TroubleGrows
<1>c. changed \in BOOLEAN /\ (Done(FALSE) => changed' = changed) /\ (Done(TRUE) => changed')
  BY DEF Done, Shapes, MenuShape
\* Steps that forget a request, or none, and free nothing.
<1>0. ASSUME UNCHANGED freed, NoMemory => NoMemory', changed => changed',
             \A r \in Requests : held'[r] \in {held[r], None},
             \/ pc \in {"scan", "menu"} /\ pc' \in {"scan", "menu", "out"}
             \/ pc' \in {"os", "shim", "lost"}
      PROVE  FreedInv'
  <2> SUFFICES ASSUME ~NoMemory' PROVE FreedInv!2'
    BY DEF FreedInv
  <2>1. \A s \in Seq(Requests) : \A m \in DOMAIN s : s[m] \in Requests
    BY ElementOfSeq, LenProperties
  <2> QED
    BY <1>0, <2>1 DEF FreedInv
<1>d. \A r \in Requests : Forget(r) => \A q \in Requests : held'[q] \in {held[q], None}
  BY DEF Forget, Shapes, HeldShape
<1>1. CASE OsRequest \/ OsAuth
  <2>1. pc = "os" /\ pc' = "os" /\ UNCHANGED <<freed, trouble>>
    BY <1>1 DEF OsRequest, OsAuth
  <2> QED
    BY <2>1 DEF FreedInv
<1>2. CASE OsReboot
  BY <1>2 DEF OsReboot, FreedInv
<1>3. CASE CheckMokRequest
  BY <1>3, EmptyInjective DEF CheckMokRequest, FreedInv
<1>4. CASE Take
  BY <1>4, <1>a, <1>b DEF Take, FreedInv
<1>5. CASE EnterMenu \/ StayOut
  <2>1. pc = "pw" /\ pc' \in {"scan", "out"} /\ UNCHANGED freed /\ trouble \subseteq trouble'
    BY <1>5, TroubleGrows DEF EnterMenu, StayOut
  <2> SUFFICES ASSUME ~NoMemory' PROVE FreedInv!2'
    BY DEF FreedInv
  <2>2. freed' = <<>>
    BY <2>1 DEF FreedInv
  <2> QED
    BY <2>1, <2>2, EmptyInjective
<1>6. CASE Scan \/ Overrun
  BY <1>0, <1>6 DEF Scan, Overrun
<1>7. CASE MenuNoMemory
  BY <1>7 DEF MenuNoMemory, Fault, FreedInv
<1>8. CASE Again \/ WriteFails
  BY <1>0, <1>a, <1>c, <1>8 DEF Again, WriteFails
<1>9. CASE DeletionAborts \/ MenuBoot
  BY <1>0, <1>9 DEF DeletionAborts, MenuBoot
<1>10. ASSUME NEW l \in Lists, mok_enrollment_prompt(l) \/ mok_reset_prompt(l) PROVE FreedInv'
  BY <1>0, <1>b, <1>c, <1>d, <1>10, RequestNames DEF mok_enrollment_prompt, mok_reset_prompt
<1>11. ASSUME NEW l \in Lists, mok_deletion_prompt(l) PROVE FreedInv'
  <2> DEFINE r == DelOf(l)
  <2>1. /\ pc = "menu" /\ pc' = "scan" /\ changed' /\ r \in Requests
        /\ held[r] # None /\ freed' = Append(freed, r)
        /\ held' = [held EXCEPT ![r] = None]
    BY <1>c, <1>11, RequestNames DEF mok_deletion_prompt, Forget
  <2>2. NoMemory => NoMemory'
    <3>1. (\E rs, as : Delete(rs, as)) \/ (\E x : Fault(x))
      BY <1>11 DEF mok_deletion_prompt
    <3> QED
      BY <3>1, <1>a, <1>b
  <2> SUFFICES ASSUME ~NoMemory PROVE FreedInv!2'
    BY <2>2 DEF FreedInv
  <2>3. freed \in Seq(Requests) /\ IsInjective(freed) /\ \A m \in DOMAIN freed : held[freed[m]] = None
    BY <2>1 DEF FreedInv
  <2>4. held' = [q \in Requests |-> IF q = r THEN None ELSE held[q]]
    BY <2>1 DEF Shapes, HeldShape
  <2>5. \A m \in DOMAIN freed : freed[m] \in Requests /\ freed[m] # r
    BY <2>1, <2>3, ElementOfSeq, LenProperties
  <2>6. /\ freed' \in Seq(Requests) /\ IsInjective(freed')
        /\ \A m \in DOMAIN freed' : freed'[m] = r \/ \E k \in DOMAIN freed : freed'[m] = freed[k]
    BY <2>1, <2>3, <2>5, AppendFresh
  <2>7. \A m \in DOMAIN freed' : held'[freed'[m]] = None
    BY <2>1, <2>3, <2>4, <2>5, <2>6
  <2> QED
    BY <2>1, <2>6, <2>7
<1>12. ASSUME NEW l \in Lists, DeletionErases(l) PROVE FreedInv'
  BY <1>0, <1>c, <1>12 DEF DeletionErases
<1>13. ASSUME NEW r \in SwitchRequests, SwitchPrompt(r) PROVE FreedInv'
  <2>1. r \in Requests
    BY RequestNames
  <2>2. \A q \in Requests : held'[q] \in {held[q], None}
    BY <1>d, <1>13, <2>1 DEF SwitchPrompt
  <2>3. NoMemory => NoMemory'
    BY <1>a, <1>b, <1>13 DEF SwitchPrompt
  <2>4. (changed => changed') /\ freed' = freed /\ pc = "menu" /\ pc' = "scan"
    BY <1>c, <1>13 DEF SwitchPrompt
  <2> QED
    BY <1>0, <2>2, <2>3, <2>4
<1>14. CASE mok_pw_prompt
  BY <1>0, <1>a, <1>b, <1>c, <1>d, <1>14, RequestNames DEF mok_pw_prompt
<1>15. CASE EnrollFromDisk
  BY <1>0, <1>a, <1>c, <1>15 DEF EnrollFromDisk
<1>16. CASE Reset \/ PowerCycle
  BY <1>16 DEF Reset, PowerCycle, FreedInv
<1>17. CASE Return
  <2> DEFINE rest == SetToSeq({r \in Requests : taken[r] # None})
  <2>1. /\ pc = "out" /\ ~changed /\ pc' = "os" /\ freed' = freed \o rest
        /\ NoMemory => NoMemory'
    BY <1>b, <1>17 DEF Return
  <2> SUFFICES ASSUME ~NoMemory PROVE IsInjective(freed')
    BY <2>1 DEF FreedInv
  <2>2. freed = <<>>
    BY <2>1 DEF FreedInv
  <2>3. rest \in Seq(Requests) /\ IsInjective(rest)
    BY SetToSeqInjective
  <2>4. freed' = rest
    BY <2>1, <2>2, <2>3, ConcatEmptySeq
  <2> QED
    BY <2>3, <2>4
<1>18. CASE UNCHANGED vars
  BY <1>18 DEF vars, FreedInv
<1> QED
  BY <1>1, <1>2, <1>3, <1>4, <1>5, <1>6, <1>7, <1>8, <1>9, <1>10, <1>11, <1>12, <1>13,
     <1>14, <1>15, <1>16, <1>17, <1>18 DEF Next

(* mok_changed is only set between the menu and the reset.                 *)
QuietInv == pc \in {"os", "shim", "take", "pw"} => ~changed

LEMMA QuietStep == QuietInv /\ [Next]_vars => QuietInv'
<1> SUFFICES ASSUME QuietInv, [Next]_vars PROVE QuietInv'
  OBVIOUS
<1> USE DEF store, nvram, menu, QuietInv
<1>0. ASSUME pc' \in {"scan", "menu", "out", "lost"} PROVE QuietInv'
  BY <1>0
<1>1. CASE OsRequest \/ OsAuth \/ OsReboot \/ CheckMokRequest \/ Take
  BY <1>1 DEF OsRequest, OsAuth, OsReboot, CheckMokRequest, Take
<1>2. CASE EnterMenu \/ StayOut \/ Scan \/ Overrun \/ MenuNoMemory \/ Again \/ WriteFails
  BY <1>0, <1>2 DEF EnterMenu, StayOut, Scan, Overrun, MenuNoMemory, Again, WriteFails
<1>3. CASE DeletionAborts \/ MenuBoot \/ mok_pw_prompt \/ EnrollFromDisk
  BY <1>0, <1>3 DEF DeletionAborts, MenuBoot, mok_pw_prompt, EnrollFromDisk
<1>4. ASSUME NEW l \in Lists,
             mok_enrollment_prompt(l) \/ mok_reset_prompt(l) \/ mok_deletion_prompt(l)
               \/ DeletionErases(l)
      PROVE  QuietInv'
  BY <1>0, <1>4 DEF mok_enrollment_prompt, mok_reset_prompt, mok_deletion_prompt, DeletionErases
<1>5. ASSUME NEW r \in SwitchRequests, SwitchPrompt(r) PROVE QuietInv'
  BY <1>0, <1>5 DEF SwitchPrompt
<1>6. CASE Reset \/ Return \/ PowerCycle
  BY <1>6 DEF Reset, Return, PowerCycle
<1>7. CASE UNCHANGED vars
  BY <1>7 DEF vars
<1> QED
  BY <1>1, <1>2, <1>3, <1>4, <1>5, <1>6, <1>7 DEF Next

(* A boot that goes on after MokManager sees the lists and settings shim   *)
(* mirrored before it, and no buffer is freed twice on the way; the two    *)
(* exceptions are those that the property names.                           *)
THEOREM ChangesMeanReset == Spec => []RebootAfterChange
<1>1. Init => ResetInv /\ FreedInv
  BY EmptyInjective DEF Init, ResetInv, FreedInv
<1>2. Shapes /\ ResetInv /\ FreedInv /\ [Next]_vars => (ResetInv /\ FreedInv)'
  BY ResetStep, FreedStep DEF Shapes
<1>3. Init => QuietInv
  BY DEF Init, QuietInv
<1>4. ResetInv /\ FreedInv /\ QuietInv => RebootAfterChange
  BY DEF ResetInv, FreedInv, QuietInv, RebootAfterChange, Erased, NoMemory, IsInjective
<1> QED
  BY <1>1, <1>2, <1>3, <1>4, QuietStep, ShapesHold, PTL DEF Spec

---------------------------------------------------------------------------
(* Nothing is left for the next boot                                       *)

(* What makes a request stay in its variable.                              *)
Stays == trouble \intersect {"read", "delete"} # {}

(* Without such a failure no request is left once it has been read.        *)
CleanInv ==
    /\ faults \in Nat
    /\ ~Stays /\ pc \in {"pw", "scan", "menu", "out"} => req = NoRequests

(* A deletion either fails, or leaves fewer variables than before.         *)
LEMMA DeleteClean ==
    ASSUME NvramShape, faults \in Nat, NEW rs, NEW as,
           Delete(rs, as) \/ (Gone(rs, as) /\ \E x : Fault(x))
    PROVE  /\ faults' \in Nat /\ (Stays => Stays')
           /\ req = NoRequests => req' = NoRequests
           /\ ~Stays' => Gone(rs, as)
<1>1. faults' \in Nat
  <2>1. Ok \/ \E x : Fault(x)
    BY DEF Delete
  <2> QED
    BY <2>1 DEF Ok, Fault
<1>2. NvramShape' /\ \A r \in Requests : req'[r] \in {None, req[r]}
  BY DeleteShape, GoneShape
<1>3. req = NoRequests => \A r \in Requests : req'[r] = None
  BY <1>2 DEF NoRequests
<1>4. ASSUME req = NoRequests PROVE req' = NoRequests
  <2>1. req' = [r \in Requests |-> req'[r]]
    BY <1>2 DEF NvramShape
  <2> QED
    BY <1>3, <1>4, <2>1 DEF NoRequests
<1>5. Stays => Stays'
  BY TroubleGrows DEF Stays
<1>6. ~Stays' => Gone(rs, as)
  <2>1. ~Stays' => ~Fault("delete")
    BY DEF Fault, Stays
  <2> QED
    BY <2>1 DEF Delete
<1> QED
  BY <1>1, <1>4, <1>5, <1>6

LEMMA CleanStep == NvramShape /\ CleanInv /\ [Next]_vars => CleanInv'
<1> SUFFICES ASSUME NvramShape, CleanInv, [Next]_vars PROVE CleanInv'
  OBVIOUS
<1> USE DEF store, nvram, menu
<1>a. (Ok \/ \E x : Fault(x)) => faults' \in Nat /\ (Stays => Stays')
  <2>1. (Ok \/ \E x : Fault(x)) => faults' \in Nat
    BY DEF Ok, Fault, CleanInv
  <2> QED
    BY <2>1, TroubleGrows DEF Stays
<1>0. ASSUME Ok \/ (\E x : Fault(x)), UNCHANGED req,
             pc \in {"pw", "scan", "menu", "out"} \/ pc' \notin {"pw", "scan", "menu", "out"}
      PROVE  CleanInv'
  BY <1>0, <1>a DEF CleanInv
<1>b. ASSUME pc = "menu", NEW rs, NEW as,
             Delete(rs, as) \/ (Gone(rs, as) /\ \E x : Fault(x))
      PROVE  CleanInv'
  BY <1>b, DeleteClean DEF CleanInv
<1>1. CASE OsRequest \/ OsAuth
  <2>1. pc = "os" /\ pc' = "os" /\ UNCHANGED faults
    BY <1>1 DEF OsRequest, OsAuth
  <2> QED
    BY <2>1 DEF CleanInv
<1>2. CASE OsReboot \/ EnterMenu \/ StayOut \/ Scan \/ Overrun \/ PowerCycle
  BY <1>0, <1>2 DEF OsReboot, EnterMenu, StayOut, Scan, Overrun, PowerCycle, Ok
<1>c. CASE CheckMokRequest
  <2>1. pc' \in {"take", "os"} /\ UNCHANGED faults
    BY <1>c DEF CheckMokRequest
  <2> QED
    BY <2>1 DEF CleanInv
<1>3. CASE Take
  <2>1. CASE Delete(Requests, {})
    <3>1. faults' \in Nat /\ (~Stays' => Gone(Requests, {}))
      BY <2>1, DeleteClean DEF CleanInv
    <3>2. Gone(Requests, {}) => req' = NoRequests
      BY DEF Gone, NoRequests
    <3> QED
      BY <3>1, <3>2 DEF CleanInv
  <2>2. CASE Fault("read")
    <3>1. faults' \in Nat /\ "read" \in trouble'
      BY <2>2 DEF Fault, CleanInv
    <3> QED
      BY <3>1 DEF CleanInv, Stays
  <2> QED
    BY <1>3, <2>1, <2>2 DEF Take
<1>4. CASE MenuNoMemory \/ Again \/ WriteFails \/ DeletionAborts \/ MenuBoot \/ EnrollFromDisk
  BY <1>0, <1>4 DEF MenuNoMemory, Again, WriteFails, DeletionAborts, MenuBoot, EnrollFromDisk, Ok
<1>5. ASSUME NEW l \in Lists, mok_enrollment_prompt(l) \/ mok_reset_prompt(l) PROVE CleanInv'
  BY <1>b, <1>5 DEF mok_enrollment_prompt, mok_reset_prompt
<1>6. ASSUME NEW l \in Lists, mok_deletion_prompt(l) PROVE CleanInv'
  <2>1. \/ Delete({DelOf(l)}, {DelAuthOf(l)})
        \/ Gone({DelOf(l)}, {DelAuthOf(l)}) /\ \E x : Fault(x)
    BY <1>6 DEF mok_deletion_prompt
  <2>2. pc = "menu"
    BY <1>6 DEF mok_deletion_prompt
  <2> QED
    BY <1>b, <2>1, <2>2
<1>7. ASSUME NEW l \in Lists, DeletionErases(l) PROVE CleanInv'
  BY <1>7 DEF DeletionErases, CleanInv, Stays
<1>8. ASSUME NEW r \in SwitchRequests, SwitchPrompt(r) PROVE CleanInv'
  BY <1>0, <1>b, <1>8 DEF SwitchPrompt
<1>9. CASE mok_pw_prompt
  BY <1>b, <1>9 DEF mok_pw_prompt
<1>10. CASE Reset
  BY <1>10 DEF Reset, CleanInv, Stays
<1>11. CASE Return
  BY <1>11, DeleteClean DEF Return, CleanInv
<1>12. CASE UNCHANGED vars
  BY <1>12 DEF vars, CleanInv, Stays
<1> QED
  BY <1>1, <1>2, <1>c, <1>3, <1>4, <1>5, <1>6, <1>7, <1>8, <1>9, <1>10, <1>11, <1>12 DEF Next

(* The operating system finds no request and no hash after MokManager has  *)
(* run, when it could read every request and every deletion worked,        *)
(* whatever else failed.                                                   *)
THEOREM RequestsAreForOneBoot == Spec => NothingLeftBehind
<1> DEFINE Left == pc = "out" /\ pc' = "os" /\ trouble' \intersect {"read", "delete"} = {}
                   => req' = NoRequests /\ \A a \in Range(Auths) : auth'[a] = "none"
<1>1. Init => CleanInv
  BY DEF Init, CleanInv
<1>2. Shapes /\ CleanInv /\ [Next]_vars => [Left]_vars
  <2> SUFFICES ASSUME Shapes, CleanInv, Next, pc = "out", pc' = "os", ~Stays'
               PROVE  req' = NoRequests /\ \A a \in Range(Auths) : auth'[a] = "none"
    BY DEF Stays
  <2>1. Return
    BY DEF Next, OsRequest, OsAuth, OsReboot, CheckMokRequest, Take, EnterMenu, StayOut, Scan,
           Overrun, PowerCycle, MenuNoMemory, Again, mok_enrollment_prompt, mok_reset_prompt, mok_deletion_prompt,
           DeletionErases, DeletionAborts, WriteFails, SwitchPrompt, mok_pw_prompt,
           EnrollFromDisk, MenuBoot, Reset
  <2>2. Delete({}, Range(Auths))
    BY <2>1 DEF Return
  <2>3. ~Stays /\ Gone({}, Range(Auths)) /\ (req = NoRequests => req' = NoRequests)
    BY <2>2, DeleteClean DEF Shapes, CleanInv
  <2>4. req' = NoRequests
    BY <2>3 DEF CleanInv
  <2>5. \A a \in Range(Auths) : auth'[a] = "none"
    BY <2>3 DEF Gone
  <2> QED
    BY <2>4, <2>5
<1>3. Shapes /\ CleanInv /\ [Next]_vars => CleanInv'
  BY CleanStep DEF Shapes
<1> QED
  BY <1>1, <1>2, <1>3, ShapesHold, PTL DEF Spec, NothingLeftBehind

---------------------------------------------------------------------------
(* Recursion over the indices of a sequence                                *)

(* Every set of natural numbers has a least element.                       *)
LEMMA LeastElement ==
    ASSUME NEW S, S \subseteq Nat, S # {}
    PROVE  \E n \in S : \A m \in S : n <= m
<1> DEFINE R == {p \in Nat \X Nat : p[1] < p[2]}
<1>1. IsWellFoundedOn(R, Nat)
  BY NatLessThanWellFounded DEF OpToRel
<1>2. PICK n \in S : \A m \in S : ~(<<m, n>> \in R)
  BY <1>1, WFMin
<1>3. \A x, y \in Nat : <<x, y>> \in R <=> x < y
  OBVIOUS
<1>4. \A x, y \in Nat : x < y \/ y <= x
  OBVIOUS
<1> HIDE DEF R
<1> QED
  BY <1>2, <1>3, <1>4

(* What holds of nothing and is kept by one more index holds of them all.  *)
LEMMA UpTo ==
    ASSUME NEW n \in Nat, NEW S, 0 \in S,
           \A k \in 1 .. n : k - 1 \in S => k \in S
    PROVE  0 .. n \subseteq S
<1> DEFINE Bad == (0 .. n) \ S
<1> SUFFICES ASSUME Bad # {} PROVE FALSE
  OBVIOUS
<1>1. PICK k \in Bad : \A o \in Bad : k <= o
  <2>1. Bad \subseteq Nat
    OBVIOUS
  <2> HIDE DEF Bad
  <2> QED
    BY <2>1, LeastElement
<1>2. k \in 0 .. n /\ k \notin S /\ k # 0
  BY <1>1
<1>3. k \in 1 .. n /\ k - 1 \in 0 .. n /\ ~(k <= k - 1)
  BY <1>2
<1>4. k - 1 \notin Bad
  BY <1>1, <1>3
<1> QED
  BY <1>2, <1>3, <1>4

(* A set of indices has a largest one.                                     *)
LEMMA MaxUpTo ==
    ASSUME NEW k \in Nat
    PROVE  \A s \in SUBSET (1 .. k + 1) : k + 1 \in s => Max(s) = k + 1
<1> TAKE s \in SUBSET (1 .. k + 1)
<1> HAVE k + 1 \in s
<1>1. \A y \in s : y \in Nat /\ y <= k + 1
  OBVIOUS
<1>2. \A x \in s : (\A y \in s : x >= y) <=> x = k + 1
  BY <1>1
<1> QED
  BY <1>2 DEF Max

(* Step by step from b, G giving the value after an index from the index   *)
(* and the value before it: the form in which FoldLeft does it.            *)
Folds(it, n, b, G) ==
    it = [s \in SUBSET (1 .. n) |-> IF s = {} THEN b ELSE G[<<Max(s), it[s \ {Max(s)}]>>]]

LEMMA FoldExists ==
    ASSUME NEW V, NEW n \in Nat, NEW b \in V, NEW G \in [(1 .. n) \X V -> V]
    PROVE  \E it \in [SUBSET (1 .. n) -> V] : Folds(it, n, b, G)
<1> DEFINE S == {k \in 0 .. n : \E it \in [SUBSET (1 .. k) -> V] : Folds(it, k, b, G)}
<1>1. 0 \in S
  <2> DEFINE it == [s \in SUBSET (1 .. 0) |-> b]
  <2>1. \A s \in SUBSET (1 .. 0) : s = {}
    OBVIOUS
  <2>2. it \in [SUBSET (1 .. 0) -> V]
    OBVIOUS
  <2>3. Folds(it, 0, b, G)
    BY <2>1 DEF Folds
  <2> QED
    BY <2>2, <2>3
<1>2. ASSUME NEW k \in 1 .. n, k - 1 \in S PROVE k \in S
  <2>1. PICK it \in [SUBSET (1 .. k - 1) -> V] : Folds(it, k - 1, b, G)
    BY <1>2
  <2> DEFINE new == [s \in SUBSET (1 .. k) |->
                        IF k \in s THEN G[<<k, it[s \ {k}]>>] ELSE it[s]]
  <2>2. \A s \in SUBSET (1 .. k) : s \ {k} \in SUBSET (1 .. k - 1) /\ (k \notin s => s \in SUBSET (1 .. k - 1))
    OBVIOUS
  <2>3. new \in [SUBSET (1 .. k) -> V]
    <3> SUFFICES ASSUME NEW s \in SUBSET (1 .. k) PROVE new[s] \in V
      OBVIOUS
    <3>1. k \in s => G[<<k, it[s \ {k}]>>] \in V
      BY <2>2
    <3> QED
      BY <2>2, <3>1
  <2>4. ASSUME NEW s \in SUBSET (1 .. k)
        PROVE  new[s] = IF s = {} THEN b ELSE G[<<Max(s), new[s \ {Max(s)}]>>]
    <3>1. CASE k \in s
      <4>1. k - 1 \in Nat /\ (k - 1) + 1 = k
        BY <1>2
      <4>2. Max(s) = k
        BY <3>1, <4>1, MaxUpTo
      <4>3. new[s \ {k}] = it[s \ {k}]
        OBVIOUS
      <4> HIDE DEF new
      <4>4. new[s] = G[<<k, it[s \ {k}]>>]
        BY <3>1 DEF new
      <4> QED
        BY <3>1, <4>2, <4>3, <4>4
    <3>2. CASE k \notin s
      <4>1. s \in SUBSET (1 .. k - 1)
        BY <2>2, <3>2
      <4>2. s \ {Max(s)} \in SUBSET (1 .. k) /\ k \notin s \ {Max(s)}
        BY <3>2
      <4>3. new[s] = it[s] /\ new[s \ {Max(s)}] = it[s \ {Max(s)}]
        BY <3>2, <4>2
      <4>4. it[s] = IF s = {} THEN b ELSE G[<<Max(s), it[s \ {Max(s)}]>>]
        BY <2>1, <4>1 DEF Folds
      <4> HIDE DEF new
      <4> QED
        BY <4>3, <4>4
    <3> QED
      BY <3>1, <3>2
  <2>5. Folds(new, k, b, G)
    <3>1. new = [s \in SUBSET (1 .. k) |-> new[s]]
      OBVIOUS
    <3> HIDE DEF new
    <3> QED
      BY <2>4, <3>1 DEF Folds
  <2>6. k \in 0 .. n
    OBVIOUS
  <2> HIDE DEF new
  <2> QED
    BY <2>3, <2>5, <2>6
<1>3. n \in S
  <2> HIDE DEF S
  <2>1. 0 .. n \subseteq S
    BY <1>1, <1>2, UpTo
  <2> QED
    BY <2>1
<1> QED
  BY <1>3

(* As much as that, where the values before are in V.                      *)
FoldsIn(V, it, n, b, G) ==
    /\ it[{}] = b
    /\ \A s \in SUBSET (1 .. n) : s # {} /\ it[s \ {Max(s)}] \in V =>
          it[s] = G[<<Max(s), it[s \ {Max(s)}]>>]

(* f goes through the values of such a fold.                               *)
Runs(f, n, b, G) == f[0] = b /\ \A k \in 1 .. n : f[k] = G[<<k, f[k - 1]>>]
Through(V, it, n, b, G) == \E f \in [0 .. n -> V] : Runs(f, n, b, G) /\ f[n] = it[1 .. n]

LEMMA FoldRuns ==
    ASSUME NEW V, NEW n \in Nat, NEW b \in V, NEW G \in [(1 .. n) \X V -> V], NEW it,
           FoldsIn(V, it, n, b, G)
    PROVE  Through(V, it, n, b, G)
<1> DEFINE f == [k \in 0 .. n |-> it[1 .. k]]
           S == {k \in 0 .. n : f[k] \in V}
<1>1. f[0] = b /\ 0 \in S
  <2>1. 1 .. 0 = {} /\ 0 \in 0 .. n
    OBVIOUS
  <2> QED
    BY <2>1 DEF FoldsIn
<1>2. ASSUME NEW k \in 1 .. n, f[k - 1] \in V PROVE f[k] = G[<<k, f[k - 1]>>] /\ f[k] \in V
  <2>1. k - 1 \in Nat /\ (k - 1) + 1 = k /\ k - 1 \in 0 .. n /\ k \in 0 .. n
    OBVIOUS
  <2>2. 1 .. k \in SUBSET (1 .. n) /\ k \in 1 .. k
    OBVIOUS
  <2>3. Max(1 .. k) = k
    BY <2>1, <2>2, MaxUpTo
  <2>4. (1 .. k) \ {k} = 1 .. k - 1
    OBVIOUS
  <2>5. it[1 .. k] = G[<<k, it[1 .. k - 1]>>]
    BY <1>2, <2>1, <2>2, <2>3, <2>4 DEF FoldsIn
  <2>6. f[k] = it[1 .. k] /\ f[k - 1] = it[1 .. k - 1]
    BY <2>1
  <2>7. <<k, f[k - 1]>> \in (1 .. n) \X V
    BY <1>2
  <2> HIDE DEF f
  <2> QED
    BY <2>5, <2>6, <2>7
<1>3. \A k \in 0 .. n : f[k] \in V
  <2>1. \A k \in 1 .. n : k - 1 \in S => k \in S
    <3> SUFFICES ASSUME NEW k \in 1 .. n, k - 1 \in S PROVE k \in S
      OBVIOUS
    <3>1. f[k - 1] \in V /\ k \in 0 .. n
      OBVIOUS
    <3> HIDE DEF f
    <3> QED
      BY <1>2, <3>1
  <2> HIDE DEF S, f
  <2>2. 0 .. n \subseteq S
    BY <1>1, <2>1, UpTo
  <2> QED
    BY <2>2 DEF S
<1>4. f \in [0 .. n -> V]
  <2>1. f = [k \in 0 .. n |-> f[k]]
    OBVIOUS
  <2> HIDE DEF f
  <2> QED
    BY <1>3, <2>1
<1>5. \A k \in 1 .. n : k - 1 \in 0 .. n
  OBVIOUS
<1>6. f[n] = it[1 .. n]
  OBVIOUS
<1> HIDE DEF f, S
<1>7. Runs(f, n, b, G)
  BY <1>1, <1>2, <1>3, <1>5 DEF Runs
<1> QED
  BY <1>4, <1>6, <1>7 DEF Through

LEMMA RunExists ==
    ASSUME NEW V, NEW n \in Nat, NEW b \in V, NEW G \in [(1 .. n) \X V -> V]
    PROVE  \E f \in [0 .. n -> V] : Runs(f, n, b, G)
<1>1. PICK it \in [SUBSET (1 .. n) -> V] : Folds(it, n, b, G)
  BY FoldExists
<1>2. FoldsIn(V, it, n, b, G)
  BY <1>1 DEF Folds, FoldsIn
<1>3. Through(V, it, n, b, G)
  BY <1>2, FoldRuns
<1> QED
  BY <1>3 DEF Through
---------------------------------------------------------------------------
(* What a deletion leaves                                                  *)

AnyNode == [type : STRING, ids : Seq(STRING)]

LEMMA MatchFacts ==
    ASSUME NEW h, NEW from \in Nat, NEW s \in Seq(STRING)
    PROVE  \/ /\ match_hash(h, from, s) = -1
              /\ \A i \in from .. Len(s) - 1 : s[i - from + 1] # h
           \/ /\ match_hash(h, from, s) \in from .. Len(s) - 1
              /\ s[match_hash(h, from, s) - from + 1] = h
<1> DEFINE hits == {i \in from .. Len(s) - 1 : s[i - from + 1] = h}
<1>1. match_hash(h, from, s) = IF hits = {} THEN -1 ELSE CHOOSE i \in hits : \A j \in hits : i <= j
  BY DEF match_hash
<1>2. CASE hits = {}
  BY <1>1, <1>2
<1>3. CASE hits # {}
  <2>1. hits \subseteq Nat
    OBVIOUS
  <2>2. \A i \in hits : i \in from .. Len(s) - 1 /\ s[i - from + 1] = h
    OBVIOUS
  <2> HIDE DEF hits
  <2>3. \E i \in hits : \A j \in hits : i <= j
    BY <1>3, <2>1, LeastElement
  <2>4. match_hash(h, from, s) \in hits
    BY <1>1, <1>3, <2>3
  <2> QED
    BY <2>2, <2>4
<1> QED
  BY <1>2, <1>3

LEMMA MatchBounds ==
    ASSUME NEW h, NEW from \in Nat, NEW s \in Seq(STRING), NEW m, m = match_hash(h, from, s)
    PROVE  m \in Int /\ -1 <= m /\ m < Len(s)
<1>1. m = -1 \/ m \in from .. Len(s) - 1
  BY MatchFacts
<1>2. Len(s) \in Nat
  OBVIOUS
<1> QED
  BY <1>1, <1>2

LEMMA Removed ==
    ASSUME NEW s \in Seq(STRING), NEW i \in 1 .. Len(s)
    PROVE  /\ RemoveAt(s, i) \in Seq(STRING) /\ Len(RemoveAt(s, i)) = Len(s) - 1
           /\ \A k \in 1 .. Len(s) - 1 : RemoveAt(s, i)[k] = IF k < i THEN s[k] ELSE s[k + 1]
<1> DEFINE a == SubSeq(s, 1, i - 1)
           b == SubSeq(s, i + 1, Len(s))
<1>0. Len(s) \in Nat /\ i \in Int
  OBVIOUS
<1>1. a \in Seq(STRING) /\ Len(a) = i - 1 /\ \A k \in 1 .. i - 1 : a[k] = s[k]
  <2>1. \A k \in 1 .. i - 1 : s[k] \in STRING
    OBVIOUS
  <2> QED
    BY <2>1, SubSeqProperties
<1>2. b \in Seq(STRING) /\ Len(b) = Len(s) - i /\ \A k \in 1 .. Len(s) - i : b[k] = s[i + k]
  <2>1. \A k \in i + 1 .. Len(s) : s[k] \in STRING
    OBVIOUS
  <2> QED
    BY <2>1, SubSeqProperties
<1>3. RemoveAt(s, i) = a \o b
  BY DEF RemoveAt
<1> HIDE DEF a, b
<1>4. /\ a \o b \in Seq(STRING) /\ Len(a \o b) = Len(s) - 1
      /\ \A k \in 1 .. Len(s) - 1 : (a \o b)[k] = IF k <= i - 1 THEN a[k] ELSE b[k - (i - 1)]
  <2>1. Len(a) + Len(b) = Len(s) - 1
    BY <1>0, <1>1, <1>2
  <2>2. /\ a \o b \in Seq(STRING) /\ Len(a \o b) = Len(a) + Len(b)
        /\ \A k \in 1 .. Len(a) + Len(b) : (a \o b)[k] = IF k <= Len(a) THEN a[k] ELSE b[k - Len(a)]
    BY <1>1, <1>2, ConcatProperties
  <2> QED
    BY <1>1, <2>1, <2>2
<1>5. ASSUME NEW k \in 1 .. Len(s) - 1 PROVE (a \o b)[k] = IF k < i THEN s[k] ELSE s[k + 1]
  <2>1. CASE k < i
    BY <1>1, <1>4, <2>1
  <2>2. CASE ~(k < i)
    <3>1. k - (i - 1) \in 1 .. Len(s) - i /\ i + (k - (i - 1)) = k + 1 /\ ~(k <= i - 1)
      BY <2>2
    <3> QED
      BY <1>2, <1>4, <2>2, <3>1
  <2> QED
    BY <2>1, <2>2
<1> QED
  BY <1>3, <1>4, <1>5

(* One round of the loop over a node's hashes.                             *)
LoopState == {p \in [ids : Seq(STRING), del : Int] : -1 <= p.del /\ p.del < Len(p.ids)}
First(h, ids) == [ids |-> ids, del |-> match_hash(h, 0, ids)]
Round(h, p) ==
    LET t == RemoveAt(p.ids, p.del + 1)
    IN  IF p.del < 0 THEN p ELSE [ids |-> t, del |-> match_hash(h, p.del, t)]

LEMMA RoundType ==
    ASSUME NEW h, NEW p \in LoopState
    PROVE  Round(h, p) \in LoopState
<1> DEFINE t == RemoveAt(p.ids, p.del + 1)
<1>1. p.ids \in Seq(STRING) /\ p.del \in Int /\ -1 <= p.del /\ p.del < Len(p.ids)
  BY DEF LoopState
<1>2. CASE p.del < 0
  BY <1>2 DEF Round
<1>3. CASE ~(p.del < 0)
  <2>1. p.del + 1 \in 1 .. Len(p.ids) /\ p.del \in Nat
    BY <1>1, <1>3
  <2>2. t \in Seq(STRING)
    BY <1>1, <2>1, Removed
  <2>3. Round(h, p) = [ids |-> t, del |-> match_hash(h, p.del, t)]
    BY <1>3 DEF Round
  <2> HIDE DEF t
  <2>4. /\ match_hash(h, p.del, t) \in Int /\ -1 <= match_hash(h, p.del, t)
        /\ match_hash(h, p.del, t) < Len(t)
    BY <2>1, <2>2, MatchBounds
  <2> QED
    BY <2>2, <2>3, <2>4 DEF LoopState
<1> QED
  BY <1>2, <1>3

LEMMA FirstType ==
    ASSUME NEW h, NEW ids \in Seq(STRING)
    PROVE  First(h, ids) \in LoopState
<1>1. /\ match_hash(h, 0, ids) \in Int /\ -1 <= match_hash(h, 0, ids)
      /\ match_hash(h, 0, ids) < Len(ids)
  BY MatchBounds
<1> QED
  BY <1>1 DEF First, LoopState

LEMMA HashLoopRuns ==
    ASSUME NEW h, NEW ids \in Seq(STRING)
    PROVE  \E f \in [0 .. Len(ids) -> LoopState] :
              /\ f[0] = First(h, ids)
              /\ \A k \in 1 .. Len(ids) : f[k] = Round(h, f[k - 1])
              /\ HashLoop(h, ids) = f[Len(ids)].ids
<1> DEFINE n == Len(ids)
           G == [x \in (1 .. n) \X LoopState |-> Round(h, x[2])]
           Rec(a) == a = [k \in 0 .. n |-> IF k = 0 THEN First(h, ids) ELSE Round(h, a[k - 1])]
           after == CHOOSE a : Rec(a)
<1>1. n \in Nat /\ G \in [(1 .. n) \X LoopState -> LoopState]
  BY RoundType
<1>2. PICK f \in [0 .. n -> LoopState] : Runs(f, n, First(h, ids), G)
  <2>1. First(h, ids) \in LoopState
    BY FirstType
  <2> HIDE DEF n, G
  <2> QED
    BY <1>1, <2>1, RunExists
<1>3. /\ \A k \in 0 .. n : f[k] \in LoopState
      /\ f[0] = First(h, ids) /\ \A k \in 1 .. n : f[k] = Round(h, f[k - 1])
  <2>1. \A k \in 1 .. n : k - 1 \in 0 .. n
    OBVIOUS
  <2>2. \A k \in 1 .. n : <<k, f[k - 1]>> \in (1 .. n) \X LoopState
    BY <1>2, <2>1
  <2> QED
    BY <1>2, <2>2 DEF Runs
<1>4. Rec(f)
  <2>1. f = [k \in 0 .. n |-> f[k]]
    BY <1>2
  <2>2. \A k \in 0 .. n : k # 0 => k \in 1 .. n
    OBVIOUS
  <2>3. \A k \in 0 .. n : f[k] = IF k = 0 THEN First(h, ids) ELSE Round(h, f[k - 1])
    BY <1>3, <2>2
  <2> HIDE DEF n
  <2> QED
    BY <2>1, <2>3
<1>5. HashLoop(h, ids) = after[n].ids
  BY DEF HashLoop, First, Round
<1>6. Rec(after)
  <2> HIDE DEF Rec
  <2> QED
    BY <1>4
<1>7. \A k \in 0 .. n : after[k] = IF k = 0 THEN First(h, ids) ELSE Round(h, after[k - 1])
  <2> HIDE DEF after, n
  <2> QED
    BY <1>6
<1> HIDE DEF after, n, Rec
<1>8. after[n] = f[n]
  <2> DEFINE S == {k \in 0 .. n : after[k] = f[k]}
  <2>1. 0 \in S
    BY <1>1, <1>3, <1>7
  <2>2. ASSUME NEW k \in 1 .. n, k - 1 \in S PROVE k \in S
    <3>1. k \in 0 .. n /\ k # 0
      BY <1>1
    <3> QED
      BY <1>3, <1>7, <2>2, <3>1
  <2> HIDE DEF S
  <2>3. 0 .. n \subseteq S
    BY <1>1, <2>1, <2>2, UpTo
  <2> QED
    BY <1>1, <2>3 DEF S
<1> QED
  BY <1>2, <1>3, <1>5, <1>8 DEF n

(* The hash is gone and the others are there, when none was there twice.   *)
LEMMA HashLoopRemoves ==
    ASSUME NEW h, NEW ids \in Seq(STRING)
    PROVE  /\ HashLoop(h, ids) \in Seq(STRING)
           /\ IsInjective(ids) =>
                 /\ IsInjective(HashLoop(h, ids))
                 /\ Range(HashLoop(h, ids)) = Range(ids) \ {h}
<1> DEFINE n == Len(ids)
<1>0. n \in Nat
  OBVIOUS
<1>1. PICK f \in [0 .. n -> LoopState] :
         /\ f[0] = First(h, ids)
         /\ \A k \in 1 .. n : f[k] = Round(h, f[k - 1])
         /\ HashLoop(h, ids) = f[n].ids
  BY HashLoopRuns
<1> HIDE DEF n
<1>2. HashLoop(h, ids) \in Seq(STRING)
  BY <1>0, <1>1 DEF LoopState
(* After a round that finds nothing, no round changes anything.            *)
<1>3. ASSUME NEW m \in 0 .. n, f[m].del < 0 PROVE f[n] = f[m]
  <2> DEFINE S == {k \in 0 .. n : k >= m => f[k] = f[m]}
  <2>1. 0 \in S
    BY <1>0
  <2>2. ASSUME NEW k \in 1 .. n, k - 1 \in S PROVE k \in S
    <3>1. k \in 0 .. n /\ f[k] = Round(h, f[k - 1]) /\ (k - 1 >= m => f[k - 1] = f[m])
      BY <1>0, <1>1, <2>2
    <3>2. k >= m => k = m \/ k - 1 >= m
      BY <1>0
    <3>3. k - 1 >= m => f[k] = f[m]
      BY <1>3, <3>1 DEF Round
    <3> QED
      BY <3>1, <3>2, <3>3
  <2> HIDE DEF S
  <2>3. 0 .. n \subseteq S
    BY <1>0, <2>1, <2>2, UpTo
  <2> QED
    BY <1>0, <2>3 DEF S
<1>4. ASSUME IsInjective(ids)
      PROVE  IsInjective(HashLoop(h, ids)) /\ Range(HashLoop(h, ids)) = Range(ids) \ {h}
  <2> DEFINE d == match_hash(h, 0, ids)
             t == RemoveAt(ids, d + 1)
  <2>0. f[0].ids = ids /\ f[0].del = d /\ DOMAIN ids = 1 .. n
    BY <1>1 DEF First, n
  <2>1. CASE d = -1
    <3>1. HashLoop(h, ids) = ids
      BY <1>0, <1>1, <1>3, <2>0, <2>1
    <3>2. \A i \in 0 .. n - 1 : ids[i - 0 + 1] # h
      <4>1. ~(d \in 0 .. Len(ids) - 1)
        BY <2>1
      <4> HIDE DEF d
      <4> QED
        BY <4>1, MatchFacts DEF n, d
    <3>3. \A k \in 1 .. n : k - 1 \in 0 .. n - 1 /\ (k - 1) - 0 + 1 = k
      BY <1>0
    <3>4. \A k \in 1 .. n : ids[k] # h
      BY <3>2, <3>3
    <3> QED
      BY <1>4, <2>0, <3>1, <3>4 DEF Range
  <2>2. CASE d # -1
    <3>1. d \in 0 .. n - 1 /\ ids[d + 1] = h
      <4>1. d \in 0 .. n - 1 /\ ids[d - 0 + 1] = h
        BY <2>2, MatchFacts DEF n
      <4> HIDE DEF d
      <4>2. d - 0 + 1 = d + 1
        BY <1>0, <4>1
      <4> QED
        BY <4>1, <4>2
    <3> HIDE DEF d
    <3>2. d + 1 \in 1 .. n /\ d \in Nat /\ 1 \in 1 .. n /\ 1 \in 0 .. n /\ n - 1 \in Nat
      BY <1>0, <3>1
    <3>3. /\ t \in Seq(STRING) /\ Len(t) = n - 1
          /\ \A k \in 1 .. n - 1 : t[k] = IF k < d + 1 THEN ids[k] ELSE ids[k + 1]
      BY <3>2, Removed DEF n
    <3> HIDE DEF t
    <3>4. f[1] = [ids |-> t, del |-> match_hash(h, d, t)]
      <4>1. f[1] = Round(h, f[0])
        BY <1>1, <3>2
      <4> QED
        BY <2>0, <3>2, <4>1 DEF Round, t
    <3>5. \A k \in 1 .. n - 1 : t[k] # h
      <4> SUFFICES ASSUME NEW k \in 1 .. n - 1, t[k] = h PROVE FALSE
        OBVIOUS
      <4>1. k \in 1 .. n /\ k + 1 \in 1 .. n
        BY <1>0
      <4>2. CASE k < d + 1
        <5>1. ids[k] = ids[d + 1]
          BY <3>1, <3>3, <4>2
        <5>2. k # d + 1
          BY <3>2, <4>2
        <5> QED
          BY <1>4, <2>0, <3>2, <4>1, <5>1, <5>2 DEF IsInjective
      <4>3. CASE ~(k < d + 1)
        <5>1. ids[k + 1] = ids[d + 1]
          BY <3>1, <3>3, <4>3
        <5>2. k + 1 # d + 1
          BY <3>2, <4>3
        <5> QED
          BY <1>4, <2>0, <3>2, <4>1, <5>1, <5>2 DEF IsInjective
      <4> QED
        BY <4>2, <4>3
    <3>6. f[1].del < 0
      <4>1. \A i \in d .. Len(t) - 1 : i - d + 1 \in 1 .. n - 1
        BY <3>2, <3>3
      <4>2. match_hash(h, d, t) = -1
        BY <3>2, <3>3, <3>5, <4>1, MatchFacts
      <4> QED
        BY <3>4, <4>2
    <3>7. HashLoop(h, ids) = t
      BY <1>1, <1>3, <3>2, <3>4, <3>6
    <3>8. DOMAIN t = 1 .. n - 1
      BY <3>3
    <3>9. IsInjective(t)
      <4> SUFFICES ASSUME NEW a \in 1 .. n - 1, NEW b \in 1 .. n - 1, t[a] = t[b] PROVE a = b
        BY <3>8 DEF IsInjective
      <4> DEFINE From(k) == IF k < d + 1 THEN k ELSE k + 1
      <4>1. t[a] = ids[From(a)] /\ t[b] = ids[From(b)]
        BY <3>3
      <4>2. From(a) \in 1 .. n /\ From(b) \in 1 .. n
        BY <1>0, <3>2
      <4>3. From(a) = From(b)
        BY <1>4, <2>0, <4>1, <4>2 DEF IsInjective
      <4> QED
        BY <3>2, <4>3
    <3>10. \A k \in 1 .. n - 1 : \E j \in 1 .. n : t[k] = ids[j]
      BY <1>0, <3>2, <3>3
    <3>11. ASSUME NEW j \in 1 .. n, ids[j] # h PROVE \E k \in 1 .. n - 1 : t[k] = ids[j]
      <4>1. j # d + 1
        BY <3>1, <3>11
      <4>2. CASE j < d + 1
        <5>1. j \in 1 .. n - 1
          BY <1>0, <3>1, <4>2
        <5> QED
          BY <3>3, <4>2, <5>1
      <4>3. CASE ~(j < d + 1)
        <5>1. j - 1 \in 1 .. n - 1 /\ ~(j - 1 < d + 1) /\ (j - 1) + 1 = j
          BY <1>0, <3>1, <4>1, <4>3
        <5> QED
          BY <3>3, <5>1
      <4> QED
        BY <4>2, <4>3
    <3>12. Range(t) = Range(ids) \ {h}
      <4>1. \A x : x \in Range(t) <=> \E k \in 1 .. n - 1 : x = t[k]
        BY <3>8 DEF Range
      <4>2. \A x : x \in Range(ids) <=> \E j \in 1 .. n : x = ids[j]
        BY <2>0 DEF Range
      <4> QED
        BY <3>5, <3>10, <3>11, <4>1, <4>2
    <3> QED
      BY <3>7, <3>9, <3>12
  <2> QED
    BY <2>1, <2>2
<1> QED
  BY <1>2, <1>4

(* One hash or certificate of a request applied to a node.                 *)
One(d, n, h) ==
    IF d.type = "x509" THEN delete_cert(h, n) ELSE delete_hash_in_list(d.type, h, n)

(* A node in which the deletions find everything.                          *)
Clean(n) == IsInjective(n.ids) /\ (n.type = "x509" => Len(n.ids) \in {0, 1})

LEMMA OneStrikes ==
    ASSUME NEW d \in AnyNode, NEW n \in AnyNode, NEW h
    PROVE  /\ One(d, n, h) \in AnyNode /\ One(d, n, h).type = n.type
           /\ Clean(n) =>
                 /\ Clean(One(d, n, h))
                 /\ Range(One(d, n, h).ids) = IF d.type = n.type THEN Range(n.ids) \ {h}
                                              ELSE Range(n.ids)
<1> DEFINE o == One(d, n, h)
<1>0. n = [type |-> n.type, ids |-> n.ids] /\ n.type \in STRING /\ n.ids \in Seq(STRING)
  BY DEF AnyNode
<1>1. CASE d.type = "x509" /\ n.type = "x509" /\ n.ids = <<h>>
  <2>1. o = [type |-> n.type, ids |-> <<>>]
    BY <1>0, <1>1 DEF One, delete_cert
  <2>2. Range(<<>>) = {} /\ Range(<<h>>) = {h} /\ IsInjective(<<>>) /\ Len(<<>>) = 0
    BY DEF Range, IsInjective
  <2>3. o \in AnyNode
    BY <1>0, <2>1 DEF AnyNode
  <2> HIDE DEF o
  <2>4. o.type = n.type /\ o.ids = <<>>
    BY <2>1
  <2>5. Clean(o)
    BY <2>2, <2>4 DEF Clean
  <2>6. Range(o.ids) = Range(n.ids) \ {h}
    BY <1>1, <2>2, <2>4
  <2> QED
    BY <1>1, <2>3, <2>4, <2>5, <2>6 DEF o
<1>2. CASE d.type = "x509" /\ ~(n.type = "x509" /\ n.ids = <<h>>)
  <2>1. o = n
    BY <1>2 DEF One, delete_cert
  <2>2. ASSUME n.type = "x509", Clean(n) PROVE Range(n.ids) = Range(n.ids) \ {h}
    <3>1. Len(n.ids) = 0 \/ Len(n.ids) = 1
      BY <2>2 DEF Clean
    <3>2. CASE Len(n.ids) = 0
      <4>1. Range(n.ids) = {}
        BY <1>0, <3>2 DEF Range
      <4> QED
        BY <4>1
    <3>3. CASE Len(n.ids) = 1
      <4>1. n.ids = <<n.ids[1]>>
        BY <1>0, <3>3
      <4>2. n.ids[1] # h
        BY <1>2, <2>2, <4>1
      <4>3. \A k \in DOMAIN n.ids : k = 1
        BY <1>0, <3>3
      <4>4. \A x \in Range(n.ids) : x = n.ids[1]
        BY <4>3 DEF Range
      <4> QED
        BY <4>2, <4>4
    <3> QED
      BY <3>1, <3>2, <3>3
  <2> HIDE DEF o
  <2> QED
    BY <1>2, <2>1, <2>2 DEF o
<1>3. CASE d.type # "x509" /\ d.type = n.type
  <2>1. o = [type |-> n.type, ids |-> HashLoop(h, n.ids)]
    BY <1>0, <1>3 DEF One, delete_hash_in_list
  <2>2. HashLoop(h, n.ids) \in Seq(STRING)
    BY <1>0, HashLoopRemoves
  <2>3. o \in AnyNode
    BY <1>0, <2>1, <2>2 DEF AnyNode
  <2> HIDE DEF o
  <2>4. o.type = n.type /\ o.ids = HashLoop(h, n.ids)
    BY <2>1
  <2>5. IsInjective(n.ids) => IsInjective(o.ids) /\ Range(o.ids) = Range(n.ids) \ {h}
    BY <1>0, <2>4, HashLoopRemoves
  <2> QED
    BY <1>3, <2>3, <2>4, <2>5 DEF Clean, o
<1>4. CASE d.type # "x509" /\ d.type # n.type
  <2>1. o = n
    BY <1>4 DEF One, delete_hash_in_list
  <2> HIDE DEF o
  <2> QED
    BY <1>4, <2>1 DEF o
<1> QED
  BY <1>1, <1>2, <1>3, <1>4

(* A set of indices has its largest one in it.                             *)
LEMMA MaxIsIn ==
    ASSUME NEW n \in Nat, NEW s \in SUBSET (1 .. n), s # {}
    PROVE  Max(s) \in s
<1> DEFINE R == {n - x : x \in s}
<1>1. R \subseteq Nat /\ R # {}
  <2>1. \A x \in s : x \in 1 .. n
    OBVIOUS
  <2>2. \A x \in 1 .. n : n - x \in Nat
    OBVIOUS
  <2>3. PICK x \in s : TRUE
    OBVIOUS
  <2> QED
    BY <2>1, <2>2, <2>3
<1>2. PICK m \in R : \A o \in R : m <= o
  BY <1>1, LeastElement
<1>3. PICK x \in s : m = n - x
  BY <1>2
<1>4. \A y \in s : x >= y
  <2> TAKE y \in s
  <2>1. n - y \in R
    OBVIOUS
  <2>2. n - x <= n - y /\ x \in Int /\ y \in Int
    BY <1>2, <1>3, <2>1
  <2> QED
    BY <2>2
<1> QED
  BY <1>3, <1>4 DEF Max

LEMMA StrikeRuns ==
    ASSUME NEW d \in AnyNode, NEW node \in AnyNode
    PROVE  \E f \in [0 .. Len(d.ids) -> AnyNode] :
              /\ f[0] = node
              /\ \A k \in 1 .. Len(d.ids) : f[k] = One(d, f[k - 1], d.ids[k])
              /\ Strike(d, node) = f[Len(d.ids)]
<1> DEFINE n == Len(d.ids)
           G == [x \in (1 .. n) \X AnyNode |-> One(d, x[2], d.ids[x[1]])]
           Rec(a) == a = [s \in SUBSET DOMAIN d.ids |->
                             IF s = {} THEN node
                             ELSE One(d, a[s \ {Max(s)}], d.ids[Max(s)])]
           it == CHOOSE a : Rec(a)
<1>1. n \in Nat /\ DOMAIN d.ids = 1 .. n /\ G \in [(1 .. n) \X AnyNode -> AnyNode]
  <2>1. n \in Nat /\ DOMAIN d.ids = 1 .. n
    BY DEF AnyNode
  <2>2. \A x \in (1 .. n) \X AnyNode : One(d, x[2], d.ids[x[1]]) \in AnyNode
    BY OneStrikes
  <2> QED
    BY <2>1, <2>2
<1>2. Strike(d, node) = it[1 .. n]
  <2>1. Strike(d, node) = it[DOMAIN d.ids]
    BY DEF Strike, FoldLeft, MapThenFoldSet, One
  <2> HIDE DEF n, it
  <2> QED
    BY <1>1, <2>1
<1>3. \A s \in SUBSET (1 .. n), v \in AnyNode : s # {} =>
         G[<<Max(s), v>>] = One(d, v, d.ids[Max(s)])
  <2> SUFFICES ASSUME NEW s \in SUBSET (1 .. n), NEW v \in AnyNode, s # {}
               PROVE  G[<<Max(s), v>>] = One(d, v, d.ids[Max(s)])
    OBVIOUS
  <2>1. <<Max(s), v>> \in (1 .. n) \X AnyNode
    BY <1>1, MaxIsIn
  <2> QED
    BY <2>1
<1> HIDE DEF n, G
<1>4. PICK w \in [SUBSET (1 .. n) -> AnyNode] : Folds(w, n, node, G)
  BY <1>1, FoldExists
<1>5. Rec(w)
  <2>1. \A s \in SUBSET (1 .. n) :
           w[s] = IF s = {} THEN node ELSE One(d, w[s \ {Max(s)}], d.ids[Max(s)])
    <3> TAKE s \in SUBSET (1 .. n)
    <3>1. w[s] = IF s = {} THEN node ELSE G[<<Max(s), w[s \ {Max(s)}]>>]
      BY <1>4 DEF Folds
    <3>2. w[s \ {Max(s)}] \in AnyNode
      OBVIOUS
    <3> QED
      BY <1>3, <3>1, <3>2
  <2>2. w = [s \in SUBSET (1 .. n) |-> w[s]]
    OBVIOUS
  <2> QED
    BY <1>1, <2>1, <2>2
<1>6. Rec(it)
  <2> HIDE DEF Rec
  <2> QED
    BY <1>5
<1> HIDE DEF it
<1>7. FoldsIn(AnyNode, it, n, node, G)
  <2>1. \A s \in SUBSET (1 .. n) :
           it[s] = IF s = {} THEN node ELSE One(d, it[s \ {Max(s)}], d.ids[Max(s)])
    BY <1>1, <1>6
  <2> QED
    BY <1>3, <2>1 DEF FoldsIn
<1>8. Through(AnyNode, it, n, node, G)
  BY <1>1, <1>7, FoldRuns
<1>9. PICK f \in [0 .. n -> AnyNode] : Runs(f, n, node, G) /\ f[n] = it[1 .. n]
  BY <1>8 DEF Through
<1>10. \A k \in 1 .. n : f[k] = One(d, f[k - 1], d.ids[k])
  <2> TAKE k \in 1 .. n
  <2>1. <<k, f[k - 1]>> \in (1 .. n) \X AnyNode
    BY <1>1
  <2>2. f[k] = G[<<k, f[k - 1]>>]
    BY <1>9 DEF Runs
  <2> QED
    BY <2>1, <2>2 DEF G
<1> QED
  BY <1>2, <1>9, <1>10 DEF Runs, n

(* A node of the request strikes its hashes from the nodes of its type.    *)
LEMMA StrikeStrikes ==
    ASSUME NEW d \in AnyNode, NEW node \in AnyNode
    PROVE  /\ Strike(d, node) \in AnyNode /\ Strike(d, node).type = node.type
           /\ Clean(node) =>
                 /\ Clean(Strike(d, node))
                 /\ Range(Strike(d, node).ids) = IF d.type = node.type THEN Range(node.ids) \ Range(d.ids)
                                                 ELSE Range(node.ids)
<1> DEFINE n == Len(d.ids)
<1>0. n \in Nat /\ DOMAIN d.ids = 1 .. n
  BY DEF AnyNode
<1>1. PICK f \in [0 .. n -> AnyNode] :
         /\ f[0] = node
         /\ \A k \in 1 .. n : f[k] = One(d, f[k - 1], d.ids[k])
         /\ Strike(d, node) = f[n]
  BY StrikeRuns
<1> HIDE DEF n
<1> DEFINE Left(k) == {x \in Range(node.ids) : d.type = node.type => \A j \in 1 .. k : x # d.ids[j]}
           S == {k \in 0 .. n : /\ f[k].type = node.type
                                /\ Clean(node) => Clean(f[k]) /\ Range(f[k].ids) = Left(k)}
<1>2. 0 \in S
  BY <1>0, <1>1
<1>3. ASSUME NEW k \in 1 .. n, k - 1 \in S PROVE k \in S
  <2>1. k \in 0 .. n /\ f[k - 1] \in AnyNode /\ f[k] = One(d, f[k - 1], d.ids[k])
    BY <1>0, <1>1
  <2>2. /\ f[k].type = f[k - 1].type
        /\ Clean(f[k - 1]) =>
              /\ Clean(f[k])
              /\ Range(f[k].ids) = IF d.type = f[k - 1].type THEN Range(f[k - 1].ids) \ {d.ids[k]}
                                   ELSE Range(f[k - 1].ids)
    <3>1. PICK m \in AnyNode : m = f[k - 1]
      BY <2>1
    <3>2. PICK h : h = d.ids[k]
      OBVIOUS
    <3>3. /\ One(d, m, h).type = m.type
          /\ Clean(m) =>
                /\ Clean(One(d, m, h))
                /\ Range(One(d, m, h).ids) = IF d.type = m.type THEN Range(m.ids) \ {h}
                                             ELSE Range(m.ids)
      BY OneStrikes
    <3>4. f[k] = One(d, m, h)
      BY <2>1, <3>1, <3>2
    <3> QED
      BY <3>1, <3>2, <3>3, <3>4
  <2>3. Left(k) = IF d.type = node.type THEN Left(k - 1) \ {d.ids[k]} ELSE Left(k - 1)
    <3>1. \A j : j \in 1 .. k <=> j = k \/ j \in 1 .. k - 1
      BY <1>0
    <3> QED
      BY <3>1
  <2>4. /\ f[k - 1].type = node.type
        /\ Clean(node) => Clean(f[k - 1]) /\ Range(f[k - 1].ids) = Left(k - 1)
    BY <1>3
  <2> HIDE DEF Left
  <2> QED
    BY <2>1, <2>2, <2>3, <2>4
<1>4. n \in S
  <2> HIDE DEF S
  <2>1. 0 .. n \subseteq S
    BY <1>0, <1>2, <1>3, UpTo
  <2> QED
    BY <1>0, <2>1
<1>5. Left(n) = IF d.type = node.type THEN Range(node.ids) \ Range(d.ids) ELSE Range(node.ids)
  <2>1. \A x : x \in Range(d.ids) <=> \E j \in 1 .. n : x = d.ids[j]
    BY <1>0 DEF Range
  <2> QED
    BY <2>1
<1>6. f[n] \in AnyNode
  BY <1>0, <1>1
<1> HIDE DEF Left
<1> QED
  BY <1>1, <1>4, <1>5, <1>6

AllStruck(f, dels, n, d, node) ==
    /\ f[0] = node
    /\ \A k \in 1 .. n : f[k] = Strike(d[k], f[k - 1])
    /\ StrikeAll(dels, node) = f[n]

LEMMA StrikeAllRuns ==
    ASSUME NEW dels, NEW n \in Nat, NEW d, d = build_mok_list(dels), d \in [1 .. n -> AnyNode],
           NEW node \in AnyNode
    PROVE  \E f \in [0 .. n -> AnyNode] : AllStruck(f, dels, n, d, node)
<1> DEFINE G == [x \in (1 .. n) \X AnyNode |-> Strike(d[x[1]], x[2])]
           Rec(a) == a = [s \in SUBSET DOMAIN d |->
                             IF s = {} THEN node ELSE Strike(d[Max(s)], a[s \ {Max(s)}])]
           it == CHOOSE a : Rec(a)
<1>1. DOMAIN d = 1 .. n /\ G \in [(1 .. n) \X AnyNode -> AnyNode]
  <2>1. \A x \in (1 .. n) \X AnyNode : Strike(d[x[1]], x[2]) \in AnyNode
    BY StrikeStrikes
  <2> QED
    BY <2>1
<1>2. StrikeAll(dels, node) = it[1 .. n]
  <2>1. StrikeAll(dels, node) = it[DOMAIN d]
    BY DEF StrikeAll, FoldLeft, MapThenFoldSet
  <2> HIDE DEF it
  <2> QED
    BY <1>1, <2>1
<1>3. \A s \in SUBSET (1 .. n), v \in AnyNode : s # {} =>
         G[<<Max(s), v>>] = Strike(d[Max(s)], v)
  <2> SUFFICES ASSUME NEW s \in SUBSET (1 .. n), NEW v \in AnyNode, s # {}
               PROVE  G[<<Max(s), v>>] = Strike(d[Max(s)], v)
    OBVIOUS
  <2>1. <<Max(s), v>> \in (1 .. n) \X AnyNode
    BY MaxIsIn
  <2> QED
    BY <2>1
<1> HIDE DEF G
<1>4. PICK w \in [SUBSET (1 .. n) -> AnyNode] : Folds(w, n, node, G)
  BY <1>1, FoldExists
<1>5. Rec(w)
  <2>1. \A s \in SUBSET (1 .. n) :
           w[s] = IF s = {} THEN node ELSE Strike(d[Max(s)], w[s \ {Max(s)}])
    <3> TAKE s \in SUBSET (1 .. n)
    <3>1. w[s] = IF s = {} THEN node ELSE G[<<Max(s), w[s \ {Max(s)}]>>]
      BY <1>4 DEF Folds
    <3>2. w[s \ {Max(s)}] \in AnyNode
      OBVIOUS
    <3> QED
      BY <1>3, <3>1, <3>2
  <2>2. w = [s \in SUBSET (1 .. n) |-> w[s]]
    OBVIOUS
  <2> QED
    BY <1>1, <2>1, <2>2
<1>6. Rec(it)
  <2> HIDE DEF Rec
  <2> QED
    BY <1>5
<1> HIDE DEF it
<1>7. FoldsIn(AnyNode, it, n, node, G)
  <2>1. \A s \in SUBSET (1 .. n) :
           it[s] = IF s = {} THEN node ELSE Strike(d[Max(s)], it[s \ {Max(s)}])
    BY <1>1, <1>6
  <2> QED
    BY <1>3, <2>1 DEF FoldsIn
<1>8. Through(AnyNode, it, n, node, G)
  BY <1>1, <1>7, FoldRuns
<1>9. PICK f \in [0 .. n -> AnyNode] : Runs(f, n, node, G) /\ f[n] = it[1 .. n]
  BY <1>8 DEF Through
<1>10. \A k \in 1 .. n : f[k] = Strike(d[k], f[k - 1])
  <2> TAKE k \in 1 .. n
  <2>1. <<k, f[k - 1]>> \in (1 .. n) \X AnyNode
    OBVIOUS
  <2>2. f[k] = G[<<k, f[k - 1]>>]
    BY <1>9 DEF Runs
  <2> QED
    BY <2>1, <2>2 DEF G
<1> QED
  BY <1>2, <1>9, <1>10 DEF Runs, AllStruck

(* The lists a request or a database is made of.                           *)
LEMMA Built ==
    ASSUME NEW nodes \in Seq(Node)
    PROVE  /\ build_mok_list(nodes) \in [1 .. Len(nodes) -> AnyNode]
           /\ \A k \in 1 .. Len(nodes) : build_mok_list(nodes)[k].type = nodes[k].type
           /\ OneCertificate(nodes) => \A k \in 1 .. Len(nodes) : build_mok_list(nodes)[k].ids = nodes[k].ids
<1>1. DOMAIN nodes = 1 .. Len(nodes) /\ \A k \in 1 .. Len(nodes) : nodes[k] \in Node
  OBVIOUS
<1>2. ASSUME NEW k \in 1 .. Len(nodes)
      PROVE  /\ build_mok_list(nodes)[k] \in AnyNode
             /\ build_mok_list(nodes)[k].type = nodes[k].type
             /\ Len(nodes[k].ids) = 1 \/ nodes[k].type # "x509" => build_mok_list(nodes)[k].ids = nodes[k].ids
  <2> DEFINE m == nodes[k]
  <2>1. m = [type |-> m.type, ids |-> m.ids] /\ m.type \in STRING /\ m.ids \in Seq(STRING) /\ m.ids # <<>>
    BY <1>1 DEF Node
  <2>2. build_mok_list(nodes)[k] = IF m.type = "x509" THEN [m EXCEPT !.ids = <<Head(m.ids)>>] ELSE m
    BY <1>1 DEF build_mok_list
  <2> HIDE DEF m
  <2>3. Head(m.ids) \in STRING /\ (Len(m.ids) = 1 => m.ids = <<Head(m.ids)>>)
    BY <2>1
  <2>4. m \in AnyNode
    BY <2>1 DEF AnyNode
  <2>5. [m EXCEPT !.ids = <<Head(m.ids)>>] = [type |-> m.type, ids |-> <<Head(m.ids)>>]
    BY <2>1
  <2>6. [type |-> m.type, ids |-> <<Head(m.ids)>>] \in AnyNode
    BY <2>1, <2>3 DEF AnyNode
  <2> QED
    BY <2>2, <2>3, <2>4, <2>5, <2>6 DEF m
<1>3. build_mok_list(nodes) = [k \in 1 .. Len(nodes) |-> build_mok_list(nodes)[k]]
  BY <1>1 DEF build_mok_list
<1>4. OneCertificate(nodes) => \A k \in 1 .. Len(nodes) : nodes[k].type = "x509" => Len(nodes[k].ids) = 1
  BY <1>1 DEF OneCertificate
<1> QED
  BY <1>2, <1>3, <1>4

LEMMA IdsIn ==
    ASSUME NEW nodes, NEW t, NEW x
    PROVE  x \in Ids(nodes, t) <=>
              \E k \in DOMAIN nodes : nodes[k].type = t /\ x \in Range(nodes[k].ids)
  BY DEF Ids

(* A request strikes what it names, by type.                               *)
LEMMA StrikeAllStrikes ==
    ASSUME NEW dels \in Seq(Node), NEW node \in AnyNode
    PROVE  /\ StrikeAll(dels, node) \in AnyNode
           /\ Clean(node) /\ OneCertificate(dels) =>
                 /\ StrikeAll(dels, node).type = node.type
                 /\ \A x : x \in Range(StrikeAll(dels, node).ids) <=>
                           x \in Range(node.ids) /\ x \notin Ids(dels, node.type)
<1> DEFINE n == Len(dels)
           d == build_mok_list(dels)
<1>0. n \in Nat /\ DOMAIN dels = 1 .. n
  OBVIOUS
<1>1. /\ d \in [1 .. n -> AnyNode]
      /\ \A k \in 1 .. n : d[k].type = dels[k].type
      /\ OneCertificate(dels) => \A k \in 1 .. n : d[k].ids = dels[k].ids
  BY Built
<1> HIDE DEF n, d
<1>2. PICK f \in [0 .. n -> AnyNode] :
         /\ f[0] = node
         /\ \A k \in 1 .. n : f[k] = Strike(d[k], f[k - 1])
         /\ StrikeAll(dels, node) = f[n]
  <2>1. d = build_mok_list(dels)
    BY DEF d
  <2>2. \E f \in [0 .. n -> AnyNode] : AllStruck(f, dels, n, d, node)
    BY <1>0, <1>1, <2>1, StrikeAllRuns
  <2> QED
    BY <2>2 DEF AllStruck
<1>3. StrikeAll(dels, node) \in AnyNode
  BY <1>0, <1>2
<1>4. ASSUME Clean(node), OneCertificate(dels)
      PROVE  /\ StrikeAll(dels, node).type = node.type
             /\ \A x : x \in Range(StrikeAll(dels, node).ids) <=>
                       x \in Range(node.ids) /\ x \notin Ids(dels, node.type)
  <2> DEFINE Named(k) == {x \in Range(node.ids) :
                             \A j \in 1 .. k : d[j].type = node.type => x \notin Range(d[j].ids)}
             S == {k \in 0 .. n : f[k].type = node.type /\ Clean(f[k]) /\ Range(f[k].ids) = Named(k)}
  <2>1. 0 \in S
    BY <1>0, <1>2, <1>4
  <2>2. ASSUME NEW k \in 1 .. n, k - 1 \in S PROVE k \in S
    <3>1. PICK m \in AnyNode : m = f[k - 1]
      BY <1>0, <1>2
    <3>2. PICK e \in AnyNode : e = d[k]
      BY <1>1
    <3>3. /\ Strike(e, m).type = m.type
          /\ Clean(m) => /\ Clean(Strike(e, m))
                         /\ Range(Strike(e, m).ids) = IF e.type = m.type THEN Range(m.ids) \ Range(e.ids)
                                                      ELSE Range(m.ids)
      BY StrikeStrikes
    <3>4. f[k] = Strike(e, m) /\ k \in 0 .. n
      BY <1>0, <1>2, <3>1, <3>2
    <3>5. m.type = node.type /\ Clean(m) /\ Range(m.ids) = Named(k - 1)
      BY <2>2, <3>1
    <3>6. Named(k) = IF e.type = node.type THEN Named(k - 1) \ Range(e.ids) ELSE Named(k - 1)
      <4>1. \A j : j \in 1 .. k <=> j = k \/ j \in 1 .. k - 1
        BY <1>0
      <4> QED
        BY <3>2, <4>1
    <3> HIDE DEF Named
    <3> QED
      BY <3>3, <3>4, <3>5, <3>6
  <2>3. n \in S
    <3> HIDE DEF S
    <3>1. 0 .. n \subseteq S
      BY <1>0, <2>1, <2>2, UpTo
    <3> QED
      BY <1>0, <3>1
  <2>4. \A x : x \in Range(f[n].ids) <=>
               /\ x \in Range(node.ids)
               /\ \A j \in 1 .. n : d[j].type = node.type => x \notin Range(d[j].ids)
    BY <2>3
  <2>5. \A j \in 1 .. n : d[j].type = dels[j].type /\ d[j].ids = dels[j].ids
    BY <1>1, <1>4
  <2>6. \A x : x \in Ids(dels, node.type) <=>
               \E j \in 1 .. n : dels[j].type = node.type /\ x \in Range(dels[j].ids)
    BY <1>0, IdsIn
  <2> QED
    BY <1>2, <2>3, <2>4, <2>5, <2>6
<1> QED
  BY <1>3, <1>4

(* Empty nodes are left out, the others are kept.                          *)
Keep(kept, n) == IF n.ids = <<>> THEN kept ELSE Append(kept, n)

LEMMA KeepKeeps ==
    ASSUME NEW kept \in Seq(Node), NEW m \in AnyNode
    PROVE  /\ Keep(kept, m) \in Seq(Node)
           /\ \A x : x \in Range(Keep(kept, m)) <=> x \in Range(kept) \/ (x = m /\ m.ids # <<>>)
<1>1. CASE m.ids = <<>>
  BY <1>1 DEF Keep
<1>2. CASE m.ids # <<>>
  <2>1. m \in Node /\ Keep(kept, m) = Append(kept, m)
    BY <1>2 DEF Keep, AnyNode, Node
  <2>2. Append(kept, m) \in Seq(Node) /\ Len(Append(kept, m)) = Len(kept) + 1
    BY <2>1
  <2>3. \A k \in 1 .. Len(kept) + 1 : Append(kept, m)[k] = IF k <= Len(kept) THEN kept[k] ELSE m
    BY <2>1
  <2>4. DOMAIN Append(kept, m) = 1 .. Len(kept) + 1 /\ DOMAIN kept = 1 .. Len(kept) /\ Len(kept) \in Nat
    BY <2>1, <2>2
  <2>5. \A k : k \in 1 .. Len(kept) + 1 <=> k \in 1 .. Len(kept) \/ k = Len(kept) + 1
    BY <2>4
  <2>6. ~(Len(kept) + 1 <= Len(kept)) /\ \A k \in 1 .. Len(kept) : k <= Len(kept)
    BY <2>4
  <2>7. \A x : x \in Range(Append(kept, m)) <=> x \in Range(kept) \/ x = m
    BY <2>3, <2>4, <2>5, <2>6 DEF Range
  <2> QED
    BY <1>2, <2>1, <2>2, <2>7
<1> QED
  BY <1>1, <1>2

LEMMA WriteBackRuns ==
    ASSUME NEW n \in Nat, NEW d \in [1 .. n -> AnyNode]
    PROVE  \E f \in [0 .. n -> Seq(Node)] :
              /\ f[0] = <<>>
              /\ \A k \in 1 .. n : f[k] = Keep(f[k - 1], d[k])
              /\ write_back_mok_list(d) = f[n]
<1> DEFINE V == Seq(Node)
           G == [x \in (1 .. n) \X V |-> Keep(x[2], d[x[1]])]
           Rec(a) == a = [s \in SUBSET DOMAIN d |->
                             IF s = {} THEN <<>> ELSE Keep(a[s \ {Max(s)}], d[Max(s)])]
           it == CHOOSE a : Rec(a)
<1>1. DOMAIN d = 1 .. n /\ G \in [(1 .. n) \X V -> V] /\ <<>> \in V
  <2>1. \A x \in (1 .. n) \X V : Keep(x[2], d[x[1]]) \in V
    BY KeepKeeps
  <2> QED
    BY <2>1
<1>2. write_back_mok_list(d) = it[1 .. n]
  <2>1. write_back_mok_list(d) = it[DOMAIN d]
    BY DEF write_back_mok_list, FoldLeft, MapThenFoldSet, Keep
  <2> HIDE DEF it
  <2> QED
    BY <1>1, <2>1
<1> HIDE DEF V
<1>3. \A s \in SUBSET (1 .. n), v \in V : s # {} => G[<<Max(s), v>>] = Keep(v, d[Max(s)])
  <2> SUFFICES ASSUME NEW s \in SUBSET (1 .. n), NEW v \in V, s # {}
               PROVE  G[<<Max(s), v>>] = Keep(v, d[Max(s)])
    OBVIOUS
  <2>1. <<Max(s), v>> \in (1 .. n) \X V
    BY MaxIsIn
  <2> QED
    BY <2>1
<1> HIDE DEF G
<1>4. PICK w \in [SUBSET (1 .. n) -> V] : Folds(w, n, <<>>, G)
  BY <1>1, FoldExists
<1>5. Rec(w)
  <2>1. \A s \in SUBSET (1 .. n) :
           w[s] = IF s = {} THEN <<>> ELSE Keep(w[s \ {Max(s)}], d[Max(s)])
    <3> TAKE s \in SUBSET (1 .. n)
    <3>1. w[s] = IF s = {} THEN <<>> ELSE G[<<Max(s), w[s \ {Max(s)}]>>]
      BY <1>4 DEF Folds
    <3>2. w[s \ {Max(s)}] \in V
      OBVIOUS
    <3> QED
      BY <1>3, <3>1, <3>2
  <2>2. w = [s \in SUBSET (1 .. n) |-> w[s]]
    OBVIOUS
  <2> QED
    BY <1>1, <2>1, <2>2
<1>6. Rec(it)
  <2> HIDE DEF Rec
  <2> QED
    BY <1>5
<1> HIDE DEF it
<1>7. FoldsIn(V, it, n, <<>>, G)
  <2>1. \A s \in SUBSET (1 .. n) :
           it[s] = IF s = {} THEN <<>> ELSE Keep(it[s \ {Max(s)}], d[Max(s)])
    BY <1>1, <1>6
  <2> QED
    BY <1>3, <2>1 DEF FoldsIn
<1>8. Through(V, it, n, <<>>, G)
  BY <1>1, <1>7, FoldRuns
<1>9. PICK f \in [0 .. n -> V] : Runs(f, n, <<>>, G) /\ f[n] = it[1 .. n]
  BY <1>8 DEF Through
<1>10. \A k \in 1 .. n : f[k] = Keep(f[k - 1], d[k])
  <2> TAKE k \in 1 .. n
  <2>1. <<k, f[k - 1]>> \in (1 .. n) \X V
    OBVIOUS
  <2>2. f[k] = G[<<k, f[k - 1]>>]
    BY <1>9 DEF Runs
  <2> QED
    BY <2>1, <2>2 DEF G
<1> QED
  BY <1>2, <1>9, <1>10 DEF Runs, V

LEMMA WriteBackKeeps ==
    ASSUME NEW n \in Nat, NEW d \in [1 .. n -> AnyNode]
    PROVE  /\ write_back_mok_list(d) \in Seq(Node)
           /\ \A m : m \in Range(write_back_mok_list(d)) <=>
                     \E k \in 1 .. n : m = d[k] /\ d[k].ids # <<>>
<1>1. PICK f \in [0 .. n -> Seq(Node)] :
         /\ f[0] = <<>>
         /\ \A k \in 1 .. n : f[k] = Keep(f[k - 1], d[k])
         /\ write_back_mok_list(d) = f[n]
  BY WriteBackRuns
<1> DEFINE Kept(k) == {d[j] : j \in {i \in 1 .. k : d[i].ids # <<>>}}
           S == {k \in 0 .. n : Range(f[k]) = Kept(k)}
<1>2. 0 \in S
  <2>1. Range(<<>>) = {}
    BY DEF Range
  <2> QED
    BY <1>1, <2>1
<1>3. ASSUME NEW k \in 1 .. n, k - 1 \in S PROVE k \in S
  <2>1. PICK r \in Seq(Node) : r = f[k - 1]
    BY <1>1
  <2>2. PICK m \in AnyNode : m = d[k]
    OBVIOUS
  <2>3. \A x : x \in Range(Keep(r, m)) <=> x \in Range(r) \/ (x = m /\ m.ids # <<>>)
    BY KeepKeeps
  <2>4. f[k] = Keep(r, m) /\ k \in 0 .. n
    BY <1>1, <2>1, <2>2
  <2>5. Range(r) = Kept(k - 1)
    BY <1>3, <2>1
  <2>6. \A x : x \in Kept(k) <=> x \in Kept(k - 1) \/ (x = m /\ m.ids # <<>>)
    <3>1. \A j : j \in 1 .. k <=> j = k \/ j \in 1 .. k - 1
      OBVIOUS
    <3> QED
      BY <2>2, <3>1
  <2> HIDE DEF Kept
  <2> QED
    BY <2>3, <2>4, <2>5, <2>6
<1>4. n \in S
  <2> HIDE DEF S
  <2>1. 0 .. n \subseteq S
    BY <1>2, <1>3, UpTo
  <2> QED
    BY <2>1
<1>5. f[n] \in Seq(Node)
  OBVIOUS
<1> QED
  BY <1>1, <1>4, <1>5

LEMMA RemainingFacts ==
    ASSUME NEW nodes \in Seq(Node), NEW dels \in Seq(Node)
    PROVE  /\ Remaining(nodes, dels) \in Seq(Node)
           /\ Plain(nodes) /\ OneCertificate(dels) =>
                 \A t : Ids(Remaining(nodes, dels), t) = Ids(nodes, t) \ Ids(dels, t)
<1> DEFINE n == Len(nodes)
           b == build_mok_list(nodes)
           struck == [k \in 1 .. n |-> StrikeAll(dels, b[k])]
           left == Remaining(nodes, dels)
<1>0. n \in Nat /\ DOMAIN nodes = 1 .. n
  OBVIOUS
<1>1. /\ b \in [1 .. n -> AnyNode]
      /\ \A k \in 1 .. n : b[k].type = nodes[k].type
      /\ OneCertificate(nodes) => \A k \in 1 .. n : b[k].ids = nodes[k].ids
  BY Built
<1>2. left = write_back_mok_list(struck)
  BY <1>0 DEF Remaining
<1> HIDE DEF n, b
<1>3. \A k \in 1 .. n : struck[k] = StrikeAll(dels, b[k]) /\ struck[k] \in AnyNode
  <2> TAKE k \in 1 .. n
  <2>1. b[k] \in AnyNode
    BY <1>1
  <2>2. StrikeAll(dels, b[k]) \in AnyNode
    BY <2>1, StrikeAllStrikes
  <2> QED
    BY <2>2
<1>4. struck \in [1 .. n -> AnyNode]
  <2>1. \A k \in 1 .. n : StrikeAll(dels, b[k]) \in AnyNode
    BY <1>3
  <2> QED
    BY <2>1
<1> HIDE DEF struck, left
<1>5. /\ left \in Seq(Node)
      /\ \A m : m \in Range(left) <=> \E k \in 1 .. n : m = struck[k] /\ struck[k].ids # <<>>
  BY <1>0, <1>2, <1>4, WriteBackKeeps
<1>6. ASSUME Plain(nodes), OneCertificate(dels), NEW t
      PROVE  Ids(left, t) = Ids(nodes, t) \ Ids(dels, t)
  <2>1. \A k \in 1 .. n : /\ struck[k].type = nodes[k].type
                          /\ \A x : x \in Range(struck[k].ids) <=>
                                x \in Range(nodes[k].ids) /\ x \notin Ids(dels, nodes[k].type)
    <3> TAKE k \in 1 .. n
    <3>1. PICK m \in AnyNode : m = b[k]
      BY <1>1
    <3>2. m.type = nodes[k].type /\ m.ids = nodes[k].ids
      BY <1>1, <1>6, <3>1 DEF Plain
    <3>3. Clean(m)
      <4>1. IsInjective(nodes[k].ids) /\ (nodes[k].type = "x509" => Len(nodes[k].ids) = 1)
        BY <1>0, <1>6 DEF Plain, OneCertificate
      <4>2. IsInjective(m.ids) /\ (m.type = "x509" => Len(m.ids) = 1)
        BY <3>2, <4>1
      <4> QED
        BY <4>2 DEF Clean
    <3>4. /\ StrikeAll(dels, m).type = m.type
          /\ \A x : x \in Range(StrikeAll(dels, m).ids) <=>
                    x \in Range(m.ids) /\ x \notin Ids(dels, m.type)
      BY <1>6, <3>3, StrikeAllStrikes
    <3>5. struck[k] = StrikeAll(dels, m)
      BY <1>3, <3>1
    <3> QED
      BY <3>2, <3>4, <3>5
  <2>2. \A x : x \in Ids(nodes, t) <=> \E k \in 1 .. n : nodes[k].type = t /\ x \in Range(nodes[k].ids)
    BY <1>0, IdsIn
  <2>3. \A x : x \in Ids(left, t) <=> \E m \in Range(left) : m.type = t /\ x \in Range(m.ids)
    <3>1. \A x : x \in Ids(left, t) <=> \E k \in DOMAIN left : left[k].type = t /\ x \in Range(left[k].ids)
      BY IdsIn
    <3>2. \A m : m \in Range(left) <=> \E k \in DOMAIN left : m = left[k]
      BY DEF Range
    <3> QED
      BY <3>1, <3>2
  <2>4. \A k \in 1 .. n : \A x : x \in Range(struck[k].ids) => struck[k].ids # <<>>
    BY DEF Range
  <2>5. ASSUME NEW x
        PROVE  x \in Ids(left, t) <=>
                  \E k \in 1 .. n : struck[k].type = t /\ x \in Range(struck[k].ids)
    <3>1. x \in Ids(left, t) <=> \E m \in Range(left) : m.type = t /\ x \in Range(m.ids)
      BY <2>3
    <3>2. ASSUME NEW m \in Range(left), m.type = t, x \in Range(m.ids)
          PROVE  \E k \in 1 .. n : struck[k].type = t /\ x \in Range(struck[k].ids)
      BY <1>5, <3>2
    <3>3. ASSUME NEW k \in 1 .. n, struck[k].type = t, x \in Range(struck[k].ids)
          PROVE  \E m \in Range(left) : m.type = t /\ x \in Range(m.ids)
      <4>1. struck[k] \in Range(left)
        BY <1>5, <2>4, <3>3
      <4> QED
        BY <3>3, <4>1
    <3> QED
      BY <3>1, <3>2, <3>3
  <2>6. ASSUME NEW x
        PROVE  x \in Ids(left, t) <=> x \in Ids(nodes, t) /\ x \notin Ids(dels, t)
    <3>1. \A k \in 1 .. n : struck[k].type = t /\ x \in Range(struck[k].ids) <=>
             nodes[k].type = t /\ x \in Range(nodes[k].ids) /\ x \notin Ids(dels, t)
      BY <2>1
    <3>2. x \in Ids(nodes, t) <=> \E k \in 1 .. n : nodes[k].type = t /\ x \in Range(nodes[k].ids)
      BY <2>2
    <3> QED
      BY <2>5, <3>1, <3>2
  <2> QED
    BY <2>6
<1> QED
  BY <1>5, <1>6 DEF left

---------------------------------------------------------------------------
(* Databases and requests are made of signature lists.                     *)

SomeReqKeys(r) == \A q \in KeyRequests : r[q] \in Seq(Node)
ReqKeys  == SomeReqKeys(req)
HeldKeys == SomeReqKeys(held)
ListKeys == \A l \in Lists : lists[l].nodes \in Seq(Node)
KeysInv  == ReqKeys /\ HeldKeys /\ ListKeys

LEMMA NoneIsKeys == None \in Seq(Node) /\ KeyRequests \subseteq Requests
  BY DEF None, KeyRequests, Requests

LEMMA DeleteKeys ==
    ASSUME NvramShape, ReqKeys, NEW rs, NEW as, Delete(rs, as) \/ Gone(rs, as)
    PROVE  ReqKeys'
<1>1. \A r \in Requests : req'[r] \in {None, req[r]}
  BY DeleteShape, GoneShape
<1> QED
  BY <1>1, NoneIsKeys DEF ReqKeys, SomeReqKeys

LEMMA ReqKeysStep == NvramShape /\ ReqKeys /\ [Next]_vars => ReqKeys'
<1> SUFFICES ASSUME NvramShape, ReqKeys, [Next]_vars PROVE ReqKeys'
  OBVIOUS
<1> USE DEF store, nvram, menu
<1>0. ASSUME UNCHANGED req PROVE ReqKeys'
  BY <1>0 DEF ReqKeys, SomeReqKeys
<1>1. CASE OsRequest
  <2>1. PICK r, x : /\ r \in Requests
                    /\ req' = [req EXCEPT ![r] = x]
                    /\ r \in KeyRequests => x \in Seq(Node)
    <3>1. CASE \E r \in KeyRequests, n \in KeyLists : req' = [req EXCEPT ![r] = n]
      BY <3>1, NodesAssumption DEF KeyRequests, Requests
    <3>2. CASE \E r \in SwitchRequests, s \in Switches : req' = [req EXCEPT ![r] = <<s>>]
      BY <3>2 DEF SwitchRequests, KeyRequests, Requests
    <3>3. CASE \E q \in Passwords : req' = [req EXCEPT !["MokPW"] = <<q>>]
      <4>1. "MokPW" \in Requests /\ "MokPW" \notin KeyRequests
        BY DEF KeyRequests, Requests
      <4>2. PICK q \in Passwords : req' = [req EXCEPT !["MokPW"] = <<q>>]
        BY <3>3
      <4> HIDE DEF Requests
      <4> QED
        BY <4>1, <4>2, Zenon
    <3> QED
      BY <1>1, <3>1, <3>2, <3>3 DEF OsRequest
  <2>2. req' = [q \in Requests |-> IF q = r THEN x ELSE req[q]]
    BY <2>1 DEF NvramShape
  <2> QED
    BY <2>1, <2>2, NoneIsKeys DEF ReqKeys, SomeReqKeys
<1>2. CASE OsAuth \/ OsReboot \/ CheckMokRequest \/ EnterMenu \/ StayOut \/ Scan \/ Overrun \/ PowerCycle
  BY <1>0, <1>2
     DEF OsAuth, OsReboot, CheckMokRequest, EnterMenu, StayOut, Scan, Overrun, PowerCycle
<1>3. CASE Take
  BY <1>3, DeleteKeys DEF Take
<1>4. CASE MenuNoMemory \/ Again \/ DeletionAborts \/ WriteFails \/ MenuBoot \/ EnrollFromDisk \/ Reset
  BY <1>0, <1>4 DEF MenuNoMemory, Again, DeletionAborts, WriteFails, MenuBoot, EnrollFromDisk, Reset
<1>5. ASSUME NEW l \in Lists, mok_enrollment_prompt(l) \/ mok_reset_prompt(l) PROVE ReqKeys'
  BY <1>5, DeleteKeys DEF mok_enrollment_prompt, mok_reset_prompt
<1>6. ASSUME NEW l \in Lists, mok_deletion_prompt(l) PROVE ReqKeys'
  <2>1. PICK rs, as : Gone(rs, as) \/ Delete(rs, as)
    BY <1>6 DEF mok_deletion_prompt
  <2> QED
    BY <2>1, DeleteKeys
<1>7. ASSUME NEW l \in Lists, DeletionErases(l) PROVE ReqKeys'
  BY <1>0, <1>7 DEF DeletionErases
<1>8. ASSUME NEW r \in SwitchRequests, SwitchPrompt(r) PROVE ReqKeys'
  BY <1>0, <1>8, DeleteKeys DEF SwitchPrompt
<1>9. CASE mok_pw_prompt
  BY <1>9, DeleteKeys DEF mok_pw_prompt
<1>10. CASE Return
  BY <1>10, DeleteKeys DEF Return
<1>11. CASE UNCHANGED vars
  BY <1>0, <1>11 DEF vars
<1> QED
  BY <1>1, <1>2, <1>3, <1>4, <1>5, <1>6, <1>7, <1>8, <1>9, <1>10, <1>11 DEF Next

LEMMA ForgetKeys ==
    ASSUME HeldShape, HeldKeys, NEW r \in Requests, Forget(r)
    PROVE  HeldKeys'
<1>1. held' = [q \in Requests |-> IF q = r THEN None ELSE held[q]]
  BY DEF Forget, HeldShape
<1> QED
  BY <1>1, NoneIsKeys DEF HeldKeys, SomeReqKeys

LEMMA HeldKeysStep == HeldShape /\ ReqKeys /\ HeldKeys /\ [Next]_vars => HeldKeys'
<1> SUFFICES ASSUME HeldShape, ReqKeys, HeldKeys, [Next]_vars PROVE HeldKeys'
  OBVIOUS
<1> USE DEF store, nvram, menu
<1>0. ASSUME UNCHANGED held PROVE HeldKeys'
  BY <1>0 DEF HeldKeys, SomeReqKeys
<1>1. CASE OsRequest \/ OsAuth \/ OsReboot \/ CheckMokRequest
  BY <1>0, <1>1 DEF OsRequest, OsAuth, OsReboot, CheckMokRequest
<1>2. CASE EnterMenu \/ StayOut \/ Scan \/ Overrun \/ MenuNoMemory
  BY <1>0, <1>2 DEF EnterMenu, StayOut, Scan, Overrun, MenuNoMemory
<1>3. CASE Take
  <2>1. PICK unread : held' = [r \in Requests |-> IF r \in unread THEN None ELSE req[r]]
    BY <1>3 DEF Take
  <2>2. KeyRequests \subseteq Requests
    BY DEF Requests
  <2> QED
    BY <2>1, <2>2, NoneIsKeys DEF ReqKeys, HeldKeys, SomeReqKeys
<1>4. CASE Again \/ DeletionAborts \/ WriteFails \/ MenuBoot \/ EnrollFromDisk
  BY <1>0, <1>4 DEF Again, DeletionAborts, WriteFails, MenuBoot, EnrollFromDisk
<1>5. ASSUME NEW l \in Lists, mok_enrollment_prompt(l) PROVE HeldKeys'
  BY <1>5, ForgetKeys, RequestNames DEF mok_enrollment_prompt
<1>6. ASSUME NEW l \in Lists, mok_reset_prompt(l) \/ DeletionErases(l) PROVE HeldKeys'
  BY <1>0, <1>6 DEF mok_reset_prompt, DeletionErases
<1>7. ASSUME NEW l \in Lists, mok_deletion_prompt(l) PROVE HeldKeys'
  <2>1. Forget(DelOf(l))
    BY <1>7 DEF mok_deletion_prompt
  <2> QED
    BY <2>1, ForgetKeys, RequestNames
<1>8. ASSUME NEW r \in SwitchRequests, SwitchPrompt(r) PROVE HeldKeys'
  BY <1>0, <1>8, ForgetKeys, RequestNames DEF SwitchPrompt
<1>9. CASE mok_pw_prompt
  BY <1>9, ForgetKeys, RequestNames DEF mok_pw_prompt
<1>10. CASE Reset \/ Return \/ PowerCycle
  <2>1. held' = NoRequests
    BY <1>10 DEF Reset, Return, PowerCycle
  <2> QED
    BY <2>1, NoneIsKeys DEF HeldKeys, SomeReqKeys, NoRequests
<1>11. CASE UNCHANGED vars
  BY <1>0, <1>11 DEF vars
<1> QED
  BY <1>1, <1>2, <1>3, <1>4, <1>5, <1>6, <1>7, <1>8, <1>9, <1>10, <1>11 DEF Next

LEMMA ReplaceKeys ==
    ASSUME ListsShape, ListKeys, NEW l \in Lists, NEW w,
           w.nodes \in Seq(Node), lists' = [lists EXCEPT ![l] = w]
    PROVE  ListKeys'
<1>1. lists' = [k \in Lists |-> IF k = l THEN w ELSE lists[k]]
  BY DEF ListsShape
<1> QED
  BY <1>1 DEF ListKeys

LEMMA WrittenKeys ==
    ASSUME ListKeys, NEW l \in Lists, NEW nodes \in Seq(Node)
    PROVE  Written(l, nodes).nodes \in Seq(Node)
<1>1. lists[l].nodes \in Seq(Node) /\ <<>> \in Seq(Node)
  BY DEF ListKeys
<1> DEFINE old == IF lists[l].runtime THEN <<>> ELSE lists[l].nodes
<1>2. old \in Seq(Node)
  BY <1>1
<1>3. Written(l, nodes).nodes = old \o nodes
  BY DEF Written
<1> HIDE DEF old
<1> QED
  BY <1>2, <1>3, ConcatProperties

LEMMA NoListKeys == NoList.nodes \in Seq(Node)
  BY DEF NoList

LEMMA ListRequests ==
    ASSUME HeldKeys, NEW l \in Lists
    PROVE  held[NewOf(l)] \in Seq(Node) /\ held[DelOf(l)] \in Seq(Node)
<1>1. NewOf(l) \in KeyRequests /\ DelOf(l) \in KeyRequests
  BY DEF Lists, NewOf, DelOf, KeyRequests
<1> QED
  BY <1>1 DEF HeldKeys, SomeReqKeys

(* What a deletion leaves has taken the place of the list.                 *)
LEMMA DeletionLeaves ==
    ASSUME ListsShape, HeldKeys, ListKeys, NEW l \in Lists, mok_deletion_prompt(l)
    PROVE  LET left == Remaining(lists[l].nodes, held[DelOf(l)])
           IN  \/ UNCHANGED lists /\ (auth[DelAuthOf(l)] = "odd" \/ Fault("set"))
               \/ \E w : w.nodes = left /\ lists' = [lists EXCEPT ![l] = w]
<1> DEFINE left == Remaining(lists[l].nodes, held[DelOf(l)])
<1>1. \/ UNCHANGED lists /\ (auth[DelAuthOf(l)] = "odd" \/ Fault("set"))
      \/ lists' = [lists EXCEPT ![l] = IF left = <<>> THEN NoList ELSE [lists[l] EXCEPT !.nodes = left]]
  BY DEF mok_deletion_prompt
<1>2. NoList.nodes = <<>> /\ [lists[l] EXCEPT !.nodes = left].nodes = left
  BY DEF NoList, ListsShape, Fields
<1> HIDE DEF left
<1> DEFINE w == IF left = <<>> THEN NoList ELSE [lists[l] EXCEPT !.nodes = left]
<1>3. w.nodes = left
  BY <1>2
<1> HIDE DEF w
<1>4. \/ UNCHANGED lists /\ (auth[DelAuthOf(l)] = "odd" \/ Fault("set"))
      \/ lists' = [lists EXCEPT ![l] = w]
  BY <1>1 DEF w
<1> QED
  BY <1>3, <1>4 DEF left

LEMMA ListKeysStep ==
    ListsShape /\ HeldKeys /\ ListKeys /\ [Next]_vars => ListKeys'
<1> SUFFICES ASSUME ListsShape, HeldKeys, ListKeys, [Next]_vars PROVE ListKeys'
  OBVIOUS
<1> USE DEF store, nvram, menu
<1>0. ASSUME UNCHANGED lists PROVE ListKeys'
  BY <1>0 DEF ListKeys
<1>1. CASE OsRequest \/ OsAuth \/ OsReboot \/ CheckMokRequest
  BY <1>0, <1>1 DEF OsRequest, OsAuth, OsReboot, CheckMokRequest
<1>2. CASE Take \/ EnterMenu \/ StayOut \/ Scan \/ Overrun \/ PowerCycle \/ MenuNoMemory
  BY <1>0, <1>2 DEF Take, EnterMenu, StayOut, Scan, Overrun, PowerCycle, MenuNoMemory
<1>3. CASE Again \/ DeletionAborts \/ WriteFails \/ MenuBoot
  BY <1>0, <1>3 DEF Again, DeletionAborts, WriteFails, MenuBoot
<1>4. ASSUME NEW l \in Lists, mok_enrollment_prompt(l) PROVE ListKeys'
  <2>1. \/ lists' = [lists EXCEPT ![l] = Written(l, held[NewOf(l)])]
        \/ UNCHANGED lists
    BY <1>4 DEF mok_enrollment_prompt, store_keys
  <2>2. Written(l, held[NewOf(l)]).nodes \in Seq(Node)
    BY ListRequests, WrittenKeys
  <2> QED
    BY <1>0, <2>1, <2>2, ReplaceKeys
<1>5. ASSUME NEW l \in Lists, mok_reset_prompt(l) \/ DeletionErases(l) PROVE ListKeys'
  <2>1. lists' = [lists EXCEPT ![l] = NoList] \/ UNCHANGED lists
    BY <1>5 DEF mok_reset_prompt, store_keys, DeletionErases
  <2> QED
    BY <1>0, <2>1, NoListKeys, ReplaceKeys
<1>6. ASSUME NEW l \in Lists, mok_deletion_prompt(l) PROVE ListKeys'
  <2>1. Remaining(lists[l].nodes, held[DelOf(l)]) \in Seq(Node)
    BY ListRequests, RemainingFacts DEF ListKeys
  <2>2. \/ UNCHANGED lists
        \/ \E w : /\ w.nodes = Remaining(lists[l].nodes, held[DelOf(l)])
                  /\ lists' = [lists EXCEPT ![l] = w]
    BY <1>6, DeletionLeaves
  <2> QED
    BY <1>0, <2>1, <2>2, ReplaceKeys
<1>7. CASE mok_pw_prompt \/ \E r \in SwitchRequests : SwitchPrompt(r)
  BY <1>0, <1>7 DEF mok_pw_prompt, SwitchPrompt
<1>8. CASE EnrollFromDisk
  <2>1. \/ lists' = [lists EXCEPT !["MokList"] = Written("MokList", <<DiskNode>>)]
        \/ UNCHANGED lists
    BY <1>8 DEF EnrollFromDisk
  <2>2. "MokList" \in Lists /\ <<DiskNode>> \in Seq(Node)
    BY NodesAssumption DEF Lists
  <2>3. Written("MokList", <<DiskNode>>).nodes \in Seq(Node)
    BY <2>2, WrittenKeys
  <2> QED
    BY <1>0, <2>1, <2>2, <2>3, ReplaceKeys
<1>9. CASE Reset \/ Return \/ UNCHANGED vars
  BY <1>0, <1>9 DEF Reset, Return, vars
<1> QED
  BY <1>1, <1>2, <1>3, <1>4, <1>5, <1>6, <1>7, <1>8, <1>9 DEF Next

LEMMA KeysInit == Init => KeysInv
<1> SUFFICES ASSUME Init PROVE KeysInv
  OBVIOUS
<1>1. lists \in [Lists -> [here : BOOLEAN, runtime : BOOLEAN, parses : BOOLEAN,
                          nodes : Seq(Node)]]
  BY StoredAssumption DEF Init
<1>2. ListKeys
  BY <1>1 DEF ListKeys
<1>3. ReqKeys /\ HeldKeys
  BY NoneIsKeys DEF Init, ReqKeys, HeldKeys, SomeReqKeys, NoRequests
<1> QED
  BY <1>2, <1>3 DEF KeysInv

(* Whatever was in the list and in the request, in any number of signature *)
(* lists of any length: deleting keys takes out of the stored list the     *)
(* certificates and hashes the request names, each from the nodes of its   *)
(* type, and leaves all others.  This needs a hash to be in a node once,   *)
(* because match_hash looks in the wrong place for the second, and one     *)
(* certificate in a node, because build_mok_list keeps only the first.     *)
THEOREM DeletionIsExact == Spec => DeletesWhatIsNamed
<1> DEFINE Exact == \A l \in Lists :
              Deleted(l) /\ Plain(lists[l].nodes) /\ OneCertificate(held[DelOf(l)]) => DeletesExactly(l)
<1>1. Init => CleanInv /\ KeysInv
  BY KeysInit DEF Init, CleanInv
<1>2. Shapes /\ CleanInv /\ KeysInv /\ [Next]_vars => [Exact]_vars
  <2> SUFFICES ASSUME Shapes, CleanInv, KeysInv, Next, NEW l \in Lists, Deleted(l),
                      Plain(lists[l].nodes), OneCertificate(held[DelOf(l)])
               PROVE  DeletesExactly(l)
    OBVIOUS
  <2>0. pc = "menu" /\ held[DelOf(l)] # None /\ held'[DelOf(l)] = None /\ Valid(auth[DelAuthOf(l)])
        /\ faults' = faults
    BY DEF Deleted
  <2>1. mok_deletion_prompt(l)
    <3> USE DEF store, nvram, menu
    <3>1. held' # held
      BY <2>0
    <3>2. ASSUME NEW r \in Requests, Forget(r) PROVE r = DelOf(l)
      BY <2>0, <3>2 DEF Forget, Shapes, HeldShape
    <3>3. DelOf(l) \notin SwitchRequests /\ DelOf(l) # "MokPW" /\ \A k \in Lists : DelOf(l) # NewOf(k)
      BY DEF Lists, DelOf, NewOf, SwitchRequests
    <3>4. \A k \in Lists : DelOf(k) = DelOf(l) => k = l
      BY DEF Lists, DelOf
    <3>5. ~(OsRequest \/ OsAuth \/ OsReboot \/ CheckMokRequest \/ Take \/ EnterMenu \/ StayOut)
      BY <2>0 DEF OsRequest, OsAuth, OsReboot, CheckMokRequest, Take, EnterMenu, StayOut
    <3>6. ~(Scan \/ Overrun \/ MenuNoMemory \/ Again \/ DeletionAborts \/ WriteFails \/ EnrollFromDisk \/ MenuBoot)
      BY <3>1 DEF Scan, Overrun, MenuNoMemory, Again, DeletionAborts, WriteFails, EnrollFromDisk, MenuBoot
    <3>7. ~(Reset \/ Return \/ PowerCycle)
      BY <2>0 DEF Reset, Return, PowerCycle
    <3>8. \A k \in Lists : ~mok_reset_prompt(k) /\ ~DeletionErases(k)
      BY <3>1 DEF mok_reset_prompt, DeletionErases
    <3>9. \A k \in Lists : ~mok_enrollment_prompt(k)
      BY <3>2, <3>3, RequestNames DEF mok_enrollment_prompt
    <3>10. \A r \in SwitchRequests : ~SwitchPrompt(r)
      BY <3>1, <3>2, <3>3, RequestNames DEF SwitchPrompt
    <3>11. ~mok_pw_prompt
      BY <3>2, <3>3, RequestNames DEF mok_pw_prompt
    <3>12. PICK k \in Lists : mok_deletion_prompt(k)
      BY <3>5, <3>6, <3>7, <3>8, <3>9, <3>10, <3>11 DEF Next
    <3>13. Forget(DelOf(k))
      BY <3>12 DEF mok_deletion_prompt
    <3> QED
      BY <3>2, <3>4, <3>12, <3>13, RequestNames
  <2>2. auth[DelAuthOf(l)] # "odd" /\ ~Fault("set")
    <3>1. auth[DelAuthOf(l)] # "odd"
      BY <2>0 DEF Valid
    <3>2. faults \in Nat
      BY DEF CleanInv
    <3>3. ~Fault("set")
      BY <2>0, <3>2 DEF Fault
    <3> QED
      BY <3>1, <3>3
  <2>3. PICK w : /\ w.nodes = Remaining(lists[l].nodes, held[DelOf(l)])
                 /\ lists' = [lists EXCEPT ![l] = w]
    BY <2>1, <2>2, DeletionLeaves DEF Shapes, KeysInv
  <2>4. lists'[l].nodes = Remaining(lists[l].nodes, held[DelOf(l)])
    <3>1. lists = [k \in Lists |-> lists[k]]
      BY DEF Shapes, ListsShape
    <3> QED
      BY <2>3, <3>1
  <2>5. lists[l].nodes \in Seq(Node) /\ held[DelOf(l)] \in Seq(Node)
    BY ListRequests DEF KeysInv, ListKeys
  <2>6. \A t : Ids(lists'[l].nodes, t) = Ids(lists[l].nodes, t) \ Ids(held[DelOf(l)], t)
    BY <2>4, <2>5, RemainingFacts
  <2> QED
    BY <2>6 DEF DeletesExactly
<1>3. Shapes /\ CleanInv /\ [Next]_vars => CleanInv'
  BY CleanStep DEF Shapes
<1>4. Shapes /\ KeysInv /\ [Next]_vars => KeysInv'
  BY ReqKeysStep, HeldKeysStep, ListKeysStep DEF Shapes, KeysInv
<1> QED
  BY <1>1, <1>2, <1>3, <1>4, ShapesHold, PTL DEF Spec, DeletesWhatIsNamed
=============================================================================
