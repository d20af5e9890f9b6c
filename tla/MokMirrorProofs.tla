--------------------------- MODULE MokMirrorProofs ---------------------------
(* What the import of the MOK state guarantees, for every stored content,  *)
(* firmware and sequence of failures.                                      *)
EXTENDS MokMirror, SequenceTheorems, FiniteSetTheorems, WellFoundedInduction, TLAPS

---------------------------------------------------------------------------
(* The table of variables                                                  *)

LEMMA OrderFacts ==
    /\ DOMAIN Order = 1 .. 7 /\ Len(Order) = 7
    /\ Order[1] = "MokList" /\ Order[2] = "MokListX" /\ Order[3] = "MokSBState"
    /\ Order[4] = "MokDBState" /\ Order[5] = "SbatLevel" /\ Order[6] = "MokListTrusted"
    /\ Order[7] = "MokPolicy"
  BY DEF Order

LEMMA OrderInjective == \A i, j \in 1 .. 7 : Order[i] = Order[j] => i = j
<1> SUFFICES ASSUME NEW i \in 1 .. 7, NEW j \in 1 .. 7, i # j PROVE Order[i] # Order[j]
  OBVIOUS
<1>1. i \in {1, 2, 3, 4, 5, 6, 7} /\ j \in {1, 2, 3, 4, 5, 6, 7}
  OBVIOUS
<1> QED
  BY <1>1, OrderFacts

LEMMA VarsFacts ==
    /\ \A k \in 1 .. 7 : Order[k] \in Vars
    /\ \A v \in Vars : \E k \in 1 .. 7 : Order[k] = v
    /\ KeyDb \subseteq Vars /\ HasState \subseteq Vars /\ DeleteFirst \subseteq Vars
<1>1. Vars = {Order[k] : k \in 1 .. 7}
  BY OrderFacts DEF Vars, Range
<1>2. 1 \in 1 .. 7 /\ 2 \in 1 .. 7 /\ 3 \in 1 .. 7 /\ 4 \in 1 .. 7 /\ 5 \in 1 .. 7
      /\ 6 \in 1 .. 7 /\ 7 \in 1 .. 7
  OBVIOUS
<1>3. KeyDb \subseteq Vars
  BY <1>1, <1>2, OrderFacts DEF KeyDb
<1>4. HasState \subseteq Vars
  BY <1>1, <1>2, OrderFacts DEF HasState
<1> QED
  BY <1>1, <1>3, <1>4 DEF DeleteFirst

---------------------------------------------------------------------------
(* The shape of a step                                                     *)

ImportStep == NothingToRead \/ DefaultInverse \/ ReadGood \/ DeleteBad \/ DeleteBadFails

MirrorStep ==
    \/ DeleteRt \/ Fill \/ SetPlain \/ MirrorWhole \/ QueryFails \/ Split
    \/ MirrorEsl \/ LoopDone \/ MirrorEnd \/ Measure \/ Log \/ Settle

LEMMA NextSplits ==
    Next <=> \/ ImportStep \/ MirrorStep \/ CombineOne \/ NextVariable \/ InstallTable
             \/ CheckMokRequest \/ Decide \/ Finished
  BY Zenon DEF Next, ImportStep, MirrorStep

Filled == {"set", "db", "loop", "end", "measure", "log", "settle"}
Mirroring == {"delete", "fill"} \cup Filled
Importing == Mirroring \cup {"import", "combine", "next"}
AfterPasses == {"request", "decide", "boot", "dead"}

LEMMA FaultGrows ==
    /\ \A x : Fault(x) => trouble \subseteq trouble' /\ x \in trouble'
    /\ Ok => trouble' = trouble
  BY DEF Fault, Ok

LEMMA SetVariableGrows ==
    ASSUME NEW x, NEW n, NEW s, SetVariable(x, n, s)
    PROVE  trouble \subseteq trouble'
  BY FaultGrows DEF SetVariable

(* A step of mirror_one_mok_variable works on the variable in hand.        *)
LEMMA MirrorFrame ==
    ASSUME MirrorStep
    PROVE  /\ pc \in Mirroring /\ pc' \in Mirroring \cup {"combine"} /\ pc' # "delete"
           /\ UNCHANGED <<conf, nv, state, table, pass, cur, one, ret>>
           /\ trouble \subseteq trouble' /\ measured \subseteq measured'
<1> USE DEF boot, loop, Mirroring, Filled
<1>1. CASE DeleteRt
  BY <1>1, FaultGrows DEF DeleteRt
<1>2. CASE Fill
  BY <1>2, FaultGrows DEF Fill
<1>3. CASE SetPlain
  BY <1>3, SetVariableGrows DEF SetPlain
<1>4. CASE MirrorWhole
  BY <1>4, SetVariableGrows, FaultGrows DEF MirrorWhole
<1>5. CASE QueryFails
  BY <1>5, FaultGrows DEF QueryFails
<1>6. CASE Split
  BY <1>6, FaultGrows DEF Split
<1>7. CASE MirrorEsl
  <2>1. EslNext /\ pc = "loop" /\ UNCHANGED <<conf, boot, pass, cur, one, ret, full>>
    BY <1>7 DEF MirrorEsl
  <2>2. trouble \subseteq trouble' /\ pc' \in {pc, "end", "loop"}
    <3>1. \/ trouble' = trouble \union {"skipped"}
          \/ Ok
          \/ \E x, n, s : SetVariable(x, n, s)
          \/ \E x : Fault(x)
      BY <2>1 DEF EslNext
    <3>2. pc' = pc \/ pc' \in {"end", "loop"}
      BY <2>1 DEF EslNext
    <3> QED
      BY <3>1, <3>2, SetVariableGrows, FaultGrows
  <2> QED
    BY <2>1, <2>2
<1>8. CASE LoopDone
  BY <1>8, FaultGrows DEF LoopDone
<1>9. CASE MirrorEnd
  BY <1>9, SetVariableGrows, FaultGrows DEF MirrorEnd
<1>10. CASE Measure
  BY <1>10, FaultGrows DEF Measure
<1>11. CASE Log
  BY <1>11, FaultGrows DEF Log
<1>12. CASE Settle
  BY <1>12, FaultGrows DEF Settle
<1> QED
  BY <1>1, <1>2, <1>3, <1>4, <1>5, <1>6, <1>7, <1>8, <1>9, <1>10, <1>11, <1>12 DEF MirrorStep

(* Only the first and the last of them touch v->data.                      *)
LEMMA MirrorData ==
    ASSUME MirrorStep
    PROVE  \/ data' = data
           \/ Fill /\ data' = [data EXCEPT ![Cur] = <<>>]
           \/ Settle /\ data' = [data EXCEPT ![Cur] = full]
<1> USE DEF boot
<1>1. CASE DeleteRt \/ SetPlain \/ MirrorWhole \/ QueryFails \/ Split
  BY <1>1 DEF DeleteRt, SetPlain, MirrorWhole, QueryFails, Split
<1>2. CASE MirrorEsl \/ LoopDone \/ MirrorEnd \/ Measure \/ Log
  BY <1>2 DEF MirrorEsl, LoopDone, MirrorEnd, Measure, Log
<1>3. CASE Fill
  BY <1>3 DEF Fill
<1>4. CASE Settle
  BY <1>4 DEF Settle
<1> QED
  BY <1>1, <1>2, <1>3, <1>4 DEF MirrorStep

---------------------------------------------------------------------------
(* The two passes                                                          *)

ShapeInv ==
    /\ pc \in Importing \cup {"table"} \cup AfterPasses
    /\ pass \in {1, 2} /\ cur \in 1 .. 7
    /\ pc = "table" => pass = 1 /\ cur = 1
    /\ pc \in AfterPasses => pass = 2
    /\ conf \in Configs
    /\ DOMAIN nv = Vars
    /\ data = [v \in Vars |-> data[v]]
    /\ state = [v \in HasState |-> state[v]]

LEMMA ImportFrame ==
    ASSUME ImportStep
    PROVE  /\ pc = "import" /\ pc' \in {"delete", "next"}
           /\ UNCHANGED <<conf, state, measured, table, rt, pass, cur, status, ret, loop>>
           /\ trouble \subseteq trouble'
           /\ nv' = nv \/ nv' = [nv EXCEPT ![Cur] = Absent]
           /\ data' = data \/ \E d : data' = [data EXCEPT ![Cur] = d]
<1> USE FaultGrows DEF boot, loop
<1>1. CASE NothingToRead
  BY <1>1 DEF NothingToRead
<1>2. CASE DefaultInverse
  BY <1>2 DEF DefaultInverse, Reading
<1>3. CASE ReadGood
  <2>1. pc = "import" /\ Ok /\ pc' = "delete"
    BY <1>3 DEF ReadGood, Reading
  <2>2. \E d : data' = [data EXCEPT ![Cur] = d]
    BY <1>3 DEF ReadGood
  <2> QED
    BY <1>3, <2>1, <2>2 DEF ReadGood
<1>4. CASE DeleteBad \/ DeleteBadFails
  BY <1>4 DEF DeleteBad, DeleteBadFails, Reading
<1> QED
  BY <1>1, <1>2, <1>3, <1>4 DEF ImportStep

LEMMA ShapeInit == Init => ShapeInv
<1> SUFFICES ASSUME Init PROVE ShapeInv
  OBVIOUS
<1>1. DOMAIN nv = Vars
  BY ConfigsAssumption DEF Init
<1>2. data = [v \in Vars |-> data[v]] /\ state = [v \in HasState |-> state[v]]
  BY DEF Init
<1>3. pc = "import" /\ pass = 1 /\ cur = 1 /\ conf \in Configs
  BY DEF Init
<1>4. pc \in Importing /\ pc # "table" /\ pc \notin AfterPasses
  BY <1>3 DEF Importing, AfterPasses
<1> QED
  BY <1>1, <1>2, <1>3, <1>4 DEF ShapeInv

LEMMA ShapeStep == ShapeInv /\ [Next]_vars => ShapeInv'
<1> SUFFICES ASSUME ShapeInv, [Next]_vars PROVE ShapeInv'
  OBVIOUS
<1> USE DEF ShapeInv, Importing, Mirroring, Filled, AfterPasses
<1>0. \A d : DOMAIN [nv EXCEPT ![Cur] = d] = Vars
  OBVIOUS
<1>a. \A d : [data EXCEPT ![Cur] = d] = [v \in Vars |-> [data EXCEPT ![Cur] = d][v]]
  OBVIOUS
<1>1. CASE ImportStep
  BY <1>1, <1>0, <1>a, ImportFrame
<1>2. CASE MirrorStep
  <2>1. data' = [v \in Vars |-> data'[v]]
    BY <1>2, <1>a, MirrorData
  <2> QED
    BY <1>2, <2>1, MirrorFrame
<1>3. CASE CombineOne
  <2>1. /\ pc' = "next" /\ UNCHANGED <<conf, nv, data, pass, cur>>
        /\ state' = state \/ \E d : state' = [state EXCEPT ![Cur] = d]
    BY <1>3 DEF CombineOne
  <2>2. \A d : [state EXCEPT ![Cur] = d] = [v \in HasState |-> [state EXCEPT ![Cur] = d][v]]
    OBVIOUS
  <2> QED
    BY <2>1, <2>2
<1>4. CASE NextVariable
  <2>1. /\ UNCHANGED <<conf, nv, data, state, pass>>
        /\ \/ cur < 7 /\ cur' = cur + 1 /\ pc' = "import"
           \/ cur' = 1 /\ pc' = IF pass = 1 THEN "table" ELSE "request"
    BY <1>4, OrderFacts DEF NextVariable, boot
  <2> QED
    BY <2>1
<1>5. CASE InstallTable
  BY <1>5 DEF InstallTable
<1>6. CASE CheckMokRequest \/ Decide
  BY <1>6 DEF CheckMokRequest, Decide, boot
<1>7. CASE Finished \/ UNCHANGED vars
  BY <1>7 DEF Finished, vars
<1> QED
  BY <1>1, <1>2, <1>3, <1>4, <1>5, <1>6, <1>7, NextSplits

---------------------------------------------------------------------------
(* Variables with the wrong attributes                                     *)

(* In the first pass nothing has been read of the variables to come.       *)
Ahead(k) == k > cur \/ (k = cur /\ pc = "import")
FirstPass == pass = 1 /\ pc # "table"

FreshInv == FirstPass => \A k \in 1 .. 7 : Ahead(k) => data[Order[k]] = <<>>

LEMMA FreshStep == ShapeInv /\ FreshInv /\ [Next]_vars => FreshInv'
<1> SUFFICES ASSUME ShapeInv, FreshInv, [Next]_vars PROVE FreshInv'
  OBVIOUS
<1> USE DEF FreshInv, FirstPass, Ahead
<1>0. \A d, k : k \in 1 .. 7 /\ k > cur => [data EXCEPT ![Cur] = d][Order[k]] = data[Order[k]]
  <2> TAKE d, k
  <2>1. ASSUME k \in 1 .. 7, k > cur PROVE Order[k] # Cur /\ Order[k] \in DOMAIN data
    BY <2>1, OrderInjective, VarsFacts DEF Cur, ShapeInv
  <2> QED
    BY <2>1
<1>1. CASE ImportStep
  <2>1. /\ pc = "import" /\ pc' # "import" /\ UNCHANGED <<pass, cur>>
        /\ data' = data \/ \E d : data' = [data EXCEPT ![Cur] = d]
    BY <1>1, ImportFrame
  <2>2. \A k \in 1 .. 7 : k > cur => data'[Order[k]] = data[Order[k]]
    <3>1. CASE data' = data
      BY <3>1
    <3>2. CASE \E d : data' = [data EXCEPT ![Cur] = d]
      <4>1. PICK d : data' = [data EXCEPT ![Cur] = d]
        BY <3>2
      <4> QED
        BY <1>0, <4>1, Zenon
    <3> QED
      BY <3>1, <3>2, <2>1
  <2> SUFFICES ASSUME FirstPass', NEW k \in 1 .. 7, k > cur PROVE data'[Order[k]] = <<>>
    BY <2>1
  <2> QED
    BY <2>1, <2>2
<1>2. CASE MirrorStep
  <2>1. /\ pc # "import" /\ pc # "table" /\ pc' # "import" /\ UNCHANGED <<pass, cur>>
    BY <1>2, MirrorFrame DEF Mirroring, Filled
  <2>2. data' = data \/ \E d : data' = [data EXCEPT ![Cur] = d]
    BY <1>2, MirrorData
  <2>3. \A k \in 1 .. 7 : k > cur => data'[Order[k]] = data[Order[k]]
    <3>1. CASE data' = data
      BY <3>1
    <3>2. CASE \E d : data' = [data EXCEPT ![Cur] = d]
      <4>1. PICK d : data' = [data EXCEPT ![Cur] = d]
        BY <3>2
      <4> QED
        BY <1>0, <4>1, Zenon
    <3> QED
      BY <3>1, <3>2, <2>2
  <2> SUFFICES ASSUME FirstPass', NEW k \in 1 .. 7, k > cur PROVE data'[Order[k]] = <<>>
    BY <2>1
  <2> QED
    BY <2>1, <2>3
<1>3. CASE CombineOne
  BY <1>3 DEF CombineOne
<1>4. CASE NextVariable
  <2>1. UNCHANGED <<data, pass>> /\ pc = "next"
    BY <1>4 DEF NextVariable, boot
  <2>2. CASE cur < 7 /\ cur' = cur + 1 /\ pc' = "import"
    BY <2>1, <2>2 DEF ShapeInv
  <2>3. CASE pc' = IF pass = 1 THEN "table" ELSE "request"
    BY <2>1, <2>3
  <2> QED
    BY <1>4, <2>2, <2>3, OrderFacts DEF NextVariable
<1>5. CASE InstallTable \/ CheckMokRequest \/ Decide
  BY <1>5 DEF InstallTable, CheckMokRequest, Decide, boot, ShapeInv, AfterPasses
<1>6. CASE Finished \/ UNCHANGED vars
  BY <1>6 DEF Finished, vars
<1> QED
  BY <1>1, <1>2, <1>3, <1>4, <1>5, <1>6, NextSplits

(* A variable with the wrong attributes is still to come, or its removal   *)
(* has failed, and the security violation is on its way into ret.          *)
BadInv ==
    /\ \A k \in 1 .. 7 :
          nv[Order[k]].here /\ ~nv[Order[k]].good =>
             \/ ret = "SECURITY_VIOLATION"
             \/ FirstPass /\ (Ahead(k) \/ (k = cur /\ one = "SECURITY_VIOLATION"))
    /\ pc = "boot" => ret # "SECURITY_VIOLATION"

LEMMA CombineKeeps ==
    \A s : /\ Combine("SECURITY_VIOLATION", s) = "SECURITY_VIOLATION"
           /\ Combine(s, "SECURITY_VIOLATION") = "SECURITY_VIOLATION"
           /\ \A r : r # "SUCCESS" \/ s # "SUCCESS" => Combine(r, s) # "SUCCESS"
  BY DEF Combine

LEMMA BadStep == ShapeInv /\ FreshInv /\ BadInv /\ [Next]_vars => BadInv'
<1> SUFFICES ASSUME ShapeInv, FreshInv, BadInv, [Next]_vars PROVE BadInv'
  OBVIOUS
<1> DEFINE Bad(k) == nv[Order[k]].here /\ ~nv[Order[k]].good
<1>1. CASE ImportStep
  <2>1. /\ pc = "import" /\ pc' \in {"delete", "next"} /\ UNCHANGED <<pass, cur, ret>>
        /\ nv' = nv \/ nv' = [nv EXCEPT ![Cur] = Absent]
    BY <1>1, ImportFrame
  <2> SUFFICES ASSUME NEW k \in 1 .. 7, Bad(k)', ret # "SECURITY_VIOLATION"
               PROVE  FirstPass' /\ (Ahead(k)' \/ (k = cur /\ one' = "SECURITY_VIOLATION"))
    BY <2>1 DEF BadInv
  <2>2. nv'[Order[k]] = nv[Order[k]] \/ (nv'[Order[k]] = Absent /\ Order[k] = Cur)
    BY <2>1, VarsFacts DEF ShapeInv
  <2>3. Bad(k) /\ (nv'[Order[k]] = nv[Order[k]])
    BY <2>2 DEF Absent
  <2>4. FirstPass /\ Ahead(k) /\ pass = 1
    BY <2>1, <2>3 DEF BadInv, FirstPass, Ahead
  <2>5. CASE k > cur
    BY <2>1, <2>4, <2>5 DEF FirstPass, Ahead
  <2>6. CASE k = cur
    <3>1. data[Cur] = <<>> /\ nv[Cur].here /\ ~nv[Cur].good
      BY <2>3, <2>4, <2>6 DEF FreshInv, Cur
    <3>2. ~NothingToRead /\ ~DefaultInverse /\ ~ReadGood
      BY <3>1 DEF NothingToRead, DefaultInverse, ReadGood, Acceptable
    <3>3. ~DeleteBad
      <4> SUFFICES ASSUME DeleteBad PROVE FALSE
        OBVIOUS
      <4>1. nv'[Cur] = Absent
        BY <2>6, VarsFacts DEF DeleteBad, ShapeInv, Cur
      <4> QED
        BY <2>6, <4>1 DEF Absent, Cur
    <3>4. one' = "SECURITY_VIOLATION"
      BY <1>1, <3>2, <3>3 DEF ImportStep, DeleteBadFails
    <3> QED
      BY <2>1, <2>4, <2>6, <3>4 DEF FirstPass
  <2> QED
    BY <2>4, <2>5, <2>6 DEF Ahead
<1>2. CASE MirrorStep
  <2>1. /\ UNCHANGED <<nv, pass, cur, one, ret>>
        /\ pc # "import" /\ pc' \notin {"import", "table", "boot"}
    BY <1>2, MirrorFrame DEF Mirroring, Filled
  <2> QED
    BY <2>1 DEF BadInv, FirstPass, Ahead
<1>3. CASE CombineOne
  <2>1. /\ pc = "combine" /\ pc' = "next" /\ UNCHANGED <<nv, pass, cur, ret>>
        /\ one' = Combine(one, status)
    BY <1>3 DEF CombineOne
  <2> QED
    BY <2>1, CombineKeeps DEF BadInv, FirstPass, Ahead
<1>4. CASE NextVariable
  <2>1. /\ pc = "next" /\ pc' # "boot" /\ UNCHANGED <<nv, pass>>
        /\ ret' = IF pass = 1 THEN Combine(ret, one) ELSE ret
        /\ \/ cur < 7 /\ cur' = cur + 1 /\ pc' = "import"
           \/ cur = 7 /\ pc' = IF pass = 1 THEN "table" ELSE "request"
    BY <1>4, OrderFacts DEF NextVariable, boot
  <2> SUFFICES ASSUME NEW k \in 1 .. 7, Bad(k), ret' # "SECURITY_VIOLATION"
               PROVE  FirstPass' /\ Ahead(k)'
    BY <2>1 DEF BadInv
  <2>2. pass = 1 /\ ret # "SECURITY_VIOLATION" /\ one # "SECURITY_VIOLATION"
    BY <2>1, CombineKeeps DEF BadInv, FirstPass
  <2>3. k > cur
    BY <2>1, <2>2 DEF BadInv, Ahead
  <2> QED
    BY <2>1, <2>2, <2>3 DEF FirstPass, Ahead, ShapeInv
<1>5. CASE InstallTable
  BY <1>5 DEF InstallTable, BadInv, FirstPass
<1>6. CASE CheckMokRequest
  BY <1>6, CombineKeeps DEF CheckMokRequest, boot, BadInv, FirstPass, ShapeInv, AfterPasses
<1>7. CASE Decide
  BY <1>7 DEF Decide, boot, BadInv, FirstPass, ShapeInv, AfterPasses
<1>8. CASE Finished \/ UNCHANGED vars
  BY <1>8 DEF Finished, vars, BadInv, FirstPass, Ahead
<1> QED
  BY <1>1, <1>2, <1>3, <1>4, <1>5, <1>6, <1>7, <1>8, NextSplits

(* No boot goes on with a variable of the wrong attributes left behind.    *)
THEOREM NoBadVariableLeft == Spec => []NoBadLeft
<1>1. Init => FreshInv /\ BadInv
  <2> SUFFICES ASSUME Init PROVE FreshInv /\ BadInv
    OBVIOUS
  <2>1. cur = 1 /\ pass = 1 /\ pc = "import" /\ \A k \in 1 .. 7 : data[Order[k]] = <<>>
    BY VarsFacts DEF Init
  <2>2. \A k \in 1 .. 7 : Ahead(k)
    BY <2>1 DEF Ahead
  <2> QED
    BY <2>1, <2>2 DEF FreshInv, BadInv, FirstPass
<1>2. BadInv /\ ShapeInv => NoBadLeft
  <2> SUFFICES ASSUME BadInv, ShapeInv, pc = "boot", NEW v \in Vars, nv[v].here, ~nv[v].good
               PROVE  FALSE
    BY DEF NoBadLeft
  <2>1. PICK k \in 1 .. 7 : Order[k] = v
    BY VarsFacts
  <2> QED
    BY <2>1 DEF BadInv, ShapeInv, FirstPass, AfterPasses
<1> QED
  BY <1>1, <1>2, ShapeInit, ShapeStep, FreshStep, BadStep, PTL DEF Spec

---------------------------------------------------------------------------
(* What the switches are set from                                          *)

(* Variables with nothing prepended and no default.                        *)
Plain == Vars \ (KeyDb \union Inverted)

(* s is empty, or what is stored, with the right attributes, as v.         *)
FromStore(v, s) == s # <<>> => conf.nv[v].here /\ conf.nv[v].good /\ s = conf.nv[v].data

ValueInv ==
    \A v \in Plain :
        /\ nv[v] = conf.nv[v] \/ nv[v] = Absent
        /\ FromStore(v, data[v])
        /\ Cur = v => FromStore(v, full)
        /\ v \in HasState /\ state[v] # 0 => FromStore(v, <<state[v]>>)

LEMMA MirrorFull ==
    ASSUME MirrorStep
    PROVE  full' = full \/ (Fill /\ full' = FullData(Cur))
<1> USE DEF loop
<1>1. CASE DeleteRt \/ SetPlain \/ MirrorWhole \/ QueryFails \/ Split
  BY <1>1 DEF DeleteRt, SetPlain, MirrorWhole, QueryFails, Split
<1>2. CASE MirrorEsl \/ LoopDone \/ MirrorEnd \/ Measure \/ Log
  BY <1>2 DEF MirrorEsl, LoopDone, MirrorEnd, Measure, Log
<1>3. CASE Fill
  BY <1>3 DEF Fill
<1>4. CASE Settle
  BY <1>4 DEF Settle
<1> QED
  BY <1>1, <1>2, <1>3, <1>4 DEF MirrorStep

(* Nothing is added to a plain variable on its way into the buffer.        *)
LEMMA PlainFull ==
    ASSUME conf \in Configs, NEW v \in Plain, ShapeInv, FromStore(v, data[v])
    PROVE  FullData(v) = data[v]
<1>1. v \notin KeyDb /\ v \in Vars
  BY DEF Plain
<1>2. FullData(v) = <<>> \o data[v]
  BY <1>1 DEF FullData, Addend
<1>3. data[v] \in Seq(0 .. 255)
  BY <1>1, ConfigsAssumption, EmptySeq DEF FromStore
<1> QED
  BY <1>2, <1>3, ConcatEmptySeq

LEMMA ValueInit == Init => ValueInv
<1> SUFFICES ASSUME Init, NEW v \in Plain
             PROVE  /\ nv[v] = conf.nv[v] /\ data[v] = <<>> /\ full = <<>>
                    /\ v \in HasState => state[v] = 0
  BY DEF ValueInv, FromStore
<1> QED
  BY DEF Init, Plain

LEMMA ValueStep == ShapeInv /\ ValueInv /\ [Next]_vars => ValueInv'
<1> SUFFICES ASSUME ShapeInv, ValueInv, [Next]_vars, NEW v \in Plain
             PROVE  /\ nv'[v] = conf'.nv[v] \/ nv'[v] = Absent
                    /\ FromStore(v, data[v])'
                    /\ Cur' = v => FromStore(v, full)'
                    /\ v \in HasState /\ state'[v] # 0 => FromStore(v, <<state[v]>>)'
  BY DEF ValueInv
<1>0. /\ v \in Vars /\ v \notin KeyDb /\ v \notin Inverted /\ v \in DOMAIN data
      /\ v \in DOMAIN nv /\ (v \in HasState => v \in DOMAIN state)
      /\ nv[v] = conf.nv[v] \/ nv[v] = Absent
      /\ FromStore(v, data[v]) /\ (Cur = v => FromStore(v, full))
      /\ v \in HasState /\ state[v] # 0 => FromStore(v, <<state[v]>>)
  BY DEF Plain, ShapeInv, ValueInv
<1>1. CASE ImportStep
  <2>1. /\ UNCHANGED <<conf, state, cur, full>>
        /\ nv' = nv \/ nv' = [nv EXCEPT ![Cur] = Absent]
    BY <1>1, ImportFrame DEF loop
  <2>2. nv'[v] = nv[v] \/ nv'[v] = Absent
    BY <1>0, <2>1
  <2>3. FromStore(v, data'[v])
    <3>1. CASE ReadGood /\ Cur = v
      <4>1. data'[v] = nv[v].data /\ nv[v].here /\ nv[v].good
        BY <1>0, <3>1 DEF ReadGood, Acceptable
      <4> QED
        BY <1>0, <4>1 DEF FromStore, Absent
    <3>2. CASE ReadGood /\ Cur # v
      BY <1>0, <3>2 DEF ReadGood
    <3>3. CASE DefaultInverse
      <4>1. Cur # v /\ (data' = data \/ data' = [data EXCEPT ![Cur] = <<1>>])
        BY <1>0, <3>3 DEF DefaultInverse
      <4> QED
        BY <1>0, <4>1
    <3>4. CASE NothingToRead \/ DeleteBad \/ DeleteBadFails
      BY <1>0, <3>4 DEF NothingToRead, DeleteBad, DeleteBadFails, boot
    <3> QED
      BY <1>1, <3>1, <3>2, <3>3, <3>4 DEF ImportStep
  <2> QED
    BY <1>0, <2>1, <2>2, <2>3 DEF FromStore, Cur
<1>2. CASE MirrorStep
  <2>1. UNCHANGED <<conf, nv, state, cur>>
    BY <1>2, MirrorFrame
  <2>2. Cur = v => FromStore(v, full')
    BY <1>0, <1>2, <2>1, MirrorFull, PlainFull DEF ShapeInv
  <2>3. FromStore(v, data'[v])
    <3>1. FromStore(v, <<>>)
      BY DEF FromStore
    <3>2. \/ data'[v] = data[v] \/ data'[v] = <<>>
          \/ Cur = v /\ data'[v] = full
      BY <1>0, <1>2, MirrorData
    <3> QED
      BY <1>0, <3>1, <3>2
  <2> QED
    BY <1>0, <2>1, <2>2, <2>3 DEF FromStore, Cur
<1>3. CASE CombineOne
  <2>1. /\ UNCHANGED <<conf, nv, data, cur, full>>
        /\ state' = IF Cur \in HasState /\ Len(data[Cur]) = 1
                    THEN [state EXCEPT ![Cur] = data[Cur][1]] ELSE state
    BY <1>3 DEF CombineOne, loop
  <2>2. ASSUME v \in HasState, state'[v] # state[v] PROVE FromStore(v, <<state'[v]>>)
    <3>1. Cur = v /\ Len(data[v]) = 1 /\ state'[v] = data[v][1]
      BY <1>0, <2>1, <2>2
    <3>2. data[v] # <<>>
      BY <3>1
    <3>3. data[v] \in Seq(0 .. 255)
      BY <1>0, <3>2, ConfigsAssumption DEF FromStore, ShapeInv
    <3>4. data[v] = <<data[v][1]>>
      BY <3>1, <3>3
    <3> QED
      BY <1>0, <3>1, <3>2, <3>4 DEF FromStore
  <2> QED
    BY <1>0, <2>1, <2>2 DEF FromStore, Cur
<1>4. CASE NextVariable
  <2>1. UNCHANGED <<conf, nv, data, state>> /\ full' = <<>>
    BY <1>4 DEF NextVariable, boot
  <2> QED
    BY <1>0, <2>1 DEF FromStore
<1>5. CASE InstallTable \/ CheckMokRequest \/ Decide \/ Finished \/ UNCHANGED vars
  <2>1. UNCHANGED <<conf, nv, data, state, cur, full>>
    BY <1>5 DEF InstallTable, CheckMokRequest, Decide, Finished, vars, boot, loop
  <2> QED
    BY <1>0, <2>1 DEF FromStore, Cur
<1> QED
  BY <1>1, <1>2, <1>3, <1>4, <1>5, NextSplits

---------------------------------------------------------------------------
(* Turning Secure Boot off is measured                                     *)

Switch == "MokSBState"

(* Nothing is stored that could set it, nothing is held, and it is not set. *)
Harmless ==
    /\ Acceptable(Switch) => nv[Switch].data = <<>>
    /\ data[Switch] = <<>> /\ state[Switch] = 0
    /\ cur = 3 => full = <<>>

(* The first pass has yet to import it, or to measure it, or has failed to *)
(* and ret will say so.                                                    *)
Pending ==
    /\ FirstPass
    /\ \/ cur < 3 /\ state[Switch] = 0
       \/ cur = 3 /\ pc = "import" /\ state[Switch] = 0
       \/ cur = 3 /\ pc \in {"delete", "fill"} /\ data[Switch] # <<>>
       \/ cur = 3 /\ pc \in {"set", "measure"}
       \/ cur = 3 /\ pc = "combine" /\ status # "SUCCESS"
       \/ cur = 3 /\ pc # "import" /\ one # "SUCCESS"

MeasuredInv == Switch \in measured \/ ret # "SUCCESS" \/ Harmless \/ Pending

(* No buffer is left over from the variable before.                        *)
HeldInv == pc \in {"import", "table"} => full = <<>>

LEMMA HeldStep == HeldInv /\ [Next]_vars => HeldInv'
<1> SUFFICES ASSUME HeldInv, [Next]_vars PROVE HeldInv'
  OBVIOUS
<1>1. CASE ImportStep
  BY <1>1, ImportFrame DEF HeldInv
<1>2. CASE MirrorStep
  BY <1>2, MirrorFrame DEF HeldInv, Mirroring, Filled
<1>3. CASE CombineOne \/ CheckMokRequest \/ Decide
  BY <1>3 DEF CombineOne, CheckMokRequest, Decide, HeldInv
<1>4. CASE NextVariable
  BY <1>4 DEF NextVariable, HeldInv
<1>5. CASE InstallTable
  BY <1>5 DEF InstallTable, HeldInv, loop
<1>6. CASE Finished \/ UNCHANGED vars
  BY <1>6 DEF Finished, vars, HeldInv
<1> QED
  BY <1>1, <1>2, <1>3, <1>4, <1>5, <1>6, NextSplits

LEMMA SwitchFacts ==
    /\ Switch \in Plain /\ Switch \in HasState /\ Switch \in Measured /\ Switch \in DeleteFirst
    /\ Order[3] = Switch /\ 3 \in 1 .. 7 /\ Switch \in Vars
    /\ \A k \in 1 .. 7 : Order[k] = Switch => k = 3
<1>1. Order[3] = Switch /\ 3 \in 1 .. 7
  BY OrderFacts DEF Switch
<1>2. Switch \in Vars
  BY <1>1, VarsFacts
<1>3. \A k \in 1 .. 7 : Order[k] = Switch => k = 3
  BY <1>1, OrderInjective
<1> QED
  BY <1>1, <1>2, <1>3 DEF Switch, Plain, KeyDb, Inverted, HasState, Measured, DeleteFirst

LEMMA SwitchInHand ==
    ASSUME ShapeInv, ValueInv
    PROVE  /\ cur \in 1 .. 7 /\ (Cur = Switch <=> cur = 3)
           /\ Switch \in DOMAIN data /\ Switch \in DOMAIN nv /\ Switch \in DOMAIN state
           /\ FullData(Switch) = data[Switch] /\ Addend(Switch) = <<>>
           /\ Switch \notin KeyDb /\ Switch \notin Inverted
<1>1. /\ cur \in 1 .. 7 /\ (Cur = Switch <=> cur = 3)
      /\ Switch \in DOMAIN data /\ Switch \in DOMAIN nv /\ Switch \in DOMAIN state
  BY SwitchFacts DEF Cur, ShapeInv
<1>2. FullData(Switch) = data[Switch]
  BY SwitchFacts, PlainFull DEF ShapeInv, ValueInv
<1> QED
  BY <1>1, <1>2, SwitchFacts DEF Plain, Addend

(* ret does not return to success, and what was measured stays so.         *)
LEMMA ResultsStay ==
    [Next]_vars => measured \subseteq measured' /\ (ret # "SUCCESS" => ret' # "SUCCESS")
<1> SUFFICES ASSUME [Next]_vars
             PROVE  measured \subseteq measured' /\ (ret # "SUCCESS" => ret' # "SUCCESS")
  OBVIOUS
<1>1. CASE ImportStep
  BY <1>1, ImportFrame
<1>2. CASE MirrorStep
  BY <1>2, MirrorFrame
<1>3. CASE CombineOne
  BY <1>3 DEF CombineOne
<1>4. CASE NextVariable
  BY <1>4, CombineKeeps DEF NextVariable, boot
<1>5. CASE InstallTable \/ Decide
  BY <1>5 DEF InstallTable, Decide, boot
<1>6. CASE CheckMokRequest
  BY <1>6, CombineKeeps DEF CheckMokRequest, boot
<1>7. CASE Finished \/ UNCHANGED vars
  BY <1>7 DEF Finished, vars
<1> QED
  BY <1>1, <1>2, <1>3, <1>4, <1>5, <1>6, <1>7, NextSplits

(* import_one_mok_state on it, when it has not been read: it is gone or    *)
(* empty, held, or could not be deleted.                                   *)
LEMMA SwitchImported ==
    ASSUME ShapeInv, ValueInv, ImportStep, cur = 3, data[Switch] = <<>>
    PROVE  /\ pc' = "delete"
           /\ \/ data'[Switch] = <<>> /\ (Acceptable(Switch)' => nv'[Switch].data = <<>>)
              \/ data'[Switch] # <<>> /\ Acceptable(Switch) /\ nv[Switch].data # <<>>
              \/ one' # "SUCCESS" /\ UNCHANGED <<nv, data>>
<1> USE SwitchInHand
<1>1. CASE NothingToRead
  BY <1>1 DEF NothingToRead, Acceptable, boot
<1>2. CASE ReadGood
  BY <1>2 DEF ReadGood, Acceptable
<1>3. CASE DeleteBad
  BY <1>3 DEF DeleteBad, Acceptable, Absent
<1>4. CASE DeleteBadFails
  BY <1>4 DEF DeleteBadFails, boot
<1>5. ~DefaultInverse
  BY DEF DefaultInverse
<1> QED
  BY <1>1, <1>2, <1>3, <1>4, <1>5 DEF ImportStep

LEMMA MeasuredStep ==
    ShapeInv /\ FreshInv /\ ValueInv /\ HeldInv /\ MeasuredInv /\ [Next]_vars => MeasuredInv'
<1> SUFFICES ASSUME ShapeInv, FreshInv, ValueInv, HeldInv, MeasuredInv, [Next]_vars
             PROVE  MeasuredInv'
  OBVIOUS
<1>0. SUFFICES ASSUME Switch \notin measured', ret' = "SUCCESS"
      PROVE  Harmless' \/ Pending'
  BY DEF MeasuredInv, Switch
<1>a. ret = "SUCCESS" /\ Switch \notin measured /\ (Harmless \/ Pending)
  BY <1>0, ResultsStay DEF MeasuredInv
<1> USE SwitchInHand
<1>1. CASE ImportStep
  <2>1. /\ pc = "import" /\ pc' \in {"delete", "next"} /\ full = <<>>
        /\ UNCHANGED <<state, measured, pass, cur, ret, full>>
    BY <1>1, ImportFrame DEF loop, HeldInv
  <2>2. CASE cur # 3
    <3>1. nv'[Switch] = nv[Switch] /\ data'[Switch] = data[Switch]
      <4>1. \A d : /\ [nv EXCEPT ![Cur] = Absent][Switch] = nv[Switch]
                   /\ [data EXCEPT ![Cur] = d][Switch] = data[Switch]
        BY <2>2
      <4> QED
        BY <1>1, <4>1, ImportFrame
    <3>2. Harmless => Harmless'
      BY <2>1, <2>2, <3>1 DEF Harmless, Acceptable
    <3>3. Pending => Pending'
      BY <2>1, <2>2 DEF Pending, FirstPass
    <3> QED
      BY <1>a, <2>1, <3>2, <3>3
  <2>3. CASE cur = 3
    <3>1. data[Switch] = <<>> /\ state[Switch] = 0 /\ (Harmless \/ FirstPass)
      <4>1. FirstPass => data[Switch] = <<>>
        BY <2>1, <2>3, SwitchFacts DEF FreshInv, Ahead
      <4> QED
        BY <1>a, <2>1, <2>3, <4>1 DEF Harmless, Pending
    <3>2. /\ pc' = "delete" /\ UNCHANGED <<state, pass, cur, full>> /\ full = <<>>
          /\ \/ data'[Switch] = <<>> /\ (Acceptable(Switch)' => nv'[Switch].data = <<>>)
             \/ data'[Switch] # <<>> /\ Acceptable(Switch) /\ nv[Switch].data # <<>>
             \/ one' # "SUCCESS" /\ UNCHANGED <<nv, data>>
      BY <1>1, <2>1, <2>3, <3>1, SwitchImported
    <3>3. FirstPass => FirstPass'
      BY <2>1, <3>2 DEF FirstPass
    <3>4. CASE data'[Switch] = <<>> /\ (Acceptable(Switch)' => nv'[Switch].data = <<>>)
      BY <3>1, <3>2, <3>4 DEF Harmless
    <3>5. CASE data'[Switch] # <<>> /\ Acceptable(Switch) /\ nv[Switch].data # <<>>
      BY <2>3, <3>1, <3>2, <3>3, <3>5 DEF Harmless, Pending
    <3>6. CASE one' # "SUCCESS" /\ UNCHANGED <<nv, data>>
      <4>1. Harmless => Harmless'
        BY <3>2, <3>6 DEF Harmless, Acceptable
      <4> QED
        BY <2>3, <3>1, <3>2, <3>3, <3>6, <4>1 DEF Pending
    <3> QED
      BY <3>2, <3>4, <3>5, <3>6
  <2> QED
    BY <2>1, <2>2, <2>3
<1>2. CASE MirrorStep
  <2>1. /\ pc \in Mirroring /\ pc # "import" /\ pc' \notin {"import", "table"}
        /\ UNCHANGED <<nv, state, pass, cur, one, ret>> /\ pc # "table"
    BY <1>2, MirrorFrame DEF Mirroring, Filled
  <2>2. Harmless => Harmless'
    <3>1. ASSUME Harmless PROVE data'[Switch] = <<>> /\ (cur = 3 => full' = <<>>)
      <4>1. Switch \in DOMAIN data /\ data[Switch] = <<>> /\ (cur = 3 => full = <<>>)
        BY <3>1 DEF Harmless
      <4>2. data'[Switch] = <<>>
        BY <1>2, <4>1, MirrorData
      <4>3. cur = 3 => full' = <<>>
        BY <1>2, <4>1, MirrorFull
      <4> QED
        BY <4>2, <4>3
    <3> QED
      BY <2>1, <3>1 DEF Harmless, Acceptable
  <2>3. ASSUME Pending PROVE Harmless' \/ Pending'
    <3>1. FirstPass' /\ pass = 1
      BY <2>1, <2>3 DEF Pending, FirstPass
    <3>2. CASE cur < 3 \/ one # "SUCCESS"
      BY <2>1, <2>3, <3>1, <3>2 DEF Pending
    <3>3. CASE cur = 3 /\ pc \in {"delete", "fill"} /\ data[Switch] # <<>>
      <4>1. CASE DeleteRt
        BY <2>1, <3>1, <3>3, <4>1 DEF DeleteRt, Pending, boot
      <4>2. CASE Fill
        <5>1. Reuse(Cur) /\ FullData(Cur) # <<>> /\ Cur \notin KeyDb
          BY <3>3 DEF Reuse
        <5>2. pc' = "set"
          BY <3>1, <4>2, <5>1 DEF Fill
        <5> QED
          BY <2>1, <3>1, <3>3, <5>2 DEF Pending
      <4> QED
        BY <1>2, <3>3, <4>1, <4>2 DEF MirrorStep, SetPlain, MirrorWhole, QueryFails, Split,
           MirrorEsl, LoopDone, MirrorEnd, Measure, Log, Settle
    <3>4. CASE cur = 3 /\ pc \in {"set", "measure"}
      <4>1. CASE SetPlain
        BY <2>1, <3>1, <3>4, <4>1 DEF SetPlain, Pending
      <4>2. CASE Measure
        <5>1. status' # "SUCCESS" /\ pc' = "combine"
          BY <1>0, <3>1, <3>4, <4>2, SwitchFacts DEF Measure
        <5> QED
          BY <2>1, <3>1, <3>4, <5>1 DEF Pending
      <4> QED
        BY <1>2, <3>4, <4>1, <4>2 DEF MirrorStep, DeleteRt, Fill, MirrorWhole, QueryFails,
           Split, MirrorEsl, LoopDone, MirrorEnd, Log, Settle
    <3> QED
      BY <2>1, <2>3, <3>2, <3>3, <3>4 DEF Pending, Mirroring, Filled
  <2> QED
    BY <1>a, <2>1, <2>2, <2>3
<1>3. CASE CombineOne
  <2>1. /\ pc = "combine" /\ pc' = "next" /\ UNCHANGED <<nv, data, pass, cur, full>>
        /\ one' = Combine(one, status)
        /\ state' = IF Cur \in HasState /\ Len(data[Cur]) = 1
                    THEN [state EXCEPT ![Cur] = data[Cur][1]] ELSE state
    BY <1>3 DEF CombineOne, loop
  <2>2. Harmless => Harmless'
    <3>1. data[Switch] = <<>> \/ cur # 3 => state'[Switch] = state[Switch]
      BY <2>1
    <3> QED
      BY <2>1, <3>1 DEF Harmless, Acceptable
  <2>3. Pending => Pending'
    <3>1. cur # 3 => state'[Switch] = state[Switch]
      BY <2>1
    <3> QED
      BY <2>1, <3>1, CombineKeeps DEF Pending, FirstPass
  <2> QED
    BY <1>a, <2>1, <2>2, <2>3
<1>4. CASE NextVariable
  <2>1. /\ pc = "next" /\ UNCHANGED <<nv, data, state, pass>> /\ full' = <<>>
        /\ ret' = IF pass = 1 THEN Combine(ret, one) ELSE ret
        /\ \/ cur < 7 /\ cur' = cur + 1 /\ pc' = "import"
           \/ cur = 7 /\ pc' = IF pass = 1 THEN "table" ELSE "request"
    BY <1>4, OrderFacts DEF NextVariable, boot
  <2>2. Harmless => Harmless'
    BY <2>1 DEF Harmless, Acceptable
  <2>3. ASSUME Pending PROVE Pending'
    <3>1. pass = 1 /\ one = "SUCCESS"
      BY <1>0, <2>1, <2>3, CombineKeeps DEF Pending, FirstPass
    <3>2. cur < 3 /\ state[Switch] = 0
      BY <2>1, <2>3, <3>1 DEF Pending
    <3> QED
      BY <2>1, <3>1, <3>2 DEF Pending, FirstPass
  <2> QED
    BY <1>a, <2>1, <2>2, <2>3
<1>5. CASE InstallTable
  <2>1. /\ ~FirstPass /\ UNCHANGED <<nv, data, state, cur, full>> /\ full = <<>>
    BY <1>5 DEF InstallTable, FirstPass, loop, HeldInv
  <2> QED
    BY <1>a, <2>1 DEF Harmless, Pending, Acceptable
<1>6. CASE CheckMokRequest \/ Decide
  <2>1. /\ pc \in AfterPasses /\ UNCHANGED <<nv, data, state, cur, full>> /\ pc' \notin {"import", "table"}
    BY <1>6 DEF CheckMokRequest, Decide, boot, loop, AfterPasses
  <2> QED
    BY <1>a, <2>1 DEF Harmless, Pending, Acceptable, ShapeInv, FirstPass
<1>7. CASE Finished \/ UNCHANGED vars
  <2>1. UNCHANGED vars
    BY <1>7 DEF Finished
  <2> QED
    BY <1>a, <2>1 DEF vars, Harmless, Pending, Acceptable, FirstPass, MeasuredInv
<1> QED
  BY <1>1, <1>2, <1>3, <1>4, <1>5, <1>6, <1>7, NextSplits

(* A variable with the wrong attributes neither survives the import nor    *)
(* takes effect: the switches have the values that were stored with the    *)
(* right ones, and the one that turns Secure Boot off was measured.        *)
THEOREM BadOnesAreRefused == Spec => []BadVariablesRefused
<1>1. Init => MeasuredInv /\ HeldInv
  <2> SUFFICES ASSUME Init PROVE MeasuredInv /\ HeldInv
    OBVIOUS
  <2>1. pc = "import" /\ pass = 1 /\ cur = 1 /\ full = <<>> /\ state[Switch] = 0
    BY SwitchFacts DEF Init
  <2> QED
    BY <2>1 DEF MeasuredInv, HeldInv, Pending, FirstPass
<1>2. Init => FreshInv
  <2> SUFFICES ASSUME Init, NEW k \in 1 .. 7 PROVE data[Order[k]] = <<>>
    BY DEF FreshInv
  <2> QED
    BY VarsFacts DEF Init
<1>3. ShapeInv /\ ValueInv /\ MeasuredInv => SwitchesEarned
  <2> SUFFICES ASSUME ShapeInv, ValueInv, MeasuredInv PROVE SwitchesEarned
    OBVIOUS
  <2>1. \A v \in HasState \ Inverted :
           state[v] # 0 => conf.nv[v].here /\ conf.nv[v].good /\ conf.nv[v].data = <<state[v]>>
    <3> SUFFICES ASSUME NEW v \in HasState \ Inverted, state[v] # 0
                 PROVE  conf.nv[v].here /\ conf.nv[v].good /\ conf.nv[v].data = <<state[v]>>
      OBVIOUS
    <3>1. v \in Plain
      BY VarsFacts DEF Plain, HasState, KeyDb
    <3>2. FromStore(v, <<state[v]>>)
      BY <3>1 DEF ValueInv
    <3> QED
      BY <3>2 DEF FromStore
  <2>2. ASSUME Done, ret = "SUCCESS", state["MokSBState"] # 0 PROVE "MokSBState" \in measured
    <3>1. ~Pending /\ ~Harmless
      BY <2>2 DEF Done, Pending, Harmless, Switch, FirstPass, ShapeInv, AfterPasses
    <3> QED
      BY <2>2, <3>1 DEF MeasuredInv, Switch
  <2> QED
    BY <2>1, <2>2 DEF SwitchesEarned
<1>4. Spec => [](ShapeInv /\ ValueInv /\ MeasuredInv)
  BY <1>1, <1>2, ShapeInit, ShapeStep, FreshStep, ValueInit, ValueStep, HeldStep,
     MeasuredStep, PTL DEF Spec
<1>5. Spec => []SwitchesEarned
  BY <1>3, <1>4, PTL
<1>6. BadVariablesRefused <=> NoBadLeft /\ SwitchesEarned
  BY DEF BadVariablesRefused
<1> QED
  BY <1>5, <1>6, NoBadVariableLeft, PTL

---------------------------------------------------------------------------
(* The volatile copies                                                     *)

Shims(x) == Present(x) /\ rt[x].ours

(* SetVariable replaces no variable of shim's by one of someone else's.    *)
LEMMA SetVariableCopies ==
    ASSUME NEW x, NEW n, NEW s, SetVariable(x, n, s)
    PROVE  /\ status' = "SUCCESS" => Shims(x)'
           /\ \A y : Shims(y) => Shims(y)'
           /\ \A y : Present(y)' => Shims(y)' \/ (Present(y) /\ rt'[y] = rt[y])
<1>1. \/ /\ rt' = [y \in DOMAIN rt \union {x} |->
                    IF y = x THEN [size |-> n, sigs |-> s, ours |-> TRUE] ELSE rt[y]]
      \/ rt' = rt /\ status' # "SUCCESS"
  BY DEF SetVariable, Fault
<1> QED
  BY <1>1 DEF Shims, Present

(* What one step of the copying does to the volatile variables.            *)
LEMMA MirrorCopies ==
    ASSUME MirrorStep
    PROVE  \/ UNCHANGED rt
           \/ \E x, n, s : SetVariable(x, n, s)
           \/ /\ DeleteRt /\ pass = 1 /\ Cur \in DeleteFirst
              /\ rt' = [x \in DOMAIN rt \ {<<Cur, 0>>} |-> rt[x]]
<1>1. CASE DeleteRt
  BY <1>1 DEF DeleteRt
<1>2. CASE Fill \/ QueryFails \/ Split \/ LoopDone \/ Measure \/ Log \/ Settle
  BY <1>2 DEF Fill, QueryFails, Split, LoopDone, Measure, Log, Settle
<1>3. CASE SetPlain
  BY <1>3 DEF SetPlain
<1>4. CASE MirrorWhole
  BY <1>4 DEF MirrorWhole
<1>5. CASE MirrorEsl
  <2>1. EslNext
    BY <1>5 DEF MirrorEsl
  <2> QED
    BY <2>1 DEF EslNext
<1>6. CASE MirrorEnd
  BY <1>6 DEF MirrorEnd
<1> QED
  BY <1>1, <1>2, <1>3, <1>4, <1>5, <1>6 DEF MirrorStep

(* A copy of shim's is lost only to be made anew.                          *)
LEMMA CopiesStay ==
    ASSUME [Next]_vars, NEW v, Shims(<<v, 0>>)
    PROVE  Shims(<<v, 0>>)' \/ (DeleteRt /\ pass = 1 /\ Cur = v)
<1>1. CASE ImportStep
  BY <1>1, ImportFrame DEF Shims, Present
<1>2. CASE MirrorStep
  <2>1. CASE UNCHANGED rt
    BY <2>1 DEF Shims, Present
  <2>2. CASE \E x, n, s : SetVariable(x, n, s)
    BY <2>2, SetVariableCopies
  <2>3. CASE /\ DeleteRt /\ pass = 1 /\ Cur \in DeleteFirst
             /\ rt' = [x \in DOMAIN rt \ {<<Cur, 0>>} |-> rt[x]]
    BY <2>3 DEF Shims, Present
  <2> QED
    BY <1>2, <2>1, <2>2, <2>3, MirrorCopies
<1>3. CASE CombineOne \/ NextVariable \/ InstallTable \/ CheckMokRequest \/ Decide
           \/ Finished \/ UNCHANGED vars
  <2>1. UNCHANGED rt
    BY <1>3 DEF CombineOne, NextVariable, InstallTable, CheckMokRequest, Decide, Finished, vars
  <2> QED
    BY <2>1 DEF Shims, Present
<1> QED
  BY <1>1, <1>2, <1>3, NextSplits

(* A copy left by someone else under the name of v, and what excuses it.   *)
Foreign(v) == Present(<<v, 0>>) /\ ~rt[<<v, 0>>].ours

Excused(v) == "delete" \in trouble \/ (v \in Inverted /\ "nomem" \in trouble)

ForeignInv ==
    \A k \in 1 .. 7 :
        Order[k] \in DeleteFirst /\ Foreign(Order[k]) =>
           \/ Excused(Order[k])
           \/ FirstPass /\ (k > cur \/ (k = cur /\ pc \in {"import", "delete"}))

LEMMA ForeignStep == ShapeInv /\ ForeignInv /\ [Next]_vars => ForeignInv'
<1> SUFFICES ASSUME ShapeInv, ForeignInv, [Next]_vars, NEW k \in 1 .. 7,
                    Order[k] \in DeleteFirst, Foreign(Order[k])', ~Excused(Order[k])'
             PROVE  FirstPass' /\ (k > cur' \/ (k = cur' /\ pc' \in {"import", "delete"}))
  BY DEF ForeignInv
<1> DEFINE v == Order[k]
<1>0. Foreign(v) /\ ~Excused(v) => FirstPass /\ (k > cur \/ (k = cur /\ pc \in {"import", "delete"}))
  BY DEF ForeignInv
<1>1. CASE ImportStep
  <2>1. /\ pc = "import" /\ pc' \in {"delete", "next"} /\ UNCHANGED <<rt, pass, cur>>
        /\ trouble \subseteq trouble'
    BY <1>1, ImportFrame
  <2>2. Foreign(v) /\ ~Excused(v)
    BY <2>1 DEF Foreign, Excused, Present
  <2>3. CASE pc' = "delete" \/ k > cur
    BY <1>0, <2>1, <2>2, <2>3 DEF FirstPass
  <2>4. CASE pc' = "next" /\ k = cur
    <3>1. DefaultInverse /\ Fault("nomem") /\ Cur \in Inverted
      BY <1>1, <2>4 DEF ImportStep, NothingToRead, DefaultInverse, ReadGood, DeleteBad,
         DeleteBadFails
    <3>2. "nomem" \in trouble'
      BY <3>1 DEF Fault
    <3> QED
      BY <2>4, <3>1, <3>2 DEF Excused, Cur
  <2> QED
    BY <1>0, <2>1, <2>2, <2>3, <2>4
<1>2. CASE MirrorStep
  <2>1. /\ pc # "import" /\ pc # "table" /\ pc' # "table" /\ UNCHANGED <<pass, cur>>
        /\ trouble \subseteq trouble'
    BY <1>2, MirrorFrame DEF Mirroring, Filled
  <2>2. Foreign(v)
    <3>1. CASE UNCHANGED rt
      BY <3>1 DEF Foreign, Present
    <3>2. CASE \E x, n, s : SetVariable(x, n, s)
      BY <3>2, SetVariableCopies DEF Foreign, Shims
    <3>3. CASE rt' = [x \in DOMAIN rt \ {<<Cur, 0>>} |-> rt[x]]
      BY <3>3 DEF Foreign, Present
    <3> QED
      BY <1>2, <3>1, <3>2, <3>3, MirrorCopies
  <2>3. FirstPass /\ (k > cur \/ (k = cur /\ pc = "delete"))
    BY <1>0, <2>1, <2>2 DEF Excused
  <2>4. CASE k = cur /\ pc = "delete"
    <3>1. DeleteRt
      BY <1>2, <2>4 DEF MirrorStep, Fill, SetPlain, MirrorWhole, QueryFails, Split,
         MirrorEsl, LoopDone, MirrorEnd, Measure, Log, Settle
    <3>2. \/ rt' = [x \in DOMAIN rt \ {<<Cur, 0>>} |-> rt[x]]
          \/ Fault("delete")
      BY <2>3, <2>4, <3>1 DEF DeleteRt, FirstPass, Cur
    <3>3. ~Fault("delete")
      BY FaultGrows DEF Excused
    <3> QED
      BY <2>4, <3>2, <3>3 DEF Foreign, Present, Cur
  <2> QED
    BY <2>1, <2>3, <2>4 DEF FirstPass
<1>3. CASE NextVariable
  <2>1. /\ pc = "next" /\ UNCHANGED <<rt, pass, trouble>>
        /\ \/ cur < 7 /\ cur' = cur + 1 /\ pc' = "import"
           \/ cur = 7
    BY <1>3, OrderFacts DEF NextVariable, Ok
  <2>2. FirstPass /\ k > cur
    BY <1>0, <2>1 DEF Foreign, Excused, Present
  <2> QED
    BY <2>1, <2>2 DEF FirstPass, ShapeInv
<1>4. CASE CombineOne \/ InstallTable \/ CheckMokRequest \/ Decide \/ Finished \/ UNCHANGED vars
  <2>1. /\ UNCHANGED <<rt, cur>> /\ trouble \subseteq trouble'
        /\ \/ pc = "combine" /\ pc' = "next" /\ UNCHANGED pass
           \/ pc = "table" \/ pc \in AfterPasses \/ UNCHANGED <<pc, pass>>
    BY <1>4, FaultGrows DEF CombineOne, InstallTable, CheckMokRequest, Decide, Finished, vars,
       AfterPasses
  <2>2. FirstPass /\ (k > cur \/ (k = cur /\ pc \in {"import", "delete"}))
    BY <1>0, <2>1 DEF Foreign, Excused, Present
  <2> QED
    BY <2>1, <2>2 DEF FirstPass, ShapeInv
<1> QED
  BY <1>1, <1>2, <1>3, <1>4, NextSplits

(* The key database in hand has its first copy, or will get it, or has met *)
(* an error that reaches ret.                                              *)
Underway ==
    \/ pc \in {"import", "delete", "fill"}
    \/ pc \in {"db", "loop"} /\ at.i = 0 /\ ~at.did
    \/ pc = "end" /\ at.i = 0 /\ (status = "SUCCESS" => ~at.did)
    \/ pc \in {"end", "measure", "log", "settle", "combine"} /\ status # "SUCCESS"
    \/ pc # "import" /\ one # "SUCCESS"

CopyInv ==
    /\ DOMAIN at = {"k", "j", "i", "did"}
    /\ \A k \in 1 .. 2 :
           \/ Shims(<<Order[k], 0>>)
           \/ ret # "SUCCESS"
           \/ FirstPass /\ (cur < k \/ (cur = k /\ Underway))

LEMMA StartFacts == DOMAIN Start = {"k", "j", "i", "did"} /\ Start.i = 0 /\ ~Start.did
  BY DEF Start

(* The loop moves on in the list, and counts and notes what it writes.     *)
LEMMA LoopPosition ==
    ASSUME DOMAIN at = {"k", "j", "i", "did"}, NEW n
    PROVE  /\ DOMAIN Advance(n) = DOMAIN at
           /\ Advance(n).i = at.i /\ Advance(n).did = at.did
  BY DEF Advance

LEMMA LoopShape == DOMAIN at = {"k", "j", "i", "did"} /\ [Next]_vars => DOMAIN at' = {"k", "j", "i", "did"}
<1> SUFFICES ASSUME DOMAIN at = {"k", "j", "i", "did"}, [Next]_vars
             PROVE  DOMAIN at' = {"k", "j", "i", "did"}
  OBVIOUS
<1>1. CASE ImportStep
  BY <1>1, ImportFrame DEF loop
<1>2. CASE MirrorEsl
  <2>1. EslNext
    BY <1>2 DEF MirrorEsl
  <2>2. \/ at' = at
        \/ at' = [at EXCEPT !.k = at.k + 1, !.j = 0]
        \/ \E n, m : at' = [Advance(n) EXCEPT !.i = m]
        \/ \E n, m : at' = [Advance(n) EXCEPT !.did = TRUE, !.i = m]
    BY <2>1 DEF EslNext
  <2> QED
    BY <2>2, LoopPosition
<1>3. CASE Fill \/ NextVariable
  BY <1>3, StartFacts DEF Fill, NextVariable
<1>4. CASE DeleteRt \/ SetPlain \/ MirrorWhole \/ QueryFails \/ Split \/ LoopDone
  BY <1>4 DEF DeleteRt, SetPlain, MirrorWhole, QueryFails, Split, LoopDone, loop
<1>5. CASE MirrorEnd \/ Measure \/ Log \/ Settle
  BY <1>5 DEF MirrorEnd, Measure, Log, Settle, loop
<1>6. CASE CombineOne \/ InstallTable \/ CheckMokRequest \/ Decide \/ Finished \/ UNCHANGED vars
  BY <1>6 DEF CombineOne, InstallTable, CheckMokRequest, Decide, Finished, vars, loop
<1> QED
  BY <1>1, <1>2, <1>3, <1>4, <1>5, <1>6, NextSplits DEF MirrorStep

(* In the first pass the loop writes one portion, and ends.                *)
LEMMA FirstPortion ==
    ASSUME MirrorEsl, pass = 1, at.i = 0, ~at.did, DOMAIN at = {"k", "j", "i", "did"}
    PROVE  \/ Shims(<<Cur, 0>>)'
           \/ pc' = "loop" /\ at'.i = 0 /\ ~at'.did
           \/ pc' = "end" /\ status' # "SUCCESS"
<1>1. EslNext /\ pc = "loop" /\ Cur' = Cur
  BY DEF MirrorEsl, Cur
<1>2. \/ at' = [at EXCEPT !.k = at.k + 1, !.j = 0] /\ pc' = pc
      \/ /\ \E n, s : SetVariable(<<Cur, at.i>>, n, s)
         /\ pc' = "end"
      \/ status' = "OUT_OF_RESOURCES" /\ pc' = "end"
  BY <1>1 DEF EslNext
<1>3. CASE at' = [at EXCEPT !.k = at.k + 1, !.j = 0] /\ pc' = pc
  BY <1>1, <1>3
<1>4. CASE (\E n, s : SetVariable(<<Cur, at.i>>, n, s)) /\ pc' = "end"
  <2>1. PICK n, s : SetVariable(<<Cur, 0>>, n, s)
    BY <1>4
  <2>2. status' = "SUCCESS" => Shims(<<Cur, 0>>)'
    BY <1>1, <2>1, SetVariableCopies
  <2> QED
    BY <1>4, <2>2
<1> QED
  BY <1>2, <1>3, <1>4

(* The first pass on a key database.                                       *)
LEMMA UnderwayStep ==
    ASSUME MirrorStep, pass = 1, Cur \in KeyDb, Underway, DOMAIN at = {"k", "j", "i", "did"}
    PROVE  Shims(<<Cur, 0>>)' \/ Underway'
<1>0. pc' # "import" /\ pc # "import" /\ one' = one /\ Cur' = Cur
  BY MirrorFrame DEF Mirroring, Filled, Cur
<1>c. ASSUME \E n, s : SetVariable(<<Cur, 0>>, n, s)
      PROVE  status' = "SUCCESS" => Shims(<<Cur, 0>>)'
  BY <1>0, <1>c, SetVariableCopies
<1>a. CASE one # "SUCCESS"
  BY <1>0, <1>a DEF Underway
<1>b. Cur \notin Measured
  BY DEF KeyDb, Measured
<1>1. CASE DeleteRt
  BY <1>1 DEF DeleteRt, Underway
<1>2. CASE Fill
  <2>1. FullData(Cur) # <<>>
    BY DEF FullData, NullSha
  <2>2. \/ pc' = "db" /\ at' = Start
        \/ pc' = "combine" /\ status' # "SUCCESS"
    BY <1>2, <2>1 DEF Fill
  <2> QED
    BY <2>2, StartFacts DEF Underway
<1>3. CASE MirrorWhole
  <2>1. pc' = "measure" /\ \E n, s : SetVariable(<<Cur, 0>>, n, s)
    BY <1>3 DEF MirrorWhole
  <2> QED
    BY <1>c, <2>1 DEF Underway
<1>4. CASE QueryFails
  BY <1>4 DEF QueryFails, Underway
<1>5. CASE Split
  BY <1>5 DEF Split, Underway, loop
<1>6. CASE MirrorEsl
  <2>1. CASE at.i = 0 /\ ~at.did
    BY <1>6, <2>1, FirstPortion DEF Underway
  <2> QED
    BY <1>6, <1>a, <2>1 DEF MirrorEsl, Underway
<1>7. CASE LoopDone
  BY <1>7 DEF LoopDone, Underway, loop
<1>8. CASE MirrorEnd
  <2>1. \/ pc' = "measure" /\ \E n, s : SetVariable(<<Cur, 0>>, n, s)
        \/ pc' = "measure" /\ status # "SUCCESS" /\ status' = status
        \/ pc' = "measure" /\ at.did /\ status = "SUCCESS"
    BY <1>8 DEF MirrorEnd
  <2>2. pc = "end"
    BY <1>8 DEF MirrorEnd
  <2> QED
    BY <1>a, <1>c, <2>1, <2>2 DEF Underway
<1>9. CASE Measure \/ Log \/ Settle
  BY <1>9, <1>b DEF Measure, Log, Settle, Underway
<1>10. CASE SetPlain
  BY <1>10, <1>a DEF SetPlain, Underway
<1> QED
  BY <1>1, <1>2, <1>3, <1>4, <1>5, <1>6, <1>7, <1>8, <1>9, <1>10 DEF MirrorStep

LEMMA CopyStep == ShapeInv /\ CopyInv /\ [Next]_vars => CopyInv'
<1> SUFFICES ASSUME ShapeInv, CopyInv, [Next]_vars PROVE CopyInv'
  OBVIOUS
<1>0. DOMAIN at = {"k", "j", "i", "did"} /\ DOMAIN at' = {"k", "j", "i", "did"}
  BY LoopShape DEF CopyInv
<1> SUFFICES ASSUME NEW k \in 1 .. 2, ~Shims(<<Order[k], 0>>)', ret' = "SUCCESS"
             PROVE  FirstPass' /\ (cur' < k \/ (cur' = k /\ Underway'))
  BY <1>0 DEF CopyInv
<1>a. k \in 1 .. 7 /\ Order[k] \in KeyDb /\ ret = "SUCCESS"
  <2>1. k = 1 \/ k = 2
    OBVIOUS
  <2> QED
    BY <2>1, OrderFacts, ResultsStay DEF KeyDb
<1>b. \/ FirstPass /\ (cur < k \/ (cur = k /\ Underway))
      \/ DeleteRt /\ pass = 1 /\ Cur = Order[k]
  BY <1>a, CopiesStay DEF CopyInv
<1>1. CASE ImportStep
  <2>1. pc = "import" /\ pc' \in {"delete", "next"} /\ UNCHANGED <<pass, cur>>
    BY <1>1, ImportFrame
  <2>2. FirstPass /\ cur <= k
    BY <1>b, <2>1 DEF DeleteRt, ShapeInv
  <2>3. ASSUME cur = k PROVE pc' = "delete"
    <3>1. ~DefaultInverse
      BY <1>a, <2>3 DEF DefaultInverse, Inverted, KeyDb, Cur
    <3> QED
      BY <1>1, <3>1 DEF ImportStep, NothingToRead, ReadGood, DeleteBad, DeleteBadFails
  <2> QED
    BY <2>1, <2>2, <2>3 DEF FirstPass, Underway, ShapeInv
<1>2. CASE MirrorStep
  <2>1. pc # "import" /\ pc # "table" /\ pc' # "table" /\ UNCHANGED <<pass, cur>>
    BY <1>2, MirrorFrame DEF Mirroring, Filled
  <2>2. CASE FirstPass /\ cur < k
    BY <2>1, <2>2 DEF FirstPass
  <2>3. CASE FirstPass /\ cur = k /\ Underway
    BY <1>0, <1>2, <1>a, <2>1, <2>3, UnderwayStep DEF FirstPass, Cur
  <2>4. CASE DeleteRt /\ pass = 1 /\ Cur = Order[k]
    <3>1. cur = k
      BY <1>a, <2>4, OrderInjective DEF ShapeInv, Cur
    <3>2. pc' = "fill"
      BY <2>4 DEF DeleteRt
    <3> QED
      BY <2>1, <2>4, <3>1, <3>2 DEF FirstPass, Underway
  <2> QED
    BY <1>b, <2>2, <2>3, <2>4
<1>c. CASE ~ImportStep /\ ~MirrorStep
  <2>0. FirstPass /\ (cur < k \/ (cur = k /\ Underway))
    BY <1>b, <1>c DEF MirrorStep
  <2>1. CASE CombineOne
    <3>1. /\ pc = "combine" /\ pc' = "next" /\ UNCHANGED <<pass, cur>>
          /\ one' = Combine(one, status)
      BY <2>1 DEF CombineOne
    <3>2. cur = k => one' # "SUCCESS"
      BY <2>0, <3>1, CombineKeeps DEF Underway, ShapeInv
    <3> QED
      BY <2>0, <3>1, <3>2 DEF FirstPass, Underway
  <2>2. CASE NextVariable
    <3>1. /\ pc = "next" /\ pass' = pass
          /\ ret' = IF pass = 1 THEN Combine(ret, one) ELSE ret
          /\ \/ cur < 7 /\ cur' = cur + 1 /\ pc' = "import"
             \/ cur = 7
      BY <2>2, OrderFacts DEF NextVariable
    <3>2. pass = 1 /\ one = "SUCCESS"
      BY <2>0, <3>1, CombineKeeps DEF FirstPass
    <3>3. cur < k
      BY <2>0, <3>1, <3>2 DEF Underway
    <3> QED
      BY <1>a, <3>1, <3>2, <3>3 DEF FirstPass, Underway, ShapeInv
  <2>3. CASE InstallTable \/ CheckMokRequest \/ Decide
    BY <2>0, <2>3 DEF InstallTable, CheckMokRequest, Decide, FirstPass, ShapeInv, AfterPasses
  <2>4. CASE Finished \/ UNCHANGED vars
    <3>1. UNCHANGED vars
      BY <2>4 DEF Finished
    <3> QED
      BY <2>0, <3>1 DEF vars, FirstPass, Underway
  <2> QED
    BY <1>c, <2>1, <2>2, <2>3, <2>4, NextSplits
<1> QED
  BY <1>1, <1>2, <1>c

(* When the import succeeds both key databases have a copy shim wrote, and *)
(* what someone else left under the name of a copy is gone.                *)
THEOREM CopiesAreShimsOwn == Spec => []CopiesAreShims
<1>1. Init => CopyInv /\ ForeignInv
  <2> SUFFICES ASSUME Init PROVE CopyInv /\ ForeignInv
    OBVIOUS
  <2>1. pc = "import" /\ pass = 1 /\ cur = 1 /\ at = Start
    BY DEF Init
  <2> QED
    BY <2>1, StartFacts DEF CopyInv, ForeignInv, FirstPass, Underway
<1>2. ShapeInv /\ CopyInv /\ ForeignInv => CopiesAreShims
  <2> SUFFICES ASSUME ShapeInv, CopyInv, ForeignInv, Done PROVE CopiesAreShims
    BY DEF CopiesAreShims
  <2>0. ~FirstPass
    BY DEF Done, FirstPass, ShapeInv, AfterPasses
  <2>1. ASSUME ret = "SUCCESS", NEW v \in KeyDb
        PROVE  Present(<<v, 0>>) /\ rt[<<v, 0>>].ours
    <3>1. v = Order[1] \/ v = Order[2]
      BY OrderFacts DEF KeyDb
    <3> QED
      BY <2>0, <2>1, <3>1 DEF CopyInv, Shims
  <2>2. ASSUME "delete" \notin trouble, NEW v \in DeleteFirst, Present(<<v, 0>>)
        PROVE  rt[<<v, 0>>].ours \/ (v \in Inverted /\ "nomem" \in trouble)
    <3>1. PICK k \in 1 .. 7 : Order[k] = v
      BY VarsFacts
    <3> QED
      BY <2>0, <2>2, <3>1 DEF ForeignInv, Foreign, Excused
  <2> QED
    BY <2>1, <2>2 DEF CopiesAreShims
<1> QED
  BY <1>1, <1>2, ShapeInit, ShapeStep, CopyStep, ForeignStep, PTL DEF Spec

---------------------------------------------------------------------------
(* The configuration table                                                 *)

(* What import_one_mok_state is to read of a variable, and what the table  *)
(* is to have of a key database.                                           *)
Source(v) == IF conf.nv[v].here /\ conf.nv[v].good THEN conf.nv[v].data ELSE <<>>

Complete(v) == IF Wanted(v) = <<>> THEN NullSha ELSE Wanted(v)

Hidden == trouble \intersect {"table", "read"} # {}

(* How far the first pass has come with the key database in hand.          *)
Reached ==
    \/ pc = "import" /\ data[Cur] = <<>> /\ nv[Cur] = conf.nv[Cur]
    \/ pc \in {"delete", "fill"} /\ data[Cur] = Source(Cur)
    \/ pc \in {"db", "loop", "end", "measure", "log", "settle"} /\ full = Complete(Cur)
    \/ pc = "combine" /\ status # "SUCCESS"
    \/ pc # "import" /\ one # "SUCCESS"

Past(k) == pc = "table" \/ cur > k \/ (cur = k /\ pc \in {"combine", "next"})

TableInv ==
    \A k \in 1 .. 2 :
        \/ ret # "SUCCESS"
        \/ Hidden
        \/ pass = 1 /\ Past(k) /\ data[Order[k]] = Complete(Order[k])
        \/ pass = 2 /\ table[Order[k]] = Complete(Order[k])
        \/ FirstPass /\ cur < k /\ nv[Order[k]] = conf.nv[Order[k]]
        \/ FirstPass /\ cur = k /\ Reached

LEMMA WantedIsFilled ==
    ASSUME NEW v \in KeyDb, data[v] = Source(v)
    PROVE  FullData(v) = Complete(v) /\ FullData(v) # <<>>
BY DEF FullData, Complete, Wanted, Source, NullSha

LEMMA TroubleStays == [Next]_vars => trouble \subseteq trouble'
<1> SUFFICES ASSUME [Next]_vars PROVE trouble \subseteq trouble'
  OBVIOUS
<1>1. CASE ImportStep
  BY <1>1, ImportFrame
<1>2. CASE MirrorStep
  BY <1>2, MirrorFrame
<1>3. CASE CombineOne \/ NextVariable \/ InstallTable \/ CheckMokRequest \/ Decide
  BY <1>3, FaultGrows DEF CombineOne, NextVariable, InstallTable, CheckMokRequest, Decide
<1>4. CASE Finished \/ UNCHANGED vars
  BY <1>4 DEF Finished, vars
<1> QED
  BY <1>1, <1>2, <1>3, <1>4, NextSplits

(* A key database is read as stored, or has the wrong attributes.          *)
LEMMA KeyDbRead ==
    ASSUME ImportStep, ShapeInv, cur \in 1 .. 2, Reached, ~Hidden'
    PROVE  Reached'
<1>0. /\ pc = "import" /\ data[Cur] = <<>> /\ nv[Cur] = conf.nv[Cur]
      /\ UNCHANGED <<conf, cur>> /\ Cur' = Cur
  BY ImportFrame DEF Reached, Cur
<1>1. Cur \notin Inverted /\ Cur \in DOMAIN data
  <2>1. cur \in 1 .. 7 /\ (cur = 1 \/ cur = 2)
    OBVIOUS
  <2> QED
    BY <2>1, OrderFacts, VarsFacts DEF Cur, Inverted, ShapeInv
<1>2. ~Fault("read")
  BY FaultGrows DEF Hidden
<1>3. ~DefaultInverse
  BY <1>1 DEF DefaultInverse
<1>4. CASE NothingToRead
  BY <1>0, <1>1, <1>4 DEF NothingToRead, Reached, Source, boot
<1>5. CASE ReadGood
  <2>1. pc' = "delete" /\ data'[Cur] = Source(Cur)
    BY <1>0, <1>1, <1>5 DEF ReadGood, Acceptable, Source
  <2> QED
    BY <1>0, <2>1 DEF Reached, Source
<1>6. CASE DeleteBad \/ DeleteBadFails
  <2>1. pc' = "delete" /\ data' = data /\ ~Acceptable(Cur)
    BY <1>2, <1>6 DEF DeleteBad, DeleteBadFails, boot
  <2> QED
    BY <1>0, <2>1 DEF Reached, Source, Acceptable
<1> QED
  BY <1>3, <1>4, <1>5, <1>6 DEF ImportStep

(* And it is in hand, complete, until it is kept for the table.            *)
LEMMA KeyDbKept ==
    ASSUME MirrorStep, ShapeInv, pass = 1, Cur \in KeyDb, Cur \in DOMAIN data, Reached
    PROVE  Reached' \/ (pc' = "combine" /\ data'[Cur] = Complete(Cur))
<1>0. /\ pc # "import" /\ pc \in Mirroring /\ pc' # "import"
      /\ UNCHANGED <<conf, cur, one>> /\ Cur' = Cur
  BY MirrorFrame DEF Cur, Mirroring, Filled
<1>a. Complete(Cur)' = Complete(Cur) /\ Source(Cur)' = Source(Cur)
  BY <1>0 DEF Complete, Source, Wanted, Addend
<1>b. CASE one # "SUCCESS"
  BY <1>0, <1>b DEF Reached
<1>1. CASE DeleteRt
  <2>1. pc = "delete" /\ pc' = "fill" /\ data' = data
    BY <1>1 DEF DeleteRt, boot
  <2> QED
    BY <1>0, <1>a, <1>b, <2>1 DEF Reached
<1>2. CASE Fill
  <2>1. pc = "fill"
    BY <1>2 DEF Fill
  <2>2. ASSUME data[Cur] = Source(Cur) PROVE Reached'
    <3>1. \/ pc' = "db" /\ full' = Complete(Cur)
          \/ pc' = "combine" /\ status' # "SUCCESS"
      BY <1>2, <2>2, WantedIsFilled DEF Fill
    <3> QED
      BY <1>0, <1>a, <3>1 DEF Reached
  <2> QED
    BY <1>b, <2>1, <2>2 DEF Reached
<1>3. CASE Settle
  BY <1>0, <1>b, <1>3 DEF Settle, Reached
<1>4. CASE MirrorStep /\ ~DeleteRt /\ ~Fill /\ ~Settle
  <2>1. pc \in {"set", "db", "loop", "end", "measure", "log"}
    BY <1>4 DEF MirrorStep, SetPlain, MirrorWhole, QueryFails, Split, MirrorEsl, LoopDone,
       MirrorEnd, Measure, Log
  <2>2. full' = full
    BY <1>4, MirrorFull
  <2>3. CASE pc # "set" /\ full = Complete(Cur)
    <3>1. \/ pc' \in {"db", "loop", "end", "measure", "log", "settle"}
          \/ pc' = "combine" /\ status' # "SUCCESS"
      <4>1. CASE MirrorEsl
        <5>1. EslNext /\ pc = "loop"
          BY <4>1 DEF MirrorEsl
        <5> QED
          BY <5>1 DEF EslNext
      <4>2. CASE ~MirrorEsl
        BY <1>4, <2>3, <4>2 DEF MirrorStep, SetPlain, MirrorWhole, QueryFails, Split, LoopDone,
           MirrorEnd, Measure, Log
      <4> QED
        BY <4>1, <4>2
    <3> QED
      BY <1>0, <1>a, <2>2, <2>3, <3>1 DEF Reached
  <2> QED
    BY <1>b, <2>1, <2>3 DEF Reached
<1> QED
  BY <1>1, <1>2, <1>3, <1>4

LEMMA TableStep == ShapeInv /\ FreshInv /\ TableInv /\ [Next]_vars => TableInv'
<1> SUFFICES ASSUME ShapeInv, FreshInv, TableInv, [Next]_vars, NEW k \in 1 .. 2,
                    ret' = "SUCCESS", ~Hidden'
             PROVE  \/ pass' = 1 /\ Past(k)' /\ data'[Order[k]] = Complete(Order[k])'
                    \/ pass' = 2 /\ table'[Order[k]] = Complete(Order[k])'
                    \/ FirstPass' /\ cur' < k /\ nv'[Order[k]] = conf'.nv[Order[k]]
                    \/ FirstPass' /\ cur' = k /\ Reached'
  BY DEF TableInv
<1> DEFINE v == Order[k]
<1>0. /\ k \in 1 .. 7 /\ v \in KeyDb /\ v \in DOMAIN data /\ v \in DOMAIN nv
      /\ cur \in 1 .. 7 /\ (Cur = v <=> cur = k) /\ ~(v \in Inverted)
  <2>1. k \in 1 .. 7 /\ (k = 1 \/ k = 2)
    OBVIOUS
  <2>2. v \in KeyDb /\ ~(v \in Inverted)
    BY <2>1, OrderFacts DEF KeyDb, Inverted
  <2> QED
    BY <2>1, <2>2, VarsFacts, OrderInjective DEF ShapeInv, Cur
<1>a. conf' = conf /\ Complete(v)' = Complete(v)
  <2>1. conf' = conf
    <3>1. CASE ImportStep \/ MirrorStep
      BY <3>1, ImportFrame, MirrorFrame
    <3>2. CASE CombineOne \/ NextVariable \/ InstallTable \/ CheckMokRequest \/ Decide
               \/ Finished \/ UNCHANGED vars
      BY <3>2 DEF CombineOne, NextVariable, InstallTable, CheckMokRequest, Decide, Finished, vars
    <3> QED
      BY <3>1, <3>2, NextSplits
  <2> QED
    BY <2>1 DEF Complete, Wanted, Addend
<1>b. \/ pass = 1 /\ Past(k) /\ data[v] = Complete(v)
      \/ pass = 2 /\ table[v] = Complete(v)
      \/ FirstPass /\ cur < k /\ nv[v] = conf.nv[v]
      \/ FirstPass /\ cur = k /\ Reached
  BY ResultsStay, TroubleStays DEF TableInv, Hidden
<1>1. CASE ImportStep
  <2>1. /\ pc = "import" /\ pc' # "table" /\ pc' # "import" /\ UNCHANGED <<table, pass, cur>>
    BY <1>1, ImportFrame
  <2>2. ASSUME cur # k PROVE nv'[v] = nv[v] /\ data'[v] = data[v]
    <3>1. \A d : /\ [nv EXCEPT ![Cur] = Absent][v] = nv[v]
                 /\ [data EXCEPT ![Cur] = d][v] = data[v]
      BY <1>0, <2>2
    <3>2. nv' = nv \/ nv' = [nv EXCEPT ![Cur] = Absent]
      BY <1>1, ImportFrame
    <3>3. data' = data \/ \E d : data' = [data EXCEPT ![Cur] = d]
      BY <1>1, ImportFrame
    <3>4. nv'[v] = nv[v]
      <4>1. CASE nv' = nv
        BY <4>1
      <4>2. CASE nv' = [nv EXCEPT ![Cur] = Absent]
        BY <3>1, <4>2
      <4> QED
        BY <3>2, <4>1, <4>2
    <3>5. data'[v] = data[v]
      <4>1. CASE data' = data
        BY <4>1
      <4>2. CASE \E d : data' = [data EXCEPT ![Cur] = d]
        BY <3>1, <4>2
      <4> QED
        BY <3>3, <4>1, <4>2
    <3> QED
      BY <3>4, <3>5
  <2>3. CASE cur = k
    BY <1>1, <1>a, <1>b, <2>1, <2>3, KeyDbRead DEF Past, FirstPass
  <2>4. CASE cur # k
    BY <1>a, <1>b, <2>1, <2>2, <2>4 DEF Past, FirstPass
  <2> QED
    BY <2>3, <2>4
<1>2. CASE MirrorStep
  <2>1. /\ pc \notin {"import", "table", "combine", "next"} /\ pc' # "table" /\ pc' # "import"
        /\ UNCHANGED <<nv, table, pass, cur>>
    BY <1>2, MirrorFrame DEF Mirroring, Filled
  <2>2. ASSUME cur # k PROVE data'[v] = data[v]
    BY <1>0, <1>2, <2>2, MirrorData
  <2>3. CASE cur = k
    BY <1>0, <1>2, <1>a, <1>b, <2>1, <2>3, KeyDbKept DEF Past, FirstPass
  <2>4. CASE cur # k
    BY <1>a, <1>b, <2>1, <2>2, <2>4 DEF Past, FirstPass
  <2> QED
    BY <2>3, <2>4
<1>3. CASE CombineOne
  <2>1. /\ pc = "combine" /\ pc' = "next" /\ UNCHANGED <<nv, data, table, pass, cur>>
        /\ one' = Combine(one, status)
    BY <1>3 DEF CombineOne
  <2>2. Reached => one' # "SUCCESS"
    BY <2>1, CombineKeeps DEF Reached
  <2> QED
    BY <1>a, <1>b, <2>1, <2>2 DEF Past, FirstPass, Reached
<1>4. CASE NextVariable
  <2>1. /\ pc = "next" /\ UNCHANGED <<nv, data, table, pass>>
        /\ ret' = IF pass = 1 THEN Combine(ret, one) ELSE ret
        /\ \/ cur < 7 /\ cur' = cur + 1 /\ pc' = "import"
           \/ cur = 7 /\ cur' = 1 /\ pc' = IF pass = 1 THEN "table" ELSE "request"
    BY <1>4, OrderFacts DEF NextVariable, boot
  <2>2. CASE pass = 1 /\ Past(k) /\ data[v] = Complete(v)
    BY <1>0, <1>a, <2>1, <2>2 DEF Past
  <2>3. CASE pass = 2 /\ table[v] = Complete(v)
    BY <1>a, <2>1, <2>3
  <2>4. CASE FirstPass /\ cur < k /\ nv[v] = conf.nv[v]
    <3>1. cur' = cur + 1 /\ pc' = "import" /\ data[v] = <<>> /\ cur' <= k
      BY <1>0, <2>1, <2>4 DEF FreshInv, Ahead
    <3>2. cur' = k => Cur' = v
      BY DEF Cur
    <3> QED
      BY <1>0, <1>a, <2>1, <2>4, <3>1, <3>2 DEF FirstPass, Reached
  <2>5. CASE FirstPass /\ cur = k /\ Reached
    BY <2>1, <2>5, CombineKeeps DEF FirstPass, Reached
  <2> QED
    BY <1>b, <2>2, <2>3, <2>4, <2>5
<1>5. CASE InstallTable
  <2>1. /\ pc = "table" /\ pass = 1 /\ pass' = 2
        /\ table' = data \/ Fault("table")
    BY <1>5 DEF InstallTable, ShapeInv
  <2>2. ~Fault("table")
    BY FaultGrows DEF Hidden
  <2> QED
    BY <1>a, <1>b, <2>1, <2>2 DEF FirstPass
<1>6. CASE CheckMokRequest \/ Decide
  <2>1. pass = 2 /\ UNCHANGED <<pass, table>>
    BY <1>6 DEF CheckMokRequest, Decide, boot, ShapeInv, AfterPasses
  <2> QED
    BY <1>a, <1>b, <2>1 DEF FirstPass
<1>7. CASE Finished \/ UNCHANGED vars
  <2>1. UNCHANGED vars
    BY <1>7 DEF Finished
  <2> QED
    BY <1>a, <1>b, <2>1 DEF vars, Past, FirstPass, Reached, Source, Complete, Cur
<1> QED
  BY <1>1, <1>2, <1>3, <1>4, <1>5, <1>6, <1>7, NextSplits

(* The configuration table gets every key database in full, whatever       *)
(* happened to its copies.                                                 *)
THEOREM TableIsComplete == Spec => []TableComplete
<1>1. Init => TableInv /\ FreshInv
  <2> SUFFICES ASSUME Init PROVE TableInv /\ FreshInv
    OBVIOUS
  <2>1. /\ pc = "import" /\ pass = 1 /\ cur = 1 /\ nv = conf.nv
        /\ \A k \in 1 .. 7 : data[Order[k]] = <<>>
    BY VarsFacts DEF Init
  <2>2. data[Cur] = <<>>
    BY <2>1 DEF Cur
  <2> QED
    BY <2>1, <2>2 DEF TableInv, FreshInv, FirstPass, Reached
<1>2. ShapeInv /\ TableInv => TableComplete
  <2> SUFFICES ASSUME ShapeInv, TableInv, ret = "SUCCESS", pass = 2, ~Hidden, NEW v \in KeyDb
               PROVE  table[v] = Complete(v)
    BY DEF TableComplete, Complete, Hidden
  <2>1. v = Order[1] \/ v = Order[2]
    BY OrderFacts DEF KeyDb
  <2> QED
    BY <2>1 DEF TableInv, FirstPass
<1> QED
  BY <1>1, <1>2, ShapeInit, ShapeStep, FreshStep, TableStep, PTL DEF Spec
---------------------------------------------------------------------------
(* Sizes of key databases                                                  *)

Databases == Seq(SignatureList)

(* Every set of natural numbers has a least element.                       *)
LEMMA LeastElement ==
    ASSUME NEW S, S \subseteq Nat, S # {}
    PROVE  \E n \in S : \A m \in S : n <= m
<1> DEFINE R == {p \in Nat \X Nat : p[1] < p[2]}
<1>1. IsWellFoundedOn(R, Nat)
  BY NatLessThanWellFounded DEF OpToRel
<1>2. PICK n \in S : \A m \in S : ~(<<m, n>> \in R)
  BY <1>1, WFMin
<1>3. \A x, y \in Nat : <<x, y>> \in R <=> x < y
  OBVIOUS
<1>4. \A x, y \in Nat : x < y \/ y <= x
  OBVIOUS
<1> HIDE DEF R
<1> QED
  BY <1>2, <1>3, <1>4

(* What holds of nothing and is kept by one more list holds of every       *)
(* number of lists: by the least counterexample.                           *)
LEMMA UpTo ==
    ASSUME NEW n \in Nat, NEW S, 0 \in S,
           \A k \in 1 .. n : k - 1 \in S => k \in S
    PROVE  0 .. n \subseteq S
<1> DEFINE Bad == (0 .. n) \ S
<1> SUFFICES ASSUME Bad # {} PROVE FALSE
  OBVIOUS
<1>1. PICK k \in Bad : \A o \in Bad : k <= o
  <2>1. Bad \subseteq Nat
    OBVIOUS
  <2> HIDE DEF Bad
  <2> QED
    BY <2>1, LeastElement
<1>2. k \in 0 .. n /\ k \notin S /\ k # 0
  BY <1>1
<1>3. k \in 1 .. n /\ k - 1 \in 0 .. n /\ ~(k <= k - 1)
  BY <1>2
<1>4. k - 1 \notin Bad
  BY <1>1, <1>3
<1> QED
  BY <1>2, <1>3, <1>4

LEMMA EslSizes ==
    ASSUME NEW e \in SignatureList
    PROVE  /\ e.n \in Nat /\ e.size \in Nat /\ EslSize(e) \in Nat /\ EslSize(e) >= Header
           /\ EslSize(e) = Header + e.n * e.size
<1>1. e.n \in Nat /\ e.size \in Nat
  BY DEF SignatureList
<1>2. e.n * e.size \in Nat
  BY <1>1
<1> QED
  BY <1>1, <1>2 DEF EslSize, Header

(* The ends of the lists are defined, and are the sums they stand for.     *)
LEMMA EndsOf ==
    ASSUME NEW db \in Databases
    PROVE  \A k \in 0 .. Len(db) :
              /\ Ends(db)[k] \in Nat
              /\ Ends(db)[k] = IF k = 0 THEN 0 ELSE Ends(db)[k - 1] + EslSize(db[k])
<1> DEFINE n == Len(db)
           Rec(g, m) == g = [k \in 0 .. m |-> IF k = 0 THEN 0 ELSE g[k - 1] + EslSize(db[k])]
           end == CHOOSE g : Rec(g, n)
<1>1. n \in Nat /\ \A k \in 1 .. n : EslSize(db[k]) \in Nat
  <2>1. n \in Nat /\ \A k \in 1 .. n : db[k] \in SignatureList
    BY DEF Databases
  <2> QED
    BY <2>1, EslSizes
<1>2. \A m \in 0 .. n : \E g : Rec(g, m)
  <2> DEFINE Good == {m \in 0 .. n : \E g : Rec(g, m)}
  <2>1. 0 \in Good
    <3>1. Rec([k \in 0 .. 0 |-> 0], 0)
      OBVIOUS
    <3>2. 0 \in 0 .. n
      BY <1>1
    <3> HIDE DEF Rec, n
    <3> QED
      BY <3>1, <3>2
  <2>2. ASSUME NEW m \in 1 .. n, m - 1 \in Good PROVE m \in Good
    <3>1. PICK g : Rec(g, m - 1)
      BY <2>2
    <3> DEFINE h == [k \in 0 .. m |-> IF k = m THEN g[m - 1] + EslSize(db[m]) ELSE g[k]]
    <3>2. \A k \in 0 .. m : k # m => k \in 0 .. m - 1
      OBVIOUS
    <3>3. \A k \in 0 .. m - 1 : g[k] = IF k = 0 THEN 0 ELSE g[k - 1] + EslSize(db[k])
      BY <3>1
    <3>4. \A k \in 0 .. m : k # 0 => k - 1 \in 0 .. m /\ k - 1 # m
      OBVIOUS
    <3>5. \A k \in 0 .. m : h[k] = IF k = 0 THEN 0 ELSE h[k - 1] + EslSize(db[k])
      BY <3>2, <3>3, <3>4
    <3>6. Rec(h, m) /\ m \in 0 .. n
      BY <3>5
    <3> HIDE DEF Rec, h, n
    <3> QED
      BY <3>6
  <2>3. 0 .. n \subseteq Good
    <3> HIDE DEF Good
    <3> QED
      BY <1>1, <2>1, <2>2, UpTo
  <2> QED
    BY <2>3
<1>3. Rec(end, n)
  <2>1. \E g : Rec(g, n)
    BY <1>1, <1>2
  <2> QED
    BY <2>1
<1>4. \A k \in 0 .. n : end[k] = IF k = 0 THEN 0 ELSE end[k - 1] + EslSize(db[k])
  BY <1>3
<1>5. Ends(db) = end
  BY DEF Ends
<1> HIDE DEF end
<1>6. \A k \in 0 .. n : end[k] \in Nat
  <2> DEFINE S == {k \in 0 .. n : end[k] \in Nat}
  <2>1. 0 \in S
    BY <1>1, <1>4
  <2>2. ASSUME NEW k \in 1 .. n, k - 1 \in S PROVE k \in S
    <3>1. end[k] = end[k - 1] + EslSize(db[k]) /\ end[k - 1] \in Nat /\ EslSize(db[k]) \in Nat
      BY <1>1, <1>4, <2>2
    <3> QED
      BY <3>1
  <2>3. 0 .. n \subseteq S
    <3> HIDE DEF S
    <3> QED
      BY <1>1, <2>1, <2>2, UpTo
  <2> QED
    BY <2>3
<1> QED
  BY <1>4, <1>5, <1>6
LEMMA EndsGrow ==
    ASSUME NEW db \in Databases, NEW j \in 0 .. Len(db), NEW k \in 0 .. Len(db), j <= k
    PROVE  Ends(db)[j] <= Ends(db)[k]
<1> DEFINE n == Len(db)
           S == {i \in 0 .. n : i < j \/ Ends(db)[j] <= Ends(db)[i]}
<1>1. n \in Nat /\ \A i \in 1 .. n : db[i] \in SignatureList
  BY DEF Databases
<1>2. \A i \in 0 .. n : Ends(db)[i] \in Nat
  BY EndsOf
<1>3. 0 \in S
  <2>1. j # 0 => 0 < j
    OBVIOUS
  <2>2. Ends(db)[0] <= Ends(db)[0] /\ 0 \in 0 .. n
    BY <1>1, <1>2
  <2> QED
    BY <2>1, <2>2
<1>4. ASSUME NEW i \in 1 .. n, i - 1 \in S PROVE i \in S
  <2>1. /\ i \in 0 .. n /\ i - 1 \in 0 .. n /\ i # 0
        /\ (i - 1 < j \/ Ends(db)[j] <= Ends(db)[i - 1])
    BY <1>4
  <2>2. Ends(db)[i] = Ends(db)[i - 1] + EslSize(db[i]) /\ EslSize(db[i]) \in Nat
    BY <1>1, <2>1, EndsOf, EslSizes
  <2>3. Ends(db)[i - 1] <= Ends(db)[i]
    BY <1>2, <2>1, <2>2
  <2>4. i < j \/ i = j \/ Ends(db)[j] <= Ends(db)[i]
    <3>1. Ends(db)[j] \in Nat /\ Ends(db)[i] \in Nat /\ Ends(db)[i - 1] \in Nat
      BY <1>2, <2>1
    <3> HIDE DEF n
    <3> QED
      BY <2>1, <2>3, <3>1
  <2>5. Ends(db)[j] <= Ends(db)[j]
    BY <1>2
  <2> QED
    BY <2>1, <2>4, <2>5
<1>5. 0 .. n \subseteq S
  <2> HIDE DEF S, n
  <2> QED
    BY <1>1, <1>3, <1>4, UpTo
<1> QED
  BY <1>5

(* What is prepended adds to the size.                                     *)
LEMMA PrependedIsLarger ==
    ASSUME NEW a \in Databases, NEW b \in Databases
    PROVE  /\ a \o b \in Databases
           /\ DbSize(b) \in Nat /\ DbSize(a \o b) \in Nat /\ DbSize(b) <= DbSize(a \o b)
<1> DEFINE n == Len(b)
           p == Len(a)
           c == a \o b
           S == {i \in 0 .. n : Ends(b)[i] <= Ends(c)[p + i]}
<1>1. /\ c \in Databases /\ n \in Nat /\ p \in Nat /\ Len(c) = p + n
      /\ \A i \in 1 .. n : b[i] \in SignatureList /\ c[p + i] = b[i]
  BY DEF Databases
<1>2. /\ \A i \in 0 .. n : Ends(b)[i] \in Nat
      /\ \A i \in 0 .. n : p + i \in 0 .. Len(c) /\ Ends(c)[p + i] \in Nat
  <2>1. \A i \in 0 .. n : p + i \in 0 .. Len(c)
    <3> HIDE DEF n, p, c
    <3> QED
      BY <1>1
  <2> HIDE DEF c
  <2> QED
    BY <1>1, <2>1, EndsOf
<1>3. 0 \in S
  <2>1. Ends(b)[0] = 0 /\ Ends(c)[p + 0] \in Nat /\ 0 \in 0 .. n
    BY <1>1, <1>2, EndsOf
  <2> QED
    BY <2>1
<1>4. ASSUME NEW i \in 1 .. n, i - 1 \in S PROVE i \in S
  <2>1. /\ i \in 0 .. n /\ i - 1 \in 0 .. n /\ i # 0
        /\ Ends(b)[i - 1] <= Ends(c)[p + (i - 1)]
    BY <1>4
  <2>2. EslSize(b[i]) \in Nat /\ c[p + i] = b[i]
    BY <1>1, EslSizes
  <2>3. Ends(b)[i] = Ends(b)[i - 1] + EslSize(b[i])
    BY <2>1, EndsOf
  <2>4. p + i \in 0 .. Len(c) /\ p + i # 0 /\ (p + i) - 1 = p + (i - 1)
    <3> HIDE DEF n, p, c
    <3> QED
      BY <1>1, <1>2, <2>1
  <2>5. Ends(c)[p + i] = Ends(c)[p + (i - 1)] + EslSize(b[i])
    <3> HIDE DEF c, p
    <3> QED
      BY <1>1, <2>2, <2>4, EndsOf
  <2>6. /\ Ends(b)[i] \in Nat /\ Ends(b)[i - 1] \in Nat
        /\ Ends(c)[p + i] \in Nat /\ Ends(c)[p + (i - 1)] \in Nat
    BY <1>2, <2>1
  <2>7. Ends(b)[i] <= Ends(c)[p + i]
    <3> HIDE DEF c, p, n
    <3> QED
      BY <2>1, <2>2, <2>3, <2>5, <2>6
  <2> QED
    BY <2>1, <2>7
<1>5. 0 .. n \subseteq S
  <2> HIDE DEF S, n
  <2> QED
    BY <1>1, <1>3, <1>4, UpTo
<1>6. n \in 0 .. n
  BY <1>1
<1>7. Ends(b)[n] <= Ends(c)[p + n] /\ Ends(b)[n] \in Nat /\ Ends(c)[p + n] \in Nat
  BY <1>2, <1>5, <1>6
<1> QED
  BY <1>1, <1>7 DEF DbSize

LEMMA Products ==
    ASSUME NEW a \in Nat, NEW b \in Nat, NEW s \in Nat, a < b
    PROVE  b * s - a * s >= s /\ a * s \in Nat /\ b * s \in Nat
<1>1. b * s - a * s = (b - a) * s
  OBVIOUS
<1>2. PICK d \in Nat : b - a = d + 1
  <2>1. b - a - 1 \in Nat /\ b - a = (b - a - 1) + 1
    OBVIOUS
  <2> QED
    BY <2>1
<1>3. (d + 1) * s = d * s + s /\ d * s \in Nat
  OBVIOUS
<1>4. d * s + s >= s
  BY <1>3
<1> QED
  BY <1>1, <1>2, <1>3, <1>4

LEMMA Quotients ==
    ASSUME NEW a \in Nat, NEW b \in Nat, NEW s \in Nat, s # 0, a <= b
    PROVE  a \div s \in Nat /\ b \div s \in Nat /\ a \div s <= b \div s
  OBVIOUS

(* The position of the loop, and the signatures before it.                 *)
Placed ==
    /\ at.k \in 1 .. Len(full) + 1 /\ at.j \in Nat
    /\ at.j # 0 => at.k <= Len(full) /\ at.j < full[at.k].n

Before(l, m) == l < at.k \/ (l = at.k /\ m <= at.j)

LEMMA RestBytes ==
    ASSUME full \in Databases, Placed
    PROVE  /\ Rest \in Int
           /\ at.k = Len(full) + 1 => Rest = 0
           /\ at.k # Len(full) + 1 =>
                 /\ at.k \in 1 .. Len(full) /\ full[at.k] \in SignatureList
                 /\ at.j = 0 => Rest = DbSize(full) - Ends(full)[at.k - 1]
                 /\ at.j # 0 => Rest >= full[at.k].size
<1> DEFINE n == Len(full)
           k == at.k
           j == at.j
<1>1. /\ n \in Nat /\ k \in 1 .. n + 1 /\ j \in Nat /\ k - 1 \in 0 .. n
      /\ n \in 0 .. n /\ \A i \in 1 .. n : full[i] \in SignatureList
  BY DEF Databases, Placed
<1>2. DbSize(full) \in Nat /\ Ends(full)[k - 1] \in Nat /\ DbSize(full) = Ends(full)[n]
  BY <1>1, EndsOf DEF DbSize
<1>3. k = n + 1 => j = 0 /\ k - 1 = n
  BY <1>1 DEF Placed
<1>4. j = 0 => Rest = DbSize(full) - Ends(full)[k - 1]
  <2>1. j = 0 => Rest = DbSize(full) - Ends(full)[k - 1] - 0
    BY DEF Rest
  <2> HIDE DEF k, j, n
  <2> QED
    BY <1>2, <2>1
<1>5. ASSUME j # 0
      PROVE  Rest \in Int /\ Rest >= full[k].size
  <2> DEFINE e == full[k]
  <2>1. k \in 1 .. n /\ j < e.n /\ e \in SignatureList
    BY <1>1, <1>5 DEF Placed
  <2>2. /\ e.n \in Nat /\ e.size \in Nat /\ EslSize(e) = Header + e.n * e.size
        /\ EslSize(e) \in Nat
    BY <2>1, EslSizes
  <2>3. e.n * e.size - j * e.size >= e.size /\ j * e.size \in Nat /\ e.n * e.size \in Nat
    BY <1>1, <2>1, <2>2, Products
  <2>4. k \in 0 .. n /\ k # 0
    BY <2>1
  <2>5. Ends(full)[k] = Ends(full)[k - 1] + EslSize(e) /\ Ends(full)[k] \in Nat
    BY <2>4, EndsOf
  <2>6. Ends(full)[k] <= Ends(full)[n]
    BY <1>1, <2>1, <2>4, EndsGrow
  <2>7. Rest = DbSize(full) - Ends(full)[k - 1] - (Header + j * e.size)
    BY <1>5 DEF Rest
  <2>8. \A d, p, q, x, y, s \in Nat :
           q = p + (Header + x) /\ q <= d /\ x - y >= s
           => d - p - (Header + y) \in Int /\ d - p - (Header + y) >= s
    BY DEF Header
  <2>9. Ends(full)[k] = Ends(full)[k - 1] + (Header + e.n * e.size) /\ Ends(full)[k] <= DbSize(full)
    BY <1>2, <2>2, <2>5, <2>6
  <2>10. /\ DbSize(full) - Ends(full)[k - 1] - (Header + j * e.size) \in Int
         /\ DbSize(full) - Ends(full)[k - 1] - (Header + j * e.size) >= e.size
    <3> HIDE DEF k, j, n, e
    <3> QED
      BY <1>2, <2>2, <2>3, <2>5, <2>8, <2>9
  <2> QED
    BY <2>7, <2>10
<1>6. Rest \in Int
  BY <1>2, <1>4, <1>5
<1>7. k = n + 1 => Rest = 0
  BY <1>2, <1>3, <1>4
<1>8. k # n + 1 => k \in 1 .. n /\ full[k] \in SignatureList
  BY <1>1
<1> QED
  BY <1>4, <1>5, <1>6, <1>7, <1>8

(* There is a list in hand while there is more to do.                      *)
LEMMA MoreIsThere ==
    ASSUME full \in Databases, Placed, More
    PROVE  /\ at.k \in 1 .. Len(full) /\ full[at.k] \in SignatureList
           /\ full[at.k].size \in Nat /\ full[at.k].size # 0 /\ full[at.k].n \in Nat
           /\ at.j <= full[at.k].n
<1>1. at.k # Len(full) + 1
  BY RestBytes DEF More, MinSize, Header
<1>2. /\ at.k \in 1 .. Len(full) /\ full[at.k] \in SignatureList
      /\ full[at.k].size \in Nat /\ full[at.k].n \in Nat
  BY <1>1, RestBytes, EslSizes
<1>3. at.j <= full[at.k].n
  BY <1>2 DEF Placed
<1> QED
  BY <1>2, <1>3 DEF More

(* Where every signature is at least as large as the smallest the loop     *)
(* looks for, the loop ends only when none is left.                        *)
LEMMA LoopReachesEnd ==
    ASSUME full \in Databases, Placed, ~More, \A l \in DOMAIN full : full[l].size >= MinSize,
           NEW l \in DOMAIN full, NEW m \in 1 .. full[l].n
    PROVE  Before(l, m)
<1> SUFFICES ASSUME ~Before(l, m) PROVE FALSE
  OBVIOUS
<1> DEFINE n == Len(full)
           k == at.k
<1>1. /\ l \in 1 .. n /\ full[l] \in SignatureList /\ n \in Nat /\ k \in 1 .. n + 1 /\ at.j \in Nat
      /\ full[l].size >= MinSize
  BY DEF Databases, Placed
<1>2. full[l].n \in Nat /\ full[l].size \in Nat /\ EslSize(full[l]) = Header + full[l].n * full[l].size
  BY <1>1, EslSizes
<1>3. k <= l /\ k # n + 1
  BY <1>1 DEF Before
<1>4. /\ full[k] \in SignatureList /\ k \in 1 .. n /\ Rest \in Int
      /\ at.j = 0 => Rest = DbSize(full) - Ends(full)[k - 1]
      /\ at.j # 0 => Rest >= full[k].size
  BY <1>3, RestBytes
<1>5. full[k].size >= MinSize /\ full[k].size \in Nat
  <2>1. k \in DOMAIN full
    BY <1>4 DEF Databases
  <2> QED
    BY <1>4, <2>1, EslSizes
<1>6. ~(Rest >= MinSize)
  BY <1>5 DEF More, MinSize, Header
<1>7. at.j = 0
  <2> HIDE DEF k, n
  <2> QED
    BY <1>4, <1>5, <1>6 DEF MinSize, Header
<1>8. full[l].n * full[l].size >= full[l].size /\ full[l].n * full[l].size \in Nat
  <2>1. 0 < full[l].n
    BY <1>2
  <2>2. full[l].n * full[l].size - 0 * full[l].size >= full[l].size
    BY <1>2, <2>1, Products
  <2> QED
    BY <1>2, <2>2
<1>9. /\ l \in 0 .. n /\ l # 0 /\ l - 1 \in 0 .. n /\ k - 1 \in 0 .. n /\ k - 1 <= l - 1
      /\ n \in 0 .. n /\ l <= n
  BY <1>1, <1>3, <1>4
<1>10. /\ Ends(full)[l] = Ends(full)[l - 1] + EslSize(full[l])
       /\ Ends(full)[l] \in Nat /\ Ends(full)[l - 1] \in Nat /\ Ends(full)[k - 1] \in Nat
       /\ Ends(full)[n] \in Nat
  BY <1>9, EndsOf
<1>11. Ends(full)[k - 1] <= Ends(full)[l - 1]
  BY <1>9, EndsGrow
<1>12. Ends(full)[l] <= Ends(full)[n]
  BY <1>9, EndsGrow
<1>13. Rest = Ends(full)[n] - Ends(full)[k - 1]
  BY <1>4, <1>7 DEF DbSize
<1> HIDE DEF k, n
<1> QED
  BY <1>1, <1>2, <1>6, <1>8, <1>10, <1>11, <1>12, <1>13 DEF MinSize, Header

---------------------------------------------------------------------------
(* The firmware's limits                                                   *)

LEMMA Extremes ==
    ASSUME NEW a \in Int, NEW b \in Int
    PROVE  /\ Min({a, b}) \in {a, b} /\ Min({a, b}) <= a /\ Min({a, b}) <= b
           /\ Max({a, b}) \in {a, b} /\ Max({a, b}) >= a /\ Max({a, b}) >= b
<1>1. \E x \in {a, b} : \A y \in {a, b} : x =< y
  <2>1. a <= b \/ b <= a
    OBVIOUS
  <2> QED
    BY <2>1
<1>2. \E x \in {a, b} : \A y \in {a, b} : x >= y
  <2>1. a >= b \/ b >= a
    OBVIOUS
  <2> QED
    BY <2>1
<1>3. Min({a, b}) \in {a, b} /\ \A y \in {a, b} : Min({a, b}) =< y
  BY <1>1 DEF Min
<1>4. Max({a, b}) \in {a, b} /\ \A y \in {a, b} : Max({a, b}) >= y
  BY <1>2 DEF Max
<1> QED
  BY <1>3, <1>4

LEMMA MaxGrows ==
    ASSUME NEW a \in Int, NEW b \in Int, a <= b
    PROVE  Max({a, 0}) \in Nat /\ Max({b, 0}) \in Nat /\ Max({a, 0}) <= Max({b, 0})
<1>1. Max({a, 0}) \in {a, 0} /\ Max({a, 0}) >= 0
  BY Extremes
<1>2. Max({b, 0}) \in {b, 0} /\ Max({b, 0}) >= 0 /\ Max({b, 0}) >= b
  BY Extremes
<1> QED
  BY <1>1, <1>2

RtInv ==
    /\ IsFiniteSet(DOMAIN rt)
    /\ \A x \in DOMAIN rt :
          /\ x[1] \in Vars /\ x[2] \in Nat /\ (x[2] # 0 => x[1] \in KeyDb)
          /\ rt[x].size \in Nat

LEMMA NameSizes ==
    ASSUME NEW x, x[1] \in Vars, x[2] \in Nat
    PROVE  NameSize(x) \in Nat
<1>1. RtNameLen[x[1]] \in Nat
  BY DEF RtNameLen
<1>2. Digits(x[2]) \in Nat
  BY DEF Digits
<1> QED
  BY <1>1, <1>2 DEF NameSize

(* What holds of the empty set, and of every set of which it holds when an *)
(* element is taken away, holds of every subset of a finite set: by the    *)
(* number of elements.                                                     *)
LEMMA SubsetInduction ==
    ASSUME NEW D, IsFiniteSet(D), NEW S, {} \in S,
           \A s \in SUBSET D : s # {} /\ (\A y \in s : s \ {y} \in S) => s \in S
    PROVE  SUBSET D \subseteq S
<1> DEFINE n == Cardinality(D)
           T == {m \in 0 .. n : \A s \in SUBSET D : Cardinality(s) <= m => s \in S}
<1>1. n \in Nat
  BY FS_CardinalityType
<1>2. \A s \in SUBSET D : /\ IsFiniteSet(s) /\ Cardinality(s) \in Nat /\ Cardinality(s) <= n
                         /\ (Cardinality(s) = 0 <=> s = {})
  BY FS_Subset, FS_CardinalityType, FS_EmptySet
<1> HIDE DEF n
<1>3. 0 \in T
  <2>1. \A s \in SUBSET D : Cardinality(s) <= 0 => s = {}
    BY <1>2
  <2>2. 0 \in 0 .. n
    BY <1>1
  <2> QED
    BY <2>1, <2>2
<1>4. ASSUME NEW m \in 1 .. n, m - 1 \in T PROVE m \in T
  <2>1. ASSUME NEW s \in SUBSET D, Cardinality(s) <= m PROVE s \in S
    <3>1. \A y \in s : s \ {y} \in SUBSET D /\ Cardinality(s \ {y}) = Cardinality(s) - 1
      BY <1>2, FS_RemoveElement
    <3>2. \A y \in s : s \ {y} \in S
      <4> TAKE y \in s
      <4>1. s \ {y} \in SUBSET D /\ Cardinality(s \ {y}) = Cardinality(s) - 1
        BY <3>1
      <4>2. Cardinality(s) - 1 <= m - 1
        BY <1>2, <2>1
      <4> QED
        BY <1>4, <4>1, <4>2
    <3> QED
      BY <3>2
  <2>2. m \in 0 .. n
    BY <1>1
  <2> QED
    BY <2>1, <2>2
<1>5. 0 .. n \subseteq T
  <2> HIDE DEF T
  <2> QED
    BY <1>1, <1>3, <1>4, UpTo
<1>6. n \in 0 .. n
  BY <1>1
<1> QED
  BY <1>2, <1>5, <1>6

(* g has the sums of w over the subsets of D.                              *)
IsSum(g, w, D) ==
    \A s \in SUBSET D :
        /\ g[s] \in Nat
        /\ g[s] = IF s = {} THEN 0
                  ELSE LET x == CHOOSE y \in s : TRUE IN w[x] + g[s \ {x}]

(* Whichever element is taken away, the rest of the sum is what is left.   *)
LEMMA SumOfRest ==
    ASSUME NEW D, IsFiniteSet(D), NEW w, \A x \in D : w[x] \in Nat, NEW g, IsSum(g, w, D),
           NEW e \in D
    PROVE  g[D] = w[e] + g[D \ {e}]
<1> DEFINE S == {s \in SUBSET D : \A y \in s : g[s] = w[y] + g[s \ {y}]}
<1>1. {} \in S
  OBVIOUS
<1>2. ASSUME NEW s \in SUBSET D, s # {}, \A y \in s : s \ {y} \in S PROVE s \in S
  <2> DEFINE c == CHOOSE y \in s : TRUE
  <2>1. c \in s /\ g[s] = w[c] + g[s \ {c}]
    BY <1>2 DEF IsSum
  <2> HIDE DEF c
  <2>2. ASSUME NEW y \in s PROVE g[s] = w[y] + g[s \ {y}]
    <3>1. CASE y = c
      BY <2>1, <3>1
    <3>2. CASE y # c
      <4> DEFINE t == s \ {c, y}
      <4>1. g[s \ {c}] = w[y] + g[t]
        <5>1. s \ {c} \in S /\ y \in s \ {c} /\ (s \ {c}) \ {y} = t
          BY <1>2, <2>1, <3>2
        <5> QED
          BY <5>1
      <4>2. g[s \ {y}] = w[c] + g[t]
        <5>1. s \ {y} \in S /\ c \in s \ {y} /\ (s \ {y}) \ {c} = t
          BY <1>2, <2>1, <3>2
        <5> QED
          BY <5>1
      <4>3. w[c] \in Nat /\ w[y] \in Nat /\ g[t] \in Nat
        <5>1. t \in SUBSET D /\ c \in D /\ y \in D
          BY <2>1
        <5> HIDE DEF t
        <5> QED
          BY <5>1 DEF IsSum
      <4> HIDE DEF t
      <4> QED
        BY <2>1, <4>1, <4>2, <4>3
    <3> QED
      BY <3>1, <3>2
  <2> QED
    BY <2>2
<1>3. SUBSET D \subseteq S
  <2> HIDE DEF S
  <2> QED
    BY <1>1, <1>2, SubsetInduction
<1>4. D \in S
  BY <1>3
<1> QED
  BY <1>4

(* Sums over the same numbers are the same.                                *)
LEMMA SumsAgree ==
    ASSUME NEW D, IsFiniteSet(D), NEW E, D \subseteq E, NEW w, NEW u, NEW g, NEW h,
           IsSum(g, w, D), IsSum(h, u, E), \A x \in D : u[x] = w[x]
    PROVE  g[D] = h[D]
<1> DEFINE S == {s \in SUBSET D : g[s] = h[s]}
<1>1. {} \in S
  BY DEF IsSum
<1>2. ASSUME NEW s \in SUBSET D, s # {}, \A y \in s : s \ {y} \in S PROVE s \in S
  <2> DEFINE c == CHOOSE y \in s : TRUE
  <2>1. c \in s /\ g[s] = w[c] + g[s \ {c}] /\ h[s] = u[c] + h[s \ {c}]
    <3>1. s \in SUBSET E
      OBVIOUS
    <3> QED
      BY <1>2, <3>1 DEF IsSum
  <2> HIDE DEF c
  <2>2. g[s \ {c}] = h[s \ {c}] /\ w[c] = u[c]
    BY <1>2, <2>1
  <2> QED
    BY <2>1, <2>2
<1>3. SUBSET D \subseteq S
  <2> HIDE DEF S
  <2> QED
    BY <1>1, <1>2, SubsetInduction
<1> QED
  BY <1>3

Sizes == [x \in DOMAIN rt |-> rt[x].size + NameSize(x)]

(* What the variables take is the sum of what each of them takes.          *)
LEMMA UsedIsSum == RtInv => \E g : IsSum(g, Sizes, DOMAIN rt) /\ Used = g[DOMAIN rt]
<1> SUFFICES ASSUME RtInv PROVE \E g : IsSum(g, Sizes, DOMAIN rt) /\ Used = g[DOMAIN rt]
  OBVIOUS
<1> DEFINE D == DOMAIN rt
           W(x) == rt[x].size + NameSize(x)
           P(s) == CHOOSE x \in s : TRUE
           Level(m) == {s \in SUBSET D : Cardinality(s) <= m}
           Rec(g, T) == g = [s \in T |-> IF s = {} THEN 0 ELSE W(P(s)) + g[s \ {P(s)}]]
           iter == CHOOSE g : Rec(g, SUBSET D)
           n == Cardinality(D)
<1>1. /\ IsFiniteSet(D) /\ n \in Nat
      /\ \A x \in D : W(x) \in Nat
  BY NameSizes, FS_CardinalityType DEF RtInv
<1>2. \A s \in SUBSET D : IsFiniteSet(s) /\ Cardinality(s) \in 0 .. n
  <2> TAKE s \in SUBSET D
  <2>1. IsFiniteSet(s) /\ Cardinality(s) <= n /\ Cardinality(s) \in Nat
    BY <1>1, FS_Subset, FS_CardinalityType
  <2> HIDE DEF n
  <2> QED
    BY <1>1, <2>1
<1>3. ASSUME NEW s \in SUBSET D, s # {}
      PROVE  /\ P(s) \in D /\ s \ {P(s)} \in SUBSET D
             /\ Cardinality(s \ {P(s)}) = Cardinality(s) - 1
  <2>1. P(s) \in s
    BY <1>3
  <2> QED
    BY <1>2, <1>3, <2>1, FS_RemoveElement
<1> HIDE DEF P, W, D, n
<1>4. ASSUME NEW m \in Nat, NEW s \in Level(m), s # {}
      PROVE  m # 0 /\ s \ {P(s)} \in Level(m - 1)
  <2>1. /\ s \in SUBSET D /\ Cardinality(s) <= m /\ s \ {P(s)} \in SUBSET D
        /\ Cardinality(s \ {P(s)}) = Cardinality(s) - 1 /\ Cardinality(s) \in Nat
        /\ Cardinality(s \ {P(s)}) \in Nat
    BY <1>1, <1>2, <1>3, <1>4
  <2> QED
    BY <2>1
<1>5. \A m \in 0 .. n : \E g : Rec(g, Level(m))
  <2> DEFINE S == {m \in 0 .. n : \E g : Rec(g, Level(m))}
  <2>1. 0 \in S
    <3>1. \A s \in Level(0) : s = {}
      BY <1>4
    <3>2. Rec([s \in Level(0) |-> 0], Level(0))
      BY <3>1
    <3>3. 0 \in 0 .. n
      BY <1>1
    <3> HIDE DEF Rec, Level
    <3> QED
      BY <3>2, <3>3
  <2>2. ASSUME NEW m \in 1 .. n, m - 1 \in S PROVE m \in S
    <3>1. PICK g : Rec(g, Level(m - 1))
      BY <2>2
    <3> DEFINE h == [s \in Level(m) |-> IF s = {} THEN 0 ELSE W(P(s)) + g[s \ {P(s)}]]
    <3>2. m \in Nat /\ \A s \in Level(m - 1) : s \in Level(m)
      BY <1>1, <1>2
    <3>3. ASSUME NEW s \in Level(m), s # {} PROVE h[s \ {P(s)}] = g[s \ {P(s)}]
      <4> DEFINE t == s \ {P(s)}
      <4>1. t \in Level(m - 1) /\ t \in Level(m)
        BY <1>4, <3>2, <3>3
      <4> HIDE DEF t
      <4>2. g[t] = IF t = {} THEN 0 ELSE W(P(t)) + g[t \ {P(t)}]
        BY <3>1, <4>1
      <4>3. h[t] = IF t = {} THEN 0 ELSE W(P(t)) + g[t \ {P(t)}]
        BY <4>1
      <4> QED
        BY <4>2, <4>3 DEF t
    <3>4. m \in 0 .. n
      BY <1>1
    <3>5. Rec(h, Level(m))
      <4> DEFINE Old(s) == IF s = {} THEN 0 ELSE W(P(s)) + g[s \ {P(s)}]
                 New(s) == IF s = {} THEN 0 ELSE W(P(s)) + h[s \ {P(s)}]
      <4>1. h = [s \in Level(m) |-> Old(s)]
        OBVIOUS
      <4>2. \A s \in Level(m) : Old(s) = New(s)
        BY <3>3
      <4>3. h = [s \in Level(m) |-> New(s)]
        <5> HIDE DEF h, Old, New, Level
        <5> QED
          BY <4>1, <4>2
      <4> QED
        BY <4>3
    <3> HIDE DEF Rec, h, Level
    <3> QED
      BY <3>4, <3>5
  <2>3. 0 .. n \subseteq S
    <3> HIDE DEF S
    <3> QED
      BY <1>1, <2>1, <2>2, UpTo
  <2> QED
    BY <2>3
<1>6. Level(n) = SUBSET D
  BY <1>1, <1>2
<1>7. Rec(iter, SUBSET D)
  <2>1. \E g : Rec(g, SUBSET D)
    <3> HIDE DEF Rec, Level
    <3>1. n \in 0 .. n
      BY <1>1
    <3> QED
      BY <1>5, <1>6, <3>1
  <2> QED
    BY <2>1
<1>8. Used = iter[D]
  BY DEF Used, MapThenSumSet, MapThenFoldSet, W, P, D
<1>9. \A s \in SUBSET D : iter[s] = IF s = {} THEN 0 ELSE W(P(s)) + iter[s \ {P(s)}]
  BY <1>7
<1> HIDE DEF iter
<1>10. SUBSET D \subseteq {s \in SUBSET D : iter[s] \in Nat}
  <2> DEFINE S == {s \in SUBSET D : iter[s] \in Nat}
  <2>1. {} \in S
    <3>1. {} \in SUBSET D
      OBVIOUS
    <3>2. iter[{}] = 0
      BY <1>9, <3>1
    <3> QED
      BY <3>1, <3>2
  <2>2. ASSUME NEW s \in SUBSET D, s # {}, \A y \in s : s \ {y} \in S PROVE s \in S
    <3>1. P(s) \in s
      BY <2>2 DEF P
    <3>2. W(P(s)) \in Nat /\ iter[s \ {P(s)}] \in Nat
      BY <1>1, <2>2, <3>1
    <3> QED
      BY <1>9, <2>2, <3>2
  <2> HIDE DEF S
  <2>3. SUBSET D \subseteq S
    BY <1>1, <2>1, <2>2, SubsetInduction
  <2> QED
    BY <2>3 DEF S
<1>11. \A s \in SUBSET D : s # {} => P(s) \in D /\ Sizes[P(s)] = W(P(s))
  BY <1>3 DEF Sizes, W, D
<1>12. IsSum(iter, Sizes, D)
  BY <1>9, <1>10, <1>11 DEF IsSum, P
<1> QED
  BY <1>8, <1>12 DEF D

LEMMA UsedIsNat == ASSUME RtInv PROVE Used \in Nat
  BY UsedIsSum DEF IsSum

(* One more variable takes more.                                           *)
LEMMA UsedGrows ==
    ASSUME RtInv, RtInv', NEW x, x \notin DOMAIN rt, DOMAIN rt' = DOMAIN rt \union {x},
           \A y \in DOMAIN rt : rt'[y] = rt[y]
    PROVE  Used \in Nat /\ Used' \in Nat /\ Used <= Used'
<1> DEFINE D == DOMAIN rt
           E == DOMAIN rt'
           w == Sizes
           u == Sizes'
<1>1. (RtInv => \E g : IsSum(g, Sizes, DOMAIN rt) /\ Used = g[DOMAIN rt])'
  BY UsedIsSum, PTL
<1>2. PICK g : IsSum(g, w, D) /\ Used = g[D]
  BY UsedIsSum
<1>3. PICK h : IsSum(h, u, E) /\ Used' = h[E]
  BY <1>1
<1>4. IsFiniteSet(D) /\ IsFiniteSet(E) /\ D \subseteq E /\ x \in E /\ E \ {x} = D
  BY DEF RtInv
<1>5. (\A y \in E : u[y] \in Nat) /\ \A y \in D : u[y] = w[y]
  <2>1. \A y \in E : rt'[y].size + NameSize(y) \in Nat
    BY NameSizes DEF RtInv
  <2>2. \A y \in E : u[y] \in Nat
    BY <2>1 DEF Sizes
  <2>3. \A y \in D : u[y] = w[y]
    <3> TAKE y \in D
    <3>1. y \in E /\ rt'[y] = rt[y]
      BY <1>4
    <3>2. w[y] = rt[y].size + NameSize(y)
      BY DEF Sizes
    <3>3. u[y] = rt'[y].size + NameSize(y)
      BY <3>1 DEF Sizes
    <3> QED
      BY <3>1, <3>2, <3>3
  <2> QED
    BY <2>2, <2>3
<1> HIDE DEF D, E, w, u
<1>6. h[E] = u[x] + h[D]
  <2>1. h[E] = u[x] + h[E \ {x}]
    BY <1>3, <1>4, <1>5, SumOfRest
  <2> QED
    BY <1>4, <2>1
<1>7. g[D] = h[D]
  BY <1>2, <1>3, <1>4, <1>5, SumsAgree
<1>8. u[x] \in Nat /\ g[D] \in Nat /\ h[E] \in Nat
  BY <1>2, <1>3, <1>4, <1>5 DEF IsSum
<1> QED
  BY <1>2, <1>3, <1>6, <1>7, <1>8

(* The same variables take the same.                                       *)
LEMMA UsedStays == ASSUME RtInv, RtInv', UNCHANGED rt PROVE Used' = Used
<1> DEFINE D == DOMAIN rt
           w == Sizes
           u == Sizes'
<1>1. (RtInv => \E g : IsSum(g, Sizes, DOMAIN rt) /\ Used = g[DOMAIN rt])'
  BY UsedIsSum, PTL
<1>2. PICK g : IsSum(g, w, D) /\ Used = g[D]
  BY UsedIsSum
<1>3. PICK h : IsSum(h, u, D) /\ Used' = h[D]
  BY <1>1
<1>4. IsFiniteSet(D) /\ \A x \in D : u[x] = w[x]
  BY DEF RtInv, Sizes
<1> HIDE DEF D, u, w
<1>5. g[D] = h[D]
  BY <1>2, <1>3, <1>4, SumsAgree
<1> QED
  BY <1>2, <1>3, <1>5

LEMMA MaxVarIsNat == ASSUME RtInv, conf \in Configs PROVE MaxVar \in Nat
<1>1. conf.max \in Nat
  BY ConfigsAssumption
<1>2. conf.max - Used \in Int
  BY <1>1, UsedIsNat
<1>3. \A a \in Int : Max({a, 0}) \in Nat
  <2> TAKE a \in Int
  <2>1. Max({a, 0}) \in {a, 0} /\ Max({a, 0}) >= 0
    BY Extremes
  <2> QED
    BY <2>1
<1>4. Max({conf.max - Used, 0}) \in Nat
  BY <1>2, <1>3
<1> QED
  BY <1>1, <1>4 DEF MaxVar

---------------------------------------------------------------------------
(* What is held of a variable                                              *)

Contents(v, d) == IF v \in KeyDb THEN d \in Databases ELSE d \in Seq(0 .. 255)

HoldInv ==
    /\ \A v \in Vars : nv[v] = conf.nv[v] \/ nv[v] = Absent
    /\ \A v \in Vars : Contents(v, data[v])
    /\ Contents(Cur, full)

LEMMA NoContents == \A v : Contents(v, <<>>)
  BY EmptySeq DEF Contents, Databases

LEMMA StoredContents ==
    ASSUME conf \in Configs, NEW v \in Vars
    PROVE  Contents(v, conf.nv[v].data) /\ Contents(v, Absent.data)
<1>1. v \in KeyDb => conf.nv[v].data \in Databases
  BY ConfigsAssumption DEF Databases
<1>2. v \notin KeyDb => conf.nv[v].data \in Seq(0 .. 255)
  BY ConfigsAssumption
<1> QED
  BY <1>1, <1>2, NoContents DEF Contents, Absent

LEMMA FilledContents ==
    ASSUME conf \in Configs, NEW v \in Vars, Contents(v, data[v])
    PROVE  Contents(v, FullData(v)) /\ Contents(v, Addend(v))
<1>1. CASE v \in KeyDb
  <2>1. Addend(v) \in Databases /\ data[v] \in Databases
    BY <1>1, ConfigsAssumption DEF Addend, Contents, Databases
  <2>2. NullSha \in Databases
    <3>1. [id |-> "null", n |-> 1, size |-> 48] \in SignatureList
      BY DEF SignatureList
    <3>2. \A e \in SignatureList : <<e>> \in Seq(SignatureList)
      OBVIOUS
    <3> QED
      BY <3>1, <3>2, Zenon DEF NullSha, Databases
  <2>3. Addend(v) \o data[v] \in Databases
    BY <2>1 DEF Databases
  <2> QED
    BY <1>1, <2>1, <2>2, <2>3 DEF FullData, Contents
<1>2. CASE v \notin KeyDb
  <2>1. FullData(v) = <<>> \o data[v] /\ data[v] \in Seq(0 .. 255) /\ Addend(v) = <<>>
    BY <1>2 DEF FullData, Addend, Contents
  <2> QED
    BY <1>2, <2>1, ConcatEmptySeq, NoContents DEF Contents
<1> QED
  BY <1>1, <1>2

LEMMA HoldInit == Init => HoldInv
<1> SUFFICES ASSUME Init PROVE HoldInv
  OBVIOUS
<1>1. nv = conf.nv /\ full = <<>> /\ \A v \in Vars : data[v] = <<>>
  BY DEF Init
<1> QED
  BY <1>1, NoContents DEF HoldInv

LEMMA HoldStep == ShapeInv /\ HoldInv /\ [Next]_vars => HoldInv'
<1> SUFFICES ASSUME ShapeInv, HoldInv, [Next]_vars PROVE HoldInv'
  OBVIOUS
<1>0. /\ conf \in Configs /\ Cur \in Vars /\ DOMAIN nv = Vars /\ DOMAIN data = Vars
      /\ \A v \in Vars : nv[v] = conf.nv[v] \/ nv[v] = Absent
      /\ \A v \in Vars : Contents(v, data[v])
      /\ Contents(Cur, full)
  <2>1. DOMAIN data = Vars
    BY DEF ShapeInv
  <2> QED
    BY <2>1, VarsFacts DEF ShapeInv, HoldInv, Cur
<1>a. \A v, d : Contents(v, d)' = Contents(v, d)
  BY DEF Contents
<1>1. CASE ImportStep
  <2>1. /\ UNCHANGED <<conf, cur, full>> /\ Cur' = Cur
        /\ nv' = nv \/ nv' = [nv EXCEPT ![Cur] = Absent]
    BY <1>1, ImportFrame DEF loop, Cur
  <2>2. data' = data \/ \E d : data' = [data EXCEPT ![Cur] = d] /\ Contents(Cur, d)
    <3>1. CASE ReadGood
      <4>1. Contents(Cur, nv[Cur].data)
        BY <1>0, StoredContents
      <4> QED
        BY <3>1, <4>1, NoContents DEF ReadGood
    <3>2. CASE DefaultInverse
      <4>1. Cur \notin KeyDb /\ (data' = data \/ data' = [data EXCEPT ![Cur] = <<1>>])
        BY <3>2 DEF DefaultInverse, Inverted, KeyDb
      <4>2. Contents(Cur, <<1>>)
        BY <4>1 DEF Contents
      <4> QED
        BY <4>1, <4>2
    <3>3. CASE NothingToRead \/ DeleteBad \/ DeleteBadFails
      BY <3>3 DEF NothingToRead, DeleteBad, DeleteBadFails, boot
    <3> QED
      BY <1>1, <3>1, <3>2, <3>3 DEF ImportStep
  <2>3. \A v \in Vars : nv'[v] = nv[v] \/ nv'[v] = Absent
    BY <1>0, <2>1
  <2>4. \A v \in Vars : Contents(v, data'[v])
    <3> HIDE DEF Contents
    <3> QED
      BY <1>0, <2>2
  <2> QED
    BY <1>0, <1>a, <2>1, <2>3, <2>4 DEF HoldInv
<1>2. CASE MirrorStep
  <2>1. UNCHANGED <<conf, nv, cur>> /\ Cur' = Cur
    BY <1>2, MirrorFrame DEF Cur
  <2>2. Contents(Cur, full')
    BY <1>0, <1>2, MirrorFull, FilledContents
  <2>3. \A v \in Vars : Contents(v, data'[v])
    <3> TAKE v \in Vars
    <3>1. \/ data'[v] = data[v] \/ data'[v] = <<>>
          \/ Cur = v /\ data'[v] = full
      BY <1>0, <1>2, MirrorData
    <3> QED
      BY <1>0, <3>1, NoContents
  <2> QED
    BY <1>0, <1>a, <2>1, <2>2, <2>3 DEF HoldInv
<1>3. CASE CombineOne \/ InstallTable \/ CheckMokRequest \/ Decide \/ Finished \/ UNCHANGED vars
  <2>1. UNCHANGED <<conf, nv, data, cur, full>>
    BY <1>3 DEF CombineOne, InstallTable, CheckMokRequest, Decide, Finished, vars, boot, loop
  <2> QED
    BY <1>0, <1>a, <2>1 DEF HoldInv, Cur
<1>4. CASE NextVariable
  <2>1. UNCHANGED <<conf, nv, data>> /\ full' = <<>>
    BY <1>4 DEF NextVariable, boot
  <2> QED
    BY <1>0, <1>a, <2>1, NoContents DEF HoldInv
<1> QED
  BY <1>1, <1>2, <1>3, <1>4, NextSplits

---------------------------------------------------------------------------
(* The position of the loop, and the copies it has made                    *)

PlaceInv ==
    /\ DOMAIN at = {"k", "j", "i", "did"}
    /\ pc \in {"db", "loop"} => Cur \in KeyDb
    /\ pc = "set" => pass = 1 /\ Cur \notin KeyDb
    /\ Cur \notin KeyDb => at = Start
    /\ pass = 1 => at.i = 0
    /\ at.i \in Nat /\ Placed

LEMMA StartPlace ==
    /\ DOMAIN Start = {"k", "j", "i", "did"}
    /\ Start.k = 1 /\ Start.j = 0 /\ Start.i = 0 /\ ~Start.did
  BY DEF Start

LEMMA StartIsPlaced ==
    ASSUME Contents(Cur, full)', at' = Start
    PROVE  at'.i = 0 /\ Placed'
<1>1. Len(full') \in Nat
  BY DEF Contents, Databases
<1>2. at'.k = 1 /\ at'.j = 0 /\ at'.i = 0
  BY StartPlace
<1> QED
  BY <1>1, <1>2 DEF Placed

(* What the loop may find of the list in hand.                             *)
Portion(n) == n = HowMany(Max({MaxVar - LoopNameSize, 0}), full[at.k])

LEMMA PortionSizes ==
    ASSUME ShapeInv, RtInv, HoldInv, PlaceInv, pc = "loop", More, NEW n, Portion(n)
    PROVE  /\ n \in Nat /\ at.j + n <= full[at.k].n
           /\ at.k \in 1 .. Len(full) /\ at.j \in Nat /\ at.i \in Nat
           /\ full[at.k].n \in Nat /\ full[at.k].size \in Nat /\ full[at.k].size # 0
<1> DEFINE e == full[at.k]
           room == Max({MaxVar - LoopNameSize, 0})
<1>1. Cur \in KeyDb /\ Cur \in Vars /\ full \in Databases /\ Placed /\ at.i \in Nat
  BY VarsFacts DEF PlaceInv, HoldInv, Contents
<1>2. /\ at.k \in 1 .. Len(full) /\ e.size \in Nat /\ e.size # 0 /\ e.n \in Nat
      /\ at.j <= e.n /\ at.j \in Nat
  BY <1>1, MoreIsThere DEF Placed
<1>3. LoopNameSize \in Nat
  <2>1. NameSize(<<Cur, 0>>) \in Nat /\ NameSize(<<Cur, at.i>>) \in Nat
    BY <1>1, NameSizes
  <2> QED
    BY <2>1 DEF LoopNameSize
<1>4. MaxVar - LoopNameSize \in Int
  BY <1>3, MaxVarIsNat DEF ShapeInv
<1>5. \A a \in Int : Max({a, 0}) \in Nat
  <2> TAKE a \in Int
  <2>1. Max({a, 0}) \in {a, 0} /\ Max({a, 0}) >= 0
    BY Extremes
  <2> QED
    BY <2>1
<1>6. room \in Nat
  BY <1>4, <1>5
<1>7. e.n - at.j \in Nat
  BY <1>2
<1> HIDE DEF e, room
<1>8. CASE room > Header
  <2>1. room - Header \in Nat /\ 0 <= room - Header
    BY <1>6, <1>8 DEF Header
  <2>2. (room - Header) \div e.size \in Nat
    BY <1>2, <2>1, Quotients
  <2>3. n = Min({(room - Header) \div e.size, e.n - at.j})
    BY <1>8 DEF Portion, HowMany, e, room
  <2>4. \A a, b \in Nat : Min({a, b}) \in Nat /\ Min({a, b}) <= b
    <3> TAKE a, b \in Nat
    <3>1. Min({a, b}) \in {a, b} /\ Min({a, b}) <= b
      BY Extremes
    <3> QED
      BY <3>1
  <2>5. n \in Nat /\ n <= e.n - at.j
    BY <1>7, <2>2, <2>3, <2>4
  <2> QED
    BY <1>1, <1>2, <2>5 DEF e
<1>9. CASE ~(room > Header)
  <2>1. n = 0
    BY <1>9 DEF Portion, HowMany, e, room
  <2> QED
    BY <1>1, <1>2, <2>1 DEF e
<1> QED
  BY <1>8, <1>9

(* An iteration of the loop skips the list, passes over what the first     *)
(* pass has written, writes a portion, or runs out of memory.              *)
LEMMA Iteration ==
    ASSUME MirrorEsl
    PROVE  \E n : /\ Portion(n)
                  /\ \/ /\ n = 0
                        /\ at' = [at EXCEPT !.k = at.k + 1, !.j = 0]
                        /\ trouble' = trouble \union {"skipped"}
                        /\ UNCHANGED <<pc, status, rt>>
                     \/ /\ n > 0 /\ pass = 2 /\ at.i = 0
                        /\ at' = [Advance(n) EXCEPT !.i = 1]
                        /\ status' = "SUCCESS" /\ Ok
                        /\ UNCHANGED <<pc, rt>>
                     \/ /\ n > 0 /\ ~(pass = 2 /\ at.i = 0)
                        /\ SetVariable(<<Cur, at.i>>, Header + n * full[at.k].size,
                                       {<<full[at.k].id, at.j + m>> : m \in 1 .. n})
                        /\ at' = IF status' = "SUCCESS"
                                 THEN [Advance(n) EXCEPT !.did = TRUE,
                                                         !.i = IF pass = 1 THEN @ ELSE @ + 1]
                                 ELSE at
                        /\ pc' = IF pass = 1 \/ status' # "SUCCESS" THEN "end" ELSE "loop"
                     \/ /\ n > 0 /\ Fault("nomem")
                        /\ status' = "OUT_OF_RESOURCES" /\ pc' = "end"
                        /\ UNCHANGED <<rt, at>>
<1>1. EslNext
  BY DEF MirrorEsl
<1> DEFINE n == HowMany(Max({MaxVar - LoopNameSize, 0}), full[at.k])
<1>2. Portion(n)
  BY DEF Portion
<1> WITNESS n
<1>3. \/ /\ n = 0
         /\ at' = [at EXCEPT !.k = at.k + 1, !.j = 0]
         /\ trouble' = trouble \union {"skipped"}
         /\ UNCHANGED <<pc, status, rt, faults>>
      \/ /\ n > 0 /\ pass = 2 /\ at.i = 0
         /\ at' = [Advance(n) EXCEPT !.i = 1]
         /\ status' = "SUCCESS" /\ Ok
         /\ UNCHANGED <<pc, rt>>
      \/ /\ n > 0 /\ ~(pass = 2 /\ at.i = 0)
         /\ SetVariable(<<Cur, at.i>>, Header + n * full[at.k].size,
                        {<<full[at.k].id, at.j + m>> : m \in 1 .. n})
         /\ at' = IF status' = "SUCCESS"
                  THEN [Advance(n) EXCEPT !.did = TRUE,
                                          !.i = IF pass = 1 THEN @ ELSE @ + 1]
                  ELSE at
         /\ pc' = IF pass = 1 \/ status' # "SUCCESS" THEN "end" ELSE "loop"
      \/ /\ n > 0 /\ ~(pass = 2 /\ at.i = 0) /\ Fault("nomem")
         /\ status' = "OUT_OF_RESOURCES" /\ pc' = "end"
         /\ UNCHANGED <<rt, at>>
  BY <1>1, Zenon DEF EslNext
<1> HIDE DEF n
<1> QED
  BY <1>2, <1>3, Zenon

LEMMA AdvancePlace ==
    ASSUME DOMAIN at = {"k", "j", "i", "did"}, NEW n
    PROVE  /\ Advance(n).k = IF at.j + n = full[at.k].n THEN at.k + 1 ELSE at.k
           /\ Advance(n).j = IF at.j + n = full[at.k].n THEN 0 ELSE at.j + n
           /\ \A i, d : /\ [Advance(n) EXCEPT !.i = i].k = Advance(n).k
                        /\ [Advance(n) EXCEPT !.i = i].j = Advance(n).j
                        /\ [Advance(n) EXCEPT !.i = i].i = i
                        /\ [Advance(n) EXCEPT !.did = d, !.i = i].k = Advance(n).k
                        /\ [Advance(n) EXCEPT !.did = d, !.i = i].j = Advance(n).j
                        /\ [Advance(n) EXCEPT !.did = d, !.i = i].i = i
                        /\ [Advance(n) EXCEPT !.did = d, !.i = i].did = d
<1>1. CASE at.j + n = full[at.k].n
  BY <1>1 DEF Advance
<1>2. CASE at.j + n # full[at.k].n
  BY <1>2 DEF Advance
<1> QED
  BY <1>1, <1>2

(* Where the loop is after an iteration.                                   *)
LEMMA IterationPlace ==
    ASSUME ShapeInv, RtInv, HoldInv, PlaceInv, MirrorEsl
    PROVE  /\ Placed' /\ at'.i \in Nat /\ (pass = 1 => at'.i = 0)
<1>0. pc = "loop" /\ More /\ full' = full
  BY DEF MirrorEsl
<1>1. PICK n : /\ Portion(n)
               /\ \/ at' = [at EXCEPT !.k = at.k + 1, !.j = 0]
                  \/ pass = 2 /\ at' = [Advance(n) EXCEPT !.i = 1]
                  \/ at' = [Advance(n) EXCEPT !.did = TRUE,
                                              !.i = IF pass = 1 THEN @ ELSE @ + 1]
                  \/ at' = at
  BY Iteration
<1>2. /\ n \in Nat /\ at.j + n <= full[at.k].n
      /\ at.k \in 1 .. Len(full) /\ at.j \in Nat /\ at.i \in Nat
      /\ full[at.k].n \in Nat /\ Len(full) \in Nat
  BY <1>0, <1>1, PortionSizes DEF HoldInv, Contents, Databases
<1>3. DOMAIN at = {"k", "j", "i", "did"} /\ Placed /\ (pass = 1 => at.i = 0)
  BY DEF PlaceInv
<1>4. Advance(n).i = at.i
  BY <1>3, LoopPosition
<1>5. ASSUME at'.k = Advance(n).k, at'.j = Advance(n).j PROVE Placed'
  <2>1. CASE at.j + n = full[at.k].n
    <3>1. at'.k = at.k + 1 /\ at'.j = 0
      BY <1>3, <1>5, <2>1, AdvancePlace
    <3>2. at.k + 1 \in 1 .. Len(full) + 1
      BY <1>2
    <3> QED
      BY <1>0, <3>1, <3>2 DEF Placed
  <2>2. CASE at.j + n # full[at.k].n
    <3>1. at'.k = at.k /\ at'.j = at.j + n
      BY <1>3, <1>5, <2>2, AdvancePlace
    <3>2. at.j + n \in Nat /\ at.j + n < full[at.k].n /\ at.k <= Len(full)
          /\ at.k \in 1 .. Len(full) + 1
      BY <1>2, <2>2
    <3> QED
      BY <1>0, <3>1, <3>2 DEF Placed
  <2> QED
    BY <2>1, <2>2
<1>6. CASE at' = [at EXCEPT !.k = at.k + 1, !.j = 0]
  <2>1. at'.k = at.k + 1 /\ at'.j = 0 /\ at'.i = at.i
    BY <1>3, <1>6
  <2>2. at.k + 1 \in 1 .. Len(full) + 1
    BY <1>2
  <2> QED
    BY <1>0, <1>2, <1>3, <2>1, <2>2 DEF Placed
<1>7. CASE pass = 2 /\ at' = [Advance(n) EXCEPT !.i = 1]
  <2>1. at'.k = Advance(n).k /\ at'.j = Advance(n).j /\ at'.i = 1
    BY <1>3, <1>7, AdvancePlace
  <2> QED
    BY <1>5, <1>7, <2>1
<1>8. CASE at' = [Advance(n) EXCEPT !.did = TRUE, !.i = IF pass = 1 THEN @ ELSE @ + 1]
  <2> DEFINE i == IF pass = 1 THEN Advance(n).i ELSE Advance(n).i + 1
  <2>1. at' = [Advance(n) EXCEPT !.did = TRUE, !.i = i]
    BY <1>8
  <2>2. at'.k = Advance(n).k /\ at'.j = Advance(n).j /\ at'.i = i
    BY <1>3, <2>1, AdvancePlace
  <2>3. i \in Nat /\ (pass = 1 => i = 0)
    BY <1>2, <1>3, <1>4
  <2> QED
    BY <1>5, <2>2, <2>3
<1>9. CASE at' = at
  BY <1>0, <1>2, <1>3, <1>9 DEF Placed
<1> QED
  BY <1>1, <1>6, <1>7, <1>8, <1>9

LEMMA PlaceInit == Init => PlaceInv
<1> SUFFICES ASSUME Init PROVE PlaceInv
  OBVIOUS
<1>1. at = Start /\ full = <<>> /\ pc = "import"
  BY DEF Init
<1>2. Len(full) + 1 = 1
  BY <1>1
<1> QED
  BY <1>1, <1>2, StartPlace DEF PlaceInv, Placed

LEMMA PlaceStep == ShapeInv /\ RtInv /\ HoldInv /\ PlaceInv /\ [Next]_vars => PlaceInv'
<1> SUFFICES ASSUME ShapeInv, RtInv, HoldInv, PlaceInv, [Next]_vars PROVE PlaceInv'
  OBVIOUS
<1>0. DOMAIN at' = {"k", "j", "i", "did"}
  BY LoopShape DEF PlaceInv
<1>a. Contents(Cur, full)'
  BY HoldStep DEF HoldInv
<1>b. ASSUME UNCHANGED <<full, at>> PROVE Placed' /\ at'.i = at.i /\ at'.i \in Nat
  BY <1>b DEF Placed, PlaceInv
<1>1. CASE ImportStep
  <2>1. UNCHANGED <<full, at, pass>> /\ pc' \notin {"db", "loop", "set"} /\ Cur' = Cur
    BY <1>1, ImportFrame DEF loop, Cur
  <2> QED
    BY <1>0, <1>b, <2>1 DEF PlaceInv
<1>2. CASE Fill
  <2>1. /\ at' = Start /\ (pc' \in {"db", "loop"} => Cur \in KeyDb) /\ Cur' = Cur
        /\ pass' = pass /\ (pc' = "set" => pass = 1 /\ Cur \notin KeyDb)
    BY <1>2 DEF Fill, Cur
  <2> QED
    BY <1>0, <1>a, <2>1, StartIsPlaced DEF PlaceInv
<1>3. CASE MirrorEsl
  <2>1. pc = "loop" /\ pass' = pass /\ Cur' = Cur /\ pc' # "set"
    BY <1>3, Iteration DEF MirrorEsl, Cur
  <2>2. Cur \in KeyDb
    BY <2>1 DEF PlaceInv
  <2> QED
    BY <1>0, <1>3, <2>1, <2>2, IterationPlace DEF PlaceInv
<1>4. CASE MirrorStep /\ ~Fill /\ ~MirrorEsl
  <2>1. UNCHANGED <<full, at, pass>> /\ Cur' = Cur
    BY <1>4, MirrorFrame DEF MirrorStep, DeleteRt, SetPlain, MirrorWhole, QueryFails, Split, LoopDone,
       MirrorEnd, Measure, Log, Settle, loop, Cur
  <2>2. pc' # "set" /\ (pc' \in {"db", "loop"} => pc = "db")
    BY <1>4 DEF MirrorStep, DeleteRt, SetPlain, MirrorWhole, QueryFails, Split, LoopDone,
       MirrorEnd, Measure, Log, Settle
  <2> QED
    BY <1>0, <1>b, <2>1, <2>2 DEF PlaceInv
<1>5. CASE NextVariable
  <2>1. at' = Start /\ pc' \notin {"db", "loop", "set"}
    BY <1>5 DEF NextVariable
  <2> QED
    BY <1>0, <1>a, <2>1, StartIsPlaced DEF PlaceInv
<1>6. CASE InstallTable
  <2>1. UNCHANGED <<full, at>> /\ pass' = 2 /\ pc' = "import" /\ Cur' = Cur
    BY <1>6 DEF InstallTable, loop, Cur
  <2> QED
    BY <1>0, <1>b, <2>1 DEF PlaceInv
<1>7. CASE CombineOne \/ CheckMokRequest \/ Decide
  <2>1. UNCHANGED <<full, at, pass>> /\ Cur' = Cur /\ pc' \notin {"db", "loop", "set"}
    BY <1>7 DEF CombineOne, CheckMokRequest, Decide, loop, Cur
  <2> QED
    BY <1>0, <1>b, <2>1 DEF PlaceInv
<1>8. CASE Finished \/ UNCHANGED vars
  <2>1. UNCHANGED <<full, at, pass, pc>> /\ Cur' = Cur
    BY <1>8 DEF Finished, vars, Cur
  <2> QED
    BY <1>0, <1>b, <2>1 DEF PlaceInv
<1> QED
  BY <1>1, <1>2, <1>3, <1>4, <1>5, <1>6, <1>7, <1>8, NextSplits

LEMMA Written ==
    ASSUME NEW x, NEW n, NEW s, SetVariable(x, n, s)
    PROVE  \/ UNCHANGED rt /\ status' # "SUCCESS" /\ trouble' # {}
           \/ /\ status' = "SUCCESS" /\ trouble' = trouble
              /\ DOMAIN rt' = DOMAIN rt \union {x}
              /\ \A y \in DOMAIN rt' : y # x => rt'[y] = rt[y]
              /\ rt'[x].size = n /\ rt'[x].sigs = s
<1> DEFINE new == [y \in DOMAIN rt \union {x} |->
                     IF y = x THEN [size |-> n, sigs |-> s, ours |-> TRUE] ELSE rt[y]]
<1>1. \/ rt' = new /\ status' = "SUCCESS" /\ Ok
      \/ /\ UNCHANGED rt /\ status' \in {"INVALID_PARAMETER", "OUT_OF_RESOURCES", "DEVICE_ERROR"}
         /\ trouble' = trouble \union {"set"}
  BY DEF SetVariable, Fault
<1>2. CASE rt' = new /\ status' = "SUCCESS" /\ Ok
  <2>1. /\ DOMAIN new = DOMAIN rt \union {x}
        /\ \A y \in DOMAIN new : y # x => new[y] = rt[y]
        /\ new[x] = [size |-> n, sigs |-> s, ours |-> TRUE]
    OBVIOUS
  <2> HIDE DEF new
  <2> QED
    BY <1>2, <2>1 DEF Ok
<1> QED
  BY <1>1, <1>2

(* What a step of the copying writes, and under which name.                *)
LEMMA MirrorWrites ==
    ASSUME ShapeInv, RtInv, HoldInv, PlaceInv, MirrorStep
    PROVE  \/ UNCHANGED rt
           \/ /\ DeleteRt /\ pass = 1 /\ Cur \in DeleteFirst
              /\ rt' = [x \in DOMAIN rt \ {<<Cur, 0>>} |-> rt[x]]
           \/ \E i, n \in Nat : \E s : SetVariable(<<Cur, i>>, n, s) /\ (i # 0 => Cur \in KeyDb)
<1>0. /\ pc \in {"db", "loop"} => Cur \in KeyDb /\ full \in Databases
      /\ Len(full) \in Nat
  BY DEF PlaceInv, HoldInv, Contents, Databases
<1>a. \A db \in Databases : DbSize(db) \in Nat
  BY PrependedIsLarger
<1>b. NullSha \in Databases
  <2>1. [id |-> "null", n |-> 1, size |-> 48] \in SignatureList
    BY DEF SignatureList
  <2>2. \A e \in SignatureList : <<e>> \in Seq(SignatureList)
    OBVIOUS
  <2> QED
    BY <2>1, <2>2, Zenon DEF NullSha, Databases
<1>1. CASE DeleteRt
  BY <1>1 DEF DeleteRt
<1>2. CASE Fill \/ QueryFails \/ Split \/ LoopDone \/ Measure \/ Log \/ Settle
  BY <1>2 DEF Fill, QueryFails, Split, LoopDone, Measure, Log, Settle
<1>3. CASE SetPlain
  <2>1. SetVariable(<<Cur, 0>>, Len(full), full)
    BY <1>3 DEF SetPlain
  <2> QED
    BY <1>0, <2>1
<1>4. CASE MirrorWhole
  <2>1. \/ SetVariable(<<Cur, 0>>, DbSize(full), Signatures(full))
        \/ UNCHANGED rt
    BY <1>4 DEF MirrorWhole
  <2>2. DbSize(full) \in Nat
    BY <1>0, <1>4, <1>a DEF MirrorWhole
  <2> QED
    BY <2>1, <2>2
<1>5. CASE MirrorEsl
  <2>0. pc = "loop" /\ More
    BY <1>5 DEF MirrorEsl
  <2>1. PICK n : /\ Portion(n)
                 /\ \/ UNCHANGED rt
                    \/ \E s : SetVariable(<<Cur, at.i>>, Header + n * full[at.k].size, s)
    BY <1>5, Iteration
  <2>2. n \in Nat /\ full[at.k].size \in Nat /\ at.i \in Nat
    BY <2>0, <2>1, PortionSizes
  <2>3. Header + n * full[at.k].size \in Nat
    BY <2>2 DEF Header
  <2> QED
    BY <1>0, <2>0, <2>1, <2>2, <2>3
<1>6. CASE MirrorEnd
  <2>1. \/ SetVariable(<<Cur, 0>>, DbSize(NullSha), Signatures(NullSha))
        \/ UNCHANGED rt
    BY <1>6 DEF MirrorEnd
  <2> QED
    BY <1>a, <1>b, <2>1
<1> QED
  BY <1>1, <1>2, <1>3, <1>4, <1>5, <1>6 DEF MirrorStep

LEMMA RtUnchanged ==
    ASSUME [Next]_vars, ~MirrorStep
    PROVE  UNCHANGED rt
<1>1. CASE ImportStep
  BY <1>1, ImportFrame
<1>2. CASE CombineOne \/ NextVariable \/ InstallTable \/ CheckMokRequest \/ Decide
           \/ Finished \/ UNCHANGED vars
  BY <1>2 DEF CombineOne, NextVariable, InstallTable, CheckMokRequest, Decide, Finished, vars
<1> QED
  BY <1>1, <1>2, NextSplits

LEMMA VarsAreFinite == IsFiniteSet(Vars)
<1>1. Vars = {Order[k] : k \in 1 .. 7}
  BY OrderFacts DEF Vars, Range
<1>2. IsFiniteSet(1 .. 7)
  <2>1. 1 \in Int /\ 7 \in Int
    OBVIOUS
  <2> QED
    BY <2>1, FS_Interval, Zenon
<1>3. [k \in 1 .. 7 |-> Order[k]] \in Surjection(1 .. 7, Vars)
  BY <1>1 DEF Surjection
<1> QED
  BY <1>2, <1>3, FS_Surjection

LEMMA RtInit == Init => RtInv
<1> SUFFICES ASSUME Init PROVE RtInv
  OBVIOUS
<1> DEFINE F == DOMAIN conf.foreign
           D == {<<v, 0>> : v \in F}
<1>1. /\ rt = [x \in D |-> [size |-> conf.foreign[x[1]], sigs |-> {}, ours |-> FALSE]]
      /\ conf \in Configs
  BY DEF Init
<1>2. F \subseteq Vars /\ \A v \in F : conf.foreign[v] \in Nat
  BY <1>1, ConfigsAssumption
<1> HIDE DEF F
<1>3. IsFiniteSet(F)
  BY <1>2, VarsAreFinite, FS_Subset
<1>4. [v \in F |-> <<v, 0>>] \in Surjection(F, D)
  BY DEF Surjection
<1>5. IsFiniteSet(D)
  BY <1>3, <1>4, FS_Surjection
<1>6. \A x \in D : x[1] \in F /\ x[1] \in Vars /\ x[2] = 0
  BY <1>2
<1> HIDE DEF D
<1> QED
  BY <1>1, <1>2, <1>5, <1>6 DEF RtInv

LEMMA RtStep == ShapeInv /\ RtInv /\ HoldInv /\ PlaceInv /\ [Next]_vars => RtInv'
<1> SUFFICES ASSUME ShapeInv, RtInv, HoldInv, PlaceInv, [Next]_vars PROVE RtInv'
  OBVIOUS
<1>1. CASE UNCHANGED rt
  BY <1>1 DEF RtInv
<1>2. CASE rt' = [x \in DOMAIN rt \ {<<Cur, 0>>} |-> rt[x]]
  <2>1. IsFiniteSet(DOMAIN rt \ {<<Cur, 0>>})
    BY FS_RemoveElement DEF RtInv
  <2> QED
    BY <1>2, <2>1 DEF RtInv
<1>3. CASE \E i, n \in Nat : \E s : SetVariable(<<Cur, i>>, n, s) /\ (i # 0 => Cur \in KeyDb)
  <2>0. PICK i \in Nat, n \in Nat : \E s : SetVariable(<<Cur, i>>, n, s) /\ (i # 0 => Cur \in KeyDb)
    BY <1>3
  <2>1. PICK s : SetVariable(<<Cur, i>>, n, s) /\ (i # 0 => Cur \in KeyDb)
    BY <2>0
  <2>2. CASE UNCHANGED rt
    BY <2>2 DEF RtInv
  <2>3. CASE ~UNCHANGED rt
    <3> DEFINE x == <<Cur, i>>
    <3>1. /\ DOMAIN rt' = DOMAIN rt \union {x}
          /\ \A y \in DOMAIN rt' : y # x => rt'[y] = rt[y]
          /\ rt'[x].size = n
      BY <2>1, <2>3, Written
    <3>2. x[1] \in Vars /\ x[2] \in Nat /\ (x[2] # 0 => x[1] \in KeyDb)
      BY <2>1, VarsFacts DEF ShapeInv, Cur
    <3>3. IsFiniteSet(DOMAIN rt \union {x})
      BY FS_AddElement DEF RtInv
    <3> HIDE DEF x
    <3>4. ASSUME NEW y \in DOMAIN rt'
          PROVE  /\ y[1] \in Vars /\ y[2] \in Nat /\ (y[2] # 0 => y[1] \in KeyDb)
                 /\ rt'[y].size \in Nat
      <4>1. CASE y = x
        BY <3>1, <3>2, <4>1
      <4>2. CASE y # x
        BY <3>1, <3>4, <4>2 DEF RtInv
      <4> QED
        BY <4>1, <4>2
    <3>5. IsFiniteSet(DOMAIN rt')
      BY <3>1, <3>3
    <3> QED
      BY <3>4, <3>5 DEF RtInv
  <2> QED
    BY <2>2, <2>3
<1> QED
  BY <1>1, <1>2, <1>3, MirrorWrites, RtUnchanged

---------------------------------------------------------------------------
(* Types                                                                   *)

Troubles == FaultKinds \union {"skipped"}

RangeInv ==
    /\ {one, status, ret} \subseteq Status
    /\ \A v \in HasState : state[v] \in 0 .. 255
    /\ trouble \subseteq Troubles

LEMMA FaultsInRange ==
    /\ \A x : Fault(x) => trouble' \subseteq trouble \union Troubles
    /\ \A x, n, s : SetVariable(x, n, s) =>
          trouble' \subseteq trouble \union Troubles /\ status' \in Status
<1>1. \A x : Fault(x) => trouble' \subseteq trouble \union Troubles
  BY FaultsAssumption DEF Fault, Troubles
<1>2. ASSUME NEW x, NEW n, NEW s, SetVariable(x, n, s)
      PROVE  trouble' \subseteq trouble \union Troubles /\ status' \in Status
  <2>1. \/ status' = "SUCCESS" /\ Ok
        \/ status' \in {"INVALID_PARAMETER", "OUT_OF_RESOURCES"} /\ trouble' = trouble \union {"set"}
        \/ Fault("set") /\ status' \in {"OUT_OF_RESOURCES", "INVALID_PARAMETER", "DEVICE_ERROR"}
    BY <1>2 DEF SetVariable
  <2>2. "set" \in Troubles
    BY DEF Troubles, FaultKinds
  <2> QED
    BY <1>1, <2>1, <2>2 DEF Ok, Status
<1> QED
  BY <1>1, <1>2

LEMMA CombineInRange ==
    \A r, s : r \in Status /\ s \in Status => Combine(r, s) \in Status
  BY DEF Combine

(* What a step makes of the results.                                       *)
LEMMA ResultsStep ==
    ASSUME {one, status, ret} \subseteq Status, trouble \subseteq Troubles, [Next]_vars
    PROVE  {one', status', ret'} \subseteq Status /\ trouble' \subseteq Troubles
<1>0. /\ one \in Status /\ status \in Status /\ ret \in Status
      /\ "SUCCESS" \in Status /\ "SECURITY_VIOLATION" \in Status
      /\ "OUT_OF_RESOURCES" \in Status /\ "DEVICE_ERROR" \in Status
  BY DEF Status
<1>a. \A x : Fault(x) => trouble' \subseteq Troubles
  BY FaultsInRange
<1>b. Ok => trouble' \subseteq Troubles
  BY DEF Ok
<1>c. \A x, n, s : SetVariable(x, n, s) => trouble' \subseteq Troubles /\ status' \in Status
  BY FaultsInRange
<1>1. CASE ImportStep
  <2>1. status' = status /\ ret' = ret
    BY <1>1, ImportFrame
  <2>2. one' \in {"SUCCESS", "SECURITY_VIOLATION", "OUT_OF_RESOURCES"} /\ (Ok \/ \E x : Fault(x))
    BY <1>1 DEF ImportStep, NothingToRead, DefaultInverse, ReadGood, DeleteBad, DeleteBadFails
  <2> QED
    BY <1>0, <1>a, <1>b, <2>1, <2>2
<1>2. CASE MirrorStep
  <2>1. one' = one /\ ret' = ret
    BY <1>2, MirrorFrame
  <2>2. status' \in Status /\ trouble' \subseteq Troubles
    <3>1. CASE DeleteRt \/ Fill \/ QueryFails \/ Split
      <4>1. status' \in {status, "SUCCESS", "OUT_OF_RESOURCES", "DEVICE_ERROR"} /\ (Ok \/ \E x : Fault(x))
        BY <3>1 DEF DeleteRt, Fill, QueryFails, Split
      <4> QED
        BY <1>0, <1>a, <1>b, <4>1
    <3>2. CASE LoopDone \/ Measure \/ Log \/ Settle
      <4>1. status' \in {status, "SUCCESS", "OUT_OF_RESOURCES", "DEVICE_ERROR"} /\ (Ok \/ \E x : Fault(x))
        BY <3>2 DEF LoopDone, Measure, Log, Settle
      <4> QED
        BY <1>0, <1>a, <1>b, <4>1
    <3>3. CASE SetPlain
      BY <1>c, <3>3 DEF SetPlain
    <3>4. CASE MirrorWhole
      <4>1. (\E x, n, s : SetVariable(x, n, s)) \/ (status' = "SUCCESS" /\ Ok)
        BY <3>4 DEF MirrorWhole
      <4> QED
        BY <1>0, <1>b, <1>c, <4>1
    <3>5. CASE MirrorEsl
      <4>1. \/ trouble' = trouble \union {"skipped"} /\ status' = status
            \/ status' = "SUCCESS" /\ Ok
            \/ \E x, n, s : SetVariable(x, n, s)
            \/ Fault("nomem") /\ status' = "OUT_OF_RESOURCES"
        BY <3>5, Iteration
      <4>2. "skipped" \in Troubles
        BY DEF Troubles
      <4> QED
        BY <1>0, <1>a, <1>b, <1>c, <4>1, <4>2
    <3>6. CASE MirrorEnd
      <4>1. (\E x, n, s : SetVariable(x, n, s)) \/ (status' = status /\ Ok)
        BY <3>6 DEF MirrorEnd
      <4> QED
        BY <1>0, <1>b, <1>c, <4>1
    <3> QED
      BY <1>2, <3>1, <3>2, <3>3, <3>4, <3>5, <3>6 DEF MirrorStep
  <2> QED
    BY <1>0, <2>1, <2>2
<1>3. CASE CombineOne \/ NextVariable \/ InstallTable \/ CheckMokRequest \/ Decide
  <2>1. /\ one' \in {one, "SUCCESS", Combine(one, status)} /\ status' \in {status, "SUCCESS"}
        /\ ret' \in {ret, Combine(ret, one), Combine(ret, "DEVICE_ERROR")}
        /\ Ok \/ \E x : Fault(x)
    BY <1>3 DEF CombineOne, NextVariable, InstallTable, CheckMokRequest, Decide
  <2> QED
    BY <1>0, <1>a, <1>b, <2>1, CombineInRange
<1>4. CASE Finished \/ UNCHANGED vars
  BY <1>0, <1>4 DEF Finished, vars
<1> QED
  BY <1>1, <1>2, <1>3, <1>4, NextSplits

LEMMA RangeStep == ShapeInv /\ HoldInv /\ RangeInv /\ [Next]_vars => RangeInv'
<1> SUFFICES ASSUME ShapeInv, HoldInv, RangeInv, [Next]_vars PROVE RangeInv'
  OBVIOUS
<1>1. {one', status', ret'} \subseteq Status /\ trouble' \subseteq Troubles
  BY ResultsStep DEF RangeInv
<1>2. \A v \in HasState : state'[v] \in 0 .. 255
  <2>1. CASE CombineOne
    <3>1. \/ state' = state
          \/ Cur \in HasState /\ Len(data[Cur]) = 1 /\ state' = [state EXCEPT ![Cur] = data[Cur][1]]
      BY <2>1 DEF CombineOne
    <3>2. ASSUME Cur \in HasState, Len(data[Cur]) = 1 PROVE data[Cur][1] \in 0 .. 255
      <4>1. Cur \in Vars /\ Cur \notin KeyDb
        BY <3>2, VarsFacts DEF HasState, KeyDb
      <4>2. data[Cur] \in Seq(0 .. 255)
        BY <4>1 DEF HoldInv, Contents
      <4>3. \A d \in Seq(0 .. 255) : 1 \in 1 .. Len(d) => d[1] \in 0 .. 255
        BY ElementOfSeq
      <4>4. 1 \in 1 .. Len(data[Cur])
        BY <3>2
      <4> QED
        BY <4>2, <4>3, <4>4
    <3>3. state = [v \in HasState |-> state[v]]
      BY DEF ShapeInv
    <3> QED
      BY <3>1, <3>2, <3>3 DEF RangeInv
  <2>2. CASE ~CombineOne
    <3>1. UNCHANGED state
      <4>1. CASE ImportStep \/ MirrorStep
        BY <4>1, ImportFrame, MirrorFrame
      <4>2. CASE NextVariable \/ InstallTable \/ CheckMokRequest \/ Decide
                 \/ Finished \/ UNCHANGED vars
        BY <4>2 DEF NextVariable, InstallTable, CheckMokRequest, Decide, Finished, vars, boot
      <4> QED
        BY <2>2, <4>1, <4>2, NextSplits
    <3> QED
      BY <3>1 DEF RangeInv
  <2> QED
    BY <2>1, <2>2
<1> QED
  BY <1>1, <1>2 DEF RangeInv

(* What the loop of mirror_mok_db relies on, for every content and limit.  *)
BaseInv == ShapeInv /\ RtInv /\ HoldInv /\ PlaceInv /\ FreshInv

LEMMA BaseIsInvariant == Spec => []BaseInv
<1>1. Init => BaseInv
  <2>1. Init => FreshInv
    <3> SUFFICES ASSUME Init PROVE FreshInv
      OBVIOUS
    <3>1. \A k \in 1 .. 7 : data[Order[k]] = <<>>
      BY VarsFacts DEF Init
    <3> QED
      BY <3>1 DEF FreshInv
  <2> QED
    BY <2>1, ShapeInit, RtInit, HoldInit, PlaceInit DEF BaseInv
<1>2. BaseInv /\ [Next]_vars => BaseInv'
  BY ShapeStep, RtStep, HoldStep, PlaceStep, FreshStep DEF BaseInv
<1> QED
  BY <1>1, <1>2, PTL DEF Spec

(* Statuses, flags, the names of the copies and the position in a split    *)
(* database stay in range.                                                 *)
THEOREM TypeCorrect == Spec => []TypeOK
<1>1. Init => RangeInv
  <2> SUFFICES ASSUME Init PROVE RangeInv
    OBVIOUS
  <2>1. one = "SUCCESS" /\ status = "SUCCESS" /\ ret = "SUCCESS" /\ trouble = {}
        /\ state = [v \in HasState |-> 0]
    BY DEF Init
  <2> QED
    BY <2>1 DEF RangeInv, Status
<1>2. BaseInv /\ RangeInv /\ [Next]_vars => RangeInv'
  BY RangeStep DEF BaseInv
<1>3. BaseInv /\ RangeInv => TypeOK
  <2> SUFFICES ASSUME BaseInv, RangeInv PROVE TypeOK
    OBVIOUS
  <2>1. pass \in 1 .. 2 /\ cur \in DOMAIN Order
    BY OrderFacts DEF BaseInv, ShapeInv
  <2>2. \A x \in DOMAIN rt : x[1] \in Vars /\ (x[2] # 0 => x[1] \in KeyDb)
    BY DEF BaseInv, RtInv
  <2>3. at.k \in 1 .. Len(full) + 1 /\ (at.j # 0 => at.j < full[at.k].n)
    BY DEF BaseInv, PlaceInv, Placed
  <2> QED
    BY <2>1, <2>2, <2>3 DEF TypeOK, RangeInv, Troubles
<1> QED
  BY <1>1, <1>2, <1>3, BaseIsInvariant, PTL DEF Spec

---------------------------------------------------------------------------
(* What is copied, when nothing fails                                      *)

Copying == {"db", "loop", "end", "measure", "log", "settle"}

(* In both passes a key database is in hand in full, the second time with  *)
(* what is prepended to it once more.                                      *)
Loaded(k) ==
    LET v == Order[k]
    IN  \/ FirstPass /\ cur < k /\ nv[v] = conf.nv[v]
        \/ FirstPass /\ cur = k /\ pc = "import" /\ nv[v] = conf.nv[v]
        \/ FirstPass /\ cur = k /\ pc \in {"delete", "fill"} /\ data[v] = Source(v)
        \/ FirstPass /\ cur = k /\ pc \in Copying /\ full = Complete(v)
        \/ pass = 1 /\ Past(k) /\ data[v] = Complete(v)
        \/ pass = 2 /\ cur < k /\ pc \notin AfterPasses /\ data[v] = Complete(v)
        \/ pass = 2 /\ cur = k /\ pc \in {"import", "delete", "fill"} /\ data[v] = Complete(v)
        \/ pass = 2 /\ cur = k /\ pc \in Copying /\ full = Addend(v) \o Complete(v)
        \/ pass = 2 /\ (Past(k) \/ pc \in AfterPasses)

LoadedInv == trouble = {} => \A k \in 1 .. 2 : Loaded(k)

LEMMA ConfStays ==
    ASSUME [Next]_vars
    PROVE  /\ conf' = conf
           /\ \A v : /\ Wanted(v)' = Wanted(v) /\ Complete(v)' = Complete(v)
                     /\ Source(v)' = Source(v) /\ Addend(v)' = Addend(v)
<1> SUFFICES conf' = conf
  BY DEF Complete, Source, Wanted, Addend
<1>1. CASE ImportStep \/ MirrorStep
  BY <1>1, ImportFrame, MirrorFrame
<1>2. CASE CombineOne \/ NextVariable \/ InstallTable \/ CheckMokRequest \/ Decide
           \/ Finished \/ UNCHANGED vars
  BY <1>2 DEF CombineOne, NextVariable, InstallTable, CheckMokRequest, Decide, Finished, vars
<1> QED
  BY <1>1, <1>2, NextSplits

LEMMA KeyDbFacts ==
    ASSUME ShapeInv, NEW k \in 1 .. 2
    PROVE  /\ k \in 1 .. 7 /\ Order[k] \in KeyDb /\ Order[k] \in Vars
           /\ Order[k] \in DOMAIN data /\ Order[k] \in DOMAIN nv
           /\ Order[k] \notin Inverted /\ Order[k] \notin Measured
           /\ cur \in 1 .. 7 /\ (Cur = Order[k] <=> cur = k)
<1>1. k \in 1 .. 7 /\ (k = 1 \/ k = 2)
  OBVIOUS
<1>2. Order[k] \in KeyDb /\ Order[k] \notin Inverted /\ Order[k] \notin Measured
  BY <1>1, OrderFacts DEF KeyDb, Inverted, Measured
<1>3. DOMAIN data = Vars
  BY DEF ShapeInv
<1> QED
  BY <1>1, <1>2, <1>3, VarsFacts, OrderInjective DEF ShapeInv, Cur

(* The other variables are left alone.                                     *)
LEMMA OthersStay ==
    ASSUME ShapeInv, NEW v \in Vars, Cur # v, ImportStep \/ MirrorStep
    PROVE  nv'[v] = nv[v] /\ data'[v] = data[v]
<1>0. v \in DOMAIN data /\ v \in DOMAIN nv
  <2>1. DOMAIN data = Vars
    BY DEF ShapeInv
  <2> QED
    BY <2>1 DEF ShapeInv
<1>1. \A d : /\ [nv EXCEPT ![Cur] = d][v] = nv[v]
             /\ [data EXCEPT ![Cur] = d][v] = data[v]
  BY <1>0
<1>2. CASE ImportStep
  <2>1. nv' = nv \/ nv' = [nv EXCEPT ![Cur] = Absent]
    BY <1>2, ImportFrame
  <2>2. data' = data \/ \E d : data' = [data EXCEPT ![Cur] = d]
    BY <1>2, ImportFrame
  <2>3. nv'[v] = nv[v]
    <3>1. CASE nv' = nv
      BY <3>1
    <3>2. CASE nv' = [nv EXCEPT ![Cur] = Absent]
      BY <1>1, <3>2
    <3> QED
      BY <2>1, <3>1, <3>2
  <2>4. data'[v] = data[v]
    <3>1. CASE data' = data
      BY <3>1
    <3>2. CASE \E d : data' = [data EXCEPT ![Cur] = d]
      BY <1>1, <3>2
    <3> QED
      BY <2>2, <3>1, <3>2
  <2> QED
    BY <2>3, <2>4
<1>3. CASE MirrorStep
  <2>1. nv' = nv
    BY <1>3, MirrorFrame
  <2>2. data' = data \/ data' = [data EXCEPT ![Cur] = <<>>] \/ data' = [data EXCEPT ![Cur] = full]
    BY <1>3, MirrorData
  <2> QED
    BY <1>1, <2>1, <2>2
<1> QED
  BY <1>2, <1>3

LEMMA NoFault ==
    ASSUME trouble' = {}
    PROVE  /\ \A x : ~Fault(x)
           /\ \A x, n, s : SetVariable(x, n, s) => status' = "SUCCESS"
<1>1. \A x : ~Fault(x)
  BY FaultGrows
<1> QED
  BY <1>1 DEF SetVariable

(* Reading a key database, when nothing fails.                             *)
LEMMA LoadedImport ==
    ASSUME BaseInv, ImportStep, NEW k \in 1 .. 2, cur = k, trouble' = {}, Loaded(k)
    PROVE  /\ pc' = "delete"
           /\ pass = 1 => data'[Cur] = Source(Cur)
           /\ pass = 2 => data'[Cur] = Complete(Cur)
<1>0. /\ pc = "import" /\ Cur = Order[k] /\ Cur \notin Inverted /\ Cur \in DOMAIN data
      /\ ShapeInv /\ FreshInv /\ cur \in 1 .. 7
  BY ImportFrame, KeyDbFacts DEF BaseInv
<1>a. \A x : ~Fault(x)
  BY NoFault
<1>1. CASE pass = 1
  <2>1. data[Cur] = <<>> /\ nv[Cur] = conf.nv[Cur]
    BY <1>0, <1>1 DEF Loaded, FreshInv, FirstPass, Ahead, Past, Copying
  <2>2. CASE NothingToRead
    BY <1>0, <1>1, <2>1, <2>2 DEF NothingToRead, Source, boot
  <2>3. CASE ReadGood
    BY <1>0, <1>1, <2>1, <2>3 DEF ReadGood, Acceptable, Source
  <2>4. CASE DefaultInverse
    BY <1>0, <2>4 DEF DefaultInverse
  <2>5. CASE DeleteBad \/ DeleteBadFails
    <3>1. pc' = "delete" /\ data' = data /\ ~Acceptable(Cur)
      BY <1>a, <2>5 DEF DeleteBad, DeleteBadFails, boot
    <3> QED
      BY <1>1, <2>1, <3>1 DEF Source, Acceptable
  <2> QED
    BY <1>1, <2>2, <2>3, <2>4, <2>5 DEF ImportStep
<1>2. CASE pass # 1
  <2>1. data[Cur] = Complete(Cur)
    BY <1>0, <1>2 DEF Loaded, FirstPass, Past, Copying, AfterPasses
  <2>2. data[Cur] # <<>>
    BY <2>1 DEF Complete, NullSha
  <2>3. NothingToRead
    BY <2>2 DEF ImportStep, DefaultInverse, ReadGood, DeleteBad, DeleteBadFails, Reading
  <2> QED
    BY <1>2, <2>1, <2>3 DEF NothingToRead, boot
<1> QED
  BY <1>1, <1>2

(* Copying a key database, when nothing fails.                             *)
LEMMA LoadedMirror ==
    ASSUME BaseInv, MirrorStep, NEW k \in 1 .. 2, cur = k, trouble' = {}, Loaded(k)
    PROVE  \/ /\ DeleteRt /\ pc = "delete" /\ pc' = "fill" /\ UNCHANGED <<data, full, at>>
           \/ /\ Fill /\ pc = "fill" /\ pc' = "db" /\ full' = FullData(Cur) /\ at' = Start
           \/ /\ pc \in Copying /\ pc' \in Copying /\ UNCHANGED <<data, full>> /\ ~DeleteRt /\ ~Fill
           \/ /\ Settle /\ pc = "settle" /\ pc' = "combine" /\ data' = [data EXCEPT ![Cur] = full]
<1>0. Cur = Order[k] /\ Cur \in KeyDb /\ Cur \notin Measured
  BY KeyDbFacts DEF BaseInv
<1>a. \A x : ~Fault(x)
  BY NoFault
<1> USE DEF boot, loop, Copying
<1>1. CASE DeleteRt
  BY <1>1 DEF DeleteRt
<1>2. CASE Fill
  <2>1. FullData(Cur) # <<>>
    BY <1>0 DEF FullData, NullSha
  <2> QED
    BY <1>0, <1>2, <1>a, <2>1 DEF Fill
<1>3. CASE SetPlain
  BY <1>3 DEF SetPlain, Loaded, Past, AfterPasses
<1>4. CASE MirrorWhole \/ QueryFails \/ Split
  BY <1>4 DEF MirrorWhole, QueryFails, Split, DeleteRt, Fill
<1>5. CASE MirrorEsl
  <2>1. pc = "loop" /\ UNCHANGED <<data, full>>
    BY <1>5 DEF MirrorEsl
  <2>2. pc' \in {"loop", "end"}
    BY <1>5, <2>1, Iteration
  <2> QED
    BY <2>1, <2>2 DEF DeleteRt, Fill
<1>6. CASE LoopDone \/ MirrorEnd
  BY <1>6 DEF LoopDone, MirrorEnd, DeleteRt, Fill
<1>7. CASE Measure \/ Log
  BY <1>0, <1>7, <1>a DEF Measure, Log, DeleteRt, Fill
<1>8. CASE Settle
  BY <1>8 DEF Settle
<1> QED
  BY <1>1, <1>2, <1>3, <1>4, <1>5, <1>6, <1>7, <1>8 DEF MirrorStep

LEMMA LoadedStep ==
    ASSUME BaseInv, LoadedInv, [Next]_vars, trouble' = {}, NEW k \in 1 .. 2
    PROVE  Loaded(k)'
<1> DEFINE v == Order[k]
<1>0. /\ k \in 1 .. 7 /\ v \in KeyDb /\ v \in Vars /\ v \in DOMAIN data /\ v \in DOMAIN nv
      /\ cur \in 1 .. 7 /\ (Cur = v <=> cur = k)
      /\ ShapeInv /\ FreshInv /\ pass \in {1, 2} /\ Complete(v) # <<>>
  <2>1. Complete(v) # <<>>
    BY DEF Complete, NullSha
  <2> QED
    BY <2>1, KeyDbFacts DEF BaseInv, ShapeInv
<1>a. /\ conf' = conf /\ Complete(v)' = Complete(v) /\ Source(v)' = Source(v)
      /\ Addend(v)' = Addend(v)
  BY ConfStays
<1>b. trouble = {} /\ Loaded(k)
  BY TroubleStays DEF LoadedInv
<1>c. \A x : ~Fault(x)
  BY NoFault
<1>1. CASE ImportStep
  <2>1. pc = "import" /\ UNCHANGED <<pass, cur>> /\ pc' \in {"delete", "next"}
    BY <1>1, ImportFrame
  <2>2. CASE cur = k
    <3>1. pc' = "delete" /\ (pass = 1 => data'[v] = Source(v)) /\ (pass = 2 => data'[v] = Complete(v))
      BY <1>0, <1>1, <1>b, <2>2, LoadedImport
    <3> QED
      BY <1>0, <1>a, <2>1, <2>2, <3>1 DEF Loaded, FirstPass
  <2>3. CASE cur # k
    <3>1. nv'[v] = nv[v] /\ data'[v] = data[v]
      BY <1>0, <1>1, <2>3, OthersStay
    <3> QED
      BY <1>0, <1>a, <1>b, <2>1, <2>3, <3>1 DEF Loaded, FirstPass, Past, AfterPasses
  <2> QED
    BY <2>2, <2>3
<1>2. CASE MirrorStep
  <2>1. /\ pc \in Mirroring /\ pc' \in Mirroring \cup {"combine"} /\ UNCHANGED <<nv, pass, cur>>
    BY <1>2, MirrorFrame
  <2>2. CASE cur = k
    <3> USE DEF Loaded, FirstPass, Past
    <3>0. Cur = v /\ cur' = k /\ pass' = pass
      BY <1>0, <2>1, <2>2
    <3>1. CASE DeleteRt /\ pc = "delete" /\ pc' = "fill" /\ UNCHANGED <<data, full, at>>
      BY <1>0, <1>a, <1>b, <3>0, <3>1 DEF AfterPasses, Copying
    <3>2. CASE Fill /\ pc = "fill" /\ pc' = "db" /\ full' = FullData(Cur) /\ at' = Start
      <4>1. CASE pass = 1
        <5>1. data[v] = Source(v)
          BY <1>b, <2>2, <3>2, <4>1 DEF AfterPasses, Copying
        <5>2. full' = Complete(v)
          BY <1>0, <3>0, <3>2, <5>1, WantedIsFilled
        <5> QED
          BY <1>a, <3>0, <3>2, <4>1, <5>2 DEF Copying
      <4>2. CASE pass = 2
        <5>1. data[v] = Complete(v)
          BY <1>b, <2>2, <3>2, <4>2 DEF AfterPasses, Copying
        <5>2. Addend(v) \o data[v] # <<>>
          <6>1. Addend(v) \in Databases /\ data[v] \in Databases
            BY <1>0, FilledContents DEF BaseInv, HoldInv, Contents, ShapeInv
          <6>2. \A s, t \in Databases : t # <<>> => s \o t # <<>>
            BY DEF Databases
          <6> QED
            BY <1>0, <5>1, <6>1, <6>2
        <5>3. full' = Addend(v) \o Complete(v)
          BY <3>0, <3>2, <5>1, <5>2 DEF FullData
        <5> QED
          BY <1>a, <3>0, <3>2, <4>2, <5>3 DEF Copying
      <4> QED
        BY <1>0, <4>1, <4>2
    <3>3. CASE pc \in Copying /\ pc' \in Copying /\ UNCHANGED <<data, full>>
      BY <1>0, <1>a, <1>b, <3>0, <3>3 DEF AfterPasses, Copying
    <3>4. CASE pc = "settle" /\ pc' = "combine" /\ data' = [data EXCEPT ![Cur] = full]
      <4>1. pass = 1 => data'[v] = Complete(v)
        BY <1>0, <1>b, <3>0, <3>4 DEF AfterPasses, Copying
      <4> QED
        BY <1>0, <1>a, <3>0, <3>4, <4>1
    <3> QED
      BY <1>2, <1>b, <2>2, <3>1, <3>2, <3>3, <3>4, LoadedMirror
  <2>3. CASE cur # k
    <3>1. nv'[v] = nv[v] /\ data'[v] = data[v]
      BY <1>0, <1>2, <2>3, OthersStay
    <3> QED
      BY <1>0, <1>a, <1>b, <2>1, <2>3, <3>1 DEF Loaded, FirstPass, Past, AfterPasses, Mirroring, Filled
  <2> QED
    BY <2>2, <2>3
<1>3. CASE CombineOne
  <2>1. /\ pc = "combine" /\ pc' = "next" /\ UNCHANGED <<nv, data, full, pass, cur>>
    BY <1>3 DEF CombineOne, loop
  <2> QED
    BY <1>0, <1>a, <1>b, <2>1 DEF Loaded, Past, FirstPass, AfterPasses, Copying
<1>4. CASE NextVariable
  <2>1. /\ pc = "next" /\ UNCHANGED <<nv, data, pass>>
        /\ \/ cur < 7 /\ cur' = cur + 1 /\ pc' = "import"
           \/ cur = 7 /\ cur' = 1 /\ pc' = IF pass = 1 THEN "table" ELSE "request"
    BY <1>4, OrderFacts DEF NextVariable, boot
  <2>2. CASE FirstPass /\ cur < k /\ nv[v] = conf.nv[v]
    BY <1>0, <1>a, <2>1, <2>2 DEF Loaded, FirstPass
  <2>3. CASE pass = 1 /\ Past(k) /\ data[v] = Complete(v)
    BY <1>0, <1>a, <2>1, <2>3 DEF Loaded, Past
  <2>4. CASE pass = 2 /\ cur < k /\ pc \notin AfterPasses /\ data[v] = Complete(v)
    BY <1>0, <1>a, <2>1, <2>4 DEF Loaded, AfterPasses
  <2>5. CASE pass = 2 /\ (Past(k) \/ pc \in AfterPasses)
    BY <1>0, <2>1, <2>5 DEF Loaded, Past, AfterPasses
  <2> QED
    BY <1>b, <2>1, <2>2, <2>3, <2>4, <2>5 DEF Loaded, Copying
<1>5. CASE InstallTable
  <2>1. pc = "table" /\ pass = 1 /\ pass' = 2 /\ pc' = "import" /\ cur = 1 /\ UNCHANGED <<cur, data>>
    BY <1>0, <1>5 DEF InstallTable, ShapeInv
  <2>2. data[v] = Complete(v)
    BY <1>b, <2>1 DEF Loaded, FirstPass
  <2>3. k = 1 \/ cur < k
    BY <1>0, <2>1
  <2> QED
    BY <1>0, <1>a, <2>1, <2>2, <2>3 DEF Loaded, AfterPasses
<1>6. CASE CheckMokRequest \/ Decide
  <2>1. pass = 2 /\ pass' = 2 /\ pc' \in AfterPasses
    BY <1>0, <1>6 DEF CheckMokRequest, Decide, ShapeInv, AfterPasses
  <2> QED
    BY <2>1 DEF Loaded
<1>7. CASE Finished \/ UNCHANGED vars
  <2>1. UNCHANGED vars
    BY <1>7 DEF Finished
  <2> QED
    BY <1>a, <1>b, <2>1 DEF vars, Loaded, Past, FirstPass, AfterPasses, Copying
<1> QED
  BY <1>1, <1>2, <1>3, <1>4, <1>5, <1>6, <1>7, NextSplits

---------------------------------------------------------------------------
(* The copies the second pass makes have names of their own                *)

Numbered(x) ==
    /\ pass = 2
    /\ \E k \in 1 .. 7 :
          /\ x[1] = Order[k]
          /\ \/ k < cur \/ pc \in AfterPasses
             \/ k = cur /\ pc \in Copying \cup {"combine", "next"} /\ x[2] < at.i

NumberInv == \A x \in DOMAIN rt : x[2] # 0 => Numbered(x)

(* A step of the copying writes the first copy in the first pass, or the   *)
(* portion in hand, and then moves on.                                     *)
LEMMA MirrorNames ==
    ASSUME BaseInv, MirrorStep
    PROVE  \/ /\ DOMAIN rt' \subseteq DOMAIN rt \union {<<Cur, 0>>}
              /\ UNCHANGED at \/ pc = "fill" \/ (MirrorEsl /\ at'.i \in Nat /\ at'.i >= at.i)
              /\ pass = 2 => UNCHANGED rt
           \/ \E n, s : /\ MirrorEsl /\ pass = 2 /\ at.i # 0 /\ status' = "SUCCESS"
                        /\ SetVariable(<<Cur, at.i>>, n, s)
                        /\ at'.i = at.i + 1 /\ pc' = "loop"
<1>0. /\ ShapeInv /\ RtInv /\ HoldInv /\ PlaceInv /\ pass \in {1, 2}
      /\ DOMAIN at = {"k", "j", "i", "did"} /\ at.i \in Nat /\ (pass = 1 => at.i = 0)
  BY DEF BaseInv, ShapeInv, PlaceInv
<1>a. \A x, n, s : SetVariable(x, n, s) => DOMAIN rt' \subseteq DOMAIN rt \union {x}
  BY Written
<1>1. CASE DeleteRt
  BY <1>1 DEF DeleteRt, loop
<1>2. CASE Fill
  BY <1>2 DEF Fill
<1>3. CASE QueryFails \/ Split \/ LoopDone \/ Measure \/ Log \/ Settle
  BY <1>3 DEF QueryFails, Split, LoopDone, Measure, Log, Settle, loop
<1>4. CASE SetPlain
  <2>1. SetVariable(<<Cur, 0>>, Len(full), full) /\ UNCHANGED at /\ pass = 1
    BY <1>0, <1>4 DEF SetPlain, loop, PlaceInv
  <2> QED
    BY <1>a, <2>1
<1>5. CASE MirrorWhole
  <2>1. /\ UNCHANGED at
        /\ \/ pass = 1 /\ \E n, s : SetVariable(<<Cur, 0>>, n, s)
           \/ pass = 2 /\ UNCHANGED rt
    BY <1>5 DEF MirrorWhole, loop
  <2> QED
    BY <1>a, <2>1
<1>6. CASE MirrorEnd
  <2>1. /\ UNCHANGED at
        /\ \/ pass = 1 /\ \E n, s : SetVariable(<<Cur, 0>>, n, s)
           \/ UNCHANGED rt
    BY <1>6 DEF MirrorEnd, loop
  <2> QED
    BY <1>a, <2>1
<1>7. CASE MirrorEsl
  <2>0. at'.i \in Nat /\ (pass = 1 => at'.i = 0)
    BY <1>0, <1>7, IterationPlace
  <2>1. PICK n : \/ at' = [at EXCEPT !.k = at.k + 1, !.j = 0] /\ UNCHANGED rt
                 \/ at.i = 0 /\ at' = [Advance(n) EXCEPT !.i = 1] /\ UNCHANGED rt
                 \/ /\ ~(pass = 2 /\ at.i = 0)
                    /\ \E m, s : SetVariable(<<Cur, at.i>>, m, s)
                    /\ at' = IF status' = "SUCCESS"
                             THEN [Advance(n) EXCEPT !.did = TRUE,
                                                     !.i = IF pass = 1 THEN @ ELSE @ + 1]
                             ELSE at
                    /\ pc' = IF pass = 1 \/ status' # "SUCCESS" THEN "end" ELSE "loop"
                 \/ UNCHANGED <<rt, at>>
    BY <1>7, Iteration
  <2>2. CASE at' = [at EXCEPT !.k = at.k + 1, !.j = 0] /\ UNCHANGED rt
    <3>1. at'.i = at.i
      BY <1>0, <2>2
    <3> QED
      BY <1>0, <1>7, <2>2, <3>1
  <2>3. CASE at.i = 0 /\ at' = [Advance(n) EXCEPT !.i = 1] /\ UNCHANGED rt
    <3>1. at'.i = 1
      BY <1>0, <2>3, AdvancePlace
    <3> QED
      BY <1>7, <2>3, <3>1
  <2>4. CASE /\ ~(pass = 2 /\ at.i = 0)
             /\ \E m, s : SetVariable(<<Cur, at.i>>, m, s)
             /\ at' = IF status' = "SUCCESS"
                      THEN [Advance(n) EXCEPT !.did = TRUE,
                                              !.i = IF pass = 1 THEN @ ELSE @ + 1]
                      ELSE at
             /\ pc' = IF pass = 1 \/ status' # "SUCCESS" THEN "end" ELSE "loop"
    <3>1. CASE pass = 1
      <4>1. at'.i >= at.i
        BY <1>0, <2>0, <3>1
      <4> QED
        BY <1>0, <1>7, <1>a, <2>0, <2>4, <3>1, <4>1
    <3>2. CASE pass = 2 /\ status' # "SUCCESS"
      <4>1. UNCHANGED rt
        BY <2>4, <3>2, Written
      <4> QED
        BY <2>4, <3>2, <4>1
    <3>3. CASE pass = 2 /\ status' = "SUCCESS"
      <4> DEFINE i == IF pass = 1 THEN Advance(n).i ELSE Advance(n).i + 1
      <4>1. at' = [Advance(n) EXCEPT !.did = TRUE, !.i = i]
        BY <2>4, <3>3
      <4>2. at'.i = i /\ Advance(n).i = at.i
        BY <1>0, <4>1, AdvancePlace, LoopPosition
      <4>3. at'.i = at.i + 1
        BY <3>3, <4>2
      <4> QED
        BY <1>7, <2>4, <3>3, <4>3
    <3> QED
      BY <1>0, <3>1, <3>2, <3>3
  <2>5. CASE UNCHANGED <<rt, at>>
    BY <2>5
  <2> QED
    BY <2>1, <2>2, <2>3, <2>4, <2>5
<1> QED
  BY <1>1, <1>2, <1>3, <1>4, <1>5, <1>6, <1>7 DEF MirrorStep

(* The portion in hand has a name that is not in use.                      *)
LEMMA NewName ==
    ASSUME BaseInv, NumberInv, pc = "loop", at.i # 0
    PROVE  <<Cur, at.i>> \notin DOMAIN rt
<1> SUFFICES ASSUME <<Cur, at.i>> \in DOMAIN rt PROVE FALSE
  OBVIOUS
<1> DEFINE x == <<Cur, at.i>>
<1>1. x[1] = Cur /\ x[2] = at.i /\ x \in DOMAIN rt
  OBVIOUS
<1>2. PICK k \in 1 .. 7 :
          /\ x[1] = Order[k]
          /\ \/ k < cur \/ pc \in AfterPasses
             \/ k = cur /\ pc \in Copying \cup {"combine", "next"} /\ x[2] < at.i
  BY <1>1 DEF NumberInv, Numbered
<1>3. k = cur /\ cur \in 1 .. 7 /\ at.i \in Nat
  BY <1>1, <1>2, OrderInjective DEF BaseInv, ShapeInv, PlaceInv, Cur
<1> QED
  BY <1>1, <1>2, <1>3 DEF AfterPasses

LEMMA NumberStep == BaseInv /\ NumberInv /\ [Next]_vars => NumberInv'
<1> SUFFICES ASSUME BaseInv, NumberInv, [Next]_vars, NEW x \in DOMAIN rt', x[2] # 0
             PROVE  Numbered(x)'
  BY DEF NumberInv
<1>0. /\ ShapeInv /\ pass \in {1, 2} /\ cur \in 1 .. 7 /\ at.i \in Nat
      /\ \A y \in DOMAIN rt : y[2] \in Nat
  BY DEF BaseInv, ShapeInv, PlaceInv, RtInv
<1>1. CASE MirrorStep
  <2>1. UNCHANGED <<pass, cur>> /\ pc \in Mirroring /\ pc' \in Mirroring \cup {"combine"} /\ pc' # "delete"
    BY <1>1, MirrorFrame
  <2>a. (pc \in Copying => pc' \in Copying \cup {"combine"}) /\ pc \notin AfterPasses
    <3>1. pc \notin AfterPasses
      BY <2>1 DEF Mirroring, Filled, AfterPasses
    <3>2. MirrorEsl => pc = "loop" /\ pc' \in {"loop", "end"}
      BY Iteration DEF MirrorEsl
    <3>3. pc \in Copying /\ ~MirrorEsl => pc' \in Copying \cup {"combine"}
      BY <1>1 DEF MirrorStep, DeleteRt, Fill, SetPlain, MirrorWhole, QueryFails, Split, LoopDone,
         MirrorEnd, Measure, Log, Settle, Copying
    <3> QED
      BY <3>1, <3>2, <3>3 DEF Copying
  <2>2. CASE x \in DOMAIN rt /\ (UNCHANGED at \/ pc = "fill" \/ (at'.i \in Nat /\ at'.i >= at.i))
    <3>1. Numbered(x) /\ x[2] \in Nat
      BY <1>0, <2>2 DEF NumberInv
    <3>2. PICK k \in 1 .. 7 :
              /\ x[1] = Order[k]
              /\ \/ k < cur
                 \/ k = cur /\ pc \in Copying \cup {"combine", "next"} /\ x[2] < at.i
      BY <2>a, <3>1 DEF Numbered
    <3>3. k < cur' \/ (k = cur' /\ pc' \in Copying \cup {"combine", "next"} /\ x[2] < at'.i)
      <4>1. CASE k < cur
        BY <2>1, <4>1
      <4>2. CASE k = cur /\ pc \in Copying \cup {"combine", "next"} /\ x[2] < at.i
        <5>1. pc \in Copying
          BY <2>1, <4>2 DEF Mirroring, Filled
        <5>2. x[2] < at'.i
          BY <1>0, <2>2, <3>1, <4>2, <5>1 DEF Copying
        <5> QED
          BY <2>1, <2>a, <4>2, <5>1, <5>2
      <4> QED
        BY <3>2, <4>1, <4>2
    <3> QED
      BY <2>1, <3>1, <3>2, <3>3 DEF Numbered
  <2>3. CASE \E n, s : /\ MirrorEsl /\ pass = 2 /\ SetVariable(<<Cur, at.i>>, n, s)
                       /\ at'.i = at.i + 1 /\ pc' = "loop"
    <3>1. DOMAIN rt' \subseteq DOMAIN rt \union {<<Cur, at.i>>}
      BY <2>3, Written
    <3>2. CASE x \in DOMAIN rt
      <4>1. at'.i \in Nat /\ at'.i >= at.i
        BY <1>0, <2>3
      <4> QED
        BY <2>2, <3>2, <4>1
    <3>3. CASE x = <<Cur, at.i>>
      <4>1. x[1] = Order[cur] /\ x[2] = at.i /\ at.i < at'.i
        BY <1>0, <2>3, <3>3 DEF Cur
      <4> QED
        BY <1>0, <2>1, <2>3, <4>1 DEF Numbered, Copying
    <3> QED
      BY <3>1, <3>2, <3>3
  <2>4. <<Cur, 0>>[2] = 0
    OBVIOUS
  <2> QED
    BY <1>1, <2>2, <2>3, <2>4, MirrorNames
<1>2. CASE ~MirrorStep
  <2>0. x \in DOMAIN rt /\ Numbered(x)
    BY <1>2, RtUnchanged DEF NumberInv
  <2>1. CASE ImportStep
    BY <2>0, <2>1, ImportFrame DEF Numbered, Copying, AfterPasses
  <2>2. CASE CombineOne
    <3>1. pc = "combine" /\ pc' = "next" /\ UNCHANGED <<pass, cur, at>>
      BY <2>2 DEF CombineOne, loop
    <3> QED
      BY <2>0, <3>1 DEF Numbered, AfterPasses
  <2>3. CASE NextVariable
    <3>1. /\ pc = "next" /\ pass' = pass
          /\ \/ cur < 7 /\ cur' = cur + 1
             \/ cur = 7 /\ pc' = IF pass = 1 THEN "table" ELSE "request"
      BY <2>3, OrderFacts DEF NextVariable
    <3>2. PICK k \in 1 .. 7 : x[1] = Order[k] /\ (k < cur \/ k = cur)
      BY <2>0, <3>1 DEF Numbered, AfterPasses
    <3> QED
      BY <1>0, <2>0, <3>1, <3>2 DEF Numbered, AfterPasses
  <2>4. CASE InstallTable
    BY <2>0, <2>4 DEF InstallTable, Numbered, ShapeInv, BaseInv
  <2>5. CASE CheckMokRequest \/ Decide
    <3>1. pass' = pass /\ pc' \in AfterPasses
      BY <2>5 DEF CheckMokRequest, Decide, AfterPasses
    <3> QED
      BY <2>0, <3>1 DEF Numbered
  <2>6. CASE Finished \/ UNCHANGED vars
    <3>1. UNCHANGED vars
      BY <2>6 DEF Finished
    <3> QED
      BY <2>0, <3>1 DEF vars, Numbered
  <2> QED
    BY <1>2, <2>1, <2>2, <2>3, <2>4, <2>5, <2>6, NextSplits
<1> QED
  BY <1>1, <1>2

(* In the first pass a variable has its first copy only once the step that *)
(* writes it is done, unless someone else's stood there.                   *)
Copied(x) ==
    \/ pass = 2 \/ pc = "table"
    \/ \E j \in 1 .. 7 :
          /\ x[1] = Order[j]
          /\ \/ j < cur
             \/ j = cur /\ pc \in {"measure", "log", "settle", "combine", "next"}
             \/ j = cur /\ pc = "end" /\ at.did

FirstsInv ==
    /\ rt = [x \in DOMAIN rt |-> rt[x]]
    /\ DOMAIN conf.foreign = {} => \A x \in DOMAIN rt : x[2] = 0 => Copied(x)

(* The step that writes a first copy, and only it.                         *)
Copies == pass = 1 /\ (pc' = "measure" \/ (pc' = "end" /\ at'.did))

LEMMA FirstCopies ==
    ASSUME BaseInv, MirrorStep
    PROVE  \/ UNCHANGED rt
           \/ rt' = [x \in DOMAIN rt \ {<<Cur, 0>>} |-> rt[x]] /\ pc = "delete"
           \/ \E n, s : /\ SetVariable(<<Cur, 0>>, n, s) /\ status' = "SUCCESS" /\ Copies
                        /\ pc \in {"set", "db", "loop", "end"} /\ (pc = "end" => ~at.did)
           \/ \E n, s : /\ SetVariable(<<Cur, at.i>>, n, s) /\ status' = "SUCCESS"
                        /\ pass = 2 /\ at.i # 0 /\ pc = "loop" /\ at.i \in Nat /\ Cur \in KeyDb
<1>0. pass \in {1, 2} /\ (pass = 1 => at.i = 0) /\ at.i \in Nat /\ DOMAIN at = {"k", "j", "i", "did"}
  BY DEF BaseInv, ShapeInv, PlaceInv
<1>1. CASE DeleteRt
  BY <1>1 DEF DeleteRt
<1>2. CASE Fill \/ QueryFails \/ Split \/ LoopDone \/ Measure \/ Log \/ Settle
  BY <1>2 DEF Fill, QueryFails, Split, LoopDone, Measure, Log, Settle
<1>3. CASE SetPlain
  <2>1. pc = "set" /\ pass = 1 /\ pc' = "measure" /\ SetVariable(<<Cur, 0>>, Len(full), full)
    BY <1>3 DEF SetPlain, BaseInv, PlaceInv
  <2>2. CASE status' = "SUCCESS"
    BY <2>1, <2>2 DEF Copies
  <2> QED
    BY <2>1, <2>2, Written
<1>4. CASE MirrorWhole
  <2>1. \/ /\ pass = 1 /\ pc = "db" /\ pc' = "measure"
           /\ SetVariable(<<Cur, 0>>, DbSize(full), Signatures(full))
        \/ UNCHANGED rt
    BY <1>4 DEF MirrorWhole
  <2>2. CASE status' = "SUCCESS"
    BY <2>1, <2>2 DEF Copies
  <2> QED
    BY <2>1, <2>2, Written
<1>5. CASE MirrorEsl
  <2>0. pc = "loop"
    BY <1>5 DEF MirrorEsl
  <2>1. PICK n : \/ UNCHANGED rt
                 \/ \E size, s :
                      /\ SetVariable(<<Cur, at.i>>, size, s)
                      /\ ~(pass = 2 /\ at.i = 0)
                      /\ status' = "SUCCESS" =>
                           /\ at' = [Advance(n) EXCEPT !.did = TRUE,
                                                       !.i = IF pass = 1 THEN @ ELSE @ + 1]
                           /\ pc' = IF pass = 1 THEN "end" ELSE "loop"
    BY <1>5, Iteration
  <2>2. CASE ~UNCHANGED rt
    <3>1. PICK size, s :
                      /\ SetVariable(<<Cur, at.i>>, size, s)
                      /\ ~(pass = 2 /\ at.i = 0)
                      /\ status' = "SUCCESS" =>
                           /\ at' = [Advance(n) EXCEPT !.did = TRUE,
                                                       !.i = IF pass = 1 THEN @ ELSE @ + 1]
                           /\ pc' = IF pass = 1 THEN "end" ELSE "loop"
      BY <2>1, <2>2
    <3>2. status' = "SUCCESS"
      BY <2>2, <3>1, Written
    <3>3. CASE pass = 1
      <4>1. at' = [Advance(n) EXCEPT !.did = TRUE, !.i = Advance(n).i] /\ pc' = "end"
        BY <3>1, <3>2, <3>3
      <4>2. at'.did = TRUE
        BY <1>0, <4>1, AdvancePlace
      <4> QED
        BY <1>0, <2>0, <3>1, <3>2, <3>3, <4>1, <4>2 DEF Copies
    <3>4. CASE pass = 2
      <4>1. Cur \in KeyDb
        BY <2>0 DEF BaseInv, PlaceInv
      <4> QED
        BY <1>0, <2>0, <3>1, <3>2, <3>4, <4>1
    <3> QED
      BY <1>0, <3>3, <3>4
  <2> QED
    BY <2>2
<1>6. CASE MirrorEnd
  <2>1. \/ /\ pass = 1 /\ pc = "end" /\ ~at.did /\ pc' = "measure"
           /\ SetVariable(<<Cur, 0>>, DbSize(NullSha), Signatures(NullSha))
        \/ UNCHANGED rt
    BY <1>6 DEF MirrorEnd
  <2>2. CASE status' = "SUCCESS"
    BY <2>1, <2>2 DEF Copies
  <2> QED
    BY <2>1, <2>2, Written
<1> QED
  BY <1>1, <1>2, <1>3, <1>4, <1>5, <1>6 DEF MirrorStep

(* Where nothing of someone else's is in the way, a step adds a variable   *)
(* with a new name or leaves them as they are.                             *)
LEMMA OneMore ==
    ASSUME BaseInv, NumberInv, FirstsInv, MirrorStep, DOMAIN conf.foreign = {}, ~UNCHANGED rt
    PROVE  \E x : /\ x \notin DOMAIN rt /\ DOMAIN rt' = DOMAIN rt \union {x}
                  /\ \A y \in DOMAIN rt : rt'[y] = rt[y]
                  /\ x[2] = 0 => x = <<Cur, 0>> /\ Copies
<1>0. cur \in 1 .. 7 /\ Cur = Order[cur] /\ rt = [x \in DOMAIN rt |-> rt[x]]
  BY DEF BaseInv, ShapeInv, Cur, FirstsInv
<1>1. ASSUME <<Cur, 0>> \in DOMAIN rt, pass = 1, pc \in {"delete", "set", "db", "loop", "end"}
      PROVE  pc = "end" /\ at.did
  <2> DEFINE x == <<Cur, 0>>
  <2>1. x[1] = Cur /\ x[2] = 0 /\ Copied(x)
    BY <1>1 DEF FirstsInv
  <2> HIDE DEF x
  <2>2. PICK j \in 1 .. 7 :
          /\ x[1] = Order[j]
          /\ \/ j < cur
             \/ j = cur /\ pc \in {"measure", "log", "settle", "combine", "next"}
             \/ j = cur /\ pc = "end" /\ at.did
    BY <1>1, <2>1 DEF Copied
  <2>3. j = cur
    BY <1>0, <2>1, <2>2, OrderInjective
  <2> QED
    BY <1>0, <1>1, <2>2, <2>3
<1>2. CASE rt' = [x \in DOMAIN rt \ {<<Cur, 0>>} |-> rt[x]] /\ pc = "delete"
  <2>1. CASE <<Cur, 0>> \in DOMAIN rt
    <3>1. pass = 2
      BY <1>1, <1>2, <2>1 DEF BaseInv, ShapeInv
    <3> QED
      BY <1>2, <3>1, MirrorNames DEF MirrorEsl
  <2>2. CASE <<Cur, 0>> \notin DOMAIN rt
    <3>1. DOMAIN rt \ {<<Cur, 0>>} = DOMAIN rt
      BY <2>2
    <3> QED
      BY <1>0, <1>2, <3>1
  <2> QED
    BY <2>1, <2>2
<1>3. ASSUME NEW n, NEW s, SetVariable(<<Cur, 0>>, n, s), status' = "SUCCESS", Copies,
             pc \in {"set", "db", "loop", "end"}, pc = "end" => ~at.did
      PROVE  \E x : /\ x \notin DOMAIN rt /\ DOMAIN rt' = DOMAIN rt \union {x}
                    /\ \A y \in DOMAIN rt : rt'[y] = rt[y]
                    /\ x[2] = 0 => x = <<Cur, 0>> /\ Copies
  <2>1. <<Cur, 0>> \notin DOMAIN rt
    BY <1>1, <1>3 DEF Copies
  <2>2. /\ DOMAIN rt' = DOMAIN rt \union {<<Cur, 0>>}
        /\ \A y \in DOMAIN rt' : y # <<Cur, 0>> => rt'[y] = rt[y]
    BY <1>3, Written
  <2> QED
    BY <1>3, <2>1, <2>2
<1>4. ASSUME NEW n, NEW s, SetVariable(<<Cur, at.i>>, n, s), status' = "SUCCESS",
             pass = 2, at.i # 0, pc = "loop"
      PROVE  \E x : /\ x \notin DOMAIN rt /\ DOMAIN rt' = DOMAIN rt \union {x}
                    /\ \A y \in DOMAIN rt : rt'[y] = rt[y]
                    /\ x[2] = 0 => x = <<Cur, 0>> /\ Copies
  <2>1. <<Cur, at.i>> \notin DOMAIN rt
    BY <1>4, NewName
  <2>2. /\ DOMAIN rt' = DOMAIN rt \union {<<Cur, at.i>>}
        /\ \A y \in DOMAIN rt' : y # <<Cur, at.i>> => rt'[y] = rt[y]
    BY <1>4, Written
  <2>3. <<Cur, at.i>>[2] # 0
    BY <1>4
  <2> QED
    BY <2>1, <2>2, <2>3
<1> QED
  BY <1>2, <1>3, <1>4, FirstCopies

LEMMA FirstsStep == BaseInv /\ NumberInv /\ FirstsInv /\ [Next]_vars => FirstsInv'
<1> SUFFICES ASSUME BaseInv, NumberInv, FirstsInv, [Next]_vars PROVE FirstsInv'
  OBVIOUS
<1>0. /\ conf' = conf /\ cur \in 1 .. 7 /\ Cur = Order[cur] /\ pass \in {1, 2}
      /\ rt = [x \in DOMAIN rt |-> rt[x]]
      /\ pc = "table" => pass = 1 /\ cur = 1
      /\ pc \in AfterPasses => pass = 2
  BY ConfStays DEF BaseInv, ShapeInv, Cur, FirstsInv
<1>1. rt' = [x \in DOMAIN rt' |-> rt'[x]]
  <2>1. CASE UNCHANGED rt
    BY <1>0, <2>1
  <2>2. CASE \E y, n, z : SetVariable(y, n, z)
    BY <1>0, <2>2 DEF SetVariable
  <2>3. CASE rt' = [x \in DOMAIN rt \ {<<Cur, 0>>} |-> rt[x]]
    <3> DEFINE D == DOMAIN rt \ {<<Cur, 0>>}
    <3>1. rt' = [x \in D |-> rt[x]] /\ DOMAIN rt' = D
      BY <2>3
    <3> HIDE DEF D
    <3> QED
      BY <3>1
  <2> QED
    BY <2>1, <2>2, <2>3, FirstCopies, RtUnchanged
<1>2. ASSUME DOMAIN conf.foreign = {}, NEW x \in DOMAIN rt', x[2] = 0
      PROVE  Copied(x)'
  <2>1. CASE MirrorStep
    <3>0. /\ UNCHANGED <<pass, cur>> /\ pc \in Mirroring /\ pc # "table" /\ pc' \in Mirroring \cup {"combine"}
      BY <2>1, MirrorFrame DEF Mirroring, Filled
    <3>1. CASE x \in DOMAIN rt
      <4>1. Copied(x)
        BY <1>2, <3>1 DEF FirstsInv
      <4>2. CASE pass = 2
        BY <3>0, <4>2 DEF Copied
      <4>3. CASE pass # 2
        <5>1. PICK j \in 1 .. 7 :
                /\ x[1] = Order[j]
                /\ \/ j < cur
                   \/ j = cur /\ pc \in {"measure", "log", "settle", "combine", "next"}
                   \/ j = cur /\ pc = "end" /\ at.did
          BY <3>0, <4>1, <4>3 DEF Copied
        <5>2. pc \in {"measure", "log", "settle"} => pc' \in {"log", "settle", "combine"}
          BY <2>1, Iteration DEF MirrorStep, DeleteRt, Fill, SetPlain, MirrorWhole, QueryFails, Split,
             LoopDone, MirrorEnd, Measure, Log, Settle, MirrorEsl
        <5>3. pc = "end" => pc' = "measure"
          BY <2>1, Iteration DEF MirrorStep, DeleteRt, Fill, SetPlain, MirrorWhole, QueryFails, Split,
             LoopDone, MirrorEnd, Measure, Log, Settle, MirrorEsl
        <5>4. pc \notin {"combine", "next"}
          BY <3>0 DEF Mirroring, Filled
        <5> QED
          BY <3>0, <5>1, <5>2, <5>3, <5>4 DEF Copied
      <4> QED
        BY <4>2, <4>3
    <3>2. CASE x \notin DOMAIN rt
      <4>1. x = <<Cur, 0>> /\ Copies
        BY <1>2, <2>1, <3>2, OneMore
      <4>2. x[1] = Order[cur] /\ (pc' = "measure" \/ (pc' = "end" /\ at'.did))
        BY <1>0, <4>1 DEF Copies
      <4> QED
        BY <1>0, <3>0, <4>2 DEF Copied
    <3> QED
      BY <3>1, <3>2
  <2>2. CASE ~MirrorStep
    <3>0. Copied(x)
      BY <1>2, <2>2, RtUnchanged DEF FirstsInv
    <3>1. CASE ImportStep
      <4>1. pc = "import" /\ UNCHANGED <<pass, cur>>
        BY <3>1, ImportFrame
      <4> QED
        BY <3>0, <4>1 DEF Copied
    <3>2. CASE CombineOne
      <4>1. pc = "combine" /\ pc' = "next" /\ UNCHANGED <<pass, cur>>
        BY <3>2 DEF CombineOne
      <4> QED
        BY <3>0, <4>1 DEF Copied
    <3>3. CASE NextVariable
      <4>1. /\ pc = "next" /\ pass' = pass
            /\ \/ cur < 7 /\ cur' = cur + 1
               \/ cur = 7 /\ pc' = IF pass = 1 THEN "table" ELSE "request"
        BY <3>3, OrderFacts DEF NextVariable
      <4>2. CASE pass = 2
        BY <4>1, <4>2 DEF Copied
      <4>3. CASE pass = 1 /\ cur = 7
        BY <4>1, <4>3 DEF Copied
      <4>4. CASE pass = 1 /\ cur < 7
        <5>1. PICK j \in 1 .. 7 : x[1] = Order[j] /\ (j < cur \/ j = cur)
          BY <3>0, <4>1, <4>4 DEF Copied
        <5>2. j < cur'
          BY <1>0, <4>1, <4>4, <5>1
        <5> QED
          BY <5>1, <5>2 DEF Copied
      <4> QED
        BY <1>0, <4>2, <4>3, <4>4
    <3>4. CASE InstallTable
      BY <3>4 DEF InstallTable, Copied
    <3>5. CASE CheckMokRequest \/ Decide
      <4>1. pass' = 2
        BY <1>0, <3>5 DEF CheckMokRequest, Decide, AfterPasses
      <4> QED
        BY <4>1 DEF Copied
    <3>6. CASE Finished \/ UNCHANGED vars
      <4>1. UNCHANGED <<pc, pass, cur, at>>
        BY <3>6 DEF Finished, vars
      <4> QED
        BY <3>0, <4>1 DEF Copied
    <3> QED
      BY <2>2, <3>1, <3>2, <3>3, <3>4, <3>5, <3>6, NextSplits
  <2> QED
    BY <2>1, <2>2
<1> QED
  BY <1>0, <1>1, <1>2 DEF FirstsInv

LEMMA LimitIsNat == BaseInv => MaxVar \in Nat
  BY MaxVarIsNat DEF BaseInv, ShapeInv

(* Where the limit is steady it never rises.                               *)
LEMMA LimitFalls ==
    ASSUME BaseInv, BaseInv', NumberInv, FirstsInv, Steady, [Next]_vars
    PROVE  MaxVar \in Nat /\ MaxVar' \in Nat /\ MaxVar' <= MaxVar
<1>1. conf' = conf /\ conf.max \in Nat
  BY ConfStays, ConfigsAssumption DEF BaseInv, ShapeInv
<1>2. MaxVar \in Nat /\ MaxVar' \in Nat
  <2>1. (BaseInv => MaxVar \in Nat)'
    BY LimitIsNat, PTL
  <2> QED
    BY <2>1, LimitIsNat
<1>3. CASE conf.query # "dynamic" \/ UNCHANGED rt
  <2>1. CASE conf.query # "dynamic"
    <3>1. MaxVar = conf.max
      BY <2>1 DEF MaxVar
    <3>2. MaxVar' = conf.max
      BY <1>1, <2>1 DEF MaxVar
    <3>3. MaxVar' = MaxVar
      BY <3>1, <3>2
    <3> QED
      BY <1>2, <3>3
  <2>2. CASE UNCHANGED rt
    <3>1. Used' = Used
      BY <2>2, UsedStays DEF BaseInv
    <3>2. /\ MaxVar = IF conf.query = "dynamic" THEN Max({conf.max - Used, 0}) ELSE conf.max
          /\ MaxVar' = IF conf.query = "dynamic" THEN Max({conf.max - Used, 0}) ELSE conf.max
      BY <1>1, <3>1, Zenon DEF MaxVar
    <3> QED
      BY <1>2, <3>2
  <2> QED
    BY <1>3, <2>1, <2>2
<1>4. CASE conf.query = "dynamic" /\ ~UNCHANGED rt
  <2>1. PICK x : /\ x \notin DOMAIN rt /\ DOMAIN rt' = DOMAIN rt \union {x}
                 /\ \A y \in DOMAIN rt : rt'[y] = rt[y]
    BY <1>4, RtUnchanged, OneMore DEF Steady
  <2>2. Used \in Nat /\ Used' \in Nat /\ Used <= Used'
    BY <2>1, UsedGrows DEF BaseInv
  <2>3. MaxVar = Max({conf.max - Used, 0}) /\ MaxVar' = Max({conf.max - Used', 0})
    BY <1>1, <1>4 DEF MaxVar
  <2>4. \A p, q \in Nat : p <= q => Max({conf.max - q, 0}) <= Max({conf.max - p, 0})
    <3> TAKE p, q \in Nat
    <3> HAVE p <= q
    <3>1. conf.max - q \in Int /\ conf.max - p \in Int /\ conf.max - q <= conf.max - p
      BY <1>1
    <3> QED
      BY <3>1, MaxGrows
  <2>5. Max({conf.max - Used', 0}) <= Max({conf.max - Used, 0})
    BY <2>2, <2>4
  <2> QED
    BY <1>2, <2>3, <2>5
<1> QED
  BY <1>3, <1>4

---------------------------------------------------------------------------
(* What the copies have                                                    *)

LEMMA MirroredBy ==
    ASSUME NEW v, NEW s
    PROVE  s \in Mirrored(v) <=> \E x \in DOMAIN rt : x[1] = v /\ s \in rt[x].sigs
  BY DEF Mirrored

LEMMA MirroredStays ==
    ASSUME BaseInv, NumberInv, [Next]_vars, NEW v, ~(MirrorStep /\ pass = 1 /\ Cur = v)
    PROVE  Mirrored(v) \subseteq Mirrored(v)'
<1>a. ASSUME \A x \in DOMAIN rt : x[1] = v => x \in DOMAIN rt' /\ rt'[x] = rt[x]
      PROVE  Mirrored(v) \subseteq Mirrored(v)'
  BY <1>a DEF Mirrored
<1>1. CASE UNCHANGED rt
  BY <1>1 DEF Mirrored
<1>2. CASE MirrorStep /\ Cur = v
  <2>1. pass = 2
    BY <1>2 DEF BaseInv, ShapeInv
  <2>2. CASE ~UNCHANGED rt
    <3>1. PICK n, s : MirrorEsl /\ at.i # 0 /\ SetVariable(<<Cur, at.i>>, n, s)
      BY <1>2, <2>1, <2>2, MirrorNames
    <3>2. <<Cur, at.i>> \notin DOMAIN rt
      BY <3>1, NewName DEF MirrorEsl
    <3>3. /\ DOMAIN rt' = DOMAIN rt \union {<<Cur, at.i>>}
          /\ \A y \in DOMAIN rt' : y # <<Cur, at.i>> => rt'[y] = rt[y]
      BY <2>2, <3>1, Written
    <3> QED
      BY <1>a, <3>2, <3>3
  <2> QED
    BY <1>1, <2>2
<1>3. CASE MirrorStep /\ Cur # v
  <2>1. CASE rt' = [x \in DOMAIN rt \ {<<Cur, 0>>} |-> rt[x]]
    <3>1. \A x \in DOMAIN rt : x[1] = v => x # <<Cur, 0>>
      BY <1>3
    <3> QED
      BY <1>a, <2>1, <3>1
  <2>2. CASE (\E i, n \in Nat : \E s : SetVariable(<<Cur, i>>, n, s)) /\ ~UNCHANGED rt
    <3>1. PICK i, n \in Nat : \E s : SetVariable(<<Cur, i>>, n, s)
      BY <2>2
    <3>2. /\ DOMAIN rt' = DOMAIN rt \union {<<Cur, i>>}
          /\ \A y \in DOMAIN rt' : y # <<Cur, i>> => rt'[y] = rt[y]
      BY <2>2, <3>1, Written
    <3>3. \A x \in DOMAIN rt : x[1] = v => x # <<Cur, i>>
      BY <1>3
    <3> QED
      BY <1>a, <3>2, <3>3
  <2> QED
    BY <1>1, <1>3, <2>1, <2>2, MirrorWrites DEF BaseInv
<1> QED
  BY <1>1, <1>2, <1>3, RtUnchanged

Sized(v) == Wanted(v) # <<>> /\ \A k \in DOMAIN Wanted(v) : Wanted(v)[k].size >= MinSize

AllOf(v) == Signatures(Wanted(v)) \subseteq Mirrored(v)

(* The first portion of a database that is split, at most as large as what *)
(* fits in a variable with the name of the first copy.                     *)
Fit(room, e) == IF room > Header THEN Min({(room - Header) \div e.size, e.n}) ELSE 0

FirstSize(v) == Fit(Max({MaxVar - NameSize(<<v, 0>>), 0}), Wanted(v)[1])

FirstPart(v) ==
    /\ conf.query # "unsupported" /\ DbSize(Wanted(v)) > MaxVar
    /\ \A m \in 1 .. FirstSize(v) : <<Wanted(v)[1].id, m>> \in Mirrored(v)

(* What the first pass has left to the second.                             *)
Begun(v) == AllOf(v) \/ FirstPart(v)

Covered ==
    \A l \in DOMAIN full : \A m \in 1 .. full[l].n :
        Before(l, m) => <<full[l].id, m>> \in Mirrored(Cur)

CoverFirst(v) ==
    /\ pc \in {"db", "loop"} => at = Start
    /\ pc = "loop" => conf.query # "unsupported" /\ DbSize(full) > MaxVar
    /\ pc = "end" => IF at.did THEN FirstPart(v) ELSE Signatures(Wanted(v)) = {}
    /\ pc \in {"measure", "log", "settle", "combine", "next"} => Begun(v)

CoverSecond(v) ==
    /\ pc \in {"import", "delete", "fill", "db", "loop"} => Begun(v)
    /\ pc = "db" => at = Start
    /\ pc = "loop" => Covered /\ (at.i = 0 => at.k = 1 /\ at.j = 0)
    /\ pc \in {"end", "measure", "log", "settle", "combine", "next"} => AllOf(v)

Cover(k) ==
    LET v == Order[k]
    IN  \/ FirstPass /\ cur < k
        \/ FirstPass /\ cur = k /\ CoverFirst(v)
        \/ pass = 1 /\ (cur > k \/ pc = "table") /\ Begun(v)
        \/ pass = 2 /\ cur < k /\ pc \notin AfterPasses /\ Begun(v)
        \/ pass = 2 /\ cur = k /\ pc \notin AfterPasses /\ CoverSecond(v)
        \/ pass = 2 /\ (cur > k \/ pc \in AfterPasses) /\ AllOf(v)

CoverInv ==
    trouble = {} /\ Steady =>
        \A k \in 1 .. 2 : Sized(Order[k]) => Cover(k)

LEMMA FitGrows ==
    ASSUME NEW a \in Nat, NEW b \in Nat, a <= b, NEW e \in SignatureList, e.size # 0
    PROVE  Fit(a, e) \in Nat /\ Fit(b, e) \in Nat /\ Fit(a, e) <= Fit(b, e)
<1>1. e.n \in Nat /\ e.size \in Nat
  BY EslSizes
<1>2. \A x, y, z \in Nat : x <= y => /\ Min({x, z}) \in Nat /\ Min({x, z}) <= Min({y, z})
  <2> TAKE x, y, z \in Nat
  <2> HAVE x <= y
  <2>1. Min({x, z}) \in {x, z} /\ Min({x, z}) <= x /\ Min({x, z}) <= z
    BY Extremes
  <2>2. Min({y, z}) \in {y, z}
    BY Extremes
  <2> QED
    BY <2>1, <2>2
<1>a. \A x, z \in Nat : Min({x, z}) \in Nat
  <2> TAKE x, z \in Nat
  <2>1. x <= x
    OBVIOUS
  <2> QED
    BY <1>2, <2>1
<1>3. CASE a > Header
  <2>1. b > Header /\ a - Header \in Nat /\ b - Header \in Nat /\ a - Header <= b - Header
    BY <1>3 DEF Header
  <2>2. /\ (a - Header) \div e.size \in Nat /\ (b - Header) \div e.size \in Nat
        /\ (a - Header) \div e.size <= (b - Header) \div e.size
    BY <1>1, <2>1, Quotients
  <2>3. /\ Fit(a, e) = Min({(a - Header) \div e.size, e.n})
        /\ Fit(b, e) = Min({(b - Header) \div e.size, e.n})
    BY <1>3, <2>1 DEF Fit
  <2> QED
    BY <1>1, <1>2, <1>a, <2>2, <2>3
<1>4. CASE ~(a > Header)
  <2>1. Fit(a, e) = 0
    BY <1>4 DEF Fit
  <2>2. Fit(b, e) \in Nat
    <3>1. CASE b > Header
      <4>1. b - Header \in Nat /\ 0 <= b - Header
        BY <3>1 DEF Header
      <4>2. (b - Header) \div e.size \in Nat
        BY <1>1, <4>1, Quotients
      <4>3. Fit(b, e) = Min({(b - Header) \div e.size, e.n})
        BY <3>1 DEF Fit
      <4> QED
        BY <1>1, <1>a, <4>2, <4>3
    <3>2. CASE ~(b > Header)
      BY <3>2 DEF Fit
    <3> QED
      BY <3>1, <3>2
  <2> QED
    BY <2>1, <2>2
<1> QED
  BY <1>3, <1>4

LEMMA FirstOf ==
    ASSUME BaseInv, NEW v \in KeyDb, Sized(v)
    PROVE  /\ Wanted(v) \in Databases /\ DbSize(Wanted(v)) \in Nat /\ 1 \in DOMAIN Wanted(v)
           /\ Wanted(v)[1] \in SignatureList /\ Wanted(v)[1].size # 0
<1>1. Contents(v, conf.nv[v].data) /\ Contents(v, Addend(v))
  BY VarsFacts, StoredContents, FilledContents DEF BaseInv, ShapeInv, HoldInv
<1>2. Wanted(v) \in Databases
  <2>1. Source(v) \in Databases /\ Addend(v) \in Databases /\ Wanted(v) = Addend(v) \o Source(v)
    BY <1>1, NoContents DEF Source, Wanted, Contents
  <2> QED
    BY <2>1, PrependedIsLarger
<1>3. 1 \in DOMAIN Wanted(v) /\ Wanted(v)[1] \in SignatureList
  BY <1>2 DEF Databases, Sized
<1>4. Wanted(v)[1].size >= MinSize
  BY <1>3 DEF Sized
<1>5. Wanted(v)[1].size # 0
  BY <1>3, <1>4 DEF MinSize, Header
<1>6. DbSize(Wanted(v)) \in Nat
  BY <1>2, PrependedIsLarger
<1> QED
  BY <1>2, <1>3, <1>5, <1>6

(* The limit only falls, so that a first portion stays one.                *)
LEMMA FirstSizeFalls ==
    ASSUME BaseInv, BaseInv', NumberInv, FirstsInv, Steady, [Next]_vars, NEW v \in KeyDb, Sized(v)
    PROVE  FirstSize(v) \in Nat /\ FirstSize(v)' \in Nat /\ FirstSize(v)' <= FirstSize(v)
<1> DEFINE e == Wanted(v)[1]
           a == MaxVar' - NameSize(<<v, 0>>)
           b == MaxVar - NameSize(<<v, 0>>)
<1>1. MaxVar \in Nat /\ MaxVar' \in Nat /\ MaxVar' <= MaxVar /\ NameSize(<<v, 0>>) \in Nat
  BY LimitFalls, NameSizes, VarsFacts
<1>2. a \in Int /\ b \in Int /\ a <= b
  BY <1>1
<1>3. e \in SignatureList /\ e.size # 0
  BY FirstOf
<1>4. FirstSize(v) = Fit(Max({b, 0}), e) /\ FirstSize(v)' = Fit(Max({a, 0}), e)
  <2>1. Wanted(v)' = Wanted(v)
    BY ConfStays
  <2> QED
    BY <2>1 DEF FirstSize
<1> HIDE DEF a, b, e
<1>5. Max({a, 0}) \in Nat /\ Max({b, 0}) \in Nat /\ Max({a, 0}) <= Max({b, 0})
  BY <1>2, MaxGrows
<1> QED
  BY <1>3, <1>4, <1>5, FitGrows

LEMMA CopiesKeep ==
    ASSUME BaseInv, BaseInv', NumberInv, FirstsInv, Steady, [Next]_vars, NEW v \in KeyDb, Sized(v),
           Mirrored(v) \subseteq Mirrored(v)'
    PROVE  /\ AllOf(v) => AllOf(v)'
           /\ FirstPart(v) => FirstPart(v)'
           /\ Begun(v) => Begun(v)'
<1>1. conf' = conf /\ Wanted(v)' = Wanted(v)
  BY ConfStays
<1>2. FirstSize(v) \in Nat /\ FirstSize(v)' \in Nat /\ FirstSize(v)' <= FirstSize(v)
  BY FirstSizeFalls
<1>3. AllOf(v) => AllOf(v)'
  BY <1>1 DEF AllOf
<1>4. FirstPart(v) => FirstPart(v)'
  <2> SUFFICES ASSUME FirstPart(v) PROVE FirstPart(v)'
    OBVIOUS
  <2>1. DbSize(Wanted(v)) > MaxVar'
    <3>1. MaxVar \in Nat /\ MaxVar' \in Nat /\ MaxVar' <= MaxVar
      BY LimitFalls
    <3>2. DbSize(Wanted(v)) \in Nat /\ DbSize(Wanted(v)) > MaxVar
      BY FirstOf DEF FirstPart
    <3> QED
      BY <3>1, <3>2
  <2>2. \A m \in 1 .. FirstSize(v)' : <<Wanted(v)[1].id, m>> \in Mirrored(v)'
    <3> TAKE m \in 1 .. FirstSize(v)'
    <3>1. m \in 1 .. FirstSize(v)
      BY <1>2
    <3> QED
      BY <3>1 DEF FirstPart
  <2> QED
    BY <1>1, <2>1, <2>2 DEF FirstPart
<1> QED
  BY <1>3, <1>4 DEF Begun

(* What mirror_mok_db has in hand of a key database with sound lists.      *)
LEMMA InHand ==
    ASSUME BaseInv, NEW k \in 1 .. 2, Loaded(k), cur = k, pc \in Copying,
           NEW v, v = Order[k], Sized(v)
    PROVE  /\ v = Cur /\ v \in KeyDb /\ full \in Databases
           /\ pass = 1 => full = Wanted(v)
           /\ \A l \in DOMAIN full : full[l].size >= MinSize
           /\ 1 \in DOMAIN full /\ full[1] = Wanted(v)[1] /\ full[1] \in SignatureList
           /\ \A l \in DOMAIN Wanted(v) : \E j \in DOMAIN full : full[j] = Wanted(v)[l]
           /\ DbSize(Wanted(v)) \in Nat /\ DbSize(full) \in Nat
           /\ DbSize(Wanted(v)) <= DbSize(full)
<1>1. /\ v = Cur /\ v \in KeyDb /\ v \in Vars /\ full \in Databases
      /\ conf \in Configs /\ pass \in {1, 2}
  BY KeyDbFacts DEF BaseInv, ShapeInv, HoldInv, Contents
<1>2. /\ Addend(v) \in Databases /\ Source(v) \in Databases
      /\ Wanted(v) = Addend(v) \o Source(v)
  <2>1. Contents(v, conf.nv[v].data) /\ Contents(v, Addend(v))
    BY <1>1, StoredContents, FilledContents DEF BaseInv, HoldInv
  <2> QED
    BY <1>1, <2>1, NoContents DEF Source, Wanted, Contents
<1>3. Wanted(v) \in Databases /\ Wanted(v) # <<>> /\ Complete(v) = Wanted(v)
  BY <1>2, PrependedIsLarger DEF Sized, Complete
<1>4. \A l \in DOMAIN Wanted(v) : Wanted(v)[l].size >= MinSize
  BY DEF Sized
<1>5. Len(Wanted(v)) \in Nat /\ Len(Wanted(v)) >= 1 /\ DOMAIN Wanted(v) = 1 .. Len(Wanted(v))
  BY <1>3 DEF Databases
<1>6. DbSize(Wanted(v)) \in Nat /\ DbSize(full) \in Nat
  BY <1>1, <1>3, PrependedIsLarger
<1>7. CASE pass = 1
  <2>1. full = Wanted(v)
    BY <1>1, <1>3, <1>7 DEF Loaded, FirstPass, Past, Copying
  <2>2. 1 \in DOMAIN full /\ full[1] \in SignatureList
    BY <1>3, <1>5, <2>1 DEF Databases
  <2> QED
    BY <1>1, <1>4, <1>6, <1>7, <2>1, <2>2
<1>8. CASE pass = 2
  <2> DEFINE a == Addend(v)
             w == Wanted(v)
             p == Len(a)
  <2>1. full = a \o w
    BY <1>1, <1>3, <1>8 DEF Loaded, FirstPass, Past, Copying, AfterPasses
  <2>2. /\ p \in Nat /\ Len(full) = p + Len(w) /\ DOMAIN full = 1 .. p + Len(w)
        /\ \A l \in 1 .. p : full[l] = a[l]
        /\ \A l \in 1 .. Len(w) : full[p + l] = w[l]
    BY <1>2, <1>3, <2>1 DEF Databases
  <2>3. \A l \in 1 .. p : a[l] = w[l] /\ l \in DOMAIN w
    BY <1>2 DEF Databases
  <2>4. \A l \in DOMAIN w : p + l \in DOMAIN full /\ full[p + l] = w[l]
    <3> HIDE DEF p, w
    <3> QED
      BY <1>5, <2>2 DEF w
  <2>5. \A l \in DOMAIN full : \E j \in DOMAIN w : full[l] = w[j]
    <3> TAKE l \in DOMAIN full
    <3>1. CASE l \in 1 .. p
      BY <2>2, <2>3, <3>1
    <3>2. CASE l \notin 1 .. p
      <4> HIDE DEF p, w
      <4>1. l - p \in 1 .. Len(w) /\ p + (l - p) = l
        BY <1>5, <2>2, <3>2 DEF w
      <4>2. full[p + (l - p)] = w[l - p]
        BY <2>2, <4>1
      <4> QED
        BY <1>5, <4>1, <4>2 DEF w
    <3> QED
      BY <3>1, <3>2
  <2>6. 1 \in DOMAIN full /\ full[1] = w[1]
    <3>1. CASE p = 0
      <4> HIDE DEF p, w
      <4>1. 0 + 1 = 1 /\ 1 \in 1 .. Len(w)
        BY <1>5 DEF w
      <4> QED
        BY <2>2, <2>4, <3>1, <4>1, <1>5 DEF w
    <3>2. CASE p # 0
      <4>1. 1 \in 1 .. p
        BY <2>2, <3>2
      <4>2. 1 \in 1 .. p + Len(w)
        <5> HIDE DEF p, w
        <5> QED
          BY <1>5, <2>2, <4>1 DEF w
      <4> QED
        BY <2>2, <2>3, <4>1, <4>2
    <3> QED
      BY <3>1, <3>2
  <2>7. DbSize(w) <= DbSize(full)
    BY <1>2, <1>3, <2>1, PrependedIsLarger
  <2>8. full[1] \in SignatureList
    BY <1>1, <2>6 DEF Databases
  <2> QED
    BY <1>1, <1>4, <1>6, <1>8, <2>4, <2>5, <2>6, <2>7, <2>8
<1> QED
  BY <1>1, <1>7, <1>8

(* The first portion, in the first pass and where the second passes over   *)
(* it: the name with a zero leaves no more room than the name without.     *)
LEMMA FirstPortions ==
    ASSUME BaseInv, pc = "loop", More, NEW n, Portion(n),
           at.k = 1, at.j = 0, at.i = 0, NEW v, v = Cur,
           1 \in DOMAIN full, full[1] = Wanted(v)[1], full[1] \in SignatureList
    PROVE  /\ n \in Nat /\ FirstSize(v) \in Nat
           /\ pass = 1 => n = FirstSize(v)
           /\ n <= FirstSize(v)
<1> DEFINE e == full[1]
           big == MaxVar - NameSize(<<v, 0>>)
<1>1. /\ conf \in Configs /\ v \in KeyDb /\ v \in Vars /\ pass \in {1, 2}
      /\ full[1].size # 0 /\ MaxVar \in Nat
  BY LimitIsNat, VarsFacts DEF BaseInv, ShapeInv, PlaceInv, More
<1>2. NameSize(<<v, 0>>) \in Nat
  BY <1>1, NameSizes
<1>3. e.n \in Nat /\ e.size \in Nat /\ e.n - 0 = e.n
  BY EslSizes
<1>4. \A room : HowMany(room, e) = Fit(room, e)
  BY <1>3 DEF HowMany, Fit
<1>5. big \in Int /\ big - 2 \in Int /\ big - 2 <= big /\ big <= big
  BY <1>1, <1>2
<1>6. /\ Max({big, 0}) \in Nat /\ Max({big - 2, 0}) \in Nat
      /\ Max({big - 2, 0}) <= Max({big, 0}) /\ Max({big, 0}) <= Max({big, 0})
  <2> HIDE DEF big
  <2> QED
    BY <1>5, MaxGrows
<1>7. /\ Fit(Max({big, 0}), e) \in Nat /\ Fit(Max({big - 2, 0}), e) \in Nat
      /\ Fit(Max({big - 2, 0}), e) <= Fit(Max({big, 0}), e)
  <2> HIDE DEF big
  <2> QED
    BY <1>1, <1>6, FitGrows
<1>8. FirstSize(v) = Fit(Max({big, 0}), e)
  BY DEF FirstSize
<1>9. n = Fit(Max({MaxVar - LoopNameSize, 0}), e)
  BY <1>4 DEF Portion
<1>10. CASE pass = 1
  <2>1. LoopNameSize = NameSize(<<v, 0>>)
    BY <1>10 DEF LoopNameSize
  <2>2. n = FirstSize(v)
    BY <1>8, <1>9, <2>1
  <2> HIDE DEF big, e
  <2> QED
    BY <1>7, <1>8, <2>2
<1>11. CASE pass = 2
  <2>1. LoopNameSize = NameSize(<<v, 0>>) + 2
    BY <1>11 DEF LoopNameSize
  <2>2. MaxVar - LoopNameSize = big - 2
    BY <1>1, <1>2, <2>1
  <2>3. n = Fit(Max({big - 2, 0}), e)
    BY <1>9, <2>2
  <2> HIDE DEF big, e
  <2> QED
    BY <1>7, <1>8, <1>11, <2>3
<1> QED
  BY <1>1, <1>10, <1>11

(* The signatures an iteration moves past are those of its portion.        *)
LEMMA BeforeAdvance ==
    ASSUME at.k \in Nat, at.j \in Nat, NEW n \in Nat, full[at.k].n \in Nat,
           at.j + n <= full[at.k].n, full' = full, DOMAIN at = {"k", "j", "i", "did"},
           at'.k = Advance(n).k, at'.j = Advance(n).j,
           NEW l \in Nat, NEW m \in Nat, m # 0, Before(l, m)', l = at.k => m <= full[at.k].n
    PROVE  Before(l, m) \/ (l = at.k /\ at.j < m /\ m <= at.j + n)
<1>1. l < at'.k \/ (l = at'.k /\ m <= at'.j)
  BY DEF Before
<1>2. CASE at.j + n = full[at.k].n
  <2>1. at'.k = at.k + 1 /\ at'.j = 0
    BY <1>2, AdvancePlace
  <2>2. l < at.k \/ l = at.k
    BY <1>1, <2>1
  <2> QED
    BY <1>2, <2>2 DEF Before
<1>3. CASE at.j + n # full[at.k].n
  <2>1. at'.k = at.k /\ at'.j = at.j + n
    BY <1>3, AdvancePlace
  <2> QED
    BY <1>1, <2>1 DEF Before
<1> QED
  BY <1>2, <1>3

(* At the start of a database nothing is done.                             *)
LEMMA NothingDone ==
    ASSUME at = Start, NEW l, NEW m \in 1 .. full[l].n, l \in DOMAIN full, full \in Databases
    PROVE  ~Before(l, m)
<1>1. l \in Nat /\ l # 0 /\ at.k = 1 /\ at.j = 0
  BY StartPlace DEF Databases
<1> QED
  BY <1>1 DEF Before

(* The first pass: all of a database, or its first portion.                *)
LEMMA CoverFirstStep ==
    ASSUME BaseInv, BaseInv', NumberInv, FirstsInv, Steady, [Next]_vars, MirrorStep,
           NEW k \in 1 .. 2, Loaded(k), cur = k, trouble' = {}, pass = 1, NEW v, v = Order[k], Sized(v), CoverFirst(v)
    PROVE  CoverFirst(v)'
<1>0. /\ v = Cur /\ v \in KeyDb /\ conf' = conf /\ Wanted(v)' = Wanted(v)
      /\ MaxVar \in Nat /\ MaxVar' \in Nat /\ MaxVar' <= MaxVar
  BY KeyDbFacts, ConfStays, LimitFalls DEF BaseInv
<1>a. /\ \A x : ~Fault(x)
      /\ \A x, n, s : SetVariable(x, n, s) => status' = "SUCCESS"
  BY NoFault
<1>b. ASSUME UNCHANGED rt
      PROVE  /\ AllOf(v) => AllOf(v)'
             /\ FirstPart(v) => FirstPart(v)'
             /\ Begun(v) => Begun(v)'
  <2>1. Mirrored(v)' = Mirrored(v)
    BY <1>b DEF Mirrored
  <2> QED
    BY <1>0, <2>1, CopiesKeep
<1>c. ASSUME NEW n, NEW s, SetVariable(<<v, 0>>, n, s) PROVE s \subseteq Mirrored(v)'
  <2>1. rt'[<<v, 0>>].sigs = s /\ <<v, 0>> \in DOMAIN rt' /\ <<v, 0>>[1] = v
    BY <1>a, <1>c, Written
  <2> QED
    BY <2>1 DEF Mirrored
<1>d. pc \in Copying => /\ full \in Databases /\ full = Wanted(v)
                        /\ \A l \in DOMAIN full : full[l].size >= MinSize
                        /\ 1 \in DOMAIN full /\ full[1] = Wanted(v)[1] /\ full[1] \in SignatureList
  BY InHand
<1>e. (Signatures(Wanted(v)) = {} => AllOf(v)') /\ (AllOf(v)' => Begun(v)')
  BY <1>0 DEF AllOf, Begun
<1>1. CASE DeleteRt
  BY <1>1 DEF DeleteRt, CoverFirst
<1>2. CASE Fill
  BY <1>0, <1>2, <1>a, LoadedMirror DEF Fill, CoverFirst, Copying, DeleteRt, Settle
<1>3. CASE SetPlain
  BY <1>0, <1>3 DEF SetPlain, BaseInv, PlaceInv
<1>4. CASE MirrorWhole
  <2>1. pc' = "measure" /\ SetVariable(<<v, 0>>, DbSize(full), Signatures(full)) /\ pc = "db"
    BY <1>0, <1>4 DEF MirrorWhole
  <2>2. AllOf(v)'
    BY <1>0, <1>c, <1>d, <2>1 DEF AllOf, Copying
  <2> QED
    BY <1>e, <2>1, <2>2 DEF CoverFirst
<1>5. CASE QueryFails
  BY <1>5, <1>a DEF QueryFails
<1>6. CASE Split
  <2>1. pc = "db" /\ pc' = "loop" /\ at' = at /\ full' = full /\ ~Whole
    BY <1>6, <1>a DEF Split, loop
  <2>2. at = Start /\ full \in Databases /\ conf.query # "unsupported"
    BY <1>d, <2>1 DEF CoverFirst, Copying, Whole
  <2>3. DbSize(full) \in Nat
    BY <2>2, PrependedIsLarger
  <2>4. DbSize(full) > MaxVar'
    <3>1. ~(DbSize(full) <= MaxVar)
      BY <2>1 DEF Whole
    <3> QED
      BY <1>0, <2>3, <3>1
  <2> QED
    BY <1>0, <2>1, <2>2, <2>4 DEF CoverFirst
<1>7. CASE MirrorEsl
  <2>1. pc = "loop" /\ More /\ at = Start /\ conf.query # "unsupported" /\ DbSize(full) > MaxVar
    BY <1>7 DEF MirrorEsl, CoverFirst
  <2>2. at.k = 1 /\ at.j = 0 /\ at.i = 0
    BY <2>1, StartPlace
  <2>3. PICK n : /\ Portion(n)
                 /\ SetVariable(<<Cur, at.i>>, Header + n * full[at.k].size,
                                {<<full[at.k].id, at.j + m>> : m \in 1 .. n})
                 /\ at' = [Advance(n) EXCEPT !.did = TRUE, !.i = IF pass = 1 THEN @ ELSE @ + 1]
                 /\ pc' = "end"
    <3>1. PICK n : /\ Portion(n)
                   /\ SetVariable(<<Cur, at.i>>, Header + n * full[at.k].size,
                                  {<<full[at.k].id, at.j + m>> : m \in 1 .. n})
                   /\ at' = IF status' = "SUCCESS"
                            THEN [Advance(n) EXCEPT !.did = TRUE,
                                                    !.i = IF pass = 1 THEN @ ELSE @ + 1]
                            ELSE at
                   /\ pc' = IF pass = 1 \/ status' # "SUCCESS" THEN "end" ELSE "loop"
      <4>1. trouble' # trouble \union {"skipped"} /\ pass # 2 /\ ~Fault("nomem")
        BY <1>a
      <4> QED
        BY <1>7, <4>1, Iteration, Zenon
    <3>2. status' = "SUCCESS" /\ pc' = "end"
      BY <1>a, <3>1
    <3> WITNESS n
    <3> QED
      BY <3>1, <3>2
  <2>4. n = FirstSize(v)
    BY <1>0, <1>d, <2>1, <2>2, <2>3, FirstPortions DEF Copying
  <2>5. {<<full[1].id, 0 + m>> : m \in 1 .. n} \subseteq Mirrored(v)'
    BY <1>0, <1>c, <2>2, <2>3
  <2>6. \A m \in 1 .. FirstSize(v)' : <<Wanted(v)[1].id, m>> \in Mirrored(v)'
    <3> TAKE m \in 1 .. FirstSize(v)'
    <3>1. m \in 1 .. n /\ 0 + m = m
      <4>1. FirstSize(v) \in Nat /\ FirstSize(v)' \in Nat /\ FirstSize(v)' <= FirstSize(v)
        BY <1>0, FirstSizeFalls
      <4> QED
        BY <2>4, <4>1
    <3>2. <<full[1].id, 0 + m>> \in Mirrored(v)'
      BY <2>5, <3>1
    <3> QED
      BY <1>d, <2>1, <3>1, <3>2 DEF Copying
  <2>7. FirstPart(v)'
    <3>1. DbSize(Wanted(v)) > MaxVar'
      <4>1. DbSize(full) \in Nat /\ full = Wanted(v)
        BY <1>d, <2>1, PrependedIsLarger DEF Copying
      <4> QED
        BY <1>0, <2>1, <4>1
    <3> QED
      BY <1>0, <2>1, <2>6, <3>1 DEF FirstPart
  <2>8. at'.did = TRUE
    <3>1. DOMAIN at = {"k", "j", "i", "did"}
      BY DEF BaseInv, PlaceInv
    <3>2. at' = [Advance(n) EXCEPT !.did = TRUE, !.i = Advance(n).i]
      BY <2>3
    <3> QED
      BY <3>1, <3>2, AdvancePlace
  <2> QED
    BY <2>3, <2>7, <2>8 DEF CoverFirst
<1>8. CASE LoopDone
  <2>1. pc = "loop" /\ ~More /\ pc' = "end" /\ UNCHANGED <<at, rt>> /\ at = Start /\ Placed
    BY <1>8 DEF LoopDone, loop, CoverFirst, BaseInv, PlaceInv
  <2>2. \A l \in DOMAIN full : \A m \in 1 .. full[l].n : FALSE
    BY <1>d, <2>1, LoopReachesEnd, NothingDone DEF Copying
  <2>3. Signatures(Wanted(v)) = {}
    BY <1>d, <2>1, <2>2 DEF Signatures, Copying
  <2>4. ~at.did
    BY <2>1, StartPlace
  <2> QED
    BY <1>0, <2>1, <2>3, <2>4 DEF CoverFirst, Signatures
<1>9. CASE MirrorEnd
  <2>1. pc = "end" /\ pc' = "measure" /\ (at.did => UNCHANGED rt)
    BY <1>9 DEF MirrorEnd
  <2>2. Begun(v)'
    BY <1>b, <1>e, <2>1 DEF CoverFirst, Begun
  <2> QED
    BY <2>1, <2>2 DEF CoverFirst
<1>10. CASE Measure \/ Log \/ Settle
  <2>1. pc \in {"measure", "log", "settle"} /\ pc' \in {"log", "settle", "combine"} /\ UNCHANGED rt
    BY <1>10, <1>a DEF Measure, Log, Settle
  <2>2. Begun(v)'
    BY <1>b, <2>1 DEF CoverFirst
  <2> QED
    BY <2>1, <2>2 DEF CoverFirst
<1> QED
  BY <1>1, <1>2, <1>3, <1>4, <1>5, <1>6, <1>7, <1>8, <1>9, <1>10 DEF MirrorStep

(* One iteration of the second pass: what it moves past has been copied,   *)
(* by the first pass or by this step.                                      *)
LEMMA IterationCovers ==
    ASSUME BaseInv, NumberInv, [Next]_vars, MirrorEsl, NEW k \in 1 .. 2, Loaded(k), cur = k,
           trouble' = {}, pass = 2, NEW v, v = Order[k], Sized(v),
           Begun(v), Covered, at.i = 0 => at.k = 1 /\ at.j = 0
    PROVE  pc' = "loop" /\ Covered' /\ at'.i # 0
<1>0. /\ v = Cur /\ Cur' = Cur /\ full' = full /\ pc = "loop" /\ More
      /\ Wanted(v)' = Wanted(v) /\ MirrorStep /\ DOMAIN at = {"k", "j", "i", "did"}
  <2>1. Wanted(v)' = Wanted(v)
    BY ConfStays
  <2> QED
    BY <2>1, KeyDbFacts DEF BaseInv, MirrorEsl, Cur, MirrorStep, PlaceInv
<1>a. /\ full \in Databases /\ 1 \in DOMAIN full /\ full[1] = Wanted(v)[1]
      /\ full[1] \in SignatureList /\ 1 \in DOMAIN Wanted(v)
  <2>1. v \in KeyDb
    BY <1>0, KeyDbFacts DEF BaseInv
  <2> QED
    BY <1>0, <2>1, FirstOf, InHand DEF Copying
<1>b. Mirrored(v) \subseteq Mirrored(v)'
  BY <1>0, MirroredStays
<1>1. PICK n : /\ Portion(n)
               /\ \/ /\ at.i = 0 /\ at' = [Advance(n) EXCEPT !.i = 1]
                     /\ UNCHANGED <<pc, rt>>
                  \/ /\ at.i # 0
                     /\ SetVariable(<<Cur, at.i>>, Header + n * full[at.k].size,
                                    {<<full[at.k].id, at.j + m>> : m \in 1 .. n})
                     /\ at' = IF status' = "SUCCESS"
                              THEN [Advance(n) EXCEPT !.did = TRUE,
                                                      !.i = IF pass = 1 THEN @ ELSE @ + 1]
                              ELSE at
                     /\ pc' = IF pass = 1 \/ status' # "SUCCESS" THEN "end" ELSE "loop"
  <2>1. trouble' # trouble \union {"skipped"} /\ pass = 2 /\ ~Fault("nomem")
    BY NoFault
  <2> QED
    BY <1>0, <2>1, Iteration, Zenon
<1>2. /\ n \in Nat /\ at.j + n <= full[at.k].n
      /\ at.k \in 1 .. Len(full) /\ at.j \in Nat /\ at.i \in Nat /\ full[at.k].n \in Nat
  BY <1>0, <1>1, PortionSizes DEF BaseInv
<1>3. /\ at'.k = Advance(n).k /\ at'.j = Advance(n).j /\ at'.i # 0 /\ pc' = "loop"
      /\ at.i # 0 => {<<full[at.k].id, at.j + m>> : m \in 1 .. n} \subseteq Mirrored(v)'
  <2>1. CASE at.i = 0
    <3>1. at' = [Advance(n) EXCEPT !.i = 1] /\ pc' = "loop"
      BY <1>0, <1>1, <2>1
    <3> QED
      BY <1>0, <2>1, <3>1, AdvancePlace
  <2>2. CASE at.i # 0
    <3>1. SetVariable(<<Cur, at.i>>, Header + n * full[at.k].size,
                      {<<full[at.k].id, at.j + m>> : m \in 1 .. n})
      BY <1>1, <2>2
    <3>2. status' = "SUCCESS"
      BY <3>1, NoFault
    <3> DEFINE i == IF pass = 1 THEN Advance(n).i ELSE Advance(n).i + 1
               x == <<Cur, at.i>>
    <3>3. at' = [Advance(n) EXCEPT !.did = TRUE, !.i = i] /\ pc' = "loop"
      BY <1>1, <2>2, <3>2
    <3>4. at'.k = Advance(n).k /\ at'.j = Advance(n).j /\ at'.i = i
      BY <1>0, <3>3, AdvancePlace
    <3>5. i = at.i + 1
      BY <1>0, LoopPosition
    <3>6. /\ x \in DOMAIN rt' /\ x[1] = Cur
          /\ rt'[x].sigs = {<<full[at.k].id, at.j + m>> : m \in 1 .. n}
      <4> DEFINE s == {<<full[at.k].id, at.j + m>> : m \in 1 .. n}
                 size == Header + n * full[at.k].size
      <4>1. x[1] = Cur /\ SetVariable(x, size, s)
        BY <3>1
      <4> HIDE DEF x, s, size
      <4>2. DOMAIN rt' = DOMAIN rt \union {x} /\ rt'[x].sigs = s
        BY <3>2, <4>1, Written
      <4> QED
        BY <4>1, <4>2 DEF s
    <3>7. {<<full[at.k].id, at.j + m>> : m \in 1 .. n} \subseteq Mirrored(v)'
      BY <1>0, <3>6 DEF Mirrored
    <3> QED
      BY <1>2, <3>3, <3>4, <3>5, <3>7
  <2> QED
    BY <2>1, <2>2
<1>4. ASSUME NEW m \in Nat, at.j < m, m <= at.j + n
      PROVE  <<full[at.k].id, m>> \in Mirrored(v)'
  <2>1. CASE at.i # 0
    <3>1. m - at.j \in 1 .. n /\ at.j + (m - at.j) = m
      BY <1>2, <1>4
    <3>2. <<full[at.k].id, at.j + (m - at.j)>> \in Mirrored(v)'
      BY <1>3, <2>1, <3>1
    <3> QED
      BY <3>1, <3>2
  <2>2. CASE at.i = 0
    <3>1. at.k = 1 /\ at.j = 0
      BY <2>2
    <3>2. FirstSize(v) \in Nat /\ n <= FirstSize(v)
      BY <1>0, <1>1, <1>a, <2>2, <3>1, FirstPortions
    <3>3. m \in 1 .. FirstSize(v) /\ m \in 1 .. Wanted(v)[1].n
      <4>1. m >= 1 /\ m <= n /\ n <= Wanted(v)[1].n /\ Wanted(v)[1].n \in Nat
        BY <1>2, <1>4, <1>a, <3>1
      <4> QED
        BY <1>2, <3>2, <4>1
    <3>4. <<Wanted(v)[1].id, m>> \in Mirrored(v)
      <4>1. CASE AllOf(v)
        <5>1. <<Wanted(v)[1].id, m>> \in Signatures(Wanted(v))
          BY <1>a, <3>3 DEF Signatures
        <5> QED
          BY <4>1, <5>1 DEF AllOf
      <4>2. CASE FirstPart(v)
        BY <3>3, <4>2 DEF FirstPart
      <4> QED
        BY <4>1, <4>2 DEF Begun
    <3> QED
      BY <1>a, <1>b, <3>1, <3>4
  <2> QED
    BY <2>1, <2>2
<1>5. Covered'
  <2> SUFFICES ASSUME NEW l \in DOMAIN full, NEW m \in 1 .. full[l].n, Before(l, m)'
               PROVE  <<full[l].id, m>> \in Mirrored(v)'
    BY <1>0 DEF Covered
  <2>1. l \in Nat /\ full[l].n \in Nat /\ m \in Nat /\ m # 0 /\ m <= full[l].n
    <3>1. l \in Nat /\ full[l] \in SignatureList
      BY <1>a DEF Databases
    <3> QED
      BY <3>1, EslSizes
  <2>2. Before(l, m) \/ (l = at.k /\ at.j < m /\ m <= at.j + n)
    BY <1>0, <1>2, <1>3, <2>1, BeforeAdvance
  <2>3. CASE Before(l, m)
    BY <1>0, <1>b, <2>3 DEF Covered
  <2>4. CASE l = at.k /\ at.j < m /\ m <= at.j + n
    BY <1>4, <2>1, <2>4
  <2> QED
    BY <2>2, <2>3, <2>4
<1> QED
  BY <1>3, <1>5

(* The second pass: the rest of a database that was split.                 *)
LEMMA CoverSecondStep ==
    ASSUME BaseInv, BaseInv', NumberInv, FirstsInv, Steady, [Next]_vars, MirrorStep,
           NEW k \in 1 .. 2, Loaded(k), cur = k, trouble' = {}, pass = 2, NEW v, v = Order[k], Sized(v),
           CoverSecond(v)
    PROVE  CoverSecond(v)'
<1>0. v = Cur /\ v \in KeyDb /\ MaxVar \in Nat /\ Cur' = Cur /\ pc \in Mirroring
  BY KeyDbFacts, LimitIsNat, MirrorFrame DEF BaseInv, Cur
<1>a. \A x : ~Fault(x)
  BY NoFault
<1>b. /\ AllOf(v) => AllOf(v)'
      /\ Begun(v) => Begun(v)'
  <2>1. Mirrored(v) \subseteq Mirrored(v)'
    BY MirroredStays
  <2> QED
    BY <1>0, <2>1, CopiesKeep
<1>c. pc \in Copying =>
          /\ full \in Databases /\ \A l \in DOMAIN full : full[l].size >= MinSize
          /\ \A l \in DOMAIN Wanted(v) : \E j \in DOMAIN full : full[j] = Wanted(v)[l]
          /\ DbSize(Wanted(v)) \in Nat /\ DbSize(full) \in Nat
          /\ DbSize(Wanted(v)) <= DbSize(full)
  BY InHand
<1>1. CASE DeleteRt
  BY <1>1, <1>b DEF DeleteRt, CoverSecond
<1>2. CASE Fill
  <2>1. pc = "fill" /\ pc' = "db" /\ at' = Start
    BY <1>0, <1>2, <1>a, LoadedMirror DEF Fill, Copying, DeleteRt, Settle
  <2> QED
    BY <1>b, <2>1 DEF CoverSecond
<1>3. CASE SetPlain
  BY <1>0, <1>3 DEF SetPlain, BaseInv, PlaceInv
<1>4. CASE MirrorWhole
  <2>1. pc' = "measure" /\ pc = "db" /\ Whole
    BY <1>4 DEF MirrorWhole
  <2>2. Begun(v)
    BY <2>1 DEF CoverSecond
  <2>3. ~FirstPart(v)
    BY <1>0, <1>c, <2>1 DEF FirstPart, Whole, Copying
  <2>4. AllOf(v)'
    BY <1>b, <2>2, <2>3 DEF Begun
  <2> QED
    BY <2>1, <2>4 DEF CoverSecond
<1>5. CASE QueryFails
  BY <1>5, <1>a DEF QueryFails
<1>6. CASE Split
  <2>1. pc = "db" /\ pc' = "loop" /\ at' = at /\ full' = full /\ at = Start
    BY <1>6, <1>a DEF Split, loop, CoverSecond
  <2>2. Covered'
    <3> SUFFICES ASSUME NEW l \in DOMAIN full, NEW m \in 1 .. full[l].n, Before(l, m)' PROVE FALSE
      BY <2>1 DEF Covered
    <3>1. Before(l, m)
      BY <2>1 DEF Before
    <3> QED
      BY <1>c, <2>1, <3>1, NothingDone DEF Copying
  <2>3. Begun(v)'
    BY <1>b, <2>1 DEF CoverSecond
  <2> QED
    BY <2>1, <2>2, <2>3, StartPlace DEF CoverSecond
<1>7. CASE MirrorEsl
  <2>1. pc = "loop" /\ Begun(v) /\ Covered /\ (at.i = 0 => at.k = 1 /\ at.j = 0)
    BY <1>7 DEF MirrorEsl, CoverSecond
  <2>2. pc' = "loop" /\ Covered' /\ at'.i # 0
    BY <1>7, <2>1, IterationCovers
  <2> QED
    BY <1>b, <2>1, <2>2 DEF CoverSecond
<1>8. CASE LoopDone
  <2>1. pc = "loop" /\ ~More /\ pc' = "end" /\ Covered /\ Placed
    BY <1>8 DEF LoopDone, CoverSecond, BaseInv, PlaceInv
  <2>2. \A l \in DOMAIN full : \A m \in 1 .. full[l].n : <<full[l].id, m>> \in Mirrored(v)
    BY <1>0, <1>c, <2>1, LoopReachesEnd DEF Covered, Copying
  <2>3. AllOf(v)
    <3> SUFFICES ASSUME NEW l \in DOMAIN Wanted(v), NEW m \in 1 .. Wanted(v)[l].n
                 PROVE  <<Wanted(v)[l].id, m>> \in Mirrored(v)
      BY DEF AllOf, Signatures
    <3>1. PICK j \in DOMAIN full : full[j] = Wanted(v)[l]
      BY <1>c, <2>1 DEF Copying
    <3> QED
      BY <2>2, <3>1
  <2> QED
    BY <1>b, <2>1, <2>3 DEF CoverSecond
<1>9. CASE MirrorEnd \/ Measure \/ Log \/ Settle
  <2>1. /\ pc \in {"end", "measure", "log", "settle"}
        /\ pc' \in {"measure", "log", "settle", "combine"}
    BY <1>9 DEF MirrorEnd, Measure, Log, Settle
  <2> QED
    BY <1>b, <2>1 DEF CoverSecond
<1> QED
  BY <1>1, <1>2, <1>3, <1>4, <1>5, <1>6, <1>7, <1>8, <1>9 DEF MirrorStep

LEMMA CoverStep ==
    ASSUME BaseInv, BaseInv', NumberInv, FirstsInv, Steady, [Next]_vars, trouble' = {},
           NEW k \in 1 .. 2, Loaded(k), Sized(Order[k]), Cover(k)
    PROVE  Cover(k)'
<1> DEFINE v == Order[k]
<1>0. /\ cur \in 1 .. 7 /\ (Cur = v <=> cur = k) /\ pass \in {1, 2} /\ Sized(v)
      /\ pc = "table" => pass = 1 /\ cur = 1
      /\ pc \in AfterPasses => pass = 2
  BY KeyDbFacts DEF BaseInv, ShapeInv
<1>a. ASSUME ~(MirrorStep /\ pass = 1 /\ Cur = v)
      PROVE  (AllOf(v) => AllOf(v)') /\ (Begun(v) => Begun(v)')
  <2>1. Mirrored(v) \subseteq Mirrored(v)'
    BY <1>a, MirroredStays
  <2>2. v \in KeyDb
    BY KeyDbFacts DEF BaseInv
  <2> QED
    BY <1>0, <2>1, <2>2, CopiesKeep
<1> HIDE DEF v
<1>1. CASE MirrorStep
  <2>1. /\ pc \in Mirroring /\ pc' \in Mirroring \cup {"combine"} /\ UNCHANGED <<pass, cur>>
        /\ pc \notin AfterPasses /\ pc' \notin AfterPasses /\ pc # "table" /\ pc' # "table"
    BY <1>1, MirrorFrame DEF Mirroring, Filled, AfterPasses
  <2>2. CASE cur = k /\ pass = 1
    <3>1. CoverFirst(v)
      BY <2>1, <2>2 DEF Cover, v
    <3>2. CoverFirst(v)'
      BY <1>0, <1>1, <2>2, <3>1, CoverFirstStep DEF v
    <3> QED
      BY <2>1, <2>2, <3>2 DEF Cover, FirstPass, v
  <2>3. CASE cur = k /\ pass = 2
    <3>1. CoverSecond(v)
      BY <2>1, <2>3 DEF Cover, FirstPass, v
    <3>2. CoverSecond(v)'
      BY <1>0, <1>1, <2>3, <3>1, CoverSecondStep DEF v
    <3> QED
      BY <2>1, <2>3, <3>2 DEF Cover, v
  <2>4. CASE cur # k
    BY <1>0, <1>a, <2>1, <2>4 DEF Cover, FirstPass, v
  <2> QED
    BY <1>0, <2>2, <2>3, <2>4
<1>2. CASE ImportStep
  <2>1. /\ pc = "import" /\ UNCHANGED <<pass, cur>> /\ pc' \in {"delete", "next"} /\ ~MirrorStep
    <3>1. ~MirrorStep
      BY <1>2, ImportFrame, MirrorFrame DEF Mirroring, Filled
    <3> QED
      BY <1>2, <3>1, ImportFrame
  <2>2. cur = k => pc' = "delete"
    BY <1>2, LoadedImport
  <2>3. (AllOf(v) => AllOf(v)') /\ (Begun(v) => Begun(v)')
    BY <1>a, <2>1
  <2> QED
    BY <1>0, <2>1, <2>2, <2>3 DEF Cover, CoverFirst, CoverSecond, FirstPass, AfterPasses, v
<1>3. CASE ~MirrorStep /\ ~ImportStep
  <2>0. (AllOf(v) => AllOf(v)') /\ (Begun(v) => Begun(v)')
    BY <1>3, <1>a
  <2>1. CASE CombineOne
    <3>1. /\ pc = "combine" /\ pc' = "next" /\ UNCHANGED <<pass, cur>>
      BY <2>1 DEF CombineOne
    <3> QED
      BY <1>0, <2>0, <3>1 DEF Cover, CoverFirst, CoverSecond, FirstPass, AfterPasses, v
  <2>2. CASE NextVariable
    <3>1. /\ pc = "next" /\ pass' = pass
          /\ \/ cur < 7 /\ cur' = cur + 1 /\ pc' = "import"
             \/ cur = 7 /\ cur' = 1 /\ pc' = IF pass = 1 THEN "table" ELSE "request"
      BY <2>2, OrderFacts DEF NextVariable
    <3>2. CASE pass = 1 /\ cur < k
      <4>1. cur' = cur + 1 /\ cur' \in 1 .. 7 /\ (cur' < k \/ cur' = k) /\ pc' = "import"
        BY <1>0, <3>1, <3>2
      <4> QED
        BY <3>1, <3>2, <4>1 DEF Cover, CoverFirst, FirstPass
    <3>3. CASE pass = 1 /\ ~(cur < k)
      <4>1. Begun(v)
        BY <1>0, <3>1, <3>3 DEF Cover, CoverFirst, FirstPass, v
      <4>2. cur' > k \/ pc' = "table"
        BY <1>0, <3>1, <3>3
      <4> QED
        BY <2>0, <3>1, <3>3, <4>1, <4>2 DEF Cover, v
    <3>4. CASE pass = 2 /\ cur < k
      <4>1. cur' = cur + 1 /\ (cur' < k \/ cur' = k) /\ pc' = "import"
        BY <1>0, <3>1, <3>4
      <4>2. Begun(v)
        BY <1>0, <3>1, <3>4 DEF Cover, FirstPass, AfterPasses, v
      <4> QED
        BY <2>0, <3>1, <3>4, <4>1, <4>2 DEF Cover, CoverSecond, AfterPasses, v
    <3>5. CASE pass = 2 /\ ~(cur < k)
      <4>1. AllOf(v)
        BY <1>0, <3>1, <3>5 DEF Cover, CoverSecond, FirstPass, AfterPasses, v
      <4>2. cur' > k \/ pc' \in AfterPasses
        BY <1>0, <3>1, <3>5 DEF AfterPasses
      <4> QED
        BY <2>0, <3>1, <3>5, <4>1, <4>2 DEF Cover, v
    <3> QED
      BY <1>0, <3>2, <3>3, <3>4, <3>5
  <2>3. CASE InstallTable
    <3>1. pc = "table" /\ pass = 1 /\ pass' = 2 /\ pc' = "import" /\ cur = 1 /\ cur' = 1
      BY <1>0, <2>3 DEF InstallTable
    <3>2. Begun(v)
      BY <3>1 DEF Cover, FirstPass, v
    <3>3. 1 = k \/ 1 < k
      OBVIOUS
    <3> QED
      BY <2>0, <3>1, <3>2, <3>3 DEF Cover, CoverSecond, AfterPasses, v
  <2>4. CASE CheckMokRequest \/ Decide
    <3>1. pc \in AfterPasses /\ pc' \in AfterPasses /\ UNCHANGED <<pass, cur>>
      BY <2>4 DEF CheckMokRequest, Decide, AfterPasses
    <3>2. pass = 2
      BY <1>0, <3>1
    <3>3. AllOf(v)
      <4>1. (cur < k \/ cur > k \/ cur = k) /\ pc \notin {"import", "delete", "fill", "db", "loop"}
        BY <1>0, <3>1 DEF AfterPasses
      <4> QED
        BY <3>1, <3>2, <4>1 DEF Cover, FirstPass, v
    <3> QED
      BY <2>0, <3>1, <3>2, <3>3 DEF Cover, v
  <2>5. CASE Finished \/ UNCHANGED vars
    <3>1. UNCHANGED vars
      BY <2>5 DEF Finished
    <3>2. /\ Mirrored(v)' = Mirrored(v) /\ AllOf(v)' = AllOf(v) /\ Wanted(v)' = Wanted(v)
          /\ FirstPart(v)' = FirstPart(v) /\ MaxVar' = MaxVar
      <4>1. MaxVar' = MaxVar
        <5>1. UNCHANGED rt /\ conf' = conf /\ Used' = Used
          BY <3>1, UsedStays DEF vars, BaseInv
        <5> QED
          BY <5>1, Zenon DEF MaxVar
      <4>2. Mirrored(v)' = Mirrored(v) /\ Wanted(v)' = Wanted(v)
        BY <3>1 DEF vars, Mirrored, Wanted, Addend
      <4>3. FirstSize(v)' = FirstSize(v)
        BY <4>1, <4>2 DEF FirstSize
      <4> QED
        BY <3>1, <4>1, <4>2, <4>3 DEF vars, AllOf, FirstPart
    <3>3. Covered' = Covered
      <4>1. Cur' = Cur /\ Mirrored(Cur)' = Mirrored(Cur)
        BY <3>1 DEF vars, Cur, Mirrored
      <4>2. \A l, m : Before(l, m)' = Before(l, m)
        BY <3>1 DEF vars, Before
      <4> QED
        BY <3>1, <4>1, <4>2 DEF vars, Covered
    <3>4. CoverFirst(v)' = CoverFirst(v)
      BY <3>1, <3>2 DEF vars, CoverFirst, Begun
    <3>5. CoverSecond(v)' = CoverSecond(v)
      BY <3>1, <3>2, <3>3 DEF vars, CoverSecond, Begun
    <3> QED
      BY <3>1, <3>2, <3>4, <3>5 DEF vars, Cover, FirstPass, Begun, v
  <2> QED
    BY <1>3, <2>1, <2>2, <2>3, <2>4, <2>5, NextSplits
<1> QED
  BY <1>1, <1>2, <1>3

(* Each signature of a key database is in some copy when nothing has       *)
(* failed and the limit does not rise: in the whole copy, in the first     *)
(* portion, or in what the second pass adds.                               *)
THEOREM CopiesAreComplete == Spec => []CopiesComplete
<1> DEFINE Inv == BaseInv /\ LoadedInv /\ NumberInv /\ FirstsInv /\ CoverInv
<1>1. Init => LoadedInv /\ NumberInv /\ FirstsInv /\ CoverInv
  <2> SUFFICES ASSUME Init PROVE LoadedInv /\ NumberInv /\ FirstsInv /\ CoverInv
    OBVIOUS
  <2>1. pc = "import" /\ pass = 1 /\ cur = 1 /\ nv = conf.nv
        /\ DOMAIN rt = {<<v, 0>> : v \in DOMAIN conf.foreign}
    BY DEF Init
  <2>2. \A k \in 1 .. 2 : k = 1 \/ cur < k
    BY <2>1
  <2>3. LoadedInv
    BY <2>1, <2>2 DEF LoadedInv, Loaded, FirstPass
  <2>4. NumberInv
    <3>1. \A x \in DOMAIN rt : x[2] = 0
      BY <2>1
    <3> QED
      BY <3>1 DEF NumberInv
  <2>6. FirstsInv
    <3>1. rt = [x \in DOMAIN rt |-> rt[x]]
      BY DEF Init
    <3>2. DOMAIN conf.foreign = {} => \A x \in DOMAIN rt : FALSE
      BY <2>1
    <3> QED
      BY <3>1, <3>2 DEF FirstsInv
  <2>5. CoverInv
    BY <2>1, <2>2 DEF CoverInv, Cover, CoverFirst, FirstPass
  <2> QED
    BY <2>3, <2>4, <2>5, <2>6
<1>2. Inv /\ BaseInv' /\ [Next]_vars => (LoadedInv /\ NumberInv /\ FirstsInv /\ CoverInv)'
  <2> SUFFICES ASSUME Inv, BaseInv', [Next]_vars
               PROVE  (LoadedInv /\ NumberInv /\ FirstsInv /\ CoverInv)'
    OBVIOUS
  <2>1. LoadedInv'
    BY LoadedStep DEF LoadedInv
  <2>2. NumberInv'
    BY NumberStep
  <2>4. FirstsInv'
    BY FirstsStep
  <2>3. CoverInv'
    <3> SUFFICES ASSUME trouble' = {}, Steady', NEW k \in 1 .. 2, Sized(Order[k])'
                 PROVE  Cover(k)'
      BY DEF CoverInv
    <3>1. trouble = {} /\ Steady
      BY TroubleStays, ConfStays DEF Steady
    <3>2. Sized(Order[k])
      <4>1. Wanted(Order[k])' = Wanted(Order[k])
        BY ConfStays
      <4> QED
        BY <4>1 DEF Sized
    <3>3. Loaded(k) /\ Cover(k)
      BY <3>1, <3>2 DEF LoadedInv, CoverInv
    <3> QED
      BY <3>1, <3>2, <3>3, CoverStep
  <2> QED
    BY <2>1, <2>2, <2>3, <2>4
<1>3. BaseInv /\ LoadedInv /\ NumberInv /\ FirstsInv /\ CoverInv => CopiesComplete
  <2> SUFFICES ASSUME BaseInv, CoverInv, Steady, Done, trouble = {}, NEW v \in KeyDb,
                      \A k \in DOMAIN Wanted(v) : Wanted(v)[k].size >= MinSize
               PROVE  Signatures(Wanted(v)) \subseteq Mirrored(v)
    BY DEF CopiesComplete
  <2>1. CASE Wanted(v) = <<>>
    <3>1. DOMAIN Wanted(v) = {}
      BY <2>1
    <3> QED
      BY <3>1 DEF Signatures
  <2>2. CASE Wanted(v) # <<>>
    <3>1. PICK k \in 1 .. 2 : v = Order[k]
      BY OrderFacts DEF KeyDb
    <3>2. Cover(k)
      BY <2>2, <3>1 DEF Sized, CoverInv
    <3>3. pc \in AfterPasses /\ pass = 2 /\ pc \in {"boot", "dead"}
      BY DEF Done, AfterPasses, BaseInv, ShapeInv
    <3>4. AllOf(v)
      BY <3>1, <3>2, <3>3 DEF Cover, FirstPass
    <3> QED
      BY <3>4 DEF AllOf
  <2> QED
    BY <2>1, <2>2
<1> QED
  BY <1>1, <1>2, <1>3, BaseIsInvariant, PTL DEF Spec

(* What the two passes of mirror_mok_db promise: the copies and the table  *)
(* between them lose no signature.                                         *)
THEOREM NothingIsLost == Spec => []NothingLost
<1>1. CopiesComplete /\ TableComplete => NothingLost
  BY DEF NothingLost
<1> QED
  BY <1>1, CopiesAreComplete, TableIsComplete, PTL

=============================================================================
