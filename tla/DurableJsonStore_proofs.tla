---------------------- MODULE DurableJsonStore_proofs ----------------------
(* DurableJsonStore implements AtomicDocument, for any calls and processes. *)
EXTENDS DurableJsonStore, TLAPS

\* The call has not yet replaced the file by a document that contains it.
Unapplied == {"new", "read", "initialise", "renameInitial", "write", "rename"}

\* What is about to be renamed is the whole of what the call wants to write.
FilledIsWhole ==
    \A u \in Updates :
        pc[u] \in {"renameInitial", "rename"} => temporary[u] = data[u]

\* What a call wants to write is the default, or has its own change.
DataFitsStep ==
    \A u \in Updates :
        /\ pc[u] \in {"initialise", "renameInitial"} => data[u] = {}
        /\ pc[u] \in {"write", "rename"} => u \in data[u]

\* A change that was not applied is nowhere but with its own call.
UnappliedIsUnseen ==
    \A u \in Updates :
        pc[u] \in Unapplied =>
            /\ target \notin {Missing, Damaged} => u \notin target
            /\ \A w \in Updates \ {u} : u \notin data[w]

IInv == TypeOK /\ FilledIsWhole /\ DataFitsStep /\ UnappliedIsUnseen

-----------------------------------------------------------------------------
(* The invariant *)

\* A missing file, a damaged one and a document can be told apart.
LEMMA MarksAreNoDocument ==
    Missing # Damaged /\ Missing \notin Contents /\ Damaged \notin Contents
BY StoreAssumption DEF Contents

\* The invariant holds initially.
LEMMA InitIInv == Init => IInv
<1> SUFFICES ASSUME Init PROVE IInv
  OBVIOUS
<1> USE DEF Init
<1>1. TypeOK
  <2>1. data \in [Updates -> Contents] BY DEF Contents
  <2>2. attempt \in [Updates -> 0..MaxRetries] /\ failures \in 0..MaxFailures
    BY StoreAssumption
  <2> QED BY <2>1, <2>2 DEF TypeOK, Over
<1>2. FilledIsWhole /\ DataFitsStep BY DEF FilledIsWhole, DataFitsStep
<1>3. UnappliedIsUnseen
  BY MarksAreNoDocument DEF UnappliedIsUnseen
<1> QED BY <1>1, <1>2, <1>3 DEF IInv

\* Every system call keeps the types.
LEMMA StepType == ASSUME TypeOK, NEW u \in Updates, Step(u) PROVE TypeOK'
<1>1. Fault => failures' \in 0..MaxFailures
  BY StoreAssumption DEF Fault, TypeOK
<1> USE DEF TypeOK, Move, files, Over, Contents
<1>a. CASE Begin(u) BY <1>a DEF Begin
<1>b. CASE ReadMissing(u) BY <1>b DEF ReadMissing
<1>c. CASE ReadPresent(u) BY <1>c DEF ReadPresent
<1>d. CASE ReadFails(u) BY <1>1, <1>d DEF ReadFails
<1>e. CASE ReadDamaged(u) BY <1>e DEF ReadDamaged
<1>f. CASE OpenTemporary(u) BY <1>f DEF OpenTemporary
<1>g. CASE FillTemporary(u) BY StoreAssumption, <1>g DEF FillTemporary
<1>h. CASE TemporaryFails(u) BY <1>1, <1>h DEF TemporaryFails
<1>i. CASE RenameInitial(u) BY <1>i DEF RenameInitial
<1>j. CASE Rename(u) BY <1>j DEF Rename
<1>k. CASE RenameFails(u)
  <2>1. attempt' \in [Updates -> 0..MaxRetries]
    BY StoreAssumption, <1>k DEF RenameFails
  <2> QED BY <1>1, <2>1, <1>k DEF RenameFails
<1>l. CASE Return(u) BY <1>l DEF Return
<1> QED
  BY <1>a, <1>b, <1>c, <1>d, <1>e, <1>f, <1>g, <1>h, <1>i, <1>j, <1>k, <1>l
  DEF Step

\* A temporary file that is about to be renamed is filled.
LEMMA StepFilled ==
    ASSUME IInv, NEW u \in Updates, Step(u) PROVE FilledIsWhole'
<1> USE DEF IInv, TypeOK, FilledIsWhole, Move, files, Over
<1>a. CASE Begin(u) BY <1>a DEF Begin
<1>b. CASE ReadMissing(u) BY <1>b DEF ReadMissing
<1>c. CASE ReadPresent(u) BY <1>c DEF ReadPresent
<1>d. CASE ReadFails(u) BY <1>d DEF ReadFails
<1>e. CASE ReadDamaged(u) BY <1>e DEF ReadDamaged
<1>f. CASE OpenTemporary(u) BY <1>f DEF OpenTemporary
<1>g. CASE FillTemporary(u) BY <1>g DEF FillTemporary
<1>h. CASE TemporaryFails(u) BY <1>h DEF TemporaryFails
<1>i. CASE RenameInitial(u) BY <1>i DEF RenameInitial
<1>j. CASE Rename(u) BY <1>j DEF Rename
<1>k. CASE RenameFails(u) BY <1>k DEF RenameFails
<1>l. CASE Return(u) BY <1>l DEF Return
<1> QED
  BY <1>a, <1>b, <1>c, <1>d, <1>e, <1>f, <1>g, <1>h, <1>i, <1>j, <1>k, <1>l
  DEF Step

\* What a call holds is the default, or has its own change.
LEMMA StepData ==
    ASSUME IInv, NEW u \in Updates, Step(u) PROVE DataFitsStep'
<1> USE DEF IInv, TypeOK, DataFitsStep, Move, files, Over
<1>a. CASE Begin(u) BY <1>a DEF Begin
<1>b. CASE ReadMissing(u) BY <1>b DEF ReadMissing
<1>c. CASE ReadPresent(u) BY <1>c DEF ReadPresent
<1>d. CASE ReadFails(u) BY <1>d DEF ReadFails
<1>e. CASE ReadDamaged(u) BY <1>e DEF ReadDamaged
<1>f. CASE OpenTemporary(u) BY <1>f DEF OpenTemporary
<1>g. CASE FillTemporary(u) BY <1>g DEF FillTemporary
<1>h. CASE TemporaryFails(u) BY <1>h DEF TemporaryFails
<1>i. CASE RenameInitial(u) BY <1>i DEF RenameInitial
<1>j. CASE Rename(u) BY <1>j DEF Rename
<1>k. CASE RenameFails(u) BY <1>k DEF RenameFails
<1>l. CASE Return(u) BY <1>l DEF Return
<1> QED
  BY <1>a, <1>b, <1>c, <1>d, <1>e, <1>f, <1>g, <1>h, <1>i, <1>j, <1>k, <1>l
  DEF Step

\* A change that was not applied is nowhere but in its own call.
LEMMA StepUnseen ==
    ASSUME IInv, NEW u \in Updates, Step(u) PROVE UnappliedIsUnseen'
<1> USE MarksAreNoDocument
    DEF IInv, TypeOK, UnappliedIsUnseen, Unapplied, Move, files, Over
<1>a. CASE Begin(u) BY <1>a DEF Begin
<1>b. CASE ReadMissing(u) BY <1>b DEF ReadMissing
<1>c. CASE ReadPresent(u) BY <1>c DEF ReadPresent
<1>d. CASE ReadFails(u) BY <1>d DEF ReadFails
<1>e. CASE ReadDamaged(u) BY <1>e DEF ReadDamaged
<1>f. CASE OpenTemporary(u) BY <1>f DEF OpenTemporary
<1>g. CASE FillTemporary(u) BY <1>g DEF FillTemporary
<1>h. CASE TemporaryFails(u) BY <1>h DEF TemporaryFails
<1>i. CASE RenameInitial(u)
  BY <1>i DEF RenameInitial, FilledIsWhole, DataFitsStep
<1>j. CASE Rename(u) BY <1>j DEF Rename, FilledIsWhole
<1>k. CASE RenameFails(u) BY <1>k DEF RenameFails
<1>l. CASE Return(u) BY <1>l DEF Return
<1> QED
  BY <1>a, <1>b, <1>c, <1>d, <1>e, <1>f, <1>g, <1>h, <1>i, <1>j, <1>k, <1>l
  DEF Step

\* A crash keeps the invariant.
LEMMA CrashKeepsIInv ==
    ASSUME IInv, NEW p \in Processes, Crash(p) PROVE IInv'
<1>1. TypeOK' BY DEF IInv, TypeOK, Crash, files, Over
<1>2. FilledIsWhole' /\ DataFitsStep'
  BY DEF IInv, TypeOK, FilledIsWhole, DataFitsStep, Crash, files, Over
<1>3. UnappliedIsUnseen'
  BY DEF IInv, TypeOK, UnappliedIsUnseen, Unapplied, Crash, files, Over
<1> QED BY <1>1, <1>2, <1>3 DEF IInv

\* Damage from outside keeps the invariant.
LEMMA DamageKeepsIInv == ASSUME IInv, Damage PROVE IInv'
<1>1. TypeOK' BY StoreAssumption DEF IInv, TypeOK, Damage, Fault
<1>2. FilledIsWhole' /\ DataFitsStep'
  BY DEF IInv, FilledIsWhole, DataFitsStep, Damage
<1>3. UnappliedIsUnseen'
  BY MarksAreNoDocument DEF IInv, UnappliedIsUnseen, Damage
<1> QED BY <1>1, <1>2, <1>3 DEF IInv

\* Every step keeps the invariant.
LEMMA NextIInv == IInv /\ [Next]_vars => IInv'
<1> SUFFICES ASSUME IInv, [Next]_vars PROVE IInv'
  OBVIOUS
<1>1. ASSUME NEW u \in Updates, Step(u) PROVE IInv'
  BY <1>1, StepType, StepFilled, StepData, StepUnseen DEF IInv
<1>2. ASSUME NEW p \in Processes, Crash(p) PROVE IInv'
  BY <1>2, CrashKeepsIInv
<1>3. CASE Damage BY <1>3, DamageKeepsIInv
<1>4. CASE UNCHANGED vars
  BY <1>4 DEF IInv, TypeOK, FilledIsWhole, DataFitsStep, UnappliedIsUnseen,
              vars, files
<1> QED BY <1>1, <1>2, <1>3, <1>4 DEF Next

\* The files, the data and the control of every call keep their form, and the
\* three facts above hold in every reachable state.
THEOREM InvariantHolds == Spec => []IInv
BY InitIInv, NextIInv, PTL DEF Spec

-----------------------------------------------------------------------------
(* The refinement *)

Doc == IF target = Missing THEN {} ELSE target
Stat == [u \in Updates |-> StatusOf(u)]
Base == [u \in Updates |-> data[u] \ {u}]

\* The initial states are those of AtomicDocument.
LEMMA InitRefines == Init => Document!Init
BY DEF Init, Document!Init, StatusOf

\* A call that moves moves its status alone.
LEMMA MoveStatus ==
    ASSUME TypeOK, NEW u \in Updates, NEW from, NEW to, Move(u, from, to)
    PROVE  Stat' = [Stat EXCEPT ![u] =
               CASE to = "read" -> "begun"
                 [] to \in {"initialise", "renameInitial", "write", "rename"}
                      -> "looked"
                 [] to = "return" -> "applied"
                 [] OTHER -> to]
<1>1. pc' = [pc EXCEPT ![u] = to] BY DEF Move
<1>2. pc'[u] = to /\ \A w \in Updates \ {u} : pc'[w] = pc[w]
  BY <1>1 DEF TypeOK
<1>3. \A w \in Updates \ {u} : StatusOf(w)' = StatusOf(w)
  BY <1>2 DEF StatusOf
<1>4. Stat'[u] = CASE to = "read" -> "begun"
                   [] to \in {"initialise", "renameInitial", "write", "rename"}
                        -> "looked"
                   [] to = "return" -> "applied"
                   [] OTHER -> to
  BY <1>2 DEF Stat, StatusOf
<1> QED BY <1>3, <1>4 DEF Stat
\* In the abstract specification's terms: its step, and what it leaves alone.
LEMMA Begins ==
    ASSUME IInv, NEW u \in Updates, Begin(u) PROVE Document!Begin(u)
<1>1. Stat' = [Stat EXCEPT ![u] = "begun"]
  BY MoveStatus DEF IInv, Begin
<1>2. Stat[u] = "new" BY DEF Begin, Move, Stat, StatusOf
<1>3. Doc' = Doc /\ Base' = Base BY DEF Begin, files, Doc, Base
<1> QED
  BY <1>1, <1>2, <1>3 DEF Document!Begin, Document!Move, Doc, Stat, Base

\* A read looks at the document.
LEMMA Looks ==
    ASSUME IInv, NEW u \in Updates, ReadMissing(u) \/ ReadPresent(u)
    PROVE  Document!Look(u)
<1>1. Stat' = [Stat EXCEPT ![u] = "looked"]
  BY MoveStatus DEF IInv, ReadMissing, ReadPresent
<1>2. Stat[u] = "begun"
  BY DEF ReadMissing, ReadPresent, Move, Stat, StatusOf
<1>3. Doc' = Doc BY DEF ReadMissing, ReadPresent, files, Doc
<1>4. Doc # Damaged
  BY MarksAreNoDocument DEF ReadMissing, ReadPresent, Doc, Contents
<1>5. Base' = [Base EXCEPT ![u] = Doc]
  <2>1. CASE ReadMissing(u)
    BY <2>1 DEF ReadMissing, Base, Doc, IInv, TypeOK
  <2>2. CASE ReadPresent(u)
    <3>1. target \in Contents /\ u \notin target
      BY <2>2 DEF ReadPresent, Move, IInv, TypeOK, UnappliedIsUnseen, Unapplied
    <3>2. data' = [data EXCEPT ![u] = target \cup {u}] /\ Doc = target
      BY <2>2 DEF ReadPresent, Doc
    <3>3. (target \cup {u}) \ {u} = target
      BY <3>1 DEF Contents
    <3> QED BY <3>2, <3>3 DEF Base, IInv, TypeOK
  <2> QED BY <2>1, <2>2
<1> QED
  BY <1>1, <1>2, <1>3, <1>4, <1>5
  DEF Document!Look, Document!Move, Doc, Stat, Base

\* A failed system call fails the update.
LEMMA Fails ==
    ASSUME IInv, NEW u \in Updates,
           ReadFails(u) \/ ReadDamaged(u) \/ TemporaryFails(u)
    PROVE  Document!Fail(u)
<1>1. Stat' = [Stat EXCEPT ![u] = "failed"]
  BY MoveStatus DEF IInv, ReadFails, ReadDamaged, TemporaryFails
<1>2. Stat[u] \in {"begun", "looked"}
  BY DEF ReadFails, ReadDamaged, TemporaryFails, Move, Stat, StatusOf
<1>3. Doc' = Doc /\ Base' = Base
  BY DEF ReadFails, ReadDamaged, TemporaryFails, files, Doc, Base
<1> QED
  BY <1>1, <1>2, <1>3 DEF Document!Fail, Document!Move, Doc, Stat, Base

\* Nothing is seen of a temporary file that is opened or filled.
LEMMA FillingIsUnseen ==
    ASSUME IInv, NEW u \in Updates, OpenTemporary(u) \/ FillTemporary(u)
    PROVE  UNCHANGED <<Doc, Stat, Base>>
<1>1. Doc' = Doc /\ Base' = Base
  BY DEF OpenTemporary, FillTemporary, Doc, Base
<1>2. CASE OpenTemporary(u) BY <1>1, <1>2 DEF OpenTemporary, Stat, StatusOf
<1>3. CASE FillTemporary(u)
  <2>1. Stat' = [Stat EXCEPT ![u] = "looked"]
    BY <1>3, MoveStatus DEF IInv, FillTemporary
  <2>2. Stat[u] = "looked"
    BY <1>3 DEF FillTemporary, Move, Stat, StatusOf
  <2>3. Stat = [w \in Updates |-> Stat[w]] BY DEF Stat
  <2> QED BY <1>1, <2>1, <2>2, <2>3
<1> QED BY <1>2, <1>3

\* The rename of a default file initialises the document.
LEMMA InitialRenameInitialises ==
    ASSUME IInv, NEW u \in Updates, RenameInitial(u)
    PROVE  Document!Initialise(u)
<1>1. Stat' = [Stat EXCEPT ![u] = "looked"]
  BY MoveStatus DEF IInv, RenameInitial
<1>2. Stat[u] = "looked"
  BY DEF RenameInitial, Move, Stat, StatusOf
<1>3. Stat' = Stat
  <2>1. Stat = [w \in Updates |-> Stat[w]] BY DEF Stat
  <2> QED BY <1>1, <1>2, <2>1
<1>4. temporary[u] = {} /\ data[u] = {}
  BY DEF RenameInitial, Move, IInv, FilledIsWhole, DataFitsStep
<1>5. Doc' = {} BY <1>4 DEF RenameInitial, Doc
<1>6. Base[u] = {} BY <1>4 DEF Base
<1>7. Base' = Base
  BY <1>4 DEF RenameInitial, Base, IInv, TypeOK
<1> QED
  BY <1>2, <1>3, <1>5, <1>6, <1>7 DEF Document!Initialise, Doc, Stat, Base

\* The rename of an updated file applies the update.
LEMMA RenameApplies ==
    ASSUME IInv, NEW u \in Updates, Rename(u) PROVE Document!Apply(u)
<1>1. Stat' = [Stat EXCEPT ![u] = "applied"]
  BY MoveStatus DEF IInv, Rename
<1>2. Stat[u] = "looked" BY DEF Rename, Move, Stat, StatusOf
<1>3. temporary[u] = data[u] /\ u \in data[u] /\ data[u] \in Contents
  BY DEF Rename, Move, IInv, TypeOK, FilledIsWhole, DataFitsStep
<1>4. Doc' = data[u] BY <1>3, MarksAreNoDocument DEF Rename, Doc
<1>5. Base[u] \cup {u} = data[u] BY <1>3 DEF Base
<1>6. Base' = Base BY DEF Rename, Base
<1> QED
  BY <1>1, <1>2, <1>4, <1>5, <1>6
  DEF Document!Apply, Document!Move, Doc, Stat, Base

\* A rename that fails is tried again, or fails the update.
LEMMA FailedRename ==
    ASSUME IInv, NEW u \in Updates, RenameFails(u)
    PROVE  Document!Fail(u) \/ UNCHANGED <<Doc, Stat, Base>>
<1>1. Doc' = Doc /\ Base' = Base BY DEF RenameFails, Doc, Base
<1>2. CASE UNCHANGED pc BY <1>1, <1>2 DEF Stat, StatusOf
<1>3. CASE pc' = [pc EXCEPT ![u] = "failed"]
  <2>1. Move(u, {"renameInitial", "rename"}, "failed")
    BY <1>3 DEF RenameFails, Move
  <2>2. Stat' = [Stat EXCEPT ![u] = "failed"]
    BY <2>1, MoveStatus DEF IInv
  <2>3. Stat[u] = "looked" BY <2>1 DEF Move, Stat, StatusOf
  <2> QED
    BY <1>1, <2>2, <2>3 DEF Document!Fail, Document!Move, Doc, Stat, Base
<1> QED BY <1>2, <1>3 DEF RenameFails

\* A return is a return.
LEMMA Returns ==
    ASSUME IInv, NEW u \in Updates, Return(u) PROVE Document!Return(u)
<1>1. Stat' = [Stat EXCEPT ![u] = "done"]
  BY MoveStatus DEF IInv, Return
<1>2. Stat[u] = "applied" BY DEF Return, Move, Stat, StatusOf
<1>3. Doc' = Doc /\ Base' = Base BY DEF Return, files, Doc, Base
<1> QED
  BY <1>1, <1>2, <1>3 DEF Document!Return, Document!Move, Doc, Stat, Base

\* A crash ends the updates of its process.
LEMMA CrashEnds ==
    ASSUME IInv, NEW p \in Processes, Crash(p)
    PROVE  Document!End({u \in Updates : ProcessOf[u] = p})
<1> DEFINE calls == {u \in Updates : ProcessOf[u] = p}
<1>1. ASSUME NEW u \in Updates
      PROVE  StatusOf(u)' = IF u \in calls /\ StatusOf(u) \in Document!Running
                            THEN "ended" ELSE StatusOf(u)
  <2>1. pc'[u] = IF ProcessOf[u] = p /\ pc[u] \notin Over THEN "ended"
                 ELSE pc[u]
    BY DEF Crash
  <2>2. pc[u] \in Over \cup {"read", "initialise", "renameInitial", "write",
                             "rename", "return"}
    BY DEF IInv, TypeOK
  <2> QED BY <2>1, <2>2 DEF StatusOf, Document!Running, Over
<1>2. Doc' = Doc /\ Base' = Base BY DEF Crash, files, Doc, Base
<1>3. Stat' = [u \in Updates |->
                 IF u \in calls /\ Stat[u] \in Document!Running THEN "ended"
                 ELSE Stat[u]]
  BY <1>1 DEF Stat
<1> QED BY <1>2, <1>3 DEF Document!End, Doc, Stat, Base

\* Damage is damage.
LEMMA DamageDamages == ASSUME IInv, Damage PROVE Document!Damage
BY MarksAreNoDocument DEF Damage, Document!Damage, StatusOf

\* Every step is one of the abstract specification, or none of its business.
LEMMA StepRefines ==
    IInv /\ [Next]_vars => [Document!Next]_<<Doc, Stat, Base>>
<1> SUFFICES ASSUME IInv, [Next]_vars
             PROVE  Document!Next \/ UNCHANGED <<Doc, Stat, Base>>
  OBVIOUS
<1>1. ASSUME NEW u \in Updates, Step(u)
      PROVE  Document!Next \/ UNCHANGED <<Doc, Stat, Base>>
  BY <1>1, Begins, Looks, Fails, FillingIsUnseen, InitialRenameInitialises,
     RenameApplies, FailedRename, Returns
  DEF Step, Document!Next
<1>2. ASSUME NEW p \in Processes, Crash(p) PROVE Document!Next
  BY <1>2, CrashEnds DEF Document!Next
<1>3. CASE Damage BY <1>3, DamageDamages DEF Document!Next
<1>4. CASE UNCHANGED vars
  BY <1>4 DEF vars, files, Doc, Stat, Base, StatusOf
<1> QED BY <1>1, <1>2, <1>3, <1>4 DEF Next

\* The stored document changes as a whole or not at all, whatever the crashes,
\* the failures and the other processes, for any set of calls.
THEOREM Refinement == Spec => ImplementsAtomicDocument
<1>1. Init => Document!Init BY InitRefines
<1>2. IInv /\ [Next]_vars => [Document!Next]_<<Doc, Stat, Base>>
  BY StepRefines
<1> QED
  BY <1>1, <1>2, InvariantHolds, PTL
  DEF Spec, ImplementsAtomicDocument, Document!Spec, Doc, Stat, Base
=============================================================================
