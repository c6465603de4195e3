------------------------ MODULE ApprovalService_proofs ------------------------
(***************************************************************************)
(* Proofs about ApprovalService, for any number of users, partitions,      *)
(* approvals and legacy records.                                           *)
(***************************************************************************)
EXTENDS ApprovalService, TLAPS

RecordTable == [Approvals -> Record \cup {NoRecord}]

IndexTable == [Approvals -> Users \cup {NoUser}]

TokenTable == [Approvals -> Owners \cup {NoUser}]

-----------------------------------------------------------------------------
(***************************************************************************)
(* What the helpers return.                                                *)
(***************************************************************************)

\* Opening a partition yields a table of records.
LEMMA OpenedRecordsType ==
  ASSUME TypeOK, NEW u \in Users, NEW recs \in OpenedRecords(u)
  PROVE  recs \in RecordTable
<1>1. CASE recs = records
  BY <1>1 DEF TypeOK, RecordTable
<1>2. CASE recs = [a \in Approvals |->
                     IF legacy[a] # NoRecord THEN legacy[a] ELSE records[a]]
  <2>1. LegacyRecords \subseteq Record
    BY LegacyAssumption
  <2>2. \A a \in Approvals :
          legacy[a] \in Record \cup {NoRecord} /\ records[a] \in Record \cup {NoRecord}
    BY <2>1 DEF TypeOK
  <2> QED  BY <1>2, <2>2 DEF RecordTable
<1> QED  BY <1>1, <1>2 DEF OpenedRecords

\* A record stays a record when its status changes.
LEMMA SetStatusType ==
  ASSUME NEW recs \in RecordTable, NEW a \in Approvals, recs[a] # NoRecord,
         NEW status \in Statuses
  PROVE  SetStatus(recs, a, status) \in RecordTable
<1>1. recs[a] \in Record
  BY DEF RecordTable
<1>2. [recs[a] EXCEPT !.status = status] \in Record
  BY <1>1 DEF Record
<1> QED  BY <1>2 DEF RecordTable, SetStatus

\* A granted record is a record.
LEMMA GrantedType ==
  ASSUME NEW recs \in RecordTable, NEW a \in Approvals, recs[a] # NoRecord
  PROVE  [recs EXCEPT ![a].status = "APPROVED", ![a].hasToken = TRUE] \in RecordTable
<1>1. recs[a] \in Record
  BY DEF RecordTable
<1>2. [[recs[a] EXCEPT !.status = "APPROVED"] EXCEPT !.hasToken = TRUE] \in Record
  BY <1>1 DEF Record, Statuses
<1> QED  BY <1>2 DEF RecordTable

\* The indexes stay maps from approvals to users.
LEMMA IndexType ==
  ASSUME TypeOK, NEW u \in Users, NEW recs, NEW read
  PROVE  /\ ApprovalIndex(u, recs, read) \in IndexTable
         /\ TokenIndex(u, recs, read) \in TokenTable
BY DEF TypeOK, ApprovalIndex, TokenIndex, IndexedUnder, IndexTable, TokenTable, Owners

\* Consuming or expiring a token leaves a table of records.
LEMMA ConsumedType ==
  ASSUME NEW recs \in RecordTable, NEW a \in Approvals, NEW u \in Users
  PROVE  /\ Consumed(recs, a, u) \in RecordTable
         /\ recs[a] # NoRecord => Validated(recs, a) \in RecordTable
<1>1. {"CONSUMED", "EXPIRED"} \subseteq Statuses
  BY DEF Statuses
<1> QED  BY <1>1, SetStatusType DEF Consumed, Validated, InPartition

-----------------------------------------------------------------------------
(***************************************************************************)
(* Type correctness                                                        *)
(***************************************************************************)

\* What GetStore leaves has its type.
LEMMA GetStoreType ==
  ASSUME TypeOK, NEW u \in Users, NEW recs \in OpenedRecords(u), NEW read,
         GetStore(u, recs, read)
  PROVE  /\ files' \subseteq Partitions
         /\ legacy' \in [Approvals -> LegacyRecords \cup {NoRecord}]
         /\ stores' \subseteq Partitions /\ indexed' \subseteq stores'
         /\ now' \in Nat
BY UsersAssumption DEF TypeOK, GetStore

\* Every step keeps the type of every variable.
LEMMA TypeStep ==
  ASSUME TypeOK, [Next]_vars
  PROVE  TypeOK'
<1>0. /\ records \in RecordTable
      /\ approvalToUserIndex \in IndexTable /\ tokenToUserIndex \in TokenTable
  BY DEF TypeOK, RecordTable, IndexTable, TokenTable
<1>1. ASSUME NEW a \in Approvals, NEW userId \in Users \cup {NoUser},
             NEW operation \in Operations, NEW ttl \in TTLs,
             RequestApproval(userId, operation, ttl, a)
      PROVE  TypeOK'
  <2> DEFINE owner == IF userId # NoUser THEN userId ELSE PrimaryUser
  <2>1. owner \in Users
    BY UsersAssumption
  <2>2. PICK recs \in OpenedRecords(owner), read \in Reads(owner) :
          /\ GetStore(owner, recs, read)
          /\ records' = [recs EXCEPT ![a] =
               [ownerUserId |-> owner, partition |-> PartitionOf[owner],
                operation |-> operation, status |-> "PENDING",
                expiresAt |-> now + ttl, hasToken |-> FALSE]]
          /\ approvalToUserIndex' =
               [ApprovalIndex(owner, recs, read) EXCEPT ![a] = owner]
          /\ tokenToUserIndex' = TokenIndex(owner, recs, read)
    BY <1>1 DEF RequestApproval
  <2>3. recs \in RecordTable
    BY <2>1, OpenedRecordsType
  <2>4. [ownerUserId |-> owner, partition |-> PartitionOf[owner],
         operation |-> operation, status |-> "PENDING",
         expiresAt |-> now + ttl, hasToken |-> FALSE] \in Record
    <3>1. now + ttl \in Nat
      BY TimeAssumption DEF TypeOK
    <3> QED  BY <2>1, <3>1, UsersAssumption DEF Record, Statuses, Owners
  <2>5. records' \in RecordTable
    BY <2>2, <2>3, <2>4 DEF RecordTable
  <2>6. approvalToUserIndex' \in IndexTable /\ tokenToUserIndex' \in TokenTable
    <3>1. /\ ApprovalIndex(owner, recs, read) \in IndexTable
          /\ TokenIndex(owner, recs, read) \in TokenTable
      BY <2>1, IndexType
    <3> QED  BY <2>1, <2>2, <3>1 DEF IndexTable, TokenTable
  <2>7. uses' \in [Approvals -> Seq(UseOf)]
    BY <1>1 DEF RequestApproval, TypeOK
  <2> QED
    BY <2>1, <2>2, <2>5, <2>6, <2>7, GetStoreType DEF TypeOK, RecordTable, IndexTable, TokenTable
<1>2. ASSUME NEW a \in Approvals, NEW userId \in Users \cup {NoUser},
             GrantApproval(a, userId)
      PROVE  TypeOK'
  <2> DEFINE u == Target(userId, approvalToUserIndex, a)
  <2>1. u \in Users
    BY <1>2 DEF GrantApproval
  <2>2. PICK recs \in OpenedRecords(u), read \in Reads(u) :
          /\ GetStore(u, recs, read)
          /\ approvalToUserIndex' = ApprovalIndex(u, recs, read)
          /\ \/ records' = recs /\ tokenToUserIndex' = TokenIndex(u, recs, read)
             \/ /\ recs[a] # NoRecord
                /\ records' = SetStatus(recs, a, "EXPIRED")
                /\ tokenToUserIndex' = TokenIndex(u, recs, read)
             \/ /\ recs[a] # NoRecord
                /\ records' = [recs EXCEPT ![a].status = "APPROVED",
                                           ![a].hasToken = TRUE]
                /\ tokenToUserIndex' = [TokenIndex(u, recs, read) EXCEPT
                                          ![a] = recs[a].ownerUserId]
    BY <1>2 DEF GrantApproval, InPartition
  <2>3. recs \in RecordTable
    BY <2>1, OpenedRecordsType
  <2>4. "EXPIRED" \in Statuses
    BY DEF Statuses
  <2>5. records' \in RecordTable
    BY <2>2, <2>3, <2>4, SetStatusType, GrantedType
  <2>6. approvalToUserIndex' \in IndexTable /\ tokenToUserIndex' \in TokenTable
    <3>1. ApprovalIndex(u, recs, read) \in IndexTable /\ TokenIndex(u, recs, read) \in TokenTable
      BY <2>1, IndexType
    <3>2. recs[a] # NoRecord => recs[a].ownerUserId \in Owners
      BY <2>3 DEF RecordTable, Record
    <3> QED  BY <2>2, <3>1, <3>2 DEF IndexTable, TokenTable
  <2>7. uses' \in [Approvals -> Seq(UseOf)]
    BY <1>2 DEF GrantApproval, TypeOK
  <2> QED
    BY <2>1, <2>2, <2>5, <2>6, <2>7, GetStoreType DEF TypeOK, RecordTable, IndexTable, TokenTable
<1>3. ASSUME NEW a \in Approvals, NEW userId \in Users \cup {NoUser},
             NEW from, NEW to \in Statuses, Withdraw(a, userId, from, to)
      PROVE  TypeOK'
  <2> DEFINE u == Target(userId, approvalToUserIndex, a)
  <2>1. u \in Users
    BY <1>3 DEF Withdraw
  <2>2. PICK recs \in OpenedRecords(u), read \in Reads(u) :
          /\ GetStore(u, recs, read)
          /\ approvalToUserIndex' = ApprovalIndex(u, recs, read)
          /\ tokenToUserIndex' = TokenIndex(u, recs, read)
          /\ \/ records' = recs
             \/ recs[a] # NoRecord /\ records' = SetStatus(recs, a, to)
    BY <1>3 DEF Withdraw, InPartition
  <2>3. recs \in RecordTable
    BY <2>1, OpenedRecordsType
  <2>4. records' \in RecordTable
    BY <2>2, <2>3, SetStatusType
  <2>5. approvalToUserIndex' \in IndexTable /\ tokenToUserIndex' \in TokenTable
    BY <2>1, <2>2, IndexType
  <2>6. uses' \in [Approvals -> Seq(UseOf)]
    BY <1>3 DEF Withdraw, TypeOK
  <2> QED
    BY <2>1, <2>2, <2>4, <2>5, <2>6, GetStoreType DEF TypeOK, RecordTable, IndexTable, TokenTable
<1>4. ASSUME NEW a \in Approvals, NEW userId \in Users \cup {NoUser},
             ValidateToken(a, userId) \/ ConsumeToken(a, userId)
      PROVE  TypeOK'
  <2> DEFINE u == Target(userId, tokenToUserIndex, a)
  <2>1. u \in Users
    BY <1>4 DEF ValidateToken, ConsumeToken
  <2>2. PICK recs \in OpenedRecords(u), read \in Reads(u) :
          /\ GetStore(u, recs, read)
          /\ approvalToUserIndex' = ApprovalIndex(u, recs, read)
          /\ tokenToUserIndex' = TokenIndex(u, recs, read)
          /\ \/ records' = recs
             \/ recs[a] # NoRecord /\ records' = Validated(recs, a)
             \/ records' = Consumed(recs, a, u)
    BY <1>4 DEF ValidateToken, ConsumeToken, TokenUsable, InPartition
  <2>3. recs \in RecordTable
    BY <2>1, OpenedRecordsType
  <2>4. records' \in RecordTable
    BY <2>1, <2>2, <2>3, ConsumedType
  <2>5. approvalToUserIndex' \in IndexTable /\ tokenToUserIndex' \in TokenTable
    BY <2>1, <2>2, IndexType
  <2>6. uses' \in [Approvals -> Seq(UseOf)]
    BY <1>4 DEF ValidateToken, ConsumeToken, TypeOK
  <2> QED
    BY <2>1, <2>2, <2>4, <2>5, <2>6, GetStoreType DEF TypeOK, RecordTable, IndexTable, TokenTable
<1>5. ASSUME NEW a \in Approvals, NEW userId \in Users \cup {NoUser},
             NEW operation \in Operations,
             ValidateAndConsumeToken(a, operation, userId)
      PROVE  TypeOK'
  <2> DEFINE u == Target(userId, tokenToUserIndex, a)
  <2>1. u \in Users
    BY <1>5 DEF ValidateAndConsumeToken
  <2>2. PICK recs \in OpenedRecords(u), read \in Reads(u) :
          \/ /\ recs[a] # NoRecord /\ recs[a].ownerUserId \in Users
             /\ \E readOwner \in Reads(recs[a].ownerUserId) :
                  ConsumeAccepted(recs, read, a, operation, u, userId, readOwner)
          \/ /\ GetStore(u, recs, read)
             /\ approvalToUserIndex' = ApprovalIndex(u, recs, read)
             /\ tokenToUserIndex' = TokenIndex(u, recs, read)
             /\ \/ recs[a] # NoRecord /\ records' = Validated(recs, a)
                \/ records' = recs
             /\ UNCHANGED uses
    BY <1>5 DEF ValidateAndConsumeToken, Accepts, TokenUsable, InPartition
  <2>3. recs \in RecordTable
    BY <2>1, OpenedRecordsType
  <2>4. ApprovalIndex(u, recs, read) \in IndexTable /\ TokenIndex(u, recs, read) \in TokenTable
    BY <2>1, IndexType
  <2>5. ASSUME recs[a] # NoRecord, recs[a].ownerUserId \in Users, NEW readOwner,
               ConsumeAccepted(recs, read, a, operation, u, userId, readOwner)
        PROVE  TypeOK'
    <3> DEFINE owner == recs[a].ownerUserId
               use == [operation |-> operation, caller |-> userId, at |-> now]
    <3>1. owner \in Users
      BY <2>5
    <3>2. records' \in RecordTable
      BY <2>3, <2>5, <3>1, ConsumedType DEF ConsumeAccepted
    <3>3. approvalToUserIndex' \in IndexTable /\ tokenToUserIndex' \in TokenTable
      BY <2>4, <2>5, <3>1 DEF ConsumeAccepted, IndexTable, TokenTable, IndexedUnder, Owners
    <3>4. uses' \in [Approvals -> Seq(UseOf)]
      <4>1. use \in UseOf
        BY DEF TypeOK, UseOf
      <4>2. uses \in [Approvals -> Seq(UseOf)] /\ uses[a] \in Seq(UseOf)
        BY DEF TypeOK
      <4>3. Append(uses[a], use) \in Seq(UseOf)
        BY <4>1, <4>2
      <4>4. uses' = [uses EXCEPT ![a] = Append(uses[a], use)] \/ uses' = uses
        BY <2>5 DEF ConsumeAccepted
      <4> HIDE DEF use
      <4>5. CASE uses' = uses
        BY <4>2, <4>5
      <4>6. CASE uses' = [uses EXCEPT ![a] = Append(uses[a], use)]
        BY <4>2, <4>3, <4>6
      <4> QED  BY <4>4, <4>5, <4>6
    <3>5. stores' \subseteq Partitions /\ files' \subseteq Partitions
      <4>1. /\ stores' = stores \cup {PartitionOf[u], PartitionOf[owner]}
            /\ files' \in {files \cup {PartitionOf[u]},
                          files \cup {PartitionOf[u], PartitionOf[owner]}}
        BY <2>5 DEF ConsumeAccepted
      <4>2. PartitionOf[u] \in Partitions /\ PartitionOf[owner] \in Partitions
        BY <2>1, <3>1, UsersAssumption
      <4> QED  BY <4>1, <4>2 DEF TypeOK
    <3>6. indexed' \subseteq stores'
      BY <2>5 DEF ConsumeAccepted, TypeOK
    <3>7. UNCHANGED <<legacy, now>>
      BY <2>5 DEF ConsumeAccepted
    <3> QED
      BY <3>2, <3>3, <3>4, <3>5, <3>6, <3>7 DEF TypeOK, RecordTable, IndexTable, TokenTable
  <2>6. CASE /\ GetStore(u, recs, read)
             /\ approvalToUserIndex' = ApprovalIndex(u, recs, read)
             /\ tokenToUserIndex' = TokenIndex(u, recs, read)
             /\ \/ recs[a] # NoRecord /\ records' = Validated(recs, a)
                \/ records' = recs
             /\ UNCHANGED uses
    <3>1. records' \in RecordTable
      BY <2>1, <2>3, <2>6, ConsumedType
    <3> QED
      BY <2>1, <2>4, <2>6, <3>1, GetStoreType DEF TypeOK, RecordTable, IndexTable, TokenTable
  <2> QED  BY <2>2, <2>5, <2>6
<1>6. ASSUME NEW u \in Users, ReadApprovals(u)
      PROVE  TypeOK'
  <2>1. PICK recs \in OpenedRecords(u), read \in Reads(u) :
          /\ GetStore(u, recs, read)
          /\ approvalToUserIndex' = ApprovalIndex(u, recs, read)
          /\ tokenToUserIndex' = TokenIndex(u, recs, read)
          /\ records' = recs
    BY <1>6 DEF ReadApprovals
  <2>2. records' \in RecordTable
    BY <2>1, OpenedRecordsType
  <2>3. approvalToUserIndex' \in IndexTable /\ tokenToUserIndex' \in TokenTable
    BY <2>1, IndexType
  <2>4. uses' \in [Approvals -> Seq(UseOf)]
    BY <1>6 DEF ReadApprovals, TypeOK
  <2> QED
    BY <2>1, <2>2, <2>3, <2>4, GetStoreType DEF TypeOK, RecordTable, IndexTable, TokenTable
<1>7. ASSUME NEW u \in Users, FailedRead(u)
      PROVE  TypeOK'
  <2>1. PICK recs \in OpenedRecords(u) : records' = recs
    BY <1>7 DEF FailedRead
  <2>2. records' \in RecordTable
    BY <2>1, OpenedRecordsType
  <2> QED
    BY <1>7, <2>2, UsersAssumption DEF FailedRead, TypeOK, RecordTable
<1>8. CASE Restart \/ Tick
  BY <1>8 DEF Restart, Tick, TypeOK, durable, memory
<1>9. CASE UNCHANGED vars
  BY <1>9 DEF vars, durable, memory, TypeOK
<1>10. {"REJECTED", "REVOKED"} \subseteq Statuses
  BY DEF Statuses
<1> QED
  BY <1>1, <1>2, <1>3, <1>4, <1>5, <1>6, <1>7, <1>8, <1>9, <1>10
  DEF Next, RejectApproval, RevokeApproval

\* ApprovalService keeps its types from every initial state on.
THEOREM TypeCorrect == Spec => []TypeOK
<1>1. Init => TypeOK
  BY UsersAssumption DEF Init, TypeOK
<1>2. TypeOK /\ [Next]_vars => TypeOK'
  BY TypeStep
<1> QED  BY <1>1, <1>2, PTL DEF Spec

-----------------------------------------------------------------------------
(***************************************************************************)
(* The invariant.  It speaks of one approval at a time: its record, the    *)
(* acceptances of its token and its two index entries.  Beside what the    *)
(* properties say, it says where the record lies, that an approved record  *)
(* has a token, and that a record still in the legacy file has no other    *)
(* record to overwrite while its migration may come.                       *)
(***************************************************************************)

\* The use was within this record.
Within(use, r) ==
  /\ use.operation = r.operation
  /\ use.caller \in {NoUser, r.ownerUserId}
  /\ use.at <= r.expiresAt

SoundRecord(a, r, us) ==
  /\ us # <<>> => r # NoRecord
  /\ \A i \in 1..Len(us) : Within(us[i], r)
  /\ (r # NoRecord /\ r.status = "APPROVED") => r.hasToken
  /\ ~ Misfiled(a) =>
       /\ (r # NoRecord /\ r.ownerUserId \in Users) =>
            r.partition = PartitionOf[r.ownerUserId]
       /\ us # <<>> => r.status = "CONSUMED"
       /\ Len(us) <= 1

\* The index entries of the approval and of its token, where the partitions
\* in filled were read when they were opened.
SoundEntries(a, r, approvalEntry, tokenEntry, filled) ==
  /\ approvalEntry # NoUser => r # NoRecord /\ r.partition = PartitionOf[approvalEntry]
  /\ tokenEntry # NoUser =>
       /\ r # NoRecord /\ r.hasToken
       /\ \/ tokenEntry = r.ownerUserId
          \/ tokenEntry \in Users /\ r.partition = PartitionOf[tokenEntry]
       /\ (r.ownerUserId \in Users /\ Alone(r.ownerUserId) /\ ~ Misfiled(a)) =>
            tokenEntry = r.ownerUserId
  /\ (r # NoRecord /\ r.partition \in filled) =>
       /\ approvalEntry # NoUser
       /\ r.hasToken => tokenEntry # NoUser

ApprovalInv(a, r, us, approvalEntry, tokenEntry, filled) ==
  /\ SoundRecord(a, r, us)
  /\ SoundEntries(a, r, approvalEntry, tokenEntry, filled)

LegacyWaits ==
  PartitionOf[PrimaryUser] \notin files =>
    \A a \in Approvals : legacy[a] # NoRecord => records[a] = NoRecord

IInv ==
  /\ TypeOK /\ LegacyWaits
  /\ \A a \in Approvals :
       ApprovalInv(a, records[a], uses[a], approvalToUserIndex[a],
                   tokenToUserIndex[a], indexed)

\* The null record is no record: it has no approval's status.
LEMMA NoRecordIsUnused ==
  /\ NoRecord.status # "CONSUMED"
  /\ NoRecord \notin Record
<1>1. "NONE" \notin Statuses
  BY DEF Statuses
<1>2. \A r \in Record : r.status \in Statuses
  BY DEF Record
<1> QED  BY <1>1, <1>2 DEF NoRecord

-----------------------------------------------------------------------------
(***************************************************************************)
(* What an operation does to one approval                                  *)
(***************************************************************************)

\* A record with a new status is the same record otherwise.
LEMMA StatusIs ==
  ASSUME NEW r \in Record, NEW status \in Statuses
  PROVE  LET new == [r EXCEPT !.status = status] IN
         /\ new \in Record /\ new # NoRecord /\ new.status = status
         /\ new.partition = r.partition /\ new.ownerUserId = r.ownerUserId
         /\ new.operation = r.operation /\ new.expiresAt = r.expiresAt
         /\ new.hasToken = r.hasToken
<1>1. [r EXCEPT !.status = status] \in Record
  BY DEF Record
<1> QED  BY <1>1, NoRecordIsUnused DEF Record

\* Closing a record that was not consumed keeps its approval sound, and so
\* does burning its token.
LEMMA ClosedInv ==
  ASSUME NEW a, NEW r \in Record, NEW us \in Seq(UseOf), NEW ae, NEW te, NEW filled,
         ApprovalInv(a, r, us, ae, te, filled),
         r.status # "CONSUMED", NEW status \in Statuses \ {"APPROVED"}
  PROVE  ApprovalInv(a, [r EXCEPT !.status = status], us, ae, te, filled)
<1> DEFINE new == [r EXCEPT !.status = status]
<1>1. /\ new # NoRecord /\ new.status = status
      /\ new.partition = r.partition /\ new.ownerUserId = r.ownerUserId
      /\ new.operation = r.operation /\ new.expiresAt = r.expiresAt
      /\ new.hasToken = r.hasToken
  BY StatusIs
<1>2. r # NoRecord
  BY NoRecordIsUnused
<1> HIDE DEF new
<1>3. SoundRecord(a, new, us)
  <2>1. \A i \in 1..Len(us) : Within(us[i], new)
    BY <1>1 DEF ApprovalInv, SoundRecord, Within
  <2> QED  BY <1>1, <1>2, <2>1 DEF ApprovalInv, SoundRecord
<1>4. SoundEntries(a, new, ae, te, filled)
  BY <1>1, <1>2 DEF ApprovalInv, SoundEntries
<1> QED  BY <1>3, <1>4 DEF ApprovalInv, new

\* A grant keeps its approval sound: the token is indexed under the owner.
LEMMA GrantedInv ==
  ASSUME NEW a, NEW r \in Record, NEW us \in Seq(UseOf), NEW ae, NEW te, NEW filled,
         ApprovalInv(a, r, us, ae, te, filled), r.status = "PENDING",
         NEW new \in Record, new.status = "APPROVED", new.hasToken,
         new.partition = r.partition, new.ownerUserId = r.ownerUserId,
         new.operation = r.operation, new.expiresAt = r.expiresAt
  PROVE  ApprovalInv(a, new, us, ae, r.ownerUserId, filled)
<1>1. r # NoRecord /\ new # NoRecord /\ r.ownerUserId # NoUser
  BY NoRecordIsUnused, UsersAssumption DEF Record, Owners
<1>2. SoundRecord(a, new, us)
  <2>1. \A i \in 1..Len(us) : Within(us[i], new)
    BY DEF ApprovalInv, SoundRecord, Within
  <2> QED  BY <1>1, <2>1 DEF ApprovalInv, SoundRecord
<1>3. SoundEntries(a, new, ae, r.ownerUserId, filled)
  BY <1>1 DEF ApprovalInv, SoundEntries
<1> QED  BY <1>2, <1>3 DEF ApprovalInv

\* A new request is sound: nothing was known of its id.
LEMMA RequestedInv ==
  ASSUME NEW a, NEW us \in Seq(UseOf), NEW ae, NEW te, NEW filled, NEW u \in Users,
         ApprovalInv(a, NoRecord, us, ae, te, filled),
         NEW new \in Record, new.status = "PENDING", ~ new.hasToken,
         new.partition = PartitionOf[u], new.ownerUserId = u
  PROVE  ApprovalInv(a, new, us, u, te, filled)
<1>1. us = <<>> /\ te = NoUser
  BY DEF ApprovalInv, SoundRecord, SoundEntries
<1>2. Len(us) = 0
  BY <1>1
<1>3. new # NoRecord /\ u # NoUser
  BY NoRecordIsUnused, UsersAssumption
<1> QED  BY <1>1, <1>2, <1>3 DEF ApprovalInv, SoundRecord, SoundEntries

\* An acceptance is sound when it is within the record, which is consumed in
\* the same step unless it is misfiled.
LEMMA AcceptedInv ==
  ASSUME NEW a, NEW r \in Record, NEW us \in Seq(UseOf), NEW ae, NEW te, NEW filled,
         ApprovalInv(a, r, us, ae, te, filled), r.status = "APPROVED",
         NEW use \in UseOf, Within(use, r), NEW new,
         \/ new = [r EXCEPT !.status = "CONSUMED"]
         \/ new = r /\ Misfiled(a)
  PROVE  ApprovalInv(a, new, Append(us, use), ae, te, filled)
<1> DEFINE more == Append(us, use)
<1>1. /\ Len(more) = Len(us) + 1 /\ more # <<>>
      /\ \A i \in 1..Len(us) : more[i] = us[i]
      /\ more[Len(us) + 1] = use
      /\ Len(us) \in Nat
  OBVIOUS
<1>2. "CONSUMED" \in Statuses /\ r # NoRecord
  BY NoRecordIsUnused DEF Statuses
<1>3. /\ new # NoRecord
      /\ new.partition = r.partition /\ new.ownerUserId = r.ownerUserId
      /\ new.operation = r.operation /\ new.expiresAt = r.expiresAt
      /\ new.hasToken = r.hasToken
      /\ ~ Misfiled(a) => new.status = "CONSUMED"
  <2>1. CASE new = [r EXCEPT !.status = "CONSUMED"]
    BY <1>2, <2>1, StatusIs
  <2>2. CASE new = r /\ Misfiled(a)
    BY <1>2, <2>2
  <2> QED  BY <2>1, <2>2
<1> HIDE DEF more
<1>4. \A i \in 1..Len(more) : Within(more[i], new)
  <2> SUFFICES ASSUME NEW i \in 1..Len(more) PROVE Within(more[i], new)
    OBVIOUS
  <2>1. CASE i = Len(us) + 1
    BY <1>1, <1>3, <2>1 DEF Within
  <2>2. CASE i \in 1..Len(us)
    BY <1>1, <1>3, <2>2 DEF Within, ApprovalInv, SoundRecord
  <2> QED  BY <1>1, <2>1, <2>2
<1>5. ~ Misfiled(a) => Len(more) <= 1
  <2> SUFFICES ASSUME ~ Misfiled(a) PROVE Len(more) <= 1
    OBVIOUS
  <2>1. us = <<>>
    BY DEF ApprovalInv, SoundRecord
  <2>2. Len(us) = 0
    BY <2>1
  <2> QED  BY <1>1, <2>2
<1>6. SoundRecord(a, new, more)
  BY <1>2, <1>3, <1>4, <1>5 DEF ApprovalInv, SoundRecord
<1>7. SoundEntries(a, new, ae, te, filled)
  BY <1>2, <1>3 DEF ApprovalInv, SoundEntries
<1> QED  BY <1>6, <1>7 DEF ApprovalInv, more

-----------------------------------------------------------------------------
(***************************************************************************)
(* What opening a partition does                                           *)
(***************************************************************************)

\* What an operation finds in the partition that it opened: a record that was
\* there, or one that was only in the legacy file.
LEMMA OpenedIs ==
  ASSUME IInv, NEW u \in Users, NEW recs \in OpenedRecords(u), NEW a \in Approvals
  PROVE  \/ recs[a] = records[a]
         \/ /\ records[a] = NoRecord /\ legacy[a] # NoRecord
            /\ recs[a] = legacy[a] /\ Opening(u) /\ InPartition(recs, a, u)
            /\ PartitionOf[u] = PartitionOf[PrimaryUser]
            /\ recs[a].status = "APPROVED" => recs[a].hasToken
<1>1. CASE recs = records
  BY <1>1
<1>2. CASE /\ Migrates(u)
           /\ recs = [b \in Approvals |->
                       IF legacy[b] # NoRecord THEN legacy[b] ELSE records[b]]
  <2>1. u = PrimaryUser /\ PartitionOf[PrimaryUser] \notin files /\ Opening(u)
    BY <1>2 DEF Migrates
  <2>2. CASE legacy[a] = NoRecord
    BY <1>2, <2>2
  <2>3. CASE legacy[a] # NoRecord
    <3>1. recs[a] = legacy[a] /\ records[a] = NoRecord
      BY <1>2, <2>1, <2>3 DEF IInv, LegacyWaits
    <3>2. legacy[a] \in LegacyRecords
      BY <2>3 DEF IInv, TypeOK
    <3>3. /\ recs[a].partition = PartitionOf[PrimaryUser]
          /\ recs[a].status = "APPROVED" => recs[a].hasToken
      BY <3>1, <3>2, LegacyAssumption
    <3> QED  BY <2>1, <2>3, <3>1, <3>3 DEF InPartition
  <2> QED  BY <2>2, <2>3
<1> QED  BY <1>1, <1>2 DEF OpenedRecords

\* The partitions that were read when they were opened, after u's is open.
FilledBy(u, read) ==
  IF Opening(u) /\ read THEN indexed \cup {PartitionOf[u]} ELSE indexed

\* Indexing records of the partition of v under v keeps their approvals
\* sound, and more so when no record of the partition is left out.
LEMMA IndexedInv ==
  ASSUME NEW a \in Approvals, NEW r \in Record \cup {NoRecord}, NEW us,
         NEW ae, NEW te, NEW filled, ApprovalInv(a, r, us, ae, te, filled),
         NEW v \in Users, NEW found,
         a \in found => r # NoRecord /\ r.partition = PartitionOf[v],
         NEW more,
         \/ more = filled
         \/ /\ more = filled \cup {PartitionOf[v]}
            /\ (r # NoRecord /\ r.partition = PartitionOf[v]) => a \in found
  PROVE  ApprovalInv(a, r, us, IF a \in found THEN v ELSE ae,
                     IF a \in found /\ r.hasToken THEN v ELSE te, more)
<1>1. v # NoUser
  BY UsersAssumption
<1>2. CASE a \notin found
  BY <1>2 DEF ApprovalInv, SoundEntries
<1>3. CASE a \in found
  <2>1. r # NoRecord /\ r.partition = PartitionOf[v]
    BY <1>3
  <2>2. (r.ownerUserId \in Users /\ Alone(r.ownerUserId) /\ ~ Misfiled(a)) =>
          r.ownerUserId = v
    BY <2>1 DEF ApprovalInv, SoundRecord, Alone
  <2>3. CASE r.hasToken
    BY <1>1, <1>3, <2>1, <2>2, <2>3 DEF ApprovalInv, SoundEntries
  <2>4. CASE ~ r.hasToken
    BY <1>1, <1>3, <2>1, <2>4 DEF ApprovalInv, SoundEntries
  <2> QED  BY <2>3, <2>4
<1> QED  BY <1>2, <1>3

\* Every approval is sound in the partition that was opened, whether it was
\* migrated or not and whether the opening read went well or not.
LEMMA OpenedInv ==
  ASSUME IInv, NEW u \in Users, NEW recs \in OpenedRecords(u), NEW read,
         NEW a \in Approvals
  PROVE  ApprovalInv(a, recs[a], uses[a], ApprovalIndex(u, recs, read)[a],
                     TokenIndex(u, recs, read)[a], FilledBy(u, read))
<1> DEFINE found == Found(u, recs, read)
<1>1. recs[a] \in Record \cup {NoRecord}
  BY OpenedRecordsType DEF IInv, RecordTable
<1>2. ApprovalInv(a, recs[a], uses[a], approvalToUserIndex[a], tokenToUserIndex[a], indexed)
  <2>1. CASE recs[a] = records[a]
    BY <2>1 DEF IInv
  <2>2. CASE /\ records[a] = NoRecord /\ legacy[a] # NoRecord
             /\ recs[a] = legacy[a] /\ Opening(u) /\ InPartition(recs, a, u)
             /\ PartitionOf[u] = PartitionOf[PrimaryUser]
             /\ recs[a].status = "APPROVED" => recs[a].hasToken
    <3>1. ApprovalInv(a, NoRecord, uses[a], approvalToUserIndex[a], tokenToUserIndex[a], indexed)
      BY <2>2 DEF IInv
    <3>2. uses[a] = <<>> /\ approvalToUserIndex[a] = NoUser /\ tokenToUserIndex[a] = NoUser
      BY <3>1 DEF ApprovalInv, SoundRecord, SoundEntries
    <3>3. Len(uses[a]) = 0
      BY <3>2
    <3>4. recs[a].partition \notin indexed
      BY <2>2 DEF Opening, InPartition, IInv, TypeOK
    <3>5. ~ Misfiled(a) /\ recs[a].ownerUserId \in Users =>
            recs[a].partition = PartitionOf[recs[a].ownerUserId]
      BY <2>2 DEF Misfiled, InPartition
    <3> QED
      BY <2>2, <3>2, <3>3, <3>4, <3>5 DEF ApprovalInv, SoundRecord, SoundEntries
  <2> QED  BY <2>1, <2>2, OpenedIs
<1>3. a \in found => recs[a] # NoRecord /\ recs[a].partition = PartitionOf[u]
  BY DEF Found, InPartition
<1>4. \/ FilledBy(u, read) = indexed
      \/ /\ FilledBy(u, read) = indexed \cup {PartitionOf[u]}
         /\ (recs[a] # NoRecord /\ recs[a].partition = PartitionOf[u]) => a \in found
  BY DEF FilledBy, Found, InPartition
<1>5. /\ ApprovalIndex(u, recs, read)[a] =
           IF a \in found THEN u ELSE approvalToUserIndex[a]
      /\ TokenIndex(u, recs, read)[a] =
           IF a \in WithToken(found, recs) THEN u ELSE tokenToUserIndex[a]
  BY DEF ApprovalIndex, TokenIndex, IndexedUnder
<1>6. a \in WithToken(found, recs) <=> a \in found /\ recs[a].hasToken
  BY DEF WithToken
<1> HIDE DEF found
<1>7. ApprovalInv(a, recs[a], uses[a],
                  IF a \in found THEN u ELSE approvalToUserIndex[a],
                  IF a \in found /\ recs[a].hasToken THEN u ELSE tokenToUserIndex[a],
                  FilledBy(u, read))
  BY <1>1, <1>2, <1>3, <1>4, IndexedInv
<1>8. TokenIndex(u, recs, read)[a] =
        IF a \in found /\ recs[a].hasToken THEN u ELSE tokenToUserIndex[a]
  BY <1>5, <1>6
<1> QED  BY <1>5, <1>7, <1>8

-----------------------------------------------------------------------------
(***************************************************************************)
(* The shapes of a step: every operation opens a partition, changes one    *)
(* approval at most, and leaves every approval sound.                      *)
(***************************************************************************)

\* The operation keeps the files that exist, and a migration makes one.
Located(u, recs) ==
  /\ legacy' = legacy /\ files \subseteq files'
  /\ recs # records => PartitionOf[u] \in files'

Requested(r, new, a) ==
  r = NoRecord /\ legacy[a] = NoRecord /\ new.status = "PENDING" /\ uses'[a] = uses[a]

Granted(r, new, a) ==
  r # NoRecord /\ r.status = "PENDING" /\ new.status = "APPROVED" /\ uses'[a] = uses[a]

Closed(r, new, a) ==
  /\ r # NoRecord /\ r.status # "CONSUMED" /\ uses'[a] = uses[a]
  /\ new.status \in {"REJECTED", "REVOKED", "EXPIRED"}

Burnt(r, new, a) ==
  r # NoRecord /\ r.status = "APPROVED" /\ new.status = "CONSUMED" /\ uses'[a] = uses[a]

Accepted(r, new, a) ==
  /\ r # NoRecord /\ r.status = "APPROVED"
  /\ Len(uses'[a]) = Len(uses[a]) + 1
  /\ ~ Misfiled(a) => new.status = "CONSUMED"

Changed(recs, a) ==
  /\ \A b \in Approvals \ {a} : records'[b] = recs[b] /\ uses'[b] = uses[b]
  /\ records'[a] \in Record
  /\ \/ Requested(recs[a], records'[a], a)
     \/ Granted(recs[a], records'[a], a)
     \/ Closed(recs[a], records'[a], a)
     \/ Burnt(recs[a], records'[a], a)
     \/ Accepted(recs[a], records'[a], a)

Kept(recs) == records' = recs /\ uses' = uses

AllSound ==
  \A b \in Approvals :
    ApprovalInv(b, records'[b], uses'[b], approvalToUserIndex'[b],
                tokenToUserIndex'[b], indexed')

Operated ==
  /\ AllSound
  /\ \E u \in Users : \E recs \in OpenedRecords(u) :
       Located(u, recs) /\ (Kept(recs) \/ \E a \in Approvals : Changed(recs, a))

Idle == UNCHANGED <<records, files, legacy, uses>> /\ AllSound

\* What getStore leaves to the operation that called it.
LEMMA StoreOpened ==
  ASSUME IInv, NEW u \in Users, NEW recs \in OpenedRecords(u), NEW read,
         GetStore(u, recs, read)
  PROVE  /\ Located(u, recs)
         /\ \A b \in Approvals :
              ApprovalInv(b, recs[b], uses[b], ApprovalIndex(u, recs, read)[b],
                          TokenIndex(u, recs, read)[b], indexed')
<1>1. Located(u, recs)
  BY DEF GetStore, Located
<1>2. indexed' = FilledBy(u, read)
  BY DEF GetStore, FilledBy
<1> QED  BY <1>1, <1>2, OpenedInv

\* An operation that changes no record.
LEMMA ReadStep ==
  ASSUME IInv, NEW u \in Users, NEW recs \in OpenedRecords(u), NEW read,
         GetStore(u, recs, read), records' = recs, uses' = uses,
         approvalToUserIndex' = ApprovalIndex(u, recs, read),
         tokenToUserIndex' = TokenIndex(u, recs, read)
  PROVE  Operated
BY StoreOpened DEF Operated, AllSound, Kept

\* An operation that closes a record, or burns its token.
LEMMA StatusStep ==
  ASSUME IInv, NEW u \in Users, NEW recs \in OpenedRecords(u), NEW read,
         GetStore(u, recs, read), uses' = uses,
         approvalToUserIndex' = ApprovalIndex(u, recs, read),
         tokenToUserIndex' = TokenIndex(u, recs, read),
         NEW a \in Approvals, recs[a] # NoRecord, recs[a].status # "CONSUMED",
         NEW status \in {"REJECTED", "REVOKED", "EXPIRED", "CONSUMED"},
         status = "CONSUMED" => recs[a].status = "APPROVED",
         records' = SetStatus(recs, a, status)
  PROVE  Operated
<1> DEFINE new == [recs[a] EXCEPT !.status = status]
<1>0. recs \in RecordTable
  BY OpenedRecordsType DEF IInv
<1>1. recs[a] \in Record
  <2>1. recs[a] \in Record \cup {NoRecord}
    BY <1>0 DEF RecordTable
  <2> QED  BY <2>1
<1>2. new \in Record /\ new.status = status
  <2>1. status \in Statuses
    BY DEF Statuses
  <2>2. /\ [recs[a] EXCEPT !.status = status] \in Record
        /\ [recs[a] EXCEPT !.status = status].status = status
    BY <1>1, <2>1 DEF Record
  <2> QED  BY <2>2
<1>3. records' = [recs EXCEPT ![a] = new]
  BY DEF SetStatus
<1>4. /\ Located(u, recs)
      /\ \A b \in Approvals :
           ApprovalInv(b, recs[b], uses[b], ApprovalIndex(u, recs, read)[b],
                       TokenIndex(u, recs, read)[b], indexed')
  BY StoreOpened
<1>5. ApprovalInv(a, new, uses[a], ApprovalIndex(u, recs, read)[a],
                  TokenIndex(u, recs, read)[a], indexed')
  <2>1. uses[a] \in Seq(UseOf) /\ status \in Statuses \ {"APPROVED"}
    BY DEF IInv, TypeOK, Statuses
  <2>2. ApprovalInv(a, recs[a], uses[a], ApprovalIndex(u, recs, read)[a],
                    TokenIndex(u, recs, read)[a], indexed')
    BY <1>4
  <2> QED  BY <1>1, <2>1, <2>2, ClosedInv
<1> HIDE DEF new
<1>6. /\ records'[a] = new
      /\ \A b \in Approvals \ {a} : records'[b] = recs[b]
  BY <1>0, <1>3 DEF RecordTable
<1>7. AllSound
  BY <1>4, <1>5, <1>6 DEF AllSound
<1>8. Changed(recs, a)
  BY <1>2, <1>6 DEF Changed, Closed, Burnt
<1> QED  BY <1>4, <1>7, <1>8 DEF Operated

\* requestApproval adds a record under an id that no file holds.
LEMMA RequestStep ==
  ASSUME IInv, NEW a \in Approvals, NEW userId \in Users \cup {NoUser},
         NEW operation \in Operations, NEW ttl \in TTLs,
         RequestApproval(userId, operation, ttl, a)
  PROVE  Operated
<1> DEFINE owner == IF userId # NoUser THEN userId ELSE PrimaryUser
           request == [ownerUserId |-> owner, partition |-> PartitionOf[owner],
                       operation |-> operation, status |-> "PENDING",
                       expiresAt |-> now + ttl, hasToken |-> FALSE]
<1>1. owner \in Users
  BY UsersAssumption
<1>2. PICK recs \in OpenedRecords(owner), read \in Reads(owner) :
        /\ GetStore(owner, recs, read) /\ records' = [recs EXCEPT ![a] = request]
        /\ approvalToUserIndex' = [ApprovalIndex(owner, recs, read) EXCEPT ![a] = owner]
        /\ tokenToUserIndex' = TokenIndex(owner, recs, read)
  BY DEF RequestApproval
<1>3. recs[a] = NoRecord /\ legacy[a] = NoRecord /\ uses' = uses
  BY <1>2 DEF RequestApproval, OpenedRecords
<1>4. /\ request \in Record /\ request.ownerUserId = owner
      /\ request.partition = PartitionOf[owner]
      /\ request.status = "PENDING" /\ ~ request.hasToken
  <2>1. now + ttl \in Nat
    BY TimeAssumption DEF IInv, TypeOK
  <2> QED  BY <1>1, <2>1, UsersAssumption DEF Record, Statuses, Owners
<1> HIDE DEF owner, request
<1>5. recs \in RecordTable /\ ApprovalIndex(owner, recs, read) \in IndexTable
  BY <1>1, OpenedRecordsType, IndexType DEF IInv
<1>6. /\ records'[a] = request /\ approvalToUserIndex'[a] = owner
      /\ \A b \in Approvals \ {a} :
           /\ records'[b] = recs[b]
           /\ approvalToUserIndex'[b] = ApprovalIndex(owner, recs, read)[b]
  BY <1>2, <1>5 DEF RecordTable, IndexTable
<1>7. /\ Located(owner, recs)
      /\ \A b \in Approvals :
           ApprovalInv(b, recs[b], uses[b], ApprovalIndex(owner, recs, read)[b],
                       TokenIndex(owner, recs, read)[b], indexed')
  BY <1>1, <1>2, StoreOpened
<1>8. ApprovalInv(a, request, uses[a], owner, TokenIndex(owner, recs, read)[a], indexed')
  <2>1. uses[a] \in Seq(UseOf)
    BY DEF IInv, TypeOK
  <2>2. ApprovalInv(a, NoRecord, uses[a], ApprovalIndex(owner, recs, read)[a],
                    TokenIndex(owner, recs, read)[a], indexed')
    BY <1>3, <1>7
  <2> QED  BY <1>1, <1>4, <2>1, <2>2, RequestedInv
<1>9. AllSound
  BY <1>2, <1>3, <1>6, <1>7, <1>8 DEF AllSound
<1>10. Changed(recs, a)
  BY <1>3, <1>4, <1>6 DEF Changed, Requested
<1> QED  BY <1>1, <1>7, <1>9, <1>10 DEF Operated

GrantedRecords(recs, a) ==
  [recs EXCEPT ![a].status = "APPROVED", ![a].hasToken = TRUE]

\* A grant changes the status and the token of one record.
LEMMA GrantedIs ==
  ASSUME NEW recs \in RecordTable, NEW a \in Approvals, recs[a] # NoRecord,
         NEW table, table = GrantedRecords(recs, a)
  PROVE  /\ table[a] \in Record /\ table[a].status = "APPROVED" /\ table[a].hasToken
         /\ table[a].partition = recs[a].partition
         /\ table[a].ownerUserId = recs[a].ownerUserId
         /\ table[a].operation = recs[a].operation
         /\ table[a].expiresAt = recs[a].expiresAt
         /\ \A b \in Approvals \ {a} : table[b] = recs[b]
<1> DEFINE granted == [[recs[a] EXCEPT !.status = "APPROVED"] EXCEPT !.hasToken = TRUE]
<1>1. recs[a] \in Record
  BY DEF RecordTable
<1>2. /\ granted \in Record /\ granted.status = "APPROVED" /\ granted.hasToken
      /\ granted.partition = recs[a].partition
      /\ granted.ownerUserId = recs[a].ownerUserId
      /\ granted.operation = recs[a].operation
      /\ granted.expiresAt = recs[a].expiresAt
  BY <1>1 DEF Record, Statuses
<1>3. table = [recs EXCEPT ![a] = granted]
  BY DEF RecordTable, GrantedRecords
<1> HIDE DEF granted
<1>4. table[a] = granted /\ \A b \in Approvals \ {a} : table[b] = recs[b]
  BY <1>3 DEF RecordTable
<1> QED  BY <1>2, <1>4

\* grantApproval approves a pending record, expires it, or finds none.
LEMMA GrantStep ==
  ASSUME IInv, NEW a \in Approvals, NEW userId \in Users \cup {NoUser},
         GrantApproval(a, userId)
  PROVE  Operated
<1> DEFINE u == Target(userId, approvalToUserIndex, a)
<1>1. u \in Users /\ uses' = uses
  BY DEF GrantApproval
<1>2. PICK recs \in OpenedRecords(u), read \in Reads(u) :
        /\ GetStore(u, recs, read)
        /\ approvalToUserIndex' = ApprovalIndex(u, recs, read)
        /\ \/ /\ records' = recs
              /\ tokenToUserIndex' = TokenIndex(u, recs, read)
           \/ /\ recs[a] # NoRecord /\ recs[a].status = "PENDING"
              /\ records' = SetStatus(recs, a, "EXPIRED")
              /\ tokenToUserIndex' = TokenIndex(u, recs, read)
           \/ /\ recs[a] # NoRecord /\ recs[a].status = "PENDING"
              /\ records' = [recs EXCEPT ![a].status = "APPROVED",
                                         ![a].hasToken = TRUE]
              /\ tokenToUserIndex' = [TokenIndex(u, recs, read) EXCEPT
                                        ![a] = recs[a].ownerUserId]
  BY DEF GrantApproval, InPartition
<1> HIDE DEF u
<1>3. ASSUME records' = recs, tokenToUserIndex' = TokenIndex(u, recs, read)
      PROVE  Operated
  BY <1>1, <1>2, <1>3, ReadStep
<1>4. ASSUME recs[a] # NoRecord, recs[a].status = "PENDING",
             records' = SetStatus(recs, a, "EXPIRED"),
             tokenToUserIndex' = TokenIndex(u, recs, read)
      PROVE  Operated
  BY <1>1, <1>2, <1>4, StatusStep
<1>5. ASSUME recs[a] # NoRecord, recs[a].status = "PENDING",
             records' = GrantedRecords(recs, a),
             tokenToUserIndex' = [TokenIndex(u, recs, read) EXCEPT
                                    ![a] = recs[a].ownerUserId]
      PROVE  Operated
  <2>1. recs \in RecordTable /\ TokenIndex(u, recs, read) \in TokenTable
    BY <1>1, OpenedRecordsType, IndexType DEF IInv
  <2>2. recs[a] \in Record
    BY <1>5, <2>1 DEF RecordTable
  <2>3. /\ records'[a] \in Record /\ records'[a].status = "APPROVED" /\ records'[a].hasToken
        /\ records'[a].partition = recs[a].partition
        /\ records'[a].ownerUserId = recs[a].ownerUserId
        /\ records'[a].operation = recs[a].operation
        /\ records'[a].expiresAt = recs[a].expiresAt
        /\ \A b \in Approvals \ {a} : records'[b] = recs[b]
    BY <1>5, <2>1, GrantedIs
  <2>4. /\ tokenToUserIndex'[a] = recs[a].ownerUserId
        /\ \A b \in Approvals \ {a} :
             tokenToUserIndex'[b] = TokenIndex(u, recs, read)[b]
    BY <1>5, <2>1 DEF TokenTable
  <2>5. /\ Located(u, recs)
        /\ \A b \in Approvals :
             ApprovalInv(b, recs[b], uses[b], ApprovalIndex(u, recs, read)[b],
                         TokenIndex(u, recs, read)[b], indexed')
    BY <1>1, <1>2, StoreOpened
  <2>6. ApprovalInv(a, records'[a], uses[a], ApprovalIndex(u, recs, read)[a],
                    recs[a].ownerUserId, indexed')
    <3>1. uses[a] \in Seq(UseOf)
      BY DEF IInv, TypeOK
    <3>2. ApprovalInv(a, recs[a], uses[a], ApprovalIndex(u, recs, read)[a],
                      TokenIndex(u, recs, read)[a], indexed')
      BY <2>5
    <3> QED  BY <1>5, <2>2, <2>3, <3>1, <3>2, GrantedInv
  <2>7. AllSound
    BY <1>1, <1>2, <2>3, <2>4, <2>5, <2>6 DEF AllSound
  <2>8. Changed(recs, a)
    BY <1>1, <1>5, <2>3 DEF Changed, Granted
  <2> QED  BY <1>1, <2>5, <2>7, <2>8 DEF Operated
<1> QED  BY <1>2, <1>3, <1>4, <1>5 DEF GrantedRecords

\* rejectApproval and revokeApproval close a record that is not consumed.
LEMMA WithdrawStep ==
  ASSUME IInv, NEW a \in Approvals, NEW userId \in Users \cup {NoUser},
         NEW from, NEW to \in {"REJECTED", "REVOKED"}, "CONSUMED" \notin from,
         Withdraw(a, userId, from, to)
  PROVE  Operated
<1> DEFINE u == Target(userId, approvalToUserIndex, a)
<1>1. u \in Users /\ uses' = uses
  BY DEF Withdraw
<1>2. PICK recs \in OpenedRecords(u), read \in Reads(u) :
        /\ GetStore(u, recs, read)
        /\ approvalToUserIndex' = ApprovalIndex(u, recs, read)
        /\ tokenToUserIndex' = TokenIndex(u, recs, read)
        /\ \/ records' = recs
           \/ /\ recs[a] # NoRecord /\ recs[a].status # "CONSUMED"
              /\ records' = SetStatus(recs, a, to)
  BY DEF Withdraw, InPartition
<1> HIDE DEF u
<1> QED  BY <1>1, <1>2, ReadStep, StatusStep

\* An operation that leaves what validateToken or consumeToken leave.
LEMMA TokenStep ==
  ASSUME IInv, NEW a \in Approvals, NEW u \in Users,
         NEW recs \in OpenedRecords(u), NEW read,
         GetStore(u, recs, read), uses' = uses,
         approvalToUserIndex' = ApprovalIndex(u, recs, read),
         tokenToUserIndex' = TokenIndex(u, recs, read),
         \/ records' = recs
         \/ /\ recs[a] # NoRecord /\ recs[a].status = "APPROVED"
            /\ records' = Validated(recs, a)
         \/ records' = Consumed(recs, a, u)
  PROVE  Operated
<1>1. \/ records' = recs
      \/ /\ recs[a] # NoRecord /\ recs[a].status = "APPROVED"
         /\ records' \in {SetStatus(recs, a, "EXPIRED"), SetStatus(recs, a, "CONSUMED")}
  BY DEF Validated, Consumed, InPartition
<1>2. ASSUME recs[a] # NoRecord, recs[a].status = "APPROVED",
             NEW status \in {"EXPIRED", "CONSUMED"},
             records' = SetStatus(recs, a, status)
      PROVE  Operated
  BY <1>2, StatusStep
<1> QED  BY <1>1, <1>2, ReadStep

\* A token that is accepted: the owner's partition is opened too, and the
\* token is consumed there, unless it is misfiled or consumeToken throws.
LEMMA AcceptStep ==
  ASSUME IInv, NEW a \in Approvals, NEW operation \in Operations,
         NEW userId \in Users \cup {NoUser}, NEW u \in Users,
         NEW recs \in OpenedRecords(u), NEW read, NEW readOwner,
         Accepts(recs, a, operation, u, userId), recs[a].ownerUserId \in Users,
         ConsumeAccepted(recs, read, a, operation, u, userId, readOwner)
  PROVE  Operated
<1> DEFINE owner == recs[a].ownerUserId
           other == PartitionOf[owner] # PartitionOf[u] /\ Opening(owner)
           found == IF other THEN Found(owner, recs, readOwner) ELSE {}
           use == [operation |-> operation, caller |-> userId, at |-> now]
<1>0. owner \in Users
  OBVIOUS
<1>1. recs \in RecordTable
  BY OpenedRecordsType DEF IInv
<1>2. /\ recs[a] # NoRecord /\ recs[a].status = "APPROVED" /\ recs[a].hasToken
      /\ recs[a] \in Record /\ owner \in Users
  BY <1>1 DEF Accepts, TokenUsable, InPartition, RecordTable
<1>3. Located(u, recs)
  <2>1. legacy' = legacy /\ files \subseteq files' /\ PartitionOf[u] \in files'
    BY DEF ConsumeAccepted
  <2> QED  BY <2>1 DEF Located
<1>4. \/ indexed' = FilledBy(u, read)
      \/ /\ other /\ readOwner
         /\ indexed' = FilledBy(u, read) \cup {PartitionOf[owner]}
  BY DEF ConsumeAccepted, FilledBy
<1>5. ASSUME NEW b \in Approvals
      PROVE  ApprovalInv(b, recs[b], uses[b], approvalToUserIndex'[b],
                         tokenToUserIndex'[b], indexed')
  <2>1. ApprovalInv(b, recs[b], uses[b], ApprovalIndex(u, recs, read)[b],
                    TokenIndex(u, recs, read)[b], FilledBy(u, read))
    BY OpenedInv
  <2>2. b \in found => recs[b] # NoRecord /\ recs[b].partition = PartitionOf[owner]
    BY DEF Found, InPartition
  <2>3. \/ indexed' = FilledBy(u, read)
        \/ /\ indexed' = FilledBy(u, read) \cup {PartitionOf[owner]}
           /\ (recs[b] # NoRecord /\ recs[b].partition = PartitionOf[owner]) => b \in found
    BY <1>4 DEF Found, InPartition
  <2>4. /\ approvalToUserIndex'[b] =
             IF b \in found THEN owner ELSE ApprovalIndex(u, recs, read)[b]
        /\ tokenToUserIndex'[b] =
             IF b \in WithToken(found, recs) THEN owner ELSE TokenIndex(u, recs, read)[b]
    BY DEF ConsumeAccepted, IndexedUnder
  <2>5. b \in WithToken(found, recs) <=> b \in found /\ recs[b].hasToken
    BY DEF WithToken
  <2>6. recs[b] \in Record \cup {NoRecord}
    BY <1>1 DEF RecordTable
  <2> DEFINE ae == ApprovalIndex(u, recs, read)[b]
             te == TokenIndex(u, recs, read)[b]
             filled == FilledBy(u, read)
             r == recs[b]
             more == indexed'
  <2> HIDE DEF owner, found, other, use, ae, te, filled, r, more
  <2>7. /\ r \in Record \cup {NoRecord}
        /\ ApprovalInv(b, r, uses[b], ae, te, filled)
        /\ b \in found => r # NoRecord /\ r.partition = PartitionOf[owner]
    BY <2>1, <2>2, <2>6 DEF r, ae, te, filled
  <2>8. \/ more = filled
         \/ /\ more = filled \cup {PartitionOf[owner]}
            /\ (r # NoRecord /\ r.partition = PartitionOf[owner]) => b \in found
    BY <2>3 DEF r, filled, more
  <2>9. ApprovalInv(b, r, uses[b], IF b \in found THEN owner ELSE ae,
                     IF b \in found /\ r.hasToken THEN owner ELSE te, more)
    BY <1>0, <2>7, <2>8, IndexedInv
  <2>10. ApprovalInv(b, recs[b], uses[b],
                    IF b \in found THEN owner ELSE ApprovalIndex(u, recs, read)[b],
                    IF b \in found /\ recs[b].hasToken
                      THEN owner ELSE TokenIndex(u, recs, read)[b],
                    indexed')
    BY <2>9 DEF r, ae, te, more
  <2>11. tokenToUserIndex'[b] =
          IF b \in found /\ recs[b].hasToken
            THEN owner ELSE TokenIndex(u, recs, read)[b]
    BY <2>4, <2>5
  <2> QED  BY <2>4, <2>10, <2>11
<1>6. CASE records' = recs /\ uses' = uses
  BY <1>3, <1>5, <1>6 DEF Operated, AllSound, Kept
<1>7. CASE /\ records' = Consumed(recs, a, owner)
           /\ uses' = [uses EXCEPT ![a] = Append(uses[a], use)]
  <2> DEFINE new == [recs[a] EXCEPT !.status = "CONSUMED"]
  <2>1. use \in UseOf /\ uses \in [Approvals -> Seq(UseOf)] /\ uses[a] \in Seq(UseOf)
    BY DEF IInv, TypeOK, UseOf
  <2>2. Within(use, recs[a])
    <3>1. use.at <= recs[a].expiresAt
      BY <1>2 DEF Accepts, Expired, IInv, TypeOK, Record
    <3> QED  BY <3>1 DEF Within, Accepts, TokenUsable
  <2>3. new \in Record /\ new.status = "CONSUMED"
    BY <1>2, StatusIs DEF Statuses
  <2>4. ~ Misfiled(a) => InPartition(recs, a, owner)
    BY <1>2, <1>5 DEF ApprovalInv, SoundRecord, InPartition
  <2>5. \/ records' = [recs EXCEPT ![a] = new]
        \/ records' = recs /\ Misfiled(a)
    BY <1>2, <1>7, <2>4 DEF Consumed, SetStatus
  <2> HIDE DEF new, use
  <2>6. /\ records'[a] = new \/ (records'[a] = recs[a] /\ Misfiled(a))
        /\ \A b \in Approvals \ {a} : records'[b] = recs[b]
    <3>1. CASE records' = [recs EXCEPT ![a] = new]
      BY <1>1, <3>1 DEF RecordTable
    <3> QED  BY <2>5, <3>1
  <2>7. /\ uses'[a] = Append(uses[a], use)
        /\ \A b \in Approvals \ {a} : uses'[b] = uses[b]
    BY <1>7, <2>1
  <2>8. Len(uses'[a]) = Len(uses[a]) + 1
    BY <2>1, <2>7
  <2>9. ApprovalInv(a, records'[a], uses'[a], approvalToUserIndex'[a],
                    tokenToUserIndex'[a], indexed')
    <3>1. ApprovalInv(a, recs[a], uses[a], approvalToUserIndex'[a],
                      tokenToUserIndex'[a], indexed')
      BY <1>5
    <3>2. \/ records'[a] = [recs[a] EXCEPT !.status = "CONSUMED"]
          \/ records'[a] = recs[a] /\ Misfiled(a)
      BY <2>6 DEF new
    <3> QED  BY <1>2, <2>1, <2>2, <2>7, <3>1, <3>2, AcceptedInv
  <2>10. AllSound
    BY <1>5, <2>6, <2>7, <2>9 DEF AllSound
  <2>11. Changed(recs, a)
    BY <1>2, <2>3, <2>6, <2>7, <2>8 DEF Changed, Accepted
  <2> QED  BY <1>3, <2>10, <2>11 DEF Operated
<1> QED  BY <1>6, <1>7 DEF ConsumeAccepted

\* Every step is an operation of such a shape, or touches no record.
LEMMA StepShape ==
  ASSUME IInv, [Next]_vars
  PROVE  Operated \/ Idle
<1>1. ASSUME NEW a \in Approvals, NEW userId \in Users \cup {NoUser},
             ValidateToken(a, userId) \/ ConsumeToken(a, userId)
      PROVE  Operated
  <2> DEFINE u == Target(userId, tokenToUserIndex, a)
  <2>1. u \in Users /\ uses' = uses
    BY <1>1 DEF ValidateToken, ConsumeToken
  <2>2. PICK recs \in OpenedRecords(u), read \in Reads(u) :
          /\ GetStore(u, recs, read)
          /\ approvalToUserIndex' = ApprovalIndex(u, recs, read)
          /\ tokenToUserIndex' = TokenIndex(u, recs, read)
          /\ \/ records' = recs
             \/ /\ recs[a] # NoRecord /\ recs[a].status = "APPROVED"
                /\ records' = Validated(recs, a)
             \/ records' = Consumed(recs, a, u)
    BY <1>1 DEF ValidateToken, ConsumeToken, TokenUsable, InPartition
  <2> HIDE DEF u
  <2> QED  BY <2>1, <2>2, TokenStep
<1>2. ASSUME NEW a \in Approvals, NEW userId \in Users \cup {NoUser},
             NEW operation \in Operations,
             ValidateAndConsumeToken(a, operation, userId)
      PROVE  Operated
  <2> DEFINE u == Target(userId, tokenToUserIndex, a)
  <2>1. u \in Users
    BY <1>2 DEF ValidateAndConsumeToken
  <2>2. PICK recs \in OpenedRecords(u), read \in Reads(u) :
          \/ /\ Accepts(recs, a, operation, u, userId)
             /\ recs[a].ownerUserId \in Users
             /\ \E readOwner \in Reads(recs[a].ownerUserId) :
                  ConsumeAccepted(recs, read, a, operation, u, userId, readOwner)
          \/ /\ GetStore(u, recs, read)
             /\ approvalToUserIndex' = ApprovalIndex(u, recs, read)
             /\ tokenToUserIndex' = TokenIndex(u, recs, read)
             /\ uses' = uses
             /\ \/ /\ recs[a] # NoRecord /\ recs[a].status = "APPROVED"
                   /\ records' = Validated(recs, a)
                \/ records' = recs
    BY <1>2 DEF ValidateAndConsumeToken, TokenUsable, InPartition
  <2> HIDE DEF u
  <2> QED  BY <2>1, <2>2, AcceptStep, TokenStep
<1>3. ASSUME NEW u \in Users, ReadApprovals(u)
      PROVE  Operated
  BY <1>3, ReadStep DEF ReadApprovals
<1>4. ASSUME NEW u \in Users, FailedRead(u)
      PROVE  Operated
  <2>1. PICK recs \in OpenedRecords(u) :
          /\ records' = recs
          /\ files' = IF recs = records THEN files ELSE files \cup {PartitionOf[u]}
    BY <1>4 DEF FailedRead
  <2>2. Located(u, recs) /\ Kept(recs)
    BY <1>4, <2>1 DEF FailedRead, Located, Kept
  <2>3. AllSound
    <3> SUFFICES ASSUME NEW b \in Approvals
                 PROVE  ApprovalInv(b, records'[b], uses'[b], approvalToUserIndex'[b],
                                    tokenToUserIndex'[b], indexed')
      BY DEF AllSound
    <3>1. ApprovalInv(b, recs[b], uses[b], ApprovalIndex(u, recs, FALSE)[b],
                      TokenIndex(u, recs, FALSE)[b], FilledBy(u, FALSE))
      BY OpenedInv
    <3>2. /\ ApprovalIndex(u, recs, FALSE)[b] = approvalToUserIndex[b]
          /\ TokenIndex(u, recs, FALSE)[b] = tokenToUserIndex[b]
          /\ FilledBy(u, FALSE) = indexed
      BY DEF ApprovalIndex, TokenIndex, IndexedUnder, Found, WithToken, FilledBy
    <3> QED  BY <1>4, <2>1, <3>1, <3>2 DEF FailedRead
  <2> QED  BY <2>2, <2>3 DEF Operated
<1>5. CASE Restart
  <2>1. UNCHANGED <<records, files, legacy, uses>> /\ indexed' = {}
    BY <1>5 DEF Restart, durable
  <2>2. \A b \in Approvals : approvalToUserIndex'[b] = NoUser /\ tokenToUserIndex'[b] = NoUser
    BY <1>5 DEF Restart
  <2>3. AllSound
    BY <2>1, <2>2 DEF AllSound, IInv, ApprovalInv, SoundEntries
  <2> QED  BY <2>1, <2>3 DEF Idle
<1>6. CASE Tick \/ UNCHANGED vars
  BY <1>6 DEF Idle, AllSound, IInv, Tick, vars, durable, memory
<1>7. "CONSUMED" \notin {"PENDING"} /\ "CONSUMED" \notin Statuses \ {"CONSUMED"}
  OBVIOUS
<1> QED
  BY <1>1, <1>2, <1>3, <1>4, <1>5, <1>6, <1>7, RequestStep, GrantStep, WithdrawStep
  DEF Next, RejectApproval, RevokeApproval


-----------------------------------------------------------------------------
(***************************************************************************)
(* The invariant holds, and with it the safety properties.                 *)
(***************************************************************************)

\* What is still in the legacy file stays without another record until the
\* migration has made the primary user's file.
LEMMA LegacyStep ==
  ASSUME IInv, Operated \/ Idle
  PROVE  LegacyWaits'
<1>1. CASE Idle
  BY <1>1 DEF Idle, IInv, LegacyWaits
<1>2. ASSUME NEW u \in Users, NEW recs \in OpenedRecords(u), Located(u, recs),
             Kept(recs) \/ \E a \in Approvals : Changed(recs, a),
             PartitionOf[PrimaryUser] \notin files', NEW b \in Approvals,
             legacy'[b] # NoRecord
      PROVE  records'[b] = NoRecord
  <2>1. PartitionOf[PrimaryUser] \notin files /\ legacy[b] # NoRecord
    BY <1>2 DEF Located
  <2>2. recs = records
    BY <1>2 DEF OpenedRecords, Migrates, Located
  <2>3. recs[b] = NoRecord
    BY <2>1, <2>2 DEF IInv, LegacyWaits
  <2>4. ASSUME NEW a \in Approvals, Changed(recs, a)
        PROVE  records'[b] = NoRecord
    <3>1. a # b
      BY <2>1, <2>3, <2>4
      DEF Changed, Requested, Granted, Closed, Burnt, Accepted
    <3> QED  BY <2>3, <2>4, <3>1 DEF Changed
  <2> QED  BY <1>2, <2>3, <2>4 DEF Kept
<1>3. CASE Operated
  BY <1>2, <1>3 DEF Operated, LegacyWaits
<1> QED  BY <1>1, <1>3

\* Every step keeps the invariant.
LEMMA InvariantStep ==
  ASSUME IInv, [Next]_vars
  PROVE  IInv'
<1>1. TypeOK'
  BY TypeStep DEF IInv
<1>2. Operated \/ Idle
  BY StepShape
<1>3. LegacyWaits'
  BY <1>2, LegacyStep
<1>4. legacy' = legacy /\ AllSound
  BY <1>2 DEF Operated, Idle, Located
<1>5. ASSUME NEW a \in Approvals
      PROVE  ApprovalInv(a, records[a], uses[a], approvalToUserIndex[a],
                         tokenToUserIndex[a], indexed)'
  <2>1. ApprovalInv(a, records'[a], uses'[a], approvalToUserIndex'[a],
                    tokenToUserIndex'[a], indexed')
    BY <1>4 DEF AllSound
  <2>2. Misfiled(a)' <=> Misfiled(a)
    BY <1>4 DEF Misfiled
  <2> QED  BY <2>1, <2>2 DEF ApprovalInv, SoundRecord, SoundEntries
<1> QED  BY <1>1, <1>3, <1>5 DEF IInv

\* The invariant holds at the start: there are no records and no entries.
LEMMA InitSound == Init => IInv
<1> SUFFICES ASSUME Init PROVE IInv
  OBVIOUS
<1>1. TypeOK
  BY UsersAssumption DEF Init, TypeOK
<1>2. LegacyWaits
  BY DEF Init, LegacyWaits
<1>3. ASSUME NEW a \in Approvals
      PROVE  ApprovalInv(a, records[a], uses[a], approvalToUserIndex[a],
                         tokenToUserIndex[a], indexed)
  <2>1. /\ records[a] = NoRecord /\ uses[a] = <<>> /\ Len(uses[a]) = 0
        /\ approvalToUserIndex[a] = NoUser /\ tokenToUserIndex[a] = NoUser
    BY DEF Init
  <2> QED  BY <2>1 DEF ApprovalInv, SoundRecord, SoundEntries
<1> QED  BY <1>1, <1>2, <1>3 DEF IInv

\* The invariant holds in every reachable state.
THEOREM Invariant == Spec => []IInv
<1>1. IInv /\ [Next]_vars => IInv'
  BY InvariantStep
<1> QED  BY <1>1, InitSound, PTL DEF Spec

\* SingleUse, whatever the legacy file holds, whoever shares a partition and
\* whichever reads fail: an approval that the migration does not put into
\* another user's partition authorises one execution at most.
THEOREM SingleUseHolds == Spec => []SingleUse
<1>1. IInv => SingleUse
  BY DEF IInv, ApprovalInv, SoundRecord, SingleUse
<1> QED  BY <1>1, Invariant, PTL

\* UseWithinApproval: even the acceptances of a misfiled record are for the
\* operation, the owner and the time that the human granted.
THEOREM UseWithinApprovalHolds == Spec => []UseWithinApproval
<1>1. ASSUME IInv, NEW a \in Approvals, NEW i \in 1..Len(uses[a])
      PROVE  /\ records[a] # NoRecord
             /\ uses[a][i].operation = records[a].operation
             /\ uses[a][i].caller \in {NoUser, records[a].ownerUserId}
             /\ uses[a][i].at <= records[a].expiresAt
  <2>1. SoundRecord(a, records[a], uses[a])
    BY <1>1 DEF IInv, ApprovalInv
  <2>2. uses[a] # <<>>
    BY <1>1
  <2>3. Within(uses[a][i], records[a])
    BY <1>1, <2>1 DEF SoundRecord
  <2> QED  BY <2>1, <2>2, <2>3 DEF SoundRecord, Within
<1>2. IInv => UseWithinApproval
  BY <1>1 DEF UseWithinApproval
<1> QED  BY <1>2, Invariant, PTL

\* IndexesAgree: after any restarts, migrations, failed reads and openings by
\* users who share a partition, the entries lead to the records and a partition
\* that was read has no record without one.
THEOREM IndexesAgreeHolds == Spec => []IndexesAgree
<1>1. IInv => IndexesAgree
  BY DEF IInv, ApprovalInv, SoundEntries, IndexesAgree, InPartition
<1> QED  BY <1>1, Invariant, PTL

\* GrantedIsUsable: an owner who is alone in a partition is never turned away
\* from an approval that was granted.
THEOREM GrantedIsUsableHolds == Spec => []GrantedIsUsable
<1>1. ASSUME IInv, NEW a \in Approvals, records[a] # NoRecord,
             records[a].status = "APPROVED", ~ Misfiled(a),
             records[a].ownerUserId \in Users, Alone(records[a].ownerUserId)
      PROVE  /\ ~ OwnerMismatch(a, records[a].ownerUserId)
             /\ TokenUsable(records, a, records[a].ownerUserId, records[a].ownerUserId)
  <2>1. /\ SoundRecord(a, records[a], uses[a])
        /\ SoundEntries(a, records[a], approvalToUserIndex[a], tokenToUserIndex[a], indexed)
    BY <1>1 DEF IInv, ApprovalInv
  <2>2. tokenToUserIndex[a] \in {NoUser, records[a].ownerUserId}
    BY <1>1, <2>1 DEF SoundEntries
  <2> QED  BY <1>1, <2>1, <2>2 DEF SoundRecord, OwnerMismatch, TokenUsable, InPartition
<1>2. IInv => GrantedIsUsable
  BY <1>1 DEF GrantedIsUsable
<1> QED  BY <1>2, Invariant, PTL

-----------------------------------------------------------------------------
(***************************************************************************)
(* The refinement                                                          *)
(***************************************************************************)
PhaseMap ==
  [a \in Approvals |-> IF Misfiled(a) THEN "none" ELSE PhaseOf(CurrentStatus(a))]

UsedMap == [a \in Approvals |-> IF Misfiled(a) THEN 0 ELSE Len(uses[a])]

\* The phases of the statuses that an approval can have.
LEMMA PhaseIs ==
  /\ PhaseOf("NONE") = "none"
  /\ PhaseOf("PENDING") = "pending"
  /\ PhaseOf("APPROVED") = "approved"
  /\ PhaseOf("CONSUMED") = "consumed"
  /\ \A status \in {"REJECTED", "EXPIRED", "REVOKED"} : PhaseOf(status) = "closed"
BY DEF PhaseOf

\* An approval has a status, or was never requested.
LEMMA CurrentStatusType ==
  ASSUME TypeOK, NEW a \in Approvals
  PROVE  CurrentStatus(a) \in Statuses \cup {"NONE"}
<1>1. LegacyRecords \subseteq Record
  BY LegacyAssumption
<1>2. records[a] \in Record \cup {NoRecord} /\ legacy[a] \in Record \cup {NoRecord}
  BY <1>1 DEF TypeOK
<1>3. \A r \in Record \cup {NoRecord} : r.status \in Statuses \cup {"NONE"}
  BY DEF Record, NoRecord
<1> QED  BY <1>2, <1>3 DEF CurrentStatus

\* A record that an operation found is the current one, in its file or still
\* in the legacy file; where it finds none, and the legacy file has none, the
\* approval was never requested.
LEMMA FoundIsCurrent ==
  ASSUME IInv, NEW u \in Users, NEW recs \in OpenedRecords(u), NEW a \in Approvals
  PROVE  /\ recs[a] # NoRecord => CurrentStatus(a) = recs[a].status
         /\ (recs[a] = NoRecord /\ legacy[a] = NoRecord) => CurrentStatus(a) = "NONE"
BY OpenedIs DEF CurrentStatus, NoRecord

\* A record that is left as it was found keeps its phase: a migration is a
\* stuttering step.
LEMMA LeftIsCurrent ==
  ASSUME IInv, NEW u \in Users, NEW recs \in OpenedRecords(u),
         NEW a \in Approvals, legacy' = legacy, records'[a] = recs[a]
  PROVE  CurrentStatus(a)' = CurrentStatus(a)
BY OpenedIs DEF CurrentStatus

\* One approval changes its phase and its uses, and no other one.
LEMMA OneMoves ==
  ASSUME IInv, NEW u \in Users, NEW recs \in OpenedRecords(u),
         NEW a \in Approvals, legacy' = legacy, records'[a] # NoRecord,
         \A b \in Approvals \ {a} : records'[b] = recs[b] /\ uses'[b] = uses[b]
  PROVE  /\ ~ Misfiled(a) =>
              /\ PhaseMap' = [PhaseMap EXCEPT ![a] = PhaseOf(records'[a].status)]
              /\ UsedMap' = [UsedMap EXCEPT ![a] = Len(uses'[a])]
         /\ Misfiled(a) => UNCHANGED <<PhaseMap, UsedMap>>
<1>1. CurrentStatus(a)' = records'[a].status
  BY DEF CurrentStatus
<1>2. \A b \in Approvals \ {a} : CurrentStatus(b)' = CurrentStatus(b)
  BY LeftIsCurrent
<1>3. \A b \in Approvals : Misfiled(b)' <=> Misfiled(b)
  BY DEF Misfiled
<1>4. /\ PhaseMap' = [b \in Approvals |->
                        IF Misfiled(b) THEN "none" ELSE PhaseOf(CurrentStatus(b)')]
      /\ UsedMap' = [b \in Approvals |-> IF Misfiled(b) THEN 0 ELSE Len(uses'[b])]
  BY <1>3 DEF PhaseMap, UsedMap
<1>5. CASE Misfiled(a)
  BY <1>2, <1>4, <1>5 DEF PhaseMap, UsedMap
<1>6. CASE ~ Misfiled(a)
  <2>1. [PhaseMap EXCEPT ![a] = PhaseOf(records'[a].status)] =
          [b \in Approvals |-> IF b = a THEN PhaseOf(records'[a].status)
                               ELSE IF Misfiled(b) THEN "none" ELSE PhaseOf(CurrentStatus(b))]
    BY DEF PhaseMap
  <2>2. [UsedMap EXCEPT ![a] = Len(uses'[a])] =
          [b \in Approvals |-> IF b = a THEN Len(uses'[a])
                               ELSE IF Misfiled(b) THEN 0 ELSE Len(uses[b])]
    BY DEF UsedMap
  <2>3. PhaseMap' = [PhaseMap EXCEPT ![a] = PhaseOf(records'[a].status)]
    BY <1>1, <1>2, <1>4, <1>6, <2>1
  <2>4. UsedMap' = [UsedMap EXCEPT ![a] = Len(uses'[a])]
    BY <1>4, <1>6, <2>2
  <2> QED  BY <1>6, <2>3, <2>4
<1> QED  BY <1>5, <1>6

\* The approvals start in the phases that the legacy file gives them.
LEMMA InitMaps == Init => Machine!Init
<1> SUFFICES ASSUME Init PROVE Machine!Init
  OBVIOUS
<1>1. \A a \in Approvals : CurrentStatus(a) \in Statuses \cup {"NONE"}
  BY InitSound, CurrentStatusType DEF IInv
<1>2. /\ \A status \in Statuses \cup {"NONE"} : PhaseOf(status) \in Machine!Phases
      /\ "none" \in Machine!Phases
  BY PhaseIs DEF Statuses, Machine!Phases
<1>3. PhaseMap \in [Approvals -> Machine!Phases]
  BY <1>1, <1>2 DEF PhaseMap
<1>4. UsedMap = [a \in Approvals |-> 0]
  BY DEF Init, UsedMap
<1> QED  BY <1>3, <1>4 DEF Machine!Init, PhaseMap, UsedMap

\* A change of one approval is a step of its status machine.
LEMMA ChangeMaps ==
  ASSUME IInv, NEW u \in Users, NEW recs \in OpenedRecords(u), Located(u, recs),
         NEW a \in Approvals, Changed(recs, a)
  PROVE  Machine!Next \/ UNCHANGED <<PhaseMap, UsedMap>>
<1>1. /\ legacy' = legacy /\ records'[a] # NoRecord
      /\ \A b \in Approvals \ {a} : records'[b] = recs[b] /\ uses'[b] = uses[b]
  BY NoRecordIsUnused DEF Located, Changed
<1>2. CASE Misfiled(a)
  BY <1>1, <1>2, OneMoves
<1>3. CASE ~ Misfiled(a)
  <2>1. /\ PhaseMap' = [PhaseMap EXCEPT ![a] = PhaseOf(records'[a].status)]
        /\ UsedMap' = [UsedMap EXCEPT ![a] = Len(uses'[a])]
    BY <1>1, <1>3, OneMoves
  <2>2. PhaseMap[a] = PhaseOf(CurrentStatus(a)) /\ UsedMap[a] = Len(uses[a])
    BY <1>3 DEF PhaseMap, UsedMap
  <2>3. ASSUME uses'[a] = uses[a]
        PROVE  UsedMap' = UsedMap
    BY <1>3, <2>1, <2>3 DEF UsedMap
  <2>4. CASE Requested(recs[a], records'[a], a)
    <3>1. PhaseMap[a] = "none" /\ PhaseMap' = [PhaseMap EXCEPT ![a] = "pending"]
      BY <2>1, <2>2, <2>4, FoundIsCurrent, PhaseIs DEF Requested
    <3>2. UsedMap' = UsedMap
      BY <2>3, <2>4 DEF Requested
    <3>3. Machine!Request(a)
      BY <3>1, <3>2 DEF Machine!Request, Machine!Move, PhaseMap, UsedMap
    <3> QED  BY <3>3 DEF Machine!Next
  <2>5. CASE Granted(recs[a], records'[a], a)
    <3>1. PhaseMap[a] = "pending" /\ PhaseMap' = [PhaseMap EXCEPT ![a] = "approved"]
      BY <2>1, <2>2, <2>5, FoundIsCurrent, PhaseIs DEF Granted
    <3>2. UsedMap' = UsedMap
      BY <2>3, <2>5 DEF Granted
    <3>3. Machine!Approve(a)
      BY <3>1, <3>2 DEF Machine!Approve, Machine!Move, PhaseMap, UsedMap
    <3> QED  BY <3>3 DEF Machine!Next
  <2>6. CASE Closed(recs[a], records'[a], a)
    <3>1. PhaseMap' = [PhaseMap EXCEPT ![a] = "closed"]
      BY <2>1, <2>6, PhaseIs DEF Closed
    <3>2. PhaseMap[a] = PhaseOf(recs[a].status) /\ UsedMap' = UsedMap
      BY <2>2, <2>3, <2>6, FoundIsCurrent DEF Closed
    <3>3. recs[a].status \in Statuses \ {"CONSUMED"}
      <4>1. recs[a] \in Record \cup {NoRecord}
        BY OpenedRecordsType DEF IInv, RecordTable
      <4>2. recs[a] \in Record
        BY <2>6, <4>1 DEF Closed
      <4> QED  BY <2>6, <4>2 DEF Closed, Record
    <3>4. PhaseMap[a] \in {"pending", "approved", "closed"}
      BY <3>2, <3>3, PhaseIs DEF Statuses
    <3>5. CASE PhaseMap[a] = "closed"
      BY <3>1, <3>2, <3>5 DEF PhaseMap
    <3>6. CASE PhaseMap[a] \in {"pending", "approved"}
      <4>1. Machine!Close(a)
        BY <3>1, <3>2, <3>6 DEF Machine!Close, Machine!Move, PhaseMap, UsedMap
      <4> QED  BY <4>1 DEF Machine!Next
    <3> QED  BY <3>4, <3>5, <3>6
  <2>7. CASE Burnt(recs[a], records'[a], a)
    <3>1. PhaseMap[a] = "approved" /\ PhaseMap' = [PhaseMap EXCEPT ![a] = "consumed"]
      BY <2>1, <2>2, <2>7, FoundIsCurrent, PhaseIs DEF Burnt
    <3>2. UsedMap' = UsedMap
      BY <2>3, <2>7 DEF Burnt
    <3>3. Machine!Burn(a)
      BY <3>1, <3>2 DEF Machine!Burn, Machine!Move, PhaseMap, UsedMap
    <3> QED  BY <3>3 DEF Machine!Next
  <2>8. CASE Accepted(recs[a], records'[a], a)
    <3>1. PhaseMap[a] = "approved" /\ PhaseMap' = [PhaseMap EXCEPT ![a] = "consumed"]
      BY <1>3, <2>1, <2>2, <2>8, FoundIsCurrent, PhaseIs DEF Accepted
    <3>2. UsedMap' = [UsedMap EXCEPT ![a] = UsedMap[a] + 1]
      BY <2>1, <2>2, <2>8 DEF Accepted
    <3>3. Machine!Use(a)
      BY <3>1, <3>2 DEF Machine!Use, Machine!Move, PhaseMap, UsedMap
    <3> QED  BY <3>3 DEF Machine!Next
  <2> QED  BY <2>4, <2>5, <2>6, <2>7, <2>8 DEF Changed
<1> QED  BY <1>2, <1>3

\* Every step of the service is a step of the status machine, or leaves its
\* phases and uses alone.
LEMMA StepMaps ==
  ASSUME IInv, [Next]_vars
  PROVE  [Machine!Next]_<<PhaseMap, UsedMap>>
<1>1. ASSUME legacy' = legacy, uses' = uses,
             \A a \in Approvals : CurrentStatus(a)' = CurrentStatus(a)
      PROVE  UNCHANGED <<PhaseMap, UsedMap>>
  <2>1. \A a \in Approvals : Misfiled(a)' <=> Misfiled(a)
    BY <1>1 DEF Misfiled
  <2> QED  BY <1>1, <2>1 DEF PhaseMap, UsedMap
<1>2. ASSUME NEW u \in Users, NEW recs \in OpenedRecords(u), Located(u, recs), Kept(recs)
      PROVE  UNCHANGED <<PhaseMap, UsedMap>>
  BY <1>1, <1>2, LeftIsCurrent DEF Kept, Located
<1>3. CASE Idle
  BY <1>1, <1>3 DEF Idle, CurrentStatus
<1> QED  BY <1>2, <1>3, ChangeMaps, StepShape DEF Operated

\* ImplementsTokenMachine: whatever the store, its indexes, its migration and
\* its failed reads do, an approval that is not misfiled goes the way of the
\* status machine, authorises one execution when it is consumed, and never
\* comes back from a final phase.
THEOREM ImplementsMachine == Spec => ImplementsTokenMachine
<1>1. Init => Machine!Init
  BY InitMaps
<1>2. IInv /\ [Next]_vars => [Machine!Next]_Machine!vars
  BY StepMaps DEF Machine!vars, PhaseMap, UsedMap
<1> QED  BY <1>1, <1>2, Invariant, PTL DEF Spec, ImplementsTokenMachine, Machine!Spec

=============================================================================
