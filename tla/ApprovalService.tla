--------------------------- MODULE ApprovalService ---------------------------
(***************************************************************************)
(* src/core/approvalService.ts: the life of a human approval of a          *)
(* HIGH_IMPACT action, from the request to the single use of its execution *)
(* token.                                                                  *)
(*                                                                         *)
(* Records are durable and live in one JSON file per user partition; two   *)
(* in-memory indexes map an approval id and a token to a user.  Opening a  *)
(* partition (getStore) fills the indexes, unless its read throws, which   *)
(* is swallowed; and it copies the records of the pre-partition "legacy"   *)
(* file when the primary owner opens its partition and that has no file.   *)
(* A restart keeps the files and loses the rest.                           *)
(*                                                                         *)
(* Every operation runs to its end without yielding to another one, so it  *)
(* is one action.  Abstractions: an action name with its arguments is one  *)
(* member of Operations (the code compares the name and a hash of the      *)
(* arguments, and refuses on either); the execution token of approval a,   *)
(* minted when a is granted, is named by a itself; the clock is a number   *)
(* that Tick advances.  Bounds: MaxTime, and MaxUses acceptances of a token *)
(* (no fewer than two, so that a second one would be seen).                *)
(***************************************************************************)
EXTENDS Naturals, Sequences

CONSTANTS
  Users,          \* authenticated user ids
  NoUser,         \* an absent or anonymous user id
  Nobody,         \* 'anonymous' as a record's owner: it has no partition
  PrimaryUser,    \* DEFAULT_PRIMARY_USER_ID, 'boss_user'
  Partitions,     \* partition keys, each a file of its own
  PartitionOf,    \* resolveUserPartition: the partition key of a user id
  Approvals,      \* approval ids
  Operations,     \* what may be approved: an action name and its arguments
  TTLs,           \* lifetimes a request may ask for
  LegacyRecords,  \* the records that the legacy file may hold
  MaxTime,        \* the clock stops here
  MaxUses         \* acceptances of one token that are followed

Statuses ==
  {"PENDING", "APPROVED", "REJECTED", "EXPIRED", "CONSUMED", "REVOKED"}

\* Owner ids; of a legacy record it may be an anonymous requester's.
Owners == Users \cup {Nobody}

\* ApprovalRecord; hasToken says whether executionToken was ever set, and
\* partition is the file that holds the record.
Record ==
  [ownerUserId : Owners, partition : Partitions, operation : Operations,
   status : Statuses, expiresAt : Nat, hasToken : BOOLEAN]

NoRecord == [status |-> "NONE"]

\* One acceptance of a token by validateAndConsumeToken.
UseOf == [operation : Operations, caller : Users \cup {NoUser}, at : Nat]

ASSUME UsersAssumption ==
  /\ PrimaryUser \in Users
  /\ NoUser \notin Users /\ Nobody \notin Users /\ NoUser # Nobody
  /\ PartitionOf \in [Users -> Partitions]

ASSUME TimeAssumption == MaxTime \in Nat /\ TTLs \subseteq Nat \ {0}

ASSUME UsesAssumption == MaxUses \in Nat /\ MaxUses >= 2

ASSUME LegacyAssumption ==
  LegacyRecords \subseteq
    {r \in Record : /\ r.partition = PartitionOf[PrimaryUser]
                    /\ r.status = "APPROVED" => r.hasToken
                    /\ r.status = "PENDING" => ~r.hasToken}

VARIABLES
  records,               \* durable: the record of each approval, in its file
  files,                 \* durable: the partitions whose file exists
  legacy,                \* durable, never written: the legacy file
  stores,                \* in memory: the partitions opened by this process
  indexed,               \* history: those of them whose opening read went well
  approvalToUserIndex,   \* in memory
  tokenToUserIndex,      \* in memory
  now,                   \* Date.now()
  uses                   \* history: the acceptances of each approval's token

durable == <<records, files, legacy>>
memory  == <<stores, indexed, approvalToUserIndex, tokenToUserIndex>>
vars    == <<durable, memory, now, uses>>

-----------------------------------------------------------------------------
Init ==
  /\ legacy \in [Approvals -> LegacyRecords \cup {NoRecord}]
  /\ records = [a \in Approvals |-> NoRecord]
  /\ files = {}
  /\ stores = {} /\ indexed = {}
  /\ approvalToUserIndex = [a \in Approvals |-> NoUser]
  /\ tokenToUserIndex = [a \in Approvals |-> NoUser]
  /\ now = 0
  /\ uses = [a \in Approvals |-> <<>>]

-----------------------------------------------------------------------------
(***************************************************************************)
(* getStore(u)                                                             *)
(***************************************************************************)
Opening(u) == PartitionOf[u] \notin stores

\* Faulty: a migration at every start.
MigratesAtEveryStart(u) == Opening(u) /\ u = PrimaryUser

Migrates(u) == Opening(u) /\ u = PrimaryUser /\ PartitionOf[u] \notin files

\* The records after the partition of u is open.  A migration that cannot
\* read or write is skipped with a warning.
OpenedRecords(u) ==
  {records} \cup
  (IF Migrates(u)
   THEN {[a \in Approvals |->
            IF legacy[a] # NoRecord THEN legacy[a] ELSE records[a]]}
   ELSE {})

InPartition(recs, a, u) ==
  recs[a] # NoRecord /\ recs[a].partition = PartitionOf[u]

\* The read that opens a partition may throw: the error is swallowed.
Reads(u) == IF Opening(u) THEN BOOLEAN ELSE {TRUE}

\* The records that the first opening indexes, under the user who opens.
Found(u, recs, read) ==
  {a \in Approvals : read /\ Opening(u) /\ InPartition(recs, a, u)}

IndexedUnder(index, as, u) ==
  [a \in Approvals |-> IF a \in as THEN u ELSE index[a]]

ApprovalIndex(u, recs, read) ==
  IndexedUnder(approvalToUserIndex, Found(u, recs, read), u)

WithToken(as, recs) == {a \in as : recs[a].hasToken}

\* Faulty: every partition is indexed under the primary user.
TokenIndexUnderPrimary(u, recs, read) ==
  IndexedUnder(tokenToUserIndex, WithToken(Found(u, recs, read), recs), PrimaryUser)

\* Faulty: the tokens of a partition that is opened again are not indexed.
TokenIndexNotFilled(u, recs, read) == tokenToUserIndex

TokenIndex(u, recs, read) ==
  IndexedUnder(tokenToUserIndex, WithToken(Found(u, recs, read), recs), u)

\* What every operation that reads the partition does before its own work.
\* The store is kept whether or not the opening read went well.
GetStore(u, recs, read) ==
  /\ stores' = stores \cup {PartitionOf[u]}
  /\ indexed' = IF Opening(u) /\ read
                THEN indexed \cup {PartitionOf[u]} ELSE indexed
  /\ files' = files \cup {PartitionOf[u]}
  /\ UNCHANGED <<legacy, now>>

\* The user whose partition is searched: the caller's id, or the index entry.
Target(userId, index, a) == IF userId # NoUser THEN userId ELSE index[a]

\* Faulty: the other fields of the record are not copied.
SetStatusOnly(recs, a, status) == [recs EXCEPT ![a] = [status |-> status]]

SetStatus(recs, a, status) == [recs EXCEPT ![a].status = status]

\* Faulty: off by one.
ExpiredOneLate(r) == r.expiresAt + 1 < now

Expired(r) == r.expiresAt < now

-----------------------------------------------------------------------------
(***************************************************************************)
(* The operations.  userId is NoUser where the caller passes none.         *)
(***************************************************************************)

\* requestApproval: the owner is the first authenticated id, or the primary
\* user; ids are random, so never one that a file already holds.
RequestApproval(userId, operation, ttl, a) ==
  LET owner == IF userId # NoUser THEN userId ELSE PrimaryUser IN
  /\ records[a] = NoRecord /\ legacy[a] = NoRecord
  /\ \E recs \in OpenedRecords(owner), read \in Reads(owner) :
       /\ GetStore(owner, recs, read)
       /\ records' = [recs EXCEPT ![a] =
            [ownerUserId |-> owner, partition |-> PartitionOf[owner],
             operation |-> operation, status |-> "PENDING",
             expiresAt |-> now + ttl, hasToken |-> FALSE]]
       /\ approvalToUserIndex' =
            [ApprovalIndex(owner, recs, read) EXCEPT ![a] = owner]
       /\ tokenToUserIndex' = TokenIndex(owner, recs, read)
  /\ UNCHANGED uses

\* grantApproval: a fresh token for a record that is pending and in time; a
\* pending record past its time becomes EXPIRED.
GrantApproval(a, userId) ==
  LET u == Target(userId, approvalToUserIndex, a) IN
  /\ u \in Users
  /\ \E recs \in OpenedRecords(u), read \in Reads(u) :
       /\ GetStore(u, recs, read)
       /\ approvalToUserIndex' = ApprovalIndex(u, recs, read)
       /\ \/ /\ ~ (InPartition(recs, a, u) /\ recs[a].status = "PENDING")
             /\ records' = recs
             /\ tokenToUserIndex' = TokenIndex(u, recs, read)
          \/ /\ InPartition(recs, a, u) /\ recs[a].status = "PENDING"
             /\ Expired(recs[a])
             /\ records' = SetStatus(recs, a, "EXPIRED")
             /\ tokenToUserIndex' = TokenIndex(u, recs, read)
          \/ /\ InPartition(recs, a, u) /\ recs[a].status = "PENDING"
             /\ ~ Expired(recs[a])
             /\ records' = [recs EXCEPT ![a].status = "APPROVED",
                                        ![a].hasToken = TRUE]
             /\ tokenToUserIndex' = [TokenIndex(u, recs, read) EXCEPT
                                       ![a] = recs[a].ownerUserId]
  /\ UNCHANGED uses

\* rejectApproval and revokeApproval differ in the statuses they accept.
Withdraw(a, userId, from, to) ==
  LET u == Target(userId, approvalToUserIndex, a) IN
  /\ u \in Users
  /\ \E recs \in OpenedRecords(u), read \in Reads(u) :
       /\ GetStore(u, recs, read)
       /\ approvalToUserIndex' = ApprovalIndex(u, recs, read)
       /\ tokenToUserIndex' = TokenIndex(u, recs, read)
       /\ records' =
            IF InPartition(recs, a, u) /\ recs[a].status \in from
            THEN SetStatus(recs, a, to) ELSE recs
  /\ UNCHANGED uses

RejectApproval(a, userId) == Withdraw(a, userId, {"PENDING"}, "REJECTED")

RevokeApproval(a, userId) ==
  Withdraw(a, userId, Statuses \ {"CONSUMED"}, "REVOKED")

\* Faulty: the status is not looked at.
TokenUsableInAnyStatus(recs, a, u, userId) ==
  /\ InPartition(recs, a, u) /\ recs[a].hasToken
  /\ userId = NoUser \/ recs[a].ownerUserId = userId

\* validateToken finds the record of the token, owned by the caller if the
\* caller is authenticated, and approved.
TokenUsable(recs, a, u, userId) ==
  /\ InPartition(recs, a, u) /\ recs[a].hasToken
  /\ userId = NoUser \/ recs[a].ownerUserId = userId
  /\ recs[a].status = "APPROVED"

\* validateToken: the records it leaves, where it finds an approved record.
Validated(recs, a) ==
  IF Expired(recs[a]) THEN SetStatus(recs, a, "EXPIRED") ELSE recs

\* An index entry for another user than the authenticated one ends
\* validateToken before any store is opened.
OwnerMismatch(a, userId) ==
  /\ userId # NoUser
  /\ tokenToUserIndex[a] \notin {NoUser, userId}

\* validateToken, the call the decision point makes.
ValidateToken(a, userId) ==
  LET u == Target(userId, tokenToUserIndex, a) IN
  /\ u \in Users /\ ~ OwnerMismatch(a, userId)
  /\ \E recs \in OpenedRecords(u), read \in Reads(u) :
       /\ GetStore(u, recs, read)
       /\ approvalToUserIndex' = ApprovalIndex(u, recs, read)
       /\ tokenToUserIndex' = TokenIndex(u, recs, read)
       /\ records' = IF TokenUsable(recs, a, u, userId)
                     THEN Validated(recs, a) ELSE recs
  /\ UNCHANGED uses

\* consumeToken: searches the partition of u, and changes nothing when the
\* token is not there or its record is not approved.
Consumed(recs, a, u) ==
  IF InPartition(recs, a, u) /\ recs[a].hasToken
     /\ recs[a].status = "APPROVED"
  THEN SetStatus(recs, a, "CONSUMED") ELSE recs

ConsumeToken(a, userId) ==
  LET u == Target(userId, tokenToUserIndex, a) IN
  /\ u \in Users
  /\ \E recs \in OpenedRecords(u), read \in Reads(u) :
       /\ GetStore(u, recs, read)
       /\ approvalToUserIndex' = ApprovalIndex(u, recs, read)
       /\ tokenToUserIndex' = TokenIndex(u, recs, read)
       /\ records' = Consumed(recs, a, u)
  /\ UNCHANGED uses

\* validateToken returns valid, for this operation.
Accepts(recs, a, operation, u, userId) ==
  /\ TokenUsable(recs, a, u, userId) /\ ~ Expired(recs[a])
  /\ recs[a].operation = operation

\* validateAndConsumeToken of a valid token: consumeToken searches the
\* partition of the record's owner, which may have to be opened too, and its
\* result is not looked at: the call succeeds whether or not anything was
\* consumed.  It fails only when consumeToken throws.
ConsumeAccepted(recs, read, a, operation, u, userId, readOwner) ==
  LET owner == recs[a].ownerUserId
      other == PartitionOf[owner] # PartitionOf[u] /\ Opening(owner)
      found == IF other THEN Found(owner, recs, readOwner) ELSE {}
  IN
  /\ stores' = stores \cup {PartitionOf[u], PartitionOf[owner]}
  /\ indexed' = indexed \cup {PartitionOf[v] : v \in
                   {w \in {u} : read /\ Opening(u)} \cup
                   {w \in {owner} : readOwner /\ other}}
  /\ approvalToUserIndex' = IndexedUnder(ApprovalIndex(u, recs, read), found, owner)
  /\ tokenToUserIndex' =
       IndexedUnder(TokenIndex(u, recs, read), WithToken(found, recs), owner)
  /\ \/ /\ Len(uses[a]) < MaxUses
        /\ records' = Consumed(recs, a, owner)
        /\ files' = files \cup {PartitionOf[u], PartitionOf[owner]}
        /\ uses' = [uses EXCEPT ![a] = Append(@,
                      [operation |-> operation, caller |-> userId, at |-> now])]
     \/ /\ records' = recs
        /\ files' \in {files \cup {PartitionOf[u]},
                       files \cup {PartitionOf[u], PartitionOf[owner]}}
        /\ UNCHANGED uses
  /\ UNCHANGED <<legacy, now>>

\* A record of an owner without a partition makes consumeToken throw.
ValidateAndConsumeToken(a, operation, userId) ==
  LET u == Target(userId, tokenToUserIndex, a) IN
  /\ u \in Users /\ ~ OwnerMismatch(a, userId)
  /\ \E recs \in OpenedRecords(u), read \in Reads(u) :
       \/ /\ Accepts(recs, a, operation, u, userId)
          /\ recs[a].ownerUserId \in Users
          /\ \E readOwner \in Reads(recs[a].ownerUserId) :
               ConsumeAccepted(recs, read, a, operation, u, userId, readOwner)
       \/ /\ ~ (/\ Accepts(recs, a, operation, u, userId)
                /\ recs[a].ownerUserId \in Users)
          /\ GetStore(u, recs, read)
          /\ approvalToUserIndex' = ApprovalIndex(u, recs, read)
          /\ tokenToUserIndex' = TokenIndex(u, recs, read)
          /\ records' = IF TokenUsable(recs, a, u, userId)
                        THEN Validated(recs, a) ELSE recs
          /\ UNCHANGED uses

\* getApproval, listApprovals and listPending with a user id; also what is
\* left of an operation that opened the partition and whose own read or
\* write throws.
ReadApprovals(u) ==
  /\ \E recs \in OpenedRecords(u), read \in Reads(u) :
       /\ GetStore(u, recs, read)
       /\ approvalToUserIndex' = ApprovalIndex(u, recs, read)
       /\ tokenToUserIndex' = TokenIndex(u, recs, read)
       /\ records' = recs
  /\ UNCHANGED uses

\* The opening read and the operation's own both throw: the partition counts
\* as open, with no index entry, and may still have no file.
FailedRead(u) ==
  /\ Opening(u)
  /\ \E recs \in OpenedRecords(u) :
       /\ records' = recs
       /\ files' = IF recs = records THEN files ELSE files \cup {PartitionOf[u]}
  /\ stores' = stores \cup {PartitionOf[u]}
  /\ UNCHANGED <<legacy, indexed, approvalToUserIndex, tokenToUserIndex, now, uses>>

\* The process stops at any point between two operations and starts again.
Restart ==
  /\ stores' = {} /\ indexed' = {}
  /\ approvalToUserIndex' = [a \in Approvals |-> NoUser]
  /\ tokenToUserIndex' = [a \in Approvals |-> NoUser]
  /\ UNCHANGED <<durable, now, uses>>

Tick == now < MaxTime /\ now' = now + 1 /\ UNCHANGED <<durable, memory, uses>>

Next ==
  \/ \E a \in Approvals, userId \in Users \cup {NoUser} :
       \/ \E operation \in Operations :
            \/ \E ttl \in TTLs : RequestApproval(userId, operation, ttl, a)
            \/ ValidateAndConsumeToken(a, operation, userId)
       \/ GrantApproval(a, userId)
       \/ RejectApproval(a, userId)
       \/ RevokeApproval(a, userId)
       \/ ValidateToken(a, userId)
       \/ ConsumeToken(a, userId)
  \/ \E u \in Users : ReadApprovals(u) \/ FailedRead(u)
  \/ Restart
  \/ Tick

Spec == Init /\ [][Next]_vars

-----------------------------------------------------------------------------
(***************************************************************************)
(* Properties                                                              *)
(***************************************************************************)

\* The type invariant of the durable and in-memory state of ApprovalService.
TypeOK ==
  /\ records \in [Approvals -> Record \cup {NoRecord}]
  /\ files \subseteq Partitions
  /\ legacy \in [Approvals -> LegacyRecords \cup {NoRecord}]
  /\ stores \subseteq Partitions /\ indexed \subseteq stores
  /\ approvalToUserIndex \in [Approvals -> Users \cup {NoUser}]
  /\ tokenToUserIndex \in [Approvals -> Owners \cup {NoUser}]
  /\ now \in Nat
  /\ uses \in [Approvals -> Seq(UseOf)]

\* The migration puts, or will put, the record into a partition that is not
\* its owner's: every record of the legacy file goes to the primary user's.
Misfiled(a) ==
  /\ legacy[a] # NoRecord /\ legacy[a].ownerUserId \in Users
  /\ PartitionOf[legacy[a].ownerUserId] # PartitionOf[PrimaryUser]

\* No other user id resolves to the partition of u.
Alone(u) == \A v \in Users : PartitionOf[v] = PartitionOf[u] => v = u

\* validateAndConsumeToken: an approval that is not misfiled is accepted for
\* one execution at most, across restarts, migrations, failed reads and
\* callers, and one that was accepted stays CONSUMED: no later revoke, expiry
\* or grant reopens or hides it.
SingleUse ==
  \A a \in Approvals : ~ Misfiled(a) =>
    /\ Len(uses[a]) <= 1
    /\ uses[a] # <<>> => records[a].status = "CONSUMED"

\* "Validate and consume a one-time execution token.": no token is accepted
\* twice, whoever the record belongs to.
TokenAcceptedOnce == \A a \in Approvals : Len(uses[a]) <= 1

\* Whatever was accepted is what the human saw: the operation of the record,
\* for its owner (or a caller that named nobody), within its lifetime.
UseWithinApproval ==
  \A a \in Approvals : \A i \in 1..Len(uses[a]) :
    /\ records[a] # NoRecord
    /\ uses[a][i].operation = records[a].operation
    /\ uses[a][i].caller \in {NoUser, records[a].ownerUserId}
    /\ uses[a][i].at <= records[a].expiresAt

\* The in-memory indexes and the files agree although a restart clears one
\* and not the other, user ids share partitions and reads fail.  An entry
\* leads to the partition that holds the record (a grant of a misfiled record
\* leads to its owner instead), under the name of an owner who is alone in
\* it; and a partition whose opening read went well has no record, old or
\* new, without an entry.
IndexesAgree ==
  \A a \in Approvals :
    LET r == records[a] IN
    /\ approvalToUserIndex[a] # NoUser =>
         InPartition(records, a, approvalToUserIndex[a])
    /\ tokenToUserIndex[a] # NoUser =>
         /\ r # NoRecord /\ r.hasToken
         /\ \/ tokenToUserIndex[a] = r.ownerUserId
            \/ tokenToUserIndex[a] \in Users /\ InPartition(records, a, tokenToUserIndex[a])
         /\ (r.ownerUserId \in Users /\ Alone(r.ownerUserId) /\ ~ Misfiled(a)) =>
              tokenToUserIndex[a] = r.ownerUserId
    /\ (r # NoRecord /\ r.partition \in indexed) =>
         /\ approvalToUserIndex[a] # NoUser
         /\ r.hasToken => tokenToUserIndex[a] # NoUser

\* An approval that a human granted and that is still in time can be used: its
\* owner, presenting the token, is not turned away, whichever partitions were
\* opened by whom since the last restart and whether or not they could be
\* read; where the record is not misfiled and no other user id of the owner's
\* partition can have put its own name into the index.
GrantedIsUsable ==
  \A a \in Approvals :
    LET owner == records[a].ownerUserId IN
    (/\ records[a] # NoRecord /\ records[a].status = "APPROVED" /\ ~ Misfiled(a)
     /\ owner \in Users /\ Alone(owner)) =>
      ~ OwnerMismatch(a, owner) /\ TokenUsable(records, a, owner, owner)

-----------------------------------------------------------------------------
(***************************************************************************)
(* ApprovalService implements ApprovalTokenMachine.  A record still in the *)
(* legacy file stands for itself, so a migration is a stuttering step.  Of *)
(* a misfiled approval nothing is claimed: it stays in the first phase.    *)
(***************************************************************************)
CurrentStatus(a) ==
  IF records[a] # NoRecord THEN records[a].status ELSE legacy[a].status

PhaseOf(status) ==
  CASE status = "NONE" -> "none"
    [] status = "PENDING" -> "pending"
    [] status = "APPROVED" -> "approved"
    [] status = "CONSUMED" -> "consumed"
    [] status \in {"REJECTED", "EXPIRED", "REVOKED"} -> "closed"

Machine == INSTANCE ApprovalTokenMachine WITH
  phase <- [a \in Approvals |->
              IF Misfiled(a) THEN "none" ELSE PhaseOf(CurrentStatus(a))],
  used <- [a \in Approvals |-> IF Misfiled(a) THEN 0 ELSE Len(uses[a])]

\* Every operation on one approval is a step of the status machine or leaves
\* its phase alone, and the other approvals' too.
ImplementsTokenMachine == Machine!Spec
=============================================================================
