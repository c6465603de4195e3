SPECIFICATION Spec
CONSTANTS
  boss = boss
  Boss = Boss
  alice = alice
  approve1 = approve1
  pay = pay
  refund = refund
  NoUser = NoUser
  Nobody = Nobody
  Users = {boss, Boss, alice}
  PrimaryUser = boss
  Partitions = {"boss", "alice"}
  PartitionOf <- SharedPartition
  Approvals = {approve1}
  Operations = {pay, refund}
  TTLs = {1}
  LegacyRecords <- LegacyOfAll
  MaxTime = 2
  MaxUses = 2
INVARIANTS
  TypeOK
  SingleUse
  UseWithinApproval
  IndexesAgree
  GrantedIsUsable
PROPERTIES
  ImplementsTokenMachine
