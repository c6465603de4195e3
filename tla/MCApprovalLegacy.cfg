SPECIFICATION Spec
CONSTANTS
  boss = boss
  Boss = Boss
  alice = alice
  approve1 = approve1
  pay = pay
  refund = refund
  NoUser = NoUser
  Nobody = Nobody
  Users = {boss, alice}
  PrimaryUser = boss
  Partitions = {"boss", "alice"}
  PartitionOf <- SharedPartition
  Approvals = {approve1}
  Operations = {pay, refund}
  TTLs = {1}
  LegacyRecords <- LegacyOfAlice
  MaxTime = 1
  MaxUses = 2
INVARIANT
  TokenAcceptedOnce
