SPECIFICATION Spec
CONSTANTS
  call1 = call1
  call2 = call2
  call3 = call3
  boss = boss
  alice = alice
  pay = pay
  edit = edit
  wipe = wipe
  big = big
  small = small
  NoArguments = NoArguments
  key = key
  trace1 = trace1
  trace2 = trace2
  trace3 = trace3
  approval = approval
  NoUser = NoUser
  NoKey = NoKey
  NoToken = NoToken
  Calls = {call1, call2, call3}
  Tenants = {boss, alice}
  PrimaryTenant = boss
  Tools = {pay, edit, wipe}
  ClassOf <- Classes
  Arguments = {big, small}
  Keys = {key}
  Correlations = {trace1, trace2, trace3}
  Approvals = {approval}
  Requests <- AllRequests
  ConcurrencyLimit = 2
  LeaseTTL = 0
  EntryTTL = 1
  MaxDiskFailures = 1
INVARIANTS
  CounterMatchesLeases
  LeasesBelongToRunningCalls
  AdmissionControl
  OneExecutionPerApproval
  LedgerTruthful
  CachedIsGenuine
PROPERTIES
  LiveLeaseKept
SYMMETRY CallSymmetry
CHECK_DEADLOCK FALSE
