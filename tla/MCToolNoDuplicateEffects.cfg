SPECIFICATION Spec
CONSTANTS
  call1 = call1
  call2 = call2
  call3 = call3
  boss = boss
  alice = alice
  pay = pay
  edit = edit
  wipe = wipe
  big = big
  small = small
  NoArguments = NoArguments
  key = key
  trace1 = trace1
  trace2 = trace2
  trace3 = trace3
  approval = approval
  NoUser = NoUser
  NoKey = NoKey
  NoToken = NoToken
  Calls = {call1, call2}
  Tenants = {boss, alice}
  PrimaryTenant = boss
  Tools = {pay, edit, wipe}
  ClassOf <- Classes
  Arguments = {big, small}
  Keys = {key}
  Correlations = {trace1, trace2, trace3}
  Approvals = {approval}
  Requests <- EditsOnly
  ConcurrencyLimit = 2
  LeaseTTL = 1
  EntryTTL = 1
  MaxDiskFailures = 1
INVARIANT
  NoDuplicateEffects
CHECK_DEADLOCK FALSE
