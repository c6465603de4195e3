SPECIFICATION FairSpec
CONSTANTS
  desktop = desktop
  phone = phone
  conn1 = conn1
  conn2 = conn2
  conn3 = conn3
  call1 = call1
  call2 = call2
  call3 = call3
  id1 = id1
  id2 = id2
  NoBody = NoBody
  Bodies = {desktop, phone}
  Capable = {desktop, phone}
  Sockets = {conn1, conn2, conn3}
  Calls = {call1, call2, call3}
  CommandIds = {id1, id2}
  BodiesOf <- TwiceOne
  IdsOf <- SomeShared
INVARIANTS
  WaitingIsFiled
  NoHangingCommand
  NewestConnectionServed
PROPERTIES
  EveryCallSettles
CHECK_DEADLOCK FALSE
