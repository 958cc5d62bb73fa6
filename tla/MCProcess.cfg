SPECIFICATION FairSpec
CONSTANTS
  retry = retry
  net = net
  http = http
  tcp = tcp
  o1 = o1
  o2 = o2
  NoProc = NoProc
  Proc = {retry, net, http, tcp}
  Object = {o1, o2}
  ObjOf <- MCObjOf
  Reschedule = {retry, net, http}
  Permanent = {retry, net}
INVARIANT QueueConsistent
INVARIANT BoundedWait
PROPERTY QueuedIsCalled
