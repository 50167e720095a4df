SPECIFICATION Spec
CONSTANTS
  Clients = {c1, c2}
  Usernames = {n1, n2}
  Passwords = {p1, p2}
  Hwids = {h1, h2}
  NotSet = NotSet
  NoRow = NoRow
  MaxUid = 2
  UnpaidOrders = FALSE
SYMMETRY Interchangeable
CHECK_DEADLOCK FALSE
INVARIANTS TypeOK BindingNeedsPassword LockNeedsTwoMachines 
