SPECIFICATION Spec
CONSTANTS
  reg1 = reg1
  reg2 = reg2
  login = login
  logout = logout
  val1 = val1
  val2 = val2
  name = name
  phone = phone
  Requests = {reg1, login, logout, val1}
  OpOf <- MCOpOf
  EmailOf <- MCEmailOf
  Lifetime = 1
  MaxTime = 1
  KafkaEnabled = TRUE
  Faults = {}
CHECK_DEADLOCK FALSE
INVARIANTS
  LogoutIsFinal
