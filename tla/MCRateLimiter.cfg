SPECIFICATION Spec
CONSTANTS
  Clients = {c1, c2}
  Logins = {login}
  Capacity = 2
  TokenTicks = 2
  WindowEvents = 2
  Window = 3
  TicksPerSecond = 2
  MaxTime = 6
SYMMETRY ClientSymmetry
INVARIANTS
  RequestsBounded
  RequestRetryAdmitted
  LoginsBounded
  LoginRetryAdmitted
