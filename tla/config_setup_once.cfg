\* Two setup requests that may overlap: the second passes the gate while the
\* first is saving.
SPECIFICATION SSpec
CONSTANTS
  Setups = {s1, s2}
  Savers = {w1}
  None = none
  SetupInTurn = FALSE
  MaxRev = 1
  MaxRestarts = 0
  Logins = {l1}
  Ttl = 1
  MaxClock = 0
PROPERTY SetupOnce
\* The bounded requests and changes run out.
CHECK_DEADLOCK FALSE
