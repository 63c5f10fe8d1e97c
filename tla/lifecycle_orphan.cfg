\* One container, one install; the tenant does not tell its account details.
SPECIFICATION Spec
CONSTANTS
  Names = {na}
  Codes = {c1}
  Foreign = {}
  Installers = {i1}
  Removers = {r1}
  Gone = gone
  Elsewhere = elsewhere
  None = none
  MaxMishaps = 1
  Incidents = {"unknown"}
INVARIANT NoOrphans
