\* One container, one install, an operator who keeps asking to remove it.
SPECIFICATION PersistentSpec
CONSTANTS
  Names = {na}
  Codes = {c1}
  Foreign = {}
  Installers = {i1}
  Removers = {r1}
  Gone = gone
  Elsewhere = elsewhere
  None = none
  MaxMishaps = 0
  Incidents = {}
PROPERTY Removable
