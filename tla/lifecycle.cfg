\* Two containers, an install and two removals at a time, an instance of the
\* tenant that is not ours, one restart, and every kind of incident.
SPECIFICATION Spec
CONSTANTS
  Names = {na, nb}
  Codes = {c1, c2}
  Foreign = {f1}
  Installers = {i1}
  Removers = {r1, r2}
  Gone = gone
  Elsewhere = elsewhere
  None = none
  MaxMishaps = 1
  Incidents = {"overlap", "again", "unknown", "unsaved", "unread"}
SYMMETRY Symmetry
INVARIANTS TypeOK Cleanable
PROPERTIES NoOrphanMade RemovalSparesOthers ImplementsLedger
