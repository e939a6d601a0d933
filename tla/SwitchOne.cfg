SPECIFICATION Spec
CONSTANTS
  Plugin = {a, c, d}
  Default = d
  Nobody = Nobody
  Unknown = Unknown
  Controlled = {a, c}
  Autostart = {c}
  Reluctant = {}
  Stubborn = {}
  Foreign = {c}
  Request = {r1, r2}
  MaxOutside = 2
INVARIANTS OneActive
CHECK_DEADLOCK FALSE
