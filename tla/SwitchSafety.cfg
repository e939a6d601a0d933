SPECIFICATION FairSpec
CONSTANTS
  Plugin = {a, c, d}
  Default = d
  Nobody = Nobody
  Unknown = Unknown
  Controlled = {a, c}
  Autostart = {c}
  Reluctant = {c}
  Stubborn = {a}
  Foreign = {c}
  Request = {r1, r2}
  MaxOutside = 2
INVARIANTS TypeOK OneSwitcher OneActiveUnlessStrayed
PROPERTIES StaysInactive SwitchesEnd
CHECK_DEADLOCK FALSE
