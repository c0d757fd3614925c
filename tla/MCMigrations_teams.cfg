\* A directory of any age, two interrupted starts, then a shell and two requests.
CONSTANTS
  h1 = h1 k1 = k1
  Uuids = {"u1","u2","u3","u4","u5"} Slugs = {"default","other"} Handles = {h1} Sessions = {"s1"}
  Tokens = {k1} Owner <- OwnerOfToken
  Ages = {"fresh","single","multi","members"}
  Default = "default" Other = "other"
  ShellWhileDown = FALSE
  MaxOps = 4 MaxCrashes = 2
  None = None
SPECIFICATION MigSpec
INVARIANTS ArrivesWhole
PROPERTIES OnlyRacesOrphan ComesUp
CHECK_DEADLOCK FALSE
