\* Lists of four and five sessions by pages of two; two logins; two pulls of two
\* sessions.
CONSTANTS
  near = near far = far j1 = j1 j2 = j2 p1 = p1 p2 = p2
  Scenes = {"accounts", "list", "copies"}
  Servers = {near, far} Teams = {"x", "y", "z"} Home <- Homes Configured = {"x", "z"}
  Jobs = {j1, j2} Askers = {"a"} Attempts = 2
  MaxSwitches = 1 MaxExpiries = 1 MaxLogins = 1 MaxLost = 1
  AtFirst <- Few Mine = {1, 2, 4} PageSize = 2 MaxMade = 5 MaxGone = 1 MaxLists = 2
  Pulled = {"s", "t"} Artifacts = {"summary", "transcript"} Shared = {"slides"} Recorded = {"t"} Pullers = {p1, p2}
  MaxPulls = 3 MaxTroubles = 2 Nowhere = Nowhere Nobody = Nobody NoOne = NoOne
SPECIFICATION LibrarySpec
SYMMETRY Alike
INVARIANTS NothingIsSkipped OnePairPerLogin OpensWhole
CHECK_DEADLOCK FALSE
