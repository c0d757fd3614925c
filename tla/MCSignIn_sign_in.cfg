\* One kind of caller at a time, two requests at once; a handshake through two
\* relays with two signers near.
CONSTANTS
  r1 = r1 r2 = r2 w1 = w1 w2 = w2
  Callers = {"home", "x", "y"} Capacity = 2 Window = 2 MaxBuckets = 1
  Threads = {r1, r2} Events = {"e"} Codes = {"c"} Handles = {"alice", "bob"}
  Scenes <- ScenesAlone
  MaxAge = 2 Ahead = 1 CodeTtl = 2 CreatedAt <- SignedAt
  MaxNow = 3 MaxSessions = 1 MaxChanges = 1 MaxCrashes = 1
  None = None
  Login = "e" Signers = {"s1", "s2"} Attempts = 2 Rounds = 3 NoSigner = "nobody"
  Relays = {w1, w2} MaxDrops = 1 Copies = 2 MaxSaid = 3
SPECIFICATION NostrSignInSpec
SYMMETRY Alike
INVARIANTS EvictionGrantsNothing AcceptedOncePerWindow ChangesEndSessions CodeBuysOneToken SignedByTheSigner
CHECK_DEADLOCK FALSE
