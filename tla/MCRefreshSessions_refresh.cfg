\* Two calls of a client and the operator's commands around one family.
CONSTANTS
  c1 = c1 c2 = c2 f1 = f1 f2 = f2
  Calls = {c1, c2}
  Sids = {f1}
  NoCall = NoCall NoSid = NoSid NoAgent = NoAgent
  AgentOf <- MCAgentOf
  Hz = 1
  Grace = 1
  Idle = 2
  Cap = 3
  Reload = 1
  MaxTime = 3
  MaxTokens = 3
  MaxBoots = 1
  Faults = {"crash", "lookup", "load"}
SPECIFICATION Spec
SYMMETRY Symmetric
INVARIANTS RevocationIsSeen DelistedIsOut
PROPERTIES ReplaysEndOnTime RetryIsForgiven ImplementsTokenChain
CHECK_DEADLOCK FALSE
