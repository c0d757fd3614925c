\* One session's folder: label requests, a move and follow-ups around the shim;
\* a step under the watchdog; two clients that send attachments; three uploads,
\* one of each kind, with their retries.
CONSTANTS
  h1 = h1 h2 = h2 m1 = m1
  l1 = l1 l2 = l2 l3 = l3 l4 = l4
  c1 = c1 c2 = c2
  Labelers = {h1, h2}
  Movers = {m1}
  Worker = Worker
  Locks = {l1, l2, l3, l4}
  Nobody = Nobody
  NoLock = NoLock
  Budget = 7 Window = 2 MaxPoll = 2 Epsilon = 2
  Clients = {c1, c2}
  Docs <- Staged
  Retries <- Patient
  CueNames = {"cue"}
  MaxCount = 2 MaxFile = 2 MaxTotal = 3
  MaxTroubles = 1
  u1 = u1 u2 = u2 u3 = u3
  Uploads = {u1, u2, u3}
  Kind <- OneOfEach
  MaxAttempts = 3 Patience = 2 MaxFailures = 2
  Scenes = {"shim", "step", "attachments", "arrival"}
SPECIFICATION FolderSpec
INVARIANTS PipelineKeepsItsShim SparesTheWorking StuckEnds AllOrNothing OnePerUpload
PROPERTY ProcessedKeepsItsShim
\* The step ends, every client sends once, and uploads are not retried for ever.
CHECK_DEADLOCK FALSE
