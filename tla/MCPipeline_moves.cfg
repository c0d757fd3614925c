\* Two request threads race each other and the worker over the lock of one session, which
\* an admin and the deletion of its team move without that lock.
CONSTANTS
  Sessions = {s1}
  Teams = {t1, t2}
  SyncTeams = {t1}
  Handlers = {h1, h2}
  Locks = {l1, l2, l3}
  LabelMaps = {}
  Silent = {}
  Clipping = {}
  Preset = {}
  SkipSync = FALSE
  DeleteAudio = FALSE
  Ops = {"label", "move", "admin_move", "delete_team"}
  Faults = {}
  NoSession = NoSession
  NoTeam = NoTeam
  NoMap = NoMap
  NoLock = NoLock
SPECIFICATION Spec
SYMMETRY Interchangeable
INVARIANTS OneWriterPerSession
PROPERTIES PushesToOwnTeam
