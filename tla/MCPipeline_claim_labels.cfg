\* A move comes between the check and the lock of a label request.
CONSTANTS
  Sessions = {s1}
  Teams = {t1, t2}
  SyncTeams = {t1, t2}
  Handlers = {h1, h2}
  Locks = {l1, l2, l3}
  LabelMaps = {}
  Silent = {}
  Clipping = {}
  Preset = {}
  SkipSync = FALSE
  DeleteAudio = FALSE
  Ops = {"label", "move"}
  Faults = {}
  NoSession = NoSession
  NoTeam = NoTeam
  NoMap = NoMap
  NoLock = NoLock
SPECIFICATION Spec
INVARIANTS LabelsAgainstOwnTeam
