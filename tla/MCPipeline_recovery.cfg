\* Safety and liveness of one session with crashes, exceptions and deletions.
CONSTANTS
  Sessions = {s1}
  Teams = {t1}
  SyncTeams = {t1}
  Handlers = {h1}
  Locks = {l1, l2}
  LabelMaps = {}
  Silent = {}
  Clipping = {}
  Preset = {s1}
  SkipSync = FALSE
  DeleteAudio = FALSE
  Ops = {"auto_label", "retry_summary", "label", "delete"}
  Faults = {"crash", "raise"}
  NoSession = NoSession
  NoTeam = NoTeam
  NoMap = NoMap
  NoLock = NoLock
SPECIFICATION FairSpec
INVARIANTS BusyIsDriven
PROPERTIES ImplementsLifecycle EverySessionSettles EveryTaskEnds
