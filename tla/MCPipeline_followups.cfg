\* Every follow-up of one session, in which something or nothing is heard, with exceptions in
\* any step and audio clean-up.
CONSTANTS
  Sessions = {s1}
  Teams = {t1}
  SyncTeams = {t1}
  Handlers = {h1}
  Locks = {l1, l2, l3}
  LabelMaps = {m1}
  Silent = {s1}
  Clipping = {}
  Preset = {s1}
  SkipSync = FALSE
  DeleteAudio = TRUE
  Ops = {"sync", "auto_label", "label", "share"}
  Faults = {"raise"}
  NoSession = NoSession
  NoTeam = NoTeam
  NoMap = NoMap
  NoLock = NoLock
SPECIFICATION Spec
INVARIANTS ActiveIsWhatRuns PushedOnRequest
PROPERTIES UnattendedPushIsLabelled
