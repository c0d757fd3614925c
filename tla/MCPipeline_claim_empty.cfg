\* A transcription that fails leaves an empty transcript, and auto-label publishes it.
CONSTANTS
  Sessions = {s1}
  Teams = {t1}
  SyncTeams = {t1}
  Handlers = {h1}
  Locks = {l1, l2}
  LabelMaps = {}
  Silent = {s1}
  Clipping = {}
  Preset = {}
  SkipSync = FALSE
  DeleteAudio = FALSE
  Ops = {"auto_label"}
  Faults = {}
  NoSession = NoSession
  NoTeam = NoTeam
  NoMap = NoMap
  NoLock = NoLock
SPECIFICATION FairSpec
PROPERTIES EmptyIsNotPushed
