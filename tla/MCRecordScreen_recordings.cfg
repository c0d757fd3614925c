\* One recording, two uploads at once, three things begun or broken.
CONSTANTS
  r1 = r1 r2 = r2 j1 = j1 j2 = j2 t1 = t1 t2 = t2
  Recs = {r1}
  Teams = {t1, t2}
  Jobs = {j1, j2}
  Attached = {r1}
  Trash = Trash None = None
  Ops = {"import","outbox","retry","cli","scribe","double"}
  Faults = {"crash", "recorder", "start", "stop", "compress", "reject", "expired", "lost", "attach"}
  MaxSent = 1 MaxBegun = 3
SPECIFICATION RecordSpec
SYMMETRY Symmetric
INVARIANTS UnsentIsShown
PROPERTIES NotMovedWhileWritten
CHECK_DEADLOCK FALSE
