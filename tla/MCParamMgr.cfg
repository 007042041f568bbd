SPECIFICATION FairSpec
CONSTANTS
  N = 2
  Strings = {2}
  Value = {v0, v1}
  Default = v1
  Zero = v0
  Absent = Absent
INVARIANTS WriteScheduled UnstoredIsFlagged ResetLasts
PROPERTIES PendingIsWritten
