\* Three results, any number of sessions, all resuming or in any mode, each ending
\* normally or in a crash that loses unsynced lines and may or may not cut one.
SPECIFICATION Spec
CONSTANTS
  NResults = 3
  MaxLines = 5
INVARIANTS ResumedFileIsWhole RecordedStaysRecorded
