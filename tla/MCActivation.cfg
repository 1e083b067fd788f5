SPECIFICATION FairActivationSpec
CONSTANTS
  MaxFaults = 2
  OrphanFaults = 1
INVARIANT TypeOK
INVARIANT TerminalsTruthful
INVARIANT IndexTruthful
PROPERTY TimeNeverRewound
INVARIANT RolesRunOnce
PROPERTY Settles
CHECK_DEADLOCK FALSE
