CONSTANTS
  Jobs <- MCJobs
  MaxErrors = 1
  NoModel = NoModel
SPECIFICATION TPSpec
INVARIANTS TPTypeOK SlicesTile GemmsFitSlices CollectivesAgree FreedExactlyOnce
PROPERTIES ReturnsTogether JobCompletes
CHECK_DEADLOCK FALSE
