SPECIFICATION MCSpec
CONSTANTS
  Tasks = {1}
  Required = 2
  VerifierWindow = 1
  MaxPosted = 3
  Slots = {1, 2}
  MaxStops = 1
  MaxErrors = 1
  Findings <- MCFindings
  Reported <- MCReported
  MaxFindings = 2
  Thresholds = {70, 80, 90}
  Models = {"standard", "defi_native"}
  Audits = {1, 2}
  Links = {0, 1}
  Backgrounds <- MCBackgrounds
  MaxRounds = 4
  MaxBlock = 20
  Enabled = {"audit"}
  TaskTypes = {"audit", "other"}
  Earlier = 2
  RouterWindow = 1
  MaxRecords = 1
  MaxTasks = 3
  MaxEvents = 2
  MaxRestarts = 1
INVARIANTS RecordedVoteCast NothingOverlooked ApprovedKnowingly RecordsTrue NeverTooOld
PROPERTIES PendingHandled BetterNeverRiskier
CHECK_DEADLOCK FALSE
