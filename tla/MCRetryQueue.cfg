SPECIFICATION Spec
CONSTANTS
  Start = 100
  Deadline = 4000
  InitialLink = "up"
  MaxLedger = 5
  Instants = {99, 100, 349, 3850, 3900, 4000}
  SignalSet = {"continue"}
  LinkSet = {"unchanged", "became_up", "became_down"}
  AdmissionSet = {"admit", "reject_quota"}
  Batches <- MCBatches
INVARIANTS
  ReplayExact
  AttemptsEarned
PROPERTIES
  ScheduleRefined
