SPECIFICATION Spec
CONSTANTS
  MaxInputs = 4
  Faults = {"report"}
INVARIANTS
  ReportsAreIndependent
  FinalReportIsComplete
  PageInOrder
