CONSTANTS
  Nodes <- MCNodes
  Drawings <- MCDrawings
  NoNode = 0
  Edits <- MCEdits
SPECIFICATION FairSpec
INVARIANTS
  EveryPlan CompletePlan FieldsNest FieldIsBlock FitsEngine
PROPERTY PlanningEnds
CHECK_DEADLOCK FALSE
