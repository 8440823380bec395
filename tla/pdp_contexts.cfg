CONSTANTS
  pdp1 = pdp1
  pdp2 = pdp2
  None = None
  Contexts = {pdp1, pdp2}
  Primary = pdp1
  MaxChanges = 1
SPECIFICATION Spec
CHECK_DEADLOCK FALSE
INVARIANTS DriverServesState
PROPERTIES AnswersAreTrue RequestsAnswered DeletionNoticed
