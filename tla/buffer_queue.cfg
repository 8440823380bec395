CONSTANTS
  v1 = v1
  v2 = v2
  v3 = v3
  Value = {v1, v2, v3}
  Slots = 3
SPECIFICATION Spec
PROPERTIES ImplementsQueue
