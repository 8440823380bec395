CONSTANTS
  c1 = c1
  c2 = c2
  c3 = c3
  phone = phone
  line = line
  initialise = initialise
  setting = setting
  getInfo = getInfo
  notify = notify
  status = status
  Client = {c1, c2, c3}
  Ipc = {initialise, setting}
  Object = {phone}
  ObjectOf <- OneObject
  FlowControlObeyed = {initialise, setting}
  MultipleCompletion = {initialise}
  RePost = {}
  Slots = 1
  Handle = {1, 2, 3, 4, 5, 6}
  NoHandle = NoHandle
  MaxHold = 1
  Refuses = {"new"}
  CancelRefused = FALSE
  LateCompletion = FALSE
  CancelsSubSession = TRUE
SPECIFICATION Spec
INVARIANTS UpcallFindsRequest FlowCountExact WaitingMeansSuspended ActiveIsWithTsy
PROPERTIES NoOvertaking KeepsContract
SYMMETRY ClientSymmetry
