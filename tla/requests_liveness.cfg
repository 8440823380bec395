CONSTANTS
  c1 = c1
  c2 = c2
  c3 = c3
  phone = phone
  line = line
  initialise = initialise
  setting = setting
  getInfo = getInfo
  notify = notify
  status = status
  Client = {c1, c2}
  Ipc = {initialise, notify}
  Object = {phone}
  ObjectOf <- OneObject
  FlowControlObeyed = {initialise}
  MultipleCompletion = {initialise, notify}
  RePost = {notify}
  Slots = 1
  Handle = {1, 2, 3, 4}
  NoHandle = NoHandle
  MaxHold = 1
  Refuses = {}
  CancelRefused = FALSE
  LateCompletion = FALSE
  CancelsSubSession = FALSE
SPECIFICATION FairSpec
INVARIANTS EveryRequestAccountedFor OneMultiplePerObject CancelReachesTsy
PROPERTIES RequestsAnswered CancelsAnswered ClosedLeavesNoEntry
