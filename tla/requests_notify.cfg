CONSTANTS
  c1 = c1
  c2 = c2
  c3 = c3
  phone = phone
  line = line
  initialise = initialise
  setting = setting
  getInfo = getInfo
  notify = notify
  status = status
  Client = {c1, c2, c3}
  Ipc = {notify}
  Object = {phone, line}
  ObjectOf <- TwoObjects
  FlowControlObeyed = {}
  MultipleCompletion = {notify}
  RePost = {notify}
  Slots = 2
  Handle = {1, 2, 3, 4}
  NoHandle = NoHandle
  MaxHold = 0
  Refuses = {"new", "reposted"}
  CancelRefused = TRUE
  LateCompletion = TRUE
  CancelsSubSession = FALSE
SPECIFICATION Spec
INVARIANTS EveryRequestAccountedFor RegisteredWhileWanted
PROPERTIES NoAnswerAfterClose
