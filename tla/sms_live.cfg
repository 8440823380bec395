CONSTANTS
  text = text
  push = push
  junk = junk
  client = client
  wap = wap
  port = port
  t1 = t1
  t2 = t2
  None = None
  Parts <- TwoPartText
  Observer = {client, port}
  RecvAny = client
  PortOf <- PushToSocket
  Stamp = {t1, t2}
  MaxComplete = 0
  Msg = {text, push}
  Discarded = {}
  Confirming = {client, port}
  Unserved = {}
  Fault = {"ack_error", "receive_error", "disk_full"}
SPECIFICATION FairSpec
CHECK_DEADLOCK FALSE
INVARIANTS ReceptionGoesOn
PROPERTIES MessagesRead
