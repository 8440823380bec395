CONSTANTS
  text = text
  push = push
  junk = junk
  client = client
  wap = wap
  port = port
  t1 = t1
  t2 = t2
  None = None
  Parts <- TwoPartText
  Observer = {client, wap}
  RecvAny = client
  PortOf <- PushToPort
  Stamp = {t1, t2}
  MaxComplete = 0
  Msg = {text, push}
  Discarded = {}
  Confirming = {client}
  Unserved = {}
  Fault = {}
SPECIFICATION Spec
CHECK_DEADLOCK FALSE
INVARIANTS ReceptionGoesOn
