CONSTANTS
  text = text
  push = push
  junk = junk
  client = client
  wap = wap
  port = port
  t1 = t1
  t2 = t2
  None = None
  Parts <- TwoPartText
  Observer = {client, wap}
  RecvAny = client
  PortOf <- TextToPort
  Stamp = {t1, t2}
  MaxComplete = 0
  Msg = {text, junk}
  Discarded = {junk}
  Confirming = {client}
  Unserved = {wap}
  Fault = {"ack_error", "ack_timeout", "log_error", "mode_error", "resume_error", "receive_error",
           "not_supported", "disk_full", "no_memory", "client_memory", "purge", "notify_error",
           "power", "offline", "crash", "close"}
SPECIFICATION Spec
SYMMETRY Stamps
INVARIANTS NoLoss OneOpenEntry
