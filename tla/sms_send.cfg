CONSTANTS
  a = a
  b = b
  None = None
  Client = {a, b}
  Size <- OneLong
  Known = {a}
  MaxTries = 2
  Fault = {"bearer_error", "no_log", "log_error", "no_memory", "send_error",
           "disk_full", "timeout", "cancel", "purge", "power"}
SPECIFICATION FairSpec
CHECK_DEADLOCK FALSE
INVARIANTS SentMeansSent NothingSentTwice WorksForFirst
PROPERTIES SendsAnswered
