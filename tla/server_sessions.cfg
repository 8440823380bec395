CONSTANTS
  s1 = s1
  s2 = s2
  s3 = s3
  phone = phone
  call = call
  request = request
  notify = notify
  NoSession = NoSession
  Session = {s1, s2, s3}
  Object = {phone, call}
  ObjectOf <- PhoneAndCall
  Above <- Owners
  CallObject = {call}
  Ipc = {request, notify}
  MultipleCompletion = {notify}
  RePost = {notify}
  LateCompletion = FALSE
SPECIFICATION FairSpec
CHECK_DEADLOCK FALSE
INVARIANTS SessionCountExact ReferencesExact StopsUnused
PROPERTIES DummyReleased ServerStops
