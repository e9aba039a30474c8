SPECIFICATION Spec
CONSTANTS
  t1 = t1  t2 = t2
  v1 = v1  v2 = v2  v3 = v3
  b1 = b1  b2 = b2
  p1 = p1  p2 = p2
  s1 = s1  s2 = s2
  q1 = q1  q2 = q2  a1 = a1  none = none
  h1 = h1  h2 = h2
  Thread = {t1, t2}
  Workload <- Works
  Version = {v1, v2, v3}
  Helper = "helper"
  MaxVersion = 3
  Open = {"discovered", "applied"}
  Terminal = {"rejected"}
  Batch = {b1, b2}
  Portal = {p1, p2}
  Listed <- Lists
  Question = {q1, q2}
  Answer = {a1}
  NoAnswer = none
  BridgeSettings = s1
  Settings = {s1, s2}
  Maximum <- Maxima
  PostRetries = 1
  Attempts = 2
  Host = {h1, h2}
  Public = {h1}
  Allowed <- CallersAllow
  Spacing = 1
  MaxRedirects = 1
  HttpRetries = 1
  MaxClock = 2
  MaxMoves = 1
  MaxCrashes = 1
SYMMETRY Symmetric
INVARIANTS TypeOK OneActive FilesMatchRows EventsTell ReceiptsTrue AnswersKept IndexTold PolicyKept PermitsHeld
CHECK_DEADLOCK FALSE
