SPECIFICATION Spec
CONSTANTS
  a = a
  b = b
  far = far
  x = x
  y = y
  Local = {a, b}
  Remote = {far}
  Channels = {x, y}
  Denied <- MCDenied
  MaxCalls = 5
  May <- MCMay
INVARIANTS CommittedOnly InOrderOnce DeliveredToSubscribers CommitConfirms
PROPERTY CallsReturn
CHECK_DEADLOCK FALSE
