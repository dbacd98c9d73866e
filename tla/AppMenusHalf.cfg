SPECIFICATION Spec
CONSTANTS
  b1 = b1  b2 = b2  app = app  None = None  Blank = Blank
  Bars = {b1, b2}  Senders = {app}  Pids = {app}  Windows = {w}  AtFirst = {b1}
  SenderOf <- OneSender  PidOf <- OneProcess
  Contents = {x, y}  Manners <- AllManners
  MenuCount = 2  MaxCalls = 3  MaxEvents = 2
INVARIANTS
  RestShowsTheCache
CHECK_DEADLOCK FALSE
