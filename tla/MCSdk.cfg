SPECIFICATION MCSpec
CONSTANTS
  k = k  c1 = c1  c2 = c2  get = get  post = post  other = other
  None = None
  Keys = {k}
  MaxStarts = 3
  MaxStops = 1
  Clients = {c1, c2}
  KeyOf <- MCKeyOf
  Calls = {get, post, other}
  ClientOf <- MCClientOf
  Method <- MCMethod
  Retries = {0, 1}
CHECK_DEADLOCK FALSE
INVARIANTS OneShared NoneLeft AtMostOnce
PROPERTY AllSettle
