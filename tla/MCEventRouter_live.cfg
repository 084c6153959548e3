SPECIFICATION FairSpec
CONSTANTS
  p1 = p1
  p2 = p2
  Publishers = {p1, p2}
  a = a
  Classes = {a, own}
  own = own
  RouterClass = own
  QueueLen = 1
  TableSize = 2
  MaxEvents = 3
CHECK_DEADLOCK FALSE
INVARIANT TableLive
INVARIANT FewCancelsKept
PROPERTY PublishReturns
PROPERTY QueuedHandled
