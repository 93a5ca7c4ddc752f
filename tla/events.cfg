SPECIFICATION MCSpec
CONSTANTS
  w1 = w1
  w2 = w2
  other = other
  Wakes <- MCWakes
  Others <- MCOthers
  MaxPublished = 2
  WakeFaults = {"deadline", "store", "disable"}
  produce = produce
  review = review
  publish = publish
  Jobs <- MCJobs
  NextOf <- MCNextOf
  Accidents = 2
  Starts = 2
  Faults = {"throw", "manual", "deadline", "stop"}
INVARIANTS
  ItemNotForgotten
PROPERTIES
  WakesDeliver
  TickDelivers
  NoTickAfterStop
  Cascades
  PickedUp
CHECK_DEADLOCK FALSE
