SPECIFICATION Spec
CONSTANTS
  s1 = s1
  s2 = s2
  p1 = p1
  w1 = w1
  Subscribers = {s1, s2}
  Publishers = {p1}
  Workers = {w1}
  Options <- Brokers
  Nobody = Nobody
INVARIANTS OnceInOrder
PROPERTIES Delivered NoLeakedSubscription ControlAnswers UnsubscribeReleases StopEnds
CHECK_DEADLOCK FALSE
