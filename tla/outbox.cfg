SPECIFICATION Spec
CONSTANTS
  Chat = Chat
  Mail = Mail
  t1 = t1
  t2 = t2
  Channels = {Chat}
  Keys = {1, 2}
  Messages <- MCTwo
  Paced = {Chat}
  Ticks = {t1, t2}
  Batch = 2
  MaxAttempts = 3
  MaxRejected = 2
  MaxBackoff = 2
  RetryAfter = {1}
  MaxMishaps = 1
INVARIANTS TypeOK AnnouncedOnce SentMeansHeard GivenUpForCause
PROPERTIES EveryMessageSettles
CHECK_DEADLOCK FALSE
