SPECIFICATION Spec
CONSTANTS
  Chat = Chat
  Mail = Mail
  t1 = t1
  t2 = t2
  Channels = {Chat, Mail}
  Keys = {1, 2}
  Messages <- MCEach
  Paced = {Chat}
  Ticks = {t1, t2}
  Batch = 2
  MaxAttempts = 3
  MaxRejected = 2
  MaxBackoff = 2
  RetryAfter = {1}
  MaxMishaps = 1
PROPERTIES HealthyChannelIsTold
CHECK_DEADLOCK FALSE
