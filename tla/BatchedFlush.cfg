SPECIFICATION BatchSpec
CONSTANTS
  s1 = s1
  s2 = s2
  Senders = {s1, s2}
  MaxPerSender = 2
  MaxFailures = 1
  MayClose = TRUE
INVARIANT ExactlyOnce
PROPERTY EventuallyPosted
CHECK_DEADLOCK FALSE
