SPECIFICATION FairSpec
CONSTANTS
  MaxAttempts = 2
  MaxHead = 2
  MaxDisturbed = 1
INVARIANTS
  TypeOK
  AttemptsBounded
  StallMeansTried
  FeedbackOnce
PROPERTIES
  FeedbackReturned
  NoSilentWait
