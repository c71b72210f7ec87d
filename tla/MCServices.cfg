SPECIFICATION MCFairSpec
CONSTANTS
  Clients = {d1, d2}
  Local = zoneguard_local
  MaxSeen = 2
  ClockMod = 2
  MaxTime = 0
  MaxWait = 0
  allow_anonymous = TRUE
  MaxStarts = 2
  MaxConnects = 2
  MaxPublishes = 2
INVARIANTS BrokerIsKnown FailedIsNotHandled HeardInOrder 
PROPERTIES AnswersRight ServicesAnswer  ResentIsHanded
CHECK_DEADLOCK FALSE
