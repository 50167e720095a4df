SPECIFICATION Spec
CONSTANTS
  t1 = t1
  t2 = t2
  m1 = m1
  m2 = m2
  Threads <- MCThreads
  Managers = {m1, m2}
  manager <- Private
  Queries <- Answers
  MaxAsked = 2
  MaxConnections = 3
CHECK_DEADLOCK FALSE
INVARIANTS AnswersOwnQuestion ThrowsOnlyIfRefused
