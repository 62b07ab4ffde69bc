SPECIFICATION NetworkSpec
CONSTANTS
  Datagrams = 4
  Descriptions <- FourDescriptions
  Media <- ThreeMedia
  Durations = {0, 10}
INVARIANTS
  ReceivedIsParsed
  AtMostOneLate
  AnswersMatch
PROPERTIES
  ServerTold
  NetworkEnds
\* A session is closed, a stream has ended, or start waits for ever for a track the
\* description does not have.
CHECK_DEADLOCK FALSE
