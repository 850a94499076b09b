\* Two concurrent calls and an event: every order of numbering, registering, sending,
\* answering and giving up, with the connection or the reader failing anywhere, against
\* the abstract service too.
CONSTANTS
  Calls = {c1, c2}
  MaxEvents = 1
SPECIFICATION FairSpec
INVARIANT RoutedToOwnCall
INVARIANT AnswerFindsItsCall
INVARIANT EventsPrecedeReply
PROPERTY RefinesService
PROPERTY Answered
CHECK_DEADLOCK FALSE
