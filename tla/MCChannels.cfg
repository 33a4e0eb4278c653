\* A message that starts a run, followed by one that changes the memory, decides on the
\* run, or is not allowed; two things go wrong.
SPECIFICATION LiveSpec
CONSTANTS
  None = None
  Messages = {1, 2}
  Conversations <- AllConversations
  MaxChunks = 2
  MaxFaults = 2
INVARIANTS NoBlindResend OutcomeHonest NoticeComplete ReplyIsCompletion
PROPERTIES MessageSettled ResultReturned
CHECK_DEADLOCK FALSE
