SPECIFICATION Spec
CONSTANTS
  Own = 1
  Sent <- SentDef
  Requests <- RequestsDef
CHECK_DEADLOCK FALSE
INVARIANTS
  AnswerComplete
  AnswerVerifies
  AnswersWhatCame
  BufferFilled
  HalfSignedAnswered
