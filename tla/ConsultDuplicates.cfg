CONSTANTS
  Question = {q1}
  NoQuestion = NoQuestion
  Handler = {h1, h2, h3}
  NoHandler = NoHandler
  Reply = {r1, r2}
  Failure = r1
  NoReply = NoReply
  AskTime = 1
  Lease = 2
  Attempts = 2
  MaxStalls = 1
  MaxFaults = 1
SPECIFICATION FairSpec
INVARIANT TypeOK
INVARIANT OneAsk
PROPERTY AnswersOnce
PROPERTY QuestionsAnswered
