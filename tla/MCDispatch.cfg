SPECIFICATION FairSpec
CONSTANTS
  None = None
  Malformed = Malformed
  Segments <- MCSegments
  Requests <- MCRequests
  Apis <- MCApis
  Nodes <- MCNodes
  Leaves <- MCLeaves
  Written <- MCWritten
  RouterOf <- MCRouterOf
  ListOf <- MCListOf
  Merged <- MCMerged
INVARIANTS
  BodyUntouchedUntilCommit
  OneHandlerAnswers
  AnswersAsSpecified
  HandlerGetsItsArguments
  AuthPrecedesEverything
PROPERTIES
  LeafAnswersAsSpecified
  CommitIsFinal
  FlatAlternatives
  EveryRequestIsAnswered
