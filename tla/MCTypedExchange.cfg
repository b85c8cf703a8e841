SPECIFICATION Spec
CONSTANTS
  None = None
  Tokens <- MCTokens
  Malformed = Malformed
  Endpoints <- MCEndpoints
  Accepts <- MCAccepts
  ContentTypes <- MCContentTypes
  ErrorStatuses = {404, 500}
INVARIANTS
  SendsWhatIsPreferred CallerGetsWhatHandlerReturned
  OwnRequestIsServed AcceptCheckSuffices BodyIsReadAsTyped
CHECK_DEADLOCK FALSE
