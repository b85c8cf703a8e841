SPECIFICATION Spec
CONSTANTS
  None = None
  Tokens <- MCTokens
  Malformed = Malformed
  Endpoints <- MCVendorEndpoints
  Accepts <- MCAccepts
  ContentTypes <- MCContentTypes
  ErrorStatuses = {404, 500}
INVARIANTS
  OwnRequestIsServed
CHECK_DEADLOCK FALSE
