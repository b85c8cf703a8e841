SPECIFICATION CallSpec
CONSTANTS
  None = None
  Malformed = Malformed
  Segments <- MCSegments
  Requests <- MCRequests
  Apis <- MCApis
  Nodes <- MCNodes
  Leaves <- MCLeaves
  Asks <- MCAsks
  Base <- MCBase
INVARIANTS
  ReachesItsEndpoint
  ArgumentsArrive
  DocumentedAsCalled
  DocsAndOpenApiAgree
  EveryEndpointIsListed
  CheckedDocumentsResolve
