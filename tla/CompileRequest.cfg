SPECIFICATION Spec
CONSTANTS
  GlobalFiles     <- MCGlobalFiles
  GooglePaths     <- MCGooglePaths
  WellKnownPaths  <- MCGooglePaths
  MsgBuilderNames <- MCMsgBuilderNames
  Requests        <- MCRequests
INVARIANTS
  TypeOK
  RegistryComplete
  RefusedForCause
  PanicsOnlyAsKnown
  FollowsExpressions
  NothingDropped
  InferredBeforeUse
  BuildersTyped
  ShakenIsClosed
  ImportsIndependentOfOrder
  CompiledValidates
  RenderedLegacy
