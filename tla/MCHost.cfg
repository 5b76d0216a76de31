SPECIFICATION Spec
CONSTANTS
  t1 = t1
  t2 = t2
  n1 = n1
  f1 = f1
  v1 = v1
  v2 = v2
  none = none
  Procs <- MCProcs
  TunnelIDs <- MCTunnelIDs
  TunnelNames <- MCNames
  CredFiles <- MCCredFiles
  Root = FALSE
  NoTunnel <- none
  MaxVersion = 3
  MaxRetries = 1
  DiagRuns <- MCRuns
  RouteProcs <- MCRouteProcs
  RouteIDs <- MCRouteIDs
  VnetIDs <- MCVnetIDs
  VnetNames <- MCVnetNames
  Networks <- MCNetworks
  PerPage = 1
  Unset <- none
  Indexes = {0, 1}
  FlagSets <- MCFlagSets
  Interfaces <- MCInterfaces
  AccountHash = 50
  Percentages = {0, 50, 51}
  Sockets = {"s1", "s2"}
  LocalResolver = {"r1", "r2"}
SYMMETRY Symmetry
INVARIANTS
  CredentialsKept
  ServiceReported
  BinaryRecoverable
  SuggestionJustified
  CollectedIsRemoved
  OptionsAgree
PROPERTY
  DeletedIsTheOnlyOne
CHECK_DEADLOCK FALSE
