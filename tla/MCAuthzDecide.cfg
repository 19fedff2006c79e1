CONSTANTS
  Request = {r1}
  Call <- MCCall
  Fqn <- MCFqn
  Subject = {"alice", "robot", "worker"}
  Id <- MCId
  Permission <- MCPermission
  ObjectType = {"project", "network", "cluster"}
  Allowlist = {"Login", "Health"}
  InternalFqn = {"InternalCheck", "InternalDisk"}
  NativeFqn = {"OperationGet", "OperationCancel", "Health"}
  GetFqn = {"Get"}
  Malformed = {"bad", "*"}
  Granted <- MCGranted
  CatalogFile <- MCCatalogFile
  OverrideFile <- MCOverrideFile
  None = None
  Anonymous = Anonymous
  MaxReload = 2
  AllowedFqn <- MCAllowedFqn
  InternalPath = {"InternalCheck"}
  OperationFqn = {"OperationGet", "OperationCancel"}
  CancelFqn = "OperationCancel"
  Backend = {"vpc", "vpcInternal", "compute", "computeInternal", "iam", "iamInternal", "geo"}
  Configured = {"vpc", "vpcInternal", "compute", "computeInternal", "iam", "iamInternal"}
  GrpcDomain <- MCGrpcDomain
  RestBackend <- MCRestBackend
  Identity <- MCIdentity
  Prefix <- MCPrefix
  Owner <- MCOwner

SPECIFICATION DispatchSpec
INVARIANTS
  AdmittedByARuleInForce
  DenyOverrideBinds
  GrantIsOnNamedResource
  HiddenStaysHidden
  OperationsAreOwn
  InternalIsInternal
