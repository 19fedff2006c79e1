CONSTANTS
  drainer = drainer
  other = other
  Identity = {drainer, other}
  Nobody = Nobody
  Backend = {iam, vpc}
  Critical = {iam}
  Config <- MCConfig
  MaxCalls = 1

SPECIFICATION ProcessSpec
INVARIANTS
  ServingIsValidated
  ReadyIsTrue
PROPERTY
  ExitsWhenStopped
