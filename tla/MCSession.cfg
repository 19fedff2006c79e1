CONSTANTS
  Browser = {b1, b2}
  Https = {b1}
  Config <- MCConfig
  None = None
  Keep = Keep
  MaxLogin = 2
  MaxInFlight = 2

SPECIFICATION Spec
INVARIANTS
  SessionIsOwnLogin
  LogoutEndsPendingLogins
  SignedOutStaysOut
