CONSTANTS
  User <- MCUser
  Password <- MCPassword
  Size <- MCSize
  Chars <- MCChars
  Fd <- MCFd
  Online = {alice, bob}
  EmptyName = EmptyName
  LoginOnce = FALSE
SPECIFICATION TablesSpec
INVARIANTS
  NamedIffAuthenticated
  AcceptedPasswordMatches
  StoredAccountsMeetPolicy
