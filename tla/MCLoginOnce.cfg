CONSTANTS
  goodPassword = goodPassword
  Client = {a, b, c}
  NoClient = NoClient
  Fd <- MCFd2
  Listener = 0
  Backlog = 1
  MaxEvents = 1
  Cap = 1
  User = {alice, bob}
  EmptyName = EmptyName
  LoginOnce = TRUE
  Password = {goodPassword}
  Size <- MCSize
  Chars <- MCChars
  MaxChats = 1
  ChatSize <- MCShort
  Offered = {"Ping", "Other", "Register", "Login"}
  MayHangUp = TRUE
  MayStop = FALSE
SYMMETRY Interchangeable
SPECIFICATION Spec
INVARIANTS
  MapsAgree
  SingleLogin
  RefusalIsTruthful
PROPERTIES
  UsesSessionManager
  ImplementsDirectory
