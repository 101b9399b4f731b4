CONSTANTS
  goodPassword = goodPassword
  Client = {a, b}
  NoClient = NoClient
  Fd <- MCFd2
  Listener = 0
  Backlog = 1
  MaxEvents = 2
  Cap = 1
  User = {alice, bob}
  EmptyName = EmptyName
  LoginOnce = FALSE
  Password = {goodPassword}
  Size <- MCSize
  Chars <- MCChars
  MaxChats = 1
  ChatSize <- MCShort
  Offered = {"Register", "Login"}
  MayHangUp = TRUE
  MayStop = FALSE
SYMMETRY Interchangeable
SPECIFICATION Spec
INVARIANT RefusalIsTruthful
