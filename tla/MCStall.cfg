CONSTANTS
  goodPassword = goodPassword
  Client = {a, b}
  NoClient = NoClient
  Fd <- MCFd2
  Listener = 0
  Backlog = 1
  MaxEvents = 2
  Cap = 1
  User = {alice, bob}
  EmptyName = EmptyName
  LoginOnce = TRUE
  Password = {goodPassword}
  Size <- MCSize
  Chars <- MCChars
  MaxChats = 2
  ChatSize <- MCShort
  Offered = {"Register", "Login", "SendChat"}
  MayHangUp = FALSE
  MayStop = FALSE
SPECIFICATION FairSpec
PROPERTY RequestsAnswered
