CONSTANTS
  goodPassword = goodPassword
  Client = {a, b}
  NoClient = NoClient
  Fd <- MCFd2
  Listener = 0
  Backlog = 1
  MaxEvents = 2
  Cap = 2
  User = {alice, bob}
  EmptyName = EmptyName
  LoginOnce = TRUE
  Password = {goodPassword}
  Size <- MCSizes
  Chars <- MCChars
  MaxChats = 2
  ChatSize <- MCSecondLong
  Offered = {"Register", "Login", "SendChat"}
  MayHangUp = TRUE
  MayStop = FALSE
SYMMETRY InterchangeableClients
SPECIFICATION Spec
INVARIANTS
  TypeOK
  SessionsOwnDescriptors
  EventsAreFresh
  NoLostWakeup
  ResponseMatchesRequest
  ChatsAreAuthentic
  ChatsInOrder
  ChatsReachRecipients
  SelfChatComesFirst
  LoginsEndUnlessReset
