CONSTANTS
  Base = 16
  Width = 1
  BufferSize = 6
  MaxSize = 15
  Text <- MCText
  MaxStrings = 0
  Space = 0
  Keyword <- MCKeyword
  Inputs <- MCInputs
  Responses <- MCResponses
  Chats <- MCChats
  MaxInbox = 1
SPECIFICATION CLISpec
INVARIANT TypedIsReceived
PROPERTIES
  RequestsAreTyped
  QuitEndsRun
CHECK_DEADLOCK FALSE
