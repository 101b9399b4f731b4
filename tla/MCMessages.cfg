CONSTANTS
  Base = 16
  Width = 2
  BufferSize = 10
  MaxSize = 40
  Text <- MCText
  MaxStrings = 2
SPECIFICATION MessagesSpec
INVARIANTS
  RoundTrip
  FitsExactly
  RefusedIsUnreadable
  Canonical
