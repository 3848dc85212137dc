SPECIFICATION EntrySpec
CONSTANTS
  ByteValues = 6
  Magic <- TwoByteMagic
  MAX_PAYLOAD_SIZE = 0
  Newline <- NewlineBytes
  Erase <- EraseBytes
  Text <- TextBytes
  Space = 3
  HELLO = 0
  Words <- CommandWords
  MAX_LINE_LENGTH = 2
  ENTRY_IDLE_POLLS = 2
  MaxTyped = 4
INVARIANTS
  LineIsWhatWasTyped
PROPERTIES
  WindowEnds
