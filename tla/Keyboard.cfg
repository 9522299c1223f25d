\* A 3-byte kbd_buf (2 characters), up to 8 key events of eight keys, one reader: enough to wrap the ring, fill it and drop.
CONSTANTS
  null = null
  NULL <- null
  BufSize = 3
  Keys <- MCKeys
  MaxEvents = 8
SPECIFICATION Spec
INVARIANT TypeOK
PROPERTY ImplementsKeyboardBuffer
PROPERTY TypedAsKeymap
PROPERTY BufferDrains
