SPECIFICATION Spec
CONSTANTS
  Byte = {0, 1}
  kCheapPrepend = 2
  kInitialSize = 2
  ExtraSize = 3
  MaxChunk = 3
  MaxSize = 7
PROPERTIES ImplementsQueue EachCall
