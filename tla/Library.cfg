CONSTANTS
  SMP_NUM = 1
  BUFFER_SIZE = 3
  OutputLimit = 4
  InputLimit = 3
  Contexts = {TRUE, FALSE}
  RBTREE_NODE_POOL_NUM = 7
  Keys = {1, 2, 3, 4, 5, 6}
  Repeated = {4}
  Items <- MCItems
  ListNodes = {n1, n2, n3, n4}
  NoNode = NoNode
  QueueNodes = {q1, q2, q3, q4}
  NoQueueNode = NoQueueNode
  Sentinel1 = Sentinel1
  Sentinel2 = Sentinel2
  Sizes = {5, 9}
  WordSize = 64
  MemSize = 4
  Bytes = {0, 1, 2}
  Chars <- MCChars
  Formats <- MCFormats
  BufSizes = {1, 4, 20}
  LongBits = 8
  UintBits = 7
  Ints <- MCInts
  Unsigneds = {0, 10, 130}
  Strings <- MCStrings
SPECIFICATION LibrarySpec
VIEW LibraryView
INVARIANTS
  TreeSound
  ListAgrees
  QueueAgrees
  BitmapSearches
  StringsAgree
  PrintfInBounds
  PrintfLikeC
  CharactersInOrder
  StaysEnabled
PROPERTIES
  ImplementsOrderedMap
  OperationsEnd
  ReceiverServed
CHECK_DEADLOCK FALSE
