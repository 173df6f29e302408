CONSTANTS
  InSize = 3
  Terms <- MCTerms
  MaxBytes = 8
  MaxWant = 4
  OutSize = 4
  BlockSize = 2
  StartPoints <- MCStartPoints
  WireSize = 2
  MaxWrite = 4
  MaxOffered = 8
  Handles = {"g", "h"}
  Addresses = {"a1", "a2", "a3"}
  Chars = {"s", "q"}
  MaxLen = 3
  MinLen = 2
  CacheSize = 1
  AnyQuotes = FALSE
  Nodes = {"x", "y", "z"}
  Tags = {1, 2, 3}
  FlagSets <- MCFlagSets
  Block = 8
  Field = 2
  WideField = 4
  Word = 128
  Kinds = {"md5", "sha1", "sha256", "sha512", "whirl", "jh"}
  MaxMessage = 26
  MaxUpdate = 18
  Lines <- MCLines
  Separators <- MCSeparators
  TokenFlags <- MCTokenFlags
  Subjects <- MCSubjects
  Patterns <- MCPatterns
  FileModes = {"rw", "append", "mmap"}
  MaxFile = 3
  FileBuff = 2
  Mixes = FALSE
  Sortings <- MCSortings
  Sought = {1, 2, 3, 4, 5, 6, 7, 8, 9, 10, 11}
  NearEnough = 3
  RewindBy = 2
  Parts = 4
  Openers = {"p", "q"}
  Configs <- MCConfigs
  MaxRecords = 2
  Letters = {"a", "~"}
  MaxTyped = 2
  TextFlags = {"plain", "hide", "stars", "textstars"}
  MaxLine = 3
  Columns = 4
  PromptLen = 1
  MaxItems = 4
  MaxHigh = 3
  TermTexts <- MCTermTexts
  CodePoints = {0, 63, 64, 127, 255, 1024, 2047, 4096, 8217, 12544, 65280, 66000}
  Wide = 4
  Levels = {0, 1, 2, 3}
SPECIFICATION Spec
INVARIANTS
  LibraryTypeOK
  ResultsTrue
  WritesAll
  DataTrue
  ScansExactly
  OpenKeepsFile
  TerminalTrue
PROPERTIES
  CallsEnd
  InputIsChannel
  FileIsFile
  NeverEmptiesLocked
CHECK_DEADLOCK FALSE
