CONSTANTS
  Numeral <- MCNumeral
  TooBig = {"70000"}
  Lower <- MCLower
  NameOrder <- MCNames
  UrlTexts <- MCUrlTexts
  UrlCalls = 5
  Messages = {h1, h2}
  Inputs <- MCInputs
  HttpCalls = 3
  Buffers = {b1, b2}
  BlockSize = 4
  Header = 1
  BufferCalls = 5
  Objects = {o1, o2}
  Keys = {k1}
  ObjectCalls = 4
  Letters <- MCLetters
  CharOrder <- MCCharOrder
  IniFiles <- MCIniFiles
  IniNames <- MCIniNames
  IniValues <- MCIniValues
  IniCalls = 3
  TypeSizes = {1, 2}
  Data <- MCData
  Separators = {"SP", "-"}
  VersionTexts <- MCVersionTexts
  VersionParts <- MCVersionParts
  AtomicThreads = {t1, t2}
  Half = 2
  Offset = 3
  NewValue = 2
  Expected = 1
  Functor <- MCFunctor
  Item <- MCItem
  MaxItems = 3
  MaxEnds = 3
  Base = 32
  Modulus = 2048
  Longest = 8
  Unset = unset
  Tags <- MCTags
  TypeOf <- MCTypes
  ValuesOf <- MCValuesOf
  InnerTag = 1
  MaxFields = 2
SYMMETRY Symmetry
SPECIFICATION Spec
INVARIANTS
  PiecesAgree StrReadsBack UrlReadsBack BuffersHold FormsReadBack
  SaxEvents TreeReadsBack FieldsArrive VarintsExact
PROPERTIES MessagesApart CopiesAreDeep CallsAreAtomic RoundsAdvance
CHECK_DEADLOCK FALSE
