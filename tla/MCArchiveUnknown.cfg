CONSTANTS
  Base = 32
  Modulus = 2048
  Longest = 8
  Unset = unset
  Tags <- MCTags
  TypeOf <- MCTypes
  ValuesOf <- MCValuesOf
  InnerTag = 1
  MaxFields = 2
SPECIFICATION ArchiveSpec
INVARIANT UnknownSkipped
CHECK_DEADLOCK FALSE
