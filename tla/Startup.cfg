CONSTANTS
  Words <- MCWords
  Ascii <- MCAscii
  Numerals <- MCNumerals
  Addresses <- MCAddresses
  MaxU32 = 4000000
  MaxU64 = 5000000
  Strangers = {"GRPC_TYPO"}
  Unrelated = {"LANG"}
  Environments <- TwoSet
  Arguments <- MCArguments
SPECIFICATION StartupSpec
INVARIANTS
  ProtectionIsNeverDropped
  StrictCatchesTypos
  UnreadableIsRefused
CHECK_DEADLOCK FALSE
