\* Exact copies and every slip, of the app's texts and of versioned ones.
SPECIFICATION Spec
CONSTANTS
  Programs <- MCPrograms
  Versions <- MCVersions
  WitnessPrograms <- MCWitnessPrograms
  Characters <- MCCharacters
INVARIANTS
  EncodesWhatIsProper
  ExactCopyReadsBack
  BadCopyRefused
  VersionedLengthKept
  CoinsAreNamedInTheirText
  ShownAddressIsTheTests
CHECK_DEADLOCK FALSE
