\* Two runs in one directory, each with its rows, its refinement call by call, its files
\* and its exit code, stopped anywhere, and packaging at any time.
SPECIFICATION Spec
CONSTANTS
  Canonical <- MCCanonical
  Recipient <- MCRecipient
  StrictKey <- MCStrictKey
  Splits <- MCSplits
  Profiles <- MCProfiles
  Answers <- MCAnswers
  Texts <- MCTexts
  MaxRuns = 2
INVARIANTS
  DirectoryIsTelling
  OnlyAnotherRunSpoilsTheArchive
PROPERTIES
  DeliversOnlyAnswers
  ViewsDecide
CHECK_DEADLOCK FALSE
