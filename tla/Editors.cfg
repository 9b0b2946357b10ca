CONSTANTS
  a = a
  Blank = Blank
  Name <- MCName
  Section <- MCSection
  Start <- MCStart
  MaxNumber = 2
  ZeroRow = {"actions"}
  MaxCommit = 2
  MaxApps = 1
SPECIFICATION Spec
INVARIANTS ListsOfOneMoment
PROPERTIES EditsLostOnlyByConsent SaveReplacesWhatWasShown OneRowPerNewRecord DeleteRemovesTheNamedRow
CHECK_DEADLOCK FALSE
