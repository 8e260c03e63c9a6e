SPECIFICATION EditorSpec
CONSTANTS
  Chars = {"a", "b"}
  MaxChars = 3
  InputWidth = 3
  Widths = {1, 2, 3}
  Capacity = 2
INVARIANTS
  EditorTypeOK
  ShownIsRun
  RunsOnlyWhatIsShown
  HistoryReadsBack
