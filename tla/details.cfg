\* Two edits of a style, of every type of field beside another one.
CONSTANTS
  Plays <- EachWithProvider
  Sent <- Texts
  Asked = {"absent", "-1", "1"}
  MaxEdits = 2
SPECIFICATION Spec
INVARIANTS EditsKept QuietDates
PROPERTY SkuFollows
CHECK_DEADLOCK FALSE
