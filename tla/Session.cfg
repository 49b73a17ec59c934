\* One connection, all sixteen operations, three user types; lists of up to two records, one surplus.
CONSTANTS
  MaxRecords = 2
  MaxSurplus = 1
  MaxUnread = 1
SPECIFICATION LiveSpec
INVARIANTS SessionInv Agreement NeverRefused RequestsAligned AnswersAligned ReportsAreTrue
PROPERTIES RequestsEnd ProcessesEnd
