SPECIFICATION PollSpec
CONSTANTS
    Reports <- MCReports
    IntegerValue <- MCIntegerValue
    MaxPolls = 2
    MaxChanges = 1
INVARIANT RejectionsHandled
