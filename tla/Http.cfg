SPECIFICATION HttpFairSpec
CONSTANTS
  Requests <- MCRequests
  Files <- MCFiles
  Ranges <- MCRanges
  Lengths <- MCLengths
  Opens = {TRUE, FALSE}
  Windows = {1, 2}
  MaxRequests = 3
INVARIANTS AnswersInOrder Framed
PROPERTIES Answered
CHECK_DEADLOCK FALSE
