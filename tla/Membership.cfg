SPECIFICATION MCSpec
CONSTANTS
  Computers = {1, 2, 3}
  Ids = {11, 12, 13}
  NoId = 0
  Plans <- SafePlans
  MatrixIds = {1, 2, 3}
  NoNode = 0
  Counts = {0, 1}
  MaxNews = 2
INVARIANTS
  NeededIsKept
  MembersAgree
  CommandsExecuted
  FilesAgree
  PositionsMeanMembers
PROPERTY
  TableImplemented
CHECK_DEADLOCK FALSE
