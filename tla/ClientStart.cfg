SPECIFICATION MCSpec
CONSTANTS
  Prime = 5
  Gen = 2
  Radix = 3
  Width = 2
  MaxDraws = 2
  Block = 2
  Plain <- MCPlain
  MaxKeys = 2
  MaxGames = 2
  Caller = {site, tool}
  User <- MCUser
  Password = {first, second}
  FirstUin = 3
SYMMETRY MCSymmetry
INVARIANTS SealOpens OriginalKept ResumedIsPatched ArmedIsWatched AccountsWhole LoginsRight
CHECK_DEADLOCK FALSE
