CONSTANTS
  MaxQHistory = 2
  MaxPhraseHistory = 2
  MaxTries = 2
  Dices <- MCDices
  GroupFreq <- MCGroupFreq
  ListsOf <- MCListsOf
  Plain <- MCPlain
  Count <- MCCount
SPECIFICATION MakerFairSpec
INVARIANTS MakerTypeOK
PROPERTIES KeepsPromise AlwaysAsks
