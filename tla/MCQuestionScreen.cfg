CONSTANTS
  Wrap = 12
  Second = 2
  CountDownPeriod = 4
  EditTimeOut = 3
  Periods = {2, 3}
  PerLanguages = {1}
  Languages = {"random", "sequence"}
  Longest = 7
SPECIFICATION FairSpec
INVARIANTS TypeOK NeverStandsStill ScreenGivenBack
PROPERTIES HoldsItsQuestion AnswersOnTime KeepsAsking
