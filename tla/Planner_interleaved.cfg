SPECIFICATION Spec
CONSTANTS
  p1 = p1
  p2 = p2
  f1 = f1
  nobody = nobody
  execute = execute
  replan = replan
  again = again
  Nobody <- nobody
  NoKey = "none"
  Planners <- TwoPlanners
  Founders <- OneFounder
  Proposals <- ThreeProposals
  ActionOf <- MCActionOf
  IntentOf <- MCIntentOf
  KeyOf <- MCKeyOf
  BudgetLimit = 2
  HintQuota = 1
  MaxRetries = 1
  MaxFormatRetries = 1
  Starts <- MCStarts
  MaxPhase = 1
  MaxReplies = 1
  MaxDeaths = 1
CHECK_DEADLOCK FALSE
CONSTRAINT Explored
INVARIANTS TypeOK WrongAnswersAreBounded OneSelectionPerSegment HelpIsBounded NeverStuck
PROPERTIES NoSecondAcceptance RepeatedFailureNeedsFounder CommandsEnd
