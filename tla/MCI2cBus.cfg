SPECIFICATION MCSpec
CONSTANTS
  Axes = {foc, rot}
  Values = {0}
  Verdicts = {FALSE}
  Usteps = {4}
  Slots = 3
  SeqMod = 9
  MaxUnwritten = 1
  BlindBoots = FALSE
  Torn = Torn
  Records = {settings, imu}
  RecValues <- MCValues
  Sensors = {onboard, external}
  FailsBeforeCycle = 2
  SettleSamples = 2
INVARIANTS SettledIsTrue
PROPERTIES WrittenOrFault IsDurableCell MarkSurvives BootLoadsSaved LossShows HungRecovers
