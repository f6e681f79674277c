SPECIFICATION Spec
CONSTANTS
  Axes = {foc}
  Values = {0}
  Verdicts = {FALSE}
  Usteps = {4}
  Slots = 2
  SeqMod = 30
  MaxUnwritten = 2
  BlindBoots = TRUE
  Torn = Torn
PROPERTIES NewestWins
