CONSTANTS
  Steps = 2
  Period = 6
  Decks <- SwitchedDecks
  Jmax = 5
  Ia = 2
  Ir = 2
  Ic = 3
  Delay = 1
  Ig = 2
  Il = 3
  More = 1
  Freeze = 3
  Ndiverg = 2
  MaxF2F = 4
  MaxMortar = 5
  Kmax = 100
SPECIFICATION Spec
PROPERTY InextExceedsTime
