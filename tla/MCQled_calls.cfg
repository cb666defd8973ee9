CONSTANTS
  a = a
  b = b
  c = c
  QLED_TOTAL = 2
  Pins = {a, b, c}
  Wired <- MCWired
  None = None
  Clients = {client}
  Times = {0, 1}
  Patterns <- MCPatterns
  Behind <- MCBehind
  Careful = TRUE
SPECIFICATION Spec
INVARIANTS TypeOK TableOK ShowsWhatWasAsked
