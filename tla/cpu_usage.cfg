SPECIFICATION UsageSpec
CONSTANTS
  MaxTicks = 3
  Nothing = Nothing
INVARIANTS NeverUnderestimates
