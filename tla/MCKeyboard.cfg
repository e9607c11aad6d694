CONSTANTS
  Keys <- AllKeys
  BUF = 3
SPECIFICATION Spec
INVARIANTS NoStuckModifier PrefixConsumed
