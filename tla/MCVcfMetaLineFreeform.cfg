\* One freeform meta line whose value starts with a punctuation byte.
CONSTANTS
  Lines <- MCFreeLines
  MaxLines = 1
SPECIFICATION Spec
INVARIANTS
  FreeformValueHandedWhole
