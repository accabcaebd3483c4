\* ALT entries with and without a leading '_' in the id.
CONSTANTS
  Lines <- MCAltIdLines
  MaxLines = 1
SPECIFICATION Spec
INVARIANTS
  AltIdHandedWhole
