SPECIFICATION Spec
CONSTANTS
  KeyCount = 8
  Keys <- FirstKeys
  T = 2
  NoKey = NoKey
  Mem = 2
INVARIANTS KeepsKeys Balanced FindsMembers
