SPECIFICATION Spec
CONSTANTS
  Reserved = 3
  KeySequences <- UpToSixKeys
  BlockSizes = {1, 2}
  Leftovers = {0, 2}
  MaxPass = 3
CHECK_DEADLOCK FALSE
INVARIANT EvenInputIsSorted
INVARIANT ThrowsOnUnevenInput
INVARIANT NothingInvented
PROPERTY Ends
