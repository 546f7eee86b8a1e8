SPECIFICATION Spec
CONSTANTS
  Keys <- SevenKeys
  KeyLen <- WideLen
  Vals <- WideVals
  Deletable = {5}
  Batches <- WideBatches
  MaxJournal = 2
INVARIANT
  NoMissingPage
