\* Lines of up to three characters.
CONSTANTS
  max_len = 3
  Keys <- AllKeys
  Commands <- Words
SPECIFICATION Spec
INVARIANTS
  LineTypeOK
  ClearBehindIndex
  ShowsBuffer
  
  MoveIsSimultaneous
  ComparesContents
  HexReads
