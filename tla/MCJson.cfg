CONSTANTS
  StringBufferSize = 16
  Ieee754 <- MCIeee754
  Texts <- MCTexts
  Strings <- MCStrings
  Documents <- MCDocuments
  Targets <- MCTargets
  Patches <- MCPatches
  Messages <- MCMessages
SPECIFICATION Spec
INVARIANTS ParserIsRight DumpIsRight BufferInBounds BinaryIsRight EditsAreRight
PROPERTY PatchApplies
CHECK_DEADLOCK FALSE
