CONSTANTS
  Checkpoints <- MCCheckpoints
  MaxFailures = 1
  NoFile = NoFile
  GroupSize = 2
  BLK = 4
  Space = SP
  Newline = NL
  Wide = {SP, NL, W}
  MaxMerges = 2
  a = a
  b = b
  SP = SP
  NL = NL
  W = W
  IM = IM
  ET = ET
  Tables <- MCTables
  Texts <- MCTexts
  UnkId = 0
  BosId = 9
  EosId = 2
  EndOfText <- MCEndOfText
  ImEnd <- MCImEnd
  VocabSize = 3
  LogitTables <- MCLogits
  MaxNew = {2}
  Temperatures = {0, 1, 2}
  TopPs = {50, 90}
  RepeatPenalty = 2
  History = 2
  ExpTable <- MCExp
  Packed <- MCPacked
  Activations <- MCActivations
SPECIFICATION StandaloneSpec
INVARIANTS StandaloneTypeOK FieldsNameTheirTensors QuantGroupsWhole CompleteNeverFaults DequantExact TokensSpellText SampledFromNucleus
CHECK_DEADLOCK FALSE
