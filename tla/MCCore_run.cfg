SPECIFICATION CoreSpec
CONSTANTS
  Regions <- Map
  Field <- CoreFields
  FieldsOf <- Visible
  CfbpVariants <- Variants
  XpsrIndex = "xpsr"
  XpsrRegs <- PsrParts
  SpRegs <- StackPointers
  DoubleRegs <- Doubles
  Address <- Cells
  Spans <- AllSpans
  Data <- Writable
  Byte <- Bits
  Initial <- Zeros
  FieldValues <- Bits
  ReadLists <- ShownReads
  WriteLists <- ShownWrites
  UseAsleep = FALSE
  FaultKinds <- AllFaults
  MaxToken = 1
  MaxFaults = 1
  CtlTokens = 2
  CtlFaults = 2
INVARIANTS TypeOK Coherent ReadsAreCurrent StopsAsAsked ControlsRestored TokenTells
CHECK_DEADLOCK FALSE
