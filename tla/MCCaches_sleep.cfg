SPECIFICATION Spec
CONSTANTS
  Regions <- Map
  Field <- CoreFields
  FieldsOf <- Visible
  CfbpVariants <- Variants
  XpsrIndex = "xpsr"
  XpsrRegs <- PsrParts
  SpRegs <- StackPointers
  DoubleRegs <- Doubles
  Address <- Cells
  Spans <- AllSpans
  Data <- Writable
  Byte <- Bits
  Initial <- Zeros
  FieldValues <- Bits
  ReadLists <- ShownReads
  WriteLists <- ShownWrites
  UseAsleep = TRUE
  FaultKinds <- NoFaults
  MaxToken = 1
  MaxFaults = 0
INVARIANTS ReadsAreCurrent
