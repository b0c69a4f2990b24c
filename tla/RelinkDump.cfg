CONSTANT Images <- MCImages
SPECIFICATION Spec
INVARIANTS TypeOK Faithful LabelsPlaced SymbolsDefined NoSilentDouble
PROPERTIES Termination
CHECK_DEADLOCK FALSE
