CONSTANT Inputs <- MCInputs
SPECIFICATION Spec
INVARIANT OwnOptions
CHECK_DEADLOCK FALSE
