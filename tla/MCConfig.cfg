CONSTANT Inputs <- MCInputs
SPECIFICATION Spec
INVARIANT Usable
 
PROPERTY Settled
CHECK_DEADLOCK FALSE
