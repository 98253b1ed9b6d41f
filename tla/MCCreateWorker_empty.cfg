\* Documented flavours without a flag; a command may answer with nothing and succeed.
CONSTANT Descriptors <- Plain
SPECIFICATION Spec
INVARIANT SuccessHoldsObjects
CHECK_DEADLOCK FALSE
