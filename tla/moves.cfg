\* The functions that consume everything that was moved into them.
SPECIFICATION Spec
CONSTANT Functions <- Keeping
INVARIANT MovedArgumentsConsumed
