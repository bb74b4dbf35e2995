\* ze_querying_subscriber_get with a cancellation token.
SPECIFICATION Spec
CONSTANT Functions = {"querying_get"}
INVARIANT MovedArgumentsConsumed
