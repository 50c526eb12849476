SPECIFICATION Spec
CONSTANT Profiles <- AllProfiles
INVARIANT BackendFailureAnswered
CHECK_DEADLOCK FALSE
