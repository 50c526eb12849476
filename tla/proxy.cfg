SPECIFICATION FairSpec
CONSTANT Profiles <- AllProfiles
INVARIANTS CompletionQuiesces ReuseSafe OnceEachWay SafeUse
PROPERTIES StartsNothingMore AlwaysCompletes
CHECK_DEADLOCK FALSE
