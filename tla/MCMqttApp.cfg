CONSTANT Backoff <- MCBackoff
SPECIFICATION Spec
INVARIANTS AppFollowsClient OnlineIsSubscribed SlotIsFree
PROPERTY ReachesOnline
