CONSTANT Backoff <- MCBackoff
SPECIFICATION Spec
INVARIANT ResponseIsNeverBusy
