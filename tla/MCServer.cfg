SPECIFICATION FairSpec
CONSTANTS
  Device = {d1, d2}
  Handler = {h1, h2}
  Capacity = 2
  MaxChanges = 3
  MaxCrashes = 1
  Failing = {"files.vault_id", "failed_attempts"}
INVARIANTS ServerInv ListensOnlyWhenComplete StuckOnlyByCrash NothingUnheard
PROPERTIES FailsOnlyStuck EventuallyListens
CHECK_DEADLOCK FALSE
