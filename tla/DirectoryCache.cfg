SPECIFICATION FairSpec
CONSTANTS
  Fds = {d1, d2}
  d1 = d1
  d2 = d2
  CountMod = 16
  MaxOpens = 5
  Policies = {"hold_closed_cache_for", "evict_on_last_close"}
INVARIANT TypeOK
INVARIANT CountExact
INVARIANT DirectoryKeepsMetadata
PROPERTY HandlesStay
PROPERTY IdleIsDropped
