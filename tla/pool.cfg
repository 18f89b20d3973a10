SPECIFICATION FairSpec
CONSTANTS
  r1 = r1
  r2 = r2
  r3 = r3
  s1 = s1
  Ids = {1, 2}
  Groups = {"g"}
  MaxFailures = 1
  Requests = {r1, r2}
  Sessions = {s1}
  Group <- SecondInGroup
  Opus <- SecondOpus
  Session <- OneSession
  StickyMaxWaiting = 1
  Outcomes = {"cancel", "refresh error", "invalid_grant", "call error", "quota", "throttle", "neutral"}
  Catalogue <- Varied
  InitialPools <- VariedPools
  Modes = {"balanced", "priority"}
  AdminOps = {"set_disabled", "reset_and_enable", "disable_quota_exceeded", "clear_throttle", "set_priority", "set_max_concurrency", "set_groups", "remove_group", "set_mode", "add", "delete"}
  MaxCalls = 1
  MaxAdmin = 1
  MaxReloads = 1
INVARIANTS SlotAccounting EnabledBelowThreshold
PROPERTIES OnlySuitableTaken ImplementsSlotPool LimitRespected EveryAcquisitionEnds
\* Hold on this instance as well: INVARIANTS TypeOK, WaitingCovered; PROPERTIES OnlyAutoDisabledHeals, LoadSpread, SlotsDrain
