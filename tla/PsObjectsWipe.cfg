CONSTANTS
  Uids = {u1}
  NoUid = NoUid
  NumEntries = 2
  FlashDefault = 3
  Builds = {TRUE}
  Faults = {}
  MaxRequests = 2
  MaxCrashes = 2
  MaxErrors = 0
SPECIFICATION FairSpec
PROPERTIES OnlyRequestsRemove
