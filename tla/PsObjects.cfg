CONSTANTS
  Uids = {u1, u2, u3}
  NoUid = NoUid
  NumEntries = 3
  FlashDefault = 4
  Builds = {TRUE, FALSE}
  Faults = {"write", "remove", "incr", "align", "start"}
  MaxRequests = 3
  MaxCrashes = 3
  MaxErrors = 1
SPECIFICATION FairSpec
INVARIANTS TypeOK ReadsCommitted SuccessIsDurable SpareIndex OldDataPresent
PROPERTIES StoreImplemented ComesToRest
