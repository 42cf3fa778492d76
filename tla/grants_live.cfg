SPECIFICATION FairSpec
CONSTANTS
  r1 = r1
  r2 = r2
  r3 = r3
  r4 = r4
  r5 = r5
  web = web
  api = api
  alice = alice
  bob = bob
  Requests = {r1, r2, r3}
  Preloaded <- WebOnly
  ConfiguredAuth <- OpenWeb
  Users = {alice, bob}
  EnabledUsers = {alice, bob}
  Linked <- LinkedToAlice
  DefaultUser = bob
  PickerEnabled = TRUE
  Ttls <- Endless
  Budget <- LiveBudget
  Boot = Boot
  Absent = Absent
INVARIANT
  LineageKept
PROPERTY
  EveryRequestAnswered
