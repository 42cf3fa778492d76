SPECIFICATION Spec
CONSTANTS
  r1 = r1
  r2 = r2
  r3 = r3
  r4 = r4
  r5 = r5
  web = web
  api = api
  alice = alice
  bob = bob
  Requests = {r1, r2, r3}
  Preloaded <- WebOnly
  ConfiguredAuth <- OpenWeb
  Users = {alice}
  EnabledUsers = {alice}
  Linked <- LinkedToAlice
  DefaultUser = alice
  PickerEnabled = TRUE
  Ttls <- FittingOnly
  Budget <- OverlapBudget
  Boot = Boot
  Absent = Absent
SYMMETRY Symmetry
INVARIANT
  ResetClearsTokens
