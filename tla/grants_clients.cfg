SPECIFICATION Spec
CONSTANTS
  r1 = r1
  r2 = r2
  r3 = r3
  r4 = r4
  r5 = r5
  web = web
  api = api
  alice = alice
  bob = bob
  Requests = {r1, r2, r3, r4}
  Preloaded <- WebAndApi
  ConfiguredAuth <- Mixed
  Users = {alice, bob}
  EnabledUsers = {alice, bob}
  Linked <- LinkedApart
  DefaultUser = alice
  PickerEnabled = FALSE
  Ttls <- FittingOnly
  Budget <- ClientBudget
  Boot = Boot
  Absent = Absent
SYMMETRY Symmetry
INVARIANTS
  PreloadedPresentOrPending
  ClearedClientsStayAway
