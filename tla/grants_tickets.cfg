SPECIFICATION Spec
CONSTANTS
  r1 = r1
  r2 = r2
  r3 = r3
  r4 = r4
  r5 = r5
  web = web
  api = api
  alice = alice
  bob = bob
  Requests = {r1, r2, r3, r4, r5}
  Preloaded <- WebOnly
  ConfiguredAuth <- OpenWeb
  Users = {alice}
  EnabledUsers = {alice}
  Linked <- LinkedToAlice
  DefaultUser = alice
  PickerEnabled = FALSE
  Ttls <- EndlessAccess
  Budget <- TicketBudget
  Boot = Boot
  Absent = Absent
SYMMETRY Symmetry
INVARIANTS
  TypeOK
  CodeBacksOneGrant
  SpentRefreshIsDead
  WipedTicketsAreDead
PROPERTY
  LedgerSpec
