SPECIFICATION Spec
CONSTANTS
  Absent = Absent
  Text = Text
  Nowhere = Nowhere
  r1 = r1
  Requests = {r1}
  Starts <- MCStarts
  Calls <- MCCalls
  Addresses <- MCAddresses
  Loopback <- MCLoopback
  FreePorts <- MCFreePorts
  MaxStarts = 2
INVARIANT
  CapForGatewayOnly
