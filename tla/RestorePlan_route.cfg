SPECIFICATION Spec
CONSTANTS
  Phys = {2}
  Port = 2
  VName = {1, 3}
  Vid = {10, 20}
  Mtu = {1400, 1500}
  Addr = {1, 2}
  Nft = {n0, n1}
  MaxOps = 2
  MaxTries = 2
  NIL = NIL
INVARIANT RouteComesBack
CHECK_DEADLOCK FALSE
