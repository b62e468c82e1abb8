SPECIFICATION Spec
CONSTANTS
  i1 = i1
  c1 = c1
  c2 = c2
  v1 = v1
  h1 = h1
  h2 = h2
  e1 = e1
  Instances = {i1}
  Clients = {c1, c2}
  Devices = {v1}
  Handlers = {h1, h2}
  Callbacks = {}
  NoClient = NoClient
  NoDevice = NoDevice
  Deleted = Deleted
  Asks <- MCAsksQR
  BootStatuses = {"connected", "disconnected"}
  MaxIncidents = 1
CHECK_DEADLOCK FALSE
SYMMETRY Symmetry
INVARIANT OneClient
