SPECIFICATION FairSpec
CONSTANTS
  Clients = {c1, c2}
  Streams = {s1}
  Callbacks = {e1}
  Nobody = Nobody
PROPERTY FlowUndisturbed
CHECK_DEADLOCK FALSE
