SPECIFICATION Spec
CONSTANTS
  Instances = {i1, i2}
  Requests  = {r1, r2, r3}
  Asks      <- MCAsks
  Minted    <- MCMinted
  ValidUrls = {"https", "local"}
  ShortKeys = {"k"}
  Password  = "manager"
INVARIANTS TypeOK PairedWebhook SecretIsKept HonestAnswer OldKeyDies
CHECK_DEADLOCK FALSE
