CONSTANTS
  Limits <- MCLimits
  SetKeyFails = TRUE
SPECIFICATION FairSpec
CHECK_DEADLOCK FALSE
INVARIANTS TypeOK KeysAgree NoneServed GroupKeyDelivered
PROPERTIES GtkForward KeyAgreed Settles
