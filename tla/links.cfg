SPECIFICATION FairSpec
CONSTANTS
  a = a
  b = b
  p = p
  p_ = p_
  pa = pa
  pb = pb
  once = once
  any = any
  Null = Null
  Unlimited = Unlimited
  Gone = Gone
  DsIds = {a, b}
  Children = {p, p_, pa, pb}
  NameOf <- TwoDsIds
  Tokens = {once, any}
  TokenOf <- OwnTokens
  Managed = {any}
  Count <- OnceAndAny
  MaxSalt = 5
  MaxFaults = 2
INVARIANTS AttemptsAgree SessionsAgree NodesSaved TokenUses
PROPERTIES Reconnects
CHECK_DEADLOCK FALSE
