CONSTANTS
  Pages = {"a"}
  Methods = {"HEAD"}
  Logins = {"url"}
SPECIFICATION HttpSpec
PROPERTY
  AlwaysReturns
CHECK_DEADLOCK FALSE
