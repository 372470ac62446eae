SPECIFICATION Spec
CONSTANTS
  Emails = {"ada"}
  Clients = {"mcp"}
  Requests <- MCRequests
  MaxLinks = 2
  MaxProjects = 2
  MaxCodes = 2
  MaxTokens = 6
CHECK_DEADLOCK FALSE
INVARIANTS
  TypeOK
  SignInComplete
  GrantsBacked
  FamiliesRotate
PROPERTIES
  DeadFamilyStaysDead
