SPECIFICATION Spec
CONSTANTS
  Projects = {p1, p2}
  NoProject = NoProject
  Absent = Absent
  Texts <- MCTexts
  URLs <- MCURLs
  RedirectURIs <- MCRedirectURIs
  States <- MCStates
  AsAttribute <- MCAsAttribute
INVARIANTS
  TypeOK
  
  LoginKeepsTheRequest
  RefusalsAreExplained
PROPERTIES
  EveryClientConnects
CHECK_DEADLOCK FALSE
