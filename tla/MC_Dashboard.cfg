SPECIFICATION Spec
CONSTANTS
  app = app
  shell = shell
  page1 = page1
  page2 = page2
  command = command
  NoProcess = NoProcess
  NoService = NoService
  Process = {app, shell}
  Dialect = "postgresql"
  Writer = {page1, page2, command}
  Admin = {page1, page2}
  ProcessOf <- MCProcessOf
  Item = {1, 2}
  Typed = {0, 4, 10, 16}
  MaxEdits = 3
INVARIANTS
  TypeOK
  StartsWhole
PROPERTIES
  ChangesAreTold
  StartEnds
CHECK_DEADLOCK FALSE
