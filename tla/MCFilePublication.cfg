SPECIFICATION Spec
CONSTANTS
  image = image
  kernel = kernel
  target = target
  NOBODY = NOBODY
  TORN = TORN
  Outputs = {image, kernel}
  Directories = {target}
  Processes = {first, second}
  Pids = {1, 2}
  parent <- MCParent
  plan <- MCPlan
INVARIANTS
  OutputIsWhole
  PromiseKept
  PublishedInOrder
  NoTemporaryLeft
PROPERTIES
  PublishesAtomically
CHECK_DEADLOCK FALSE
