SPECIFICATION FairSpec
CONSTANTS
  index = index
  validate = validate
  Threads = {t1, t2}
  max_workers = 2
  Objects = {1, 2, 3, 4, 5}
  Periodic = {index}
  OneShot = {validate}
  Levels = 2
  priority <- Prio
  initialDelay <- Now
  period <- Later
  max_retries = 1
  MaxFailures <- Failures
  None = None
INVARIANTS TypeOK EachTaskOnce OneShotSettledOnce PeriodicKept
PROPERTIES HighestIsExecuted WorkersEnd
CHECK_DEADLOCK FALSE
