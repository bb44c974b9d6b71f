CONSTANTS
  NoSession = NoSession
  Session = {1, 2}
  Browser = {1}
  BrowserOf <- MCBrowserOf
  LOGIN_FREE_FAILURES = 1
  LOGIN_FAILURE_WINDOW_SECONDS = 3
  MAX_LOGIN_DELAY_SECONDS = 3
  MaxAttempts = 4
SPECIFICATION Spec
INVARIANTS
  RightPasswordNeverQueues
CHECK_DEADLOCK FALSE
