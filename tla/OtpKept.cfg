\* Two requests at a time over several codes of every purpose.
SPECIFICATION OtpSpec
CONSTANTS
  Calls = {c1, c2}
  TTL = 1
  Cooldown = 1
  Hour = 2
  MaxAttempts = 2
  MaxPerHour = 2
  MaxTime = 3
  MaxCodes = 3
SYMMETRY Symmetry
INVARIANTS SingleUse AttemptsBounded ArrivedCodeWorks
CHECK_DEADLOCK FALSE
