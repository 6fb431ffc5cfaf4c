\* The answer mode of the phone, and the command `sipua hangup` at any time.
CONSTANTS
  Calls = {1, 2, 3}
  Notifiers = {1}
  MaxCalls = 1
  AnswerModes = {"manual"}
SPECIFICATION Spec
INVARIANT HangupValid
