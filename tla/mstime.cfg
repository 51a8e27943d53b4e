SPECIFICATION Spec
CONSTANTS
  Modulus = 16
  Timer = {"switch", "hdcp_check", "off"}
  Polled = {"switch", "hdcp_check"}
  Periodic = {"hdcp_check"}
  Adjusted = {"switch"}
  Delay = {0, 3}
  Period = 3
  Tolerance = 1
  Late = 1
  Busy = 1
  Jump <- BackAndForth
  Off = Off
INVARIANTS TypeOK OnTime NeverOversleeps AdjustedNotLate
