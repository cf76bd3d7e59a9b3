CONSTANTS
  PreludeMayFail = FALSE
  UserLines = {"quiet", "bad"}
  MaxInFlight = 2
  MaxKept = 1
SPECIFICATION Spec
INVARIANT NoErrorForgotten
