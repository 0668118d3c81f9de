\* MCRequestHandling_all.cfg
SPECIFICATION Spec
CONSTANTS
    Cases <- MCCases
    SizeMax = 25
    MaxBody = 20
    Codes = {204, 404}
    Bodies = {"one", "two"}
    MaxHeaders = 1
CHECK_DEADLOCK FALSE
INVARIANTS TypeOK HandlersInOrder CloseIsAnnounced FirstBodyStands FailureIsAnswered
           LengthIsDeclared PathIsResolved ParamsAreDecoded
