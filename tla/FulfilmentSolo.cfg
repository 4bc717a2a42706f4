SPECIFICATION Spec
CONSTANTS
    Requests = {q1}
    Obligations = {"delivery", "payment"}
    SharedKey = {"delivery"}
    MaxEvents = 1
    MaxDay = 2
    Offset = 1
    UpcomingDays = 0
    Extracted <- TextDates
    Requested = {"completed"}
    Decisions = {"acknowledged", "resolved"}
    Faults = {"crash"}
PROPERTIES ClosedObligationsAreFinal RecalculatedDecisionsSurvive
CHECK_DEADLOCK FALSE
