SPECIFICATION JobSpec
CONSTANTS
    Polls = {p1}
    MaxRetries = 1
    Faults = {}
PROPERTY CompletionDetected
CHECK_DEADLOCK FALSE
