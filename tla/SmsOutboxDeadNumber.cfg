\* A number Twilio rejects for good.
CONSTANTS
    t1 = t1
    t2 = t2
    Texts <- Two
    Batch = 2
    MaxAttempts = 3
    MaxLost = 0
    Nothing = nothing
SPECIFICATION Spec
PROPERTY DeadNumberNotRetried
\* An outbox with nothing left to send or to reap does nothing.
CHECK_DEADLOCK FALSE
