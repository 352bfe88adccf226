CONSTANTS
    Loose <- MCLoose
    MaxBytes = 5
SPECIFICATION Spec
CHECK_DEADLOCK FALSE
INVARIANTS UnitsAgree ReadsWhatIsWritten
