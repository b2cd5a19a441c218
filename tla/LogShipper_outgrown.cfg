\* Rotation that a poll can miss, because the new file is already longer.
CONSTANTS
    MaxBytes = 4
    MaxErrors = 1
    Outgrows = TRUE
    CharWidth = 1
SPECIFICATION Spec
INVARIANT ResumesExactly
