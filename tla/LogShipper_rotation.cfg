\* Rotation of both kinds, noticed while the new file is still short; a log
\* whose characters have two bytes.
CONSTANTS
    MaxBytes = 5
    MaxErrors = 1
    Outgrows = FALSE
    CharWidth = 2
SPECIFICATION FairSpec
INVARIANTS TypeOK ResumesExactly ShippedOrDiverted
PROPERTIES AllRead ImplementsTail
