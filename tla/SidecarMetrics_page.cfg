\* Pages rendered while both tasks count.
CONSTANT
    MaxCycles = 2
SPECIFICATION Spec
INVARIANTS TypeOK AttemptsAccounted SuccessIsStamped PagesRise
