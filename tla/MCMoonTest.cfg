CONSTANTS
    Specs <- MCSpecs
    Layouts <- MCLayouts
SPECIFICATION Spec
CHECK_DEADLOCK FALSE
INVARIANTS RunsWhatIsListed 
