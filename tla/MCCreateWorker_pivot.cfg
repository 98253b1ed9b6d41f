\* Every flavour and flag, every choice about the charts; every command may
\* fail or answer with nothing; the controllers keep running.
CONSTANT Descriptors <- MCDescriptors
SPECIFICATION FairSpec
INVARIANTS TypeOK SingleActiveManager NoTeardown ResourcesKept ObjectsHeld
    AnsweredSuccessIsManaged ReleasedAsAsked ChartsFound
PROPERTY CreateReturns
CHECK_DEADLOCK FALSE
