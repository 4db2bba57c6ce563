\* Up to three decisions of any kinds while the worker reads the counters.
SPECIFICATION FairSpec
CONSTANT MaxDecisions = 3
INVARIANTS
    SummaryIsSnapshot
PROPERTIES
    FinalTotalsWritten
