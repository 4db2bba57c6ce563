\* Runtimes of up to three comparisons and plugins of up to seven instructions; the bounds of
\* the scans are small enough to be reached.
SPECIFICATION Spec
CONSTANTS
    Images <- MCImages
    Parameters <- MCParameters
    Architectures <- MCArchitectures
    kMaxGates = 2
    kInstructionsToPublication = 5
    kInstructionsAfterMarker = 4
    kInstructionsAfterModelVersion = 3
\* An image that has been reported is left as it is.
CHECK_DEADLOCK FALSE
INVARIANTS OtherAnswersStay AdaCountsAsBlackwell InfoMeansOff NeverTorn
