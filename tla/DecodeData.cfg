\* The shipped ABIs, trees of up to three calls, two downloaded ABIs, two changes of the
\* ABI of a contract, one restart.
SPECIFICATION Spec
CONSTANTS
    none = none
    k1 = k1
    Key = {k1}
    NoKey = none
    NoNames = none
    Function <- MCFunction
    Names <- MCNames
    SafeNames <- MCSafeNames
    Databases <- MCDatabases
    Downloads <- MCDownloads
    MaxCalls = 3
    Data <- MCData
    MaxCrashes = 1
    MaxChanges = 2
INVARIANTS
    AnswerComplete
    AnswerSound
    AnswersRepeat
