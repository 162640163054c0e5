CONSTANTS
    Half1 = 2
    Half2 = 4
    Half3 = 16
    SeqRange = 16
    NonceRange = 128
    Window = 12
    Starts = {0}
    MaxDatagrams = 6
    MaxFeedback = 0
SPECIFICATION Spec
INVARIANTS
    NeverMisfiled
