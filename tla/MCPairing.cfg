SPECIFICATION Spec
CONSTANTS
    NoKey = NoKey
    Fingerprint = {f1, f2, NoKey}
    n1 = n1
    Name = {n1, n2}
    OneLine <- MCOneLine
    Conn = {c1, c2}
    None = None
    Burst = 1
    RefillMs = 2
    MaxTime = 4
INVARIANTS ServedOnlyByConsent PromptIsCurrent PromptsAreRationed
PROPERTIES FileOnlyGrows HelloIsJudged
