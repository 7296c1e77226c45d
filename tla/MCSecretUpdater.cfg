CONSTANTS
    Nil = Nil
    Invalid = Invalid
    Second = 2
    Minute = 6
    Lead = 30
    Life = 45
    Slack = 1
    MaxLag = 3
    MaxSetbacks = 5
    MaxDeletions = 2
SPECIFICATION FairSpec
INVARIANTS
    TokenStaysValid
PROPERTIES
    OnlyDueTokensAreReplaced
    SecretIsFilled
