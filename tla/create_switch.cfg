SPECIFICATION Spec
CONSTANTS
    Accounts = {a1, a2}
    None = none
    Contents = {x1, x2}
    MaxActs = 6
INVARIANTS CredentialIsOfTheWallet
CHECK_DEADLOCK FALSE
