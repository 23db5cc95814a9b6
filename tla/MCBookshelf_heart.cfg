\* The heart and what it unwraps.
CONSTANTS
    Accounts = {u1}
    Books = {a}
    Goal <- SmallGoals
    MaxBooks = 1
    MaxEdits = 1
    MaxOpened = 1
    NoAccount = NoAccount
    NoUser = NoUser
    NoBook = NoBook
    NoScreen = NoScreen
    Unset = Unset
SPECIFICATION Spec
INVARIANT HeartIsSafe
