\* Two accounts share a phone, with two books: every order of hearts, deletes
\* and reading marks, from copies of any age.
CONSTANTS
    Accounts = {u1, u2}
    Books = {a, b}
    Goal <- SmallGoals
    MaxBooks = 2
    MaxEdits = 4
    MaxOpened = 2
    NoAccount = NoAccount
    NoUser = NoUser
    NoBook = NoBook
    NoScreen = NoScreen
    Unset = Unset
SPECIFICATION Spec
INVARIANTS OwnBooks IInv ReadOnce
PROPERTIES HeartKeepsOthers DeleteTakesTheRow
SYMMETRY Sym
