\* One phone, two addresses, three presses: two registrations whose answers
\* overlap, and a return to the first account.
CONSTANTS
    phone1 = phone1
    u1 = u1
    u2 = u2
    Phones <- OnePhone
    Devices <- Queues
    DocIds <- Accounts
    MaxPending = 2
    Emails = {ann, bob}
    MaxPresses = 3
    MaxScreens = 2
    NoAccount = NoAccount
    NoProfile = NoProfile
SPECIFICATION Spec
INVARIANTS ProfilesFiled NoOrphans IInv
PROPERTIES HomeAfterProfile KeepsToStore
