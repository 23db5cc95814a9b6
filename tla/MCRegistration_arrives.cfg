\* One phone, two addresses, three presses: two registrations whose answers
\* overlap, one after the other on the same screen, and a return to the first.
CONSTANTS
    phone1 = phone1
    u1 = u1
    u2 = u2
    Phones <- OnePhone
    Devices <- Queues
    DocIds <- Accounts
    MaxPending = 2
    Emails = {ann, bob}
    MaxPresses = 3
    MaxScreens = 1
    NoAccount = NoAccount
    NoProfile = NoProfile
SPECIFICATION FairSpec
PROPERTIES ProfilesArrive
