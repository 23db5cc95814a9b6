\* One device and two clubs as time passes: reminders as events move, the
\* button that creates a club pressed again while its write is under way.  A new
\* club is only as far ahead as its reminder; the picker moves it further.
CONSTANTS
    ann = ann
    bob = bob
    phone1 = phone1
    phone2 = phone2
    c1 = c1
    c2 = c2
    zoom = zoom
    teams = teams
    Devices = {phone1}
    Users = {ann}
    UserOf <- OneDevice
    DocIds = {c1, c2}
    Platforms = {zoom}
    FirstPlatform = zoom
    MaxPending = 2
    Lead = 1
    DefaultAhead = 1
    MaxTime = 2
    Dates = {1, 2, 3}
    NoClub = NoClub
    NoUser = NoUser
    NewClub = NewClub
    NoEditor = NoEditor
    NotLoaded = NotLoaded
SPECIFICATION FairSpec
INVARIANTS OneReminderPerClub
PROPERTIES CreateEnds CreateLeaves ReminderMatchesSavedDate
