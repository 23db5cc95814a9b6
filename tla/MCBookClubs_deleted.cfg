\* A guest with an old copy of a club its owner has deleted.
CONSTANTS
    ann = ann
    bob = bob
    phone1 = phone1
    phone2 = phone2
    c1 = c1
    c2 = c2
    zoom = zoom
    teams = teams
    Devices = {phone1, phone2}
    Users = {ann, bob}
    UserOf <- OwnerAndGuest
    DocIds = {c1}
    Platforms = {zoom}
    FirstPlatform = zoom
    MaxPending = 1
    Lead = 1
    DefaultAhead = 1
    MaxTime = 0
    Dates = {1}
    NoClub = NoClub
    NoUser = NoUser
    NewClub = NewClub
    NoEditor = NoEditor
    NotLoaded = NotLoaded
SPECIFICATION Spec
PROPERTIES DeletedClubStaysDeleted
