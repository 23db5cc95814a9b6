\* The reader and two other users, two books, both of them popular and each to be
\* listed twice, two requests.
CONSTANTS
    Bids = {b1, b2}
    Popular = {b1, b2}
    Others = {o1, o2}
    MaxShelf = 2
    MaxAsks = 2
    NoBook = NoBook
SPECIFICATION FairSpec
INVARIANTS NotOnTheShelf IInv
PROPERTIES FallbackDiffers BookShown
