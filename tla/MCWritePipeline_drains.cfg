\* Two users of a phone, two writes and a pipeline of one: a user's second write
\* is held back until the first is answered.
CONSTANTS
    Users = {ann, bob}
    Keys = {k}
    Window = 1
    MaxWrites = 2
    Hello = Hello
SPECIFICATION FairSpec
PROPERTIES QueueDrains
