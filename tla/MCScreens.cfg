\* Covers with up to three words, some of them twice.
CONSTANTS
    Words = {magic, island, river}
    MaxWords = 3
    Achievements = {stars, medal, chat}
    NoTip = NoTip
    English = en
    Romanian = ro
    MaxReloads = 2
    None = None
SPECIFICATION Spec
INVARIANTS IInv TitleIsTicked OneTip LanguagesAgree
