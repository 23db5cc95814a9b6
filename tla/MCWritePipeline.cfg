\* Two users of a phone and a pipeline shorter than the queue may be.
CONSTANTS
    Users = {ann, bob}
    Keys = {k}
    Window = 2
    MaxWrites = 3
    Hello = Hello
SPECIFICATION Spec
INVARIANTS PipelineTracksQueue AnswersMatchPipeline StreamNeeded CallbacksMatch AckedIsStored NothingLost AckedStays OlderIsForNow IInv
PROPERTIES ImplementsStore
