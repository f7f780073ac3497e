\* Stages in processes of their own, with the server's models and breakers.
CONSTANTS
    Threads = {t1, t2}
    Loaders = {t1, t2}
    Keys = {kSpeech, kXtts, kBasic}
    Speech = {kSpeech}
    Xtts = kXtts
    Basic = kBasic
    CacheMax = 1
    None = None
    Dead = Dead
    Main = Main
    Threshold = 2
    Retries = 1
    Setups <- Each
    t1 = t1
    t2 = t2
    kSpeech = kSpeech
SPECIFICATION StageFairSpec
INVARIANTS RefsAreUsers UsersShareOneModel ChildIsGone
    ResultIsNotLost TrialIsAnswered
PROPERTIES PhaseEnds
CHECK_DEADLOCK FALSE
