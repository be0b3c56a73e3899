CONSTANTS
    Words = {"the", "zorb"}
    Base = {"the"}
    Threshold = 3
    Boost = 2
    DecayInterval = 3
    DecayNum = 1
    DecayDen = 2
    Boosted = {"zorb"}
    MaxBase = 2
    MaxCount = 6
    MaxSentence = 2
    MaxContext = 1
    Lexicon = {"of", "the"}
    Texts <- PhraseTexts
    Corpus <- CorpusText
    CorpusGate = 2
    CuratedPairs <- Shipped
    CuratedTriples <- ShippedTriples
    SeedEdges <- Seeds
    PairWeight = 3
    LinkWeight = 1
    SeedWeight = 1
    Unit = 8
    LeastShare = 2
    SavedParts = 2
    ShareNum = 1
    ShareDen = 2
    LearnsPerDecay = 2
    PriorFloor = 40
    BaseTrust = 2
    Imports <- BroughtModels
    MaxShare = 8
    Letters = {1, 2, 3}
    Dictionary <- FewWords
    Typings <- FewTypings
    Builds <- Starts
    MaxFreq = 2
    Edits = 2
    IndexedChars = 3
    TopK = 2
    ShortPrefix = 2
    MaxScan = 2
    Layouts = {"row", "ring"}
    HitCost <- OnGrid
    FreqScore <- Logs
    OmitCost <- Omit
    ExtraCost <- Extra
    SwapCost <- Swap
    MayBuy <- Buy
    MinTyped = 3
    MinDead = 2
    Addresses = {"a", "b"}
    BarWords <- ScoredWords
    Apostrophe = 0
    Evidence <- Rows
    Partials <- TypedBeginnings
    BarSize = 2
    AlphaNum = 1
    AlphaDen = 2
    LambdaTri = 5
    LambdaBi = 3
    LambdaUni = 2
    LambdaSum = 10
    CorpusNum = 1
    CorpusDen = 10
    Wordlist <- Frequencies
    ExtraWords <- Unranked
    PriorWords <- CountedByCorpus
    MaxTimes = 1
    RankWords <- FourWords
    Unknowns = {"web"}
    ShortWords = {"we", "fk"}
    Acronyms = {"we"}
    Flagged = {"fk"}
    Situations <- FewSituations
    NextWeight = 3
    FuzzyWeight = 1
    MissingOdds = 10
    RescueFloor = 3
    Longest = 4
    Sizes = {1, 2, 3}
    Rehabilitate = 2
    MaxDemotions = 1
SPECIFICATION PredictionSpec
CHECK_DEADLOCK FALSE
INVARIANTS CandidatesAreUnknown MergedCoversUser RunSharesAddUp RunIndexIsAsRebuilt RunTypedLettersWin RunPruningLosesNothing RunDemotionNeverRaises
PROPERTIES SightingHelps
