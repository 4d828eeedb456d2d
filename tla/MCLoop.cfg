SPECIFICATION Spec
CONSTANTS
    NoCode = NoCode
    NoText = NoText
    DriverCodes <- SmallDriverCodes
    DriverConfigs <- SmallDriverConfigs
    DefaultModels = 2
    DriverTools = {"miri"}
    GeneratorCodes <- SmallGeneratorCodes
    GeneratorConfigs <- SmallGeneratorConfigs
    GeneratorTools = {"miri"}
    RunnerCodes <- SmallRunnerCodes
    MaxLevels = {"dst", "kani", "verus", "smt"}
    StartLevels = {"rustc", "loom"}
    RunnerTools = {"miri", "kani"}
    HarnessConfigs <- SmallHarnessConfigs
    Values = {a, b, c}
    MaxOperations = 6
    Operations <- SmallOperations
    Threads = {a, b, c}
    ThreadsMax = 3
    Deltas = {1, 2}
    TimeMax = 5
    Modulus = 12
    Tests <- SmallTests
INVARIANTS
    BestKept
    CorrectWins
    SuccessIsBest
    VerdictsTrue
    TestsReproducible
PROPERTIES
    NothingGoesBack
    ProgramEnds
CHECK_DEADLOCK FALSE
