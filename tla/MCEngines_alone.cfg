SPECIFICATION MCSpec
CONSTANTS
    AggregateId <- MCId
    Key <- MCKeys
    MaxFacts = 5
    Models <- MCModels
    Bounds <- MCBounds
    TestModels <- MCTestModels
    Systems <- MCTestModels
    EventLists <- MCEventLists
    MaxInput = 5
    MaxCases = 2
    RecordId = {"r1", "r2"}
    Payload = {"p1", "p2"}
    MaxTests = 3
    Seed <- MCSeeds
    Actor = {"p", "q"}
    Locations <- MCLocations
    MaxReplays = 2
    TraceEvent = {"a", "b", "c"}
    MaxTrace = 5
    MaxSteps = 2
    Snapshot <- MCSnapshots
    MaxRounds = 2
    Nonce = {"n1", "n2"}
    OutputLimit = 1
    TimeLimit = 1
    MaxOutput = 2
    MaxDeaths = 1
    Putter = {"u1", "u2"}
    MediaType = {"text", "zip"}
    MaxPutDeaths = 2
    Stages = {"E1", "E3"}
    RequiredSlot = {"A"}
    OptionalSlot = {"B"}
    LaneRuns <- MCLaneRuns
    Attempts <- MCAttempts
    Knowledges <- MCKnowledges
    Origin <- MCOrigin
    MaxOf <- MCMaxOf
    Findings <- MCFindings
    MaxFindings = 1
    EvidenceId <- MCEvidenceId
    Qualification <- MCQualification
    ClaimOf <- MCClaimOf
    QualifiedAs <- MCQualifiedAs
    MaxEdges = 3
    MaxInvalidations = 2
    Claim <- MCClaim
    Assessments <- MCAssessments
    Qualified = {"v1"}
    MaxDecisions = 2
    MaxContradictions = 5
    InputCase = {"c1"}
    MaxCut = 1
    MaxExecutions = 1
    MaxRevisions = 4
    Held <- MCHeld
    BlindLane = {"x", "y"}
    Discovery = {"d1"}
    Trial <- MCTrial
    Reported <- MCReported
    GateInput <- MCGateInput
    Manifest <- MCManifest
    MaxNotes = 1
    MaxReports = 3
    MaxReveals = 4
    MaxRuns = 1
INVARIANTS
    EnsemblesAreSound
    EvidenceIsSound
    FindingsAreEarned
    CompletionWasEarned
    ExplorationIsSound
    ShrunkIsMinimal
    EachTestCommitsOnce
    ReplaysAreOfTheirSchedule
    VerdictsAreTrue
    ObservedRunsAreReal
    ReceiptsAreBacked
    AdmittedIsEarned
PROPERTIES
    TerminalStateImmutable
    RunsReturn
CHECK_DEADLOCK FALSE
