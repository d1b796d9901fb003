CONSTANTS
    MaxVersion = 2
    Broken = {2}
    NoFile = NoFile
    Torn = Torn
    MaxBoots = 4
    MaxErrors = 3
    MaxReloads = 1

    Checkers = {c1, c2}
    MaxPublished = 2
    MaxChecks = 2
    MaxResets = 1

    MaxMigrateFaults = 1
    MaxStarts = 3

    Importers = {i1}
    MaxImports = 2
    MaxDbFaults = 2
    MaxDbCrashes = 2

    Applying = {a1}
    Shooting = {o1}
    XIUploads <- SomeUploads
    XILive <- SomeLiveDatabases
    MaxXiPlans = 1
    MaxXiShots = 1
    MaxXiSaves = 1
    MaxXiFaults = 1

    Outbounds = {ro}
    Endpoints = {re}
    InboundRows = {ri}
    ServiceRows = {rs}
    Blob = blob
    Tags = {"a", "b"}

    Overrides <- AlikeAddresses

SPECIFICATION DataFairSpec

INVARIANTS
    UpdatesAreSound
    MGUpgradeIsSafe
    RepresentationsAgree

PROPERTIES
    JobEnds
    DIDataSurvives
    XIImportIsFaithful
    TRReferencesHold

\* The bounds run out, a torn binary does not boot, and a pair of versions or
\* an inbound is chosen once.
CHECK_DEADLOCK FALSE
