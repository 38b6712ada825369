SPECIFICATION PackagesSpec
CONSTANTS
    Absent = Absent
    NoneFits = NoneFits
    Bases <- MCBases
    PackageOf <- MCPackageOf
    VersionOf <- MCVersionOf
    ArtifactOf <- MCArtifactOf
    StepOf <- MCStepOf
    BuildOf <- MCBuildOf
    ServiceOf <- MCServiceOf
    DepsOf <- MCDepsOf
    Found <- MCFound
    MaxEdits = 2
    Releases <- MCReleases
    Asked <- MCAsked
    Repo = "tool"
    Bundles <- MCBundles
    Helpers <- MCHelpers
    Aquas <- MCAquas
    Casks <- MCCasks
    Taps <- MCTaps
    Scoops <- MCScoops
    Wingets <- MCWingets
    Packages <- MCPackages
    Links <- MCLinks
    Opened <- MCOpened
    Sources <- MCSources
    Wants <- MCWants
    Cutoff = 1
    PreWords = {3}
    PreIfNum = {1}
INVARIANTS ManifestsInstall InferredServes TranslatedServes PicksHold
CHECK_DEADLOCK FALSE
