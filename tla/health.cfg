CONSTANTS
    Probes = {p1, p2}
    Silent = {"database", "redis"}
SPECIFICATION FairSpec
INVARIANTS HealthInv ReadyMeansUp SteadyIsReady
PROPERTIES StopsAndAnswers
