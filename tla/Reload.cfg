\* One reload at a time, repeated, against marks, recoveries and an operator who edits the
\* file while it runs.
CONSTANTS
    a = a
    b = b
    Urls = {a, b}
    Limits = {1, 2}
    Configs <- Files
    Reloaders = {j1}
    MaxStrikes = 2
SPECIFICATION FairGaugesSpec
INVARIANTS
    GaugesTypeOK
    EveryPartIsValid
    OneConfigurationAtRest
    LimiterPerEndpoint
    ListedHaveSeries
    GaugesFitTheList
PROPERTIES
    FileTakesEffect
    HealthyGaugeSettles
