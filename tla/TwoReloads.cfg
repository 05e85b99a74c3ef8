\* Two reload requests side by side, each with the file of its moment.
CONSTANTS
    a = a
    b = b
    Urls = {a, b}
    Limits = {1, 2}
    Configs <- Files
    Reloaders = {j1, j2}
    MaxStrikes = 2
SPECIFICATION GaugesSpec
INVARIANT
    OneConfigurationAtRest
