\* Every operation but /status, and two reloads side by side.
CONSTANTS
    select = select
    update = update
    mark = mark
    health = health
    gauge = gauge
    reload = reload
    reload2 = reload2
    status = status
    Threads = {select, update, mark, health, gauge, reload, reload2}
    Program <- WithoutStatus
SPECIFICATION Spec
SYMMETRY Symmetry
INVARIANTS
    DeadlockFree
