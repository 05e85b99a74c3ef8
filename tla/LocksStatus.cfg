\* One request that marks an endpoint while /status is being answered.
CONSTANTS
    select = select
    update = update
    mark = mark
    health = health
    gauge = gauge
    reload = reload
    reload2 = reload2
    status = status
    Threads = {mark, status}
    Program <- WithStatus
SPECIFICATION Spec
INVARIANTS
    DeadlockFree
CHECK_DEADLOCK FALSE
