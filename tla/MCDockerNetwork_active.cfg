\* Two processes, one container.
CONSTANTS
    Proc = {p1, p2}
    Others = {{}}
    MaxContainers = 1
    MaxReleases = 0
SPECIFICATION Spec
INVARIANT ActiveFirst
\* ensureNetwork returns.
CHECK_DEADLOCK FALSE
