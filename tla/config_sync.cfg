SPECIFICATION Spec
CONSTANTS
    Rule = {r1}
    Playbook = {p1}
    MaxVersion = 3
    MaxFailures = 1
    MaxRestarts = 1
    MaxTaskFaults = 1
CHECK_DEADLOCK FALSE
INVARIANTS TypeOK Converges
PROPERTIES NeverGoesBack
