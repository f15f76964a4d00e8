SPECIFICATION Spec
CONSTANTS
    Configs <- PathMissing
    AUDIT_MAX_FIELDS = 5
    AUDIT_BITMASK_SIZE = 2
    AUDIT_MAX_KEY_LEN = 2
    PATH_MAX = 4
INVARIANT SuccessMeansAll
CHECK_DEADLOCK FALSE
