SPECIFICATION Spec
CONSTANTS
    Configs <- ManyConfigs
    AUDIT_MAX_FIELDS = 5
    AUDIT_BITMASK_SIZE = 2
    AUDIT_MAX_KEY_LEN = 2
    PATH_MAX = 4
INVARIANTS
    TypeOK
    StringsInOrder
    FieldsFit
    ExitFieldsOnExitList
    SuccessMeansAll
    FirstHasSyscall
CHECK_DEADLOCK FALSE
