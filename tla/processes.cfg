SPECIFICATION Spec
CONSTANTS
    AppFeatures = {"redis", "celery"}
    MaxLives = 3
    RetryTasks = {"t1"}
    RetryWorkers = {"w1", "w2"}
    max_retries = 3
    ContextTasks = {"t1", "t2"}
    ContextWorkers = {"w1"}
    ContextRetries = 1
    MaxRedeliveries = 1
    TaskFaults = {"log"}
    File = {"f1", "f2"}
    Backend = {"local", "oss", "cos"}
    MaxRestarts = 2
    MaxFaults = 2
    DoctorFeatures = {"oss", "redis", "celery"}
    Commands = {"c1", "c2", "c3"}
    SchemaFaults = {"kill", "database"}
    Urls = {"none", "bad", "good"}
    Secrets = {"none", "short", "long"}
    Databases = {"sqlite", "postgresql"}
INVARIANTS
    TypeOK
    ClosedOnce
    RunsInItsContext
    RetryIsTold
    NotFoundIsTrue
    DoctorIsTrue
    AcceptedSuffices
PROPERTIES
    SchemaIsStamped
CHECK_DEADLOCK FALSE
