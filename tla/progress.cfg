SPECIFICATION FairSpec
PROPERTIES
    RequestsAnswered
    WorkSettles
CHECK_DEADLOCK FALSE
