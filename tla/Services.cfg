SPECIFICATION SuiteSpec
CONSTANTS
    Events = {"e1", "e2"}
    MaxBatch = 2
    Deadline <- Deadlines
    Txs <- Transfers
    MaxHeight = 2
    MaxCrashes = 2
INVARIANTS BatchAccounted OutcomeTruthful
PROPERTIES AnswersCome AllSettles
CHECK_DEADLOCK FALSE
