SPECIFICATION Spec
CONSTANTS
    x1 = x1
    x2 = x2
    x3 = x3
    x4 = x4
    Items <- MCItems
    Size <- MCSize
    MaxDiscordFileCount = 2
    MaxDiscordFileSize = 3
INVARIANTS
    FifoPipeline
    NoCallerForgotten
    AnswerNamesOwnFile
    BatchAtMostOneOver
PROPERTIES
    EveryCallReturns
