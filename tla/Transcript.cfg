SPECIFICATION Spec
CONSTANTS
    go = go
    yes = yes
    done = done
    sure = sure
    Texts <- MCTexts
    Replies <- MCReplies
    MaxSpans = 3
SYMMETRY Symmetry
INVARIANTS
    TypeOK
    HistoryInOrder
PROPERTIES
    HistoryComplete
    PromptDoesNotGrow
    PendingNotMissed
