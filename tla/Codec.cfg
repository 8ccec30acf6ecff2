SPECIFICATION Spec
CONSTANTS
    Cmds <- Forms
    Messages <- SomeMessages
    Faults = {"would_block", "short_write"}
    MaxBody = 40
    MaxCmds = 3
INVARIANT TypeOK
INVARIANT InSync
INVARIANT CutHurtsLater
INVARIANT MessageFaithful
CHECK_DEADLOCK FALSE
