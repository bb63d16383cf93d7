SPECIFICATION HistorySpec
CONSTANTS
    Unnamed = Unnamed
    Named = Named
    Names = {Unnamed}
    Scripts <- QueryScripts
    Preparable = {"begin", "work", "copyIn", "bad"}
    ExtendedTypes = {"Parse", "Bind", "Describe", "Close", "Execute", "Flush"}
    Fails = {"begin", "commit", "work", "panic", "copy", "prepare", "discard"}
    CopyEnds = {"CopyDone", "CopyFail"}
    MaxInbox = 2
INVARIANTS TypeOK ErrorCommitsNothing RegularDoomedNeverCommits RegularIdleIsAutoCommit RegularImplicitEndsAtReady RegularNoStrayReady RegularNotReadyInCopyMode RegularAnswerIsDue
PROPERTIES RegularOpenBlockCommitsNothing RegularFailedBlockIsFrozen RegularAnswered
