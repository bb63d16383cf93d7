SPECIFICATION Spec
CONSTANTS
    Unnamed = Unnamed
    Named = Named
    Names = {Unnamed}
    Scripts <- CopyFileScripts
    Preparable = {}
    ExtendedTypes = {}
    Fails = {"copy"}
    CopyEnds = {}
    MaxInbox = 1
INVARIANTS SingleStatementsCommit
