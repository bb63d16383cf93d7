SPECIFICATION Spec
CONSTANTS
    Unnamed = Unnamed
    Named = Named
    Names = {Unnamed}
    Scripts <- CopyBlockScripts
    Preparable = {}
    ExtendedTypes = {}
    Fails = {}
    CopyEnds = {"CopyDone"}
    MaxInbox = 1
PROPERTIES OpenBlockCommitsNothing
