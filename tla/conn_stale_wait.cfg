SPECIFICATION Spec
CONSTANTS
    Unnamed = Unnamed
    Named = Named
    Names = {Unnamed}
    Scripts <- CopyScripts
    Preparable = {"work"}
    ExtendedTypes = {"Parse", "Bind", "Execute"}
    Fails = {"copy"}
    CopyEnds = {"CopyDone"}
    MaxInbox = 2
PROPERTIES Answered
