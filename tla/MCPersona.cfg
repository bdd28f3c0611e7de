CONSTANTS
    Profiles = {"a", "b"}
    Prompts = {"calm", "merry"}
    Nobody = ""
    MaxJobs = 1
    MaxDrafts = 1
    MaxConversions = 2
SPECIFICATION Spec
INVARIANTS OneConversionAtATime RuntimeFollowsActive
PROPERTY NoStuckJob
