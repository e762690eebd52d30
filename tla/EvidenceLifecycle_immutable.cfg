SPECIFICATION Spec
CONSTANTS
    Caller = {c1}
    Artifact = {a1}
    MaxRetries = 2
    MaxEvents = 5
PROPERTIES
    TerminalArtifactImmutable
