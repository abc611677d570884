CONSTANTS
    Releases <- MCReleases
    Places <- MCPlaces
    Upstream <- MCUpstream
    Overlay <- MCOverlay
    Listed <- MCListed
    Program <- MCProgram
    Marker <- OneOf
    Marked <- MCMarked
    Reached <- MCReached
    Completes <- MCCompletes
    Deleted <- MCDeleted
    Unlisted <- MCUnlisted
    Between <- MCBetween
    During <- MCDuring
    First <- MCFirst
    MaxRuns = 2
SPECIFICATION Spec
CHECK_DEADLOCK FALSE
INVARIANTS
    TypeOK
    AnchorsHold
    RegisteredOnce
    MasqueRestored
    Recoverable
PROPERTY
    RevertGivesUpstream
