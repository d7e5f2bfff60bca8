SPECIFICATION Spec
CONSTANTS
    Size = 4
    Layouts <- MCLayouts
    Releases <- MCReleases
INVARIANTS
    IsoErrorReported
