\* Two requests, two-token pages, up to three pages deep and three in all.
CONSTANTS
    PageSize = 2
    Client = {c1, c2}
    Token = {0, 1}
    Page = {g1, g2, g3}
    Input <- MCInput
    NoHandle = NoHandle
SPECIFICATION MappedSpec
SYMMETRY Symmetry
INVARIANTS
    NoAssertionFails
    HandlesKeepTheirPrefix
    RefCountsExact
    SizesExact
    MatchIsLongest
PROPERTIES
    EvictsLeastRecent
    ImplementsPrefixCache
