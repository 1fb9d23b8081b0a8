\* Two requests, two tokens, prompts of up to five tokens over two-token pages.
CONSTANTS
    PageSize = 2
    Client = {c1, c2}
    Token = {0, 1}
    Page = {g1, g2, g3}
    MaxLen = 5
    Input <- MCInput
    NoHandle = NoHandle
SPECIFICATION Spec
SYMMETRY Symmetry
INVARIANTS
    TypeOK
    LockedStaysCached
