SPECIFICATION Spec
CONSTANTS
    A = A
    B = B
    tA = tA
    tB = tB
    s1 = s1
    s2 = s2
    app1 = app1
    Accounts = {A, B}
    Tokens = {tA, tB}
    Servers = {s1, s2}
    Applications = {app1}
    Dialogues = {d1, d2}
    Updates = {u1, u2}
    Nothing = Nothing
    TokenAccount <- MCTokenAccount
    ServerAccount <- MCServerAccount
    AppServer <- MCAppServer
SYMMETRY Symmetry
INVARIANTS
    CodeLinksOnce
    DialogueFits
PROPERTIES
    AccountKept
CHECK_DEADLOCK FALSE
