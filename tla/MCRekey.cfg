SPECIFICATION Spec
CONSTANTS
    Passwords <- MCPasswords
    Main = "main"
    Aux = "aux"
    N = 3
    nSkip = 2
INVARIANTS TypeOK AllOrNothing StaysReadable
CONSTRAINT Unspoiled
