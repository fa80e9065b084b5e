SPECIFICATION Spec
CONSTANTS
    Passwords <- MCPasswords
    Main = "main"
    Aux = "aux"
    N = 3
    nSkip = 2
INVARIANT WriteKeyRestored
