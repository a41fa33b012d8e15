SPECIFICATION Spec
CONSTANTS
    Size <- MCSize
    WordSize = 64
    Routes = {"call", "callback", "memory"}
INVARIANTS TypeOK NativeSees PerlSees
