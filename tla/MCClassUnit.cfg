CONSTANTS
    Classes <- MCClasses
    Protocols <- MCProtocols
    Decls <- MCDecls
    MayFollow <- MCMayFollow
    MaxDecls = 6
    Shapes = {}
SPECIFICATION Spec
INVARIANTS PromisesKept SelectorsAgree AccessorsStored  Substitutable
CHECK_DEADLOCK FALSE
