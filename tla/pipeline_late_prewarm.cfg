CONSTANTS
    Conns = {c1}
    Policies = {"lazy"}
    Window = 0
    Requests = {"auth"}
    NoOne = NoOne
SPECIFICATION Spec
INVARIANT QuietIsDark
