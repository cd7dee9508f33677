\* One route with its policy; the only change is that the route is deleted.
SPECIFICATION Spec
CONSTANTS
    h1 = h1
    Hosts = {h1}
    NRoutes = 1
    OpNames = {"DeleteRoute"}
    MaxChanges = 2
INVARIANT RefusedIfAlwaysRefused
CHECK_DEADLOCK FALSE
