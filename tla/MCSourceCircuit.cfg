CONSTANTS
    x1 = x1
    x2 = x2
    h1 = h1
    h2 = h2
    Sources = {x1, x2}
    Handlers = {h1, h2}
    Threshold = 2
    MaxResolves = 1
    Backoff <- MCBackoff
    Selectors <- MCSelectors
    Documents <- MCDocuments
    MaxFailures = 2
    MaxTime = 3
SPECIFICATION Spec
INVARIANTS
    SourceCanRecover
