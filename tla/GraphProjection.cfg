SPECIFICATION FairSpec
CONSTANTS
    Events = {1, 2}
    Doubtful = {1}
    Workers = {w}
    Requests = {q}
    Rebuilds = {b}
    Limit = 1
INVARIANTS
    ProjectedInGraph
    FreshUnlessOvertaken
PROPERTIES
    Drains
