SPECIFICATION MCSpec
CHECK_DEADLOCK FALSE
SYMMETRY Symmetry
CONSTANTS
    Tenants = {t1}
    None = None
    Slugs = {"s1", "s2"}
    Bodies = {"a", "b"}
    Html <- MCHtml
    Workers = {w1, w2}
    MaxEntries = 2
    MaxLabels = 2
    MaxRequests = 3
INVARIANT HtmlFollowsMarkdown
INVARIANT NoDanglingLinks
PROPERTY DeletedStaysDeleted
