CONSTANTS
    None = None
    Procs = {p1, p2}
    Hosts <- OddHosts
    Configs <- SomeConfigs
    Legacy = {None, "ok"}
    MaxEvents = 3
SPECIFICATION Spec
INVARIANTS TypeOK VerdictTrue CardsTrue VerifyRepairs
SYMMETRY Symmetry
CHECK_DEADLOCK FALSE
