SPECIFICATION FairSpec
CONSTANTS
    e1 = e1
    e2 = e2
    Electors <- Both
    Flaky = {e2}
    TTL = 7
    Renew = 1
    Busy = 3
    Slow = 1
    Nobody = Nobody
    Orphan = Orphan
INVARIANTS TypeOK OneLeader LeaseOutlastsBelief
PROPERTIES RoleIsOwned SurvivorLeads
