SPECIFICATION LSpec
CONSTANTS
    r1 = r1
    r2 = r2
    s = s
    g1 = g1
    g2 = g2
    g3 = g3
    web = web
    api = api
    lab = lab
    Unbound = Unbound
    NoField = NoField
    NoAdvice = NoAdvice
    Publishers <- Trees
    Profiles = {web, api, lab}
    Lists <- ByHand
    MaxHand = 1
INVARIANTS
    OracleAgrees
    AdvisoriesSound
