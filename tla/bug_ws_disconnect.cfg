SPECIFICATION FairSpec
CONSTANTS
    c1 = c1  c2 = c2  c3 = c3  org1 = org1  org2 = org2
    app1 = app1  app2 = app2  app3 = app3  events = events  tenant = tenant
    e1 = e1  e2 = e2  e3 = e3  None = None
    Clients = {c1, c2}
    Orgs = {org1}
    Apps = {app1, app2}
    scope <- MCScope2
    Channels = {events, tenant}
    Default = events
    Events <- ThreeEvents
    Unrouted <- OneLost
    MaxConnections = 2
    Buffer = 1
    MaxDrops = 1
PROPERTY FannedOut
CHECK_DEADLOCK FALSE
