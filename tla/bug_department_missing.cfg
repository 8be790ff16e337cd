SPECIFICATION WebSpec
CONSTANTS
    cust = cust  boss = boss  NoOne = NoOne
    Accounts = {cust, boss}
    ClaimsOf <- MCClaimsOf
    Seeded = {cust}
    Invited = boss
    DevAccount = cust
    MaxWrites = 2
    Subjects = {"ana", "ben"}
    MaxTexts = 3
    MaxSends = 3
    ana = ana  ben = ben  main = main  vip = vip  new = new  k1 = k1
    People = {ana, ben}
    MaxBatches = 2
    Terms = {"", "a", "a_"}
    Trim <- MCTrim
    Empty = ""
    Facets = {"all", "open"}
    AllFacet = "all"
    MaxPage = 2
    Staff = {ana, ben}
    Departments = {main, vip, new}
    Main = main
    Tickets = {k1}
    Pressing = {k1}
    Start <- MCStart
    MaxChanges = 1
    Desks <- MCDesks
    Notices <- MCNotices
    Addresses <- MCAddresses
    PageSize = 2
    SummaryLimit = 1
INVARIANT AbsenceIsReal
CHECK_DEADLOCK FALSE
