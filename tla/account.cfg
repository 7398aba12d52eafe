SPECIFICATION FairSpec
CONSTANTS
    t1 = t1
    t2 = t2
    Tabs <- MCTabs
    Starts <- MCStarts
    Owned = {"mine"}
    Strange = {"theirs"}
    Roles = {"CUSTOMER"}
    AdminMail = "admin"
    MaxCodes = 2
    MaxActs = 4
    MaxEvents = 1
    Events = {"reply", "redis", "mail", "expire", "me", "profile", "wrong"}
INVARIANTS
    AccountsAreVerified
    OneAccountPerAddress
    StoredIdIsTokens
    ConsoleIsForAdmins
PROPERTIES
    PagesSettle
CHECK_DEADLOCK FALSE
