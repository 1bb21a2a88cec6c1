CONSTANTS
    lead = lead
    seller = seller
    guest = guest
    Lead = Lead
    Seller = Seller
    custom = custom
    Client = Client
    NoRole = NoRole
    NoUser = NoUser
    CustomTags <- CustomOnly
    Roles <- MCRoles
    Users <- MCUsers
    FirstRoles <- MCFirstRoles
    Groups = {g1, g2}
    OldGroups = {g1}
    ManualTags <- NoTags
    TagStrangers = FALSE
    Slots = {s1, s2}
    Concurrent = TRUE
    MaxOps = 2
SPECIFICATION Spec
CHECK_DEADLOCK FALSE
PROPERTIES
    OffboardingIsNotBlocked
