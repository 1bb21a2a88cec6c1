CONSTANTS
    lead = lead
    seller = seller
    guest = guest
    Lead = Lead
    Seller = Seller
    custom = custom
    Client = Client
    NoRole = NoRole
    NoUser = NoUser
    CustomTags <- CustomOnly
    Roles <- MCRoles
    Users <- MCUsers
    FirstRoles <- MCFirstRoles
    Groups = {g1}
    OldGroups = {g1}
    ManualTags <- HarmlessTags
    TagStrangers = FALSE
    Slots = {s1}
    Concurrent = FALSE
    MaxOps = 2
SPECIFICATION Spec
CHECK_DEADLOCK FALSE
INVARIANTS
    MemberCheckAnswers
