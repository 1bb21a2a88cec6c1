CONSTANTS
    lead = lead
    seller = seller
    guest = guest
    Lead = Lead
    Seller = Seller
    custom = custom
    Client = Client
    NoRole = NoRole
    NoUser = NoUser
    CustomTags <- CustomOnly
    Roles <- MCRoles
    Users <- MCPair
    FirstRoles <- MCPairRoles
    Groups = {g1, g2}
    OldGroups = {g1}
    ManualTags <- HarmlessTags
    TagStrangers = FALSE
    Slots = {s1, s2}
    Concurrent = TRUE
    MaxOps = 3
SPECIFICATION PushSpec
SYMMETRY SlotSymmetry
CHECK_DEADLOCK FALSE
INVARIANTS
    PushTypeOK
    MembersAreShown
    GroupsAreShown
