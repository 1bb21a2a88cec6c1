CONSTANTS
    lead = lead
    seller = seller
    guest = guest
    Lead = Lead
    Seller = Seller
    custom = custom
    Client = Client
    NoRole = NoRole
    NoUser = NoUser
    CustomTags <- CustomOnly
    Roles <- MCRoles
    Users <- MCUsers
    FirstRoles <- MCFirstRoles
    Groups = {g1, g2}
    OldGroups = {g1}
    ManualTags <- EveryTag
    TagStrangers = TRUE
    Slots = {s1, s2}
    Concurrent = TRUE
    MaxOps = 3
SPECIFICATION Spec
SYMMETRY SlotSymmetry
CHECK_DEADLOCK FALSE
INVARIANTS
    PendingAreClients
PROPERTIES
    RoleChangeIsComplete
    CreatedGroupHasTeam
    
    OverlookedOnlyByLateCommit
    StaffRowSurvives
    CustomTagsGoWithMembership
