--------------------------- MODULE MCMembership ---------------------------
(***************************************************************************)
(* TLC instances of Membership: two members of staff with different roles  *)
(* and a guest the database does not know yet.                             *)
(***************************************************************************)
EXTENDS Membership, TLC

CONSTANTS lead, seller, guest, Lead, Seller, custom

MCUsers == {lead, seller, guest}
MCRoles == {Lead, Seller}
MCFirstRoles == [u \in MCUsers |->
    CASE u = lead -> Lead
      [] u = seller -> Seller
      [] OTHER -> NoUser]

\* The tasks in flight are interchangeable.
SlotSymmetry == Permutations(Slots)

NoTags == {}
EveryTag == {Lead, Seller, Client, custom}
HarmlessTags == {Client, custom}
CustomOnly == {custom}
=============================================================================
