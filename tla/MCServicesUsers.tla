-------------------------- MODULE MCServicesUsers --------------------------
(* Two people: the admin, whose Gerrit account has always been there and to *)
(* whom the identity provider has given two ids one after the other, and    *)
(* joe, who has none.  Gerrit can give one more id at a time.               *)
EXTENDS ServicesUsers, TLC

MCPeople == {"admin", "joe"}
MCExtIds == 1..2
MCOwner == <<"admin", "admin">>
MCGerritIds == {5}

CONSTANTS Old, New, User1, User2
MCInfos == {Old, New}
MCUserIds == {User1, User2}
Symmetry == Permutations(MCInfos) \union Permutations(MCUserIds)
=============================================================================
