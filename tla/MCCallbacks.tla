---------------------------- MODULE MCCallbacks ----------------------------
(* One resource of each kind.  The admin can be listed in a group or not,   *)
(* one person is, or is not, next to an account without an email; an ACL    *)
(* names up to two groups; of two repositories each can stay in a project,  *)
(* join it or leave it.                                                     *)
EXTENDS Callbacks, TLC

CONSTANTS admin, joe, bot, sub, acl, plain, dev, ops, r1, r2, d1, d2

MCTexts == {d1, d2}
MCPeople == {admin, joe}
MCNameless == {bot}
MCSubgroups == {sub}
MCAcls == {acl}
MCAclGroups == {dev, ops}
MCRepos == {r1, r2}
\* The one CHOOSE among several values, AnyText, is among neither.
MCSymmetry == Permutations({dev, ops}) \union Permutations({r1, r2})
=============================================================================
