------------------------- MODULE MCMissingResources -------------------------
(* Two groups, two repositories.  Lines that name one group or both, lines   *)
(* with a project option, the same with a mention of a description, and      *)
(* lines whose last one has run into a header, of which nothing is left when *)
(* the header goes.  The trees: nothing; an ACL with a label of its own; the *)
(* same under the digest of its text, next to a repository without ACL; an   *)
(* ACL whose text was edited under the id of the text it had before; an ACL  *)
(* that is indented with tabs.                                               *)
EXTENDS MissingResources

CONSTANTS g1, g2, r1, r2, a1, one, both, none, option, worded, torn

MCGroups == {g1, g2}
MCRepos == {r1, r2}
MCLabels == {a1}
MCRules == {one, both, none, option, worded, torn}
MCGroupsIn == [x \in MCRules |-> IF x = none THEN {} ELSE IF x \in {both, worded} THEN MCGroups ELSE {g1}]
MCWithOptions == {option, worded}
MCWithout == [w \in Words |-> [x \in MCRules |->
    IF w = "description" /\ x = worded THEN option
    ELSE IF w = "[project]" /\ x = torn THEN none ELSE x]]
MCGlued == [x \in MCRules |-> IF x = one THEN torn ELSE x]
MCFormatted == [x \in MCRules |-> {x}]

Plain(x) == [rules |-> x, tidy |-> TRUE, ended |-> TRUE, headers |-> 0,
             described |-> FALSE, literal |-> FALSE]
Indented == [Plain(one) EXCEPT !.tidy = FALSE]
Unended == [Plain(one) EXCEPT !.ended = FALSE]
AclOf(t) == [file |-> t, groups |-> MCGroupsIn[t.rules]]
Under(a, t) == [x \in {a} |-> AclOf(t)]
Has(r, a) == [q \in {r} |-> a]

MCTrees ==
    {[groups |-> {}, acls |-> Empty, repos |-> Empty],
     [groups |-> {g1}, acls |-> Under(a1, Plain(one)), repos |-> Has(r1, a1)],
     [groups |-> MCGroups, acls |-> Under(Plain(one), Plain(one)), repos |-> Has(r1, NoAcl)],
     [groups |-> MCGroups, acls |-> Under(Plain(one), Plain(both)), repos |-> Has(r1, Plain(one))],
     [groups |-> {g1}, acls |-> Under(a1, Indented), repos |-> Has(r1, a1)]}

\* ACLs as the engine pushes them: a neat one, one that is indented with tabs,
\* one that is not ended; and a file with an option and a mention of a
\* description that somebody has written.
MCConfigs ==
    Pushed(Plain(one)) \union Pushed(Indented) \union {t \in Pushed(Unended) : t.described}
    \union {[rules |-> worded, tidy |-> FALSE, ended |-> TRUE, headers |-> 1,
             described |-> TRUE, literal |-> FALSE]}
=============================================================================
