-------------------------- MODULE MissingResources --------------------------
(***************************************************************************)
(* GET /resources?get_missing_resources=true                               *)
(* (managesf/model/yamlbkd/engine.py): what Gerrit has and the tree of the *)
(* config repository lacks, proposed as resources to add to the tree.      *)
(* Gerrit is read call by call, repositories first and groups last, which  *)
(* is how CPython 2.7 walks MAPPING, while others change it.               *)
(*                                                                         *)
(* Groups and repositories are known by their names.  An ACL is known by   *)
(* its text; its id is the one its author chose, or, in a proposal, the    *)
(* digest of the text, for which the text itself stands here.  Of a text   *)
(* the model has what install_acl and get_all look at: its project section *)
(* and description, and the rest of its lines, which they may spoil.       *)
(***************************************************************************)
EXTENDS Naturals

CONSTANTS Groups, Repos, Labels,
          Rules,       \* the lines of texts, project headers and description aside
          GroupsIn,    \* the groups that lines name, default groups aside
          WithOptions, \* lines with options for the project section
          Without,     \* lines without those that have a word
          Glued,       \* lines whose last one runs into what is appended
          Formatted,   \* lines after %: none if that raises
          NoAcl,       \* that of a repository which has none in the tree
          Trees,       \* trees that contributors commit
          Configs      \* files project.config that people push

Words == {"description", "[project]"}

\* A text: whether it is free of tabs and of blanks at the ends of lines,
\* whether its last line is ended, how many project headers it has, whether
\* that section has a description, and whether "description =" is anywhere.
Text == [rules: Rules, tidy: BOOLEAN, ended: BOOLEAN, headers: Nat,
         described: BOOLEAN, literal: BOOLEAN]

\* What the tree says of an ACL.
Acl == [file: Text, groups: SUBSET Groups]

\* Partial functions.
Defined(f, D, R) == f \in [DOMAIN f -> R] /\ DOMAIN f \subseteq D
Union(f, g) ==
    [x \in DOMAIN f \union DOMAIN g |-> IF x \in DOMAIN f THEN f[x] ELSE g[x]]
Empty == [x \in {} |-> NoAcl]

IsTree(t) ==
    /\ t = [groups |-> t.groups, acls |-> t.acls, repos |-> t.repos]
    /\ t.groups \subseteq Groups
    /\ Defined(t.acls, Labels \union Text, Acl)
    /\ Defined(t.repos, Repos, Labels \union Text \union {NoAcl})

\* _check_deps_constraints and _check_unicity_constraints
Closed(t) ==
    /\ \A a \in DOMAIN t.acls : t.acls[a].groups \subseteq t.groups
    /\ \A r \in DOMAIN t.repos : t.repos[r] \in DOMAIN t.acls \union {NoAcl}
Unique(t) == \A a, b \in DOMAIN t.acls : t.acls[a].file = t.acls[b].file => a = b

ASSUME IdsAssumption == Labels \intersect Text = {} /\ NoAcl \notin Labels \union Text
ASSUME RulesAssumption ==
    /\ GroupsIn \in [Rules -> SUBSET Groups] /\ WithOptions \subseteq Rules
    /\ Without \in [Words -> [Rules -> Rules]]
    /\ Glued \in [Rules -> Rules] /\ Formatted \in [Rules -> SUBSET Rules]
ASSUME ConfigsAssumption == Configs \subseteq Text
ASSUME TreesAssumption == \A t \in Trees : IsTree(t) /\ Closed(t) /\ Unique(t)

VARIABLES
    tree,       \* groups, ACLs and repositories on master of the config repository
    gerrit,     \* groups, and the project.config of the repositories
    seen,       \* reality
    left,       \* repositories still to be read
    pc,
    logged,     \* something was logged
    proposal,   \* ret_tree
    lost,       \* ghost: groups that Gerrit lacked when an ACL that names them
                \* was read, or that it has lost since
    still,      \* ghost: Gerrit is as it was when the request came
    settled     \* ghost: the last proposal was adopted, and nothing changed since

vars == <<tree, gerrit, seen, left, pc, logged, proposal, lost, still, settled>>
answer == <<seen, left, logged, proposal>>

NothingSeen == [groups |-> {}, acls |-> Empty, repos |-> Empty]
NoProposal == [groups |-> {}, acls |-> Empty, repos |-> Empty]

Init ==
    /\ tree \in Trees
    /\ gerrit = [groups |-> {}, repos |-> Empty] /\ seen = NothingSeen /\ left = {}
    /\ pc = "idle" /\ logged = FALSE /\ proposal = NoProposal
    /\ lost = {} /\ still = TRUE /\ settled = FALSE

\* A plausible slip: a list survives the request.
OverButList ==
    /\ pc' = "idle" /\ seen' = NothingSeen /\ UNCHANGED left
    /\ logged' = FALSE /\ proposal' = NoProposal /\ lost' = {} /\ still' = TRUE

\* The request is over, its objects are gone.
Over ==
    /\ pc' = "idle" /\ seen' = NothingSeen /\ left' = {}
    /\ logged' = FALSE /\ proposal' = NoProposal /\ lost' = {} /\ still' = TRUE

-----------------------------------------------------------------------------

\* The text t with other lines and a description, in a project section if isIts.
Described(t, lines, headers, isIts) ==
    [rules |-> lines, tidy |-> t.tidy, ended |-> TRUE, headers |-> headers,
     described |-> isIts, literal |-> TRUE]

\* install_acl: what can be pushed of a text.  The description replaces what
\* follows "description =", wherever that is (only lines with this word change,
\* and the reader keeps none of them).  Otherwise header and description are
\* appended, to the last line if that is not ended, and the whole is formatted.
Pushed(t) ==
    IF t.literal THEN {t}
    ELSE IF t.ended THEN {Described(t, x, t.headers + 1, TRUE) : x \in Formatted[t.rules]}
    ELSE {Described(t, x, t.headers, d) : x \in Formatted[Glued[t.rules]], d \in {t.described, TRUE}}

\* A plausible slip: the header stays when the description goes.
Undescribed(c) ==
    [rules |-> Without["description"][c.rules], tidy |-> TRUE, ended |-> TRUE,
     headers |-> c.headers, described |-> FALSE, literal |-> FALSE]

\* get_all: every line with the word "description" is removed, and every one
\* with "[project]" if the section has nothing else; tabs become blanks, blanks
\* at the ends of lines go, and every line is ended.
Cleaned(c) ==
    LET bare == c.described /\ c.rules \notin WithOptions
        kept == Without["description"][c.rules]
    IN  [rules |-> IF bare THEN Without["[project]"][kept] ELSE kept,
         tidy |-> TRUE, ended |-> TRUE, headers |-> IF bare THEN 0 ELSE c.headers,
         described |-> FALSE, literal |-> FALSE]

\* The request reads the tree, once; what is merged later counts as merged
\* after the answer.
Ask ==
    /\ pc = "idle" /\ pc' = "asked"
    /\ UNCHANGED <<tree, gerrit, answer, lost, still, settled>>

ListRepos ==
    /\ pc = "asked"
    /\ left' = DOMAIN gerrit.repos /\ pc' = "acls"
    /\ UNCHANGED <<tree, gerrit, seen, logged, proposal, lost, still, settled>>

\* Fetches the branch meta/config of a repository.  Groups are those named
\* before any line is removed; the last repository read with a text decides
\* which the ACL has.
ReadRepo(r) ==
    /\ pc = "acls" /\ r \in left /\ r \in DOMAIN gerrit.repos
    /\ LET text == Cleaned(gerrit.repos[r])
           named == GroupsIn[gerrit.repos[r].rules]
           acl == [file |-> text, groups |-> named]
       IN  /\ seen' = [seen EXCEPT !.repos = Union([q \in {r} |-> text], @),
                                   !.acls = Union([t \in {text} |-> acl], @)]
           /\ lost' = lost \union (named \ gerrit.groups)
    /\ left' = left \ {r}
    /\ UNCHANGED <<tree, gerrit, pc, logged, proposal, still, settled>>

\* The list of repositories, logged or not, is used; git may fail too: 500.
ReadFails ==
    /\ pc \in {"asked", "acls"}
    /\ Over
    /\ UNCHANGED <<tree, gerrit, settled>>

\* current_cache_ids: the tree has an ACL with this text.
Known(t) == \E a \in DOMAIN tree.acls : tree.acls[a].file = t

\* A plausible slip: dependencies are left as they were read.
DigestOf(t) == t

\* already_exist_ids, else the id it was read under.
IdOf(t) ==
    IF Known(t) THEN CHOOSE a \in DOMAIN tree.acls : tree.acls[a].file = t ELSE t

\* A plausible slip: ACLs are looked for under their ids.
AnewById(texts) == texts \ DOMAIN tree.acls

\* A plausible slip: the text is compared as it is on Gerrit.
AnewAsPushed(texts) == {t \in texts : \A u \in Pushed(t) : ~Known(u)}

\* ACLs whose text the tree does not have.
Anew(texts) == {t \in texts : ~Known(t)}

\* _get_missing_resources_diff
Missing(groups, acls, repos) ==
    [groups |-> groups \ tree.groups,
     acls |-> [t \in Anew(DOMAIN acls) |-> acls[t]],
     repos |-> [r \in DOMAIN repos \ DOMAIN tree.repos |-> IdOf(repos[r])]]

\* A plausible slip: the exception is swallowed.
ReadGroupsQuietly ==
    /\ pc = "acls" /\ left = {}
    /\ \E groups \in {gerrit.groups, {}} :
          /\ seen' = [seen EXCEPT !.groups = groups]
          /\ proposal' = Missing(groups, seen.acls, seen.repos)
    /\ pc' = "answered"
    /\ UNCHANGED <<tree, gerrit, left, logged, lost, still, settled>>

\* Groups are listed, and their members; of what fails, logs are all that is left.
ReadGroups ==
    /\ pc = "acls" /\ left = {}
    /\ \E groups \in {gerrit.groups, {}}, fails \in BOOLEAN :
          /\ groups # gerrit.groups => fails
          /\ logged' = fails
          /\ seen' = [seen EXCEPT !.groups = groups]
          /\ proposal' = Missing(groups, seen.acls, seen.repos)
    /\ pc' = "answered"
    /\ UNCHANGED <<tree, gerrit, left, lost, still, settled>>

-----------------------------------------------------------------------------

\* No ACL of the tree has the digest of another text for an id.
NoClash == \A t \in DOMAIN tree.acls \intersect Text : tree.acls[t].file = t

Merged ==
    [groups |-> tree.groups \union proposal.groups,
     acls |-> Union(tree.acls, proposal.acls),
     repos |-> Union(tree.repos, proposal.repos)]

\* A proposal becomes a commit, which the gate has accepted.
Adopt ==
    /\ pc = "answered"
    /\ Closed(Merged) /\ Unique(Merged)
    /\ tree' = Merged
    /\ settled' = (~logged /\ still /\ NoClash)
    /\ Over
    /\ UNCHANGED gerrit

\* Or something else does.
Commit ==
    /\ pc = "answered"
    /\ tree' \in Trees
    /\ settled' = FALSE
    /\ Over
    /\ UNCHANGED gerrit

\* Or nothing.
Drop ==
    /\ pc = "answered"
    /\ Over
    /\ UNCHANGED <<tree, gerrit, settled>>

\* Somebody changes Gerrit; after the answer is the same as after what is made of it.
ByHand ==
    /\ pc # "answered"
    /\ \/ \E g \in Groups \ gerrit.groups :
             gerrit' = [gerrit EXCEPT !.groups = @ \union {g}] /\ UNCHANGED lost
       \/ \E g \in gerrit.groups :
             /\ gerrit' = [gerrit EXCEPT !.groups = @ \ {g}]
             /\ lost' = IF pc = "acls" THEN lost \union {g} ELSE {}
       \/ \E r \in Repos, c \in Configs :
             /\ gerrit' = [gerrit EXCEPT !.repos = Union([q \in {r} |-> c], @)]
             /\ UNCHANGED lost
       \/ \E r \in DOMAIN gerrit.repos :
             /\ gerrit' = [gerrit EXCEPT !.repos = [q \in DOMAIN @ \ {r} |-> @[q]]]
             /\ UNCHANGED lost
    /\ still' = (pc = "idle") /\ settled' = FALSE
    /\ UNCHANGED <<tree, pc, answer>>

Next ==
    \/ Ask \/ ListRepos \/ ReadFails \/ ReadGroups
    \/ \E r \in Repos : ReadRepo(r)
    \/ Adopt \/ Commit \/ Drop \/ ByHand

Spec == Init /\ [][Next]_vars

-----------------------------------------------------------------------------

\* Types; the tree passes the checks of validate() whatever is adopted, and
\* nothing of a request outlives it.
TypeOK ==
    /\ IsTree(tree) /\ Closed(tree) /\ Unique(tree)
    /\ gerrit = [groups |-> gerrit.groups, repos |-> gerrit.repos]
    /\ gerrit.groups \subseteq Groups /\ Defined(gerrit.repos, Repos, Text)
    /\ seen = [groups |-> seen.groups, acls |-> seen.acls, repos |-> seen.repos]
    /\ seen.groups \subseteq Groups
    /\ Defined(seen.acls, Text, Acl) /\ Defined(seen.repos, Repos, Text)
    /\ IsTree(proposal)
    /\ left \subseteq Repos /\ (pc # "acls" => left = {})
    /\ pc \in {"idle", "asked", "acls", "answered"}
    /\ logged \in BOOLEAN /\ lost \subseteq Groups
    /\ still \in BOOLEAN /\ settled \in BOOLEAN

\* With the proposal the tree passes the check of unicity, and every proposed
\* repository is given the ACL that was read from it, under whatever id the tree
\* has it, or under the id it is proposed under.
ProposalSound ==
    pc = "answered" /\ NoClash =>
        /\ Unique(Merged)
        /\ \A r \in DOMAIN proposal.repos :
              /\ proposal.repos[r] \in DOMAIN Merged.acls
              /\ Merged.acls[proposal.repos[r]].file = seen.repos[r]

\* A proposal that is complete depends on no group but those of the tree, its
\* own, and those that Gerrit had lost when the ACL was read, or lost since.
OnlyLostDangle ==
    pc = "answered" /\ ~logged =>
        \A a \in DOMAIN proposal.acls :
            proposal.acls[a].groups \subseteq Merged.groups \union lost

\* What was adopted is not proposed again.
AdoptedIsQuiet == pc = "answered" /\ settled => proposal = NoProposal

\* Texts that install_acl and get_all carry through unchanged: no tabs, no blanks
\* at the ends of lines, the last line ended; no project section of their own;
\* the word "description" nowhere, "[project]" nowhere else; and no % in them.
Neat(t) ==
    /\ t.tidy /\ t.ended
    /\ t.headers = 0 /\ ~t.described /\ ~t.literal /\ t.rules \notin WithOptions
    /\ \A w \in Words : Without[w][t.rules] = t.rules
    /\ Formatted[t.rules] = {t.rules}

\* Gerrit has nothing but what the tree has, as the engine installs it, and no
\* repository without an ACL (which the engine gives one that the tree lacks).
InLine ==
    /\ gerrit.groups \subseteq tree.groups
    /\ \A r \in DOMAIN gerrit.repos :
          /\ r \in DOMAIN tree.repos /\ tree.repos[r] # NoAcl
          /\ gerrit.repos[r] \in Pushed(tree.acls[tree.repos[r]].file)

AreNeat == \A r \in DOMAIN gerrit.repos : Neat(tree.acls[tree.repos[r]].file)

\* What the engine applied is not proposed either, if it is all that Gerrit has,
\* every repository has an ACL in the tree, and the texts of these are neat.
InLineIsQuiet == pc = "answered" /\ still /\ InLine /\ AreNeat => proposal = NoProposal

\* Nothing is proposed that the tree has: not what has been adopted, and not
\* what the engine has applied where every repository has an ACL with a neat text.
NotProposedAgain == AdoptedIsQuiet /\ InLineIsQuiet
=============================================================================
