----------------------- MODULE MissingResourcesProofs -----------------------
(* What a proposal of missing resources is worth, for every Gerrit, every   *)
(* valid tree and every change made to Gerrit while it is read.             *)
EXTENDS MissingResources, TLAPS

\* Every ACL read is that of a repository read, under its text.
Pairs ==
    /\ \A r \in DOMAIN seen.repos : seen.repos[r] \in DOMAIN seen.acls
    /\ \A t \in DOMAIN seen.acls :
          seen.acls[t].file = t /\ \E r \in DOMAIN seen.repos : seen.repos[r] = t

\* Repositories read, and repositories to read, against those of Gerrit.
Reading ==
    /\ Pairs /\ left \intersect DOMAIN seen.repos = {}
    /\ pc \in {"idle", "asked"} => seen = NothingSeen
    /\ pc \in {"acls", "answered"} =>
          \A t \in DOMAIN seen.acls : seen.acls[t].groups \subseteq gerrit.groups \union lost
    /\ still /\ pc \in {"acls", "answered"} =>
          /\ DOMAIN gerrit.repos = DOMAIN seen.repos \union left
          /\ \A r \in DOMAIN seen.repos : seen.repos[r] = Cleaned(gerrit.repos[r])

\* The answer is the difference, and without logs it is that of all groups.
Answered ==
    IF pc = "answered"
    THEN /\ proposal = Missing(seen.groups, seen.acls, seen.repos)
         /\ seen.groups \subseteq gerrit.groups
         /\ ~logged => seen.groups = gerrit.groups
    ELSE proposal = NoProposal /\ seen.groups = {}

\* The tree t has all that Gerrit has.
Has(t) ==
    /\ gerrit.groups \subseteq t.groups
    /\ \A r \in DOMAIN gerrit.repos :
          /\ r \in DOMAIN t.repos
          /\ \E a \in DOMAIN t.acls : t.acls[a].file = Cleaned(gerrit.repos[r])

MInv == TypeOK /\ Reading /\ Answered /\ (settled => Has(tree) /\ still)

-----------------------------------------------------------------------------

LEMMA CleanedText == ASSUME NEW c \in Text PROVE Cleaned(c) \in Text
  <1>1. \A x \in Rules, w \in Words : Without[w][x] \in Rules
    BY RulesAssumption
  <1>2. "description" \in Words /\ "[project]" \in Words
    BY DEF Words
  <1>. QED
    BY <1>1, <1>2 DEF Text, Cleaned

LEMMA UnionDefined ==
    ASSUME NEW f, NEW g, NEW D, NEW R, Defined(f, D, R), Defined(g, D, R)
    PROVE  Defined(Union(f, g), D, R)
  BY DEF Defined, Union

LEMMA UnionValues ==
    ASSUME NEW f, NEW g
    PROVE  /\ DOMAIN Union(f, g) = DOMAIN f \union DOMAIN g
           /\ \A x \in DOMAIN f : Union(f, g)[x] = f[x]
           /\ \A x \in DOMAIN g \ DOMAIN f : Union(f, g)[x] = g[x]
  BY DEF Union

LEMMA EmptyFacts == DOMAIN Empty = {} /\ \A D, R : Defined(Empty, D, R)
  BY DEF Empty, Defined

\* What a proposal m says of groups, ACLs and repositories: a tree, whose ACLs
\* are those read that the tree does not have.
Proposed(m, groups, acls, repos) ==
    /\ IsTree(m)
    /\ m.groups = groups \ tree.groups
    /\ DOMAIN m.repos = DOMAIN repos \ DOMAIN tree.repos
    /\ \A r \in DOMAIN m.repos : m.repos[r] = IdOf(repos[r])
    /\ \A t \in DOMAIN m.acls : t \in DOMAIN acls /\ m.acls[t] = acls[t] /\ ~Known(t) /\ t \in Text
    /\ \A t \in DOMAIN acls : ~Known(t) => t \in DOMAIN m.acls

LEMMA MissingFacts ==
    ASSUME IsTree(tree), NEW groups \in SUBSET Groups,
           NEW acls, Defined(acls, Text, Acl), NEW repos, Defined(repos, Repos, Text),
           NEW m, m = Missing(groups, acls, repos)
    PROVE  Proposed(m, groups, acls, repos)
  <1>1. m = [groups |-> groups \ tree.groups, acls |-> [t \in Anew(DOMAIN acls) |-> acls[t]],
             repos |-> [r \in DOMAIN repos \ DOMAIN tree.repos |-> IdOf(repos[r])]]
    BY DEF Missing
  <1>2. /\ Anew(DOMAIN acls) \subseteq Text /\ Anew(DOMAIN acls) \subseteq DOMAIN acls
        /\ \A t \in Anew(DOMAIN acls) : ~Known(t) /\ acls[t] \in Acl
        /\ \A t \in DOMAIN acls : ~Known(t) => t \in Anew(DOMAIN acls)
    BY DEF Anew, Defined
  <1>4. ASSUME NEW r \in DOMAIN repos PROVE IdOf(repos[r]) \in Labels \union Text
    <2>1. repos[r] \in Text
      BY DEF Defined
    <2>2. CASE Known(repos[r])
      <3>1. IdOf(repos[r]) \in DOMAIN tree.acls
        BY <2>2 DEF IdOf, Known
      <3>. QED
        BY <3>1 DEF IsTree, Defined
    <2>. QED
      BY <2>1, <2>2 DEF IdOf
  <1>5. DOMAIN repos \subseteq Repos
    BY DEF Defined
  <1>6. IsTree(m)
    <2>1. Defined(m.acls, Labels \union Text, Acl)
      BY <1>1, <1>2 DEF Defined
    <2>2. Defined(m.repos, Repos, Labels \union Text \union {NoAcl})
      BY <1>1, <1>4, <1>5 DEF Defined
    <2>3. m = [groups |-> m.groups, acls |-> m.acls, repos |-> m.repos] /\ m.groups \subseteq Groups
      BY <1>1
    <2>. QED
      BY <2>1, <2>2, <2>3 DEF IsTree
  <1>. QED
    BY <1>1, <1>2, <1>6 DEF Proposed

\* Merging a proposal keeps types and unicity, resolves repositories, and
\* leaves no group or repository out.
LEMMA MergedFacts ==
    ASSUME TypeOK, Pairs, pc = "answered",
           proposal = Missing(seen.groups, seen.acls, seen.repos)
    PROVE  /\ IsTree(Merged)
           /\ Merged.groups = tree.groups \union seen.groups
           /\ DOMAIN Merged.repos = DOMAIN tree.repos \union DOMAIN seen.repos
           /\ ProposalSound
           /\ NoClash => \A r \in DOMAIN seen.repos :
                            \E a \in DOMAIN Merged.acls : Merged.acls[a].file = seen.repos[r]
  <1>1. /\ IsTree(proposal)
        /\ proposal.groups = seen.groups \ tree.groups
        /\ DOMAIN proposal.repos = DOMAIN seen.repos \ DOMAIN tree.repos
        /\ \A r \in DOMAIN proposal.repos : proposal.repos[r] = IdOf(seen.repos[r])
        /\ \A t \in DOMAIN proposal.acls : proposal.acls[t].file = t /\ ~Known(t) /\ t \in Text
        /\ \A r \in DOMAIN seen.repos : ~Known(seen.repos[r]) => seen.repos[r] \in DOMAIN proposal.acls
    <2>1. /\ IsTree(tree) /\ seen.groups \in SUBSET Groups
          /\ Defined(seen.acls, Text, Acl) /\ Defined(seen.repos, Repos, Text)
      BY DEF TypeOK
    <2>2. Proposed(proposal, seen.groups, seen.acls, seen.repos)
      BY <2>1, MissingFacts
    <2>. QED
      BY <2>2 DEF Proposed, Pairs
  <1>2. /\ Defined(Merged.acls, Labels \union Text, Acl)
        /\ DOMAIN Merged.acls = DOMAIN tree.acls \union DOMAIN proposal.acls
        /\ \A x \in DOMAIN tree.acls : Merged.acls[x] = tree.acls[x]
        /\ \A x \in DOMAIN proposal.acls \ DOMAIN tree.acls : Merged.acls[x] = proposal.acls[x]
    <2>1. Defined(tree.acls, Labels \union Text, Acl) /\ Defined(proposal.acls, Labels \union Text, Acl)
      BY <1>1 DEF TypeOK, IsTree
    <2>2. Merged.acls = Union(tree.acls, proposal.acls)
      BY DEF Merged
    <2>3. Defined(Merged.acls, Labels \union Text, Acl)
      BY <2>1, <2>2, UnionDefined
    <2>. QED
      BY <2>2, <2>3 DEF Union
  <1>3. /\ Defined(Merged.repos, Repos, Labels \union Text \union {NoAcl})
        /\ DOMAIN Merged.repos = DOMAIN tree.repos \union DOMAIN proposal.repos
    <2> DEFINE Ids == Labels \union Text \union {NoAcl}
    <2>1. Defined(tree.repos, Repos, Ids) /\ Defined(proposal.repos, Repos, Ids)
      BY <1>1 DEF TypeOK, IsTree
    <2>2. Merged.repos = Union(tree.repos, proposal.repos)
      BY DEF Merged
    <2>3. Defined(Merged.repos, Repos, Ids)
      BY <2>1, <2>2, UnionDefined
    <2>. QED
      BY <2>2, <2>3 DEF Union
  <1>4. /\ Merged.groups = tree.groups \union proposal.groups
        /\ Merged = [groups |-> Merged.groups, acls |-> Merged.acls, repos |-> Merged.repos]
    BY DEF Merged
  <1>5. IsTree(Merged)
    BY <1>1, <1>2, <1>3, <1>4 DEF IsTree, TypeOK
  <1>6. ASSUME NoClash, NEW t \in DOMAIN proposal.acls
        PROVE  t \in DOMAIN Merged.acls /\ t \notin DOMAIN tree.acls /\ Merged.acls[t].file = t
    BY <1>1, <1>2, <1>6 DEF NoClash, Known
  <1>7. ASSUME NoClash, NEW r \in DOMAIN seen.repos
        PROVE  IdOf(seen.repos[r]) \in DOMAIN Merged.acls /\ Merged.acls[IdOf(seen.repos[r])].file = seen.repos[r]
    <2>1. CASE Known(seen.repos[r])
      <3>1. IdOf(seen.repos[r]) \in DOMAIN tree.acls /\ tree.acls[IdOf(seen.repos[r])].file = seen.repos[r]
        BY <2>1 DEF IdOf, Known
      <3>. QED
        BY <3>1, <1>2
    <2>2. CASE ~Known(seen.repos[r])
      BY <2>2, <1>1, <1>6, <1>7 DEF IdOf
    <2>. QED
      BY <2>1, <2>2
  <1>9. ASSUME NoClash, NEW a \in DOMAIN Merged.acls, NEW b \in DOMAIN Merged.acls,
               Merged.acls[a].file = Merged.acls[b].file
        PROVE  a = b
    <2>1. CASE a \in DOMAIN tree.acls /\ b \in DOMAIN tree.acls
      BY <1>2, <1>9, <2>1 DEF TypeOK, Unique
    <2>2. CASE a \in DOMAIN tree.acls /\ b \notin DOMAIN tree.acls
      BY <1>1, <1>2, <1>6, <1>9, <2>2 DEF Known
    <2>3. CASE a \notin DOMAIN tree.acls /\ b \in DOMAIN tree.acls
      BY <1>1, <1>2, <1>6, <1>9, <2>3 DEF Known
    <2>4. CASE a \notin DOMAIN tree.acls /\ b \notin DOMAIN tree.acls
      BY <1>2, <1>6, <1>9, <2>4
    <2>. QED
      BY <2>1, <2>2, <2>3, <2>4
  <1>10. ProposalSound
    BY <1>1, <1>7, <1>9 DEF ProposalSound, Unique
  <1>. QED
    BY <1>1, <1>3, <1>4, <1>5, <1>7, <1>10

\* The end of a request keeps the invariant, if the tree is still valid.
LEMMA OverInvariant ==
    ASSUME MInv, Over, UNCHANGED gerrit, IsTree(tree)', Closed(tree)', Unique(tree)',
           settled' \in BOOLEAN, settled' => Has(tree')
    PROVE  MInv'
  <1>1. IsTree(NoProposal)
    BY EmptyFacts DEF NoProposal, IsTree
  <1>2. TypeOK'
    BY <1>1, EmptyFacts DEF MInv, TypeOK, Over, NothingSeen
  <1>3. (settled => Has(tree) /\ still)'
    BY DEF Over, Has, Cleaned
  <1>. QED
    BY <1>2, <1>3, EmptyFacts DEF MInv, Over, Reading, Pairs, Answered, NothingSeen

LEMMA MissingStep == ASSUME MInv, [Next]_vars PROVE MInv'
  <1>. USE DEF MInv
  <1>1. CASE Ask
    BY <1>1 DEF Ask, answer, TypeOK, Reading, Pairs, Answered, Has, Cleaned, IsTree, Closed, Unique
  <1>2. CASE ListRepos
    <2>1. UNCHANGED <<tree, gerrit, seen, logged, proposal, lost, still, settled>> /\ pc = "asked"
          /\ pc' = "acls" /\ left' = DOMAIN gerrit.repos /\ seen = NothingSeen
      BY <1>2 DEF ListRepos, Reading
    <2>2. TypeOK'
      BY <2>1 DEF TypeOK, IsTree, Closed, Unique, Defined
    <2>3. Reading'
      BY <2>1, EmptyFacts DEF Reading, Pairs, NothingSeen
    <2>. QED
      BY <2>1, <2>2, <2>3 DEF Answered, Has, Cleaned
  <1>3. CASE ReadFails
    BY <1>3, OverInvariant DEF ReadFails, TypeOK, IsTree, Closed, Unique, Has
  <1>4. CASE ReadGroups
    <2>1. PICK groups \in {gerrit.groups, {}}, fails \in BOOLEAN :
             /\ groups # gerrit.groups => fails
             /\ logged' = fails /\ seen' = [seen EXCEPT !.groups = groups]
             /\ proposal' = Missing(groups, seen.acls, seen.repos)
      BY <1>4 DEF ReadGroups
    <2>2. /\ pc = "acls" /\ pc' = "answered" /\ left = {}
          /\ UNCHANGED <<tree, gerrit, left, lost, still, settled>>
      BY <1>4 DEF ReadGroups
    <2>3. /\ seen'.groups = groups /\ seen'.acls = seen.acls /\ seen'.repos = seen.repos
          /\ seen' = [groups |-> seen'.groups, acls |-> seen'.acls, repos |-> seen'.repos]
          /\ groups \subseteq gerrit.groups
      BY <2>1, <2>2 DEF TypeOK
    <2>4. IsTree(proposal')
      <3>1. /\ IsTree(tree) /\ groups \in SUBSET Groups
            /\ Defined(seen.acls, Text, Acl) /\ Defined(seen.repos, Repos, Text)
        BY <2>3 DEF TypeOK
      <3>2. Proposed(proposal', groups, seen.acls, seen.repos)
        BY <2>1, <3>1, MissingFacts
      <3>. QED
        BY <3>2 DEF Proposed
    <2>5. TypeOK'
      BY <2>1, <2>2, <2>3, <2>4 DEF TypeOK, IsTree, Closed, Unique
    <2>6. Reading'
      BY <2>2, <2>3 DEF Reading, Pairs, Cleaned
    <2>7. Answered'
      <3>1. Missing(groups, seen.acls, seen.repos) = Missing(seen.groups, seen.acls, seen.repos)'
        BY <2>2, <2>3 DEF Missing, Anew, Known, IdOf
      <3>. QED
        BY <2>1, <2>2, <2>3, <3>1 DEF Answered
    <2>8. (settled => Has(tree) /\ still)'
      BY <2>2 DEF Has, Cleaned
    <2>. QED
      BY <2>5, <2>6, <2>7, <2>8
  <1>5. ASSUME NEW r \in Repos, ReadRepo(r) PROVE MInv'
    <2> DEFINE text == Cleaned(gerrit.repos[r])
               named == GroupsIn[gerrit.repos[r].rules]
               acl == [file |-> text, groups |-> named]
               one == [q \in {r} |-> text]
               its == [t \in {text} |-> acl]
    <2>1. /\ pc = "acls" /\ r \in left /\ r \in DOMAIN gerrit.repos
          /\ seen' = [seen EXCEPT !.repos = Union(one, @), !.acls = Union(its, @)]
          /\ lost' = lost \union (named \ gerrit.groups)
          /\ left' = left \ {r}
          /\ UNCHANGED <<tree, gerrit, pc, logged, proposal, still, settled>>
      BY <1>5 DEF ReadRepo
    <2>2. gerrit.repos[r] \in Text
      BY <2>1 DEF TypeOK, Defined
    <2>3. text \in Text /\ named \subseteq Groups /\ acl \in Acl
      <3>1. named \subseteq Groups
        BY <2>2, RulesAssumption DEF Text
      <3>. QED
        BY <2>2, <3>1, CleanedText DEF Acl
    <2>4. /\ Defined(one, Repos, Text) /\ DOMAIN one = {r} /\ one[r] = text
          /\ Defined(its, Text, Acl) /\ DOMAIN its = {text} /\ its[text] = acl
      BY <2>3 DEF Defined
    <2>5. /\ seen' = [groups |-> seen.groups, acls |-> Union(its, seen.acls),
                      repos |-> Union(one, seen.repos)]
          /\ Defined(seen.acls, Text, Acl) /\ Defined(seen.repos, Repos, Text)
      BY <2>1 DEF TypeOK
    <2>6. /\ Defined(seen'.repos, Repos, Text)
          /\ DOMAIN seen'.repos = DOMAIN seen.repos \union {r} /\ seen'.repos[r] = text
          /\ \A q \in DOMAIN seen.repos \ {r} : seen'.repos[q] = seen.repos[q]
      <3>. HIDE DEF one, its, text, acl
      <3>1. Defined(Union(one, seen.repos), Repos, Text)
        BY <2>4, <2>5, UnionDefined
      <3>2. /\ DOMAIN Union(one, seen.repos) = DOMAIN one \union DOMAIN seen.repos
            /\ \A q \in DOMAIN one : Union(one, seen.repos)[q] = one[q]
            /\ \A q \in DOMAIN seen.repos \ DOMAIN one : Union(one, seen.repos)[q] = seen.repos[q]
        BY UnionValues
      <3>3. seen'.repos = Union(one, seen.repos)
        BY <2>5
      <3>. QED
        BY <2>4, <3>1, <3>2, <3>3
    <2>7. /\ Defined(seen'.acls, Text, Acl)
          /\ DOMAIN seen'.acls = DOMAIN seen.acls \union {text} /\ seen'.acls[text] = acl
          /\ \A t \in DOMAIN seen.acls \ {text} : seen'.acls[t] = seen.acls[t]
      <3>. HIDE DEF one, its, text, acl
      <3>1. Defined(Union(its, seen.acls), Text, Acl)
        BY <2>4, <2>5, UnionDefined
      <3>2. /\ DOMAIN Union(its, seen.acls) = DOMAIN its \union DOMAIN seen.acls
            /\ \A t \in DOMAIN its : Union(its, seen.acls)[t] = its[t]
            /\ \A t \in DOMAIN seen.acls \ DOMAIN its : Union(its, seen.acls)[t] = seen.acls[t]
        BY UnionValues
      <3>3. seen'.acls = Union(its, seen.acls)
        BY <2>5
      <3>. QED
        BY <2>4, <3>1, <3>2, <3>3
    <2>8. TypeOK'
      <3>1. lost' \subseteq Groups
        BY <2>1, <2>3 DEF TypeOK
      <3>. QED
        BY <2>1, <2>5, <2>6, <2>7, <3>1 DEF TypeOK, IsTree, Closed, Unique
    <2>11. Reading'
      <3> HIDE DEF text, named
      <3>1. Pairs'
        <4>1. ASSUME NEW q \in DOMAIN seen'.repos PROVE seen'.repos[q] \in DOMAIN seen'.acls
          BY <2>6, <2>7, <4>1 DEF Reading, Pairs
        <4>2. ASSUME NEW t \in DOMAIN seen'.acls
              PROVE  seen'.acls[t].file = t /\ \E q \in DOMAIN seen'.repos : seen'.repos[q] = t
          <5>1. CASE t = text
            BY <2>6, <2>7, <5>1
          <5>2. CASE t # text
            <6>1. PICK q \in DOMAIN seen.repos : seen.repos[q] = t
              BY <2>7, <4>2, <5>2 DEF Reading, Pairs
            <6>2. q # r
              BY <2>1 DEF Reading
            <6>. QED
              BY <2>6, <2>7, <4>2, <5>2, <6>1, <6>2 DEF Reading, Pairs
          <5>. QED
            BY <5>1, <5>2
        <4>. QED
          BY <4>1, <4>2 DEF Pairs
      <3>2. left' \intersect DOMAIN seen'.repos = {}
        BY <2>1, <2>6 DEF Reading
      <3>3. ASSUME NEW t \in DOMAIN seen'.acls
            PROVE  seen'.acls[t].groups \subseteq gerrit'.groups \union lost'
        <4>1. CASE t = text
          BY <2>1, <2>7, <4>1
        <4>2. CASE t # text
          BY <2>1, <2>7, <3>3, <4>2 DEF Reading
        <4>. QED
          BY <4>1, <4>2
      <3>4. ASSUME still'
            PROVE  /\ DOMAIN gerrit'.repos = DOMAIN seen'.repos \union left'
                   /\ \A q \in DOMAIN seen'.repos : seen'.repos[q] = Cleaned(gerrit'.repos[q])
        BY <2>1, <2>6, <3>4 DEF Reading, text
      <3>. QED
        BY <2>1, <3>1, <3>2, <3>3, <3>4 DEF Reading
    <2>9. Answered'
      BY <2>1, <2>5 DEF Answered
    <2>10. Has(tree)' <=> Has(tree)
      BY <2>1 DEF Has, Cleaned
    <2>. QED
      BY <2>1, <2>8, <2>9, <2>10, <2>11
  <1>6. CASE Adopt
    <2>1. /\ pc = "answered" /\ Closed(Merged) /\ Unique(Merged) /\ tree' = Merged
          /\ settled' = (~logged /\ still /\ NoClash) /\ Over /\ UNCHANGED gerrit
      BY <1>6 DEF Adopt
    <2>2. /\ proposal = Missing(seen.groups, seen.acls, seen.repos) /\ Pairs
          /\ (~logged => seen.groups = gerrit.groups) /\ left = {}
      BY <2>1 DEF Answered, Reading, TypeOK
    <2>3. IsTree(tree)' /\ Closed(tree)' /\ Unique(tree)' /\ settled' \in BOOLEAN
      <3>1. IsTree(Merged)
        BY <2>1, <2>2, MergedFacts
      <3>. QED
        BY <2>1, <3>1 DEF IsTree, Closed, Unique, TypeOK
    <2>4. ASSUME settled' PROVE Has(tree')
      <3>1. ~logged /\ still /\ NoClash
        BY <2>1, <2>4
      <3>2. /\ gerrit.groups = seen.groups /\ DOMAIN gerrit.repos = DOMAIN seen.repos
            /\ \A r \in DOMAIN seen.repos : seen.repos[r] = Cleaned(gerrit.repos[r])
        BY <2>1, <2>2, <3>1 DEF Reading
      <3>. QED
        BY <2>1, <2>2, <3>1, <3>2, MergedFacts DEF Has
    <2>. QED
      BY <2>1, <2>3, <2>4, OverInvariant
  <1>7. CASE Commit
    <2>1. IsTree(tree)' /\ Closed(tree)' /\ Unique(tree)'
      BY <1>7, TreesAssumption DEF Commit, IsTree, Closed, Unique
    <2>. QED
      BY <1>7, <2>1, OverInvariant DEF Commit
  <1>8. CASE Drop
    BY <1>8, OverInvariant DEF Drop, TypeOK, IsTree, Closed, Unique, Has
  <1>9. CASE ByHand
    <2>1. /\ pc # "answered" /\ still' = (pc = "idle") /\ settled' = FALSE
          /\ UNCHANGED <<tree, pc, seen, left, logged, proposal>>
      BY <1>9 DEF ByHand, answer
    <2>2. gerrit.groups \subseteq Groups /\ Defined(gerrit.repos, Repos, Text) /\ lost \subseteq Groups
      BY DEF TypeOK
    <2>3. gerrit = [groups |-> gerrit.groups, repos |-> gerrit.repos]
      BY DEF TypeOK
    <2> DEFINE Fine == /\ gerrit'.groups \subseteq Groups /\ Defined(gerrit'.repos, Repos, Text)
                       /\ lost' \subseteq Groups
                       /\ gerrit' = [groups |-> gerrit'.groups, repos |-> gerrit'.repos]
                       /\ pc = "acls" => gerrit.groups \union lost \subseteq gerrit'.groups \union lost'
    <2>4. ASSUME NEW g \in Groups \ gerrit.groups,
                 gerrit' = [gerrit EXCEPT !.groups = @ \union {g}], UNCHANGED lost
          PROVE  Fine
      BY <2>2, <2>3, <2>4
    <2>5. ASSUME NEW g \in gerrit.groups, gerrit' = [gerrit EXCEPT !.groups = @ \ {g}],
                 lost' = IF pc = "acls" THEN lost \union {g} ELSE {}
          PROVE  Fine
      BY <2>2, <2>3, <2>5
    <2>6. ASSUME NEW r \in Repos, NEW c \in Configs, UNCHANGED lost,
                 gerrit' = [gerrit EXCEPT !.repos = Union([q \in {r} |-> c], @)]
          PROVE  Fine
      <3>1. Defined([q \in {r} |-> c], Repos, Text)
        BY ConfigsAssumption DEF Defined
      <3>2. gerrit'.groups = gerrit.groups /\ gerrit'.repos = Union([q \in {r} |-> c], gerrit.repos)
        BY <2>3, <2>6
      <3>. QED
        <4>1. Defined(gerrit'.repos, Repos, Text)
          BY <2>2, <3>1, <3>2, UnionDefined
        <4>. QED
          BY <2>2, <2>3, <2>6, <3>2, <4>1
    <2>7. ASSUME NEW r \in DOMAIN gerrit.repos, UNCHANGED lost,
                 gerrit' = [gerrit EXCEPT !.repos = [q \in DOMAIN @ \ {r} |-> @[q]]]
          PROVE  Fine
      <3>1. /\ gerrit'.groups = gerrit.groups
            /\ gerrit'.repos = [q \in DOMAIN gerrit.repos \ {r} |-> gerrit.repos[q]]
        BY <2>3, <2>7
      <3>. QED
        BY <2>2, <2>3, <2>7, <3>1 DEF Defined
    <2>8. Fine
      BY <1>9, <2>4, <2>5, <2>6, <2>7 DEF ByHand
    <2>9. TypeOK'
      BY <2>1, <2>8 DEF TypeOK, IsTree, Closed, Unique
    <2>10. Reading'
      BY <2>1, <2>8 DEF Reading, Pairs
    <2>. QED
      BY <2>1, <2>9, <2>10 DEF Answered
  <1>10. CASE UNCHANGED vars
    <2>1. UNCHANGED <<tree, gerrit, seen, left, pc, logged, proposal, lost, still, settled>>
      BY <1>10 DEF vars
    <2>2. TypeOK'
      BY <2>1 DEF TypeOK, IsTree, Closed, Unique
    <2>3. Reading'
      BY <2>1 DEF Reading, Pairs, Cleaned
    <2>4. Answered'
      BY <2>1 DEF Answered, Missing, Anew, Known, IdOf
    <2>5. Has(tree)' <=> Has(tree)
      BY <2>1 DEF Has, Cleaned
    <2>. QED
      BY <2>1, <2>2, <2>3, <2>4, <2>5
  <1>. QED
    BY <1>1, <1>2, <1>3, <1>4, <1>5, <1>6, <1>7, <1>8, <1>9, <1>10 DEF Next

-----------------------------------------------------------------------------

\* What was read agrees with Gerrit, and the answer with what was read.
THEOREM MissingInvariant == Spec => []MInv
  <1>1. Init => MInv
    <2>1. ASSUME Init PROVE IsTree(tree) /\ Closed(tree) /\ Unique(tree)
      BY <2>1, TreesAssumption DEF Init
    <2>2. IsTree(NoProposal)
      BY EmptyFacts DEF NoProposal, IsTree
    <2>3. ASSUME Init PROVE TypeOK
      <3>1. /\ NothingSeen = [groups |-> NothingSeen.groups, acls |-> NothingSeen.acls,
                               repos |-> NothingSeen.repos]
            /\ NothingSeen.groups \subseteq Groups
            /\ Defined(NothingSeen.acls, Text, Acl) /\ Defined(NothingSeen.repos, Repos, Text)
        BY EmptyFacts DEF NothingSeen
      <3>2. /\ gerrit = [groups |-> {}, repos |-> Empty] /\ seen = NothingSeen /\ left = {}
            /\ pc = "idle" /\ logged = FALSE /\ proposal = NoProposal
            /\ lost = {} /\ still = TRUE /\ settled = FALSE
        BY <2>3 DEF Init
      <3>3. /\ gerrit = [groups |-> gerrit.groups, repos |-> gerrit.repos]
            /\ gerrit.groups \subseteq Groups /\ Defined(gerrit.repos, Repos, Text)
        BY <3>2, EmptyFacts
      <3>. QED
        BY <2>1, <2>2, <2>3, <3>1, <3>2, <3>3 DEF TypeOK
    <2>4. Init => Reading /\ Answered /\ ~settled
      BY EmptyFacts DEF Init, Reading, Pairs, Answered, NothingSeen
    <2>. QED
      BY <2>3, <2>4 DEF MInv
  <1>. QED
    BY <1>1, MissingStep, PTL DEF Spec

\* The tree stays valid, and whatever is answered has the form of a tree.
THEOREM MissingTypeCorrect == Spec => []TypeOK
  BY MissingInvariant, PTL DEF MInv

\* What a proposal refers to is in it or in the tree, with the text that was
\* read, and the tree passes the check of unicity with it.
THEOREM ProposalsAreSound == Spec => []ProposalSound
  <1>1. MInv => ProposalSound
    BY MergedFacts DEF MInv, Reading, Answered, ProposalSound
  <1>. QED
    BY <1>1, MissingInvariant, PTL

\* A complete proposal lacks only groups that Gerrit lacked at some time while
\* it was read: reading ACLs before groups costs nothing else.
THEOREM OnlyLostGroupsDangle == Spec => []OnlyLostDangle
  <1>1. ASSUME MInv, pc = "answered", ~logged, NEW a \in DOMAIN proposal.acls
        PROVE  proposal.acls[a].groups \subseteq Merged.groups \union lost
    <2>1. Proposed(proposal, seen.groups, seen.acls, seen.repos)
      BY <1>1, MissingFacts DEF MInv, TypeOK, Answered
    <2>2. a \in DOMAIN seen.acls /\ proposal.acls[a] = seen.acls[a]
      BY <2>1 DEF Proposed
    <2>3. proposal.acls[a].groups \subseteq seen.groups \union lost
      BY <1>1, <2>2 DEF MInv, Reading, Answered
    <2>. QED
      BY <2>1, <2>3 DEF Proposed, Merged
  <1>2. MInv => OnlyLostDangle
    BY <1>1 DEF OnlyLostDangle
  <1>. QED
    BY <1>2, MissingInvariant, PTL

\* If the tree has all that Gerrit has, nothing is proposed.
LEMMA NothingMissing == ASSUME MInv, pc = "answered", still, Has(tree) PROVE proposal = NoProposal
  <1>1. proposal = Missing(seen.groups, seen.acls, seen.repos) /\ seen.groups \subseteq gerrit.groups
    BY DEF MInv, Answered
  <1>2. Proposed(proposal, seen.groups, seen.acls, seen.repos)
    BY <1>1, MissingFacts DEF MInv, TypeOK
  <1>3. /\ \A r \in DOMAIN seen.repos : r \in DOMAIN tree.repos /\ Known(seen.repos[r])
        /\ \A t \in DOMAIN seen.acls : Known(t)
    <2>1. ASSUME NEW r \in DOMAIN seen.repos PROVE r \in DOMAIN tree.repos /\ Known(seen.repos[r])
      BY DEF MInv, Reading, Has, Known
    <2>. QED
      BY <2>1 DEF MInv, Reading, Pairs
  <1>4. proposal.groups = {} /\ DOMAIN proposal.repos = {} /\ DOMAIN proposal.acls = {}
    BY <1>1, <1>2, <1>3 DEF Proposed, Has
  <1>5. proposal = [groups |-> {}, acls |-> proposal.acls, repos |-> proposal.repos]
    BY <1>2, <1>4 DEF Proposed, IsTree
  <1>6. proposal.acls = Empty /\ proposal.repos = Empty
    BY <1>2, <1>4 DEF Proposed, IsTree, Defined, Empty
  <1>. QED
    BY <1>5, <1>6 DEF NoProposal

\* Once a complete proposal is adopted, GET has nothing to propose until
\* Gerrit or the tree changes.
THEOREM AdoptedStaysQuiet == Spec => []AdoptedIsQuiet
  <1>1. MInv => AdoptedIsQuiet
    BY NothingMissing DEF MInv, AdoptedIsQuiet
  <1>. QED
    BY <1>1, MissingInvariant, PTL

\* A neat text is read back as it was before it was pushed.
LEMMA NeatReturns ==
    ASSUME NEW t \in Text, Neat(t), NEW u \in Pushed(t)
    PROVE  Cleaned(u) = t
  <1>1. u = [rules |-> t.rules, tidy |-> TRUE, ended |-> TRUE, headers |-> 1,
             described |-> TRUE, literal |-> TRUE]
    <2>1. t.tidy = TRUE /\ t.ended /\ ~t.literal /\ t.headers = 0 /\ Formatted[t.rules] = {t.rules}
      BY DEF Neat, Text
    <2>2. u = Described(t, t.rules, t.headers + 1, TRUE)
      BY <2>1 DEF Pushed
    <2>3. t.headers + 1 = 1
      BY <2>1
    <2>. QED
      BY <2>1, <2>2, <2>3, Zenon DEF Described
  <1>2. /\ Without["description"][t.rules] = t.rules /\ Without["[project]"][t.rules] = t.rules
        /\ t.rules \notin WithOptions
    BY DEF Neat, Words
  <1>3. Cleaned(u) = [rules |-> t.rules, tidy |-> TRUE, ended |-> TRUE, headers |-> 0,
                      described |-> FALSE, literal |-> FALSE]
    BY <1>1, <1>2 DEF Cleaned
  <1>4. t = [rules |-> t.rules, tidy |-> TRUE, ended |-> TRUE, headers |-> 0,
             described |-> FALSE, literal |-> FALSE]
    BY DEF Neat, Text
  <1>. QED
    BY <1>3, <1>4

\* Nor has it anything to propose of what the engine itself has applied, where
\* every repository has an ACL and the texts of these are neat: without tabs,
\* blanks at the ends of lines, an open last line, a project section, "%", or
\* the word "description".
THEOREM AppliedStaysQuiet == Spec => []InLineIsQuiet
  <1>2. ASSUME MInv, InLine, AreNeat PROVE Has(tree)
    <2>1. ASSUME NEW r \in DOMAIN gerrit.repos
          PROVE  r \in DOMAIN tree.repos /\ \E a \in DOMAIN tree.acls : tree.acls[a].file = Cleaned(gerrit.repos[r])
      <3>1. r \in DOMAIN tree.repos /\ tree.repos[r] \in DOMAIN tree.acls
        BY <1>2 DEF InLine, MInv, TypeOK, Closed
      <3>2. tree.acls[tree.repos[r]].file \in Text
        BY <1>2, <3>1 DEF MInv, TypeOK, IsTree, Defined, Acl
      <3>3. Cleaned(gerrit.repos[r]) = tree.acls[tree.repos[r]].file
        BY <1>2, <3>2, NeatReturns DEF InLine, AreNeat
      <3>. QED
        BY <3>1, <3>3
    <2>. QED
      BY <1>2, <2>1 DEF Has, InLine
  <1>3. MInv => InLineIsQuiet
    BY <1>2, NothingMissing DEF InLineIsQuiet
  <1>. QED
    BY <1>3, MissingInvariant, PTL

\* What was adopted is not proposed again, nor what the engine has applied of
\* ACLs with neat texts.
THEOREM NothingComesBack == Spec => []NotProposedAgain
  BY AdoptedStaysQuiet, AppliedStaysQuiet, PTL DEF NotProposedAgain
=============================================================================
