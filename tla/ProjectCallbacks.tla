-------------------------- MODULE ProjectCallbacks --------------------------
(***************************************************************************)
(* ProjectOps and StoryboardOps (managesf/model/yamlbkd/resources/         *)
(* project.py, storyboard.py) on one Storyboard project group, call by     *)
(* call, for a project that uses the local tracker.  Every source          *)
(* repository is a Storyboard project of its own, which other project      *)
(* groups may have as well.  The first exception ends the callback.        *)
(***************************************************************************)
EXTENDS CallbackCalls

CONSTANTS Repos,   \* source repositories
          NoNote   \* that of one without a Storyboard project

ASSUME NoNoteAssumption == NoNote \notin Texts

VARIABLES
    board,    \* the Storyboard projects and the project group
    sources,  \* source-repositories
    note,     \* the descriptions of repositories in the new tree
    ahead,    \* what is still to be done
    past      \* ghost: the board when the callback was called

Board == {b \in [there: BOOLEAN, within: SUBSET Repos, notes: [Repos -> Texts \union {NoNote}]] :
             \A r \in b.within : b.there /\ b.notes[r] # NoNote}

projectVars == <<board, sources, note, ahead, past>>

NothingAhead == [sync |-> {}, put |-> {}, drop |-> {}]

ProjectInit ==
    /\ board = [there |-> FALSE, within |-> {}, notes |-> [r \in Repos |-> NoNote]]
    /\ past = board
    /\ sources = {} /\ note = [r \in Repos |-> AnyText]
    /\ ahead = NothingAhead

-----------------------------------------------------------------------------

CallProject(c, rs, n) ==
    /\ sources' = rs /\ note' = n /\ past' = board /\ ahead' = NothingAhead
    /\ Call(c, "group")
    /\ UNCHANGED board

\* A plausible slip: pg[0] in all cases.
FindGroupOnly ==
    /\ pc = "group"
    /\ \/ board.there /\ GoOn("list")
       \/ ~board.there /\ Log("done")
       \/ Raise("done")
    /\ UNCHANGED projectVars

\* The project group is looked for, and created unless it is to be deleted;
\* without it pg[0] raises an IndexError.
FindGroup ==
    /\ pc = "group"
    /\ \/ board.there /\ GoOn("list") /\ UNCHANGED board
       \/ ~board.there /\ ctype = "delete" /\ Log("done") /\ UNCHANGED board
       \/ ~board.there /\ ctype # "delete" /\ Tell(board, TRUE, [board EXCEPT !.there = TRUE], "list", "done")
       \/ Raise("done") /\ UNCHANGED board
    /\ UNCHANGED <<sources, note, ahead, past>>

\* included_ids, before the loop; by its end wanted_included is sources.
ListIncluded ==
    /\ pc = "list"
    /\ \/ /\ GoOn("sync")
          /\ ahead' = IF ctype = "delete" THEN [NothingAhead EXCEPT !.drop = board.within]
                      ELSE [sync |-> sources, put |-> sources \ board.within,
                            drop |-> board.within \ sources]
       \/ Raise("done") /\ UNCHANGED ahead
    /\ UNCHANGED <<board, sources, note, past>>

\* update_project: the project is updated or created, then its id is asked for.
SyncProject(r) ==
    /\ pc = "sync" /\ r \in ahead.sync
    /\ ahead' = [ahead EXCEPT !.sync = @ \ {r}]
    /\ Tell(board, TRUE, [board EXCEPT !.notes[r] = note[r]], "sync", "done")
    /\ UNCHANGED <<sources, note, past>>

\* A plausible slip: projects are put while others are still to be created.
PutProjectEarly(r) ==
    /\ pc = "sync" /\ r \notin ahead.sync /\ r \in ahead.put
    /\ ahead' = [ahead EXCEPT !.put = @ \ {r}]
    /\ Tell(board, TRUE, [board EXCEPT !.within = @ \union {r}], "sync", "done")
    /\ UNCHANGED <<sources, note, past>>

PutProject(r) ==
    /\ pc = "sync" /\ ahead.sync = {} /\ r \in ahead.put
    /\ ahead' = [ahead EXCEPT !.put = @ \ {r}]
    /\ Tell(board, TRUE, [board EXCEPT !.within = @ \union {r}], "sync", "done")
    /\ UNCHANGED <<sources, note, past>>

DropProject(r) ==
    /\ pc = "sync" /\ ahead.sync = {} /\ ahead.put = {} /\ r \in ahead.drop
    /\ ahead' = [ahead EXCEPT !.drop = @ \ {r}]
    /\ Tell(board, TRUE, [board EXCEPT !.within = @ \ {r}], "sync", "done")
    /\ UNCHANGED <<sources, note, past>>

AllDone ==
    /\ pc = "sync" /\ ahead = NothingAhead
    /\ IF ctype = "delete" THEN Tell(board, TRUE, [board EXCEPT !.there = FALSE], "done", "done")
       ELSE GoOn("done") /\ UNCHANGED board
    /\ UNCHANGED <<sources, note, ahead, past>>

ProjectNext ==
    \/ \E c \in {"create", "update", "delete"}, rs \in SUBSET Repos, n \in [Repos -> Texts] :
          CallProject(c, rs, n)
    \/ FindGroup \/ ListIncluded
    \/ \E r \in Repos : SyncProject(r) \/ PutProject(r) \/ DropProject(r)
    \/ AllDone
    \/ ByHand(board, Board) /\ UNCHANGED <<sources, note, ahead, past>>
    \/ Killed /\ ahead' = NothingAhead /\ past' = board /\ UNCHANGED <<board, sources, note>>

-----------------------------------------------------------------------------

ProjectTypeOK ==
    /\ board \in Board /\ past \in Board
    /\ sources \subseteq Repos /\ note \in [Repos -> Texts]
    /\ ahead \in [sync: SUBSET Repos, put: SUBSET Repos, drop: SUBSET Repos]
    /\ pc \in {"idle", "group", "list", "sync", "done"}

\* A callback that logs nothing has done all its calls were for.
ProjectQuietIsDone ==
    pc = "done" /\ ~logs =>
        IF ctype = "delete" THEN ~board.there
        ELSE board.there /\ board.within = sources /\ \A r \in sources : board.notes[r] = note[r]

BoardContent == UNION {[within: {rs}, notes: [rs -> Texts]] : rs \in SUBSET Repos}
ASSUME BoardContentAssumption == Absent \notin BoardContent \union Halves(BoardContent)

\* The board b is something that the engine takes for v.
BoardIs(b, v) ==
    /\ v = Absent <=> ~b.there
    /\ v \in BoardContent =>
          b.within = v.within /\ \A r \in v.within : b.notes[r] = v.notes[r]

BoardGoal ==
    IF ctype = "delete" THEN Absent
    ELSE [within |-> sources, notes |-> [r \in sources |-> note[r]]]

\* Wherever a callback is cut short, it has left what the engine takes for its
\* debris; the projects that stay in the group have never left it, none has
\* joined or left it before all have the descriptions of the tree, and those
\* of other repositories are as they were.
ProjectCutShort ==
    kind = "projects" /\ pc # "idle" =>
        /\ \A v \in States(BoardContent) : BoardIs(past, v) =>
              \E x \in Debris("projects", ctype, v, BoardGoal) : BoardIs(board, x)
        /\ ctype # "delete" => past.within \intersect sources \subseteq board.within
        /\ ctype # "delete" /\ board.within # past.within =>
              \A r \in sources : board.notes[r] = note[r]
        /\ \A r \in Repos \ sources : board.notes[r] = past.notes[r]

\* On a Storyboard that works a callback ends, and logs, as the engine has it
\* end: only the deletion of what is not there logs.
ProjectCalmOutcome ==
    kind = "projects" /\ pc = "done" /\ calm =>
        \A v \in States(BoardContent) : BoardIs(past, v) =>
            LET end == End("projects", ctype, v, BoardGoal)
            IN  BoardIs(board, end.now) /\ (logs <=> end.logs)
=============================================================================
