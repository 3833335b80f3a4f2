# managesf: a verification project

managesf is the REST service of Software Factory: it keeps Gerrit, Storyboard,
Jenkins, Nodepool and a few files in line with what users and the *config
repository* ask for. This directory holds TLA+ modules that model its core,
configurations that TLC checks on small instances, and theorems that TLAPS
proves for every instance. Paths below are relative to the repository root, and
`engine.py` stands for `managesf/model/yamlbkd/engine.py`.

## 1. Inventory

| Component | State it keeps | Operations | Interacts with | What is hard | What makes it correct |
|---|---|---|---|---|---|
| Resource model and diff (`engine.py`, `resource.py`, `resources/*.py`) | none; trees of YAML dictionaries, changed in place by `set_defaults` | dependency, unicity and content checks, diff of two trees, refresh scans | called by the engine | defaults set on some dictionaries and not on others; depth of the dependency chain; validating only what changed | an accepted tree is wholly valid; a refresh reaches everything |
| Resources engine (`engine.py`, `ResourcesController` in `controllers/root.py`) | none between requests; within one: the two trees, the changes, `partial_errors` | `validate` (POST), `apply` and `direct_apply` (PUT), `get` (GET) | reads the config repository; calls the callbacks of the resources | partial failures, kills, repetition, order of callbacks, two fetches that race a merge | a run ends with the services in line, or says so; whatever fails can be repaired |
| Callbacks (`resources/group.py`, `gitrepository.py`, `project.py`, `storyboard.py`, `gitacls.py`) | on Gerrit and Storyboard | create, update, delete, each a series of calls | Gerrit REST, SQL and git; Storyboard | any call of the series can fail; objects that exist already | repeating a callback repairs it |
| Config repository reader (`yamlbackend.py`) | a clone, a cache file, a hash file, per kind of request | fetch, checkout, load, cache | git | two files written one after the other; clones asked for commits in any order | reading through the cache is reading the repository |
| Missing resources (`engine.py` 366-437, 554-577) | none | lists what Gerrit has and the repository lacks | Gerrit, the reader | references between what is found | the proposed tree is valid |
| Users of the services (`ServicesUsersController`, `controllers/SFuser.py`, `model/__init__.py`, `services/*/user.py`) | tables of users and of their ids on each service | create, update, delete on every service | SQL, Gerrit, Storyboard | one service fails; names that change; wrong mappings | a mapping names the user it says |
| Nodepool (`services/nodepool/`) | running image updates in memory, a lock, a table of updates | start an update, poll it, flush at exit | ssh, SQL | the lock is not released when something raises; crash | every update is eventually recorded as what it was |
| Nodepool nodes (`services/nodepool/node.py`, `NodesController`) | on Nodepool and on its machines | list, get, hold, delete, put a key | a command over ssh each | the node goes, or another takes its address, between two commands; exit status -1 | keys go where they were sent; 200 and 201 mean it |
| Storyboard hooks (`services/storyboard/hooks.py`, `HooksController`) | on Storyboard | Gerrit events move tasks and comment on stories | Storyboard, the reader | events repeated, late, in any order, cut short anywhere | what is answered "Success" was done; nothing is said twice; an event that is repeated is carried out |
| Jenkins jobs (`services/jenkins/job.py`, `JobsController`) | on Jenkins | run, stop, get, parameters, logs, list | Jenkins | next build number read before the build starts; builds change under a listing | the answer names the build it started, statuses were true, listings miss nothing |
| Local users, htpasswd (`controllers/localuser.py`, `htp.py`) | one table, one file | create, update, delete | SQL, file | concurrent requests | no lost update |
| Gerrit client, policies, backup, introspection, pages | an admin cookie | single calls | Gerrit | stale cookie | - |

The managesf process serves one request at a time (`managesf.service` starts
uwsgi with one process), git, the services and the contributors move on their
own, and the process can be killed at any moment.

## 2. Modules

```
                   ConfigSync
                       : (INSTANCE)
ResourceTree  <-- ResourcesEngine <-- MCResourcesEngine        ConfigReader <.. YamlBackend <-- MCYamlBackend
     ^                   ^                                           (INSTANCE)      ^
ResourceTreeProofs <-- ResourcesEngineProofs                                 YamlBackendProofs

ServicesUsers <-- MCServicesUsers                              NodepoolImages <-- MCNodepoolImages
     ^                                                               ^
ServicesUsersProofs                                            NodepoolImagesProofs

ServiceObjects <-- ResourcesEngine
      ^
CallbackCalls <-- GroupCallbacks, RepoCallbacks, ProjectCallbacks <-- Callbacks <-- MCCallbacks
                                                                          ^
                                                                  CallbacksProofs

MissingResources <-- MCMissingResources
     ^
MissingResourcesProofs

ServiceRequests <-- StoryboardHooks, JenkinsJobs, NodepoolNodes <-- ServicePlugins <-- MCServicePlugins
                                                                          ^
                                                                  ServicePluginsProofs
```

### ResourceTree
The tree of resources and the pure part of the engine. A resource keeps its
content as one value (`val`), the ids under its one dependency key (`deps`) and
whether that key is written at all (`keyed`), because `get_deps` indexes it.
`Accepts` is the verdict of `validate()`, `ChangesOf` the dictionary of changes
after the refresh, `Refreshed` the three scans.
`BadVals` are the contents that model validation or `extra_validations` refuse
(wrong type, unknown member, broken ACL file, ...).

### ResourcesEngine
`history` is master of the config repository, `reality` what Gerrit and
Storyboard hold for each key: nothing, the complete result of a callback (its
own text, the texts it copied from its dependencies, the groups whose ids it
found) or `Half` of one. Actions follow the code:

| Action | Code |
|---|---|
| `Merge` | POST validates a change against some master; later it becomes the next commit |
| `PutCommit`, `PutMaster` + `LoadMaster` | PUT with and without COMMIT; the latter fetches twice |
| `DirectApply`, `DirectRefuse` | PUT with two documents |
| `Plan`, `PlanRaises` | `_get_data_diff` and `_resolv_resources_need_refresh` |
| `RunOp`, `FailOp` | one turn of the loop of `_apply_changes`, on services that work or fail |
| `Finish` | the answer: 201, or 409 if any callback logged |
| `Crash` | the process is killed |

`defaulted` is the set of dictionaries of the new tree that went through
`set_defaults`; `apply()` sets them late, and `DataReady` says what a callback
needs. Callbacks run by type priority and, within a type, in the order in which
CPython 2.7 walks `{'update', 'create', 'delete'}` (`create`, `update`,
`delete`); ids of one type run in any order. A failing callback leaves its key
untouched, half done or done (`Wrecks`).

Two ghosts make statements about runs: `start` says how the services related to
the two trees when the changes were computed (`"synced"` with the old one,
`"repairable"`, or `"other"`), `clean` that no service has failed since.

### ConfigSync
What the engine promises, without its trees, callbacks and failures. The
services are known by two sets: the trees they are in line with (`inLine`) and
the runs that would end well if nothing failed (`mendable`). `Start` begins a
run; the run is `promised` if the services were in line with its first tree or
the run was mendable. Then `Work` may fail as it likes, but keeps the run
mendable; `End` brings the services in line if nothing failed, or if it answers
201; `Die` may come at any time, and what it leaves is mendable. `Refuse` is all
the rest: merges, requests that are refused or fail before the first callback.

`FollowsCommits` is the refinement: `ResourcesEngine` implements `ConfigSync`
with `inLine` the trees for which `Synced` holds and `mendable` the runs for
which `Repairable` does, among `Known`, the trees that commits and documents can
be. It is what lets a caller forget the engine: apply every commit from the one
before it, repeat what was cut short or answered 409, and the services follow.
`RetryHeals` adds that such repetition ends.

### CallbackCalls, GroupCallbacks, RepoCallbacks, ProjectCallbacks, Callbacks
What `RunOp` and `FailOp` of the engine take as one step, call by call, on one
resource. A call works, is refused (`_manage_errors` turns 404 and 409 into
`False`, which the callback logs), or raises, having had its effect or not
(`Tell`); where an exception leads depends on the `try` around the call, so
every action names it. `pc` is the next call, `logs` what the engine will find,
`calm` that no service has failed. A killed process leaves the object as it is;
between callbacks it can be changed by hand.

| Action | Code |
|---|---|
| `MakeGroup`, `DropAdmin` | `GroupOps.create` |
| `List`, `AddMember`, `DeleteMember`, `Describe`, `ListSubgroups`, `DropSubgroup`, `DeleteRows`, `LoopEnds` | the loops of `create`, `update` and `delete` of `GroupOps` |
| `CreateProject`, `FindIds`, `PushConfig`, `PushReview`, `DeleteProject` | `GitRepositoryOps.create`, `update`, `delete` with `install_acl` and `install_git_review_file` |
| `FindGroup`, `ListIncluded`, `SyncProject`, `PutProject`, `DropProject`, `AllDone` | `StoryboardOps.update_project_groups` and `delete_project_groups` |

`ServiceObjects` is the seam between the engine and its callbacks: `End` is what
one callback makes of an object on services that work, and whether it logs,
`Debris` what it can leave when it is cut short. The engine's `Outcome` and
`Wrecks`, from which `RunOp` and `FailOp` are made, are these operators. On the
other side, `GroupIs`, `RepoIs` and `BoardIs` say which values the engine may take
an object for: nothing, a content (for a group its description and members, for
a repository `meta/config`, for a project group its repositories and their
descriptions), its own unfinished creation, or anything else that exists.
`QuietIsDone`: what logs nothing has reached the goal. `CalmOutcome`: a callback
that no service fails turns whatever the engine rightly takes the object for
into `End` of it, and logs if and only if `End` says so. `CutShort`: at every
call, what is there is one of `Debris`. One state can be taken for several
values (a group with the admin alone may be wanted so, or be an unfinished
creation), so the correspondence is a relation and not a refinement mapping;
`EngineTakesAll` says that it leaves out no state. `.gitreview` is outside the
engine's goal: only a creation pushes it (`RepoCalmOutcome` says so). A group that is deleted keeps no trace,
whatever failed in the SQL of `DeleteRows` counts as a call that raised.

### MissingResources
GET with `get_missing_resources=true`. `tree` is the config repository as the
request read it, `gerrit` what is there, `seen` what the request has read of it.

| Action | Code |
|---|---|
| `Ask` | `get_missing_resources` reads the tree |
| `ListRepos`, `ReadRepo`, `ReadFails` | `GitRepositoryOps.get_all`, one fetch of `meta/config` per repository |
| `ReadGroups` | `GroupOps.get_all`, then `_get_missing_resources_diff` |
| `Adopt`, `Commit`, `Drop` | the proposal is merged, another commit is, or nothing |
| `ByHand` | Gerrit changes, at any moment of the reading |

`MAPPING` is a dictionary, which CPython 2.7 walks as repos, acls, projects,
groups; so groups are read last. Ids of proposed ACLs are digests of texts, for
which the text stands, and ACLs are compared by their text. A text (`Text`) is
what `install_acl` and `get_all` look at: its lines but for headers and
description (`rules`), whether they are free of tabs and trailing blanks
(`tidy`), whether the last one is ended (`ended`), the number of `[project]`
headers, whether that section has a description, whether `description =` is
anywhere (`literal`). What the two do to lines are constants: `Without` a word,
`Glued` to what is appended, `Formatted` with `%` (no text at all if that
raises).

`Pushed` is what `install_acl` makes of a text, `Cleaned` what `get_all` makes of
that. They are not inverse in general: `get_all` replaces tabs, strips and ends
lines, and drops *every* line with the word "description"
(`gitrepository.py:101-103`), `install_acl` appends `[project]` to a last line that
may not be ended (235), and formats the whole text. `Neat` names the texts that
come back as they were, and is a premise of `InLineIsQuiet`, the half of
`NotProposedAgain` about what was applied; section 5 says what happens without it.
Another premise, in `InLine`, is that every repository on Gerrit has an ACL in
the tree: one without gets a text of the engine's own (`install_acl`, the `else`
branch), which the tree lacks and which is therefore always proposed.
`AdoptedIsQuiet`, the other half, needs neither: what is proposed was cleaned.

`NoClash` is the premise that no ACL of the tree uses the digest of
another text for an id, which happens when an adopted ACL is edited: then the
proposal has an ACL whose id is taken. `lost` collects the groups that
were missing when an ACL was read, or went away later.

A merge while a proposal is made counts as one after it: the difference is
taken from the tree that was read. Whether a proposal is sound for another tree
is the gate's business, which checks it again (`Adopt`).

### ConfigReader and YamlBackend
`ConfigReader` is the promise: reading a ref gives the resources of the commit
it named when it was fetched, or an error. `YamlBackend` is one clone with its
cache file and hash file; `ReadsTrue` is the refinement (`want` is the commit
checked out while an object is at work). `Refs` are the refs the clone is
asked for: GET reads `master` only, PUT and POST read commits in any order.

The engine takes what `ConfigReader` promises for granted: it loads the trees of
the commits it asked for.

### ServicesUsers
The users of managesf over Gerrit and Storyboard. `rows` and `mapping` are the
two tables of `managesf/model/__init__.py`, `gerrit` and `storyboard` the
accounts. A request changes its row, then visits the services of `SF_SERVICES`
in order (`left`); on each it calls the service and records the id, every step
committed on its own (`stage`):

| Action | Code |
|---|---|
| `PostKnown`, `PostSkipped`, `PostNew`, `PostMatched`, `PostConflict` | POST, by what is found: the external id, nobody, the same name and data, the same name only |
| `Put`, `Delete`, `DeleteRefused`, `Unknown` | PUT and DELETE |
| `UpdateGerrit`, `UpdateStoryboard`, `UpdateConfused` | `_update`, the user is mapped (once, or twice) |
| `UpdateMissingGerrit`, `UpdateMissingStoryboard` | `_update`, the user is not mapped |
| `FoundOnGerrit`, `CreateOnGerrit`, `CreateStoryboard`, `Unmap`, `Map` | `_create_user_in_services` |
| `DeleteOnGerrit`, `DeleteOnStoryboard`, `DropMapping` | the loop of DELETE |
| `Finish` | the row is deleted, the answer is given |
| `Fail` | anything raises, or the process dies, between two steps |
| `RemoveByHand` | somebody removes a Gerrit account (external) |

Storyboard takes its ids from the identity provider, Gerrit gives its own:
external ids have an `Owner`, Gerrit ids are new when given. The Storyboard
account is looked for by an id that is always null, so only Gerrit finds
accounts that exist. `calm` is a ghost: nothing has failed and nobody has
interfered since the request came.

What the code promises is less than one expects. A failed creation is healed by
DELETE and POST, and not by logins: those
find the user by the external id and update, and an update has lost the user
name, without which Gerrit creates nobody but the admin.
`NewcomersServed` is therefore about users without a row, and
`SuccessMeansMapped` about what an answer may claim.

### NodepoolImages
Updates of Nodepool images: `table` is the table of updates, `cmd` the commands
on Nodepool, `cache` and `locked` are `UPDATES_CACHE` and `REFRESH_LOCKED` of
`services/nodepool/image.py`.

| Action | Code |
|---|---|
| `Come` | PUT, GET of an update, or the exit of the process enter `_refresh_cache` |
| `Visit`, `Record`, `Refreshed` | the loop of `_refresh_cache`: a command that runs, one that has ended, the entries removed |
| `RecordRaises` | the database or `client.close()` raises inside the loop; the lock stays |
| `StartRefused`, `CreateRow`, `Exec`, `ExecRaises` | `start_update` after the refresh |
| `Answer` | `get_update_info` after the refresh |
| `FlushOne`, `FlushDone`, `FlushRaises` | `final_flush` after the refresh |
| `Crash` | the process is killed; memory is lost, rows and commands are not |
| `End` | a command ends with 0, with an error, or with its connection (external) |

A `loud` command writes more than the ssh window holds: nobody reads its output
before it ends, so it does not end, until `final_flush` reads it. `before`
remembers which commands had ended when the request came. The branch of
`get_update_info` that reads `UPDATES_CACHE['provider']` is never taken: the row
of an update exists before its entry in the cache.

### ServiceRequests, StoryboardHooks, JenkinsJobs, NodepoolNodes, ServicePlugins
Requests that come, make a series of calls to one service, and answer
(`ServiceRequests`). Between any two calls the others who use this service act
(`Elsewhere`), and the process can be killed. The plugins share neither state nor
a service, so `ServicePlugins` has behaviours of each of them (`kind`), one run
and one invariant for the three.

| Action | Code |
|---|---|
| `Deliver`, `DeliverElsewhere` | `HooksController.post` finds the project of the repository and its tracker, or does not |
| `GetClient`, `GetClientRaises` | `StoryboardHooksManager` outside of the loops: an exception ends the hook, 400 |
| `ReadTask`, `MoveTask`, `ReadStory`, `Comment`, and `...Raises` | the loops of `generic_storyboard_hook`: an exception is collected, the loop goes on |
| `TasksDone`, `Reply` | the end of the loops; 200, and only the message tells what failed |
| `MoveByHand` | somebody moves a task (external) |
| `ReadNumber`, `BuildJob`, `ReadOwn`, and `...Raises` | `SFJenkinsJobManager.run`: `get_job_info`, `build_job`, `get_build_info` |
| `RunScript`, `ScriptPrintsError`, `Info`, `ReplyJobs` | `get_job`: the script that lists builds, then `get_job_status` of each; `get_job_logs` and `get_job_parameters` are an `Info` that tells no status |
| `StopBuild`, `CallRaises` | `stop`; anything that raises, 500 |
| `Begin`, `Change`, `Cancel` | Jenkins and its other users (external) |
| `AskNode`, `Command`, `List`, `Found` | `NodeByIdController` and `NodesController`: `hold` or `delete`, then `get` |
| `Install` | the second half of `add_authorized_key` |
| `...Cut` | `recv_exit_status` gives -1, which is no failure: the command was run or not, its output is whole or not |
| `Launch`, `Vanish`, `CommandByHand` | Nodepool and its other users (external) |

Ghosts say what the answers are compared with: tasks moved by hand
(`touched`, `moved`) and events `delivered`; the next build number and the
statuses of builds since the request came (`first`, `seen`), the build that was
started and whether another one came between (`own`, `overtaken`); lost
connections, foreign commands and addresses given again (`cut`, `meddled`,
`reused`).

Events have no order: a patchset event that is delivered after the merge
reopens the task, so nothing is promised of the last state of a task that
several events name. What is promised is `StatusHasCause`, `SuccessMoved`, and
`RedeliveryHeals` for one event that keeps coming.

## 3. Runs

| Run | Bounds | Shows |
|---|---|---|
| `EngineRetry` | 2 ids, 11 proposed trees, 2 commits, 2 trees sent to `direct_apply` in any pair, any number of requests, failures and crashes | `RefreshComplete`, `CallbackDataReady`, `DependenciesFirst`: what callbacks rely on; `RunConverges`, `SuccessIsTrue`, `AlwaysRepairable`: where the services end up, also for requests that start from services in any state |
| `EngineHistory` | 2 ids, 4 proposed trees (a whole chain, a second one beside it, one without its dependencies, an invalid one), 3 commits, with fairness | master stays valid though gates look at older masters; also when older commits are applied after newer ones; `RetryHeals`: repeating the last commit heals the services; `FollowsCommits`: the engine implements `ConfigSync` |
| `EngineRaises` (violation) | as `EngineRetry` | finding 1 |
| `Callbacks` | 2 people, one of them the admin, an account without email, one included group; 1 ACL, 2 groups it may name; 2 repositories; 2 descriptions; any number of callbacks, failures, kills and changes by hand | `QuietIsDone`, `CalmOutcome`, `CutShort`: what a callback has done when it says nothing, when services work, and wherever it is cut short |
| `Missing` | 2 groups, 2 repositories, 6 sets of lines; 5 trees to commit, 4 files `project.config` to push; any number of requests and changes | `ProposalSound`, `OnlyLostDangle`: what a proposal is worth; `NotProposedAgain`: neither what was adopted nor what was applied of neat texts is proposed |
| `YamlForward` | 5 commits, one broken, one blank; interruptions anywhere | a clone that only moves forward returns the data of the commit checked out: it implements `ConfigReader` (`ReadsTrue`) |
| `YamlStale` (violation) | the same commits in any order, and interruptions | finding 2 |
| `Users` | 2 people, one of them with two external ids and an account from the start; 2 contents of a row, 2 row ids, 1 Gerrit id to give at a time; any number of requests, failures and removals | `MappingsTrue`, `SuccessMeansMapped`, `NewcomersServed` |
| `UsersTwice` (violation) | as `Users` | finding 3 |
| `Images` | 2 updates; any number of processes, requests and failures, with fairness | `RecordsTrue`, `Tracked`, `FreshAnswers`, `VerdictStays`: what rows and answers say; `EndedIsRecorded`: what has ended is written down |
| `ImagesLock` (violation) | as `Images` | finding 4 |
| `Plugins` | hooks: 2 tasks, 1 story, 3 events (patchset and merge of a change with a task, a related task and a story; the merge of another change with the related task); jobs: 3 builds; nodes: 2 nodes on 2 addresses. Any number of requests, failures, kills and steps of others, with fairness of the hooks | `SuccessMoved`, `NoMessageTwice`, `StatusHasCause`, `RedeliveryHeals`: what becomes of events; `RunNamesItsBuild`, `StatusWasTrue`, `ListingComplete`: what answers about builds are worth; `KeysWanted`, `NodeAnswersTrue`: the same about nodes |

In `Users` the admin has what can go wrong with external ids (one is replaced by
another, the special case of id 1) and joe what goes wrong without them; a
Gerrit id can be given again once account and mappings are gone, so any number
of accounts is created one after the other. Row ids and contents are
interchangeable: symmetry is used, and only invariants are checked.

Two ids per type are enough for the interesting cases: a resource that stays
next to one that is created or deleted, an ACL shared by two repositories, a
repository that is created and refreshed in the same run. The trees of
`MCResourcesEngine` put a created, updated, re-linked and deleted resource at
every level of the chain, drop a dependency key, leave the tracker, and offer
the gate one tree of each kind that it must refuse. Requests, failures and
crashes are not bounded. What the bounds leave out - more ids, deeper histories,
other trees - is what the theorems cover.

In `Images` two updates are enough for one to be recorded, or to fail to be
recorded, while the other one runs, is visited before or after it, or has its
row written already; an id is used once, so the number of updates is the only
bound.

In `Callbacks` each kind of callback meets each kind of state the object can be
in: missing, made by hand, or cut short at any call. Sets of two make members
who stay, come and go at once, and loops that fail at the first or the second
call. Groups that an ACL may name, and repositories, are interchangeable.

In `Missing` the lines of an ACL name one group or both, so an ACL can lose one
group and keep the other; others have options for the project section, a mention
of a description, or a last line that a header was appended to, of which nothing
is left when `get_all` removes the header. The trees hold an ACL under a label of
its own, under its digest, under the digest of another text (where `NoClash`
fails), and one that is indented with tabs, so that each premise of the
properties is met in some states and not in others. A repository without an ACL
is in one of them. What people push are the neat text and the two others as the
engine would push them, and a file with a section of its own.

In `Plugins` one task is closed by one event and only related to another; with
three builds one can come before a request, one between its two calls and its
own after that, and a build can be deleted before or after a listing has read
it. Ids of builds and nodes are used once, so their number is a bound; an address
is given again as soon as its node is gone. `NodepoolNodes` answers for node 0,
which does not exist, as the code does.

Reading commits in any order without interruption is covered by the theorems
`CacheCoherent` and `ReadsOwnHead` only.

Deadlock is checked for callbacks, missing resources, users, images and plugins: a
request always ends and another can come.
Deadlock is not checked for the engine: nobody has to send a request, and with
`DirectTrees` empty and one commit there is none to send. `YamlBackend` can
always be asked again, so deadlock is checked there.

Fairness (`FairSpec`): weak fairness of the engine going on with the request it
works on, in success or failure. Every call a callback makes ends by an answer
or an exception, the loop has no other way to stop, and only a kill ends it
early. Nothing is assumed about contributors, services that recover or requests
that are sent; `RetryHeals` names these as premises. One more premise is that
attempts find the services where the commit before left them, or with debris of
the same commit: a commit that was skipped is never caught up with.
For the images the same is assumed of the process (`WF_vars(Step \/ Fault)`), and
again for a hook under way (`WF_vars` of `HookStep \/ HookFault`): every call
of the Storyboard client returns or raises. That the event comes again and again,
that no other does, and that calls stop failing are premises of `RedeliveryHeals`.
For the images, that commands end, that somebody polls and finds the cache unlocked, and that
failures stop are premises of `EndedIsRecorded`, not assumptions.

## 4. Theorems

Checked by TLAPS for every set of ids, contents, trees and any length of
history, from the assumptions declared in the modules: `NoRes` and `Absent`
differ from every resource and content, the first commit is a valid tree.

* `ThreeScansClose`: an argument on depth. If something still depended on the
  last thing added, there would be a chain of five types; there are four. Its
  other half is `RefreshIsLeast`: nothing is refreshed without a reason.
* `ChangesTellAll`: the changes account for every difference of two trees, and
  equal trees give none.
* `AcceptedIsValid`: what the diff leaves alone was valid before; hence
  `MasterStaysValid`, whatever older commit the gate compared with.
* `EngineInvariant`: `IInv` is type correctness, validity of master, dependencies
  of the loaded tree, and `Planned`: whatever lacks its defaults is still to be
  created. With the priorities this gives `CallbacksFindTheirData` and
  `DependenciesComeFirst`. `RefreshIsComplete` needs `ThreeScansClose`.
* `ConvergenceInvariant`: `CInv` adds `Progress` (keys with nothing left to do
  are right, unless something failed) and `AlwaysRepairable` (what is left alone
  is right, what is updated exists, what is created is missing or its own
  debris). `SyncedIsRepairable` makes services in line with the old tree a good
  start: what the changes leave alone has the same text, and reads the same
  texts, in both trees. `TurnRepairable` is the step for callbacks that succeed
  or fail, `RunReachesGoal` and `GoalSettles` for those that succeed. From it:
  `RunsStayRepairable`, `RunsConverge`, `SuccessMeansAchieved`.
* `EngineFollowsCommits`: every step of the engine is a step of `ConfigSync` or a
  stutter. It uses `CInv` and `KInv`, which says that the trees of a run are
  `Known` and that a promised run is what `Repairable` is about. `StepsKInv`
  keeps it; `PlanFollows`, `TurnFollows`, `FinishFollows`, `IdleFollows` and
  `CrashFollows` map the actions. `SameServices` is the frame: while `reality`
  stays, so do `inLine` and `mendable`.
* `CacheCoherent`: cache and hash file agree, unless the hash file names a commit
  behind the clone, which is never checked out again; under the assumption that
  refs never go back (`OnlyForward`) or that nothing is interrupted. From it
  `ReadsOwnHead` (`ReadsHead`, which a run shows violated without the assumption) and the refinement `ReadingRefines`.
* `CallbacksInvariant`: as long as nothing was logged, what the loops have done
  and what they still have to do add up to the wish (`Creating`, `Updating` for
  groups; the same for `ahead` of projects). `GroupKept`, `RepoKept` and
  `ProjectKept` say what stays wherever the callback is and whatever has failed:
  who is to be removed from a group is nobody who is to stay, a group that was not
  there is begun or still not there, projects join and leave only when nothing is
  left to describe. `GroupCalm` (`CalmCreating`, `CalmChanging`), `RepoCalm` and
  `ProjectCalm` say how far a callback has come, and whether it has logged, as
  long as no service has failed; a creation may have logged its conflict and
  still has all of its members to add. From it `CallbacksTypeCorrect` and
  `CallbacksQuietAreDone`, for any number of members, groups and repositories, and
  the correspondence with the engine, `CallbacksCalmlyEnd` (`GroupEnds`, `RepoEnds`,
  `BoardEnds`) and `CallbacksCutShort` (`GroupDebris`, `RepoDebris`, `BoardDebris`), by
  cases on what the engine took the object for. It needs that `Absent` is neither
  a content nor debris. `RepeatingRepairs` is why the engine may rely on debris:
  sent again, the callback makes the goal of it.
* `MissingInvariant`: `Reading` says that what was read is what Gerrit has while
  it does not change, that groups an ACL names are there or in `lost`, and that
  ACLs and repositories read belong to each other (`Pairs`);
  `Answered` that the answer is the difference; `Has` that a tree which adopted a
  complete proposal has all of Gerrit. `MergedFacts` is the argument about
  digests: an ACL that is proposed is unknown to the tree, so its id is free
  unless it is that of an edited text. From these `ProposalsAreSound`
  (`ProposalSound`), `OnlyLostGroupsDangle`, `AdoptedStaysQuiet` and
  `AppliedStaysQuiet`, together `NothingComesBack`. The last two come down to
  `NothingMissing`: a tree that has all of Gerrit is answered with nothing. That a
  tree which was applied has all of Gerrit is `NeatReturns`: for a neat text,
  `Cleaned` undoes `Pushed`. It is about neat texts and repositories with an ACL
  only, and says nothing of the others.
* `UsersTypeCorrect`: inductive as it stands, since `TypeOK` of `ServicesUsers`
  says what a request relies on (`RowServed`, the shape of `made`).
* `MappingsStayTrue`: `LinksInv` adds that Gerrit accounts are not shared and
  id 1 is the admin's (`GerritOwn`), that the id about to be recorded is that of
  the user served (`LinkTrue`), and that a deletion has left no mapping behind
  where it went (`Dropped`), which is why `Finish` may remove the row. It rests
  on `PeopleAssumption` (id 1 of the identity provider is the admin's) and on
  requests that name only external ids of their own user.
* `AnswersInvariant`: `AnswersInv` follows a request through the services.
  `Visited` says that Gerrit, once left behind, has a mapping for the user, and
  Storyboard exactly one, of an account that exists; `Welcomed` what the accounts
  and mappings of somebody who had no row are at each stage, if nothing failed,
  and that only those with an id get past Storyboard. Mappings are counted by `Ids`, and the
  lemmas `RecordedByLink`, `RecordedByMap` and `RecordedUnlinked` say what each
  step does to it. From it `SuccessesAreMapped` and `NewcomersAreServed`.
* `ImagesInvariant`: `Written` (what is to be removed from the cache has its
  verdict), `Waiting` and `Open`, explained in the module, make `RecordsTrue`,
  `Tracked` and `FreshAnswers` inductive. From it `ImageRecordsTrue`,
  `ImagesTracked`, `ImageAnswersFresh` and `ImageVerdictsStay`.

* `PluginInvariant`: for hooks, `Visited` says that what is no longer in `left`
  was done, unless it was touched or an error is noted, `OneMessage` that the
  comment about to be made is not there, `Cause` that the event
  at hand is one of those delivered. For jobs, `RunInHand` follows the number from
  the first call to the answer, `AllSeen` says that what will be answered was seen,
  `Listed` that a build which was there all along is still to be read or was. For
  nodes, `KeysOK` follows the address from the listing to the
  machine, and `AnswersOK` what a command has done until it is answered. From it
  the nine invariants of `Plugins`, for any events, number of builds and nodes.

Every invariant and action property of the runs is stated by one of these
theorems. Only model-checked: `RetryHeals`, `EndedIsRecorded` and `RedeliveryHeals`,
since the provers know neither fairness nor `ENABLED`, and the violations of
section 5, which are traces.

## 5. Findings

1. `EngineRaises`: an ACL created without its optional `groups` key, in a commit
   that also updates something, is accepted by the gate and can never be applied:
   `ACL.get_deps` (`resources/gitacls.py:150`) raises `KeyError` in the refresh
   scan, and PUT answers 500.
2. `YamlStale`: a crash between the write of the cache file and that of the hash
   file (`yamlbackend.py:72-73`) makes a later read of an earlier commit return
   the data of another one, or half of it. PUT then computes the wrong
   difference, which can be empty: 201, and nothing applied.
3. `UsersTwice`: a mapping to a removed account is replaced only in the branch
   that creates the account again (`controllers/root.py:378-391`). Cut short
   there, the next POST takes the other branch, adds a second mapping, and every
   update of the user answers 500 from then on.
4. `ImagesLock`: an exception in the refresh leaves `REFRESH_LOCKED` set
   (`services/nodepool/image.py:44-65`). "image update cache is locked, refresh it
   later" is all that happens from then on: no update of this process leaves
   `IN_PROGRESS`, and at its exit all of them become `INTERRUPTED`.

Other behaviours that are worth knowing are modelled, and excused by name in the
properties: these properties say what holds apart from them, and do not catch them.

* `get_all` compares texts that it has rewritten (`resources/gitrepository.py:101-103`)
  with texts as they are in the tree. An ACL with tabs (as Gerrit writes them, and
  as `managesf/tests/test_resources_gitacls.py:39-42` has it), trailing blanks, an open last
  line or a line with "description" passes the gate, is applied, and is proposed as
  missing by every request, until the tree holds it in two spellings (`Neat`).
* An ACL that was adopted under its digest and edited since keeps the id. A
  repository that has the first text is proposed with an ACL under this id, which
  is taken, though "these rid will surely differ" (`engine.py:364`). Merging the
  proposal loses one of the two (`NoClash`).
* `add_authorized_key` reads an address and connects to it in another command
  (`services/nodepool/node.py:121-129`), without checking the host key: a node made
  at this address in between gets the key (`reused`).
* `if node_id:` (`services/nodepool/node.py:67`) takes id 0 for none: instead of "Node
  0 not found", a key goes to the first node listed.
* A lost connection counts as success, and the pipe into `sed` hides the exit status
  of `nodepool list` (`services/nodepool/node.py:28`, `57`): a command may not have
  been carried out, or rows be missing, behind a 200 (`cut`).
* PUT without COMMIT can skip a commit (`controllers/root.py:571`): `RunConverges` is
  about the trees that were loaded, `FollowsCommits` about runs that follow one
  another.
* An image update whose connection was lost is recorded as `SUCCESS`
  (`services/nodepool/image.py:57`): `RecordsTrue` counts it as one. An update whose
  output fills the ssh window does not end (`image.py:52`): `EndedIsRecorded` is about
  commands that have ended.
* A script of Jenkins that fails is answered like a job without builds
  (`services/jenkins/job.py:97`), as a test asserts; `ListingComplete` excuses it.

## 6. What is abstracted, and what is left out

* In the engine a callback is one step; its calls one by one are in `Callbacks`,
  for one object at a time. The two meet in `ServiceObjects`. That a callback
  leaves other objects alone is read from the code, with one exception: the
  description of a repository on Storyboard is shared by the project groups that
  have it. A new description refreshes them all in the same run.
* Regular expressions, YAML syntax, ACL file syntax: `BadVals`, `Broken`.
* Force-pushes to the config repository, collisions of abbreviated hashes, and
  work trees that git leaves locked.
* Changes made to Gerrit or Storyboard by hand: `start = "other"` covers services
  in any state, and no convergence is promised from there.
* Deletions run in the same order of types as creations, so a group goes before
  the repository whose ACL names it: Gerrit's view of that moment is not modelled.
* A project that leaves the local tracker keeps its Storyboard project group
  (`resources/project.py:45` looks at the new data only): the run answers 201 and
  no later run removes it. `Synced` is about what the code achieves, so it asks
  nothing of Storyboard for a project without the local tracker.
* Missing resources: descriptions of groups and repositories and members of
  groups are copied into the proposal and nothing refers to them. The text of a
  description is left out: it is taken to be one line without backslashes
  (`re.sub` would read these). Where nothing else is said, an ACL is proposed again
  unless its text is `Neat` and every repository has one.
* Users: a user created without `external_id` makes Storyboard's `create` raise on
  `int(None)` (`services/storyboard/user.py:125`): 500, and the row and the Gerrit
  account stay. The model does this too, and `NewcomersServed` says what such
  users get: an error, a mapped Gerrit account, no mapping to Storyboard.
* Users: email and full name are one value; 201 stands for the 200 of PUT; the
  external id -1 of old rows, renaming, ssh keys and Gerrit's own data are left
  out; Storyboard's SQL errors, which are logged and swallowed, count as failures;
  `get_user_mapping` returns the id on the service and not the managesf id that
  the comment of `SFuser.py:36` promises, which is used as a truth value only.

* Hooks, jobs and nodes: requests that policies, missing parameters, invalid ids,
  users or keys refuse (401, 400, 403, or 200 without a key) change nothing and
  are left out. A commit message is the set of tasks and stories it names; one that
  is named twice is visited twice by the code, and the second visit finds it done.
  The texts of comments are values: two events with the same text count as one
  message. A filter on builds by change is a listing of fewer builds. Jenkins
  merges queued builds of equal parameters: what waits is one build. Nodes have an
  address and a state; a row whose columns are empty, which `get_values` would
  shift, does not occur.
* Of the base classes (`services/base.py`) only what the plugins override is
  modelled; the rest raises `UnavailableActionError`.
* Not modelled: local users and htpasswd (each request changes one row or one
  line, nothing happens in between), policies (a stateless lookup), the Gerrit client as
  such (its calls are in the callbacks and in the users), backup, introspection,
  pages and the setup of the application (input and output only).

## 7. Plan

1. `ResourceTree`, `ResourcesEngine`, `YamlBackend` and their theorems: done.
2. `NodepoolImages` and its invariants: done.
3. `ServicesUsers` and its theorems: done.
4. `Callbacks` and its theorems: done.
5. `MissingResources` and its theorems: done.
6. `ConfigSync` and `EngineFollowsCommits`: done.
7. `StoryboardHooks`, `JenkinsJobs`, `NodepoolNodes`, `ServicePlugins` and their
   theorems: done.
8. `ServiceObjects`, and a callback of `Callbacks` as the step `RunOp` or `FailOp` of
   `ResourcesEngine`: done.
