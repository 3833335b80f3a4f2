---------------------------- MODULE YamlBackend ----------------------------
(***************************************************************************)
(* One clone of the config repository and its cache                        *)
(* (managesf/model/yamlbkd/yamlbackend.py).  Every YAMLBackend object      *)
(* fetches and checks out the ref it is asked for, takes the data from the *)
(* cache file if the hash file next to it names the commit checked out,    *)
(* and otherwise loads the YAML files and rewrites cache and hash file,    *)
(* one after the other.  The clone and both files outlive the object, the  *)
(* request and the process; GET, validation and application have clones of *)
(* their own, which only differ in the refs they are asked for.            *)
(*                                                                         *)
(* Commits are numbered along master, which is never forced back.          *)
(***************************************************************************)
EXTENDS Naturals

CONSTANTS Refs,         \* refs this clone is asked for
          Interrupts,   \* whether process, file system or git may fail
          MaxCommits, Broken, Blank, None, Error

ASSUME RefsAssumption == Refs \subseteq {"master", "master^1", "commit"}
ASSUME InterruptsAssumption == Interrupts \in BOOLEAN
ASSUME ErrorsAssumption ==
    None \notin [of: Nat, whole: BOOLEAN] /\ Error \notin [of: Nat, whole: BOOLEAN]
        /\ None # Error
ASSUME CommitsAssumption ==
    MaxCommits \in Nat \ {0} /\ Broken \subseteq Nat \ {0} /\ Blank \subseteq Nat

VARIABLES
    master,   \* number of commits on master
    head,     \* the commit checked out in the clone, 0 before the first one
    cache,    \* content of the cache file, None if missing or empty
    mark,     \* content of the hash file, 0 if missing or empty
    data,     \* self.data
    pc,       \* what the object is doing
    answer    \* outcome of the last read

vars == <<master, head, cache, mark, data, pc, answer>>

Reader == INSTANCE ConfigReader WITH want <- IF pc = "idle" THEN 0 ELSE head

Content(c) == Reader!Content(c)

-----------------------------------------------------------------------------

Init ==
    /\ master = 1
    /\ head = 0
    /\ cache = None /\ mark = 0
    /\ data = None /\ pc = "idle" /\ answer = None

\* A change is merged.
Push ==
    /\ master < MaxCommits
    /\ master' = master + 1
    /\ UNCHANGED <<head, cache, mark, data, pc, answer>>

\* A plausible slip: the parent of the first commit.
NamedBeyond(ref) == 0..master

\* The commits a ref can name: a SHA or SHA^1 is that of any commit.
Named(ref) ==
    IF ref = "master" THEN {master}
    ELSE IF ref = "master^1" THEN {master - 1} \ {0}
    ELSE 1..master

\* _update_git_clone
Fetch(ref) ==
    /\ pc = "idle"
    /\ head' \in Named(ref)
    /\ data' = None
    /\ pc' = "fetched"
    /\ UNCHANGED <<master, cache, mark, answer>>

\* git refuses: the ref does not exist, the remote does not answer.
FetchFails(ref) ==
    /\ pc = "idle"
    /\ Interrupts \/ Named(ref) = {}
    /\ answer' = Error
    /\ UNCHANGED <<master, head, cache, mark, data, pc>>

\* A plausible slip: the hash file is only looked for.
MissingMark == mark = 0

\* The cache is not the one of the commit checked out.
Outdated == mark # head

CacheMiss ==
    /\ pc = "fetched"
    /\ Outdated
    /\ pc' = "loading"
    /\ UNCHANGED <<master, head, cache, mark, data, answer>>

\* What yaml.safe_load makes of the cache file: a file cut short reads as a
\* tree that lacks resources, or does not parse.
Parsed ==
    IF cache # None /\ ~cache.whole THEN {cache, Error} ELSE {cache}

\* An empty tree counts as no data.
CacheHit ==
    /\ pc = "fetched"
    /\ ~Outdated
    /\ \E d \in Parsed :
          /\ data' = IF d = Error THEN data ELSE d
          /\ answer' = IF d = Error THEN Error ELSE answer
          /\ pc' = IF d = Error THEN "idle" ELSE IF d = None THEN "loading" ELSE "read"
    /\ UNCHANGED <<master, head, cache, mark>>

\* _load_db
LoadDb ==
    /\ pc = "loading"
    /\ head \notin Broken
    /\ data' = Content(head)
    /\ pc' = "dumping"
    /\ UNCHANGED <<master, head, cache, mark, answer>>

\* A YAMLDBException: the clone stays at the broken commit, the cache as it is.
LoadRefused ==
    /\ pc = "loading"
    /\ head \in Broken
    /\ answer' = Error
    /\ pc' = "idle"
    /\ UNCHANGED <<master, head, cache, mark, data>>

\* _update_cache, first the data,
DumpCache ==
    /\ pc = "dumping"
    /\ cache' = data
    /\ pc' = "marking"
    /\ UNCHANGED <<master, head, mark, data, answer>>

\* A plausible slip: the hash of master instead of that of the clone.
MarkMaster ==
    /\ pc = "marking"
    /\ mark' = master
    /\ pc' = "read"
    /\ UNCHANGED <<master, head, cache, data, answer>>

\* then the hash.
MarkCache ==
    /\ pc = "marking"
    /\ mark' = head
    /\ pc' = "read"
    /\ UNCHANGED <<master, head, cache, data, answer>>

\* get_data
GetData ==
    /\ pc = "read"
    /\ answer' = data
    /\ pc' = "idle"
    /\ UNCHANGED <<master, head, cache, mark, data>>

\* What a dump cut short leaves in the cache file, which it first empties; the
\* few bytes of an empty tree are written at once.
CutShort == {cache, None, data} \union (IF data = None THEN {} ELSE {Reader!Torn(head)})

\* The process dies or a write raises.
Interrupt ==
    /\ Interrupts
    /\ pc # "idle"
    /\ cache' \in IF pc = "dumping" THEN CutShort ELSE {cache}
    /\ mark' \in IF pc = "marking" THEN {mark, 0} ELSE {mark}
    /\ answer' = Error
    /\ pc' = "idle"
    /\ UNCHANGED <<master, head, data>>

Next ==
    \/ Push
    \/ \E ref \in Refs : Fetch(ref) \/ FetchFails(ref)
    \/ CacheMiss \/ CacheHit
    \/ LoadDb \/ LoadRefused
    \/ DumpCache \/ MarkCache
    \/ GetData
    \/ Interrupt

Spec == Init /\ [][Next]_vars

-----------------------------------------------------------------------------

Tree == [of: Nat, whole: BOOLEAN] \union {None}

\* Every variable keeps its type, and no file names a commit that does not exist.
TypeOK ==
    /\ master \in 1..MaxCommits
    /\ head \in 0..master /\ mark \in 0..master
    /\ cache \in Tree /\ data \in Tree
    /\ pc \in {"idle", "fetched", "loading", "dumping", "marking", "read"}
    /\ answer \in Tree \union {Error}
    /\ pc # "idle" => head # 0

\* master and master^1 never name an older commit than they did before.
OnlyForward == Refs \in {{"master"}, {"master^1"}}

\* The invariant behind ReadsHead: what is being written or returned is the
\* data of the commit checked out, and so is the cache file if the hash file
\* says so; unless that file names a commit behind the clone, which will never
\* be checked out again, or is about to be written.
Coherent ==
    OnlyForward \/ ~Interrupts =>
        /\ pc \in {"dumping", "marking", "read"} => data = Content(head) /\ head \notin Broken
        /\ pc = "marking" => cache = data
        /\ pc \in {"loading", "dumping"} /\ mark = head => Content(head) = None
        /\ mark \notin Broken
        /\ \/ mark = 0 \/ cache = Content(mark)
           \/ OnlyForward /\ mark < head
           \/ ~Interrupts /\ pc = "marking"
        /\ OnlyForward => mark <= head
        /\ Refs = {"master^1"} => head < master

\* What the object returns is the data of the commit it has checked out:
\* "a cache file to avoid full re-load [...] when ref hash has not changed".
ReadsHead == pc = "read" => data = Content(head) /\ head \notin Broken

\* Reading through clone and cache is reading the config repository.
ReadsTrue == Reader!Spec
=============================================================================
