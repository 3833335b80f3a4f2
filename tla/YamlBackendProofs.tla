------------------------- MODULE YamlBackendProofs -------------------------
(* Theorems about YamlBackend: where the order of the two writes of         *)
(* _update_cache does no harm, reading through clone and cache implements   *)
(* ConfigReader, for any number of commits and any of them broken or blank. *)
EXTENDS YamlBackend, TLAPS

LEMMA ContentType ==
    ASSUME NEW c \in Nat
    PROVE  Content(c) \in Tree
  BY DEF Content, Reader!Content, Reader!Whole, Tree

\* Every variable keeps its type, and no file names a commit of the future.
THEOREM YamlTypeCorrect == Spec => []TypeOK
  <1>1. Init => TypeOK
    BY CommitsAssumption DEF Init, TypeOK, Tree
  <1>2. TypeOK /\ [Next]_vars => TypeOK'
    <2> SUFFICES ASSUME TypeOK, [Next]_vars PROVE TypeOK'
      OBVIOUS
    <2> USE CommitsAssumption DEF TypeOK
    <2>1. CASE Push
      BY <2>1 DEF Push
    <2>2. ASSUME NEW ref \in Refs, Fetch(ref) PROVE TypeOK'
      <3>1. head' \in 1..master
        BY <2>2 DEF Fetch, Named
      <3>. QED
        BY <2>2, <3>1 DEF Fetch, Tree
    <2>3. ASSUME NEW ref \in Refs, FetchFails(ref) PROVE TypeOK'
      BY <2>3 DEF FetchFails
    <2>4. CASE CacheMiss
      BY <2>4 DEF CacheMiss
    <2>5. CASE CacheHit
      <3>1. PICK d \in Parsed :
               /\ data' = IF d = Error THEN data ELSE d
               /\ answer' = IF d = Error THEN Error ELSE answer
               /\ pc' = IF d = Error THEN "idle" ELSE IF d = None THEN "loading" ELSE "read"
        BY <2>5 DEF CacheHit
      <3>2. d = cache \/ d = Error
        BY DEF Parsed
      <3>. QED
        BY <2>5, <3>1, <3>2 DEF CacheHit
    <2>6. CASE LoadDb
      BY <2>6, ContentType DEF LoadDb
    <2>7. CASE LoadRefused
      BY <2>7 DEF LoadRefused
    <2>8. CASE DumpCache
      BY <2>8 DEF DumpCache
    <2>9. CASE MarkCache
      BY <2>9 DEF MarkCache
    <2>10. CASE GetData
      BY <2>10 DEF GetData
    <2>11. CASE Interrupt
      <3>1. Reader!Torn(head) \in Tree /\ None \in Tree
        BY DEF Reader!Torn, Tree
      <3>2. cache' \in Tree
        BY <2>11, <3>1 DEF Interrupt, CutShort
      <3>3. mark' \in 0..master
        BY <2>11 DEF Interrupt
      <3>. QED
        BY <2>11, <3>2, <3>3 DEF Interrupt
    <2>12. CASE UNCHANGED vars
      BY <2>12 DEF vars
    <2>. QED
      BY <2>1, <2>2, <2>3, <2>4, <2>5, <2>6, <2>7, <2>8, <2>9, <2>10, <2>11, <2>12 DEF Next
  <1>. QED
    BY <1>1, <1>2, PTL DEF Spec

-----------------------------------------------------------------------------
(* The coherence of cache and hash file.                                   *)

\* A file that is whole or missing parses to what it holds.
LEMMA ParsedContent ==
    ASSUME NEW c \in Nat, cache = Content(c)
    PROVE  Parsed = {Content(c)} /\ Content(c) # Error
  <1>1. CASE c \in Blank
    BY <1>1, ErrorsAssumption DEF Parsed, Content, Reader!Content
  <1>2. CASE c \notin Blank
    <2>1. Content(c) = [of |-> c, whole |-> TRUE]
      BY <1>2 DEF Content, Reader!Content, Reader!Whole
    <2>2. Content(c) \in [of: Nat, whole: BOOLEAN] /\ Content(c).whole
      BY <2>1
    <2>3. Content(c) # Error /\ Content(c) # None
      BY <2>2, ErrorsAssumption
    <2>. QED
      BY <2>2, <2>3 DEF Parsed
  <1>. QED
    BY <1>1, <1>2

LEMMA CoherentStep == TypeOK /\ Coherent /\ [Next]_vars => Coherent'
  <1> SUFFICES ASSUME TypeOK, Coherent, [Next]_vars, OnlyForward \/ ~Interrupts
               PROVE  Coherent'
    BY DEF Coherent, OnlyForward
  <1> USE CommitsAssumption DEF Coherent, OnlyForward
  <1>0. /\ head \in Nat /\ mark \in Nat /\ master \in Nat \ {0}
        /\ head <= master /\ mark <= master
    BY DEF TypeOK
  <1>1. CASE Push
    BY <1>0, <1>1 DEF Push
  <1>2. ASSUME NEW ref \in Refs, Fetch(ref) PROVE Coherent'
    <2>1. head' \in Nat /\ head' \in Named(ref)
      BY <1>0, <1>2 DEF Fetch, Named
    <2>2. Refs = {"master"} => head' = master
      BY <2>1 DEF Named
    <2>3. Refs = {"master^1"} => head' = master - 1
      BY <2>1 DEF Named
    <2>. QED
      BY <1>0, <1>2, <2>1, <2>2, <2>3 DEF Fetch
  <1>3. ASSUME NEW ref \in Refs, FetchFails(ref) PROVE Coherent'
    BY <1>3 DEF FetchFails
  <1>4. CASE CacheMiss
    BY <1>4 DEF CacheMiss, Outdated
  <1>5. CASE CacheHit
    <2>1. pc = "fetched" /\ mark = head /\ head # 0
      BY <1>5 DEF CacheHit, Outdated, TypeOK
    <2>2. cache = Content(head) /\ head \notin Broken
      BY <1>0, <2>1
    <2>3. Parsed = {Content(head)} /\ Content(head) # Error
      BY <1>0, <2>2, ParsedContent
    <2>4. data' = Content(head) /\ pc' = IF Content(head) = None THEN "loading" ELSE "read"
      BY <1>5, <2>3 DEF CacheHit
    <2>. QED
      BY <1>5, <2>1, <2>2, <2>4 DEF CacheHit
  <1>6. CASE LoadDb
    BY <1>6 DEF LoadDb
  <1>7. CASE LoadRefused
    BY <1>7 DEF LoadRefused
  <1>8. CASE DumpCache
    <2>1. mark = 0 \/ mark = head \/ (OnlyForward /\ mark < head) \/ ~Interrupts
      BY <1>0, <1>8
    <2>. QED
      BY <1>8, <2>1 DEF DumpCache
  <1>9. CASE MarkCache
    BY <1>0, <1>9 DEF MarkCache
  <1>10. CASE GetData
    BY <1>10 DEF GetData
  <1>11. CASE Interrupt
    <2>1. OnlyForward
      BY <1>11 DEF Interrupt
    <2>2. mark' = mark \/ mark' = 0
      BY <1>11 DEF Interrupt
    <2>3. 0 \notin Broken
      OBVIOUS
    <2>4. CASE mark < head
      BY <1>0, <1>11, <2>1, <2>2, <2>3, <2>4 DEF Interrupt
    <2>5. CASE mark = head /\ pc = "dumping"
      <3>1. cache = None /\ data = None /\ Content(mark) = None
        BY <1>0, <1>11, <2>1, <2>5 DEF Interrupt, TypeOK
      <3>2. cache' = None
        BY <1>11, <2>5, <3>1 DEF Interrupt, CutShort
      <3>. QED
        BY <1>0, <1>11, <2>1, <2>2, <2>3, <2>5, <3>1, <3>2 DEF Interrupt
    <2>6. CASE mark = head /\ pc # "dumping"
      BY <1>0, <1>11, <2>1, <2>2, <2>3, <2>6 DEF Interrupt
    <2>. QED
      BY <1>0, <2>1, <2>4, <2>5, <2>6
  <1>12. CASE UNCHANGED vars
    BY <1>12 DEF vars
  <1>. QED
    BY <1>1, <1>2, <1>3, <1>4, <1>5, <1>6, <1>7, <1>8, <1>9, <1>10, <1>11, <1>12 DEF Next

\* Where refs never go back, or nothing is interrupted, cache and hash file agree.
THEOREM CacheCoherent == Spec => []Coherent
  <1>1. Init => Coherent
    BY CommitsAssumption DEF Init, Coherent, OnlyForward
  <1>. QED
    BY <1>1, CoherentStep, YamlTypeCorrect, PTL DEF Spec

\* The object returns the data of the commit it has checked out.
THEOREM ReadsOwnHead ==
    ASSUME OnlyForward \/ ~Interrupts
    PROVE  Spec => []ReadsHead
  <1>1. Coherent => ReadsHead
    BY DEF Coherent, OnlyForward, ReadsHead
  <1>. QED
    BY <1>1, CacheCoherent, PTL

-----------------------------------------------------------------------------
(* The refinement.                                                         *)

\* Every step of the clone is a step of the reader or none at all.
LEMMA ReaderStep ==
    ASSUME TypeOK, Coherent, OnlyForward \/ ~Interrupts, [Next]_vars
    PROVE  [Reader!Next]_<<master, IF pc = "idle" THEN 0 ELSE head, answer>>
  <1> DEFINE want == IF pc = "idle" THEN 0 ELSE head
  <1> USE DEF Reader!Next
  <1>0. head \in Nat /\ master \in Nat \ {0} /\ (pc # "idle" => head # 0)
    BY CommitsAssumption DEF TypeOK
  <1>1. CASE Push
    BY <1>1 DEF Push, Reader!Push
  <1>2. ASSUME NEW ref \in Refs, Fetch(ref)
        PROVE  Reader!Next
    <2>1. head' \in 1..master
      BY <1>0, <1>2 DEF Fetch, Named
    <2>2. Reader!Ask(head')
      BY <1>2, <2>1 DEF Fetch, Reader!Ask
    <2>. QED
      BY <2>1, <2>2
  <1>3. ASSUME NEW ref \in Refs, FetchFails(ref) PROVE Reader!Fail
    BY <1>3 DEF FetchFails, Reader!Fail
  <1>4. CASE CacheHit
    <2>1. PICK d \in Parsed :
             /\ answer' = IF d = Error THEN Error ELSE answer
             /\ pc' = IF d = Error THEN "idle" ELSE IF d = None THEN "loading" ELSE "read"
      BY <1>4 DEF CacheHit
    <2>2. CASE d = Error
      BY <1>4, <2>1, <2>2 DEF CacheHit, Reader!Fail
    <2>3. CASE d # Error
      BY <1>4, <2>1, <2>3 DEF CacheHit
    <2>. QED
      BY <2>2, <2>3
  <1>5. CASE CacheMiss \/ LoadDb \/ DumpCache \/ MarkCache
    BY <1>5 DEF CacheMiss, LoadDb, DumpCache, MarkCache
  <1>6. CASE LoadRefused
    BY <1>6 DEF LoadRefused, Reader!Fail
  <1>7. CASE GetData
    <2>1. answer' = Content(head) /\ head \notin Broken
      BY <1>7 DEF GetData, Coherent, OnlyForward
    <2>2. Reader!Reply
      BY <1>0, <1>7, <2>1 DEF GetData, Content, Reader!Reply
    <2>. QED
      BY <2>2
  <1>8. CASE Interrupt
    BY <1>8 DEF Interrupt, Reader!Fail
  <1>9. CASE UNCHANGED vars
    BY <1>9 DEF vars
  <1>. QED
    BY <1>1, <1>2, <1>3, <1>4, <1>5, <1>6, <1>7, <1>8, <1>9 DEF Next

\* Reading through clone and cache implements reading the config repository:
\* the clones of GET /resources and of PUT /resources without a body, killed at
\* any moment, and every clone that is never interrupted.
THEOREM ReadingRefines ==
    ASSUME OnlyForward \/ ~Interrupts
    PROVE  Spec => ReadsTrue
  <1>1. Init => Reader!Init
    BY DEF Init, Reader!Init
  <1>2. TypeOK /\ Coherent /\ [Next]_vars
           => [Reader!Next]_<<master, IF pc = "idle" THEN 0 ELSE head, answer>>
    BY ReaderStep
  <1>. QED
    BY <1>1, <1>2, CacheCoherent, YamlTypeCorrect, PTL
       DEF Spec, ReadsTrue, Reader!Spec
=============================================================================
