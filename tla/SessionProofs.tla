---------------------------- MODULE SessionProofs ---------------------------
(***************************************************************************)
(* Session, for every set of files, texts and edits.                       *)
(***************************************************************************)
EXTENDS Session, IngestProofs

USE IngestAssumption, SessionAssumption

-----------------------------------------------------------------------------
(***************************************************************************)
(* The state stays in the sets that the code's annotations name.           *)
(***************************************************************************)
THEOREM TypeInvariant == Spec => []SessionTypeOK
<1>1. Init => SessionTypeOK
  <2> SUFFICES ASSUME Init PROVE SessionTypeOK
    OBVIOUS
  <2>1. NodesOf(clock) \subseteq Node /\ RowsOf(clock) \subseteq CachedFile
    BY DEF Init, NodesOf, RowsOf, Node, CachedFile, FileStamp
  <2>2. disk \in [Files -> Node \cup {None}] /\ snap \in Cache
    BY <2>1 DEF Init, Cache
  <2>3. <<0, 0>> \in FileStamp
    BY DEF FileStamp
  <2> QED
    BY <2>2, <2>3, EmptyType
    DEF Init, WalkInit, SessionTypeOK, IngestTypeOK
<1>2. SessionTypeOK /\ [Next]_vars => SessionTypeOK'
  <2> SUFFICES ASSUME SessionTypeOK, [Next]_vars
               PROVE  SessionTypeOK'
    OBVIOUS
  <2>0. IngestTypeOK
    BY DEF SessionTypeOK
  <2>1. ASSUME NEW f \in Files, Edit(f) PROVE SessionTypeOK'
    BY <2>0, <2>1, EditKeepsType DEF Edit, Notify, SessionTypeOK
  <2>2. ASSUME NEW f \in Files, Delete(f) PROVE SessionTypeOK'
    BY <2>0, <2>2, EditKeepsType DEF Delete, Notify, SessionTypeOK
  <2>3. CASE LoadSnapshot
    BY <2>3 DEF LoadSnapshot, walkVars, SessionTypeOK, IngestTypeOK
  <2>5. CASE FirstBuild
    BY <2>0, <2>5, BeginKeepsType DEF FirstBuild, SessionTypeOK
  <2>6. CASE WatchBatch
    BY <2>0, <2>6, BeginKeepsType DEF WatchBatch, SessionTypeOK
  <2>7. CASE Walk
    BY <2>0, <2>7, StepKeepsType DEF Walk, sessionVars, SessionTypeOK
  <2>8. CASE Refold
    <3>1. Folded(Self) \in Cache
      BY DEF Folded, Cache, SessionTypeOK, IngestTypeOK
    <3> QED
      BY <2>8, <3>1 DEF Refold, walkVars, sessionVars, SessionTypeOK,
         IngestTypeOK
  <2>9. CASE Publish
    <3>1. cache' \in [Walkers -> Cache] /\ files[Self] \in View
      BY <2>9 DEF Publish, SessionTypeOK, IngestTypeOK
    <3> QED
      BY <2>0, <2>9, <3>1, DiscardKeepsType DEF Publish, SessionTypeOK
  <2>10. CASE PatchRaises
    <3>1. cache' \in [Walkers -> Cache]
      BY <2>10 DEF PatchRaises, ReadRaises, SessionTypeOK, IngestTypeOK
    <3> QED
      BY <2>0, <2>10, <3>1, DiscardKeepsType DEF PatchRaises, ReadRaises, SessionTypeOK
  <2>11. CASE RegisterWatch
    BY <2>11 DEF RegisterWatch, ingestVars, walkVars, SessionTypeOK,
       IngestTypeOK
  <2>12. CASE Stop
    <3>1. cache' \in [Walkers -> Cache]
      BY <2>12, EmptyType DEF Stop, SessionTypeOK, IngestTypeOK
    <3> QED
      BY <2>0, <2>12, <3>1, DiscardKeepsType, EmptyType DEF Stop, SessionTypeOK
  <2>13. CASE UNCHANGED vars
    BY <2>13 DEF vars, ingestVars, walkVars, sessionVars, SessionTypeOK,
       IngestTypeOK
  <2> QED
    BY <2>1, <2>2, <2>3, <2>5, <2>6, <2>7, <2>8, <2>9, <2>10, <2>11, <2>12,
       <2>13 DEF Next, System
<1> QED
  BY <1>1, <1>2, PTL DEF Spec

-----------------------------------------------------------------------------
(***************************************************************************)
(* Cache honesty is inductive once no stamp is ahead of the clock, those   *)
(* of the snapshot included.                                               *)
(***************************************************************************)
HonestInv == WalkersSound /\ \A f \in Files : Sound(snap[f], f)

LEMMA HonestStep ==
    ASSUME FineClock, SessionTypeOK, HonestInv, [Next]_vars
    PROVE  HonestInv'
<1>0. IngestTypeOK /\ WalkersSound /\ \A f \in Files : Sound(snap[f], f)
  BY DEF SessionTypeOK, HonestInv
<1>1. ASSUME NEW f \in Files, Edit(f) \/ Delete(f) PROVE HonestInv'
  <2>1. Remove(f) \/ \E t \in Texts : Write(f, t)
    BY <1>1 DEF Edit, Delete
  <2>2. Edited /\ UNCHANGED <<cache, fresh, stamp>>
    BY <1>0, <2>1, EditIsEdited
  <2>3. \A g \in Files : \A entry :
            Stamped(entry) /\ Sound(entry, g) => Sound(entry, g)'
    BY <1>0, <2>2, EntryAfterEdit
  <2>4. \A g \in Files : Stamped(snap[g]) /\ snap'[g] = snap[g]
    BY <1>1 DEF SessionTypeOK, Cache, CachedFile, Stamped, Edit, Delete, Notify
  <2>5. \A g \in Files : Sound(snap[g], g)'
    BY <1>0, <2>3, <2>4 DEF Sound
  <2> QED
    BY <1>0, <2>2, <2>5, WalkersAfterEdit DEF HonestInv
<1>2. ASSUME UNCHANGED <<disk, clock, snap>>, WalkersSound' PROVE HonestInv'
  BY <1>0, <1>2 DEF HonestInv, Sound
<1>3. CASE LoadSnapshot
  <2>1. /\ cache' = [cache EXCEPT ![Self] = snap]
        /\ UNCHANGED <<disk, clock, fresh, stamp, snap>>
    BY <1>3 DEF LoadSnapshot, walkVars
  <2>2. \A w \in Walkers : cache'[w] = cache[w] \/ cache'[w] = snap
    BY <2>1 DEF SessionTypeOK, IngestTypeOK
  <2> QED
    BY <1>0, <2>1, <2>2 DEF HonestInv, WalkersSound, DiskPast, WalkerSound, Sound
<1>4. CASE FirstBuild \/ WatchBatch \/ RegisterWatch \/ UNCHANGED vars
  <2>1. UNCHANGED <<disk, clock, cache, fresh, stamp, snap>>
    BY <1>4 DEF FirstBuild, WatchBatch, BeginIngest, RegisterWatch, vars, ingestVars,
       walkVars, sessionVars
  <2> QED
    BY <1>0, <1>2, <2>1, WalkersUndisturbed
<1>5. CASE Walk
  <2>1. UNCHANGED <<disk, clock, snap>>
    BY <1>5 DEF Walk, IngestStep, sessionVars, StatVanished, StatReuse, StatChanged,
       ReadParsed, ReadSkipped
  <2> QED
    BY <1>0, <1>2, <1>5, <2>1, WalkersAfterStep DEF Walk
<1>6. CASE Refold
  <2>1. /\ cache' = [cache EXCEPT ![Self] = Folded(Self)]
        /\ UNCHANGED <<disk, clock, fresh, stamp, snap>>
    BY <1>6 DEF Refold, walkVars, sessionVars
  <2>2. ASSUME NEW f \in Files PROVE Sound(Folded(Self)[f], f)
    BY <1>0 DEF Folded, WalkersSound, WalkerSound, Sound
  <2>3. \A w \in Walkers : cache'[w] = cache[w] \/ cache'[w] = Folded(Self)
    BY <2>1 DEF SessionTypeOK, IngestTypeOK
  <2> QED
    BY <1>0, <2>1, <2>2, <2>3 DEF HonestInv, WalkersSound, DiskPast, WalkerSound, Sound
<1>7. CASE Publish \/ PatchRaises \/ Stop
  <2>1. /\ Discard(Self) /\ UNCHANGED <<disk, clock, snap>>
        /\ cache' = cache \/ cache' = [cache EXCEPT ![Self] = Empty]
    BY <1>7 DEF Publish, PatchRaises, ReadRaises, Stop
  <2> QED
    BY <1>0, <1>2, <2>1, WalkersAfterDiscard
<1> QED
  BY <1>1, <1>3, <1>4, <1>5, <1>6, <1>7 DEF Next, System

LEMMA HonestInit == Init => HonestInv
<1> SUFFICES ASSUME Init PROVE HonestInv
  OBVIOUS
<1>1. DiskPast
  BY DEF Init, NodesOf, DiskPast
<1>2. \A f \in Files : Sound(snap[f], f)
  BY DEF Init, RowsOf, Sound
<1>3. ASSUME NEW w \in Walkers PROVE WalkerSound(w)
  BY DEF Init, WalkInit, WalkerSound, Sound, Empty
<1> QED
  BY <1>1, <1>2, <1>3 DEF HonestInv, WalkersSound

LEMMA HonestInvIsHonest == HonestInv => CacheHonest
BY DEF HonestInv, WalkersSound, WalkerSound, CacheHonest, Sound, Honest

(***************************************************************************)
(* With a clock that tells edits apart, no interleaving of edits with the  *)
(* stat and the read of a walk, no crash and no restart leaves a cache     *)
(* entry that would be reused for a text it was not parsed from.           *)
(***************************************************************************)
THEOREM CacheIsHonest ==
    ASSUME FineClock
    PROVE  Spec => []CacheHonest
<1>1. Init => HonestInv
  BY HonestInit
<1>2. SessionTypeOK /\ HonestInv /\ [Next]_vars => HonestInv'
  BY HonestStep
<1>3. HonestInv => CacheHonest
  BY HonestInvIsHonest
<1> QED
  BY <1>1, <1>2, <1>3, TypeInvariant, PTL DEF Spec

-----------------------------------------------------------------------------
(***************************************************************************)
(* What a walk has passed over agrees with the disk, as long as no change  *)
(* is waiting for the next patch; the published index agrees with what was *)
(* walked.                                                                 *)
(***************************************************************************)
PhaseInv ==
    /\ server \in {"off", "loaded"} => pc[Self] = "idle" /\ watcher = "none"
    /\ server = "building" => watcher = "none"
    /\ server = "serving" /\ watcher /= "live" => pc[Self] = "idle"
    /\ watcher = "none" => ~changed
    /\ pc[Self] = "walked" => todo[Self] = {}

WalkInv ==
    /\ pc[Self] = "idle" => files[Self] = Empty
    /\ \A f \in todo[Self] : files[Self][f] = None
    /\ pc[Self] /= "idle" /\ ~changed =>
          \A f \in Files \ todo[Self] : files[Self][f] = Product(disk[f])

ServedInv ==
    server = "serving" /\ watcher /= "dead" /\ ~changed /\ pc[Self] = "idle" =>
        current = DiskView

FreshInv == PhaseInv /\ WalkInv /\ ServedInv

LEMMA DiscardFacts ==
    ASSUME SessionTypeOK, Discard(Self)
    PROVE  pc'[Self] = "idle" /\ todo'[Self] = {} /\ files'[Self] = Empty
BY DEF Discard, SessionTypeOK, IngestTypeOK

LEMMA PhaseStep ==
    ASSUME SessionTypeOK, PhaseInv, [Next]_vars
    PROVE  PhaseInv'
<1> USE DEF PhaseInv
<1>1. ASSUME NEW f \in Files, Edit(f) \/ Delete(f) PROVE PhaseInv'
  <2>1. UNCHANGED <<pc, todo>> /\ Notify
    BY <1>1 DEF Edit, Delete, Write, Remove, Change, walkVars
  <2> QED
    BY <2>1 DEF Notify
<1>2. CASE LoadSnapshot
  BY <1>2 DEF LoadSnapshot, walkVars
<1>3. CASE FirstBuild
  BY <1>3 DEF FirstBuild, BeginIngest, SessionTypeOK, IngestTypeOK
<1>4. CASE Walk
  <2>1. PICK f \in Files :
            \/ StatVanished(Self, f) \/ StatReuse(Self, f)
            \/ StatChanged(Self, f) \/ ReadParsed(Self, f)
            \/ ReadSkipped(Self, f)
    BY <1>4 DEF Walk, IngestStep
  <2>2. pc[Self] \in {"stat", "read"} /\ pc'[Self] \in {"stat", "read"}
    BY <2>1 DEF StatVanished, StatReuse, StatChanged, ReadParsed, ReadSkipped,
       SessionTypeOK, IngestTypeOK
  <2> QED
    BY <1>4, <2>2 DEF Walk, sessionVars
<1>5. CASE Refold
  BY <1>5 DEF Refold, Returned, walkVars, sessionVars, SessionTypeOK,
     IngestTypeOK
<1>6. CASE Publish
  BY <1>6, DiscardFacts DEF Publish
<1>7. CASE PatchRaises
  BY <1>7, DiscardFacts DEF PatchRaises, ReadRaises
<1>8. CASE RegisterWatch
  BY <1>8 DEF RegisterWatch, ingestVars, walkVars
<1>9. CASE WatchBatch
  BY <1>9 DEF WatchBatch, BeginIngest, SessionTypeOK, IngestTypeOK
<1>10. CASE Stop
  BY <1>10, DiscardFacts DEF Stop
<1>11. CASE UNCHANGED vars
  BY <1>11 DEF vars, ingestVars, walkVars, sessionVars
<1> QED
  BY <1>1, <1>2, <1>3, <1>4, <1>5, <1>6, <1>7, <1>8, <1>9, <1>10, <1>11
  DEF Next, System

LEMMA WalkInvAfterWalk ==
    ASSUME SessionTypeOK, CacheHonest, WalkInv, Walk
    PROVE  WalkInv'
<1>0. PICK f \in Files :
          \/ StatVanished(Self, f) \/ StatReuse(Self, f)
          \/ StatChanged(Self, f) \/ ReadParsed(Self, f)
          \/ ReadSkipped(Self, f)
  BY DEF Walk, IngestStep
<1>1. /\ pc[Self] \in {"stat", "read"} /\ pc'[Self] \in {"stat", "read"}
      /\ UNCHANGED <<disk, changed>>
  BY <1>0 DEF Walk, sessionVars, StatVanished, StatReuse, StatChanged,
     ReadParsed, ReadSkipped, SessionTypeOK, IngestTypeOK
<1>2. CASE StatChanged(Self, f)
  BY <1>1, <1>2 DEF StatChanged, WalkInv
<1>3. ASSUME todo' = [todo EXCEPT ![Self] = @ \ {f}],
             f \in todo[Self],
             files'[Self] = [files[Self] EXCEPT ![f] = Product(disk[f])]
      PROVE  WalkInv'
  <2>1. todo'[Self] = todo[Self] \ {f}
    BY <1>3 DEF SessionTypeOK, IngestTypeOK
  <2>2. \A g \in Files : files'[Self][g] = IF g = f THEN Product(disk[f])
                                           ELSE files[Self][g]
    BY <1>3 DEF SessionTypeOK, IngestTypeOK, View
  <2>3. todo[Self] \subseteq Files
    BY DEF SessionTypeOK, IngestTypeOK
  <2>4. \A g \in todo'[Self] : files'[Self][g] = None
    BY <2>1, <2>2, <2>3 DEF WalkInv
  <2>5. ~changed' => \A g \in Files \ todo'[Self] :
                        files'[Self][g] = Product(disk'[g])
    BY <1>1, <2>1, <2>2 DEF WalkInv
  <2> QED
    BY <1>1, <2>4, <2>5 DEF WalkInv
<1>4. ASSUME f \in todo[Self], Product(disk[f]) = None, files' = files
      PROVE  files'[Self] = [files[Self] EXCEPT ![f] = Product(disk[f])]
  BY <1>4 DEF WalkInv, SessionTypeOK, IngestTypeOK, View
<1>5. CASE StatVanished(Self, f)
  BY <1>3, <1>4, <1>5 DEF StatVanished, AtFile, Product
<1>6. CASE StatReuse(Self, f)
  <2>1. cache[Self][f].file = Product(disk[f])
    BY <1>6 DEF StatReuse, Unchanged, CacheHonest, Honest
  <2>2. files'[Self] = [files[Self] EXCEPT ![f] = Product(disk[f])]
    BY <1>6, <2>1 DEF StatReuse, SessionTypeOK, IngestTypeOK
  <2> QED
    BY <1>3, <1>6, <2>2 DEF StatReuse, AtFile
<1>7. CASE ReadParsed(Self, f)
  <2>1. files'[Self] = [files[Self] EXCEPT ![f] = Product(disk[f])]
    BY <1>7 DEF ReadParsed, SessionTypeOK, IngestTypeOK
  <2> QED
    BY <1>3, <1>7, <2>1 DEF ReadParsed, AtFile
<1>8. CASE ReadSkipped(Self, f)
  BY <1>3, <1>4, <1>8 DEF ReadSkipped, AtFile, Product
<1> QED
  BY <1>0, <1>2, <1>5, <1>6, <1>7, <1>8

LEMMA WalkInvAfterBegin ==
    ASSUME SessionTypeOK, WalkInv, BeginIngest(Self)
    PROVE  WalkInv'
<1>1. /\ pc'[Self] = "stat"
      /\ todo'[Self] = {f \in Files : disk[f] /= None}
      /\ files'[Self] = Empty
      /\ disk' = disk
  BY DEF BeginIngest, WalkInv, SessionTypeOK, IngestTypeOK
<1> QED
  BY <1>1 DEF WalkInv, Empty, Product

LEMMA FreshStep ==
    ASSUME ~EarlyEdits, SessionTypeOK, CacheHonest, FreshInv, [Next]_vars
    PROVE  FreshInv'
<1>0. SUFFICES WalkInv' /\ ServedInv'
  BY PhaseStep DEF FreshInv
<1>1. ASSUME NEW f \in Files, Edit(f) \/ Delete(f)
      PROVE  WalkInv' /\ ServedInv'
  <2>1. UNCHANGED <<pc, todo, files>> /\ Notify
    BY <1>1 DEF Edit, Delete, Write, Remove, Change, walkVars
  <2>2. \/ watcher = "live" /\ changed'
        \/ pc[Self] = "idle" /\ ~(server' = "serving" /\ watcher' /= "dead")
    BY <2>1 DEF Notify, StartingUp, FreshInv, PhaseInv, SessionTypeOK
  <2> QED
    BY <2>1, <2>2 DEF FreshInv, WalkInv, ServedInv
<1>2. CASE LoadSnapshot
  BY <1>2 DEF LoadSnapshot, walkVars, FreshInv, WalkInv, ServedInv
<1>3. CASE FirstBuild
  <2>1. WalkInv'
    BY <1>3, WalkInvAfterBegin DEF FirstBuild, FreshInv
  <2> QED
    BY <1>3, <2>1 DEF FirstBuild, ServedInv
<1>4. CASE Walk
  <2>1. WalkInv'
    BY <1>4, WalkInvAfterWalk DEF FreshInv
  <2>2. PICK f \in Files :
            \/ StatVanished(Self, f) \/ StatReuse(Self, f)
            \/ StatChanged(Self, f) \/ ReadParsed(Self, f)
            \/ ReadSkipped(Self, f)
    BY <1>4 DEF Walk, IngestStep
  <2>3. pc'[Self] \in {"stat", "read"}
    BY <2>2 DEF StatVanished, StatReuse, StatChanged, ReadParsed, ReadSkipped,
       SessionTypeOK, IngestTypeOK
  <2> QED
    BY <2>1, <2>3 DEF ServedInv
<1>5. CASE Refold
  <2>1. /\ pc[Self] = "stat" /\ pc'[Self] = "walked"
        /\ UNCHANGED <<todo, files, disk, changed>>
    BY <1>5 DEF Refold, Returned, walkVars, sessionVars, SessionTypeOK,
       IngestTypeOK
  <2> QED
    BY <2>1 DEF FreshInv, WalkInv, ServedInv
<1>6. CASE Publish
  <2>1. pc'[Self] = "idle" /\ todo'[Self] = {} /\ files'[Self] = Empty
    BY <1>6, DiscardFacts DEF Publish
  <2>2. WalkInv'
    BY <2>1 DEF WalkInv
  <2>3. /\ pc[Self] = "walked" /\ todo[Self] = {} /\ current' = files[Self]
        /\ UNCHANGED <<disk, changed>>
    BY <1>6 DEF Publish, FreshInv, PhaseInv
  <2>4. ASSUME ~changed PROVE files[Self] = DiskView
    <3>1. \A f \in Files : files[Self][f] = Product(disk[f])
      BY <2>3, <2>4 DEF FreshInv, WalkInv
    <3> QED
      BY <3>1 DEF DiskView, SessionTypeOK, IngestTypeOK, View
  <2>5. DiskView' = DiskView
    BY <2>3 DEF DiskView
  <2> QED
    BY <2>2, <2>3, <2>4, <2>5 DEF ServedInv
<1>7. CASE PatchRaises
  BY <1>7, DiscardFacts DEF PatchRaises, ReadRaises, WalkInv, ServedInv
<1>8. CASE RegisterWatch
  BY <1>8 DEF RegisterWatch, ingestVars, walkVars, FreshInv, PhaseInv, WalkInv,
     ServedInv, DiskView
<1>9. CASE WatchBatch
  <2>1. WalkInv'
    BY <1>9, WalkInvAfterBegin DEF WatchBatch, FreshInv
  <2>2. pc'[Self] = "stat"
    BY <1>9 DEF WatchBatch, BeginIngest, SessionTypeOK, IngestTypeOK
  <2> QED
    BY <2>1, <2>2 DEF ServedInv
<1>10. CASE Stop
  BY <1>10, DiscardFacts DEF Stop, WalkInv, ServedInv
<1>11. CASE UNCHANGED vars
  BY <1>11 DEF vars, ingestVars, walkVars, sessionVars, FreshInv, WalkInv,
     ServedInv, DiskView
<1> QED
  BY <1>1, <1>2, <1>3, <1>4, <1>5, <1>6, <1>7, <1>8, <1>9, <1>10, <1>11
  DEF Next, System

(***************************************************************************)
(* With such a clock, and no edit between the first walk and the watcher's *)
(* registration, a live watcher with nothing to do means that the served   *)
(* index is that of the disk.  The two premises are the ones whose failure *)
(* the runs session_coarse_clock and session_early_edit exhibit.           *)
(***************************************************************************)
THEOREM QuiescentIsFresh ==
    ASSUME FineClock, ~EarlyEdits
    PROVE  Spec => []QuiescentFresh
<1>1. Init => FreshInv
  BY DEF Init, WalkInit, FreshInv, PhaseInv, WalkInv, ServedInv
<1>2. SessionTypeOK /\ CacheHonest /\ FreshInv /\ [Next]_vars => FreshInv'
  BY FreshStep
<1>3. SessionTypeOK /\ FreshInv => QuiescentFresh
  BY DEF SessionTypeOK, FreshInv, PhaseInv, ServedInv, QuiescentFresh
<1>4. Spec => []CacheHonest
  BY CacheIsHonest
<1> QED
  BY <1>1, <1>2, <1>3, <1>4, TypeInvariant, PTL DEF Spec

-----------------------------------------------------------------------------
(***************************************************************************)
(* Edits at startup do not matter here.                                    *)
(***************************************************************************)
LEMMA SeenStep ==
    ASSUME SessionTypeOK, HonestInv, WalkersSeen, [Next]_vars
    PROVE  WalkersSeen'
<1>0. IngestTypeOK /\ WalkersSound
  BY DEF SessionTypeOK, HonestInv
<1>1. ASSUME NEW f \in Files, Edit(f) \/ Delete(f) PROVE WalkersSeen'
  BY <1>0, <1>1, SeenAfterEdit DEF Edit, Delete
<1>2. CASE FirstBuild \/ WatchBatch
  BY <1>0, <1>2, SeenAfterBegin DEF FirstBuild, WatchBatch
<1>3. CASE Publish \/ PatchRaises \/ Stop
  BY <1>0, <1>3, SeenAfterDiscard DEF Publish, PatchRaises, ReadRaises, Stop
<1>4. CASE Walk
  BY <1>0, <1>4, SeenAfterStep DEF Walk
<1>5. CASE Refold
  BY <1>0, <1>5, SeenAfterReturn DEF Refold, walkVars
<1>6. CASE LoadSnapshot \/ RegisterWatch \/ UNCHANGED vars
  BY <1>6 DEF LoadSnapshot, RegisterWatch, vars, ingestVars, walkVars, WalkersSeen, WalkerSeen
<1> QED
  BY <1>1, <1>2, <1>3, <1>4, <1>5, <1>6 DEF Next, System

(***************************************************************************)
(* However edits race with the walk, a published index holds, of every     *)
(* file, a product the file had after the patch began: a query never sees  *)
(* a file go back to what it was before an earlier index.                  *)
(***************************************************************************)
THEOREM PublishedIsRecent ==
    ASSUME FineClock
    PROVE  Spec => PublishesRecent
<1> DEFINE Recent == Publish => \A f \in Files : current'[f] \in seen[Self][f]
<1>1. Init => HonestInv /\ WalkersSeen /\ PhaseInv
  BY HonestInit DEF Init, WalkInit, WalkersSeen, WalkerSeen, PhaseInv
<1>2. SessionTypeOK /\ HonestInv /\ WalkersSeen /\ PhaseInv /\ [Next]_vars
          => HonestInv' /\ WalkersSeen' /\ PhaseInv'
  BY HonestStep, SeenStep, PhaseStep
<1>3. WalkersSeen /\ PhaseInv /\ [Next]_vars => [Recent]_vars
  <2> SUFFICES ASSUME WalkersSeen, PhaseInv, Publish, NEW f \in Files
               PROVE  current'[f] \in seen[Self][f]
    OBVIOUS
  <2> QED
    BY DEF Publish, PhaseInv, WalkersSeen, WalkerSeen
<1> QED
  BY <1>1, <1>2, <1>3, TypeInvariant, PTL DEF Spec, PublishesRecent

-----------------------------------------------------------------------------
(***************************************************************************)
(* The session implements IndexService: each of its steps is a step of the *)
(* service, or changes nothing that those who query it can tell.           *)
(***************************************************************************)

(***************************************************************************)
(* No window is open between refreshes.                                    *)
(***************************************************************************)
ClosedInv == pc[Self] = "idle" => seen[Self] = [f \in Files |-> {}]

LEMMA DiscardCloses ==
    ASSUME SessionTypeOK, Discard(Self)
    PROVE  pc'[Self] = "idle" /\ seen'[Self] = [f \in Files |-> {}]
BY DEF Discard, SessionTypeOK, IngestTypeOK

LEMMA WalkGoesOn ==
    ASSUME SessionTypeOK, Walk
    PROVE  /\ pc[Self] /= "idle" /\ pc'[Self] /= "idle"
           /\ UNCHANGED <<disk, seen, sessionVars>>
<1>1. PICK f \in Files :
          \/ StatVanished(Self, f) \/ StatReuse(Self, f)
          \/ StatChanged(Self, f) \/ ReadParsed(Self, f)
          \/ ReadSkipped(Self, f)
  BY DEF Walk, IngestStep
<1> QED
  BY <1>1 DEF Walk, StatVanished, StatReuse, StatChanged, ReadParsed, ReadSkipped,
     SessionTypeOK, IngestTypeOK

LEMMA BeginOpens ==
    ASSUME SessionTypeOK, BeginIngest(Self)
    PROVE  /\ pc[Self] = "idle" /\ pc'[Self] = "stat"
           /\ seen'[Self] = [f \in Files |-> {DiskView[f]}]
           /\ DiskView' = DiskView
BY DEF BeginIngest, SessionTypeOK, IngestTypeOK, DiskView

LEMMA ClosedStep ==
    ASSUME SessionTypeOK, ClosedInv, [Next]_vars
    PROVE  ClosedInv'
<1>1. ASSUME NEW f \in Files, NEW n, Change(f, n) PROVE ClosedInv'
  BY <1>1 DEF Change, ClosedInv
<1>2. ASSUME NEW f \in Files, Edit(f) \/ Delete(f) PROVE ClosedInv'
  BY <1>1, <1>2 DEF Edit, Delete, Write, Remove
<1>3. ASSUME BeginIngest(Self) PROVE ClosedInv'
  BY <1>3, BeginOpens DEF ClosedInv
<1>4. ASSUME Discard(Self) PROVE ClosedInv'
  BY <1>4, DiscardCloses DEF ClosedInv
<1>5. CASE Walk
  BY <1>5, WalkGoesOn DEF ClosedInv
<1>6. CASE Refold
  <2>1. pc'[Self] = "walked"
    BY <1>6 DEF Refold, SessionTypeOK, IngestTypeOK
  <2> QED
    BY <2>1 DEF ClosedInv
<1>7. CASE LoadSnapshot \/ RegisterWatch \/ UNCHANGED vars
  BY <1>7 DEF LoadSnapshot, RegisterWatch, vars, ingestVars, ClosedInv
<1> QED
  BY <1>2, <1>3, <1>4, <1>5, <1>6, <1>7
  DEF Next, System, FirstBuild, WatchBatch, Publish, PatchRaises, ReadRaises, Stop

-----------------------------------------------------------------------------
(***************************************************************************)
(* Each action, as a step of the service.                                  *)
(***************************************************************************)
LEMMA ChangeIsChange ==
    ASSUME SessionTypeOK, FreshInv, ~EarlyEdits, NEW f \in Files,
           NEW n \in Node \cup {None}, Change(f, n), Notify
    PROVE  Service!Change(f)
<1> DEFINE x == Product(n)
<1>1. x \in Texts \cup {None}
  BY ProductType
<1>2. DiskView' = [DiskView EXCEPT ![f] = x]
  <2>1. \A g \in Files : disk'[g] = IF g = f THEN n ELSE disk[g]
    BY DEF Change, SessionTypeOK, IngestTypeOK
  <2> QED
    BY <2>1 DEF DiskView
<1>3. /\ pc' = pc
      /\ seen'[Self] = IF pc[Self] /= "idle" THEN [seen[Self] EXCEPT ![f] = @ \cup {x}]
                       ELSE seen[Self]
  BY DEF Change
<1>4. ~(watcher' = "live" /\ ~changed')
  BY DEF Notify
<1>5. current' = current
  BY DEF Notify
<1> HIDE DEF x
<1> QED
  BY <1>1, <1>2, <1>3, <1>4, <1>5 DEF Service!Change

LEMMA PublishIsRefresh ==
    ASSUME SessionTypeOK, FreshInv, WalkersSeen, Publish
    PROVE  Service!Refresh
<1>1. /\ pc[Self] = "walked" /\ todo[Self] = {} /\ current' = files[Self]
      /\ UNCHANGED <<disk, watcher, changed>>
  BY DEF Publish, FreshInv, PhaseInv
<1>2. pc'[Self] = "idle" /\ seen'[Self] = [f \in Files |-> {}]
  BY DiscardCloses DEF Publish
<1>3. current' \in [Files -> Texts \cup {None}]
  BY <1>1 DEF SessionTypeOK, IngestTypeOK, View
<1>4. \A f \in Files : current'[f] \in seen[Self][f]
  BY <1>1 DEF WalkersSeen, WalkerSeen
<1>5. ASSUME watcher = "live", ~changed PROVE current' = DiskView
  <2>1. \A f \in Files : files[Self][f] = Product(disk[f])
    BY <1>1, <1>5 DEF FreshInv, WalkInv
  <2> QED
    BY <1>1, <1>3, <2>1 DEF DiskView
<1>6. DiskView' = DiskView
  BY <1>1 DEF DiskView
<1> QED
  BY <1>1, <1>2, <1>3, <1>4, <1>5, <1>6 DEF Service!Refresh, Service!Views, Service!Closed

LEMMA StepImplements ==
    ASSUME ~EarlyEdits, SessionTypeOK, FreshInv, WalkersSeen, ClosedInv, [Next]_vars
    PROVE  [Service!Next]_(Service!vars)
<1>1. ASSUME NEW f \in Files, Edit(f) PROVE Service!Next
  <2>1. PICK t \in Texts, now \in {clock, clock + 1} :
            Change(f, [text |-> t, mtime |-> now]) /\ Notify
    BY <1>1 DEF Edit, Write
  <2>2. [text |-> t, mtime |-> now] \in Node
    BY <2>1 DEF Node, SessionTypeOK, IngestTypeOK
  <2> QED
    BY <2>1, <2>2, ChangeIsChange DEF Service!Next
<1>2. ASSUME NEW f \in Files, Delete(f) PROVE Service!Next
  BY <1>2, ChangeIsChange DEF Delete, Remove, Service!Next
<1>3. CASE LoadSnapshot
  BY <1>3 DEF LoadSnapshot, Service!vars, DiskView
<1>4. CASE FirstBuild
  <2>1. watcher = "none" /\ UNCHANGED <<watcher, changed, current>>
    BY <1>4 DEF FirstBuild, FreshInv, PhaseInv
  <2> QED
    BY <1>4, <2>1, BeginOpens DEF FirstBuild, Service!Begin, Service!Next
<1>5. CASE Walk
  BY <1>5, WalkGoesOn DEF sessionVars, Service!vars, DiskView
<1>6. CASE Refold
  <2>1. /\ pc[Self] = "stat" /\ pc'[Self] = "walked"
        /\ UNCHANGED <<disk, seen, watcher, changed, current>>
    BY <1>6 DEF Refold, Returned, sessionVars, SessionTypeOK, IngestTypeOK
  <2> QED
    BY <2>1 DEF Service!vars, DiskView
<1>7. CASE Publish
  BY <1>7, PublishIsRefresh DEF Service!Next
<1>8. CASE PatchRaises
  <2>1. Discard(Self) /\ pc[Self] = "read" /\ disk' = disk /\ current' = current
    BY <1>8 DEF PatchRaises, ReadRaises
  <2>2. watcher' /= "live"
    BY <1>8 DEF PatchRaises
  <2>3. DiskView' = DiskView
    BY <2>1 DEF DiskView
  <2> QED
    BY <2>1, <2>2, <2>3, DiscardCloses DEF Service!Fail, Service!Closed, Service!Next
<1>9. CASE RegisterWatch
  <2>1. /\ server = "serving" /\ watcher = "none"
        /\ watcher' = "live" /\ ~changed'
        /\ UNCHANGED <<disk, pc, seen, current>>
    BY <1>9 DEF RegisterWatch, ingestVars
  <2>2. pc[Self] = "idle" /\ current = DiskView
    BY <2>1 DEF FreshInv, PhaseInv, ServedInv
  <2> QED
    BY <2>1, <2>2 DEF Service!Settle, Service!Next, DiskView
<1>10. CASE WatchBatch
  <2>1. watcher' = "live" /\ ~changed' /\ current' = current
    BY <1>10 DEF WatchBatch
  <2> QED
    BY <1>10, <2>1, BeginOpens DEF WatchBatch, Service!Begin, Service!Next
<1>11. CASE Stop
  <2>1. Discard(Self) /\ disk' = disk /\ current' = Empty /\ watcher' = "none"
    BY <1>11 DEF Stop
  <2>2. DiskView' = DiskView
    BY <2>1 DEF DiskView
  <2> QED
    BY <2>1, <2>2, DiscardCloses
    DEF Service!Stop, Service!Closed, Service!Empty, Empty, Service!Next
<1>12. CASE UNCHANGED vars
  BY <1>12 DEF vars, ingestVars, sessionVars, Service!vars, DiskView
<1> QED
  BY <1>1, <1>2, <1>3, <1>4, <1>5, <1>6, <1>7, <1>8, <1>9, <1>10, <1>11, <1>12
  DEF Next, System

(***************************************************************************)
(* The session implements the service, where the clock tells edits apart   *)
(* and none falls between the first walk and the watcher's registration.   *)
(***************************************************************************)
THEOREM SessionImplementsService ==
    ASSUME FineClock, ~EarlyEdits
    PROVE  Spec => ImplementsService
<1>1. Init => Service!Init
  <2> SUFFICES ASSUME Init PROVE Service!Init
    OBVIOUS
  <2>1. DiskView \in [Files -> Texts \cup {None}]
    <3>1. disk \in [Files -> Node \cup {None}]
      BY DEF Init, NodesOf, Node
    <3> QED
      BY <3>1, ProductType DEF DiskView
  <2> QED
    BY <2>1 DEF Init, WalkInit, Empty,
       Service!Init, Service!Views, Service!Empty, Service!Closed
<1>2. Init => HonestInv /\ FreshInv /\ WalkersSeen /\ ClosedInv
  BY HonestInit DEF Init, WalkInit, FreshInv, PhaseInv, WalkInv, ServedInv,
     WalkersSeen, WalkerSeen, ClosedInv
<1>3. SessionTypeOK /\ HonestInv /\ FreshInv /\ WalkersSeen /\ ClosedInv /\ [Next]_vars
          => HonestInv' /\ FreshInv' /\ WalkersSeen' /\ ClosedInv'
  <2>1. HonestInv => CacheHonest
    BY HonestInvIsHonest
  <2> QED
    BY <2>1, HonestStep, FreshStep, SeenStep, ClosedStep
<1>4. SessionTypeOK /\ FreshInv /\ WalkersSeen /\ ClosedInv /\ [Next]_vars
          => [Service!Next]_(Service!vars)
  BY StepImplements
<1> QED
  BY <1>1, <1>2, <1>3, <1>4, TypeInvariant, PTL
  DEF Spec, ImplementsService, Service!Spec

=============================================================================
