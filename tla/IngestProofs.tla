---------------------------- MODULE IngestProofs ----------------------------
(***************************************************************************)
(* The steps of ingest_project and of the editor, for any walkers: they    *)
(* keep the types, and no entry they leave is ahead of the clock or lies.  *)
(***************************************************************************)
EXTENDS Ingest, TLAPS

USE IngestAssumption

-----------------------------------------------------------------------------
LEMMA StampType ==
    ASSUME NEW n \in Node
    PROVE  StampOf(n) \in FileStamp
BY DEF StampOf, Node, FileStamp

LEMMA ProductType ==
    ASSUME NEW n \in Node \cup {None}
    PROVE  /\ Product(n) \in Texts \cup {None}
           /\ Product(n) /= None => n \in Node /\ Product(n) \in Texts
BY DEF Product, Node

LEMMA EmptyType == Empty \in View /\ Empty \in Cache
BY DEF Empty, View, Cache

LEMMA DiscardKeepsType ==
    ASSUME IngestTypeOK, NEW w \in Walkers, Discard(w),
           UNCHANGED <<disk, clock>>, cache' \in [Walkers -> Cache]
    PROVE  IngestTypeOK'
<1>1. [f \in Files |-> {}] \in [Files -> SUBSET (Texts \cup {None})]
  OBVIOUS
<1>2. <<0, 0>> \in FileStamp
  BY DEF FileStamp
<1> QED
  BY <1>1, <1>2, EmptyType DEF IngestTypeOK, Discard

LEMMA ChangeKeepsType ==
    ASSUME IngestTypeOK, NEW f \in Files, NEW n \in Node \cup {None},
           Change(f, n), clock' \in Nat
    PROVE  IngestTypeOK'
<1>1. disk' \in [Files -> Node \cup {None}]
  BY DEF IngestTypeOK, Change
<1>2. Product(n) \in Texts \cup {None}
  BY ProductType
<1>3. ASSUME NEW w \in Walkers
      PROVE  [seen[w] EXCEPT ![f] = @ \cup {Product(n)}]
                 \in [Files -> SUBSET (Texts \cup {None})]
  BY <1>2 DEF IngestTypeOK
<1>4. seen' \in [Walkers -> [Files -> SUBSET (Texts \cup {None})]]
  BY <1>3 DEF IngestTypeOK, Change
<1>5. UNCHANGED <<pc, cache, todo, stamp, files, fresh, present>>
  BY DEF Change, walkVars
<1> QED
  BY <1>1, <1>4, <1>5 DEF IngestTypeOK

LEMMA EditKeepsType ==
    ASSUME IngestTypeOK, NEW f \in Files,
           Remove(f) \/ \E t \in Texts : Write(f, t)
    PROVE  IngestTypeOK'
<1>1. CASE Remove(f)
  <2>1. Change(f, None) /\ clock' \in Nat
    BY <1>1 DEF Remove, IngestTypeOK
  <2> QED
    BY <2>1, ChangeKeepsType
<1>2. ASSUME NEW t \in Texts, Write(f, t) PROVE IngestTypeOK'
  <2>1. PICK now \in {clock, clock + 1} :
            Change(f, [text |-> t, mtime |-> now]) /\ clock' = now
    BY <1>2 DEF Write
  <2>2. now \in Nat
    BY DEF IngestTypeOK
  <2>3. [text |-> t, mtime |-> now] \in Node
    BY <2>2 DEF Node
  <2>4. clock' \in Nat
    BY <2>1, <2>2
  <2> QED
    BY <2>1, <2>3, <2>4, ChangeKeepsType
<1> QED
  BY <1>1, <1>2

LEMMA BeginKeepsType ==
    ASSUME IngestTypeOK, NEW w \in Walkers, BeginIngest(w)
    PROVE  IngestTypeOK'
<1>1. [f \in Files |-> {Product(disk[f])}]
          \in [Files -> SUBSET (Texts \cup {None})]
  BY ProductType DEF IngestTypeOK
<1> QED
  BY <1>1 DEF BeginIngest, IngestTypeOK

LEMMA StepKeepsType ==
    ASSUME IngestTypeOK, NEW w \in Walkers, IngestStep(w)
    PROVE  IngestTypeOK'
<1> USE DEF IngestTypeOK
<1>0. PICK f \in Files :
          \/ StatVanished(w, f) \/ StatReuse(w, f) \/ StatChanged(w, f)
          \/ ReadParsed(w, f) \/ ReadSkipped(w, f)
  BY DEF IngestStep
<1>1. <<0, 0>> \in FileStamp
  BY DEF FileStamp
<1>2. CASE StatVanished(w, f)
  BY <1>2 DEF StatVanished
<1>3. CASE StatReuse(w, f)
  <2>1. cache[w][f].file \in Texts
    BY <1>3 DEF StatReuse, Unchanged, Cache, CachedFile
  <2>2. files' \in [Walkers -> View]
    BY <1>3, <2>1 DEF StatReuse, View
  <2> QED
    BY <1>3, <2>2 DEF StatReuse
<1>4. CASE StatChanged(w, f)
  BY <1>4, StampType DEF StatChanged
<1>5. CASE ReadParsed(w, f)
  <2>1. Product(disk[f]) \in Texts
    BY <1>5, ProductType DEF ReadParsed
  <2>2. [stamp |-> stamp[w], file |-> Product(disk[f])] \in CachedFile
    BY <2>1 DEF CachedFile
  <2>3. files' \in [Walkers -> View] /\ fresh' \in [Walkers -> Cache]
    BY <1>5, <2>1, <2>2 DEF ReadParsed, View, Cache
  <2> QED
    BY <1>1, <1>5, <2>3 DEF ReadParsed
<1>6. CASE ReadSkipped(w, f)
  BY <1>1, <1>6 DEF ReadSkipped
<1> QED
  BY <1>0, <1>2, <1>3, <1>4, <1>5, <1>6

-----------------------------------------------------------------------------
(***************************************************************************)
(* An entry is sound when its stamp is not ahead of the clock and it is    *)
(* honest: an edit gives its file a stamp that no sound entry can have.    *)
(***************************************************************************)
Sound(entry, f) ==
    entry /= None => /\ entry.stamp[1] =< clock
                     /\ Honest(entry, disk[f])

Stamped(entry) == entry = None \/ entry.stamp \in FileStamp

DiskPast == \A f \in Files : disk[f] /= None => disk[f].mtime =< clock

WalkerSound(w) ==
    /\ \A f \in Files : Sound(cache[w][f], f) /\ Sound(fresh[w][f], f)
    /\ stamp[w][1] =< clock

WalkersSound == DiskPast /\ \A w \in Walkers : WalkerSound(w)

(* What an edit does, as far as entries can tell.                          *)
Edited ==
    /\ clock' \in Nat /\ clock =< clock'
    /\ \A f \in Files : \/ disk'[f] = disk[f]
                        \/ disk'[f] = None
                        \/ /\ disk'[f] \in Node
                           /\ disk'[f].mtime > clock /\ disk'[f].mtime =< clock'

LEMMA EditIsEdited ==
    ASSUME FineClock, IngestTypeOK, NEW f \in Files,
           Remove(f) \/ \E t \in Texts : Write(f, t)
    PROVE  Edited /\ UNCHANGED <<cache, fresh, stamp>>
<1>0. clock \in Nat /\ disk \in [Files -> Node \cup {None}]
  BY DEF IngestTypeOK
<1>1. CASE Remove(f)
  BY <1>0, <1>1 DEF Remove, Change, walkVars, Edited
<1>2. ASSUME NEW t \in Texts, Write(f, t)
      PROVE  Edited /\ UNCHANGED <<cache, fresh, stamp>>
  <2>1. PICK now \in {clock, clock + 1} :
            /\ Change(f, [text |-> t, mtime |-> now])
            /\ now > clock
            /\ clock' = now
    BY <1>2 DEF Write
  <2>2. now \in Nat /\ [text |-> t, mtime |-> now] \in Node
    BY <1>0 DEF Node
  <2>3. disk' = [disk EXCEPT ![f] = [text |-> t, mtime |-> now]]
    BY <2>1 DEF Change
  <2>4. \A g \in Files : \/ disk'[g] = disk[g]
                         \/ /\ disk'[g] \in Node
                            /\ disk'[g].mtime > clock /\ disk'[g].mtime =< clock'
    BY <1>0, <2>1, <2>2, <2>3
  <2>5. clock' \in Nat /\ clock =< clock'
    BY <1>0, <2>1, <2>2
  <2>6. UNCHANGED <<cache, fresh, stamp>>
    BY <2>1 DEF Change, walkVars
  <2> QED
    BY <2>4, <2>5, <2>6 DEF Edited
<1> QED
  BY <1>1, <1>2

LEMMA EntryAfterEdit ==
    ASSUME IngestTypeOK, Edited, NEW f \in Files,
           NEW entry, Stamped(entry), Sound(entry, f)
    PROVE  Sound(entry, f)'
<1> SUFFICES ASSUME entry /= None
             PROVE  entry.stamp[1] =< clock' /\ Honest(entry, disk'[f])
  BY DEF Sound
<1>1. entry.stamp \in FileStamp /\ entry.stamp[1] \in Nat /\ clock \in Nat /\ clock' \in Nat
  BY DEF Stamped, FileStamp, IngestTypeOK, Edited
<1>2. entry.stamp[1] =< clock'
  BY <1>1 DEF Sound, Edited
<1>3. CASE disk'[f] = disk[f]
  BY <1>2, <1>3 DEF Sound
<1>4. CASE disk'[f] = None
  BY <1>2, <1>4 DEF Honest
<1>5. CASE disk'[f] \in Node /\ disk'[f].mtime > clock
  <2>1. StampOf(disk'[f])[1] = disk'[f].mtime /\ disk'[f].mtime \in Nat
    BY <1>5 DEF StampOf, Node
  <2>2. entry.stamp /= StampOf(disk'[f])
    BY <1>1, <1>5, <2>1 DEF Sound
  <2> QED
    BY <1>2, <2>2 DEF Honest
<1> QED
  BY <1>3, <1>4, <1>5 DEF Edited

LEMMA WalkersAfterEdit ==
    ASSUME IngestTypeOK, Edited, WalkersSound, UNCHANGED <<cache, fresh, stamp>>
    PROVE  WalkersSound'
<1>0. clock \in Nat /\ clock' \in Nat /\ clock =< clock' /\ disk \in [Files -> Node \cup {None}]
  BY DEF IngestTypeOK, Edited
<1>1. DiskPast'
  <2> SUFFICES ASSUME NEW f \in Files, disk'[f] /= None
               PROVE  disk'[f].mtime =< clock'
    BY DEF DiskPast
  <2>1. disk'[f] = disk[f] => disk[f].mtime \in Nat /\ disk[f].mtime =< clock
    BY <1>0 DEF WalkersSound, DiskPast, Node
  <2>2. disk'[f] = disk[f] \/ disk'[f].mtime =< clock'
    BY DEF Edited
  <2> QED
    BY <1>0, <2>1, <2>2
<1>2. ASSUME NEW w \in Walkers PROVE WalkerSound(w)'
  <2>1. \A f \in Files : \A entry :
            Stamped(entry) /\ Sound(entry, f) => Sound(entry, f)'
    BY EntryAfterEdit
  <2>2. ASSUME NEW f \in Files
        PROVE  Sound(cache[w][f], f)' /\ Sound(fresh[w][f], f)'
    <3>1. Stamped(cache[w][f]) /\ Stamped(fresh[w][f])
      BY DEF IngestTypeOK, Cache, CachedFile, Stamped
    <3>2. Sound(cache[w][f], f) /\ Sound(fresh[w][f], f)
      BY DEF WalkersSound, WalkerSound
    <3> QED
      BY <2>1, <3>1, <3>2 DEF Sound
  <2>3. stamp'[w][1] =< clock'
    <3>1. stamp[w][1] \in Nat
      BY DEF IngestTypeOK, FileStamp
    <3> QED
      BY <1>0, <3>1 DEF WalkersSound, WalkerSound
  <2> QED
    BY <2>2, <2>3 DEF WalkerSound
<1> QED
  BY <1>1, <1>2 DEF WalkersSound

LEMMA WalkersUndisturbed ==
    ASSUME WalkersSound, UNCHANGED <<disk, clock, cache, fresh, stamp>>
    PROVE  WalkersSound'
BY DEF WalkersSound, DiskPast, WalkerSound, Sound

(***************************************************************************)
(* The product of a new entry is read after its stamp: had the file        *)
(* changed in between, the stamp would not be the file's.                  *)
(***************************************************************************)
LEMMA WalkersAfterStep ==
    ASSUME IngestTypeOK, WalkersSound, NEW w \in Walkers, IngestStep(w)
    PROVE  WalkersSound'
<1>0. PICK f \in Files :
          \/ StatVanished(w, f) \/ StatReuse(w, f) \/ StatChanged(w, f)
          \/ ReadParsed(w, f) \/ ReadSkipped(w, f)
  BY DEF IngestStep
<1>1. UNCHANGED <<disk, clock, cache>>
  BY <1>0 DEF StatVanished, StatReuse, StatChanged, ReadParsed, ReadSkipped
<1>2. clock \in Nat
  BY DEF IngestTypeOK
<1>3. SUFFICES ASSUME NEW v \in Walkers
               PROVE  /\ \A g \in Files : Sound(fresh'[v][g], g)
                      /\ stamp'[v][1] =< clock
  <2>1. ASSUME NEW v \in Walkers PROVE WalkerSound(v)'
    BY <1>1, <1>3, <2>1 DEF WalkersSound, WalkerSound, Sound
  <2> QED
    BY <1>1, <2>1 DEF WalkersSound, DiskPast
<1>4. CASE StatVanished(w, f) \/ StatReuse(w, f)
  BY <1>4 DEF StatVanished, StatReuse, WalkersSound, WalkerSound
<1>5. CASE StatChanged(w, f)
  <2>1. disk[f] \in Node /\ disk[f] /= None /\ stamp' = [stamp EXCEPT ![w] = StampOf(disk[f])]
    BY <1>5 DEF StatChanged, IngestTypeOK
  <2>2. StampOf(disk[f])[1] =< clock
    BY <2>1 DEF StampOf, WalkersSound, DiskPast, Node
  <2>3. fresh' = fresh
    BY <1>5 DEF StatChanged
  <2> QED
    BY <2>1, <2>2, <2>3 DEF WalkersSound, WalkerSound, IngestTypeOK
<1>6. CASE ReadSkipped(w, f)
  <2>1. stamp' = [stamp EXCEPT ![w] = <<0, 0>>] /\ fresh' = fresh
    BY <1>6 DEF ReadSkipped
  <2> QED
    BY <1>2, <2>1 DEF WalkersSound, WalkerSound, IngestTypeOK
<1>7. CASE ReadParsed(w, f)
  <2> DEFINE entry == [stamp |-> stamp[w], file |-> Product(disk[f])]
  <2>1. /\ stamp' = [stamp EXCEPT ![w] = <<0, 0>>]
        /\ fresh' = [fresh EXCEPT ![w][f] = entry]
    BY <1>7 DEF ReadParsed
  <2>2. Sound(entry, f)
    BY DEF Sound, Honest, WalkersSound, WalkerSound
  <2>3. \A g \in Files : Sound(fresh[v][g], g)
    BY DEF WalkersSound, WalkerSound
  <2>4. \A g \in Files : fresh'[v][g] = fresh[v][g] \/ (g = f /\ fresh'[v][g] = entry)
    BY <2>1 DEF IngestTypeOK, Cache
  <2>5. \A g \in Files : Sound(fresh'[v][g], g)
    BY <2>2, <2>3, <2>4
  <2>6. stamp'[v][1] =< clock
    BY <1>2, <2>1 DEF WalkersSound, WalkerSound, IngestTypeOK
  <2> QED
    BY <2>5, <2>6
<1> QED
  BY <1>0, <1>4, <1>5, <1>6, <1>7

LEMMA WalkersAfterDiscard ==
    ASSUME IngestTypeOK, WalkersSound, NEW w \in Walkers, Discard(w),
           cache' = cache \/ cache' = [cache EXCEPT ![w] = Empty],
           UNCHANGED <<disk, clock>>
    PROVE  WalkersSound'
<1>1. ASSUME NEW v \in Walkers PROVE WalkerSound(v)'
  <2>1. fresh'[v] = fresh[v] \/ fresh'[v] = Empty
    BY DEF Discard, IngestTypeOK
  <2>2. cache'[v] = cache[v] \/ cache'[v] = Empty
    BY DEF IngestTypeOK
  <2>3. stamp'[v] = stamp[v] \/ stamp'[v] = <<0, 0>>
    BY DEF Discard, IngestTypeOK
  <2>4. stamp'[v][1] =< clock'
    BY <2>3 DEF IngestTypeOK, WalkersSound, WalkerSound
  <2>5. \A f \in Files : Sound(cache[v][f], f)' /\ Sound(fresh[v][f], f)'
    BY <2>1, <2>2 DEF WalkersSound, WalkerSound, Sound, Empty
  <2> QED
    BY <2>4, <2>5 DEF WalkerSound
<1> QED
  BY <1>1 DEF WalkersSound, DiskPast

-----------------------------------------------------------------------------
(***************************************************************************)
(* What a walk has taken of a file, the file has held since the walk       *)
(* began; of the files it has to come to it has nothing.                   *)
(***************************************************************************)
WalkerSeen(w) ==
    /\ pc[w] = "idle" => files[w] = Empty
    /\ \A f \in todo[w] : files[w][f] = None
    /\ pc[w] /= "idle" =>
          \A f \in Files :
              /\ Product(disk[f]) \in seen[w][f]
              /\ f \notin todo[w] => files[w][f] \in seen[w][f]

WalkersSeen == \A w \in Walkers : WalkerSeen(w)

LEMMA SeenAfterChange ==
    ASSUME IngestTypeOK, WalkersSeen, NEW f \in Files, NEW n, Change(f, n)
    PROVE  WalkersSeen'
<1> SUFFICES ASSUME NEW w \in Walkers PROVE WalkerSeen(w)'
  BY DEF WalkersSeen
<1>0. WalkerSeen(w)
  BY DEF WalkersSeen
<1>1. UNCHANGED <<pc, todo, files>>
  BY DEF Change, walkVars
<1>2. ASSUME pc[w] /= "idle", NEW g \in Files
      PROVE  /\ Product(disk'[g]) \in seen'[w][g]
             /\ seen[w][g] \subseteq seen'[w][g]
  <2>1. seen'[w] = [seen[w] EXCEPT ![f] = @ \cup {Product(n)}]
    BY <1>2 DEF Change
  <2>2. seen'[w][g] = IF g = f THEN seen[w][f] \cup {Product(n)} ELSE seen[w][g]
    BY <2>1 DEF IngestTypeOK
  <2>3. disk'[g] = IF g = f THEN n ELSE disk[g]
    BY DEF Change, IngestTypeOK
  <2> QED
    BY <1>0, <1>2, <2>2, <2>3 DEF WalkerSeen
<1> QED
  BY <1>0, <1>1, <1>2 DEF WalkerSeen

LEMMA SeenAfterEdit ==
    ASSUME IngestTypeOK, WalkersSeen, NEW f \in Files,
           Remove(f) \/ \E t \in Texts : Write(f, t)
    PROVE  WalkersSeen'
<1>1. \E n : Change(f, n)
  BY DEF Remove, Write
<1> QED
  BY <1>1, SeenAfterChange

LEMMA SeenAfterBegin ==
    ASSUME IngestTypeOK, WalkersSeen, NEW w \in Walkers, BeginIngest(w)
    PROVE  WalkersSeen'
<1>1. /\ pc'[w] = "stat" /\ files'[w] = Empty
      /\ todo'[w] = {f \in Files : disk[f] /= None}
      /\ seen'[w] = [f \in Files |-> {Product(disk[f])}]
      /\ disk' = disk
  BY DEF BeginIngest, WalkersSeen, WalkerSeen, IngestTypeOK
<1>2. WalkerSeen(w)'
  BY <1>1 DEF WalkerSeen, Empty, Product
<1>3. ASSUME NEW v \in Walkers, v /= w PROVE WalkerSeen(v)'
  <2>1. /\ UNCHANGED <<pc[v], todo[v], files[v], seen[v], disk>>
    BY <1>3 DEF BeginIngest, IngestTypeOK
  <2> QED
    BY <2>1 DEF WalkersSeen, WalkerSeen
<1> QED
  BY <1>2, <1>3 DEF WalkersSeen

LEMMA SeenAfterStep ==
    ASSUME IngestTypeOK, WalkersSound, WalkersSeen, NEW w \in Walkers, IngestStep(w)
    PROVE  WalkersSeen'
<1>0. PICK f \in Files :
          \/ StatVanished(w, f) \/ StatReuse(w, f) \/ StatChanged(w, f)
          \/ ReadParsed(w, f) \/ ReadSkipped(w, f)
  BY DEF IngestStep
<1>1. /\ pc[w] \in {"stat", "read"} /\ pc'[w] \in {"stat", "read"}
      /\ UNCHANGED <<disk, seen>>
  BY <1>0 DEF StatVanished, StatReuse, StatChanged, ReadParsed, ReadSkipped, IngestTypeOK
<1>2. ASSUME NEW v \in Walkers, v /= w PROVE WalkerSeen(v)'
  <2>1. UNCHANGED <<pc[v], todo[v], files[v]>>
    BY <1>0, <1>2 DEF StatVanished, StatReuse, StatChanged, ReadParsed, ReadSkipped, IngestTypeOK
  <2> QED
    BY <1>1, <2>1 DEF WalkersSeen, WalkerSeen
<1> SUFFICES WalkerSeen(w)'
  BY <1>2 DEF WalkersSeen
<1>3. WalkerSeen(w)
  BY DEF WalkersSeen
<1>4. CASE StatChanged(w, f)
  BY <1>1, <1>3, <1>4 DEF StatChanged, WalkerSeen
<1>5. ASSUME todo' = [todo EXCEPT ![w] = @ \ {f}], f \in todo[w],
             files'[w] = [files[w] EXCEPT ![f] = Product(disk[f])]
      PROVE  WalkerSeen(w)'
  <2>1. todo'[w] = todo[w] \ {f} /\ todo[w] \subseteq Files
    BY <1>5 DEF IngestTypeOK
  <2>2. \A g \in Files : files'[w][g] = IF g = f THEN Product(disk[f]) ELSE files[w][g]
    BY <1>5 DEF IngestTypeOK, View
  <2>3. \A g \in todo'[w] : files'[w][g] = None
    BY <1>3, <2>1, <2>2 DEF WalkerSeen
  <2>4. \A g \in Files : g \notin todo'[w] => files'[w][g] \in seen[w][g]
    BY <1>1, <1>3, <2>1, <2>2 DEF WalkerSeen
  <2> QED
    BY <1>1, <1>3, <2>3, <2>4 DEF WalkerSeen
<1>6. ASSUME f \in todo[w], Product(disk[f]) = None, files' = files
      PROVE  files'[w] = [files[w] EXCEPT ![f] = Product(disk[f])]
  BY <1>3, <1>6 DEF WalkerSeen, IngestTypeOK, View
<1>7. CASE StatVanished(w, f)
  BY <1>5, <1>6, <1>7 DEF StatVanished, AtFile, Product
<1>8. CASE StatReuse(w, f)
  <2>1. cache[w][f].file = Product(disk[f])
    BY <1>8 DEF StatReuse, Unchanged, WalkersSound, WalkerSound, Sound, Honest
  <2>2. files'[w] = [files[w] EXCEPT ![f] = Product(disk[f])]
    BY <1>8, <2>1 DEF StatReuse, IngestTypeOK
  <2> QED
    BY <1>5, <1>8, <2>2 DEF StatReuse, AtFile
<1>9. CASE ReadParsed(w, f)
  <2>1. files'[w] = [files[w] EXCEPT ![f] = Product(disk[f])]
    BY <1>9 DEF ReadParsed, IngestTypeOK
  <2> QED
    BY <1>5, <1>9, <2>1 DEF ReadParsed, AtFile
<1>10. CASE ReadSkipped(w, f)
  BY <1>5, <1>6, <1>10 DEF ReadSkipped, AtFile, Product
<1> QED
  BY <1>0, <1>4, <1>7, <1>8, <1>9, <1>10

LEMMA SeenAfterReturn ==
    ASSUME IngestTypeOK, WalkersSeen, NEW w \in Walkers, Returned(w),
           pc' = [pc EXCEPT ![w] = "walked"], UNCHANGED <<disk, todo, files, seen>>
    PROVE  WalkersSeen'
<1>1. \A v \in Walkers : pc'[v] = "idle" <=> pc[v] = "idle"
  BY DEF Returned, IngestTypeOK
<1> QED
  BY <1>1 DEF WalkersSeen, WalkerSeen

LEMMA SeenAfterDiscard ==
    ASSUME IngestTypeOK, WalkersSeen, NEW w \in Walkers, Discard(w), disk' = disk
    PROVE  WalkersSeen'
<1>1. pc'[w] = "idle" /\ todo'[w] = {} /\ files'[w] = Empty
  BY DEF Discard, IngestTypeOK
<1>2. ASSUME NEW v \in Walkers, v /= w
      PROVE  UNCHANGED <<pc[v], todo[v], files[v], seen[v]>>
  BY <1>2 DEF Discard, IngestTypeOK
<1>3. WalkerSeen(w)'
  BY <1>1 DEF WalkerSeen
<1>4. ASSUME NEW v \in Walkers, v /= w PROVE WalkerSeen(v)'
  BY <1>2, <1>4 DEF WalkersSeen, WalkerSeen
<1> QED
  BY <1>3, <1>4 DEF WalkersSeen
=============================================================================
