--------------------------- MODULE ResolverProofs ---------------------------
(***************************************************************************)
(* Theorems about the incremental resolver and the queries over its edges. *)
(*                                                                         *)
(* The records kept, reused and recomputed along a history of patches are  *)
(* those of a full resolve, if each patch by itself disturbs only what the *)
(* dirty set has.  What a full resolve leaves is followed through both     *)
(* passes, from the binding of a name to the last member of a chain: every *)
(* edge leaves a symbol and ends at one, or outside the project.           *)
(***************************************************************************)
EXTENDS Relations, RecursionTheorems

USE ResolverAssumption

-----------------------------------------------------------------------------
(* Projects and their edits.                                               *)
IsProject(fs) ==
    DOMAIN fs \subseteq Modules /\ \A m \in DOMAIN fs : fs[m] \in Menu[m]

LEMMA ProjectsAre ==
    ASSUME NEW fs \in Projects
    PROVE  IsProject(fs)
<1>1. PICK P \in SUBSET Modules :
          fs \in {g \in [P -> UNION {Menu[m] : m \in P}] : \A m \in P : g[m] \in Menu[m]}
  BY DEF Projects
<1> QED
  BY <1>1 DEF IsProject

LEMMA ProjectIn ==
    ASSUME NEW fs, IsProject(fs), fs = [m \in DOMAIN fs |-> fs[m]]
    PROVE  fs \in Projects
<1> DEFINE P == DOMAIN fs
           Of(Q) == {g \in [Q -> UNION {Menu[m] : m \in Q}] : \A m \in Q : g[m] \in Menu[m]}
<1>1. P \in SUBSET Modules /\ \A m \in P : fs[m] \in UNION {Menu[k] : k \in P}
  BY DEF IsProject
<1>2. fs \in Of(P)
  BY <1>1 DEF IsProject
<1> QED
  BY <1>1, <1>2 DEF Projects

LEMMA EditsAre ==
    ASSUME NEW present, NEW edit \in Edits(present)
    PROVE  /\ DOMAIN edit \subseteq Modules
           /\ \A m \in Changed(edit) : m \in DOMAIN edit /\ edit[m] \in Menu[m]
           /\ Deleted(edit) \subseteq present
<1>1. PICK E \in SUBSET Modules :
          edit \in {f \in [E -> UNION {Menu[m] : m \in E} \cup {None}] :
                      \A m \in E : IF f[m] = None THEN m \in present ELSE f[m] \in Menu[m]}
  BY DEF Edits
<1> QED
  BY <1>1 DEF Changed, Deleted

LEMMA ApplyIsProject ==
    ASSUME NEW fs, IsProject(fs), NEW edit \in Edits(DOMAIN fs)
    PROVE  /\ IsProject(Apply(fs, edit))
           /\ DOMAIN Apply(fs, edit) = (DOMAIN fs \cup Changed(edit)) \ Deleted(edit)
           /\ Apply(fs, edit) \in Projects
<1> DEFINE new == Apply(fs, edit)
<1>1. /\ DOMAIN new = (DOMAIN fs \cup Changed(edit)) \ Deleted(edit)
      /\ \A m \in DOMAIN new : new[m] = IF m \in DOMAIN edit THEN edit[m] ELSE fs[m]
      /\ new = [m \in DOMAIN new |-> new[m]]
  BY DEF Apply
<1> HIDE DEF new
<1>2. ASSUME NEW m \in DOMAIN new PROVE m \in Modules /\ new[m] \in Menu[m]
  <2>1. CASE m \in DOMAIN edit
    <3>1. m \in Changed(edit)
      BY <1>1, <2>1 DEF Deleted
    <3> QED
      BY <1>1, <2>1, <3>1, EditsAre
  <2>2. CASE m \notin DOMAIN edit
    <3>1. m \in DOMAIN fs
      BY <1>1, <2>2 DEF Changed
    <3> QED
      BY <1>1, <2>2, <3>1 DEF IsProject
  <2> QED
    BY <2>1, <2>2
<1>3. IsProject(new)
  BY <1>2 DEF IsProject
<1> QED
  BY <1>1, <1>3, ProjectIn DEF new

-----------------------------------------------------------------------------
(* The records of a resolve, in two passes.                                *)
LEMMA SyntacticIs ==
    ASSUME NEW fs, NEW reuse, NEW dirty
    PROVE  /\ DOMAIN SyntacticPass(Tables(fs), reuse, dirty) = DOMAIN fs
           /\ \A m \in DOMAIN fs : SyntacticPass(Tables(fs), reuse, dirty)[m] =
                 IF m \in dirty THEN SyntacticFile(Tables(fs), m) ELSE reuse[m]
<1>1. Tables(fs).fs = fs
  BY DEF Tables
<1> QED
  BY <1>1 DEF SyntacticPass

(* The value pass adds to the record of a file and leaves its main edges.  *)
LEMMA MainStays ==
    ASSUME NEW ctx, NEW T, NEW m
    PROVE  ValueFile(ctx, m, SyntacticFile(T, m)).main = SyntacticFile(T, m).main
BY DEF ValueFile, SyntacticFile, FileRecord

Syntactic(fs) == [m \in DOMAIN fs |-> SyntacticFile(Tables(fs), m)]
Context(fs, recs) == ResolveIndex(Tables(fs), PerFile(fs, LAMBDA m : recs[m].main))

(* Of the first records, the value pass reads no more than the main edges. *)
LEMMA ContextAgrees ==
    ASSUME NEW fs, NEW one, NEW other, \A m \in DOMAIN fs : one[m].main = other[m].main
    PROVE  Context(fs, one) = Context(fs, other)
<1> DEFINE of(recs, m) == IF m \in DOMAIN fs THEN recs[m].main ELSE <<>>
           all(recs) == [i \in DOMAIN FileOrder |-> of(recs, FileOrder[i])]
           flat(recs) == FlattenSeq(all(recs))
<1>1. \A i \in DOMAIN FileOrder : of(one, FileOrder[i]) = of(other, FileOrder[i])
  OBVIOUS
<1>2. flat(one) = flat(other)
  BY <1>1
<1>3. /\ Context(fs, one) = ResolveIndex(Tables(fs), flat(one))
      /\ Context(fs, other) = ResolveIndex(Tables(fs), flat(other))
  BY Zenon DEF PerFile, Concat, Context
<1> HIDE DEF flat
<1> QED
  BY <1>2, <1>3

LEMMA ResolveIs ==
    ASSUME NEW fs, NEW reuse, NEW dirty
    PROVE  LET recs == SyntacticPass(Tables(fs), reuse, dirty)
           IN  ResolveFiles(fs, reuse, dirty) =
                   [m \in DOMAIN fs |->
                       IF m \in dirty THEN ValueFile(Context(fs, recs), m, recs[m]) ELSE recs[m]]
<1>1. Tables(fs).fs = fs
  BY DEF Tables
<1> QED
  BY <1>1, SyntacticIs DEF ResolveFiles, ResolveTables, BothPasses, ValuePass, Context

LEMMA FullIs ==
    ASSUME NEW fs
    PROVE  FullResolve(fs) =
               [m \in DOMAIN fs |->
                   ValueFile(Context(fs, Syntactic(fs)), m, SyntacticFile(Tables(fs), m))]
<1> DEFINE recs == SyntacticPass(Tables(fs), <<>>, DOMAIN fs)
<1>1. recs = Syntactic(fs)
  <2>1. Tables(fs).fs = fs
    BY DEF Tables
  <2> QED
    BY <2>1 DEF SyntacticPass, Syntactic
<1> HIDE DEF recs
<1>2. FullResolve(fs) = [m \in DOMAIN fs |->
          IF m \in DOMAIN fs THEN ValueFile(Context(fs, recs), m, recs[m]) ELSE recs[m]]
  BY ResolveIs DEF FullResolve, recs
<1> QED
  BY <1>1, <1>2 DEF Syntactic

(* Records that a full resolve would give as well make a partial one full, *)
(* in both passes: the value pass reads the main edges of all files.       *)
LEMMA ReuseIsFull ==
    ASSUME NEW fs, NEW reuse, NEW dirty,
           \A m \in DOMAIN fs \ dirty : reuse[m] = FullResolve(fs)[m]
    PROVE  ResolveFiles(fs, reuse, dirty) = FullResolve(fs)
<1> DEFINE recs == SyntacticPass(Tables(fs), reuse, dirty)
           full == FullResolve(fs)
<1>1. \A m \in DOMAIN fs : recs[m] = IF m \in dirty THEN SyntacticFile(Tables(fs), m) ELSE reuse[m]
  BY SyntacticIs
<1>2. \A m \in DOMAIN fs :
          full[m] = ValueFile(Context(fs, Syntactic(fs)), m, SyntacticFile(Tables(fs), m))
  BY FullIs
<1> HIDE DEF recs, full
<1>3. ASSUME NEW m \in DOMAIN fs
      PROVE  recs[m].main = Syntactic(fs)[m].main
  <2>1. Syntactic(fs)[m] = SyntacticFile(Tables(fs), m)
    BY DEF Syntactic
  <2>2. CASE m \in dirty
    BY <1>1, <2>1, <2>2
  <2>3. CASE m \notin dirty
    <3>1. recs[m] = full[m]
      BY <1>1, <2>3 DEF full
    <3>2. full[m].main = SyntacticFile(Tables(fs), m).main
      BY <1>2, MainStays
    <3> QED
      BY <2>1, <3>1, <3>2
  <2> QED
    BY <2>2, <2>3
<1>4. Context(fs, recs) = Context(fs, Syntactic(fs))
  <2>1. \A m \in DOMAIN fs : recs[m].main = Syntactic(fs)[m].main
    BY <1>3
  <2> QED
    BY <2>1, ContextAgrees, Zenon
<1>5. ResolveFiles(fs, reuse, dirty) =
          [m \in DOMAIN fs |->
              IF m \in dirty THEN ValueFile(Context(fs, recs), m, recs[m]) ELSE recs[m]]
  BY ResolveIs DEF recs
<1>6. \A m \in DOMAIN fs :
          full[m] = IF m \in dirty THEN ValueFile(Context(fs, recs), m, recs[m]) ELSE recs[m]
  BY <1>1, <1>2, <1>4 DEF full
<1>7. full = [m \in DOMAIN fs |-> full[m]]
  BY FullIs DEF full
<1> QED
  BY <1>5, <1>6, <1>7 DEF full

-----------------------------------------------------------------------------
(* What the cache holds: a project and the records of its full resolve.    *)
CacheInv ==
    cache # None =>
        /\ IsProject(cache.products) /\ cache.products \in Projects
        /\ DOMAIN cache.recs = DOMAIN cache.products
        /\ result = Reassemble(cache.products, cache.recs)

FullInv == cache # None => cache.recs = FullResolve(cache.products)

LEMMA ResolveDomain ==
    ASSUME NEW fs, NEW reuse, NEW dirty
    PROVE  DOMAIN ResolveFiles(fs, reuse, dirty) = DOMAIN fs
BY ResolveIs

(* Each call of resolve takes in a project: the first one, or one edited.  *)
LEMMA CallIs ==
    ASSUME CacheInv, Next
    PROVE  \E fs, recs :
               /\ fs \in Projects /\ Emit(fs, recs) /\ IsProject(fs) /\ DOMAIN recs = DOMAIN fs
               /\ \/ recs = FullResolve(fs)
                  \/ /\ cache # None
                     /\ \E edit \in Edits(DOMAIN cache.products) :
                            /\ fs = Apply(cache.products, edit)
                            /\ recs = ResolveFiles(fs, cache.recs, DirtyAfter(fs, edit))
<1>1. ASSUME NEW fs \in Projects, FirstResolve(fs)
      PROVE  Emit(fs, FullResolve(fs)) /\ IsProject(fs) /\ DOMAIN FullResolve(fs) = DOMAIN fs
  BY <1>1, ProjectsAre, FullIs DEF FirstResolve
<1>2. ASSUME cache # None, NEW edit \in Edits(DOMAIN cache.products)
      PROVE  LET fs == Apply(cache.products, edit)
             IN  fs \in Projects /\ IsProject(fs)
  BY <1>2, ApplyIsProject DEF CacheInv
<1>3. ASSUME cache # None, NEW edit \in Edits(DOMAIN cache.products), FallBack(edit)
      PROVE  LET fs == Apply(cache.products, edit)
             IN  Emit(fs, FullResolve(fs)) /\ DOMAIN FullResolve(fs) = DOMAIN fs
  BY <1>3, FullIs DEF FallBack
<1>4. ASSUME cache # None, NEW edit \in Edits(DOMAIN cache.products), Reuse(edit)
      PROVE  LET fs == Apply(cache.products, edit)
                 recs == ResolveFiles(fs, cache.recs, DirtyAfter(fs, edit))
             IN  Emit(fs, recs) /\ DOMAIN recs = DOMAIN fs
  BY <1>4, ResolveDomain DEF Reuse
<1> QED
  BY <1>1, <1>2, <1>3, <1>4 DEF Next

LEMMA CacheStep == CacheInv /\ [Next]_vars => CacheInv'
<1>1. ASSUME CacheInv, Next PROVE CacheInv'
  <2>1. PICK fs, recs :
            fs \in Projects /\ Emit(fs, recs) /\ IsProject(fs) /\ DOMAIN recs = DOMAIN fs
    BY <1>1, CallIs
  <2>2. cache' = [products |-> fs, recs |-> recs] /\ result' = Reassemble(fs, recs)
    BY <2>1 DEF Emit
  <2> QED
    BY <2>1, <2>2 DEF CacheInv
<1>2. CacheInv /\ UNCHANGED vars => CacheInv'
  BY DEF CacheInv, vars
<1> QED
  BY <1>1, <1>2

(* A cache is a record, and None is not one.                               *)
NoneIsNoCache == \A fs, recs : None # [products |-> fs, recs |-> recs]

Uncalled == cache = None => result = None

(* The resolver holds a project of the files it may have, a record of each *)
(* of its files and no record of a file that is gone, and the result is    *)
(* made of edges and external nodes, through every history of patches.     *)
THEOREM ResolverTyped == NoneIsNoCache => (Spec => []ResolverTypeOK)
<1> SUFFICES ASSUME NoneIsNoCache PROVE Spec => []ResolverTypeOK
  OBVIOUS
<1>1. Init => CacheInv /\ Uncalled
  BY DEF Init, CacheInv, Uncalled
<1>2. CacheInv /\ Uncalled /\ [Next]_vars => Uncalled'
  <2>1. ASSUME CacheInv, Next PROVE cache' # None
    BY <2>1, CallIs DEF Emit, NoneIsNoCache
  <2>2. Uncalled /\ UNCHANGED vars => Uncalled'
    BY DEF Uncalled, vars
  <2> QED
    BY <2>1, <2>2 DEF Uncalled
<1>3. CacheInv /\ Uncalled => ResolverTypeOK
  <2>1. ASSUME NEW fs, NEW recs PROVE DOMAIN Reassemble(fs, recs) = {"edges", "externals"}
    BY DEF Reassemble
  <2> QED
    BY <2>1 DEF CacheInv, Uncalled, ResolverTypeOK, IsProject
<1> QED
  BY <1>1, <1>2, <1>3, CacheStep, PTL DEF Spec

-----------------------------------------------------------------------------
(* The dirty set of every patch of every project has the files whose       *)
(* record it changes: DirtyCovers of all projects, not of those reached.   *)
DirtySetsCover == \A old \in Projects : \A edit \in Edits(DOMAIN old) : Undisturbed(old, edit)

LEMMA FullStep ==
    ASSUME DirtySetsCover, CacheInv, FullInv, Next
    PROVE  FullInv'
<1>1. PICK fs, recs :
          /\ fs \in Projects /\ Emit(fs, recs) /\ IsProject(fs) /\ DOMAIN recs = DOMAIN fs
          /\ \/ recs = FullResolve(fs)
             \/ /\ cache # None
                /\ \E edit \in Edits(DOMAIN cache.products) :
                       /\ fs = Apply(cache.products, edit)
                       /\ recs = ResolveFiles(fs, cache.recs, DirtyAfter(fs, edit))
  BY CallIs
<1>2. recs = FullResolve(fs)
  <2>1. ASSUME cache # None, NEW edit \in Edits(DOMAIN cache.products),
               fs = Apply(cache.products, edit)
        PROVE  ResolveFiles(fs, cache.recs, DirtyAfter(fs, edit)) = FullResolve(fs)
    <3> DEFINE old == cache.products
               dirty == DirtyAfter(fs, edit)
    <3>1. cache.recs = FullResolve(old) /\ old \in Projects
      BY <2>1 DEF FullInv, CacheInv
    <3>2. Undisturbed(old, edit)
      BY <2>1, <3>1 DEF DirtySetsCover
    <3>3. dirty = DirtySet(fs, old, Changed(edit), Deleted(edit))
      BY DEF DirtyAfter
    <3> HIDE DEF dirty
    <3>4. \A m \in DOMAIN fs \ dirty : FullResolve(old)[m] = FullResolve(fs)[m]
      BY <2>1, <3>2, <3>3 DEF Undisturbed
    <3>5. \A m \in DOMAIN fs \ dirty : cache.recs[m] = FullResolve(fs)[m]
      BY <3>1, <3>4
    <3> QED
      BY <3>5, ReuseIsFull DEF dirty
  <2> QED
    BY <1>1, <2>1
<1>3. cache' = [products |-> fs, recs |-> recs]
  BY <1>1 DEF Emit
<1> QED
  BY <1>2, <1>3 DEF FullInv

(* resolver.py:361-363, for every menu of files and every history: if no   *)
(* single patch disturbs a file outside its dirty set, no run of patches   *)
(* leaves a stale edge, or one out of order, in the graph.                 *)
THEOREM HistoriesAreFull == DirtySetsCover => (Spec => []IncrementalIsFull)
<1> SUFFICES ASSUME DirtySetsCover PROVE Spec => []IncrementalIsFull
  OBVIOUS
<1>1. Init => CacheInv /\ FullInv
  BY DEF Init, CacheInv, FullInv
<1>2. CacheInv /\ FullInv /\ [Next]_vars => FullInv'
  <2>1. FullInv /\ UNCHANGED vars => FullInv'
    BY DEF FullInv, vars
  <2> QED
    BY <2>1, FullStep
<1>3. CacheInv /\ FullInv => IncrementalIsFull
  BY DEF CacheInv, FullInv, IncrementalIsFull
<1> QED
  BY <1>1, <1>2, <1>3, CacheStep, PTL DEF Spec

-----------------------------------------------------------------------------
(* Lists: the sequences the passes make, and the edges of all files.       *)
LEMMA ListIs ==
    ASSUME NEW s
    PROVE  IsList(s) <=> \E n \in Nat : DOMAIN s = 1 .. n /\ s = [i \in 1 .. n |-> s[i]]
<1>1. ASSUME IsList(s) PROVE \E n \in Nat : DOMAIN s = 1 .. n /\ s = [i \in 1 .. n |-> s[i]]
  <2>1. Len(s) \in Nat /\ DOMAIN s = 1 .. Len(s) /\ s = [i \in 1 .. Len(s) |-> s[i]]
    BY <1>1 DEF IsList
  <2> QED
    BY <2>1
<1>2. ASSUME NEW n \in Nat, DOMAIN s = 1 .. n, s = [i \in 1 .. n |-> s[i]] PROVE IsList(s)
  <2>1. \A i \in 1 .. n : s[i] \in ToSet(s)
    BY <1>2 DEF ToSet
  <2>2. s \in [1 .. n -> ToSet(s)]
    BY <1>2, <2>1
  <2> QED
    BY <2>2 DEF IsList
<1> QED
  BY <1>1, <1>2

(* A sequence of which each place is made from that of another.            *)
LEMMA MappedIs ==
    ASSUME NEW s, IsList(s), NEW f, f = [i \in DOMAIN s |-> f[i]]
    PROVE  IsList(f) /\ ToSet(f) = {f[i] : i \in DOMAIN s}
<1>1. PICK n \in Nat : DOMAIN s = 1 .. n
  BY ListIs
<1>2. DOMAIN f = 1 .. n /\ f = [i \in 1 .. n |-> f[i]]
  BY <1>1
<1> QED
  BY <1>1, <1>2, ListIs DEF ToSet

LEMMA ListFinite ==
    ASSUME NEW s, IsList(s)
    PROVE  IsFiniteSet(ToSet(s))
<1>1. PICK n \in Nat : DOMAIN s = 1 .. n
  BY ListIs
<1>2. s = [i \in DOMAIN s |-> s[i]]
  BY DEF IsList
<1>3. IsFiniteSet(DOMAIN s)
  BY <1>1, FS_Interval
<1>4. IsFiniteSet({s[i] : i \in DOMAIN s})
  BY <1>2, <1>3, FiniteImage
<1> QED
  BY <1>4 DEF ToSet

LEMMA ListJoin ==
    ASSUME NEW a, IsList(a), NEW b, IsList(b)
    PROVE  IsList(a \o b) /\ ToSet(a \o b) = ToSet(a) \cup ToSet(b)
<1> DEFINE S == ToSet(a) \cup ToSet(b)
<1>1. a \in Seq(S) /\ b \in Seq(S)
  BY DEF IsList
<1> HIDE DEF S
<1>2. ToSet(a \o b) = ToSet(a) \cup ToSet(b)
  BY <1>1, JoinedIs
<1>3. a \o b \in Seq(S)
  BY <1>1
<1> QED
  BY <1>2, <1>3 DEF IsList, S

LEMMA ListFlat ==
    ASSUME NEW s, IsList(s), \A i \in DOMAIN s : IsList(s[i])
    PROVE  /\ IsList(FlattenSeq(s))
           /\ ToSet(FlattenSeq(s)) = UNION {ToSet(s[i]) : i \in DOMAIN s}
<1> DEFINE S == UNION {ToSet(s[i]) : i \in DOMAIN s}
<1>1. PICK n \in Nat : DOMAIN s = 1 .. n /\ s = [i \in 1 .. n |-> s[i]]
  BY ListIs
<1>2. ASSUME NEW i \in DOMAIN s PROVE s[i] \in Seq(S)
  <2>1. ToSet(s[i]) \subseteq S /\ s[i] \in Seq(ToSet(s[i]))
    BY DEF IsList
  <2> HIDE DEF S
  <2> QED
    BY <2>1
<1>3. s \in Seq(Seq(S))
  <2> HIDE DEF S
  <2>1. s \in [1 .. n -> Seq(S)]
    BY <1>1, <1>2
  <2> QED
    BY <2>1
<1>4. FlattenSeq(s) \in Seq(S) /\ ToSet(FlattenSeq(s)) = S
  <2> HIDE DEF S
  <2>1. /\ FlattenSeq(s) \in Seq(S)
        /\ ToSet(FlattenSeq(s)) = UNION {ToSet(s[i]) : i \in DOMAIN s}
    BY <1>3, FlattenSeqIs
  <2> QED
    BY <2>1 DEF S
<1> QED
  BY <1>4 DEF IsList

LEMMA PickedIs ==
    ASSUME NEW s, IsList(s), NEW I
    PROVE  /\ IsList(Picked(s, I))
           /\ ToSet(Picked(s, I)) = {s[i] : i \in DOMAIN s \cap I}
           /\ ToSet(Picked(s, I)) \subseteq ToSet(s)
<1> DEFINE one(i) == IF i \in I THEN <<s[i]>> ELSE <<>>
           parts == [i \in DOMAIN s |-> one(i)]
<1>1. ASSUME NEW i \in DOMAIN s
      PROVE  IsList(one(i)) /\ ToSet(one(i)) = IF i \in I THEN {s[i]} ELSE {}
  <2>1. IsList(<<s[i]>>) /\ ToSet(<<s[i]>>) = {s[i]}
    BY DEF IsList, ToSet
  <2>2. IsList(<<>>) /\ ToSet(<<>>) = {}
    BY DEF IsList, ToSet
  <2> QED
    BY <2>1, <2>2
<1>2. Picked(s, I) = FlattenSeq(parts)
  BY DEF Picked
<1>3. parts = [i \in DOMAIN s |-> parts[i]] /\ \A i \in DOMAIN s : parts[i] = one(i)
  OBVIOUS
<1> HIDE DEF one, parts
<1>4. IsList(parts)
  BY <1>3, MappedIs
<1>5. DOMAIN parts = DOMAIN s /\ \A i \in DOMAIN parts : IsList(parts[i])
  BY <1>1, <1>3
<1>6. IsList(FlattenSeq(parts)) /\ ToSet(FlattenSeq(parts)) = UNION {ToSet(parts[i]) : i \in DOMAIN parts}
  BY <1>4, <1>5, ListFlat
<1>7. UNION {ToSet(parts[i]) : i \in DOMAIN parts} = {s[i] : i \in DOMAIN s \cap I}
  BY <1>1, <1>3, <1>5
<1> QED
  BY <1>2, <1>6, <1>7 DEF ToSet

LEMMA PickedShort ==
    ASSUME NEW s, IsList(s), NEW I
    PROVE  /\ Len(Picked(s, I)) \in Nat /\ Len(Picked(s, I)) <= Len(s)
           /\ (\E i \in DOMAIN s : i \notin I) => Len(Picked(s, I)) < Len(s)
<1> DEFINE one(i) == IF i \in I THEN <<s[i]>> ELSE <<>>
           parts == [i \in DOMAIN s |-> one(i)]
           S == ToSet(s)
<1>1. s \in Seq(S) /\ Len(s) \in Nat /\ DOMAIN s = 1 .. Len(s)
  BY DEF IsList
<1>2. ASSUME NEW i \in DOMAIN s PROVE one(i) \in Seq(S) /\ Len(one(i)) <= 1
  <2>1. s[i] \in S
    BY DEF ToSet
  <2> HIDE DEF S
  <2> QED
    BY <2>1
<1>3. /\ DOMAIN parts = DOMAIN s
      /\ \A i \in DOMAIN s : parts[i] = one(i) /\ (i \notin I => parts[i] = <<>>)
  OBVIOUS
<1>4. Picked(s, I) = FlattenSeq(parts)
  BY DEF Picked
<1>5. parts \in [1 .. Len(s) -> Seq(S)]
  <2> HIDE DEF one, S
  <2> QED
    BY <1>1, <1>2
<1> HIDE DEF parts, one
<1>6. parts \in Seq(Seq(S)) /\ Len(parts) = Len(s)
  <2> HIDE DEF S
  <2> QED
    BY <1>1, <1>5
<1>7. \A i \in DOMAIN parts : Len(parts[i]) <= 1
  BY <1>2, <1>3
<1> HIDE DEF S
<1>8. /\ Len(FlattenSeq(parts)) \in Nat /\ Len(FlattenSeq(parts)) <= Len(parts)
      /\ (\E i \in DOMAIN parts : parts[i] = <<>>) => Len(FlattenSeq(parts)) < Len(parts)
  BY <1>6, <1>7, FlatIsShort
<1> QED
  BY <1>3, <1>4, <1>6, <1>8

(* Of the places of a list with the same key, the first.                   *)
Firsts(s, key) == {k \in DOMAIN s : \A j \in 1 .. k - 1 : key[j] # key[k]}

LEMMA FirstsAre ==
    ASSUME NEW s, IsList(s), NEW key, NEW i \in DOMAIN s
    PROVE  \E k \in DOMAIN s \cap Firsts(s, key) : k <= i /\ key[k] = key[i]
<1> DEFINE same == {k \in DOMAIN s : key[k] = key[i]}
<1>1. PICK n \in Nat : DOMAIN s = 1 .. n
  BY ListIs
<1>2. same \in SUBSET Nat /\ same # {}
  BY <1>1
<1>3. PICK k \in same : \A j \in same : k <= j
  <2> HIDE DEF same
  <2> QED
    BY <1>2, MinIsLeast
<1>4. k \in DOMAIN s /\ key[k] = key[i] /\ k <= i
  BY <1>3
<1>5. ASSUME NEW j \in 1 .. k - 1 PROVE key[j] # key[k]
  <2>1. j \in DOMAIN s /\ ~(k <= j)
    BY <1>1, <1>4
  <2>2. j \notin same
    <3> HIDE DEF same
    <3> QED
      BY <1>3, <2>1
  <2> QED
    BY <1>4, <2>1, <2>2
<1> QED
  BY <1>4, <1>5 DEF Firsts

LEMMA FirstsKept ==
    ASSUME NEW s, IsList(s), NEW key
    PROVE  LET firsts == Picked(s, Firsts(s, key))
           IN  /\ IsList(firsts) /\ ToSet(firsts) \subseteq ToSet(s)
               /\ \A i \in DOMAIN s :
                     \E k \in DOMAIN s : k <= i /\ key[k] = key[i] /\ s[k] \in ToSet(firsts)
<1> DEFINE J == Firsts(s, key)
           firsts == Picked(s, J)
<1>1. \A i \in DOMAIN s : \E k \in DOMAIN s \cap J : k <= i /\ key[k] = key[i]
  BY FirstsAre
<1> HIDE DEF J
<1>2. /\ IsList(firsts) /\ ToSet(firsts) \subseteq ToSet(s)
      /\ ToSet(firsts) = {s[k] : k \in DOMAIN s \cap J}
  BY PickedIs
<1> HIDE DEF firsts
<1>3. \A i \in DOMAIN s :
          \E k \in DOMAIN s : k <= i /\ key[k] = key[i] /\ s[k] \in ToSet(firsts)
  BY <1>1, <1>2
<1> QED
  BY <1>2, <1>3 DEF firsts, J

(* A sequence without its repeats has the elements that it had.            *)
LEMMA DistinctIs ==
    ASSUME NEW s, IsList(s)
    PROVE  IsList(Distinct(s)) /\ ToSet(Distinct(s)) = ToSet(s)
<1>1. Distinct(s) = Picked(s, Firsts(s, s))
  BY Zenon DEF Distinct, DistinctBy, Firsts
<1>2. /\ IsList(Picked(s, Firsts(s, s))) /\ ToSet(Picked(s, Firsts(s, s))) \subseteq ToSet(s)
      /\ \A i \in DOMAIN s :
            \E k \in DOMAIN s : k <= i /\ s[k] = s[i] /\ s[k] \in ToSet(Picked(s, Firsts(s, s)))
  BY FirstsKept
<1> QED
  BY <1>1, <1>2 DEF ToSet

(* Per file, what there is of the files of a project.                      *)
Gathered(fs, f) == PerFile(fs, LAMBDA m : f[m])

LEMMA PerFileIs ==
    ASSUME NEW fs, DOMAIN fs \subseteq Modules, NEW f, \A m \in DOMAIN fs : IsList(f[m])
    PROVE  /\ IsList(Gathered(fs, f))
           /\ ToSet(Gathered(fs, f)) = UNION {ToSet(f[m]) : m \in DOMAIN fs}
<1> DEFINE of(m) == IF m \in DOMAIN fs THEN f[m] ELSE <<>>
           parts == [i \in DOMAIN FileOrder |-> of(FileOrder[i])]
<1>1. Gathered(fs, f) = FlattenSeq(parts)
  BY Zenon DEF Gathered, PerFile, Concat
<1>2. IsList(<<>>) /\ ToSet(<<>>) = {}
  BY DEF IsList, ToSet
<1>3. \A i \in DOMAIN FileOrder : parts[i] = of(FileOrder[i])
  OBVIOUS
<1>4. \A i \in DOMAIN FileOrder : IsList(of(FileOrder[i]))
  BY <1>2
<1>5. IsList(parts) /\ DOMAIN parts = DOMAIN FileOrder
  <2>1. IsList(FileOrder)
    BY MenuAssumption
  <2>2. parts = [i \in DOMAIN FileOrder |-> parts[i]]
    OBVIOUS
  <2> HIDE DEF parts
  <2> QED
    BY <2>1, <2>2, MappedIs
<1> HIDE DEF of, parts
<1>6. IsList(FlattenSeq(parts)) /\ ToSet(FlattenSeq(parts)) = UNION {ToSet(parts[i]) : i \in DOMAIN parts}
  <2>1. \A i \in DOMAIN parts : IsList(parts[i])
    BY <1>3, <1>4, <1>5
  <2> QED
    BY <1>5, <2>1, ListFlat
<1>7. UNION {ToSet(parts[i]) : i \in DOMAIN parts} = UNION {ToSet(f[m]) : m \in DOMAIN fs}
  <2>1. ASSUME NEW x, NEW i \in DOMAIN parts, x \in ToSet(parts[i])
        PROVE  x \in UNION {ToSet(f[m]) : m \in DOMAIN fs}
    BY <1>2, <1>3, <1>5, <2>1 DEF of
  <2>2. ASSUME NEW x, NEW m \in DOMAIN fs, x \in ToSet(f[m])
        PROVE  x \in UNION {ToSet(parts[i]) : i \in DOMAIN parts}
    <3>1. PICK i \in DOMAIN FileOrder : FileOrder[i] = m
      BY DEF Modules, ToSet
    <3>2. parts[i] = f[m]
      BY <1>3, <3>1 DEF of
    <3> QED
      BY <1>5, <2>2, <3>2
  <2> QED
    BY <2>1, <2>2
<1> QED
  BY <1>1, <1>6, <1>7

-----------------------------------------------------------------------------
(* The tables of a project.                                                *)
Ids(T) == DOMAIN T.byId

LEMMA TablesAre ==
    ASSUME NEW fs, IsProject(fs)
    PROVE  /\ Tables(fs).fs = fs
           /\ DOMAIN fs \subseteq Modules /\ \A m \in DOMAIN fs : Extracted(m, fs[m])
           /\ Ids(Tables(fs)) = {s.id : s \in Symbols(fs)}
           /\ IsFiniteSet(Ids(Tables(fs)))
           /\ Tables(fs).roots = {<<Head(m)>> : m \in DOMAIN fs}
<1>1. DOMAIN fs \subseteq Modules /\ \A m \in DOMAIN fs : Extracted(m, fs[m])
  BY MenuAssumption DEF IsProject
<1>2. /\ Tables(fs).fs = fs /\ Ids(Tables(fs)) = {s.id : s \in Symbols(fs)}
      /\ Tables(fs).roots = {<<Head(m)>> : m \in DOMAIN fs}
  BY DEF Tables, Ids
<1>3. IsFiniteSet(Symbols(fs))
  <2> DEFINE parts == {ToSet(fs[m].symbols) : m \in DOMAIN fs}
  <2>1. IsFiniteSet(DOMAIN fs)
    <3>1. IsFiniteSet(Modules)
      BY ListFinite, MenuAssumption DEF Modules
    <3> QED
      BY <1>1, <3>1, FS_Subset
  <2>2. IsFiniteSet(parts)
    <3> DEFINE f == [m \in DOMAIN fs |-> ToSet(fs[m].symbols)]
    <3>1. f = [m \in DOMAIN fs |-> f[m]] /\ parts = {f[m] : m \in DOMAIN fs}
      OBVIOUS
    <3> HIDE DEF f, parts
    <3> QED
      BY <2>1, <3>1, FiniteImage
  <2>3. \A part \in parts : IsFiniteSet(part)
    BY <1>1, ListFinite DEF Extracted
  <2> HIDE DEF parts
  <2>4. IsFiniteSet(UNION parts)
    BY <2>2, <2>3, FS_UNION
  <2> QED
    BY <2>4 DEF Symbols, parts
<1>4. IsFiniteSet({s.id : s \in Symbols(fs)})
  <2> DEFINE f == [s \in Symbols(fs) |-> s.id]
  <2>1. /\ f = [s \in Symbols(fs) |-> f[s]]
        /\ {s.id : s \in Symbols(fs)} = {f[s] : s \in Symbols(fs)}
    OBVIOUS
  <2> HIDE DEF f
  <2>2. IsFiniteSet({f[s] : s \in Symbols(fs)})
    BY <1>3, <2>1, FiniteImage
  <2> QED
    BY <2>1, <2>2, Zenon
<1> QED
  BY <1>1, <1>2, <1>4

(* An index of a project: its members, bases and types are of the project. *)
Indexed(ctx) ==
    /\ IsFiniteSet(Ids(ctx.T))
    /\ DOMAIN ctx.bases = Ids(ctx.T)
    /\ \A id \in Ids(ctx.T) : ToSet(ctx.bases[id]) \subseteq Ids(ctx.T)
                              /\ ctx.typeOf[id] \in Ids(ctx.T) \cup {None}
    /\ IsList(ctx.symbols) /\ \A s \in ToSet(ctx.symbols) : s.id \in Ids(ctx.T)

LEMMA OnlyClassIs ==
    ASSUME NEW T, NEW q
    PROVE  OnlyClass(T, q) \in Ids(T) \cup {None}
BY DEF OnlyClass, KindOf, Known, Ids

LEMMA TypeNameIs ==
    ASSUME NEW T, NEW m, NEW name
    PROVE  ResolveTypeName(T, m, name) \in Ids(T) \cup {None}
BY OnlyClassIs DEF ResolveTypeName

LEMMA FirstIs ==
    ASSUME NEW s, IsList(s), NEW I
    PROVE  LET first == Head(Append(Picked(s, I), None))
           IN  first \in ToSet(s) \cup {None}
<1> DEFINE p == Picked(s, I)
<1>1. IsList(p) /\ ToSet(p) \subseteq ToSet(s)
  BY PickedIs
<1> HIDE DEF p
<1>2. p \in Seq(ToSet(p))
  BY <1>1 DEF IsList
<1>3. CASE p = <<>>
  <2>1. Append(p, None) = <<None>>
    BY <1>3
  <2>2. Head(<<None>>) = None
    OBVIOUS
  <2> QED
    BY <2>1, <2>2 DEF p
<1>4. CASE p # <<>>
  <2>1. Len(p) \in Nat /\ Len(p) >= 1 /\ DOMAIN p = 1 .. Len(p)
    BY <1>2, <1>4
  <2>2. Head(Append(p, None)) = p[1] /\ 1 \in DOMAIN p
    BY <1>2, <2>1
  <2>3. p[1] \in ToSet(p)
    BY <2>2 DEF ToSet
  <2> QED
    BY <1>1, <2>2, <2>3 DEF p
<1> QED
  BY <1>3, <1>4

LEMMA OwnMemberIs ==
    ASSUME NEW ctx, Indexed(ctx), NEW class, NEW name, NEW kinds
    PROVE  OwnMember(ctx, class, name, kinds) \in Ids(ctx.T) \cup {None}
<1> DEFINE I == {i \in DOMAIN ctx.symbols :
                    /\ ctx.symbols[i].parent = class
                    /\ ctx.symbols[i].name = name /\ ctx.symbols[i].kind \in kinds}
           s == Head(Append(Picked(ctx.symbols, I), None))
<1>1. OwnMember(ctx, class, name, kinds) = IF s = None THEN None ELSE s.id
  BY DEF OwnMember, FirstMatch, Matching
<1>2. s \in ToSet(ctx.symbols) \cup {None}
  <2> HIDE DEF I
  <2> QED
    BY FirstIs DEF Indexed
<1> HIDE DEF s
<1> QED
  BY <1>1, <1>2 DEF Indexed

More(ctx, own, cs) ==
    cs \cup UNION {ToSet(ctx.bases[c]) : c \in {d \in cs : own[d] = None}}

Above(ctx, own, above) ==
    above = [cs \in SUBSET Ids(ctx.T) |->
                IF More(ctx, own, cs) = cs THEN cs ELSE above[More(ctx, own, cs)]]

(* The walk up the bases stays within the project.                         *)
LEMMA AboveIs ==
    ASSUME NEW ctx, Indexed(ctx), NEW own
    PROVE  /\ \E above : Above(ctx, own, above)
           /\ \A above : Above(ctx, own, above) =>
                  \A cs \in SUBSET Ids(ctx.T) : above[cs] \subseteq Ids(ctx.T)
<1> DEFINE U == Ids(ctx.T)
           C == SUBSET U
           more(cs) == More(ctx, own, cs)
           below == [cs \in C |-> IF more(cs) = cs THEN {} ELSE {more(cs)}]
           step == [cs \in C |-> [h \in [below[cs] -> C] |->
                       IF more(cs) = cs THEN cs ELSE h[more(cs)]]]
<1>1. \A cs \in C : more(cs) \in C /\ cs \subseteq more(cs)
  BY DEF Indexed, More
<1> HIDE DEF U, more
<1>2. below \in [C -> SUBSET C]
  BY <1>1
<1>3. Founded(C, below)
  <2>1. \A P \in C : \A Q \in below[P] : P \subseteq Q /\ P # Q
    BY <1>1
  <2>2. IsFiniteSet(U)
    BY DEF Indexed, U
  <2> HIDE DEF below
  <2> QED
    BY <1>2, <2>1, <2>2, GrowingFounded
<1>4. Passes(C, below, C, step)
  <2> SUFFICES ASSUME NEW cs \in C, NEW h \in [below[cs] -> C] PROVE step[cs][h] \in C
    BY DEF Passes
  <2>1. step[cs][h] = IF more(cs) = cs THEN cs ELSE h[more(cs)]
    OBVIOUS
  <2>2. more(cs) # cs => more(cs) \in below[cs]
    OBVIOUS
  <2> HIDE DEF step, below
  <2> QED
    BY <2>1, <2>2
<1>5. PICK f \in [C -> C] : Follows(C, below, step, f)
  <2> HIDE DEF C, below, step
  <2> QED
    BY <1>2, <1>3, <1>4, Recursion
<1>6. ASSUME NEW cs \in C PROVE f[cs] = IF more(cs) = cs THEN cs ELSE f[more(cs)]
  <2> DEFINE h == [b \in below[cs] |-> f[b]]
  <2>1. h \in [below[cs] -> C]
    BY <1>1
  <2>2. f[cs] = step[cs][h]
    BY <1>5 DEF Follows
  <2>3. step[cs][h] = IF more(cs) = cs THEN cs ELSE h[more(cs)]
    BY <2>1
  <2>4. more(cs) # cs => h[more(cs)] = f[more(cs)]
    OBVIOUS
  <2> HIDE DEF h, step, below
  <2> QED
    BY <2>2, <2>3, <2>4
<1>7. Above(ctx, own, f)
  BY <1>5, <1>6 DEF Above, more, U
<1>8. ASSUME NEW above, Above(ctx, own, above)
      PROVE  \A cs \in C : above[cs] \subseteq U
  <2> DEFINE W == {cs \in C : ~(above[cs] \subseteq U)}
  <2>1. \A cs \in C : above[cs] = IF more(cs) = cs THEN cs ELSE above[more(cs)]
    BY <1>8 DEF Above, more, U
  <2>2. SUFFICES ASSUME W # {} PROVE FALSE
    OBVIOUS
  <2>3. PICK cs \in W : below[cs] \cap W = {}
    <3>1. W \in SUBSET C
      OBVIOUS
    <3> HIDE DEF W, below
    <3> QED
      BY <1>3, <2>2, <3>1 DEF Founded
  <2>4. cs \in C /\ ~(above[cs] \subseteq U)
    BY <2>3
  <2>5. CASE more(cs) = cs
    BY <2>1, <2>4, <2>5
  <2>6. CASE more(cs) # cs
    <3>1. more(cs) \in below[cs]
      BY <2>4, <2>6
    <3>2. more(cs) \in C /\ above[cs] = above[more(cs)]
      BY <1>1, <2>1, <2>4, <2>6
    <3> QED
      BY <2>3, <2>4, <3>1, <3>2
  <2> QED
    BY <2>5, <2>6
<1> QED
  BY <1>7, <1>8 DEF U

LEMMA OnlyIs ==
    ASSUME NEW found, NEW S, found \subseteq S
    PROVE  TheOnly(found) \in S \cup {None}
<1>1. ASSUME Cardinality(found) = 1 PROVE found # {}
  BY <1>1, FS_EmptySet
<1> QED
  BY <1>1 DEF TheOnly

(* A member looked up on a class of the project is one of the project.     *)
LEMMA LookupIs ==
    ASSUME NEW ctx, Indexed(ctx), NEW class \in Ids(ctx.T) \cup {None}, NEW name, NEW kinds
    PROVE  MemberLookup(ctx, class, name, kinds) \in Ids(ctx.T) \cup {None}
<1> DEFINE own == [c \in DOMAIN ctx.bases |-> OwnMember(ctx, c, name, kinds)]
           above == CHOOSE above : Above(ctx, own, above)
           found == {own[c] : c \in above[{class}]} \ {None}
<1>1. DOMAIN ctx.bases = Ids(ctx.T)
  BY DEF Indexed
<1>2. \A c \in Ids(ctx.T) : own[c] \in Ids(ctx.T) \cup {None}
  BY <1>1, OwnMemberIs
<1>3. MemberLookup(ctx, class, name, kinds) = IF class = None THEN None ELSE TheOnly(found)
  <2> DEFINE it == CHOOSE f : f = [cs \in SUBSET DOMAIN ctx.bases |->
                LET more == cs \cup UNION {ToSet(ctx.bases[c]) : c \in {d \in cs : own[d] = None}}
                IN  IF more = cs THEN cs ELSE f[more]]
  <2>1. it = above
    BY <1>1, Zenon DEF Above, More
  <2>2. MemberLookup(ctx, class, name, kinds) =
            IF class = None THEN None ELSE TheOnly({own[c] : c \in it[{class}]} \ {None})
    BY Zenon DEF MemberLookup
  <2> HIDE DEF it, above, own
  <2> QED
    BY <2>1, <2>2
<1> HIDE DEF own
<1>4. Above(ctx, own, above)
  BY AboveIs, Zenon
<1> HIDE DEF above
<1>5. CASE class # None
  <2>1. above[{class}] \subseteq Ids(ctx.T)
    BY <1>4, <1>5, AboveIs
  <2>2. found \subseteq Ids(ctx.T)
    BY <1>2, <2>1
  <2> HIDE DEF found
  <2> QED
    BY <1>3, <1>5, <2>2, OnlyIs
<1> QED
  BY <1>3, <1>5

-----------------------------------------------------------------------------
(* Where a receiver is on a member chain: on a class of the project, or    *)
(* nowhere.                                                                *)
Within(ctx, at) == at.class \in Ids(ctx.T) \cup {None}

Positions(ctx) == [class : Ids(ctx.T) \cup {None}, inferred : BOOLEAN, untyped : BOOLEAN]

LEMMA LandingIs ==
    ASSUME NEW ctx, Indexed(ctx), NEW at, NEW id \in Ids(ctx.T) \cup {None}, NEW read
    PROVE  /\ Within(ctx, Landing(ctx, at, id, read))
           /\ read \in BOOLEAN => Landing(ctx, at, id, read) \in Positions(ctx)
<1> DEFINE isData == KindOf(ctx.T, id) \in ReadableData
           to == IF id # None /\ isData = read THEN ctx.typeOf[id] ELSE None
           inferred == at.inferred \/ (to # None /\ ctx.T.byId[id].inferred)
           untyped == read /\ (at.untyped \/ (isData /\ to = None))
<1>1. to \in Ids(ctx.T) \cup {None}
  BY DEF Indexed
<1>2. Landing(ctx, at, id, read) = At(to, inferred, untyped)
  BY DEF Landing
<1>3. inferred \in BOOLEAN /\ untyped \in BOOLEAN
  OBVIOUS
<1> HIDE DEF to, inferred, untyped
<1>4. At(to, inferred, untyped) \in Positions(ctx)
  BY <1>1, <1>3 DEF At, Positions
<1> QED
  BY <1>2, <1>4 DEF Within, Positions

LEMMA HopIs ==
    ASSUME NEW ctx, Indexed(ctx), NEW at, Within(ctx, at), NEW hop, hop.read \in BOOLEAN
    PROVE  Hop(ctx, at, hop) \in Positions(ctx)
<1> DEFINE id == MemberLookup(ctx, at.class, hop.name, MemberKinds(hop.read))
<1>1. id \in Ids(ctx.T) \cup {None}
  BY LookupIs DEF Within
<1> HIDE DEF id
<1>2. Landing(ctx, at, id, hop.read) \in Positions(ctx)
  BY <1>1, LandingIs
<1> QED
  BY <1>2 DEF Hop, id

ThreadBody(ctx, at, hops, thread) ==
    [P \in SUBSET DOMAIN hops |->
        IF P = {} THEN at ELSE Hop(ctx, thread[P \ {Max(P)}], hops[Max(P)])]

(* The positions w of a receiver on its way from at.                       *)
Trace(ctx, at, n, hops, w) ==
    /\ w[0] = at
    /\ \A i \in 0 .. n : Within(ctx, w[i])
    /\ \A i \in 1 .. n : w[i] = Hop(ctx, w[i - 1], hops[i])
    /\ Thread(ctx, at, hops) = w[n]

LEMMA TraceIs ==
    ASSUME NEW ctx, Indexed(ctx), NEW at, Within(ctx, at),
           NEW n \in Nat, NEW hops, DOMAIN hops = 1 .. n, \A i \in 1 .. n : hops[i].read \in BOOLEAN
    PROVE  \E w : Trace(ctx, at, n, hops, w)
<1> DEFINE chosen == CHOOSE thread : thread = ThreadBody(ctx, at, hops, thread)
           A == {at} \cup Positions(ctx)
           C == SUBSET (1 .. n)
           op == [i \in 1 .. n |-> [a \in A |-> Hop(ctx, a, hops[i])]]
<1>1. Thread(ctx, at, hops) = chosen[DOMAIN hops]
  BY Zenon DEF Thread, FoldLeft, MapThenFoldSet, ThreadBody
<1>2. at \in A /\ \A a \in A : Within(ctx, a)
  BY DEF Within, Positions
<1>3. ASSUME NEW i \in 1 .. n, NEW a \in A
      PROVE  op[i][a] = Hop(ctx, a, hops[i]) /\ op[i][a] \in A
  <2>1. op[i][a] = Hop(ctx, a, hops[i])
    OBVIOUS
  <2> HIDE DEF A, op
  <2>2. Hop(ctx, a, hops[i]) \in Positions(ctx)
    BY <1>2, HopIs
  <2> QED
    BY <2>1, <2>2 DEF A
<1> HIDE DEF op, A
<1>4. Stays(n, A, op)
  BY <1>3 DEF Stays
<1>5. \E thread : thread = ThreadBody(ctx, at, hops, thread)
  <2>1. PICK fold \in [SUBSET (1 .. n) -> A] : Folds(n, at, op, fold)
    BY <1>2, <1>4, FoldExists
  <2>2. ASSUME NEW P \in SUBSET (1 .. n), P # {}
        PROVE  op[Max(P)][fold[P \ {Max(P)}]] = Hop(ctx, fold[P \ {Max(P)}], hops[Max(P)])
    <3>1. Max(P) \in 1 .. n
      BY <2>2, MaxIsGreatest
    <3>2. fold[P \ {Max(P)}] \in A
      BY <2>1
    <3> QED
      BY <1>3, <3>1, <3>2
  <2>3. fold = ThreadBody(ctx, at, hops, fold)
    BY <2>1, <2>2 DEF Folds, ThreadBody
  <2> QED
    BY <2>3
<1>6. chosen = ThreadBody(ctx, at, hops, chosen)
  BY <1>5
<1> HIDE DEF chosen
<1>7. \A P \in C : chosen[P] = IF P = {} THEN at ELSE Hop(ctx, chosen[P \ {Max(P)}], hops[Max(P)])
  BY <1>6 DEF ThreadBody
<1>8. chosen[{}] = at
  BY <1>7
<1>9. Carries(n, A, op, chosen)
  <2>1. ASSUME NEW P \in SUBSET (1 .. n), P # {}, chosen[P \ {Max(P)}] \in A
        PROVE  chosen[P] = op[Max(P)][chosen[P \ {Max(P)}]]
    <3>1. Max(P) \in 1 .. n
      BY <2>1, MaxIsGreatest
    <3> QED
      BY <1>3, <1>7, <2>1, <3>1
  <2> QED
    BY <2>1 DEF Carries
<1>10. /\ \A i \in 0 .. n : chosen[1 .. i] \in A
       /\ \A i \in 1 .. n : chosen[1 .. i] = op[i][chosen[1 .. i - 1]]
  BY <1>2, <1>4, <1>8, <1>9, FoldFollows
<1> DEFINE w == [i \in 0 .. n |-> chosen[1 .. i]]
<1>11. w[0] = at
  <2>1. 1 .. 0 = {}
    OBVIOUS
  <2> QED
    BY <1>8, <2>1
<1>12. \A i \in 0 .. n : Within(ctx, w[i])
  BY <1>2, <1>10
<1>13. ASSUME NEW i \in 1 .. n PROVE w[i] = Hop(ctx, w[i - 1], hops[i])
  <2>1. i - 1 \in 0 .. n /\ i \in 0 .. n
    OBVIOUS
  <2>2. w[i] = op[i][w[i - 1]] /\ w[i - 1] \in A
    BY <1>10, <2>1
  <2> QED
    BY <1>3, <2>2
<1>14. Thread(ctx, at, hops) = w[n]
  BY <1>1
<1> QED
  BY <1>11, <1>12, <1>13, <1>14 DEF Trace

LEMMA ThreadIs ==
    ASSUME NEW ctx, Indexed(ctx), NEW at, Within(ctx, at),
           NEW n \in Nat, NEW hops, DOMAIN hops = 1 .. n, \A i \in 1 .. n : hops[i].read \in BOOLEAN
    PROVE  Within(ctx, Thread(ctx, at, hops))
<1>1. PICK w : Trace(ctx, at, n, hops, w)
  BY TraceIs
<1> QED
  BY <1>1 DEF Trace

(* Where a receiver gets to depends on the class that it starts with, and  *)
(* not on how that is known.                                               *)
LEMMA HopClassIs ==
    ASSUME NEW ctx, NEW one, NEW other, one.class = other.class, NEW hop
    PROVE  Hop(ctx, one, hop).class = Hop(ctx, other, hop).class
BY DEF Hop, Landing, At

LEMMA SameClass ==
    ASSUME NEW ctx, Indexed(ctx), NEW one, Within(ctx, one), NEW other, other.class = one.class,
           NEW n \in Nat, NEW hops, DOMAIN hops = 1 .. n, \A i \in 1 .. n : hops[i].read \in BOOLEAN
    PROVE  Thread(ctx, one, hops).class = Thread(ctx, other, hops).class
<1>1. Within(ctx, other) /\ Within(ctx, one)
  BY DEF Within
<1>2. \A i \in 1 .. n : hops[i].read \in BOOLEAN
  OBVIOUS
<1>3. PICK v : Trace(ctx, one, n, hops, v)
  BY <1>1, <1>2, TraceIs
<1>4. PICK w : Trace(ctx, other, n, hops, w)
  BY <1>1, <1>2, TraceIs
<1> USE DEF Trace
<1> DEFINE W == {i \in 0 .. n : v[i].class # w[i].class}
<1>5. W = {}
  <2> SUFFICES ASSUME W # {} PROVE FALSE
    OBVIOUS
  <2>1. W \in SUBSET Nat
    OBVIOUS
  <2>2. PICK i \in W : \A k \in W : i <= k
    <3> HIDE DEF W
    <3> QED
      BY <2>1, MinIsLeast
  <2>3. i \in 1 .. n /\ i - 1 \in 0 .. n /\ i - 1 \notin W
    BY <1>3, <1>4, <2>2
  <2>4. v[i - 1].class = w[i - 1].class
    BY <2>3
  <2>5. v[i].class = w[i].class
    <3>1. Hop(ctx, v[i - 1], hops[i]).class = Hop(ctx, w[i - 1], hops[i]).class
      BY <2>4, HopClassIs
    <3> QED
      BY <1>3, <1>4, <2>3, <3>1
  <2> QED
    BY <2>2, <2>5
<1> QED
  BY <1>3, <1>4, <1>5

LEMMA HopsAre ==
    ASSUME NEW names, NEW k \in Nat, Len(names) = k, NEW reads \in Int
    PROVE  \E n \in Nat : /\ DOMAIN Hops(names, reads) = 1 .. n
                          /\ \A i \in 1 .. n : Hops(names, reads)[i].read \in BOOLEAN
<1> DEFINE n == IF k = 0 THEN 0 ELSE k - 1
<1>1. n \in Nat /\ 1 .. Len(names) - 1 = 1 .. n
  OBVIOUS
<1> HIDE DEF n
<1>2. DOMAIN Hops(names, reads) = 1 .. n
  BY <1>1 DEF Hops
<1>3. \A i \in 1 .. n : Hops(names, reads)[i].read = (i <= reads)
  BY <1>1 DEF Hops
<1>4. \A i \in 1 .. n : (i <= reads) \in BOOLEAN
  OBVIOUS
<1> QED
  BY <1>1, <1>2, <1>3, <1>4

LEMMA OneIs ==
    ASSUME NEW x
    PROVE  IsList(<<x>>) /\ ToSet(<<x>>) = {x}
BY DEF IsList, ToSet

-----------------------------------------------------------------------------
(* Edges.                                                                  *)
Vias == DOMAIN Confidence
Flows == {"stable", "flow", "may"}

(* The project has no top-level package of the name of one whose classes   *)
(* the tables of the standard library have.                                *)
StubsApart ==
    \A m \in Modules :
        Head(m) # "builtins" /\ \A class \in DOMAIN StubClasses : Head(m) # Head(class)

Away(T, q) == StubsApart => ~Internal(T, q)

(* A call or a reference that is certain goes to no name beyond a value.   *)
Spare(e) == e.via = "syntactic" /\ e.kind \in {"call", "reference"} => ~BeyondValue(e.dst)

(* An edge of a symbol, to a symbol, and to a name beyond the project.     *)
Formed(T, e) == e.src \in Ids(T) /\ e.via \in Vias /\ e.flow \in Flows
InTree(T, e) == Formed(T, e) /\ e.dst \in Ids(T)
Outside(T, e) == Formed(T, e) /\ Away(T, e.dst) /\ Spare(e)

LEMMA ViasAre ==
    Vias = {"syntactic", "callsite", "annotation", "inference", "stub", "heuristic"}
BY DEF Vias, Confidence

LEMMA EdgeIs ==
    ASSUME NEW T, NEW ref, ref.src \in Ids(T), NEW dst, NEW via \in Vias
    PROVE  /\ Formed(T, Edge(ref, dst, via)) /\ Edge(ref, dst, via).dst = dst
           /\ Edge(ref, dst, via).via = via /\ Edge(ref, dst, via).kind = ref.kind
           /\ \A flow \in Flows :
                 LET e == [Edge(ref, dst, via) EXCEPT !.flow = flow]
                 IN  Formed(T, e) /\ e.dst = dst /\ e.via = via
BY DEF Edge, Formed, Flows

LEMMA MemberEdgesAre ==
    ASSUME NEW ctx, Indexed(ctx), NEW ref, ref.src \in Ids(ctx.T),
           NEW reached, IsList(reached), \A i \in DOMAIN reached : Within(ctx, reached[i]),
           NEW name, NEW kinds, NEW flow \in Flows
    PROVE  LET edges == MemberEdges(ctx, ref, reached, name, kinds, flow)
           IN  IsList(edges) /\ \A e \in ToSet(edges) : InTree(ctx.T, e)
<1> DEFINE source(at) == IF at.inferred \/ flow = "may" THEN "inference" ELSE "annotation"
           to(i) == MemberLookup(ctx, reached[i].class, name, kinds)
           edges == [i \in DOMAIN reached |->
                        [Edge(ref, to(i), source(reached[i])) EXCEPT !.flow = flow]]
           I == {i \in DOMAIN edges : edges[i].dst # None}
           some == Picked(edges, I)
           J == {i \in DOMAIN some : \A j \in 1 .. i - 1 : some[j].dst # some[i].dst}
<1>1. MemberEdges(ctx, ref, reached, name, kinds, flow) = Picked(some, J)
  BY Zenon DEF MemberEdges, DistinctBy, Matching
<1>2. ASSUME NEW i \in DOMAIN reached
      PROVE  /\ Formed(ctx.T, edges[i]) /\ edges[i].dst = to(i)
             /\ to(i) \in Ids(ctx.T) \cup {None}
  <2>1. source(reached[i]) \in Vias
    BY ViasAre
  <2>2. to(i) \in Ids(ctx.T) \cup {None}
    BY LookupIs DEF Within
  <2>3. edges[i] = [Edge(ref, to(i), source(reached[i])) EXCEPT !.flow = flow]
    OBVIOUS
  <2> HIDE DEF edges, to, source
  <2> QED
    BY <2>1, <2>2, <2>3, EdgeIs
<1>3. DOMAIN edges = DOMAIN reached /\ edges = [i \in DOMAIN reached |-> edges[i]]
  OBVIOUS
<1> HIDE DEF edges
<1>4. IsList(edges)
  BY <1>3, MappedIs
<1>5. IsList(some) /\ ToSet(some) = {edges[i] : i \in DOMAIN edges \cap I}
  <2> HIDE DEF I
  <2> QED
    BY <1>4, PickedIs
<1>6. \A e \in ToSet(some) : InTree(ctx.T, e)
  <2> TAKE e \in ToSet(some)
  <2>1. PICK i \in DOMAIN edges \cap I : e = edges[i]
    BY <1>5
  <2>2. e.dst # None
    BY <1>3, <2>1
  <2> HIDE DEF I, some
  <2>3. i \in DOMAIN reached
    BY <1>3, <2>1
  <2>4. Formed(ctx.T, e) /\ e.dst \in Ids(ctx.T) \cup {None}
    BY <1>2, <2>1, <2>3
  <2> QED
    BY <2>2, <2>4 DEF InTree
<1> HIDE DEF some
<1>7. IsList(Picked(some, J)) /\ ToSet(Picked(some, J)) \subseteq ToSet(some)
  <2> HIDE DEF J
  <2> QED
    BY <1>5, PickedIs
<1> QED
  BY <1>1, <1>6, <1>7

-----------------------------------------------------------------------------
(* Binding.  What a name binds to is a symbol of the project, or lies      *)
(* outside of it.                                                          *)
Beyond(T, q) == ~Known(T, q) /\ ~Internal(T, q)

BoundAs(T, name, b) ==
    \/ b = None
    \/ b.external = FALSE /\ b.id \in Ids(T)
    \/ b.external = TRUE /\ (Beyond(T, b.id) \/ b.id = <<"builtins">> \o name)

LEMMA BindIs ==
    ASSUME NEW T, NEW m, NEW name
    PROVE  BoundAs(T, name, Bind(T, m, name))
<1> DEFINE q == FollowReexports(T, Target(T, m, name))
           b == Bind(T, m, name)
<1> HIDE DEF q
<1>1. \/ b = Classify(T, q) \/ b = None \/ b = Bound(<<"builtins">> \o name, TRUE)
  BY DEF Bind, BindTarget, q
<1>2. \/ Classify(T, q) = None
      \/ Classify(T, q) = Bound(q, FALSE) /\ Known(T, q)
      \/ Classify(T, q) = Bound(q, TRUE) /\ Beyond(T, q)
  BY DEF Classify, Beyond
<1>3. \A id, external : Bound(id, external).id = id /\ Bound(id, external).external = external
  BY DEF Bound
<1> HIDE DEF b
<1>4. CASE b = None
  BY <1>4 DEF b, BoundAs
<1>5. CASE b = Bound(q, FALSE) /\ Known(T, q)
  <2>1. b.external = FALSE /\ b.id \in Ids(T)
    BY <1>3, <1>5 DEF Known, Ids
  <2> QED
    BY <2>1, Zenon DEF b, BoundAs
<1>6. CASE b = Bound(q, TRUE) /\ Beyond(T, q)
  <2>1. b.external = TRUE /\ Beyond(T, b.id)
    BY <1>3, <1>6
  <2> QED
    BY <2>1, Zenon DEF b, BoundAs
<1>7. CASE b = Bound(<<"builtins">> \o name, TRUE)
  <2>1. b.external = TRUE /\ b.id = <<"builtins">> \o name
    BY <1>3, <1>7
  <2> QED
    BY <2>1, Zenon DEF b, BoundAs
<1> QED
  BY <1>1, <1>2, <1>4, <1>5, <1>6, <1>7

-----------------------------------------------------------------------------
(* A walk along a dotted name.                                             *)
Word == STRING \cup {"builtins"}
Words == Seq(Word)
StubMembers ==
    [kind : {"value", "func", "class", "submodule", "method", "property"}, type : Words]
Rungs == [space : {"module", "type", "opaque", "unknown", "absent"}, at : Words,
          last : StubMembers \cup {None}]
OffNamespace == {"type", "opaque", "absent"}

LEMMA ModuleMemberIs ==
    ASSUME NEW m, NEW name, ModuleMember(m, name) # None
    PROVE  HasModule(m) /\ ModuleMember(m, name) \in StubMembers
<1>1. HasModule(m) /\ ModuleMember(m, name) \in StubMember({"value", "func", "class", "submodule"})
  BY ChainsAssumption DEF ModuleMember, HasModule
<1> QED
  BY <1>1 DEF StubMember, StubMembers, QualName, Words, Word

LEMMA ClassMemberIs ==
    ASSUME NEW c \in Words, NEW name, Member(c, name) # None
    PROVE  Member(c, name) \in StubMembers /\ Member(c, name).kind # "submodule"
<1> DEFINE member == TypeMember(c, name)
<1>1. ASSUME member # None
      PROVE  member \in StubMembers /\ member.kind # "submodule"
  <2>1. member \in StubMember({"value", "method", "class", "property"})
    BY <1>1, ChainsAssumption DEF TypeMember
  <2> QED
    BY <2>1 DEF StubMember, StubMembers, QualName, Words, Word
<1> HIDE DEF member
<1>2. Member(c, name) = IF member # None /\ member.type = Self THEN [member EXCEPT !.type = c] ELSE member
  BY DEF Member, Received, member
<1> QED
  BY <1>1, <1>2 DEF StubMembers

LEMMA AdvanceIs ==
    ASSUME NEW member \in StubMembers, NEW path \in Words
    PROVE  /\ Advance(member, path) \in Rungs
           /\ member.kind # "submodule" => Advance(member, path).space \in OffNamespace
BY DEF Advance, Position, StubMembers, Rungs, OffNamespace

LEMMA RungIs ==
    ASSUME NEW pos \in Rungs, NEW name \in Word
    PROVE  /\ Rung(pos, name) \in Rungs
           /\ pos.space \in OffNamespace => Rung(pos, name).space \in OffNamespace
<1>1. pos.at \in Words /\ pos.last \in StubMembers \cup {None} /\ Append(pos.at, name) \in Words
  BY DEF Rungs, Words
<1>2. \A space \in {"module", "type", "opaque", "unknown", "absent"} : \A at \in Words :
          Position(space, at, pos.last) \in Rungs /\ Position(space, at, pos.last).space = space
  BY <1>1 DEF Position, Rungs
<1>3. CASE pos.space = "module" /\ HasModule(Append(pos.at, name))
  <2>1. Rung(pos, name) = Position("module", Append(pos.at, name), pos.last)
    BY <1>3 DEF Rung
  <2> QED
    BY <1>1, <1>2, <1>3, <2>1 DEF OffNamespace
<1>4. CASE pos.space = "module" /\ ~HasModule(Append(pos.at, name))
  <2> DEFINE member == ModuleMember(pos.at, name)
  <2>1. Rung(pos, name) = IF member = None THEN Position("unknown", pos.at, pos.last)
                          ELSE Advance(member, Append(pos.at, name))
    BY <1>4 DEF Rung, Pass
  <2>2. member # None => member \in StubMembers
    BY ModuleMemberIs
  <2> HIDE DEF member
  <2> QED
    BY <1>1, <1>2, <1>4, <2>1, <2>2, AdvanceIs DEF OffNamespace
<1>5. CASE pos.space = "type"
  <2> DEFINE member == Member(pos.at, name)
  <2>1. Rung(pos, name) = IF member = None THEN Position("absent", pos.at, pos.last)
                          ELSE Advance(member, pos.at)
    BY <1>5 DEF Rung, Pass
  <2>2. member # None => member \in StubMembers /\ member.kind # "submodule"
    BY <1>1, ClassMemberIs
  <2> HIDE DEF member
  <2> QED
    BY <1>1, <1>2, <2>1, <2>2, AdvanceIs DEF OffNamespace
<1>6. CASE pos.space = "opaque"
  <2>1. Rung(pos, name) = Position("absent", pos.at, pos.last)
    BY <1>6 DEF Rung
  <2> QED
    BY <1>1, <1>2, <2>1 DEF OffNamespace
<1>7. CASE pos.space \notin {"module", "type", "opaque"}
  <2>1. Rung(pos, name) = pos
    BY <1>7 DEF Rung
  <2> QED
    BY <2>1
<1> QED
  BY <1>3, <1>4, <1>5, <1>6, <1>7

WalkBody(base, seq, f) ==
    [P \in SUBSET DOMAIN seq |-> IF P = {} THEN base ELSE Rung(f[P \ {Max(P)}], seq[Max(P)])]

LEMMA WalkIs ==
    ASSUME NEW q \in Words, q # <<>>
    PROVE  \E w : /\ w[0] = Position("module", <<Head(q)>>, None)
                  /\ \A i \in 0 .. Len(q) - 1 : w[i] \in Rungs
                  /\ \A i \in 1 .. Len(q) - 1 : w[i] = Rung(w[i - 1], q[i + 1])
                  /\ Walk(q) = w[Len(q) - 1]
<1> DEFINE n == Len(q) - 1
           seq == Tail(q)
           base == Position("module", <<Head(q)>>, None)
           chosen == CHOOSE f : f = WalkBody(base, seq, f)
           C == SUBSET (1 .. n)
           op == [i \in 1 .. n |-> [a \in Rungs |-> Rung(a, seq[i])]]
<1>1. n \in Nat /\ DOMAIN seq = 1 .. n /\ \A i \in 1 .. n : seq[i] = q[i + 1] /\ seq[i] \in Word
  BY DEF Words
<1>2. base \in Rungs
  <2>1. <<Head(q)>> \in Words
    BY DEF Words
  <2> QED
    BY <2>1 DEF Position, Rungs
<1>3. Walk(q) = chosen[DOMAIN seq]
  BY Zenon DEF Walk, FoldLeft, MapThenFoldSet, WalkBody
<1> HIDE DEF n, seq, base
<1>4. ASSUME NEW i \in 1 .. n, NEW a \in Rungs
      PROVE  op[i][a] = Rung(a, seq[i]) /\ op[i][a] \in Rungs
  BY <1>1, RungIs
<1> HIDE DEF op
<1>5. Stays(n, Rungs, op)
  BY <1>4 DEF Stays
<1>6. \E f : f = WalkBody(base, seq, f)
  <2>1. PICK fold \in [SUBSET (1 .. n) -> Rungs] : Folds(n, base, op, fold)
    BY <1>1, <1>2, <1>5, FoldExists
  <2>2. ASSUME NEW P \in SUBSET (1 .. n), P # {}
        PROVE  op[Max(P)][fold[P \ {Max(P)}]] = Rung(fold[P \ {Max(P)}], seq[Max(P)])
    <3>1. Max(P) \in 1 .. n
      BY <1>1, <2>2, MaxIsGreatest
    <3>2. fold[P \ {Max(P)}] \in Rungs
      BY <2>1
    <3> QED
      BY <1>4, <3>1, <3>2
  <2>3. fold = WalkBody(base, seq, fold)
    BY <1>1, <2>1, <2>2 DEF Folds, WalkBody
  <2> QED
    BY <2>3
<1>7. chosen = WalkBody(base, seq, chosen)
  BY <1>6
<1> HIDE DEF chosen
<1>8. \A P \in C : chosen[P] = IF P = {} THEN base ELSE Rung(chosen[P \ {Max(P)}], seq[Max(P)])
  BY <1>1, <1>7 DEF WalkBody
<1>9. chosen[{}] = base
  BY <1>8
<1>10. Carries(n, Rungs, op, chosen)
  <2>1. ASSUME NEW P \in SUBSET (1 .. n), P # {}, chosen[P \ {Max(P)}] \in Rungs
        PROVE  chosen[P] = op[Max(P)][chosen[P \ {Max(P)}]]
    <3>1. Max(P) \in 1 .. n
      BY <1>1, <2>1, MaxIsGreatest
    <3> QED
      BY <1>4, <1>8, <2>1, <3>1
  <2> QED
    BY <2>1 DEF Carries
<1>11. /\ \A i \in 0 .. n : chosen[1 .. i] \in Rungs
       /\ \A i \in 1 .. n : chosen[1 .. i] = op[i][chosen[1 .. i - 1]]
  BY <1>1, <1>2, <1>5, <1>9, <1>10, FoldFollows
<1> DEFINE w == [i \in 0 .. n |-> chosen[1 .. i]]
<1>12. w[0] = base
  <2>1. 1 .. 0 = {}
    OBVIOUS
  <2> QED
    BY <1>1, <1>9, <2>1
<1>13. \A i \in 0 .. n : w[i] \in Rungs
  BY <1>11
<1>14. ASSUME NEW i \in 1 .. n PROVE w[i] = Rung(w[i - 1], q[i + 1])
  <2>1. i - 1 \in 0 .. n /\ i \in 0 .. n
    BY <1>1
  <2>2. w[i] = op[i][w[i - 1]] /\ w[i - 1] \in Rungs
    BY <1>11, <2>1
  <2> QED
    BY <1>1, <1>4, <2>2
<1>15. Walk(q) = w[n]
  BY <1>1, <1>3
<1> QED
  BY <1>12, <1>13, <1>14, <1>15 DEF n, base

(* The first words of a name, and what of a name lies beyond a value.      *)
LEMMA FirstWords ==
    ASSUME NEW q \in Words, NEW k \in 1 .. Len(q)
    PROVE  /\ SubSeq(q, 1, k) \in Words /\ Len(SubSeq(q, 1, k)) = k
           /\ \A i \in 1 .. k : SubSeq(q, 1, k)[i] = q[i]
           /\ \A i \in 1 .. k : SubSeq(SubSeq(q, 1, k), 1, i) = SubSeq(q, 1, i)
           /\ k < Len(q) => Append(SubSeq(q, 1, k), q[k + 1]) = SubSeq(q, 1, k + 1)
<1>1. SubSeq(q, 1, k) \in Words /\ Len(SubSeq(q, 1, k)) = k
  BY DEF Words
<1>2. \A i \in 1 .. k : SubSeq(q, 1, k)[i] = q[i]
  BY DEF Words
<1>3. \A i \in 1 .. k : SubSeq(SubSeq(q, 1, k), 1, i) = SubSeq(q, 1, i)
  BY <1>1, <1>2 DEF Words
<1>4. k < Len(q) => Append(SubSeq(q, 1, k), q[k + 1]) = SubSeq(q, 1, k + 1)
  BY <1>1, <1>2 DEF Words
<1> QED
  BY <1>1, <1>2, <1>3, <1>4

LEMMA KeepIs ==
    ASSUME NEW q \in Words, NEW isCall, BeyondValue(q)
    PROVE  ExternalChain(q, isCall).keep = FALSE
<1> DEFINE path(k) == SubSeq(q, 1, k)
           of(k) == ModuleMember(Front(path(k)), Last(path(k)))
           F == Front(q)
<1>1. PICK k \in 2 .. Len(q) - 1 :
          ~HasModule(path(k)) /\ of(k) # None /\ of(k).kind # "submodule"
  BY DEF BeyondValue
<1>2. Len(q) \in Nat /\ k \in Nat /\ 2 <= k /\ k <= Len(q) - 1
  BY <1>1 DEF Words
<1>3. Front(path(k)) = path(k - 1) /\ Last(path(k)) = q[k]
  BY <1>2, FirstWords DEF Front, Last
<1>4. HasModule(path(k - 1))
  BY <1>1, <1>3, ModuleMemberIs
<1>5. \A i \in 1 .. k - 1 : HasModule(path(i))
  <2>1. k - 1 \in 1 .. Len(q) /\ Len(path(k - 1)) = k - 1
    BY <1>2, FirstWords
  <2>2. \A i \in 1 .. k - 1 : SubSeq(path(k - 1), 1, i) \in DOMAIN StubModules
    BY <1>4, <2>1, ChainsAssumption DEF HasModule
  <2>3. \A i \in 1 .. k - 1 : SubSeq(path(k - 1), 1, i) = path(i)
    BY <2>1, FirstWords
  <2> HIDE DEF path
  <2> QED
    BY <2>2, <2>3 DEF HasModule
<1>6. /\ F \in Words /\ F # <<>> /\ Len(F) = Len(q) - 1 /\ <<Head(F)>> = path(1) /\ <<Head(q)>> = path(1)
      /\ \A i \in 1 .. Len(q) - 1 : F[i] = q[i]
  <2>1. Len(q) - 1 \in 1 .. Len(q) /\ 1 \in 1 .. Len(q) /\ 1 \in 1 .. Len(q) - 1
    BY <1>2
  <2>2. F \in Words /\ Len(F) = Len(q) - 1 /\ \A i \in 1 .. Len(q) - 1 : F[i] = q[i]
    BY <2>1, FirstWords DEF Front
  <2>3. Head(F) = q[1] /\ Head(q) = q[1] /\ F # <<>>
    BY <1>2, <2>1, <2>2 DEF Words
  <2>4. path(1) \in Words /\ Len(path(1)) = 1 /\ path(1)[1] = q[1]
    BY <2>1, FirstWords
  <2>5. path(1) = <<q[1]>>
    <3> HIDE DEF path
    <3> QED
      BY <2>4 DEF Words
  <2> QED
    BY <2>2, <2>3, <2>5
<1> HIDE DEF path, F
<1>7. PICK w : /\ w[0] = Position("module", <<Head(F)>>, None)
               /\ \A i \in 0 .. Len(F) - 1 : w[i] \in Rungs
               /\ \A i \in 1 .. Len(F) - 1 : w[i] = Rung(w[i - 1], F[i + 1])
               /\ Walk(F) = w[Len(F) - 1]
  BY <1>6, WalkIs
<1> DEFINE n == Len(q) - 2
<1>8. n \in Nat /\ k - 1 \in 1 .. n /\ Len(F) - 1 = n
  BY <1>2, <1>6
<1>9. \A i \in 1 .. n : w[i] = Rung(w[i - 1], q[i + 1]) /\ w[i - 1] \in Rungs /\ q[i + 1] \in Word
  <2> TAKE i \in 1 .. n
  <2>1. i + 1 \in 1 .. Len(q) - 1 /\ i - 1 \in 0 .. n /\ i + 1 \in 1 .. Len(q)
    BY <1>8
  <2>2. q[i + 1] \in Word
    BY <2>1 DEF Words
  <2> QED
    BY <1>6, <1>7, <1>8, <2>1, <2>2
<1> HIDE DEF n
<1> DEFINE In(i) == w[i].space = "module" /\ w[i].at = path(i + 1)
           Off(i) == w[i].space \in OffNamespace
<1>10. In(0)
  BY <1>6, <1>7 DEF Position
<1>11. ASSUME NEW i \in 1 .. k - 2, In(i - 1) PROVE In(i)
  <2>1. Append(path(i), q[i + 1]) = path(i + 1) /\ HasModule(path(i + 1)) /\ i \in 1 .. n
    <3>1. i \in 1 .. Len(q) /\ i < Len(q) /\ i + 1 \in 1 .. k - 1 /\ i \in 1 .. n
      BY <1>2, <1>8
    <3> QED
      BY <1>5, <3>1, FirstWords DEF path
  <2>2. w[i - 1].space = "module" /\ w[i - 1].at = path(i)
    BY <1>11
  <2>3. Rung(w[i - 1], q[i + 1]) = Position("module", path(i + 1), w[i - 1].last)
    BY <2>1, <2>2 DEF Rung
  <2> QED
    BY <1>9, <2>1, <2>3 DEF Position
<1>12. In(k - 2)
  <2> DEFINE W == {j \in 0 .. k - 2 : ~In(j)}
  <2> HIDE DEF In
  <2>1. ASSUME ~In(k - 2) PROVE FALSE
    <3>1. W \in SUBSET Nat /\ k - 2 \in W
      BY <1>2, <2>1
    <3>2. PICK j \in W : \A i \in W : j <= i
      <4> HIDE DEF W
      <4> QED
        BY <3>1, MinIsLeast
    <3>3. j # 0
      BY <1>10, <3>2
    <3>4. j \in 1 .. k - 2 /\ j - 1 \in 0 .. k - 2 /\ j - 1 \notin W
      BY <1>2, <3>2, <3>3
    <3> QED
      BY <1>11, <3>2, <3>4
  <2> QED
    BY <2>1
<1>13. Off(k - 1)
  <2>1. k - 1 \in 1 .. Len(q) /\ k - 1 < Len(q) /\ k - 1 \in 1 .. n /\ (k - 1) + 1 = k /\ (k - 1) - 1 = k - 2
        /\ (k - 2) + 1 = k - 1
    BY <1>2, <1>8
  <2>2. Append(path(k - 1), q[k]) = path(k)
    BY <2>1, FirstWords DEF path
  <2>3. w[k - 1] = Rung(w[k - 2], q[k]) /\ q[k] \in Word /\ w[k - 2] \in Rungs
    BY <1>9, <2>1
  <2>4. w[k - 2].space = "module" /\ w[k - 2].at = path(k - 1)
    BY <1>12, <2>1
  <2>5. of(k) = ModuleMember(path(k - 1), q[k])
    BY <1>3
  <2>6. Rung(w[k - 2], q[k]) = Advance(of(k), path(k))
    BY <1>1, <2>2, <2>4, <2>5 DEF Rung, Pass
  <2>7. of(k) \in StubMembers /\ path(k) \in Words
    <3>1. k \in 1 .. Len(q)
      BY <1>2
    <3> QED
      BY <1>1, <3>1, ModuleMemberIs, FirstWords DEF path
  <2> HIDE DEF of
  <2> QED
    BY <1>1, <2>3, <2>6, <2>7, AdvanceIs
<1>14. ASSUME NEW i \in k .. n, Off(i - 1) PROVE Off(i)
  <2>1. i \in 1 .. n
    BY <1>2, <1>14
  <2> QED
    BY <1>9, <1>14, <2>1, RungIs
<1>15. Off(n)
  <2> DEFINE W == {j \in k - 1 .. n : ~Off(j)}
  <2> HIDE DEF Off
  <2>1. ASSUME ~Off(n) PROVE FALSE
    <3>1. W \in SUBSET Nat /\ n \in W
      BY <1>2, <1>8, <2>1
    <3>2. PICK j \in W : \A i \in W : j <= i
      <4> HIDE DEF W
      <4> QED
        BY <3>1, MinIsLeast
    <3>3. j # k - 1
      BY <1>13, <3>2
    <3>4. j \in k .. n /\ j - 1 \in k - 1 .. n /\ j - 1 \notin W
      BY <1>2, <1>8, <3>2, <3>3
    <3> QED
      BY <1>14, <3>2, <3>4
  <2> QED
    BY <2>1
<1>16. ExternalChain(q, isCall) = LastRung(Walk(F), Last(q), isCall)
  <2>1. Len(q) # 1 /\ HasModule(<<Head(q)>>)
    BY <1>2, <1>5, <1>6
  <2> QED
    BY <2>1 DEF ExternalChain, F
<1>17. Walk(F).space \in OffNamespace
  BY <1>7, <1>8, <1>15
<1>18. LastRung(Walk(F), Last(q), isCall) \in {Decline, Downgrade(Append(Walk(F).at, Last(q)))}
  BY <1>17 DEF LastRung, OffNamespace
<1> QED
  BY <1>16, <1>18 DEF Decline, Downgrade

-----------------------------------------------------------------------------
(* What a name binds to is a dotted name.                                  *)
(* The names that the files of a project import.                           *)
ImportedNames(fs) == UNION {{i[2] : i \in ToSet(fs[m].imports)} : m \in DOMAIN fs}

LEMMA ImportsFinite ==
    ASSUME NEW fs, IsProject(fs)
    PROVE  IsFiniteSet(ImportedNames(fs)) /\ ImportedNames(fs) \subseteq Name
<1> DEFINE names(m) == {i[2] : i \in ToSet(fs[m].imports)}
           parts == {names(m) : m \in DOMAIN fs}
<1>1. DOMAIN fs \subseteq Modules /\ \A m \in DOMAIN fs : Extracted(m, fs[m])
  BY MenuAssumption DEF IsProject
<1>2. IsFiniteSet(DOMAIN fs)
  <2>1. IsFiniteSet(Modules)
    BY ListFinite, MenuAssumption DEF Modules
  <2> QED
    BY <1>1, <2>1, FS_Subset
<1>3. ASSUME NEW m \in DOMAIN fs PROVE IsFiniteSet(names(m)) /\ names(m) \subseteq Name
  <2> DEFINE I == ToSet(fs[m].imports)
             f == [i \in I |-> i[2]]
  <2>1. IsFiniteSet(I) /\ \A i \in I : i[2] \in Name
    BY <1>1, ListFinite DEF Extracted
  <2>2. f = [i \in I |-> f[i]] /\ names(m) = {f[i] : i \in I}
    OBVIOUS
  <2> HIDE DEF f, I
  <2>3. IsFiniteSet({f[i] : i \in I})
    BY <2>1, <2>2, FiniteImage
  <2> QED
    BY <2>1, <2>2, <2>3 DEF I
<1>4. IsFiniteSet(parts)
  <2> DEFINE f == [m \in DOMAIN fs |-> names(m)]
  <2>1. f = [m \in DOMAIN fs |-> f[m]] /\ parts = {f[m] : m \in DOMAIN fs}
    OBVIOUS
  <2> HIDE DEF f, parts
  <2> QED
    BY <1>2, <2>1, FiniteImage
<1>5. \A part \in parts : IsFiniteSet(part) /\ part \subseteq Name
  BY <1>3
<1>6. ImportedNames(fs) = UNION parts
  BY DEF ImportedNames
<1> HIDE DEF parts
<1> QED
  BY <1>4, <1>5, <1>6, FS_UNION

LEMMA ImportedIs ==
    ASSUME NEW fs, IsProject(fs), NEW m, NEW alias
    PROVE  Imported(fs, m, alias) \in ImportedNames(fs) \cup {None}
<1> DEFINE targets == [i \in DOMAIN fs[m].imports |->
                          IF fs[m].imports[i][1] = alias THEN fs[m].imports[i][2] ELSE None]
           I == {i \in DOMAIN targets : targets[i] # None}
<1>1. Imported(fs, m, alias) =
          IF m \notin DOMAIN fs THEN None ELSE Head(Append(Picked(targets, I), None))
  BY Zenon DEF Imported, FirstMatch, Matching
<1>2. CASE m \in DOMAIN fs
  <2>1. IsList(fs[m].imports)
    BY <1>2, MenuAssumption DEF IsProject, Extracted
  <2>2. targets = [i \in DOMAIN fs[m].imports |-> targets[i]]
    OBVIOUS
  <2>3. \A i \in DOMAIN fs[m].imports : targets[i] \in ImportedNames(fs) \cup {None}
    <3> TAKE i \in DOMAIN fs[m].imports
    <3>1. fs[m].imports[i] \in ToSet(fs[m].imports)
      BY DEF ToSet
    <3>2. fs[m].imports[i][2] \in ImportedNames(fs)
      BY <1>2, <3>1 DEF ImportedNames
    <3> QED
      BY <3>2
  <2> HIDE DEF targets, I
  <2>4. IsList(targets) /\ ToSet(targets) = {targets[i] : i \in DOMAIN fs[m].imports}
    BY <2>1, <2>2, MappedIs
  <2>5. Head(Append(Picked(targets, I), None)) \in ToSet(targets) \cup {None}
    BY <2>4, FirstIs
  <2> QED
    BY <1>1, <1>2, <2>3, <2>4, <2>5
<1> QED
  BY <1>1, <1>2

ReexportBody(T, walk) ==
    [path \in Seq(Name) |->
        IF Known(T, Last(path)) \/ Last(path) \in ToSet(Front(path)) \/ Reexport(T, Last(path)) = None
        THEN Last(path) ELSE walk[Append(path, Reexport(T, Last(path)))]]

(* The walk along re-exports ends: it comes to no name twice but to stop.  *)
LEMMA ReexportsEnd ==
    ASSUME NEW fs, IsProject(fs), NEW target \in Name, target # None
    PROVE  FollowReexports(Tables(fs), target) \in Name
<1> DEFINE T == Tables(fs)
           C == Seq(Name)
           U == ImportedNames(fs)
           to(path) == Reexport(T, Last(path))
           stops(path) == Known(T, Last(path)) \/ Last(path) \in ToSet(Front(path)) \/ to(path) = None
           below == [path \in C |-> IF stops(path) THEN {} ELSE {Append(path, to(path))}]
           chosen == CHOOSE walk : walk = ReexportBody(T, walk)
<1>1. FollowReexports(T, target) = IF target = None THEN None ELSE chosen[<<target>>]
  <2> DEFINE walk == CHOOSE f : f = [path \in Seq(Name) |->
                  LET at == Last(path)
                      next == Reexport(T, at)
                  IN  IF Known(T, at) \/ at \in ToSet(Front(path)) \/ next = None
                      THEN at ELSE f[Append(path, next)]]
  <2>1. walk = chosen
    BY Zenon DEF ReexportBody
  <2>2. FollowReexports(T, target) = IF target = None THEN None ELSE walk[<<target>>]
    BY Zenon DEF FollowReexports
  <2> HIDE DEF walk, chosen
  <2> QED
    BY <2>1, <2>2
<1>2. IsFiniteSet(U) /\ U \subseteq Name /\ \A path : to(path) \in U \cup {None}
  <2>1. T.fs = fs
    BY TablesAre
  <2> HIDE DEF U, T
  <2>2. \A path : to(path) \in U \cup {None}
    BY <2>1, ImportedIs DEF Reexport, U
  <2> QED
    BY <2>2, ImportsFinite DEF U
<1> HIDE DEF T, to
<1>3. ASSUME NEW path \in C, ~stops(path)
      PROVE  /\ to(path) \in U /\ to(path) \in Name /\ Append(path, to(path)) \in C
             /\ Last(Append(path, to(path))) = to(path)
             /\ Front(Append(path, to(path))) = path
             /\ ToSet(Append(path, to(path))) = ToSet(path) \cup {to(path)}
  <2>1. to(path) \in U /\ to(path) \in Name
    BY <1>2, <1>3
  <2> HIDE DEF U
  <2>2. ASSUME NEW x \in Name
        PROVE  /\ Append(path, x) \in C /\ Last(Append(path, x)) = x /\ Front(Append(path, x)) = path
               /\ ToSet(Append(path, x)) = ToSet(path) \cup {x}
    <3>1. Append(path, x) \in C /\ Len(Append(path, x)) = Len(path) + 1 /\ Len(path) \in Nat
      OBVIOUS
    <3>2. Append(path, x)[Len(path) + 1] = x /\ \A i \in 1 .. Len(path) : Append(path, x)[i] = path[i]
      OBVIOUS
    <3>3. Front(Append(path, x)) = path
      BY <3>1, <3>2 DEF Front
    <3>4. ToSet(Append(path, x)) = ToSet(path) \cup {x}
      BY <3>1, <3>2 DEF ToSet
    <3> QED
      BY <3>1, <3>2, <3>3, <3>4 DEF Last
  <2> QED
    BY <2>1, <2>2
<1> DEFINE left(path) == IF stops(path) THEN 0 ELSE 1 + Cardinality(U \ ToSet(path))
<1> HIDE DEF U
<1>4. \A path : IsFiniteSet(U \ ToSet(path)) /\ Cardinality(U \ ToSet(path)) \in Nat
  BY <1>2, FS_Subset, FS_CardinalityType
<1>5. ASSUME NEW path \in C, ~stops(path)
      PROVE  left(Append(path, to(path))) < left(path)
  <2> DEFINE r == Append(path, to(path))
  <2>1. CASE stops(r)
    <3>1. left(r) = 0
      BY <2>1
    <3>2. left(path) = 1 + Cardinality(U \ ToSet(path))
      BY <1>5
    <3> DEFINE c == Cardinality(U \ ToSet(path))
    <3>3. c \in Nat /\ left(path) = 1 + c
      BY <1>4, <3>2
    <3> HIDE DEF c
    <3>4. left(r) < left(path)
      <4> HIDE DEF left, r
      <4> QED
        BY <3>1, <3>3
    <3> QED
      BY <3>4
  <2>2. CASE ~stops(r)
    <3>1. to(path) \in U /\ ToSet(r) = ToSet(path) \cup {to(path)} /\ to(path) \notin ToSet(path)
      BY <1>3, <1>5, <2>2
    <3> DEFINE A == U \ ToSet(path)
               B == U \ ToSet(r)
    <3>2. B \in SUBSET A /\ A # B
      BY <3>1
    <3>3. IsFiniteSet(A) /\ Cardinality(A) \in Nat /\ Cardinality(B) \in Nat
      BY <1>4
    <3> HIDE DEF A, B
    <3>4. Cardinality(B) <= Cardinality(A) /\ Cardinality(A) # Cardinality(B)
      BY <3>2, <3>3, FS_Subset
    <3>5. Cardinality(B) < Cardinality(A)
      BY <3>3, <3>4
    <3>6. left(path) = 1 + Cardinality(A) /\ left(r) = 1 + Cardinality(B)
      BY <1>5, <2>2 DEF A, B
    <3> HIDE DEF left, r
    <3> QED
      BY <3>3, <3>5, <3>6 DEF r
  <2> QED
    BY <2>1, <2>2
<1>6. \A path : left(path) \in Nat
  BY <1>4
<1>7. below \in [C -> SUBSET C]
  BY <1>3
<1> HIDE DEF left
<1>8. Founded(C, below)
  <2> SUFFICES ASSUME NEW W \in SUBSET C, W # {} PROVE \E path \in W : below[path] \cap W = {}
    BY DEF Founded
  <2> DEFINE I == {left(path) : path \in W}
  <2>1. I \in SUBSET Nat /\ I # {}
    <3>1. I \in SUBSET Nat
      <4> SUFFICES ASSUME NEW k \in I PROVE k \in Nat
        OBVIOUS
      <4>1. PICK path \in W : k = left(path)
        OBVIOUS
      <4> QED
        BY <1>6, <4>1
    <3>2. PICK path : path \in W
      OBVIOUS
    <3>3. left(path) \in I
      BY <3>2
    <3> QED
      BY <3>1, <3>3
  <2>2. PICK c \in I : \A k \in I : c <= k
    <3> HIDE DEF I
    <3> QED
      BY <2>1, MinIsLeast
  <2>3. PICK path \in W : c = left(path)
    OBVIOUS
  <2>4. ASSUME NEW r \in below[path] \cap W PROVE FALSE
    <3>1. path \in C /\ ~stops(path) /\ r = Append(path, to(path))
      BY <2>4
    <3>2. left(r) < left(path)
      BY <1>5, <3>1
    <3>3. c <= left(r)
      <4>1. left(r) \in I
        BY <2>4
      <4> HIDE DEF I
      <4> QED
        BY <2>2, <4>1
    <3> QED
      BY <1>6, <2>3, <3>2, <3>3
  <2> QED
    BY <2>4
<1> DEFINE S == Name \cup {Last(<<>>)}
           step == [path \in C |-> [h \in [below[path] -> S] |->
                       IF stops(path) THEN Last(path) ELSE h[Append(path, to(path))]]]
<1>9. ASSUME NEW path \in C, path # <<>> PROVE Last(path) \in Name
  BY <1>9 DEF Last
<1>10. Passes(C, below, S, step)
  <2> SUFFICES ASSUME NEW path \in C, NEW h \in [below[path] -> S] PROVE step[path][h] \in S
    BY DEF Passes
  <2>1. step[path][h] = IF stops(path) THEN Last(path) ELSE h[Append(path, to(path))]
    OBVIOUS
  <2>2. Last(path) \in S
    BY <1>9
  <2>3. ~stops(path) => Append(path, to(path)) \in below[path]
    OBVIOUS
  <2> HIDE DEF step, stops, below, S
  <2> QED
    BY <2>1, <2>2, <2>3
<1>11. \E walk : walk = ReexportBody(T, walk)
  <2>1. PICK f \in [C -> S] : Follows(C, below, step, f)
    <3> HIDE DEF C, S, step, below
    <3> QED
      BY <1>7, <1>8, <1>10, Recursion
  <2>2. ASSUME NEW path \in C
        PROVE  f[path] = IF stops(path) THEN Last(path) ELSE f[Append(path, to(path))]
    <3> DEFINE h == [b \in below[path] |-> f[b]]
    <3>1. below[path] \subseteq C
      BY <1>7
    <3>2. h \in [below[path] -> S] /\ f[path] = step[path][h]
      BY <2>1, <3>1 DEF Follows
    <3>3. step[path][h] = IF stops(path) THEN Last(path) ELSE h[Append(path, to(path))]
      BY <3>2
    <3>4. ~stops(path) => Append(path, to(path)) \in below[path]
      OBVIOUS
    <3>5. ~stops(path) => h[Append(path, to(path))] = f[Append(path, to(path))]
      BY <3>4
    <3> HIDE DEF h, step, stops
    <3> QED
      BY <3>2, <3>3, <3>5
  <2>3. f = [path \in C |-> IF stops(path) THEN Last(path) ELSE f[Append(path, to(path))]]
    <3> HIDE DEF stops, to
    <3> QED
      BY <2>1, <2>2
  <2>4. f = ReexportBody(T, f)
    BY <2>3, Zenon DEF ReexportBody, to
  <2> QED
    BY <2>4
<1>12. chosen = ReexportBody(T, chosen)
  BY <1>11
<1> HIDE DEF chosen
<1>13. ASSUME NEW path \in C
       PROVE  chosen[path] = IF stops(path) THEN Last(path) ELSE chosen[Append(path, to(path))]
  BY <1>12 DEF ReexportBody, to
<1>14. ASSUME NEW path \in C, path # <<>> PROVE chosen[path] \in Name
  <2> DEFINE W == {p \in C : p # <<>> /\ chosen[p] \notin Name}
  <2> SUFFICES ASSUME W # {} PROVE FALSE
    BY <1>14
  <2>1. PICK p \in W : below[p] \cap W = {}
    <3>1. W \in SUBSET C
      OBVIOUS
    <3> HIDE DEF W, below
    <3> QED
      BY <1>8, <3>1 DEF Founded
  <2>2. p \in C /\ p # <<>> /\ chosen[p] \notin Name
    BY <2>1
  <2>3. ~stops(p)
    <3> HIDE DEF stops
    <3> QED
      BY <1>9, <1>13, <2>2
  <2> DEFINE r == Append(p, to(p))
  <2>4. r \in C /\ r \in below[p] /\ ToSet(r) = ToSet(p) \cup {to(p)}
    BY <1>3, <2>2, <2>3
  <2>5. r # <<>>
    <3>1. ToSet(<<>>) = {}
      BY DEF ToSet
    <3> HIDE DEF r
    <3> QED
      BY <2>4, <3>1
  <2>6. chosen[p] = chosen[r]
    <3> HIDE DEF stops
    <3> QED
      BY <1>13, <2>2, <2>3
  <2> HIDE DEF r, below
  <2> QED
    BY <2>1, <2>2, <2>4, <2>5, <2>6
<1>15. <<target>> \in C /\ <<target>> # <<>>
  OBVIOUS
<1>16. chosen[<<target>>] \in Name
  <2> HIDE DEF C
  <2> QED
    BY <1>14, <1>15
<1> QED
  BY <1>1, <1>16 DEF T

LEMMA ScopeIs ==
    ASSUME NEW fs, IsProject(fs), NEW m \in DOMAIN fs, NEW root
    PROVE  Scope(Tables(fs), m, root) \in Name \cup {None}
<1> DEFINE symbols == fs[m].symbols
           own == [i \in DOMAIN symbols |->
                      IF symbols[i].parent = m /\ symbols[i].name = root THEN symbols[i].id ELSE None]
           last == Imported(fs, m, root)
           all == Append(own, last)
           I == {i \in DOMAIN all : all[i] # None}
           first == Head(Append(Picked(all, I), None))
           T == Tables(fs)
<1>1. T.fs = fs /\ Extracted(m, fs[m])
  BY TablesAre
<1>2. Scope(T, m, root) = first
  <2> HIDE DEF T
  <2>1. Scope(T, m, root) =
            LET list == [i \in DOMAIN T.fs[m].symbols |->
                   LET s == T.fs[m].symbols[i]
                   IN  IF s.parent = m /\ s.name = root THEN s.id ELSE None]
            IN  FirstMatch(Append(list, Imported(T.fs, m, root)), LAMBDA q : q # None)
    BY Zenon DEF Scope
  <2> QED
    BY <1>1, <2>1, Zenon DEF FirstMatch, Matching
<1>3. own = [i \in DOMAIN symbols |-> own[i]] /\ IsList(symbols)
  BY <1>1 DEF Extracted
<1>4. \A i \in DOMAIN symbols : own[i] \in Name \cup {None}
  BY <1>1 DEF Extracted, ToSet
<1> HIDE DEF own, symbols
<1>5. IsList(own) /\ ToSet(own) = {own[i] : i \in DOMAIN symbols}
  BY <1>3, MappedIs
<1>6. last \in Name \cup {None}
  BY ImportedIs, ImportsFinite
<1> HIDE DEF last
<1>7. IsList(all) /\ ToSet(all) \subseteq Name \cup {None}
  <2> DEFINE S == Name \cup {None}
  <2>1. ToSet(own) \subseteq S
    BY <1>4, <1>5
  <2> HIDE DEF S
  <2>2. own \in Seq(S) /\ last \in S
    BY <1>5, <1>6, <2>1 DEF IsList, S
  <2>3. all \in Seq(S)
    BY <2>2
  <2> HIDE DEF all
  <2>4. ToSet(all) \subseteq S /\ Len(all) \in Nat /\ DOMAIN all = 1 .. Len(all)
        /\ all = [i \in 1 .. Len(all) |-> all[i]]
    BY <2>3 DEF ToSet
  <2>5. IsList(all)
    BY <2>4, ListIs
  <2> QED
    BY <2>4, <2>5 DEF S
<1> HIDE DEF all, I
<1>8. first \in ToSet(all) \cup {None}
  BY <1>7, FirstIs
<1> HIDE DEF first, T
<1> QED
  BY <1>2, <1>7, <1>8 DEF T

LEMMA TargetIs ==
    ASSUME NEW fs, IsProject(fs), NEW m \in DOMAIN fs, NEW name \in Name
    PROVE  Target(Tables(fs), m, name) \in Name \cup {None}
<1> DEFINE base == Scope(Tables(fs), m, <<Head(name)>>)
<1>1. base \in Name \cup {None}
  BY ScopeIs
<1>2. Target(Tables(fs), m, name) = IF base = None THEN None ELSE base \o Tail(name)
  BY DEF Target, Extended
<1> HIDE DEF base
<1>3. \A q \in Name : q \o Tail(name) \in Name
  BY DEF Name, QualName
<1> QED
  BY <1>1, <1>2, <1>3

LEMMA BindWords ==
    ASSUME NEW fs, IsProject(fs), NEW m \in DOMAIN fs, NEW name \in Name,
           Bind(Tables(fs), m, name) # None
    PROVE  Bind(Tables(fs), m, name).id \in Words
<1> DEFINE T == Tables(fs)
           target == Target(T, m, name)
           q == FollowReexports(T, target)
           b == Bind(T, m, name)
<1>1. target \in Name \cup {None}
  BY TargetIs
<1>2. target # None => q \in Name
  <2> HIDE DEF target
  <2> QED
    BY <1>1, ReexportsEnd
<1>3. b = IF target # None THEN Classify(T, q)
          ELSE IF <<Head(name)>> \in Builtins THEN Bound(<<"builtins">> \o name, TRUE) ELSE None
  BY DEF Bind, BindTarget
<1>4. Classify(T, q) = None \/ Classify(T, q).id = q
  BY DEF Classify, Bound
<1>5. Bound(<<"builtins">> \o name, TRUE).id = <<"builtins">> \o name
  BY DEF Bound
<1> HIDE DEF target, q, T
<1>6. b # None => b.id \in Name \cup {<<"builtins">> \o name}
  <2> HIDE DEF b
  <2> QED
    BY <1>2, <1>3, <1>4, <1>5
<1>7. <<"builtins">> \o name \in Words
  <2>1. name \in Words
    BY DEF Name, QualName, Words, Word
  <2>2. <<"builtins">> \in Words
    BY DEF Words, Word
  <2> QED
    BY <2>1, <2>2 DEF Words
<1>8. Name \subseteq Words
  BY DEF Name, QualName, Words, Word
<1> QED
  BY <1>6, <1>7, <1>8 DEF T

LEMMA SelfClassIs ==
    ASSUME NEW T, NEW src
    PROVE  SelfClass(T, src) \in Ids(T) \cup {None}
BY DEF SelfClass, KindOf, Known, Ids

LEMMA ClassesAre ==
    ASSUME NEW ctx, Indexed(ctx), NEW m, NEW ref, NEW types, IsList(types)
    PROVE  LET classes == ReceiverClasses(ctx, m, ref, types)
           IN  IsList(classes) /\ \A i \in DOMAIN classes : Within(ctx, classes[i])
<1> DEFINE self == <<At(SelfClass(ctx.T, ref.src), TRUE, FALSE)>>
           arm(i) == ArmOf(ctx, ref, ResolveTypeName(ctx.T, m, types[i]), Bind(ctx.T, m, types[i]))
           each == [i \in DOMAIN types |-> arm(i)]
           arms == IF Head(ref.name) = "self" THEN self ELSE each
           I == {i \in DOMAIN arms : arms[i].class # None}
           some == Picked(arms, I)
           J == {i \in DOMAIN some : \A j \in 1 .. i - 1 : some[j].class # some[i].class}
<1>1. ReceiverClasses(ctx, m, ref, types) = Picked(some, J)
  BY Zenon DEF ReceiverClasses, DistinctBy, Matching
<1>2. IsList(self) /\ \A a \in ToSet(self) : Within(ctx, a)
  <2>1. IsList(self) /\ ToSet(self) = {At(SelfClass(ctx.T, ref.src), TRUE, FALSE)}
    BY OneIs
  <2>2. Within(ctx, At(SelfClass(ctx.T, ref.src), TRUE, FALSE))
    BY SelfClassIs DEF Within, At
  <2> HIDE DEF self
  <2> QED
    BY <2>1, <2>2
<1>3. ASSUME NEW class \in Ids(ctx.T) \cup {None}, NEW t
      PROVE  Within(ctx, ArmOf(ctx, ref, class, Bind(ctx.T, m, t)))
  <2> DEFINE b == Bind(ctx.T, m, t)
             made == IF b = None \/ b.external THEN None ELSE b.id
             at == At(None, ref.inferred, FALSE)
  <2>1. made \in Ids(ctx.T) \cup {None}
    <3>1. b = None \/ (b.external = FALSE /\ b.id \in Ids(ctx.T)) \/ b.external = TRUE
      BY BindIs DEF BoundAs
    <3> HIDE DEF b
    <3> QED
      BY <3>1
  <2>2. ArmOf(ctx, ref, class, b) =
            IF class # None THEN At(class, ref.inferred, FALSE) ELSE Landing(ctx, at, made, FALSE)
    BY DEF ArmOf
  <2> HIDE DEF b, made, at
  <2>3. Within(ctx, Landing(ctx, at, made, FALSE))
    BY <2>1, LandingIs
  <2>4. Within(ctx, At(class, ref.inferred, FALSE))
    BY DEF Within, At
  <2> QED
    BY <2>2, <2>3, <2>4 DEF b
<1>4. IsList(each) /\ \A a \in ToSet(each) : Within(ctx, a)
  <2>1. \A i \in DOMAIN types : each[i] = arm(i) /\ Within(ctx, arm(i))
    BY <1>3, TypeNameIs
  <2>2. each = [i \in DOMAIN types |-> each[i]]
    OBVIOUS
  <2> HIDE DEF each, arm
  <2>3. IsList(each) /\ ToSet(each) = {each[i] : i \in DOMAIN types}
    BY <2>2, MappedIs
  <2> QED
    BY <2>1, <2>3
<1>5. IsList(arms) /\ \A a \in ToSet(arms) : Within(ctx, a)
  <2> HIDE DEF self, each
  <2> QED
    BY <1>2, <1>4
<1> HIDE DEF arms
<1>6. IsList(some) /\ ToSet(some) \subseteq ToSet(arms)
  <2> HIDE DEF I
  <2> QED
    BY <1>5, PickedIs
<1> HIDE DEF some
<1>7. IsList(Picked(some, J)) /\ ToSet(Picked(some, J)) \subseteq ToSet(some)
  <2> HIDE DEF J
  <2> QED
    BY <1>6, PickedIs
<1>8. \A i \in DOMAIN Picked(some, J) : Picked(some, J)[i] \in ToSet(Picked(some, J))
  BY DEF ToSet
<1> QED
  BY <1>1, <1>5, <1>6, <1>7, <1>8

-----------------------------------------------------------------------------
(* The value pass.                                                         *)
Written(T, ref) ==
    /\ ref.src \in Ids(T) /\ ref.name \in Name /\ ref.chain \in QualName
    /\ IsList(ref.types) /\ IsList(ref.may) /\ IsList(ref.args)

Possible(T, e) == InTree(T, e) \/ (Outside(T, e) /\ e.via = "stub")

LEMMA HeuristicsAre ==
    ASSUME NEW ctx, Indexed(ctx), NEW ref, ref.src \in Ids(ctx.T), NEW name
    PROVE  LET edges == HeuristicEdges(ctx, ref, name)
           IN  IsList(edges) /\ \A e \in ToSet(edges) : InTree(ctx.T, e)
<1> DEFINE isCandidate(s) ==
               /\ s.name = name
               /\ IF IsRead(ref) THEN s.kind \in Readable /\ KindOf(ctx.T, s.parent) = "class"
                                 ELSE s.kind = "method"
           I == {i \in DOMAIN ctx.symbols : isCandidate(ctx.symbols[i])}
           found == Picked(ctx.symbols, I)
           edges == [i \in DOMAIN found |-> Edge(ref, found[i].id, "heuristic")]
<1>1. HeuristicEdges(ctx, ref, name) = IF Len(found) > HeuristicCap THEN <<>> ELSE edges
  BY Zenon DEF HeuristicEdges, EdgesUnlessMany, Candidates, Matching
<1>2. IsList(found) /\ ToSet(found) \subseteq ToSet(ctx.symbols)
  <2> HIDE DEF I
  <2> QED
    BY PickedIs DEF Indexed
<1> HIDE DEF found
<1>3. edges = [i \in DOMAIN found |-> edges[i]]
  OBVIOUS
<1>4. ASSUME NEW i \in DOMAIN found PROVE InTree(ctx.T, edges[i])
  <2>1. found[i].id \in Ids(ctx.T)
    BY <1>2 DEF ToSet, Indexed
  <2>2. edges[i] = Edge(ref, found[i].id, "heuristic")
    OBVIOUS
  <2> HIDE DEF edges
  <2> QED
    BY <2>1, <2>2, EdgeIs, ViasAre DEF InTree
<1> HIDE DEF edges
<1>5. IsList(edges) /\ ToSet(edges) = {edges[i] : i \in DOMAIN found}
  BY <1>2, <1>3, MappedIs
<1>6. \A e \in ToSet(edges) : InTree(ctx.T, e)
  BY <1>4, <1>5
<1>7. IsList(<<>>) /\ ToSet(<<>>) = {}
  BY DEF IsList, ToSet
<1> QED
  BY <1>1, <1>5, <1>6, <1>7

LEMMA RootStays ==
    ASSUME NEW q \in Name, NEW name \in QualName
    PROVE  Head(q \o name) = Head(q)
BY DEF Name, QualName

LEMMA StubEdgesAre ==
    ASSUME NEW ctx, Indexed(ctx), NEW m, NEW ref, ref.src \in Ids(ctx.T), NEW name \in QualName,
           NEW arms, IsList(arms.types), arms.flow \in Flows
    PROVE  LET edges == StubEdges(ctx, m, ref, name, arms)
           IN  IsList(edges) /\ \A e \in ToSet(edges) : Possible(ctx.T, e)
<1> DEFINE usable(member) == member # None /\
                             (IsRead(ref) \/ member.kind \in {"method", "func", "class"})
           has(q) == q # None /\ usable(TypeMember(q, Head(name)))
           external == [i \in DOMAIN arms.types |->
                           ResolveExternalTypeName(ctx.T, m, arms.types[i])]
           I == {i \in DOMAIN external : has(external[i])}
           some == Picked(external, I)
           targets == Distinct(some)
           edges == [i \in DOMAIN targets |->
                       [Edge(ref, targets[i] \o name, "stub") EXCEPT !.flow = arms.flow]]
<1>1. StubEdges(ctx, m, ref, name, arms) = edges
  BY Zenon DEF StubEdges, Matching
<1>2. ASSUME NEW q, has(q) PROVE q \in Name /\ q # None
  BY <1>2, ChainsAssumption DEF TypeMember
<1>3. \A i \in DOMAIN arms.types : external[i] # None => ~Internal(ctx.T, external[i])
  BY DEF ResolveExternalTypeName, OnlyExternal
<1>4. external = [i \in DOMAIN arms.types |-> external[i]]
  OBVIOUS
<1> HIDE DEF external
<1>5. IsList(external)
  BY <1>4, MappedIs
<1> HIDE DEF has
<1>6. IsList(some) /\ ToSet(some) = {external[i] : i \in DOMAIN external \cap I}
  <2> HIDE DEF I
  <2> QED
    BY <1>5, PickedIs
<1>7. \A q \in ToSet(some) : q \in Name /\ ~Internal(ctx.T, q)
  <2> TAKE q \in ToSet(some)
  <2>1. PICK i \in DOMAIN external : i \in I /\ q = external[i]
    BY <1>6
  <2>2. has(q)
    BY <2>1
  <2> HIDE DEF I, some
  <2>3. q \in Name /\ q # None
    BY <1>2, <2>2
  <2>4. i \in DOMAIN arms.types
    BY <1>4, <2>1
  <2> QED
    BY <1>3, <2>1, <2>3, <2>4
<1> HIDE DEF some
<1>8. IsList(targets) /\ ToSet(targets) = ToSet(some)
  BY <1>6, DistinctIs
<1> HIDE DEF targets
<1>9. edges = [i \in DOMAIN targets |-> edges[i]]
  OBVIOUS
<1>10. ASSUME NEW i \in DOMAIN targets PROVE Possible(ctx.T, edges[i])
  <2>1. targets[i] \in Name /\ ~Internal(ctx.T, targets[i])
    BY <1>7, <1>8 DEF ToSet
  <2>2. ~Internal(ctx.T, targets[i] \o name)
    BY <2>1, RootStays DEF Internal
  <2>3. edges[i] = [Edge(ref, targets[i] \o name, "stub") EXCEPT !.flow = arms.flow]
    OBVIOUS
  <2> HIDE DEF edges
  <2>4. Formed(ctx.T, edges[i]) /\ edges[i].dst = targets[i] \o name /\ edges[i].via = "stub"
    <3> DEFINE dst == targets[i] \o name
               stub == Edge(ref, dst, "stub")
    <3>1. "stub" \in Vias
      BY ViasAre
    <3>2. edges[i] = [stub EXCEPT !.flow = arms.flow]
      BY <2>3
    <3> HIDE DEF dst
    <3>3. \A flow \in Flows : LET e == [stub EXCEPT !.flow = flow]
                             IN  Formed(ctx.T, e) /\ e.dst = dst /\ e.via = "stub"
      BY <3>1, EdgeIs
    <3> HIDE DEF stub
    <3> QED
      BY <3>2, <3>3 DEF dst
  <2> QED
    BY <2>2, <2>4 DEF Possible, Outside, Away, Spare
<1> HIDE DEF edges
<1>11. IsList(edges) /\ ToSet(edges) = {edges[i] : i \in DOMAIN targets}
  BY <1>8, <1>9, MappedIs
<1> QED
  BY <1>1, <1>10, <1>11

(* The way of a reference: each member a name of one part.                 *)
LEMMA TrailIs ==
    ASSUME NEW ref, ref.name \in Name, ref.chain \in QualName
    PROVE  /\ Len(Members(ref)) \in Nat /\ Len(Trail(ref)) \in Nat
           /\ Len(Trail(ref)) = 1 => Last(Trail(ref)) \in QualName
           /\ Len(Parts(ref.chain)) \in Nat
<1>1. ASSUME NEW S, NEW q \in Seq(S)
      PROVE  Parts(q) \in Seq(Seq(S)) /\ (q # <<>> => Tail(q) \in Seq(S))
  <2>1. \A i \in 1 .. Len(q) : <<q[i]>> \in Seq(S)
    OBVIOUS
  <2>2. Parts(q) \in [1 .. Len(q) -> Seq(S)] /\ Len(q) \in Nat
    BY <2>1 DEF Parts
  <2>3. Parts(q) \in Seq(Seq(S))
    BY <2>2
  <2> QED
    BY <2>3
<1>2. Tail(ref.name) \in QualName
  BY <1>1 DEF Name, QualName
<1>3. Members(ref) \in Seq(QualName) /\ Parts(ref.chain) \in Seq(QualName)
  BY <1>1, <1>2 DEF Members, QualName
<1>4. Trail(ref) \in Seq(QualName)
  BY <1>3 DEF Trail
<1>5. Len(Trail(ref)) = 1 => Last(Trail(ref)) \in QualName
  BY <1>4 DEF Last
<1> QED
  BY <1>3, <1>4, <1>5

LEMMA ArmEdgesAre ==
    ASSUME NEW ctx, Indexed(ctx), NEW m, NEW ref, Written(ctx.T, ref),
           NEW arms, IsList(arms.types), arms.flow \in Flows
    PROVE  LET edges == ArmEdges(ctx, m, ref, arms).edges
           IN  IsList(edges) /\ \A e \in ToSet(edges) : Possible(ctx.T, e)
<1> DEFINE hops == Hops(Trail(ref), Len(Members(ref)) - 1)
           classes == ReceiverClasses(ctx, m, ref, arms.types)
           reached == [i \in DOMAIN classes |-> Thread(ctx, classes[i], hops)]
           kinds == IF ref.chain = <<>> THEN MemberKinds(IsRead(ref)) ELSE Callable
           found == MemberEdges(ctx, ref, reached, Last(Trail(ref)), kinds, arms.flow)
           stubs == IF Len(Trail(ref)) = 1 /\ Len(reached) < Len(arms.types)
                    THEN StubEdges(ctx, m, ref, Last(Trail(ref)), arms) ELSE <<>>
<1>1. ArmEdges(ctx, m, ref, arms).edges = found \o stubs
  BY DEF ArmEdges, Arrive
<1>2. /\ Len(Members(ref)) \in Nat /\ Len(Trail(ref)) \in Nat
      /\ Len(Trail(ref)) = 1 => Last(Trail(ref)) \in QualName
      /\ ref.src \in Ids(ctx.T)
  BY TrailIs DEF Written
<1>3. PICK n \in Nat : DOMAIN hops = 1 .. n /\ \A i \in 1 .. n : hops[i].read \in BOOLEAN
  <2>1. Len(Members(ref)) - 1 \in Int
    BY <1>2
  <2> QED
    BY <1>2, <2>1, HopsAre
<1>4. IsList(classes) /\ \A i \in DOMAIN classes : Within(ctx, classes[i])
  BY ClassesAre
<1> HIDE DEF classes, hops
<1>5. reached = [i \in DOMAIN classes |-> reached[i]]
      /\ \A i \in DOMAIN classes : reached[i] = Thread(ctx, classes[i], hops)
  OBVIOUS
<1>6. \A i \in DOMAIN classes : Within(ctx, Thread(ctx, classes[i], hops))
  BY <1>3, <1>4, ThreadIs
<1> HIDE DEF reached
<1>7. IsList(reached) /\ \A i \in DOMAIN reached : Within(ctx, reached[i])
  <2>1. IsList(reached)
    BY <1>4, <1>5, MappedIs
  <2>2. DOMAIN reached = DOMAIN classes
    BY <1>5
  <2> QED
    BY <1>5, <1>6, <2>1, <2>2
<1> HIDE DEF kinds
<1>8. IsList(found) /\ \A e \in ToSet(found) : InTree(ctx.T, e)
  BY <1>2, <1>7, MemberEdgesAre
<1>9. IsList(stubs) /\ \A e \in ToSet(stubs) : Possible(ctx.T, e)
  <2>1. IsList(<<>>) /\ ToSet(<<>>) = {}
    BY DEF IsList, ToSet
  <2>2. CASE Len(Trail(ref)) = 1 /\ Len(reached) < Len(arms.types)
    BY <1>2, <2>2, StubEdgesAre
  <2> QED
    BY <2>1, <2>2
<1> HIDE DEF found, stubs
<1> QED
  BY <1>1, <1>8, <1>9, ListJoin DEF Possible

LEMMA ValueEdgesAre ==
    ASSUME NEW ctx, Indexed(ctx), NEW ref, ref.src \in Ids(ctx.T), NEW found, IsList(found),
           \A i \in DOMAIN found : /\ IsList(found[i].edges)
                                   /\ \A e \in ToSet(found[i].edges) : Possible(ctx.T, e)
    PROVE  LET edges == ValueEdges(ctx, ref, found)
           IN  IsList(edges) /\ \A e \in ToSet(edges) : Possible(ctx.T, e)
<1> DEFINE each == [i \in DOMAIN found |-> found[i].edges]
           flat == FlattenSeq(each)
           I == {i \in DOMAIN flat : \A j \in 1 .. i - 1 : flat[j].dst # flat[i].dst}
           named == HeuristicEdges(ctx, ref, Last(Trail(ref)))
<1>1. ValueEdges(ctx, ref, found) \in {named, Picked(flat, I)}
  BY DEF ValueEdges, DistinctBy
<1>2. IsList(each) /\ DOMAIN each = DOMAIN found
  <2>1. each = [i \in DOMAIN found |-> each[i]]
    OBVIOUS
  <2> HIDE DEF each
  <2> QED
    BY <2>1, MappedIs
<1>3. \A i \in DOMAIN found : each[i] = found[i].edges
  OBVIOUS
<1> HIDE DEF each
<1>4. IsList(flat) /\ ToSet(flat) = UNION {ToSet(each[i]) : i \in DOMAIN each}
  BY <1>2, <1>3, ListFlat
<1>5. \A e \in ToSet(flat) : Possible(ctx.T, e)
  BY <1>2, <1>3, <1>4
<1> HIDE DEF flat
<1>6. IsList(Picked(flat, I)) /\ ToSet(Picked(flat, I)) \subseteq ToSet(flat)
  <2> HIDE DEF I
  <2> QED
    BY <1>4, PickedIs
<1>7. IsList(named) /\ \A e \in ToSet(named) : InTree(ctx.T, e)
  BY HeuristicsAre
<1> HIDE DEF named, I
<1> QED
  BY <1>1, <1>5, <1>6, <1>7 DEF Possible

LEMMA ValueTypeEdgesAre ==
    ASSUME NEW ctx, Indexed(ctx), NEW m, NEW ref, Written(ctx.T, ref)
    PROVE  LET edges == ValueTypeEdges(ctx, m, ref)
           IN  IsList(edges) /\ \A e \in ToSet(edges) : Possible(ctx.T, e)
<1> DEFINE sets == ArmSets(ref)
           found == [i \in DOMAIN sets |-> ArmEdges(ctx, m, ref, sets[i])]
           edges == ValueEdges(ctx, ref, found)
<1>1. ValueTypeEdges(ctx, m, ref) \in {<<>>, edges}
  BY DEF ValueTypeEdges
<1>2. IsList(sets) /\ \A i \in DOMAIN sets : IsList(sets[i].types) /\ sets[i].flow \in Flows
  <2> DEFINE live == [types |-> ref.types, flow |-> IF ref.flow THEN "flow" ELSE "stable"]
             may == [types |-> ref.may, flow |-> "may"]
  <2>1. IsList(live.types) /\ live.flow \in Flows /\ IsList(may.types) /\ may.flow \in Flows
    BY DEF Written, Flows
  <2>2. sets = <<live>> \o (IF ref.may = <<>> THEN <<>> ELSE <<may>>)
    BY Zenon DEF ArmSets
  <2> HIDE DEF live, may, sets
  <2>3. /\ IsList(<<live>>) /\ ToSet(<<live>>) = {live}
        /\ IsList(<<may>>) /\ ToSet(<<may>>) = {may}
    BY OneIs
  <2>4. IsList(<<>>) /\ ToSet(<<>>) = {}
    BY DEF IsList, ToSet
  <2>6. IsList(sets) /\ ToSet(sets) \subseteq {live, may}
    BY <2>2, <2>3, <2>4, ListJoin
  <2>5. \A i \in DOMAIN sets : sets[i] \in ToSet(sets)
    BY DEF ToSet
  <2> QED
    BY <2>1, <2>5, <2>6
<1> HIDE DEF sets
<1>3. found = [i \in DOMAIN sets |-> found[i]]
      /\ \A i \in DOMAIN sets : found[i] = ArmEdges(ctx, m, ref, sets[i])
  OBVIOUS
<1> HIDE DEF found
<1>4. IsList(found) /\ DOMAIN found = DOMAIN sets
  BY <1>2, <1>3, MappedIs
<1>5. \A i \in DOMAIN sets : /\ IsList(ArmEdges(ctx, m, ref, sets[i]).edges)
                             /\ \A e \in ToSet(ArmEdges(ctx, m, ref, sets[i]).edges) : Possible(ctx.T, e)
  BY <1>2, ArmEdgesAre
<1>6. IsList(edges) /\ \A e \in ToSet(edges) : Possible(ctx.T, e)
  BY <1>3, <1>4, <1>5, ValueEdgesAre DEF Written
<1>7. IsList(<<>>) /\ ToSet(<<>>) = {}
  BY DEF IsList, ToSet
<1> HIDE DEF edges
<1> QED
  BY <1>1, <1>6, <1>7

LEMMA InTreeEdgesAre ==
    ASSUME NEW ctx, Indexed(ctx), NEW m, NEW ref, Written(ctx.T, ref)
    PROVE  LET edges == InTreeChainEdges(ctx, m, ref)
           IN  IsList(edges) /\ \A e \in ToSet(edges) : InTree(ctx.T, e)
<1> DEFINE recv == Bind(ctx.T, m, ref.name)
           at == At(None, FALSE, FALSE)
           made == Landing(ctx, at, recv.id, FALSE)
           hops == Hops(Parts(ref.chain), 0)
           reached == <<Thread(ctx, made, hops)>>
           edges == MemberEdges(ctx, ref, reached, Last(Parts(ref.chain)), Callable, "stable")
<1>1. /\ InTreeChainEdges(ctx, m, ref) \in {<<>>, edges}
      /\ recv = None \/ recv.external => InTreeChainEdges(ctx, m, ref) = <<>>
  BY DEF InTreeChainEdges, ChainEdges
<1>2. IsList(<<>>) /\ ToSet(<<>>) = {}
  BY DEF IsList, ToSet
<1>3. ASSUME recv # None, ~recv.external
      PROVE  IsList(edges) /\ \A e \in ToSet(edges) : InTree(ctx.T, e)
  <2>1. recv.id \in Ids(ctx.T)
    <3>1. recv = None \/ (recv.external = FALSE /\ recv.id \in Ids(ctx.T)) \/ recv.external = TRUE
      BY BindIs DEF BoundAs
    <3> HIDE DEF recv
    <3> QED
      BY <1>3, <3>1
  <2> HIDE DEF recv, at
  <2>2. Within(ctx, made)
    BY <2>1, LandingIs
  <2>3. PICK n \in Nat : DOMAIN hops = 1 .. n /\ \A i \in 1 .. n : hops[i].read \in BOOLEAN
    <3>1. Len(Parts(ref.chain)) \in Nat /\ 0 \in Int
      BY TrailIs DEF Written
    <3> QED
      BY <3>1, HopsAre
  <2> HIDE DEF made, hops
  <2>4. Within(ctx, Thread(ctx, made, hops))
    BY <2>2, <2>3, ThreadIs
  <2>5. IsList(reached)
    BY OneIs
  <2>6. \A i \in DOMAIN reached : Within(ctx, reached[i])
    BY <2>4
  <2> HIDE DEF reached
  <2>7. "stable" \in Flows /\ ref.src \in Ids(ctx.T)
    BY DEF Flows, Written
  <2> QED
    BY <2>5, <2>6, <2>7, MemberEdgesAre
<1> HIDE DEF edges
<1> QED
  BY <1>1, <1>2, <1>3

LEMMA ArgEdgesAre ==
    ASSUME NEW ctx, NEW m, NEW ref, Written(ctx.T, ref)
    PROVE  LET edges == ArgEdges(ctx, m, ref)
           IN  IsList(edges) /\ \A e \in ToSet(edges) : InTree(ctx.T, e)
<1> DEFINE callee == Bind(ctx.T, m, ref.name)
           type(i) == IF ref.args[i] = None THEN None ELSE ResolveTypeName(ctx.T, m, ref.args[i])
           each == [i \in DOMAIN ref.args |-> type(i)]
           I == {i \in DOMAIN each : each[i] # None}
           types == Picked(each, I)
           source == [src |-> callee.id, kind |-> "receives_arg"]
           edges == [i \in DOMAIN types |-> Edge(source, types[i], "callsite")]
<1>1. ArgEdges(ctx, m, ref) = <<>> \/ (ArgEdges(ctx, m, ref) = edges /\ KindOf(ctx.T, callee.id) = "function")
  BY Zenon DEF ArgEdges, ArgEdgesTo, Present, Matching
<1>2. IsList(<<>>) /\ ToSet(<<>>) = {}
  BY DEF IsList, ToSet
<1>3. each = [i \in DOMAIN ref.args |-> each[i]]
      /\ \A i \in DOMAIN ref.args : each[i] \in Ids(ctx.T) \cup {None}
  BY TypeNameIs
<1> HIDE DEF each
<1>4. IsList(each) /\ DOMAIN each = DOMAIN ref.args
  BY <1>3, MappedIs DEF Written
<1>5. IsList(types) /\ ToSet(types) = {each[i] : i \in DOMAIN each \cap I}
  <2> HIDE DEF I
  <2> QED
    BY <1>4, PickedIs
<1>6. \A q \in ToSet(types) : q \in Ids(ctx.T)
  BY <1>3, <1>4, <1>5
<1> HIDE DEF types
<1>7. ASSUME KindOf(ctx.T, callee.id) = "function"
      PROVE  IsList(edges) /\ \A e \in ToSet(edges) : InTree(ctx.T, e)
  <2>1. source.src \in Ids(ctx.T)
    BY <1>7 DEF KindOf, Known, Ids
  <2> HIDE DEF source
  <2>2. edges = [i \in DOMAIN types |-> edges[i]]
        /\ \A i \in DOMAIN types : edges[i] = Edge(source, types[i], "callsite")
    OBVIOUS
  <2> HIDE DEF edges
  <2>3. \A i \in DOMAIN types : InTree(ctx.T, edges[i])
    <3> TAKE i \in DOMAIN types
    <3>1. types[i] \in Ids(ctx.T)
      BY <1>6 DEF ToSet
    <3> QED
      BY <2>1, <2>2, <3>1, EdgeIs, ViasAre DEF InTree
  <2>4. IsList(edges) /\ ToSet(edges) = {edges[i] : i \in DOMAIN types}
    BY <1>5, <2>2, MappedIs
  <2> QED
    BY <2>3, <2>4
<1> HIDE DEF edges
<1> QED
  BY <1>1, <1>2, <1>7

-----------------------------------------------------------------------------
(* The syntactic pass.                                                     *)
Lands(T, e) == InTree(T, e) \/ Outside(T, e)

LEMMA ApartIs ==
    ASSUME NEW fs, IsProject(fs), NEW q,
           Head(q) = "builtins" \/ \E class \in DOMAIN StubClasses : Head(q) = Head(class)
    PROVE  Away(Tables(fs), q)
<1>1. SUFFICES ASSUME StubsApart, Internal(Tables(fs), q) PROVE FALSE
  BY DEF Away
<1>2. PICK m \in DOMAIN fs : <<Head(q)>> = <<Head(m)>>
  BY <1>1, TablesAre DEF Internal
<1>3. m \in Modules /\ Head(q) = Head(m)
  BY <1>2 DEF IsProject
<1> QED
  BY <1>1, <1>3 DEF StubsApart

LEMMA MemberApart ==
    ASSUME NEW fs, IsProject(fs), NEW class, NEW name, TypeMember(class, name) # None
    PROVE  Away(Tables(fs), Append(class, name))
<1>1. class \in DOMAIN StubClasses /\ class \in Name
  BY ChainsAssumption DEF TypeMember
<1>2. class \in Seq(STRING \cup {name}) /\ class # <<>>
  BY <1>1 DEF Name, QualName
<1>3. Head(Append(class, name)) = Head(class)
  BY <1>2
<1> QED
  BY <1>1, <1>3, ApartIs

LEMMA CallChainIs ==
    ASSUME NEW fs, IsProject(fs), NEW root, NEW members
    PROVE  LET q == CallChain(root, members) IN q = None \/ Away(Tables(fs), q)
<1> DEFINE class == FoldLeft(Reach, ReturnType(Walk(root)), Front(members))
<1>1. CallChain(root, members) \in {None, LastMember(class, Last(members))}
  BY Zenon DEF CallChain
<1> HIDE DEF class
<1>2. LastMember(class, Last(members)) = None \/ Away(Tables(fs), LastMember(class, Last(members)))
  BY MemberApart DEF LastMember
<1> QED
  BY <1>1, <1>2

LEMMA ExternalChainIs ==
    ASSUME NEW fs, IsProject(fs), NEW dotted, NEW isCall
    PROVE  LET d == ExternalChain(dotted, isCall)
           IN  d.keep = TRUE \/ d.target = None \/ Away(Tables(fs), d.target)
<1> DEFINE pos == Walk(Front(dotted))
           name == Last(dotted)
           d == ExternalChain(dotted, isCall)
<1>1. ASSUME NEW q PROVE Downgrade(q).target = q /\ Keep.keep = TRUE /\ Decline.target = None
  BY DEF Downgrade, Keep, Decline
<1>2. d \in {Keep, LastRung(pos, name, isCall)}
  BY DEF ExternalChain
<1> HIDE DEF pos, name, d
<1>3. \/ LastRung(pos, name, isCall) \in {Keep, Decline}
      \/ /\ TypeMember(pos.at, name) # None
         /\ LastRung(pos, name, isCall) = Downgrade(Append(pos.at, name))
  BY DEF LastRung
<1>4. CASE d \in {Keep, Decline}
  BY <1>1, <1>4 DEF d
<1>5. CASE TypeMember(pos.at, name) # None /\ d = Downgrade(Append(pos.at, name))
  <2>1. d.target = Append(pos.at, name)
    BY <1>1, <1>5
  <2>2. Away(Tables(fs), d.target)
    BY <1>5, <2>1, MemberApart
  <2> QED
    BY <2>2 DEF d
<1> QED
  BY <1>2, <1>3, <1>4, <1>5

LEMMA DecidedIs ==
    ASSUME NEW T, NEW ref, ref.src \in Ids(T), NEW dst, NEW d,
           d.keep = TRUE => Away(T, dst) /\ ~BeyondValue(dst),
           d.keep # TRUE => d.keep = FALSE /\ (d.target = None \/ Away(T, d.target))
    PROVE  DecidedEdge(ref, dst, d) = None \/ Lands(T, DecidedEdge(ref, dst, d))
<1>1. "syntactic" \in Vias /\ "stub" \in Vias
  BY ViasAre
<1>2. CASE d.keep = TRUE
  <2>1. DecidedEdge(ref, dst, d) = Edge(ref, dst, "syntactic")
    BY <1>2 DEF DecidedEdge
  <2>2. Formed(T, Edge(ref, dst, "syntactic")) /\ Edge(ref, dst, "syntactic").dst = dst
    BY <1>1, EdgeIs
  <2> QED
    BY <1>2, <2>1, <2>2 DEF Lands, Outside, Spare
<1>3. CASE d.keep # TRUE
  <2>1. DecidedEdge(ref, dst, d) = IF d.target = None THEN None ELSE Edge(ref, d.target, "stub")
    BY <1>3 DEF DecidedEdge
  <2>2. /\ Formed(T, Edge(ref, d.target, "stub")) /\ Edge(ref, d.target, "stub").dst = d.target
        /\ Edge(ref, d.target, "stub").via = "stub"
    BY <1>1, EdgeIs
  <2> QED
    BY <1>3, <2>1, <2>2 DEF Lands, Outside, Spare
<1> QED
  BY <1>2, <1>3

LEMMA SyntacticEdgeIs ==
    ASSUME NEW fs, IsProject(fs), NEW m \in DOMAIN fs, NEW ref, Written(Tables(fs), ref)
    PROVE  LET e == SyntacticEdge(Tables(fs), m, ref)
           IN  e = None \/ Lands(Tables(fs), e)
<1> DEFINE T == Tables(fs)
           b == Bind(T, m, ref.name)
<1>1. ref.src \in Ids(T) /\ ref.name \in Name /\ "syntactic" \in Vias
  BY ViasAre DEF Written
<1>2. ImportRefEdge(T, ref) = None \/ Lands(T, ImportRefEdge(T, ref))
  <2>1. ASSUME KindOf(T, ref.name) = "module" PROVE ref.name \in Ids(T)
    BY <2>1 DEF KindOf, Known, Ids
  <2> HIDE DEF T
  <2>2. Formed(T, Edge(ref, ref.name, "syntactic")) /\ Edge(ref, ref.name, "syntactic").dst = ref.name
    BY <1>1, EdgeIs
  <2> QED
    BY <2>1, <2>2 DEF ImportRefEdge, Lands, InTree
<1>3. \/ b = None
      \/ b.external = FALSE /\ b.id \in Ids(T)
      \/ b.external = TRUE /\ Away(T, b.id)
  <2>1. BoundAs(T, ref.name, b)
    BY BindIs
  <2>2. Head(<<"builtins">> \o ref.name) = "builtins"
    <3>1. ref.name \in Seq(STRING)
      BY <1>1 DEF Name, QualName
    <3>2. ASSUME NEW S, NEW q \in Seq(S), NEW x PROVE Head(<<x>> \o q) = x
      <4>1. q \in Seq(S \cup {x}) /\ <<x>> \in Seq(S \cup {x})
        OBVIOUS
      <4> QED
        BY <4>1
    <3> QED
      BY <3>1, <3>2
  <2>3. Away(T, <<"builtins">> \o ref.name)
    BY <2>2, ApartIs
  <2> HIDE DEF b, T
  <2> QED
    BY <2>1, <2>3 DEF Away, Beyond, BoundAs
<1>4. BoundEdge(ref, b) = None \/ Lands(T, BoundEdge(ref, b))
  <2>1. CASE b = None
    BY <2>1 DEF BoundEdge
  <2>2. CASE b # None /\ ref.chain # <<>>
    <3> DEFINE q == CallChain(b.id, ref.chain)
    <3>1. q = None \/ Away(T, q)
      BY CallChainIs
    <3> HIDE DEF q, b, T
    <3>2. Downgrade(q).keep = FALSE /\ Downgrade(q).target = q
      BY DEF Downgrade
    <3>3. DecidedEdge(ref, None, Downgrade(q)) = None \/ Lands(T, DecidedEdge(ref, None, Downgrade(q)))
      BY <1>1, <3>1, <3>2, DecidedIs
    <3>4. BoundEdge(ref, b) = None \/ BoundEdge(ref, b) = DecidedEdge(ref, None, Downgrade(q))
      BY <2>2 DEF BoundEdge, q
    <3> QED
      BY <3>3, <3>4
  <2>3. CASE b # None /\ ref.chain = <<>> /\ b.external = TRUE /\ ref.kind \in {"call", "reference"}
    <3> DEFINE d == ExternalChain(b.id, ref.kind = "call")
    <3>1. d.keep = TRUE \/ d.target = None \/ Away(T, d.target)
      BY ExternalChainIs
    <3>2. d.keep # TRUE => d.keep = FALSE
      BY DEF ExternalChain, LastRung, Keep, Downgrade, Decline
    <3>3. d.keep = TRUE => ~BeyondValue(b.id)
      <4>1. b.id \in Words
        BY <1>1, <2>3, BindWords
      <4> HIDE DEF b
      <4> QED
        BY <4>1, KeepIs
    <3> HIDE DEF d, b, T
    <3>4. DecidedEdge(ref, b.id, d) = None \/ Lands(T, DecidedEdge(ref, b.id, d))
      <4>1. Away(T, b.id)
        BY <1>3, <2>3
      <4> QED
        BY <1>1, <3>1, <3>2, <3>3, <4>1, DecidedIs
    <3>5. BoundEdge(ref, b) = DecidedEdge(ref, b.id, d)
      BY <2>3 DEF BoundEdge, d
    <3> QED
      BY <3>4, <3>5
  <2>4. CASE b # None /\ ref.chain = <<>> /\ ~(b.external = TRUE /\ ref.kind \in {"call", "reference"})
    <3> HIDE DEF b, T
    <3>1. BoundEdge(ref, b) = Edge(ref, b.id, "syntactic")
      BY <1>3, <2>4 DEF BoundEdge
    <3>2. /\ Formed(T, Edge(ref, b.id, "syntactic")) /\ Edge(ref, b.id, "syntactic").dst = b.id
          /\ Edge(ref, b.id, "syntactic").kind = ref.kind
      BY <1>1, EdgeIs
    <3> QED
      BY <1>3, <2>4, <3>1, <3>2 DEF Lands, InTree, Outside, Spare
  <2> QED
    BY <2>1, <2>2, <2>3, <2>4
<1>5. SyntacticEdge(T, m, ref) \in {ImportRefEdge(T, ref), None, BoundEdge(ref, b)}
  BY Zenon DEF SyntacticEdge
<1> HIDE DEF T, b
<1> QED
  BY <1>2, <1>4, <1>5 DEF T

LEMMA SyntacticFileIs ==
    ASSUME NEW fs, IsProject(fs), NEW m \in DOMAIN fs
    PROVE  LET rec == SyntacticFile(Tables(fs), m)
               T == Tables(fs)
           IN  /\ IsList(rec.main) /\ \A e \in ToSet(rec.main) : Lands(T, e)
               /\ IsList(rec.imports) /\ \A e \in ToSet(rec.imports) : InTree(T, e)
               /\ IsList(rec.minted)
               /\ \A e \in ToSet(rec.main) : e.dst \in Ids(T) \cup ToSet(rec.minted)
<1> DEFINE T == Tables(fs)
           refs == fs[m].refs
           each == [i \in DOMAIN refs |-> SyntacticEdge(T, m, refs[i])]
           I == {i \in DOMAIN each : each[i] # None}
           main == Picked(each, I)
           rec == SyntacticFile(T, m)
<1>1. /\ T.fs = fs /\ Extracted(m, fs[m])
      /\ Ids(T) = {s.id : s \in Symbols(fs)}
  BY TablesAre
<1>2. rec = FileRecord(T, m, main)
  <2> HIDE DEF T
  <2> QED
    BY <1>1, Zenon DEF SyntacticFile, Present, Matching
<1>3. \A s \in ToSet(fs[m].symbols) : s.id \in Ids(T)
  BY <1>1 DEF Symbols
<1>4. m \in Ids(T) /\ \A r \in ToSet(refs) : Written(T, r)
  <2> HIDE DEF T
  <2> QED
    BY <1>1, <1>3 DEF Extracted, Written
<1>5. IsList(main) /\ \A e \in ToSet(main) : Lands(T, e)
  <2>1. \A i \in DOMAIN refs : each[i] = None \/ Lands(T, each[i])
    <3> TAKE i \in DOMAIN refs
    <3>1. Written(T, refs[i])
      BY <1>4 DEF ToSet
    <3>2. SyntacticEdge(T, m, refs[i]) = None \/ Lands(T, SyntacticEdge(T, m, refs[i]))
      BY <3>1, SyntacticEdgeIs
    <3> HIDE DEF T
    <3> QED
      BY <3>2
  <2>2. each = [i \in DOMAIN refs |-> each[i]]
    OBVIOUS
  <2>3. IsList(refs)
    BY <1>1 DEF Extracted
  <2> HIDE DEF T, refs, each
  <2>4. IsList(each) /\ DOMAIN each = DOMAIN refs
    BY <2>2, <2>3, MappedIs
  <2>5. IsList(main) /\ ToSet(main) = {each[i] : i \in DOMAIN each \cap I}
    <3> HIDE DEF I
    <3> QED
      BY <2>4, PickedIs
  <2> QED
    BY <2>1, <2>4, <2>5
<1> HIDE DEF main
<1>6. IsList(TopNameEdges(T, m, main)) /\ \A e \in ToSet(TopNameEdges(T, m, main)) : InTree(T, e)
  <2> DEFINE seen == {<<e.src, e.dst>> : e \in {x \in ToSet(main) : x.kind = "import"}}
             named == [i \in DOMAIN fs[m].imports |-> fs[m].imports[i][2]]
             targets == Distinct(named)
             J == {i \in DOMAIN targets :
                      KindOf(T, targets[i]) = "module" /\ <<m, targets[i]>> \notin seen}
             kept == Picked(targets, J)
             source == [src |-> m, kind |-> "import"]
             edges == [i \in DOMAIN kept |-> Edge(source, kept[i], "syntactic")]
  <2>1. TopNameEdges(T, m, main) = edges
    <3> HIDE DEF T
    <3> QED
      BY <1>1, Zenon DEF TopNameEdges, Matching
  <2>2. IsList(named)
    <3>1. IsList(fs[m].imports) /\ named = [i \in DOMAIN fs[m].imports |-> named[i]]
      BY <1>1 DEF Extracted
    <3> HIDE DEF named
    <3> QED
      BY <3>1, MappedIs
  <2> HIDE DEF named, T
  <2>3. IsList(targets)
    BY <2>2, DistinctIs
  <2> HIDE DEF targets
  <2>4. IsList(kept) /\ ToSet(kept) = {targets[i] : i \in DOMAIN targets \cap J}
    <3> HIDE DEF J
    <3> QED
      BY <2>3, PickedIs
  <2>5. \A q \in ToSet(kept) : q \in Ids(T)
    BY <2>4 DEF KindOf, Known, Ids
  <2> HIDE DEF kept
  <2>6. edges = [i \in DOMAIN kept |-> edges[i]]
        /\ \A i \in DOMAIN kept : edges[i] = Edge(source, kept[i], "syntactic")
    OBVIOUS
  <2>7. source.src \in Ids(T)
    BY <1>4
  <2> HIDE DEF edges, source
  <2>8. \A i \in DOMAIN kept : InTree(T, edges[i])
    <3> TAKE i \in DOMAIN kept
    <3>1. kept[i] \in Ids(T)
      BY <2>5 DEF ToSet
    <3> QED
      BY <2>6, <2>7, <3>1, EdgeIs, ViasAre DEF InTree
  <2>9. IsList(edges) /\ ToSet(edges) = {edges[i] : i \in DOMAIN kept}
    BY <2>4, <2>6, MappedIs
  <2> QED
    BY <2>1, <2>8, <2>9
<1>7. IsList(rec.minted) /\ \A e \in ToSet(main) : e.dst \in Ids(T) \cup ToSet(rec.minted)
  <2> DEFINE dsts == [i \in DOMAIN main |-> main[i].dst]
             K == {i \in DOMAIN dsts : ~Known(T, dsts[i])}
             some == Picked(dsts, K)
  <2>1. rec.minted = Distinct(some)
    <3>1. FileRecord(T, m, main).minted = Distinct(some)
      <4> HIDE DEF T
      <4> QED
        BY DEF FileRecord, Matching
    <3> QED
      BY <1>2, <3>1
  <2>2. dsts = [i \in DOMAIN main |-> dsts[i]] /\ \A i \in DOMAIN main : dsts[i] = main[i].dst
    OBVIOUS
  <2> HIDE DEF dsts, T, rec
  <2>3. IsList(dsts) /\ DOMAIN dsts = DOMAIN main
    BY <1>5, <2>2, MappedIs
  <2>4. IsList(some) /\ ToSet(some) = {dsts[i] : i \in DOMAIN dsts \cap K}
    <3> HIDE DEF K
    <3> QED
      BY <2>3, PickedIs
  <2>5. ASSUME NEW i \in DOMAIN main PROVE main[i].dst \in Ids(T) \cup ToSet(some)
    BY <2>2, <2>3, <2>4 DEF Known, Ids
  <2> HIDE DEF some
  <2>6. IsList(Distinct(some)) /\ ToSet(Distinct(some)) = ToSet(some)
    BY <2>4, DistinctIs
  <2> QED
    BY <2>1, <2>5, <2>6 DEF ToSet
<1>8. rec.main = main /\ rec.imports = TopNameEdges(T, m, main)
  <2>1. /\ FileRecord(T, m, main).main = main
        /\ FileRecord(T, m, main).imports = TopNameEdges(T, m, main)
    BY DEF FileRecord
  <2> QED
    BY <1>2, <2>1
<1> HIDE DEF rec, T
<1> QED
  BY <1>5, <1>6, <1>7, <1>8 DEF rec, T

-----------------------------------------------------------------------------
(* A full resolve.                                                         *)
SyntacticIsFull(T, rec) ==
    /\ IsList(rec.main) /\ \A e \in ToSet(rec.main) : Lands(T, e)
    /\ IsList(rec.imports) /\ \A e \in ToSet(rec.imports) : InTree(T, e)
    /\ IsList(rec.minted)
    /\ \A e \in ToSet(rec.main) : e.dst \in Ids(T) \cup ToSet(rec.minted)

Landed(T, rec) ==
    /\ SyntacticIsFull(T, rec)
    /\ IsList(rec.values) /\ \A e \in ToSet(rec.values) : Possible(T, e)
    /\ IsList(rec.intree) /\ \A e \in ToSet(rec.intree) : InTree(T, e)
    /\ IsList(rec.callsite) /\ \A e \in ToSet(rec.callsite) : InTree(T, e)

LEMMA ContextIs ==
    ASSUME NEW fs, IsProject(fs), NEW recs, \A m \in DOMAIN fs : IsList(recs[m].main)
    PROVE  Indexed(Context(fs, recs)) /\ Context(fs, recs).T = Tables(fs)
<1> DEFINE T == Tables(fs)
           main == [m \in DOMAIN fs |-> recs[m].main]
           syms == [m \in DOMAIN fs |-> fs[m].symbols]
           edges == Gathered(fs, main)
           ctx == ResolveIndex(T, edges)
<1>1. /\ T.fs = fs /\ DOMAIN fs \subseteq Modules /\ \A m \in DOMAIN fs : Extracted(m, fs[m])
      /\ Ids(T) = {s.id : s \in Symbols(fs)} /\ IsFiniteSet(Ids(T))
  BY TablesAre
<1>2. PerFile(fs, LAMBDA m : recs[m].main) = edges
  <2> DEFINE of(m) == IF m \in DOMAIN fs THEN recs[m].main ELSE <<>>
             same(m) == IF m \in DOMAIN fs THEN main[m] ELSE <<>>
  <2>1. \A i \in DOMAIN FileOrder : of(FileOrder[i]) = same(FileOrder[i])
    OBVIOUS
  <2>2. [i \in DOMAIN FileOrder |-> of(FileOrder[i])] = [i \in DOMAIN FileOrder |-> same(FileOrder[i])]
    BY <2>1
  <2>3. /\ PerFile(fs, LAMBDA m : recs[m].main) = FlattenSeq([i \in DOMAIN FileOrder |-> of(FileOrder[i])])
        /\ edges = FlattenSeq([i \in DOMAIN FileOrder |-> same(FileOrder[i])])
    BY Zenon DEF PerFile, Concat, Gathered
  <2> HIDE DEF of, same
  <2> QED
    BY <2>2, <2>3
<1>3. Context(fs, recs) = ctx
  BY <1>2, Zenon DEF Context
<1>4. IsList(edges)
  <2> HIDE DEF main
  <2>1. \A m \in DOMAIN fs : IsList(main[m])
    BY DEF main
  <2> QED
    BY <1>1, <2>1, PerFileIs
<1>5. IsList(AllSymbols(fs)) /\ \A s \in ToSet(AllSymbols(fs)) : s.id \in Ids(T)
  <2>1. AllSymbols(fs) = Gathered(fs, syms)
    <3> DEFINE of(m) == IF m \in DOMAIN fs THEN fs[m].symbols ELSE <<>>
               same(m) == IF m \in DOMAIN fs THEN syms[m] ELSE <<>>
    <3>1. \A i \in DOMAIN FileOrder : of(FileOrder[i]) = same(FileOrder[i])
      OBVIOUS
    <3>2. [i \in DOMAIN FileOrder |-> of(FileOrder[i])] = [i \in DOMAIN FileOrder |-> same(FileOrder[i])]
      BY <3>1
    <3>3. /\ AllSymbols(fs) = FlattenSeq([i \in DOMAIN FileOrder |-> of(FileOrder[i])])
          /\ Gathered(fs, syms) = FlattenSeq([i \in DOMAIN FileOrder |-> same(FileOrder[i])])
      BY Zenon DEF AllSymbols, PerFile, Concat, Gathered
    <3> HIDE DEF of, same
    <3> QED
      BY <3>2, <3>3
  <2>2. \A m \in DOMAIN fs : syms[m] = fs[m].symbols /\ IsList(syms[m])
    BY <1>1 DEF Extracted
  <2> HIDE DEF syms, T
  <2>3. IsList(Gathered(fs, syms)) /\ ToSet(Gathered(fs, syms)) = UNION {ToSet(syms[m]) : m \in DOMAIN fs}
    BY <1>1, <2>2, PerFileIs
  <2>4. UNION {ToSet(syms[m]) : m \in DOMAIN fs} = Symbols(fs)
    BY <2>2 DEF Symbols
  <2> QED
    BY <1>1, <2>1, <2>3, <2>4
<1> HIDE DEF T, edges
<1>6. /\ ctx.T = T /\ ctx.symbols = AllSymbols(fs)
      /\ DOMAIN ctx.bases = Ids(T)
      /\ \A id \in Ids(T) : ctx.bases[id] = Bases(T, edges, id)
  BY <1>1 DEF ResolveIndex, Ids
<1>7. \A id \in Ids(T) : ctx.typeOf[id] \in Ids(T) \cup {None}
  <2> DEFINE typeOf(g, m, s) == IF s.type = None THEN None ELSE ResolveTypeName(T, m, s.type)
             homes == [id \in Ids(T) |-> CHOOSE m \in DOMAIN T.fs : T.byId[id] \in ToSet(T.fs[m].symbols)]
  <2>1. ctx.typeOf = [id \in Ids(T) |-> typeOf(T.fs, homes[id], T.byId[id])]
    BY DEF ResolveIndex, Ids
  <2> HIDE DEF homes, ctx
  <2> QED
    BY <2>1, TypeNameIs
<1>8. \A id \in Ids(T) : ToSet(Bases(T, edges, id)) \subseteq Ids(T)
  <2> TAKE id \in Ids(T)
  <2> DEFINE I == {i \in DOMAIN edges :
                      edges[i].kind = "inherits" /\ edges[i].src = id /\ Known(T, edges[i].dst)}
             own == Picked(edges, I)
  <2>1. Bases(T, edges, id) = [i \in DOMAIN own |-> own[i].dst]
    BY Zenon DEF Bases, Matching
  <2>2. ToSet(own) = {edges[i] : i \in DOMAIN edges \cap I}
    <3> HIDE DEF I
    <3> QED
      BY <1>4, PickedIs
  <2>3. \A e \in ToSet(own) : e.dst \in Ids(T)
    BY <2>2 DEF Known, Ids
  <2> HIDE DEF own
  <2> QED
    BY <2>1, <2>3 DEF ToSet
<1> HIDE DEF ctx
<1>9. Indexed(ctx)
  BY <1>1, <1>5, <1>6, <1>7, <1>8 DEF Indexed
<1> QED
  BY <1>3, <1>6, <1>9 DEF T

(* Of each reference of a file, some edges.                                *)
Lists(refs, f) == f = [i \in DOMAIN refs |-> f[i]] /\ \A i \in DOMAIN refs : IsList(f[i])

LEMMA EachIs ==
    ASSUME NEW refs, IsList(refs), NEW f, Lists(refs, f)
    PROVE  /\ IsList(FlattenSeq(f))
           /\ ToSet(FlattenSeq(f)) = UNION {ToSet(f[i]) : i \in DOMAIN refs}
<1>1. IsList(f) /\ DOMAIN f = DOMAIN refs
  BY MappedIs DEF Lists
<1> QED
  BY <1>1, ListFlat DEF Lists

(* Whatever the main edges of the other files are, and whoever left them.  *)
LEMMA RecordIs ==
    ASSUME NEW fs, IsProject(fs), NEW m \in DOMAIN fs,
           NEW recs, \A k \in DOMAIN fs : IsList(recs[k].main)
    PROVE  Landed(Tables(fs), ValueFile(Context(fs, recs), m, SyntacticFile(Tables(fs), m)))
<1> DEFINE T == Tables(fs)
           ctx == Context(fs, recs)
           first == SyntacticFile(T, m)
           rec == ValueFile(ctx, m, first)
           refs == fs[m].refs
           values == [i \in DOMAIN refs |-> ValueTypeEdges(ctx, m, refs[i])]
           intree == [i \in DOMAIN refs |-> InTreeChainEdges(ctx, m, refs[i])]
           callsite == [i \in DOMAIN refs |-> ArgEdges(ctx, m, refs[i])]
<1>1. SyntacticIsFull(T, first)
  BY SyntacticFileIs DEF SyntacticIsFull
<1>2. Indexed(ctx) /\ ctx.T = T
  BY ContextIs
<1>3. IsList(refs) /\ \A i \in DOMAIN refs : Written(T, refs[i])
  <2>1. T.fs = fs /\ Extracted(m, fs[m]) /\ Ids(T) = {s.id : s \in Symbols(fs)}
    BY TablesAre
  <2>2. \A s \in ToSet(fs[m].symbols) : s.id \in Ids(T)
    BY <2>1 DEF Symbols
  <2> HIDE DEF T
  <2> QED
    BY <2>1, <2>2 DEF Extracted, Written, ToSet
<1>4. /\ rec.main = first.main /\ rec.imports = first.imports /\ rec.minted = first.minted
      /\ rec.values = FlattenSeq(values)
      /\ rec.intree = FlattenSeq(intree)
      /\ rec.callsite = FlattenSeq(callsite)
  <2>1. DOMAIN first = {"main", "imports", "minted", "values", "intree", "callsite"}
    BY DEF SyntacticFile, FileRecord
  <2>2. ctx.T.fs[m].refs = refs
    BY <1>2, TablesAre
  <2> HIDE DEF ctx, T, first, refs
  <2> QED
    BY <2>1, <2>2 DEF ValueFile, Concat
<1> HIDE DEF T, ctx, first, rec, refs
<1>5. IsList(rec.values) /\ \A e \in ToSet(rec.values) : Possible(T, e)
  <2>1. \A i \in DOMAIN refs : /\ values[i] = ValueTypeEdges(ctx, m, refs[i])
                               /\ IsList(values[i]) /\ \A e \in ToSet(values[i]) : Possible(T, e)
    BY <1>2, <1>3, ValueTypeEdgesAre
  <2>2. Lists(refs, values)
    BY <2>1 DEF Lists
  <2> HIDE DEF values
  <2>3. /\ IsList(FlattenSeq(values))
        /\ ToSet(FlattenSeq(values)) = UNION {ToSet(values[i]) : i \in DOMAIN refs}
    BY <1>3, <2>2, EachIs
  <2> QED
    BY <1>4, <2>1, <2>3
<1>6. IsList(rec.intree) /\ \A e \in ToSet(rec.intree) : InTree(T, e)
  <2>1. \A i \in DOMAIN refs : /\ intree[i] = InTreeChainEdges(ctx, m, refs[i])
                               /\ IsList(intree[i]) /\ \A e \in ToSet(intree[i]) : InTree(T, e)
    BY <1>2, <1>3, InTreeEdgesAre
  <2>2. Lists(refs, intree)
    BY <2>1 DEF Lists
  <2> HIDE DEF intree
  <2>3. /\ IsList(FlattenSeq(intree))
        /\ ToSet(FlattenSeq(intree)) = UNION {ToSet(intree[i]) : i \in DOMAIN refs}
    BY <1>3, <2>2, EachIs
  <2> QED
    BY <1>4, <2>1, <2>3
<1>7. IsList(rec.callsite) /\ \A e \in ToSet(rec.callsite) : InTree(T, e)
  <2>1. \A i \in DOMAIN refs : /\ callsite[i] = ArgEdges(ctx, m, refs[i])
                               /\ IsList(callsite[i]) /\ \A e \in ToSet(callsite[i]) : InTree(T, e)
    BY <1>2, <1>3, ArgEdgesAre
  <2>2. Lists(refs, callsite)
    BY <2>1 DEF Lists
  <2> HIDE DEF callsite
  <2>3. /\ IsList(FlattenSeq(callsite))
        /\ ToSet(FlattenSeq(callsite)) = UNION {ToSet(callsite[i]) : i \in DOMAIN refs}
    BY <1>3, <2>2, EachIs
  <2> QED
    BY <1>4, <2>1, <2>3
<1>8. SyntacticIsFull(T, rec)
  BY <1>1, <1>4 DEF SyntacticIsFull
<1> QED
  BY <1>5, <1>6, <1>7, <1>8 DEF Landed, T, ctx, first, rec

LEMMA FullRecordIs ==
    ASSUME NEW fs, IsProject(fs), NEW m \in DOMAIN fs
    PROVE  Landed(Tables(fs), FullResolve(fs)[m])
<1>1. \A k \in DOMAIN fs : IsList(Syntactic(fs)[k].main)
  BY SyntacticFileIs DEF Syntactic
<1>2. FullResolve(fs)[m] =
          ValueFile(Context(fs, Syntactic(fs)), m, SyntacticFile(Tables(fs), m))
  BY FullIs
<1> QED
  BY <1>1, <1>2, RecordIs

(* All that the passes leave of a project.                                 *)
LandsIn(T, externals, e) ==
    /\ Formed(T, e)
    /\ \/ e.dst \in Ids(T)
       \/ e.dst \in ToSet(externals) /\ Away(T, e.dst) /\ Spare(e)

LEMMA ReassembledIs ==
    ASSUME NEW fs, DOMAIN fs \subseteq Modules, NEW tables, NEW recs,
           \A m \in DOMAIN fs : Landed(tables[m], recs[m])
    PROVE  LET r == Reassemble(fs, recs)
           IN  /\ IsList(r.edges)
               /\ \A e \in ToSet(r.edges) : \E m \in DOMAIN fs : LandsIn(tables[m], r.externals, e)
<1> DEFINE main == [m \in DOMAIN fs |-> recs[m].main]
           imports == [m \in DOMAIN fs |-> recs[m].imports]
           values == [m \in DOMAIN fs |-> recs[m].values]
           intree == [m \in DOMAIN fs |-> recs[m].intree]
           callsite == [m \in DOMAIN fs |-> recs[m].callsite]
           minted == [m \in DOMAIN fs |-> recs[m].minted]
           isStub(m) == {i \in DOMAIN recs[m].values : recs[m].values[i].via = "stub"}
           stubs(m) == Picked(recs[m].values, isStub(m))
           dsts(m) == [i \in DOMAIN stubs(m) |-> stubs(m)[i].dst]
           ext == [m \in DOMAIN fs |-> dsts(m)]
           edges == Gathered(fs, main) \o Gathered(fs, imports) \o Gathered(fs, values)
                    \o Gathered(fs, intree) \o Gathered(fs, callsite)
           externals == Distinct(Gathered(fs, minted) \o Gathered(fs, ext))
<1>1. /\ PerFile(fs, LAMBDA m : recs[m].main) = Gathered(fs, main)
      /\ PerFile(fs, LAMBDA m : recs[m].imports) = Gathered(fs, imports)
      /\ PerFile(fs, LAMBDA m : recs[m].values) = Gathered(fs, values)
      /\ PerFile(fs, LAMBDA m : recs[m].intree) = Gathered(fs, intree)
      /\ PerFile(fs, LAMBDA m : recs[m].callsite) = Gathered(fs, callsite)
      /\ PerFile(fs, LAMBDA m : recs[m].minted) = Gathered(fs, minted)
      /\ PerFile(fs, LAMBDA m : dsts(m)) = Gathered(fs, ext)
  <2>1. PerFile(fs, LAMBDA m : recs[m].main) = Gathered(fs, main)
    <3> DEFINE of(m) == IF m \in DOMAIN fs THEN recs[m].main ELSE <<>>
               same(m) == IF m \in DOMAIN fs THEN main[m] ELSE <<>>
    <3>1. [i \in DOMAIN FileOrder |-> of(FileOrder[i])] = [i \in DOMAIN FileOrder |-> same(FileOrder[i])]
      OBVIOUS
    <3>2. /\ PerFile(fs, LAMBDA m : recs[m].main) = FlattenSeq([i \in DOMAIN FileOrder |-> of(FileOrder[i])])
          /\ Gathered(fs, main) = FlattenSeq([i \in DOMAIN FileOrder |-> same(FileOrder[i])])
      BY Zenon DEF PerFile, Concat, Gathered
    <3> HIDE DEF of, same
    <3> QED
      BY <3>1, <3>2
  <2>2. PerFile(fs, LAMBDA m : recs[m].imports) = Gathered(fs, imports)
    <3> DEFINE of(m) == IF m \in DOMAIN fs THEN recs[m].imports ELSE <<>>
               same(m) == IF m \in DOMAIN fs THEN imports[m] ELSE <<>>
    <3>1. [i \in DOMAIN FileOrder |-> of(FileOrder[i])] = [i \in DOMAIN FileOrder |-> same(FileOrder[i])]
      OBVIOUS
    <3>2. /\ PerFile(fs, LAMBDA m : recs[m].imports) = FlattenSeq([i \in DOMAIN FileOrder |-> of(FileOrder[i])])
          /\ Gathered(fs, imports) = FlattenSeq([i \in DOMAIN FileOrder |-> same(FileOrder[i])])
      BY Zenon DEF PerFile, Concat, Gathered
    <3> HIDE DEF of, same
    <3> QED
      BY <3>1, <3>2
  <2>3. PerFile(fs, LAMBDA m : recs[m].values) = Gathered(fs, values)
    <3> DEFINE of(m) == IF m \in DOMAIN fs THEN recs[m].values ELSE <<>>
               same(m) == IF m \in DOMAIN fs THEN values[m] ELSE <<>>
    <3>1. [i \in DOMAIN FileOrder |-> of(FileOrder[i])] = [i \in DOMAIN FileOrder |-> same(FileOrder[i])]
      OBVIOUS
    <3>2. /\ PerFile(fs, LAMBDA m : recs[m].values) = FlattenSeq([i \in DOMAIN FileOrder |-> of(FileOrder[i])])
          /\ Gathered(fs, values) = FlattenSeq([i \in DOMAIN FileOrder |-> same(FileOrder[i])])
      BY Zenon DEF PerFile, Concat, Gathered
    <3> HIDE DEF of, same
    <3> QED
      BY <3>1, <3>2
  <2>4. PerFile(fs, LAMBDA m : recs[m].intree) = Gathered(fs, intree)
    <3> DEFINE of(m) == IF m \in DOMAIN fs THEN recs[m].intree ELSE <<>>
               same(m) == IF m \in DOMAIN fs THEN intree[m] ELSE <<>>
    <3>1. [i \in DOMAIN FileOrder |-> of(FileOrder[i])] = [i \in DOMAIN FileOrder |-> same(FileOrder[i])]
      OBVIOUS
    <3>2. /\ PerFile(fs, LAMBDA m : recs[m].intree) = FlattenSeq([i \in DOMAIN FileOrder |-> of(FileOrder[i])])
          /\ Gathered(fs, intree) = FlattenSeq([i \in DOMAIN FileOrder |-> same(FileOrder[i])])
      BY Zenon DEF PerFile, Concat, Gathered
    <3> HIDE DEF of, same
    <3> QED
      BY <3>1, <3>2
  <2>5. PerFile(fs, LAMBDA m : recs[m].callsite) = Gathered(fs, callsite)
    <3> DEFINE of(m) == IF m \in DOMAIN fs THEN recs[m].callsite ELSE <<>>
               same(m) == IF m \in DOMAIN fs THEN callsite[m] ELSE <<>>
    <3>1. [i \in DOMAIN FileOrder |-> of(FileOrder[i])] = [i \in DOMAIN FileOrder |-> same(FileOrder[i])]
      OBVIOUS
    <3>2. /\ PerFile(fs, LAMBDA m : recs[m].callsite) = FlattenSeq([i \in DOMAIN FileOrder |-> of(FileOrder[i])])
          /\ Gathered(fs, callsite) = FlattenSeq([i \in DOMAIN FileOrder |-> same(FileOrder[i])])
      BY Zenon DEF PerFile, Concat, Gathered
    <3> HIDE DEF of, same
    <3> QED
      BY <3>1, <3>2
  <2>6. PerFile(fs, LAMBDA m : recs[m].minted) = Gathered(fs, minted)
    <3> DEFINE of(m) == IF m \in DOMAIN fs THEN recs[m].minted ELSE <<>>
               same(m) == IF m \in DOMAIN fs THEN minted[m] ELSE <<>>
    <3>1. [i \in DOMAIN FileOrder |-> of(FileOrder[i])] = [i \in DOMAIN FileOrder |-> same(FileOrder[i])]
      OBVIOUS
    <3>2. /\ PerFile(fs, LAMBDA m : recs[m].minted) = FlattenSeq([i \in DOMAIN FileOrder |-> of(FileOrder[i])])
          /\ Gathered(fs, minted) = FlattenSeq([i \in DOMAIN FileOrder |-> same(FileOrder[i])])
      BY Zenon DEF PerFile, Concat, Gathered
    <3> HIDE DEF of, same
    <3> QED
      BY <3>1, <3>2
  <2> HIDE DEF dsts
  <2>7. PerFile(fs, LAMBDA m : dsts(m)) = Gathered(fs, ext)
    <3> DEFINE of(m) == IF m \in DOMAIN fs THEN dsts(m) ELSE <<>>
               same(m) == IF m \in DOMAIN fs THEN ext[m] ELSE <<>>
    <3>1. [i \in DOMAIN FileOrder |-> of(FileOrder[i])] = [i \in DOMAIN FileOrder |-> same(FileOrder[i])]
      OBVIOUS
    <3>2. /\ PerFile(fs, LAMBDA m : dsts(m)) = FlattenSeq([i \in DOMAIN FileOrder |-> of(FileOrder[i])])
          /\ Gathered(fs, ext) = FlattenSeq([i \in DOMAIN FileOrder |-> same(FileOrder[i])])
      BY Zenon DEF PerFile, Concat, Gathered
    <3> HIDE DEF of, same
    <3> QED
      BY <3>1, <3>2
  <2> QED
    BY <2>1, <2>2, <2>3, <2>4, <2>5, <2>6, <2>7
<1>2. Reassemble(fs, recs).edges = edges /\ Reassemble(fs, recs).externals = externals
  <2> DEFINE a == PerFile(fs, LAMBDA m : recs[m].main)
             b == PerFile(fs, LAMBDA m : recs[m].imports)
             c == PerFile(fs, LAMBDA m : recs[m].values)
             d == PerFile(fs, LAMBDA m : recs[m].intree)
             f == PerFile(fs, LAMBDA m : recs[m].callsite)
             g == PerFile(fs, LAMBDA m : recs[m].minted)
             h == PerFile(fs, LAMBDA m : dsts(m))
  <2>1. Reassemble(fs, recs) = [edges |-> a \o b \o c \o d \o f, externals |-> Distinct(g \o h)]
    BY Zenon DEF Reassemble, Matching
  <2>2. /\ edges = a \o b \o c \o d \o f
        /\ externals = Distinct(g \o h)
    <3> HIDE DEF a, b, c, d, f, g, h, main, imports, values, intree, callsite, minted, ext
    <3>1. /\ a = Gathered(fs, main) /\ b = Gathered(fs, imports) /\ c = Gathered(fs, values)
          /\ d = Gathered(fs, intree) /\ f = Gathered(fs, callsite) /\ g = Gathered(fs, minted)
          /\ h = Gathered(fs, ext)
      BY <1>1 DEF a, b, c, d, f, g, h
    <3> QED
      BY <3>1
  <2> HIDE DEF a, b, c, d, f, g, h, edges, externals
  <2> QED
    BY <2>1, <2>2
<1>3. \A m \in DOMAIN fs :
          /\ main[m] = recs[m].main /\ imports[m] = recs[m].imports /\ values[m] = recs[m].values
          /\ intree[m] = recs[m].intree /\ callsite[m] = recs[m].callsite
          /\ minted[m] = recs[m].minted /\ ext[m] = dsts(m)
  OBVIOUS
<1>4. ASSUME NEW m \in DOMAIN fs
      PROVE  /\ IsList(dsts(m))
             /\ \A e \in ToSet(recs[m].values) : e.via = "stub" => e.dst \in ToSet(dsts(m))
  <2> DEFINE own == stubs(m)
             on == dsts(m)
  <2>1. IsList(recs[m].values) /\ \A e \in ToSet(recs[m].values) : Possible(tables[m], e)
    BY DEF Landed
  <2>2. IsList(own) /\ ToSet(own) = {recs[m].values[i] : i \in DOMAIN recs[m].values \cap isStub(m)}
    <3> HIDE DEF isStub
    <3> QED
      BY <2>1, PickedIs
  <2>3. ToSet(own) = {e \in ToSet(recs[m].values) : e.via = "stub"}
    BY <2>2 DEF ToSet
  <2>4. on = [i \in DOMAIN own |-> on[i]] /\ \A i \in DOMAIN own : on[i] = own[i].dst
    OBVIOUS
  <2> HIDE DEF own, on
  <2>5. IsList(on) /\ ToSet(on) = {on[i] : i \in DOMAIN own}
    BY <2>2, <2>4, MappedIs
  <2>6. ToSet(on) = {e.dst : e \in ToSet(own)}
    BY <2>4, <2>5 DEF ToSet
  <2>7. on = dsts(m)
    BY DEF on
  <2> HIDE DEF dsts
  <2> QED
    BY <2>3, <2>5, <2>6, <2>7
<1> HIDE DEF main, imports, values, intree, callsite, minted, ext, dsts
<1> DEFINE Of(f) == /\ IsList(Gathered(fs, f))
                       /\ ToSet(Gathered(fs, f)) = UNION {ToSet(f[m]) : m \in DOMAIN fs}
<1>5. /\ Of(main) /\ Of(imports) /\ Of(values) /\ Of(intree) /\ Of(callsite)
      /\ Of(minted) /\ Of(ext)
  <2>1. \A m \in DOMAIN fs :
            /\ IsList(main[m]) /\ IsList(imports[m]) /\ IsList(values[m]) /\ IsList(intree[m])
            /\ IsList(callsite[m]) /\ IsList(minted[m]) /\ IsList(ext[m])
    BY <1>3, <1>4 DEF Landed, SyntacticIsFull
  <2> QED
    BY <2>1, PerFileIs
<1>6. /\ IsList(edges)
      /\ ToSet(edges) = ToSet(Gathered(fs, main)) \cup ToSet(Gathered(fs, imports))
                        \cup ToSet(Gathered(fs, values)) \cup ToSet(Gathered(fs, intree))
                        \cup ToSet(Gathered(fs, callsite))
  <2> DEFINE two == Gathered(fs, main) \o Gathered(fs, imports)
             three == two \o Gathered(fs, values)
             four == three \o Gathered(fs, intree)
  <2>1. IsList(two) /\ ToSet(two) = ToSet(Gathered(fs, main)) \cup ToSet(Gathered(fs, imports))
    BY <1>5, ListJoin
  <2> HIDE DEF two
  <2>2. IsList(three) /\ ToSet(three) = ToSet(two) \cup ToSet(Gathered(fs, values))
    BY <1>5, <2>1, ListJoin
  <2> HIDE DEF three
  <2>3. IsList(four) /\ ToSet(four) = ToSet(three) \cup ToSet(Gathered(fs, intree))
    BY <1>5, <2>2, ListJoin
  <2>4. edges = four \o Gathered(fs, callsite)
    BY DEF four, three, two
  <2> HIDE DEF four, edges
  <2>5. IsList(edges) /\ ToSet(edges) = ToSet(four) \cup ToSet(Gathered(fs, callsite))
    BY <1>5, <2>3, <2>4, ListJoin
  <2> QED
    BY <2>1, <2>2, <2>3, <2>5
<1>7. ToSet(externals) = ToSet(Gathered(fs, minted)) \cup ToSet(Gathered(fs, ext))
  <2> DEFINE all == Gathered(fs, minted) \o Gathered(fs, ext)
  <2>1. IsList(all) /\ ToSet(all) = ToSet(Gathered(fs, minted)) \cup ToSet(Gathered(fs, ext))
    BY <1>5, ListJoin
  <2> HIDE DEF all
  <2>2. ToSet(Distinct(all)) = ToSet(all)
    BY <2>1, DistinctIs
  <2> QED
    BY <2>1, <2>2 DEF all
<1> HIDE DEF edges, externals
<1>8. ASSUME NEW m \in DOMAIN fs
      PROVE  /\ \A e \in ToSet(main[m]) : LandsIn(tables[m], externals, e)
             /\ \A e \in ToSet(imports[m]) : LandsIn(tables[m], externals, e)
             /\ \A e \in ToSet(values[m]) : LandsIn(tables[m], externals, e)
             /\ \A e \in ToSet(intree[m]) : LandsIn(tables[m], externals, e)
             /\ \A e \in ToSet(callsite[m]) : LandsIn(tables[m], externals, e)
  <2>1. ToSet(recs[m].minted) \subseteq ToSet(externals) /\ ToSet(dsts(m)) \subseteq ToSet(externals)
    BY <1>3, <1>5, <1>7
  <2>2. \A e \in ToSet(recs[m].main) : LandsIn(tables[m], externals, e)
    BY <2>1 DEF Landed, SyntacticIsFull, Lands, InTree, Outside, LandsIn
  <2>3. \A e \in ToSet(recs[m].values) : LandsIn(tables[m], externals, e)
    BY <1>4, <2>1 DEF Landed, Possible, InTree, Outside, LandsIn
  <2>4. \A e \in ToSet(recs[m].imports) \cup ToSet(recs[m].intree) \cup ToSet(recs[m].callsite) :
            LandsIn(tables[m], externals, e)
    BY DEF Landed, SyntacticIsFull, InTree, LandsIn
  <2> QED
    BY <1>3, <2>2, <2>3, <2>4
<1>9. \A e \in ToSet(edges) : \E m \in DOMAIN fs : LandsIn(tables[m], externals, e)
  <2> TAKE e \in ToSet(edges)
  <2>1. PICK m \in DOMAIN fs :
            \/ e \in ToSet(main[m]) \/ e \in ToSet(imports[m]) \/ e \in ToSet(values[m])
            \/ e \in ToSet(intree[m]) \/ e \in ToSet(callsite[m])
    BY <1>5, <1>6
  <2>2. LandsIn(tables[m], externals, e)
    BY <1>8, <2>1
  <2> QED
    BY <2>2
<1> QED
  BY <1>2, <1>6, <1>9

(* Records of whatever projects make a list of known sources and flows.    *)
LEMMA ResultIs ==
    ASSUME NEW fs, DOMAIN fs \subseteq Modules, NEW tables, NEW recs,
           \A m \in DOMAIN fs : Landed(tables[m], recs[m])
    PROVE  LET r == Reassemble(fs, recs)
           IN  /\ EdgeList(r.edges)
               /\ \A e \in ToSet(r.edges) : \E m \in DOMAIN fs : LandsIn(tables[m], r.externals, e)
<1> DEFINE r == Reassemble(fs, recs)
<1>1. /\ IsList(r.edges)
      /\ \A e \in ToSet(r.edges) : \E m \in DOMAIN fs : LandsIn(tables[m], r.externals, e)
  BY ReassembledIs
<1> HIDE DEF r
<1>2. IsFiniteSet(DOMAIN r.edges)
  <2>1. PICK n \in Nat : DOMAIN r.edges = 1 .. n
    BY <1>1, ListIs
  <2> QED
    BY <2>1, FS_Interval
<1>3. \A i \in DOMAIN r.edges : \E m \in DOMAIN fs : Formed(tables[m], r.edges[i])
  BY <1>1 DEF ToSet, LandsIn
<1>4. EdgeList(r.edges)
  BY <1>2, <1>3 DEF EdgeList, Formed, Vias, Flows
<1> QED
  BY <1>1, <1>4 DEF r

LEMMA FullLands ==
    ASSUME NEW fs, IsProject(fs)
    PROVE  LET r == Reassemble(fs, FullResolve(fs))
           IN  \A e \in ToSet(r.edges) : LandsIn(Tables(fs), r.externals, e)
<1> DEFINE r == Reassemble(fs, FullResolve(fs))
           T == Tables(fs)
           tables == [m \in DOMAIN fs |-> T]
<1>1. DOMAIN fs \subseteq Modules /\ \A m \in DOMAIN fs : Landed(T, FullResolve(fs)[m])
  BY FullRecordIs DEF IsProject
<1>2. \A m \in DOMAIN fs : tables[m] = T
  OBVIOUS
<1> HIDE DEF T, tables
<1>3. \A e \in ToSet(r.edges) : \E m \in DOMAIN fs : LandsIn(tables[m], r.externals, e)
  BY <1>1, <1>2, ResultIs
<1> QED
  BY <1>2, <1>3 DEF T

(* binding.py _classify, over every history of patches: no edge of the     *)
(* graph dangles, or leaves the project for a name in one of its packages. *)
THEOREM EdgesStayLanded == DirtySetsCover /\ StubsApart => (Spec => []EdgesLand)
<1> SUFFICES ASSUME DirtySetsCover, StubsApart PROVE Spec => []EdgesLand
  OBVIOUS
<1>1. Spec => []CacheInv
  <2>1. Init => CacheInv
    BY DEF Init, CacheInv
  <2> QED
    BY <2>1, CacheStep, PTL DEF Spec
<1>2. Spec => []IncrementalIsFull
  BY HistoriesAreFull
<1>3. CacheInv /\ IncrementalIsFull => EdgesLand
  <2>1. SUFFICES ASSUME CacheInv, IncrementalIsFull, cache # None PROVE EdgesLand
    BY DEF EdgesLand
  <2>2. /\ IsProject(cache.products)
        /\ result = Reassemble(cache.products, FullResolve(cache.products))
    BY <2>1 DEF CacheInv, IncrementalIsFull
  <2>3. \A e \in ToSet(result.edges) : LandsIn(Tables(cache.products), result.externals, e)
    BY <2>2, FullLands
  <2> QED
    BY <2>1, <2>3 DEF LandsIn, Formed, Away, EdgesLand, Known, Ids
<1> QED
  BY <1>1, <1>2, <1>3, PTL

-----------------------------------------------------------------------------
(* What the cache holds, however stale: the record of each file is one that *)
(* the two passes left for it in some project, of now or of before.        *)
RecordsInv ==
    cache # None =>
        \A m \in DOMAIN cache.products :
            \E fs : IsProject(fs) /\ Landed(Tables(fs), cache.recs[m])

LEMMA ReusedIs ==
    ASSUME CacheInv, RecordsInv, cache # None, NEW edit \in Edits(DOMAIN cache.products),
           NEW m \in DOMAIN Apply(cache.products, edit)
    PROVE  LET new == Apply(cache.products, edit)
               recs == ResolveFiles(new, cache.recs, DirtyAfter(new, edit))
           IN  \E fs : IsProject(fs) /\ Landed(Tables(fs), recs[m])
<1> DEFINE old == cache.products
           new == Apply(old, edit)
           dirty == DirtyAfter(new, edit)
           first == SyntacticPass(Tables(new), cache.recs, dirty)
           recs == ResolveFiles(new, cache.recs, dirty)
<1>1. /\ IsProject(old) /\ IsProject(new)
      /\ DOMAIN new = (DOMAIN old \cup Changed(edit)) \ Deleted(edit)
  BY ApplyIsProject DEF CacheInv
<1>2. Changed(edit) \subseteq dirty
  BY DEF DirtyAfter, DirtySet
<1>3. /\ \A k \in DOMAIN new :
              first[k] = IF k \in dirty THEN SyntacticFile(Tables(new), k) ELSE cache.recs[k]
      /\ recs = [k \in DOMAIN new |->
                    IF k \in dirty THEN ValueFile(Context(new, first), k, first[k]) ELSE first[k]]
  BY SyntacticIs, ResolveIs
<1> HIDE DEF old, new, dirty, first, recs
<1>4. ASSUME NEW k \in DOMAIN new, k \notin dirty
      PROVE  \E fs : IsProject(fs) /\ Landed(Tables(fs), cache.recs[k])
  BY <1>1, <1>2, <1>4 DEF RecordsInv, old
<1>5. ASSUME NEW k \in DOMAIN new PROVE IsList(first[k].main)
  <2>1. CASE k \in dirty
    BY <1>1, <1>3, <2>1, SyntacticFileIs
  <2>2. CASE k \notin dirty
    BY <1>3, <1>4, <2>2 DEF Landed, SyntacticIsFull
  <2> QED
    BY <2>1, <2>2
<1>6. m \in DOMAIN new
  BY DEF new, old
<1>7. CASE m \in dirty
  <2>1. Landed(Tables(new), ValueFile(Context(new, first), m, SyntacticFile(Tables(new), m)))
    BY <1>1, <1>5, <1>6, RecordIs
  <2>2. Landed(Tables(new), recs[m])
    BY <1>3, <1>6, <1>7, <2>1
  <2> QED
    BY <1>1, <2>2 DEF recs, dirty, new, old
<1>8. CASE m \notin dirty
  <2>1. recs[m] = cache.recs[m]
    BY <1>3, <1>6, <1>8
  <2>2. \E fs : IsProject(fs) /\ Landed(Tables(fs), recs[m])
    BY <1>4, <1>6, <1>8, <2>1
  <2> QED
    BY <2>2 DEF recs, dirty, new, old
<1> QED
  BY <1>7, <1>8

LEMMA RecordsStep == CacheInv /\ RecordsInv /\ [Next]_vars => RecordsInv'
<1>1. ASSUME CacheInv, RecordsInv, Next PROVE RecordsInv'
  <2>1. PICK fs, recs :
            /\ fs \in Projects /\ Emit(fs, recs) /\ IsProject(fs) /\ DOMAIN recs = DOMAIN fs
            /\ \/ recs = FullResolve(fs)
               \/ /\ cache # None
                  /\ \E edit \in Edits(DOMAIN cache.products) :
                         /\ fs = Apply(cache.products, edit)
                         /\ recs = ResolveFiles(fs, cache.recs, DirtyAfter(fs, edit))
    BY <1>1, CallIs
  <2>2. cache' = [products |-> fs, recs |-> recs]
    BY <2>1 DEF Emit
  <2>3. ASSUME NEW m \in DOMAIN fs
        PROVE  \E project : IsProject(project) /\ Landed(Tables(project), recs[m])
    <3>1. CASE recs = FullResolve(fs)
      BY <2>1, <3>1, FullRecordIs
    <3>2. ASSUME cache # None, NEW edit \in Edits(DOMAIN cache.products),
                 fs = Apply(cache.products, edit),
                 recs = ResolveFiles(fs, cache.recs, DirtyAfter(fs, edit))
          PROVE  \E project : IsProject(project) /\ Landed(Tables(project), recs[m])
      BY <1>1, <3>2, ReusedIs
    <3> QED
      BY <2>1, <3>1, <3>2
  <2> QED
    BY <2>2, <2>3 DEF RecordsInv
<1>2. RecordsInv /\ UNCHANGED vars => RecordsInv'
  BY DEF RecordsInv, vars
<1> QED
  BY <1>1, <1>2

(* So every edge of every result is one that lands, in some project.       *)
LEMMA EdgesAre ==
    ASSUME CacheInv, RecordsInv, cache # None
    PROVE  /\ EdgeList(result.edges)
           /\ \A e \in ToSet(result.edges) :
                 \E fs : IsProject(fs) /\ LandsIn(Tables(fs), result.externals, e)
<1> DEFINE products == cache.products
           of(m) == CHOOSE fs : IsProject(fs) /\ Landed(Tables(fs), cache.recs[m])
           tables == [m \in DOMAIN products |-> Tables(of(m))]
           r == Reassemble(products, cache.recs)
<1>1. DOMAIN products \subseteq Modules /\ result = r
  BY DEF CacheInv, IsProject
<1>2. ASSUME NEW m \in DOMAIN products
      PROVE  IsProject(of(m)) /\ Landed(tables[m], cache.recs[m]) /\ tables[m] = Tables(of(m))
  <2>1. \E fs : IsProject(fs) /\ Landed(Tables(fs), cache.recs[m])
    BY DEF RecordsInv
  <2>2. IsProject(of(m)) /\ Landed(Tables(of(m)), cache.recs[m])
    BY <2>1, Zenon
  <2> QED
    BY <2>2
<1> HIDE DEF tables, of
<1>3. /\ EdgeList(r.edges)
      /\ \A e \in ToSet(r.edges) : \E m \in DOMAIN products : LandsIn(tables[m], r.externals, e)
  BY <1>1, <1>2, ResultIs
<1> QED
  BY <1>1, <1>2, <1>3

Cached == CacheInv /\ RecordsInv

LEMMA AlwaysCached == Spec => []Cached
<1>1. Init => Cached
  BY DEF Init, Cached, CacheInv, RecordsInv
<1>2. Cached /\ [Next]_vars => Cached'
  BY CacheStep, RecordsStep DEF Cached
<1> QED
  BY <1>1, <1>2, PTL DEF Spec

-----------------------------------------------------------------------------
(* Names beyond a value.                                                   *)
(* The project has no top-level package of the name of one that the tables *)
(* of the standard library have.                                           *)
ModulesApart == \A m \in Modules : ~HasModule(<<Head(m)>>)

LEMMA BeyondIs ==
    ASSUME NEW q \in Words, BeyondValue(q)
    PROVE  HasModule(<<Head(q)>>)
<1> DEFINE path(k) == SubSeq(q, 1, k)
<1>1. PICK k \in 2 .. Len(q) - 1 : ModuleMember(Front(path(k)), Last(path(k))) # None
  BY DEF BeyondValue
<1>2. Len(q) \in Nat /\ k \in Nat /\ 2 <= k /\ k <= Len(q) - 1
  BY <1>1 DEF Words
<1>3. Front(path(k)) = path(k - 1)
  BY <1>2, FirstWords DEF Front
<1>4. path(k - 1) \in DOMAIN StubModules
  BY <1>1, <1>3, ModuleMemberIs DEF HasModule
<1>5. 1 \in 1 .. Len(q) /\ k - 1 \in 1 .. Len(q) /\ 1 \in 1 .. k - 1
  BY <1>2
<1>6. Len(path(k - 1)) = k - 1 /\ SubSeq(path(k - 1), 1, 1) = path(1)
  BY <1>5, FirstWords
<1>7. path(1) \in Words /\ Len(path(1)) = 1 /\ path(1)[1] = q[1]
  BY <1>5, FirstWords
<1> HIDE DEF path
<1>8. path(1) \in DOMAIN StubModules
  <2>1. \A i \in 1 .. Len(path(k - 1)) : SubSeq(path(k - 1), 1, i) \in DOMAIN StubModules
    BY <1>4, ChainsAssumption
  <2> QED
    BY <1>5, <1>6, <2>1
<1>9. path(1) = <<Head(q)>>
  <2>1. Head(q) = q[1]
    BY <1>2 DEF Words
  <2> QED
    BY <1>7, <2>1 DEF Words
<1> QED
  BY <1>8, <1>9 DEF HasModule

LEMMA SymbolSpare ==
    ASSUME ModulesApart, NEW fs, IsProject(fs), NEW q \in Ids(Tables(fs))
    PROVE  ~BeyondValue(q)
<1>1. DOMAIN fs \subseteq Modules /\ \A m \in DOMAIN fs : Extracted(m, fs[m])
  BY TablesAre
<1>2. q \in {s.id : s \in Symbols(fs)}
  BY TablesAre
<1>3. PICK m \in DOMAIN fs : \E s \in ToSet(fs[m].symbols) : q = s.id
  BY <1>2 DEF Symbols
<1>4. q \in Name /\ Head(q) = Head(m)
  BY <1>1, <1>3 DEF Extracted
<1>5. q \in Words
  BY <1>4 DEF Name, QualName, Words, Word
<1> QED
  BY <1>1, <1>4, <1>5, BeyondIs DEF ModulesApart

(* chains.py:18-20, over every history of patches, reused records and all: *)
(* no edge of certainty leaves the project for a name beyond a value.  The *)
(* premise says that a stale edge cannot be taken for one of these: that   *)
(* there are none, or that no package of the project shares its name with  *)
(* one of the standard library.                                            *)
THEOREM DefiniteStaysNamespace ==
    DirtySetsCover \/ ModulesApart => (Spec => []DefiniteIsNamespace)
<1>1. Spec => []CacheInv
  BY AlwaysCached, PTL DEF Cached
<1>2. ASSUME DirtySetsCover PROVE Spec => []DefiniteIsNamespace
  <2>1. Spec => []IncrementalIsFull
    BY <1>2, HistoriesAreFull
  <2>2. CacheInv /\ IncrementalIsFull => DefiniteIsNamespace
    <3>1. SUFFICES ASSUME CacheInv, IncrementalIsFull, cache # None PROVE DefiniteIsNamespace
      BY DEF DefiniteIsNamespace
    <3>2. \A e \in ToSet(result.edges) : LandsIn(Tables(cache.products), result.externals, e)
      BY <3>1, FullLands DEF CacheInv, IncrementalIsFull
    <3> QED
      BY <3>2 DEF LandsIn, Spare, Known, Ids, DefiniteIsNamespace
  <2> QED
    BY <1>1, <2>1, <2>2, PTL
<1>3. ASSUME ModulesApart PROVE Spec => []DefiniteIsNamespace
  <2>1. Cached => DefiniteIsNamespace
    <3>1. SUFFICES ASSUME CacheInv, RecordsInv, cache # None PROVE DefiniteIsNamespace
      BY DEF DefiniteIsNamespace, Cached
    <3>2. \A e \in ToSet(result.edges) :
              \E fs : IsProject(fs) /\ LandsIn(Tables(fs), result.externals, e)
      BY <3>1, EdgesAre
    <3>3. \A e \in ToSet(result.edges) : Spare(e) \/ ~BeyondValue(e.dst)
      BY <1>3, <3>2, SymbolSpare DEF LandsIn
    <3> QED
      BY <3>3 DEF Spare, DefiniteIsNamespace
  <2> QED
    BY <2>1, AlwaysCached, PTL
<1> QED
  BY <1>2, <1>3

-----------------------------------------------------------------------------
(* What a receiver may reach: the targets of its edges, type by type.      *)
(* The targets of edges; of those to the same target, the first.           *)
Dsts(edges) == {e.dst : e \in ToSet(edges)}
FirstEdges(s) == DistinctBy(LAMBDA e : e.dst, s)

LEMMA FirstEdgesAre ==
    ASSUME NEW s, IsList(s)
    PROVE  /\ IsList(FirstEdges(s)) /\ ToSet(FirstEdges(s)) \subseteq ToSet(s)
           /\ \A i \in DOMAIN s : \E k \in DOMAIN s :
                 k <= i /\ s[k].dst = s[i].dst /\ s[k] \in ToSet(FirstEdges(s))
           /\ Dsts(FirstEdges(s)) = Dsts(s)
<1> DEFINE key == [i \in DOMAIN s |-> s[i].dst]
           J == {i \in DOMAIN s : \A j \in 1 .. i - 1 : s[j].dst # s[i].dst}
           K == Firsts(s, key)
<1>1. FirstEdges(s) = Picked(s, J)
  BY Zenon DEF FirstEdges, DistinctBy
<1>2. J = K
  <2>1. PICK n \in Nat : DOMAIN s = 1 .. n
    BY ListIs
  <2>2. \A i \in DOMAIN s : \A j \in 1 .. i - 1 : j \in DOMAIN s
    BY <2>1
  <2> QED
    BY <2>2 DEF Firsts
<1>3. \A i \in DOMAIN s : key[i] = s[i].dst
  OBVIOUS
<1> HIDE DEF key, J
<1>4. /\ IsList(Picked(s, K)) /\ ToSet(Picked(s, K)) \subseteq ToSet(s)
      /\ \A i \in DOMAIN s :
            \E k \in DOMAIN s : k <= i /\ key[k] = key[i] /\ s[k] \in ToSet(Picked(s, K))
  BY FirstsKept
<1> HIDE DEF K
<1>5. Dsts(FirstEdges(s)) = Dsts(s)
  <2>1. \A e \in ToSet(s) : \E x \in ToSet(FirstEdges(s)) : x.dst = e.dst
    BY <1>1, <1>2, <1>3, <1>4 DEF ToSet
  <2> QED
    BY <1>1, <1>2, <1>4, <2>1 DEF Dsts
<1> QED
  BY <1>1, <1>2, <1>3, <1>4, <1>5

(* The class that a type of a receiver is found to have, if any.           *)
TypeClass(ctx, m, t) ==
    LET class == ResolveTypeName(ctx.T, m, t)
        b == Bind(ctx.T, m, t)
        made == IF b = None \/ b.external THEN None ELSE b.id
    IN  IF class # None THEN class ELSE Landing(ctx, At(None, FALSE, FALSE), made, FALSE).class

LEMMA ArmClassIs ==
    ASSUME NEW ctx, NEW m, NEW ref, NEW t
    PROVE  ArmOf(ctx, ref, ResolveTypeName(ctx.T, m, t), Bind(ctx.T, m, t)).class = TypeClass(ctx, m, t)
BY DEF ArmOf, TypeClass, Landing, At

(* A type from outside the project has none.                               *)
LEMMA NoClassOutside ==
    ASSUME NEW ctx, NEW m, NEW t, ResolveExternalTypeName(ctx.T, m, t) # None
    PROVE  TypeClass(ctx, m, t) = None
<1> DEFINE target == Target(ctx.T, m, t)
           q == FollowReexports(ctx.T, target)
           b == Bind(ctx.T, m, t)
<1>1. ResolveTypeName(ctx.T, m, t) = None /\ (b = None \/ b.external)
  <2>1. CASE target = None
    <3>1. q = None
      BY <2>1 DEF FollowReexports
    <3> QED
      BY <2>1, <3>1 DEF ResolveTypeName, OnlyClass, Bind, BindTarget, Bound
  <2>2. CASE target # None
    <3>1. ~Known(ctx.T, q) /\ ~Internal(ctx.T, q)
      BY <2>2 DEF ResolveExternalTypeName, OnlyExternal, OrBuiltin
    <3> QED
      BY <2>2, <3>1 DEF ResolveTypeName, OnlyClass, KindOf, Bind, BindTarget, Classify, Bound
  <2> QED
    BY <2>1, <2>2
<1> HIDE DEF b
<1> QED
  BY <1>1 DEF TypeClass, Landing, At, b

OneOfEach(arms) == DistinctBy(LAMBDA a : a.class, Matching(arms, LAMBDA a : a.class # None))

LEMMA ClassesFrom ==
    ASSUME NEW ctx, NEW m, NEW ref, Head(ref.name) # "self", NEW types, IsList(types)
    PROVE  LET classes == ReceiverClasses(ctx, m, ref, types)
           IN  /\ {a.class : a \in ToSet(classes)} = {TypeClass(ctx, m, t) : t \in ToSet(types)} \ {None}
               /\ Len(classes) \in Nat /\ Len(types) \in Nat
               /\ \A t \in ToSet(types) : TypeClass(ctx, m, t) = None => Len(classes) < Len(types)
<1> DEFINE arm(i) == ArmOf(ctx, ref, ResolveTypeName(ctx.T, m, types[i]), Bind(ctx.T, m, types[i]))
           arms == [i \in DOMAIN types |-> arm(i)]
           I == {i \in DOMAIN arms : arms[i].class # None}
           some == Picked(arms, I)
           key == [i \in DOMAIN some |-> some[i].class]
           J == {i \in DOMAIN some : \A j \in 1 .. i - 1 : some[j].class # some[i].class}
           K == Firsts(some, key)
           firsts == Picked(some, J)
<1>1. ReceiverClasses(ctx, m, ref, types) = firsts
  <2> DEFINE self == <<At(SelfClass(ctx.T, ref.src), TRUE, FALSE)>>
  <2>1. ReceiverClasses(ctx, m, ref, types) = OneOfEach(IF Head(ref.name) = "self" THEN self ELSE arms)
    BY Zenon DEF ReceiverClasses, OneOfEach
  <2>2. OneOfEach(arms) = firsts
    BY Zenon DEF OneOfEach, DistinctBy, Matching
  <2> HIDE DEF self, arms
  <2> QED
    BY <2>1, <2>2
<1>2. DOMAIN arms = DOMAIN types /\ \A i \in DOMAIN types : arms[i].class = TypeClass(ctx, m, types[i])
  BY ArmClassIs
<1>3. arms = [i \in DOMAIN types |-> arms[i]]
  OBVIOUS
<1> HIDE DEF arms
<1>4. IsList(arms) /\ Len(arms) = Len(types) /\ Len(types) \in Nat
  <2>1. IsList(arms)
    BY <1>3, MappedIs
  <2>2. PICK n \in Nat : DOMAIN types = 1 .. n /\ types = [i \in 1 .. n |-> types[i]]
    BY ListIs
  <2>3. Len(types) \in Nat /\ DOMAIN types = 1 .. Len(types) /\ Len(arms) \in Nat /\ DOMAIN arms = 1 .. Len(arms)
    BY <2>1 DEF IsList
  <2> QED
    BY <1>2, <2>1, <2>3
<1>5. /\ IsList(some) /\ ToSet(some) = {arms[i] : i \in DOMAIN arms \cap I}
      /\ Len(some) \in Nat /\ Len(some) <= Len(arms)
      /\ (\E i \in DOMAIN arms : i \notin I) => Len(some) < Len(arms)
  <2> HIDE DEF I
  <2> QED
    BY <1>4, PickedIs, PickedShort
<1>6. {a.class : a \in ToSet(some)} = {TypeClass(ctx, m, t) : t \in ToSet(types)} \ {None}
  <2> HIDE DEF some
  <2>1. ASSUME NEW a \in ToSet(some)
        PROVE  a.class \in {TypeClass(ctx, m, t) : t \in ToSet(types)} \ {None}
    <3>1. PICK i \in DOMAIN arms : i \in I /\ a = arms[i]
      BY <1>5
    <3> QED
      BY <1>2, <3>1 DEF ToSet
  <2>2. ASSUME NEW t \in ToSet(types), TypeClass(ctx, m, t) # None
        PROVE  \E a \in ToSet(some) : a.class = TypeClass(ctx, m, t)
    <3>1. PICK i \in DOMAIN types : t = types[i]
      BY DEF ToSet
    <3>2. arms[i].class = TypeClass(ctx, m, t) /\ i \in DOMAIN arms \cap I
      BY <1>2, <2>2, <3>1
    <3>3. arms[i] \in ToSet(some)
      BY <1>5, <3>2
    <3> QED
      BY <3>2, <3>3
  <2> QED
    BY <2>1, <2>2
<1> HIDE DEF some
<1>7. J = K
  <2>1. PICK n \in Nat : DOMAIN some = 1 .. n
    BY <1>5, ListIs
  <2>2. \A i \in DOMAIN some : \A j \in 1 .. i - 1 : j \in DOMAIN some
    BY <2>1
  <2> QED
    BY <2>2 DEF Firsts
<1>8. \A i \in DOMAIN some : key[i] = some[i].class
  OBVIOUS
<1> HIDE DEF key, J
<1>9. /\ IsList(Picked(some, K)) /\ ToSet(Picked(some, K)) \subseteq ToSet(some)
      /\ \A i \in DOMAIN some :
            \E k \in DOMAIN some : k <= i /\ key[k] = key[i] /\ some[k] \in ToSet(Picked(some, K))
  <2>1. IsList(some)
    BY <1>5
  <2> QED
    BY <2>1, FirstsKept
<1> HIDE DEF K
<1>10. Len(firsts) \in Nat /\ Len(firsts) <= Len(some)
  BY <1>5, PickedShort
<1> HIDE DEF firsts
<1>11. {a.class : a \in ToSet(firsts)} = {a.class : a \in ToSet(some)}
  <2>1. \A a \in ToSet(some) : \E x \in ToSet(firsts) : x.class = a.class
    BY <1>7, <1>8, <1>9 DEF firsts, ToSet
  <2> QED
    BY <1>7, <1>9, <2>1 DEF firsts
<1>12. ASSUME NEW t \in ToSet(types), TypeClass(ctx, m, t) = None PROVE Len(firsts) < Len(types)
  <2>1. \E i \in DOMAIN arms : i \notin I
    BY <1>2, <1>12 DEF ToSet
  <2>2. Len(some) < Len(arms)
    BY <1>5, <2>1
  <2> QED
    BY <1>4, <1>5, <1>10, <2>2
<1> QED
  BY <1>1, <1>4, <1>6, <1>10, <1>11, <1>12

(* The edges of a way to their targets: none is a name match.              *)
Typed(flow, edges) == \A e \in ToSet(edges) : e.via # "heuristic" /\ e.flow = flow

LEMMA FlowEdgeIs ==
    ASSUME NEW ref, NEW dst, NEW via, NEW flow
    PROVE  LET e == [Edge(ref, dst, via) EXCEPT !.flow = flow]
           IN  e.dst = dst /\ e.via = via /\ e.flow = flow
BY DEF Edge

LEMMA MemberTargets ==
    ASSUME NEW ctx, NEW ref, NEW reached, IsList(reached), NEW name, NEW kinds, NEW flow
    PROVE  LET edges == MemberEdges(ctx, ref, reached, name, kinds, flow)
           IN  /\ Dsts(edges) = {MemberLookup(ctx, at.class, name, kinds) : at \in ToSet(reached)} \ {None}
               /\ Typed(flow, edges)
<1> DEFINE source(at) == IF at.inferred \/ flow = "may" THEN "inference" ELSE "annotation"
           to(i) == MemberLookup(ctx, reached[i].class, name, kinds)
           edges == [i \in DOMAIN reached |->
                        [Edge(ref, to(i), source(reached[i])) EXCEPT !.flow = flow]]
           I == {i \in DOMAIN edges : edges[i].dst # None}
           some == Picked(edges, I)
<1>1. MemberEdges(ctx, ref, reached, name, kinds, flow) = FirstEdges(some)
  BY Zenon DEF MemberEdges, FirstEdges, Matching
<1>2. ASSUME NEW i \in DOMAIN reached
      PROVE  edges[i].dst = to(i) /\ edges[i].via # "heuristic" /\ edges[i].flow = flow
  <2>1. source(reached[i]) # "heuristic"
    OBVIOUS
  <2>2. edges[i] = [Edge(ref, to(i), source(reached[i])) EXCEPT !.flow = flow]
    OBVIOUS
  <2> HIDE DEF edges, to, source
  <2> QED
    BY <2>1, <2>2, FlowEdgeIs
<1>3. DOMAIN edges = DOMAIN reached /\ edges = [i \in DOMAIN reached |-> edges[i]]
  OBVIOUS
<1> HIDE DEF edges
<1>4. IsList(edges)
  BY <1>3, MappedIs
<1>5. IsList(some) /\ ToSet(some) = {edges[i] : i \in DOMAIN edges \cap I}
  <2> HIDE DEF I
  <2> QED
    BY <1>4, PickedIs
<1>6. Typed(flow, some)
  BY <1>2, <1>3, <1>5 DEF Typed
<1>7. Dsts(some) = {MemberLookup(ctx, at.class, name, kinds) : at \in ToSet(reached)} \ {None}
  <2>1. Dsts(some) = {edges[i].dst : i \in DOMAIN edges \cap I}
    BY <1>5 DEF Dsts
  <2>2. {edges[i].dst : i \in DOMAIN edges \cap I} = {to(i) : i \in DOMAIN reached} \ {None}
    BY <1>2, <1>3
  <2>3. {to(i) : i \in DOMAIN reached} = {MemberLookup(ctx, at.class, name, kinds) : at \in ToSet(reached)}
    BY DEF ToSet
  <2> HIDE DEF some, to, I
  <2> QED
    BY <2>1, <2>2, <2>3
<1> HIDE DEF some
<1>8. Dsts(FirstEdges(some)) = Dsts(some) /\ Typed(flow, FirstEdges(some))
  BY <1>5, <1>6, FirstEdgesAre DEF Typed
<1> QED
  BY <1>1, <1>7, <1>8

(* The member that a reference to a class reaches, and the one of a type   *)
(* from outside the project.                                               *)
Way(ref) == Hops(Trail(ref), Len(Members(ref)) - 1)
Sought(ref) == IF ref.chain = <<>> THEN MemberKinds(IsRead(ref)) ELSE Callable

MemberOf(ctx, ref, class) ==
    MemberLookup(ctx, Thread(ctx, At(class, FALSE, FALSE), Way(ref)).class,
                 Last(Trail(ref)), Sought(ref))

HasMember(ref, q, name) ==
    LET member == TypeMember(q, Head(name))
    IN  q # None /\ member # None /\ (IsRead(ref) \/ member.kind \in {"method", "func", "class"})

StubTargetsOf(ctx, m, ref, types, name) ==
    {q \o name : q \in {p \in {ResolveExternalTypeName(ctx.T, m, t) : t \in ToSet(types)} :
                           HasMember(ref, p, name)}}

LEMMA StubTargets ==
    ASSUME NEW ctx, NEW m, NEW ref, NEW name, NEW arms, IsList(arms.types)
    PROVE  LET edges == StubEdges(ctx, m, ref, name, arms)
           IN  Dsts(edges) = StubTargetsOf(ctx, m, ref, arms.types, name) /\ Typed(arms.flow, edges)
<1> DEFINE usable(member) == member # None /\
                             (IsRead(ref) \/ member.kind \in {"method", "func", "class"})
           has(q) == q # None /\ usable(TypeMember(q, Head(name)))
           external == [i \in DOMAIN arms.types |->
                           ResolveExternalTypeName(ctx.T, m, arms.types[i])]
           I == {i \in DOMAIN external : has(external[i])}
           some == Picked(external, I)
           targets == Distinct(some)
           edges == [i \in DOMAIN targets |->
                       [Edge(ref, targets[i] \o name, "stub") EXCEPT !.flow = arms.flow]]
<1>1. StubEdges(ctx, m, ref, name, arms) = edges
  BY Zenon DEF StubEdges, Matching
<1>2. \A q : has(q) <=> HasMember(ref, q, name)
  BY DEF HasMember
<1>3. /\ external = [i \in DOMAIN arms.types |-> external[i]] /\ DOMAIN external = DOMAIN arms.types
      /\ \A i \in DOMAIN arms.types : external[i] = ResolveExternalTypeName(ctx.T, m, arms.types[i])
  OBVIOUS
<1> HIDE DEF external, has
<1>4. IsList(external)
  BY <1>3, MappedIs
<1>5. IsList(some) /\ ToSet(some) = {external[i] : i \in DOMAIN external \cap I}
  <2> HIDE DEF I
  <2> QED
    BY <1>4, PickedIs
<1>6. ToSet(some) = {p \in {ResolveExternalTypeName(ctx.T, m, t) : t \in ToSet(arms.types)} :
                       HasMember(ref, p, name)}
  <2>1. DOMAIN external \cap I = {i \in DOMAIN external : HasMember(ref, external[i], name)}
    BY <1>2
  <2> HIDE DEF I, some
  <2>2. ToSet(some) = {external[i] : i \in {k \in DOMAIN arms.types : HasMember(ref, external[k], name)}}
    BY <1>3, <1>5, <2>1
  <2>3. {external[i] : i \in DOMAIN arms.types} = {ResolveExternalTypeName(ctx.T, m, t) : t \in ToSet(arms.types)}
    BY <1>3 DEF ToSet
  <2>4. {external[i] : i \in {k \in DOMAIN arms.types : HasMember(ref, external[k], name)}}
        = {p \in {external[i] : i \in DOMAIN arms.types} : HasMember(ref, p, name)}
    OBVIOUS
  <2> QED
    BY <2>2, <2>3, <2>4
<1> HIDE DEF some
<1>7. IsList(targets) /\ ToSet(targets) = ToSet(some)
  BY <1>5, DistinctIs
<1> HIDE DEF targets
<1>8. edges = [i \in DOMAIN targets |-> edges[i]]
  OBVIOUS
<1>9. ASSUME NEW i \in DOMAIN targets
      PROVE  edges[i].dst = targets[i] \o name /\ edges[i].via # "heuristic" /\ edges[i].flow = arms.flow
  <2>1. edges[i] = [Edge(ref, targets[i] \o name, "stub") EXCEPT !.flow = arms.flow]
    OBVIOUS
  <2>2. /\ edges[i].dst = targets[i] \o name /\ edges[i].via = "stub" /\ edges[i].flow = arms.flow
    <3> DEFINE dst == targets[i] \o name
    <3>1. edges[i] = [Edge(ref, dst, "stub") EXCEPT !.flow = arms.flow]
      BY <2>1
    <3> HIDE DEF edges, dst
    <3>2. edges[i].dst = dst /\ edges[i].via = "stub" /\ edges[i].flow = arms.flow
      BY <3>1, FlowEdgeIs
    <3> QED
      BY <3>2 DEF dst
  <2> HIDE DEF edges
  <2> QED
    BY <2>2
<1> HIDE DEF edges
<1>10. ToSet(edges) = {edges[i] : i \in DOMAIN targets}
  BY <1>7, <1>8, MappedIs
<1>11. Dsts(edges) = {q \o name : q \in ToSet(targets)}
  <2> DEFINE to(i) == targets[i] \o name
  <2>1. \A i \in DOMAIN targets : edges[i].dst = to(i)
    BY <1>9
  <2>2. {to(i) : i \in DOMAIN targets} = {q \o name : q \in ToSet(targets)}
    BY Zenon DEF ToSet
  <2> HIDE DEF to
  <2>3. Dsts(edges) = {to(i) : i \in DOMAIN targets}
    BY <1>10, <2>1 DEF Dsts
  <2> QED
    BY <2>2, <2>3
<1>12. Typed(arms.flow, edges)
  BY <1>9, <1>10 DEF Typed
<1> QED
  BY <1>1, <1>6, <1>7, <1>11, <1>12 DEF StubTargetsOf

MemberTargetsOf(ctx, m, ref, types) ==
    {MemberOf(ctx, ref, class) : class \in {TypeClass(ctx, m, t) : t \in ToSet(types)} \ {None}} \ {None}

(* Everything that a receiver of these types may reach.                    *)
AllTargets(ctx, m, ref, types) ==
    MemberTargetsOf(ctx, m, ref, types)
    \cup (IF Len(Trail(ref)) = 1 THEN StubTargetsOf(ctx, m, ref, types, Last(Trail(ref))) ELSE {})

LEMMA ArmTargets ==
    ASSUME NEW ctx, Indexed(ctx), NEW m, NEW ref, Written(ctx.T, ref), Head(ref.name) # "self",
           NEW arms, IsList(arms.types), arms.flow \in Flows
    PROVE  LET edges == ArmEdges(ctx, m, ref, arms).edges
           IN  /\ IsList(edges) /\ Typed(arms.flow, edges)
               /\ Dsts(edges) = AllTargets(ctx, m, ref, arms.types)
<1> DEFINE hops == Way(ref)
           name == Last(Trail(ref))
           classes == ReceiverClasses(ctx, m, ref, arms.types)
           reached == [i \in DOMAIN classes |-> Thread(ctx, classes[i], hops)]
           found == MemberEdges(ctx, ref, reached, name, Sought(ref), arms.flow)
           given == StubEdges(ctx, m, ref, name, arms)
           isOne == Len(Trail(ref)) = 1
           stubs == IF isOne /\ Len(reached) < Len(arms.types) THEN given ELSE <<>>
           edges == ArmEdges(ctx, m, ref, arms).edges
           to(at) == MemberLookup(ctx, at.class, name, Sought(ref))
<1>1. edges = found \o stubs
  BY DEF ArmEdges, Arrive, Way, Sought
<1>2. /\ Len(Members(ref)) \in Nat /\ Len(Trail(ref)) \in Nat /\ (isOne => name \in QualName)
      /\ ref.src \in Ids(ctx.T)
  BY TrailIs DEF Written
<1>3. PICK n \in Nat : DOMAIN hops = 1 .. n /\ \A i \in 1 .. n : hops[i].read \in BOOLEAN
  <2>1. Len(Members(ref)) - 1 \in Int
    BY <1>2
  <2> QED
    BY <1>2, <2>1, HopsAre DEF Way
<1>4. IsList(classes) /\ \A i \in DOMAIN classes : Within(ctx, classes[i])
  BY ClassesAre
<1>5. /\ {a.class : a \in ToSet(classes)} = {TypeClass(ctx, m, t) : t \in ToSet(arms.types)} \ {None}
      /\ Len(classes) \in Nat /\ Len(arms.types) \in Nat
      /\ \A t \in ToSet(arms.types) : TypeClass(ctx, m, t) = None => Len(classes) < Len(arms.types)
  BY ClassesFrom
<1> HIDE DEF classes
<1>6. /\ reached = [i \in DOMAIN classes |-> reached[i]] /\ DOMAIN reached = DOMAIN classes
      /\ \A i \in DOMAIN classes : reached[i] = Thread(ctx, classes[i], hops)
  OBVIOUS
<1> HIDE DEF reached
<1>7. IsList(reached) /\ ToSet(reached) = {reached[i] : i \in DOMAIN classes}
  BY <1>4, <1>6, MappedIs
<1>8. Len(reached) = Len(classes)
  <2>1. /\ Len(reached) \in Nat /\ DOMAIN reached = 1 .. Len(reached)
        /\ Len(classes) \in Nat /\ DOMAIN classes = 1 .. Len(classes)
    BY <1>4, <1>7 DEF IsList
  <2> QED
    BY <1>6, <2>1
<1>9. ASSUME NEW i \in DOMAIN classes PROVE to(reached[i]) = MemberOf(ctx, ref, classes[i].class)
  <2> DEFINE other == At(classes[i].class, FALSE, FALSE)
  <2>1. other.class = classes[i].class
    BY DEF At
  <2> HIDE DEF other, hops
  <2>2. Thread(ctx, classes[i], hops).class = Thread(ctx, other, hops).class
    BY <1>3, <1>4, <2>1, SameClass
  <2> QED
    BY <1>6, <2>2 DEF MemberOf, other, hops
<1>10. Dsts(found) = MemberTargetsOf(ctx, m, ref, arms.types) /\ Typed(arms.flow, found)
  <2>1. Dsts(found) = {to(at) : at \in ToSet(reached)} \ {None} /\ Typed(arms.flow, found)
    BY <1>7, MemberTargets
  <2>2. {to(at) : at \in ToSet(reached)} = {MemberOf(ctx, ref, a.class) : a \in ToSet(classes)}
    <3> HIDE DEF to, hops
    <3>1. {to(at) : at \in ToSet(reached)} = {to(reached[i]) : i \in DOMAIN classes}
      BY <1>7
    <3>2. ToSet(classes) = {classes[i] : i \in DOMAIN classes}
      BY DEF ToSet
    <3> QED
      BY <1>9, <3>1, <3>2
  <2>3. {MemberOf(ctx, ref, a.class) : a \in ToSet(classes)}
        = {MemberOf(ctx, ref, class) : class \in {a.class : a \in ToSet(classes)}}
    OBVIOUS
  <2> HIDE DEF to, found
  <2> QED
    BY <1>5, <2>1, <2>2, <2>3 DEF MemberTargetsOf
<1>11. /\ Dsts(given) = StubTargetsOf(ctx, m, ref, arms.types, name) /\ Typed(arms.flow, given)
  BY StubTargets
<1>12. Len(reached) < Len(arms.types) \/ StubTargetsOf(ctx, m, ref, arms.types, name) = {}
  <2> SUFFICES ASSUME NEW t \in ToSet(arms.types), ResolveExternalTypeName(ctx.T, m, t) # None
               PROVE  Len(reached) < Len(arms.types)
    BY DEF StubTargetsOf, HasMember
  <2> QED
    BY <1>5, <1>8, NoClassOutside
<1>13. ToSet(<<>>) = {} /\ IsList(<<>>)
  BY DEF IsList, ToSet
<1>14. /\ Dsts(stubs) = IF isOne THEN StubTargetsOf(ctx, m, ref, arms.types, name) ELSE {}
       /\ Typed(arms.flow, stubs)
  <2> HIDE DEF isOne, given, name
  <2>1. Dsts(<<>>) = {} /\ Typed(arms.flow, <<>>)
    BY <1>13 DEF Dsts, Typed
  <2> QED
    BY <1>11, <1>12, <2>1
<1>15. IsList(edges)
  BY ArmEdgesAre
<1>16. IsList(found) /\ IsList(stubs)
  <2>1. IsList(found)
    <3>1. \A i \in DOMAIN reached : Within(ctx, reached[i])
      <4> HIDE DEF hops
      <4> QED
        BY <1>3, <1>4, <1>6, ThreadIs
    <3> QED
      BY <1>2, <1>7, <3>1, MemberEdgesAre
  <2>2. isOne => IsList(given)
    BY <1>2, StubEdgesAre
  <2> HIDE DEF isOne, given, found
  <2> QED
    BY <1>13, <2>1, <2>2
<1> HIDE DEF found, stubs, edges
<1>17. ToSet(edges) = ToSet(found) \cup ToSet(stubs)
  BY <1>1, <1>16, ListJoin
<1>18. Dsts(edges) = Dsts(found) \cup Dsts(stubs) /\ Typed(arms.flow, edges)
  BY <1>10, <1>14, <1>17 DEF Dsts, Typed
<1> QED
  BY <1>10, <1>14, <1>15, <1>18 DEF AllTargets, edges

-----------------------------------------------------------------------------
Live(edges) == Matching(edges, LAMBDA e : e.flow # "may")

LEMMA LiveIs ==
    ASSUME NEW edges, IsList(edges)
    PROVE  ToSet(Live(edges)) = {e \in ToSet(edges) : e.flow # "may"}
<1> DEFINE I == {i \in DOMAIN edges : edges[i].flow # "may"}
<1>1. Live(edges) = Picked(edges, I)
  BY Zenon DEF Live, Matching
<1>2. ToSet(Picked(edges, I)) = {edges[i] : i \in DOMAIN edges \cap I}
  <2> HIDE DEF I
  <2> QED
    BY PickedIs
<1> QED
  BY <1>1, <1>2 DEF ToSet

LEMMA NameMatches ==
    ASSUME NEW ctx, Indexed(ctx), NEW ref, ref.src \in Ids(ctx.T), NEW name
    PROVE  LET edges == HeuristicEdges(ctx, ref, name)
           IN  Targets(edges) = {} /\ Targets(Live(edges)) = {}
<1> DEFINE found == Candidates(ctx, name, IsRead(ref))
           each == [i \in DOMAIN found |-> Edge(ref, found[i].id, "heuristic")]
           edges == HeuristicEdges(ctx, ref, name)
<1>1. edges = IF Len(found) > HeuristicCap THEN <<>> ELSE each
  BY DEF HeuristicEdges, EdgesUnlessMany
<1>2. \A e \in ToSet(each) : e.via = "heuristic"
  <2>1. \A i \in DOMAIN found : Edge(ref, found[i].id, "heuristic").via = "heuristic"
    BY DEF Edge
  <2>2. \A i \in DOMAIN each : i \in DOMAIN found /\ each[i] = Edge(ref, found[i].id, "heuristic")
    OBVIOUS
  <2> HIDE DEF each, found
  <2> QED
    BY <2>1, <2>2 DEF ToSet
<1>3. ToSet(<<>>) = {}
  BY DEF ToSet
<1>4. IsList(edges)
  BY HeuristicsAre
<1> HIDE DEF each, found
<1>5. \A e \in ToSet(edges) : e.via = "heuristic"
  BY <1>1, <1>2, <1>3
<1> HIDE DEF edges
<1>6. ToSet(Live(edges)) \subseteq ToSet(edges)
  BY <1>4, LiveIs
<1> QED
  BY <1>5, <1>6 DEF Targets, edges

(* The edges of two sets of types: those of the types at the use are live, *)
(* and the first of their target.                                          *)
LEMMA SplitTargets ==
    ASSUME NEW a, IsList(a), NEW b, IsList(b), NEW flow, flow # "may",
           Typed(flow, a), Typed("may", b)
    PROVE  LET edges == FirstEdges(a \o b)
           IN  Targets(edges) = Dsts(a) \cup Dsts(b) /\ Targets(Live(edges)) = Dsts(a)
<1> DEFINE all == a \o b
           edges == FirstEdges(all)
<1>1. IsList(all) /\ ToSet(all) = ToSet(a) \cup ToSet(b)
  BY ListJoin
<1>2. ASSUME NEW i \in DOMAIN a PROVE i \in DOMAIN all /\ i \in Nat /\ \A k \in DOMAIN all : k <= i => k \in DOMAIN a /\ all[k] = a[k]
  <2>1. a \in Seq(ToSet(a)) /\ b \in Seq(ToSet(b))
    BY DEF IsList
  <2> QED
    BY <2>1
<1> HIDE DEF all
<1>3. /\ IsList(edges) /\ ToSet(edges) \subseteq ToSet(all) /\ Dsts(edges) = Dsts(all)
      /\ \A i \in DOMAIN all :
            \E k \in DOMAIN all : k <= i /\ all[k].dst = all[i].dst /\ all[k] \in ToSet(edges)
  BY <1>1, FirstEdgesAre
<1> HIDE DEF edges
<1>4. Dsts(all) = Dsts(a) \cup Dsts(b)
  BY <1>1 DEF Dsts
<1>5. Targets(edges) = Dsts(edges)
  BY <1>1, <1>3 DEF Typed, Targets, Dsts
<1>6. ToSet(Live(edges)) = {e \in ToSet(edges) : e.flow # "may"}
  BY <1>3, LiveIs
<1>7. \A e \in ToSet(Live(edges)) : e \in ToSet(a) /\ e.via # "heuristic"
  BY <1>1, <1>3, <1>6 DEF Typed
<1>8. ASSUME NEW i \in DOMAIN a PROVE \E e \in ToSet(Live(edges)) : e.dst = a[i].dst
  <2>1. PICK k \in DOMAIN all : k <= i /\ all[k].dst = all[i].dst /\ all[k] \in ToSet(edges)
    BY <1>2, <1>3
  <2>2. k \in DOMAIN a /\ all[k] = a[k] /\ all[i] = a[i]
    BY <1>2, <2>1
  <2>3. a[k].flow # "may"
    BY <2>2 DEF Typed, ToSet
  <2>4. all[k] \in ToSet(Live(edges))
    BY <1>6, <2>1, <2>2, <2>3
  <2> QED
    BY <2>1, <2>2, <2>4
<1>9. Targets(Live(edges)) = Dsts(a)
  <2>1. \A e \in ToSet(a) : \E x \in ToSet(Live(edges)) : x.dst = e.dst
    BY <1>8 DEF ToSet
  <2> QED
    BY <1>7, <2>1 DEF Targets, Dsts
<1> QED
  BY <1>3, <1>4, <1>5, <1>9 DEF edges, all

LEMMA FirstThen ==
    ASSUME NEW S, NEW x \in S, NEW rest \in Seq(S)
    PROVE  LET s == <<x>> \o rest
           IN  s \in Seq(S) /\ Len(s) = Len(rest) + 1 /\ s[1] = x /\ (Len(rest) = 1 => s[2] = rest[1])
<1> DEFINE one == <<x>>
           s == one \o rest
<1>1. one \in Seq(S)
  OBVIOUS
<1>2. Len(one) = 1
  OBVIOUS
<1>3. one[1] = x
  OBVIOUS
<1>4. Len(rest) \in Nat
  OBVIOUS
<1> HIDE DEF one
<1>5. s \in Seq(S)
  BY <1>1
<1>6. Len(s) = Len(one) + Len(rest)
  BY <1>1
<1>7. /\ \A i \in 1 .. Len(one) : (one \o rest)[i] = one[i]
      /\ \A i \in 1 .. Len(rest) : (one \o rest)[Len(one) + i] = rest[i]
  <2>1. /\ DOMAIN one = 1 .. Len(one) /\ DOMAIN rest = 1 .. Len(rest) /\ Len(one) \in Nat
        /\ DOMAIN (one \o rest) = 1 .. Len(one) + Len(rest)
    BY <1>1, <1>4
  <2> QED
    BY <1>1, <1>4, <2>1
<1>8. s[1] = one[1] /\ (Len(rest) = 1 => s[2] = rest[1])
  <2>1. 1 + 1 = 2 /\ 1 \in 1 .. 1
    OBVIOUS
  <2> QED
    BY <1>2, <1>7, <2>1
<1> HIDE DEF s
<1>9. Len(s) = Len(rest) + 1
  BY <1>2, <1>4, <1>6
<1> QED
  BY <1>3, <1>5, <1>8, <1>9 DEF s, one

LEMMA ArmSetsAre ==
    ASSUME NEW ref
    PROVE  LET sets == ArmSets(ref)
           IN  /\ IsList(sets)
               /\ sets[1] = [types |-> ref.types, flow |-> IF ref.flow THEN "flow" ELSE "stable"]
               /\ ref.may = <<>> => DOMAIN sets = 1 .. 1
               /\ ref.may # <<>> => DOMAIN sets = 1 .. 2 /\ sets[2] = [types |-> ref.may, flow |-> "may"]
<1> DEFINE live == [types |-> ref.types, flow |-> IF ref.flow THEN "flow" ELSE "stable"]
           may == [types |-> ref.may, flow |-> "may"]
           rest == IF ref.may = <<>> THEN <<>> ELSE <<may>>
           S == {live, may}
<1>1. ArmSets(ref) = <<live>> \o rest
  BY Zenon DEF ArmSets
<1> HIDE DEF live, may
<1>2. live \in S /\ rest \in Seq(S)
  <2>1. <<may>> \in Seq(S) /\ <<>> \in Seq(S)
    BY DEF S
  <2> QED
    BY <2>1
<1>3. /\ ref.may = <<>> => Len(rest) = 0
      /\ ref.may # <<>> => Len(rest) = 1 /\ rest[1] = may
  OBVIOUS
<1> HIDE DEF rest, S
<1>4. /\ ArmSets(ref) \in Seq(S) /\ Len(ArmSets(ref)) = Len(rest) + 1
      /\ ArmSets(ref)[1] = live
      /\ Len(rest) = 1 => ArmSets(ref)[2] = rest[1]
  BY <1>1, <1>2, FirstThen
<1> DEFINE sets == ArmSets(ref)
<1>5. /\ sets \in Seq(S) /\ Len(sets) = Len(rest) + 1 /\ sets[1] = live
      /\ Len(rest) = 1 => sets[2] = rest[1]
  BY <1>4
<1> HIDE DEF sets
<1>6. Len(sets) \in Nat /\ DOMAIN sets = 1 .. Len(sets) /\ sets = [i \in 1 .. Len(sets) |-> sets[i]]
  BY <1>5
<1>7. IsList(sets)
  BY <1>6, ListIs
<1>8. ref.may = <<>> => DOMAIN sets = 1 .. 1
  BY <1>3, <1>5, <1>6
<1>9. ASSUME ref.may # <<>> PROVE DOMAIN sets = 1 .. 2 /\ sets[2] = may
  <2>1. Len(rest) = 1 /\ rest[1] = may
    BY <1>3, <1>9
  <2>2. Len(sets) = 2 /\ sets[2] = may
    BY <1>5, <2>1
  <2> QED
    BY <1>6, <2>2
<1> QED
  BY <1>5, <1>7, <1>8, <1>9 DEF sets, live, may

LEMMA ListTwo ==
    ASSUME NEW s, IsList(s), \A i \in DOMAIN s : IsList(s[i])
    PROVE  /\ DOMAIN s = 1 .. 1 => FlattenSeq(s) = s[1]
           /\ DOMAIN s = 1 .. 2 => FlattenSeq(s) = s[1] \o s[2]
<1> DEFINE S == UNION {ToSet(s[i]) : i \in DOMAIN s}
<1>1. PICK n \in Nat : DOMAIN s = 1 .. n /\ s = [i \in 1 .. n |-> s[i]]
  BY ListIs
<1>2. ASSUME NEW i \in DOMAIN s PROVE s[i] \in Seq(S)
  <2>1. ToSet(s[i]) \subseteq S /\ s[i] \in Seq(ToSet(s[i]))
    BY DEF IsList
  <2> HIDE DEF S
  <2> QED
    BY <2>1
<1> HIDE DEF S
<1>3. s \in Seq(Seq(S))
  <2>1. s \in [1 .. n -> Seq(S)]
    BY <1>1, <1>2
  <2> QED
    BY <2>1
<1>4. Len(s) \in Nat /\ DOMAIN s = 1 .. Len(s)
  BY <1>3
<1>5. ASSUME NEW k \in {1, 2}, DOMAIN s = 1 .. k PROVE Len(s) = k
  <2> DEFINE l == Len(s)
  <2>1. l \in Nat /\ 1 .. l = 1 .. k
    BY <1>4, <1>5
  <2> HIDE DEF l
  <2>2. k \in 1 .. l /\ k + 1 \notin 1 .. l
    BY <2>1
  <2>3. l = k
    BY <2>1, <2>2
  <2> QED
    BY <2>3 DEF l
<1>6. /\ Len(s) = 1 => FlattenSeq(s) = s[1]
      /\ Len(s) = 2 => FlattenSeq(s) = s[1] \o s[2]
  BY <1>3, FlatTwo
<1> QED
  BY <1>5, <1>6

(* The targets of a receiver are those of its types, wherever it has them; *)
(* the live ones, those of the types at the use.                           *)
LEMMA ReceiverTargets ==
    ASSUME NEW ctx, Indexed(ctx), NEW m, NEW ref, Written(ctx.T, ref), Head(ref.name) # "self",
           ref.local, Members(ref) # <<>>
    PROVE  LET edges == ValueTypeEdges(ctx, m, ref)
           IN  /\ Targets(edges) = AllTargets(ctx, m, ref, ref.types)
                                       \cup (IF ref.may = <<>> THEN {} ELSE AllTargets(ctx, m, ref, ref.may))
               /\ Targets(Live(edges)) = AllTargets(ctx, m, ref, ref.types)
<1> DEFINE sets == ArmSets(ref)
           flow == IF ref.flow THEN "flow" ELSE "stable"
           found == [i \in DOMAIN sets |-> ArmEdges(ctx, m, ref, sets[i])]
           each == [i \in DOMAIN found |-> found[i].edges]
           flat == FlattenSeq(each)
           arm(arms) == ArmEdges(ctx, m, ref, arms).edges
           a == arm([types |-> ref.types, flow |-> flow])
           b == IF ref.may = <<>> THEN <<>> ELSE arm([types |-> ref.may, flow |-> "may"])
           named == HeuristicEdges(ctx, ref, Last(Trail(ref)))
           edges == ValueTypeEdges(ctx, m, ref)
           noType == ref.types = <<>> /\ ref.may = <<>> /\ Head(ref.name) # "self"
<1>1. /\ edges \in {FirstEdges(flat), named}
      /\ edges = named => edges = FirstEdges(flat) \/ noType \/ FirstEdges(flat) = <<>>
  <2>1. edges = ValueEdges(ctx, ref, found)
    BY DEF ValueTypeEdges
  <2> DEFINE firsts == FirstEdges(flat)
             byName == IF noType THEN Len(Members(ref)) = 1 ELSE firsts = <<>> /\ found[1].untyped
  <2>2. edges = IF byName /\ ref.chain = <<>> THEN named ELSE firsts
    BY <2>1, Zenon DEF ValueEdges, FirstEdges
  <2> HIDE DEF firsts, named, edges, noType, found
  <2> QED
    BY <2>2 DEF firsts
<1>2. /\ IsList(a) /\ Typed(flow, a) /\ Dsts(a) = AllTargets(ctx, m, ref, ref.types)
  <2> DEFINE arms == [types |-> ref.types, flow |-> flow]
  <2>1. IsList(arms.types) /\ arms.flow \in Flows /\ arms.types = ref.types /\ arms.flow = flow
    BY DEF Written, Flows
  <2> HIDE DEF arms, flow
  <2>2. /\ IsList(arm(arms)) /\ Typed(arms.flow, arm(arms))
        /\ Dsts(arm(arms)) = AllTargets(ctx, m, ref, arms.types)
    BY <2>1, ArmTargets
  <2> QED
    BY <2>1, <2>2 DEF arms
<1>3. /\ IsList(b) /\ Typed("may", b)
      /\ Dsts(b) = IF ref.may = <<>> THEN {} ELSE AllTargets(ctx, m, ref, ref.may)
  <2> DEFINE arms == [types |-> ref.may, flow |-> "may"]
  <2>1. IsList(arms.types) /\ arms.flow \in Flows /\ arms.types = ref.may /\ arms.flow = "may"
    BY DEF Written, Flows
  <2> HIDE DEF arms
  <2>2. /\ IsList(arm(arms)) /\ Typed(arms.flow, arm(arms))
        /\ Dsts(arm(arms)) = AllTargets(ctx, m, ref, arms.types)
    BY <2>1, ArmTargets
  <2>3. IsList(<<>>) /\ Typed("may", <<>>) /\ Dsts(<<>>) = {}
    BY DEF IsList, ToSet, Typed, Dsts
  <2> QED
    BY <2>1, <2>2, <2>3 DEF arms
<1>4. flat = a \o b
  <2>1. /\ IsList(sets) /\ sets[1] = [types |-> ref.types, flow |-> flow]
        /\ ref.may = <<>> => DOMAIN sets = 1 .. 1
        /\ ref.may # <<>> => DOMAIN sets = 1 .. 2 /\ sets[2] = [types |-> ref.may, flow |-> "may"]
    BY ArmSetsAre
  <2> HIDE DEF sets
  <2>2. /\ each = [i \in DOMAIN sets |-> each[i]] /\ DOMAIN each = DOMAIN sets
        /\ \A i \in DOMAIN sets : each[i] = arm(sets[i])
    OBVIOUS
  <2> HIDE DEF each
  <2>3. IsList(each)
    BY <2>1, <2>2, MappedIs
  <2>4. 1 \in 1 .. 1 /\ 1 \in 1 .. 2 /\ 2 \in 1 .. 2 /\ 1 .. 1 = {1} /\ 1 .. 2 = {1, 2}
    OBVIOUS
  <2>5. each[1] = a /\ (ref.may # <<>> => each[2] = b)
    BY <2>1, <2>2, <2>4
  <2> HIDE DEF a, b
  <2>6. \A i \in DOMAIN each : IsList(each[i])
    BY <1>2, <1>3, <2>1, <2>2, <2>4, <2>5
  <2>7. /\ ref.may = <<>> => flat = a
        /\ ref.may # <<>> => flat = a \o b
    BY <2>1, <2>2, <2>3, <2>5, <2>6, ListTwo
  <2>8. ref.may = <<>> => a \o b = a
    <3>1. a \in Seq(ToSet(a))
      BY <1>2 DEF IsList
    <3>2. a \o <<>> = a
      BY <3>1
    <3> QED
      BY <3>2 DEF b
  <2>9. flat = a \o b
    BY <2>7, <2>8
  <2> QED
    BY <2>9
<1>5. flow # "may"
  OBVIOUS
<1>6. noType => Dsts(a) \cup Dsts(b) = {}
  <2>1. ToSet(<<>>) = {}
    BY DEF ToSet
  <2>2. AllTargets(ctx, m, ref, <<>>) = {}
    BY <2>1 DEF AllTargets, MemberTargetsOf, StubTargetsOf
  <2> HIDE DEF a, b
  <2> QED
    BY <1>2, <1>3, <2>2
<1>7. Targets(named) = {} /\ Targets(Live(named)) = {}
  BY NameMatches DEF Written
<1>8. Targets(<<>>) = {}
  BY DEF Targets, ToSet
<1> HIDE DEF a, b, flow, flat, named, noType
<1>9. /\ Targets(FirstEdges(flat)) = Dsts(a) \cup Dsts(b)
      /\ Targets(Live(FirstEdges(flat))) = Dsts(a)
  BY <1>2, <1>3, <1>4, <1>5, SplitTargets
<1>10. Targets(edges) = Dsts(a) \cup Dsts(b) /\ Targets(Live(edges)) = Dsts(a)
  <2> HIDE DEF edges
  <2>1. CASE edges = FirstEdges(flat)
    BY <1>9, <2>1
  <2>2. CASE edges = named /\ edges # FirstEdges(flat)
    <3>1. Dsts(a) \cup Dsts(b) = {}
      BY <1>1, <1>6, <1>8, <1>9, <2>2
    <3> QED
      BY <1>7, <2>2, <3>1
  <2> QED
    BY <1>1, <2>1, <2>2
<1> QED
  BY <1>2, <1>3, <1>10

LEMMA SameTargets ==
    ASSUME NEW ctx, NEW m, NEW ref, NEW other, other.name = ref.name, other.chain = ref.chain,
           other.kind = ref.kind, NEW types
    PROVE  AllTargets(ctx, m, other, types) = AllTargets(ctx, m, ref, types)
<1>1. /\ Trail(other) = Trail(ref) /\ Way(other) = Way(ref) /\ Sought(other) = Sought(ref)
      /\ IsRead(other) = IsRead(ref)
  BY DEF Trail, Members, Way, Sought, IsRead
<1>2. \A class : MemberOf(ctx, other, class) = MemberOf(ctx, ref, class)
  BY <1>1 DEF MemberOf
<1>3. \A q, name : HasMember(other, q, name) = HasMember(ref, q, name)
  BY <1>1 DEF HasMember
<1>4. MemberTargetsOf(ctx, m, other, types) = MemberTargetsOf(ctx, m, ref, types)
  BY <1>2 DEF MemberTargetsOf
<1>5. \A name : StubTargetsOf(ctx, m, other, types, name) = StubTargetsOf(ctx, m, ref, types, name)
  BY <1>3, Zenon DEF StubTargetsOf
<1> QED
  BY <1>1, <1>4, <1>5 DEF AllTargets

LEMMA TargetsInParts ==
    ASSUME NEW ctx, NEW m, NEW ref, NEW a, IsList(a), NEW b, IsList(b)
    PROVE  AllTargets(ctx, m, ref, a \o b) = AllTargets(ctx, m, ref, a) \cup AllTargets(ctx, m, ref, b)
<1> DEFINE all == a \o b
           name == Last(Trail(ref))
<1>1. ToSet(all) = ToSet(a) \cup ToSet(b)
  BY ListJoin
<1> HIDE DEF all
<1>2. MemberTargetsOf(ctx, m, ref, all) = MemberTargetsOf(ctx, m, ref, a) \cup MemberTargetsOf(ctx, m, ref, b)
  BY <1>1 DEF MemberTargetsOf
<1> HIDE DEF name
<1>3. StubTargetsOf(ctx, m, ref, all, name)
      = StubTargetsOf(ctx, m, ref, a, name) \cup StubTargetsOf(ctx, m, ref, b, name)
  <2> DEFINE of(q) == q \o name
  <2>1. \A types : StubTargetsOf(ctx, m, ref, types, name)
                   = {of(q) : q \in {p \in {ResolveExternalTypeName(ctx.T, m, t) : t \in ToSet(types)} :
                                       HasMember(ref, p, name)}}
    BY Zenon DEF StubTargetsOf
  <2> HIDE DEF of
  <2> QED
    BY <1>1, <2>1
<1> QED
  BY <1>2, <1>3 DEF AllTargets, all, name

(* A receiver whose other types are taken for types at the use, and one    *)
(* without them.                                                           *)
Declared(ref) == [ref EXCEPT !.types = @ \o ref.may, !.may = <<>>]
AtUse(ref) == [ref EXCEPT !.may = <<>>]

LEMMA RefsAre ==
    ASSUME NEW ref, DOMAIN ref = DOMAIN RawRef(ref.src, ref.kind, ref.name)
    PROVE  /\ Declared(ref).types = ref.types \o ref.may /\ AtUse(ref).types = ref.types
           /\ \A r \in {Declared(ref), AtUse(ref)} :
                 /\ r.may = <<>> /\ r.src = ref.src /\ r.kind = ref.kind /\ r.name = ref.name
                 /\ r.local = ref.local /\ r.args = ref.args /\ r.chain = ref.chain
<1>1. DOMAIN ref = {"src", "kind", "name", "local", "types", "inferred", "flow", "may", "args", "chain"}
  BY DEF RawRef
<1> QED
  BY <1>1 DEF Declared, AtUse

LEMMA WideningOf ==
    ASSUME NEW ctx, Indexed(ctx), NEW m, NEW ref, Written(ctx.T, ref), Head(ref.name) # "self",
           DOMAIN ref = DOMAIN RawRef(ref.src, ref.kind, ref.name), ref.may # <<>>
    PROVE  /\ Targets(ValueTypeEdges(ctx, m, ref)) = Targets(ValueTypeEdges(ctx, m, Declared(ref)))
           /\ Targets(Live(ValueTypeEdges(ctx, m, ref))) = Targets(ValueTypeEdges(ctx, m, AtUse(ref)))
<1>1. /\ Declared(ref).types = ref.types \o ref.may /\ AtUse(ref).types = ref.types
      /\ \A r \in {Declared(ref), AtUse(ref)} :
            /\ r.may = <<>> /\ r.src = ref.src /\ r.kind = ref.kind /\ r.name = ref.name
            /\ r.local = ref.local /\ r.args = ref.args /\ r.chain = ref.chain
  BY RefsAre
<1>2. IsList(ref.types) /\ IsList(ref.may)
  BY DEF Written
<1>3. ASSUME NEW r \in {Declared(ref), AtUse(ref)}
      PROVE  /\ Written(ctx.T, r) /\ Head(r.name) # "self" /\ Members(r) = Members(ref)
             /\ \A types : AllTargets(ctx, m, r, types) = AllTargets(ctx, m, ref, types)
  <2>1. IsList(<<>>) /\ IsList(ref.types \o ref.may)
    <3>1. IsList(<<>>)
      BY DEF IsList, ToSet
    <3> QED
      BY <1>2, <3>1, ListJoin
  <2>2. IsList(r.types) /\ IsList(r.may)
    BY <1>1, <1>2, <2>1
  <2>3. Written(ctx.T, r)
    BY <1>1, <2>2 DEF Written
  <2>4. Members(r) = Members(ref)
    BY <1>1 DEF Members
  <2>5. \A types : AllTargets(ctx, m, r, types) = AllTargets(ctx, m, ref, types)
    BY <1>1, SameTargets
  <2> QED
    BY <1>1, <2>3, <2>4, <2>5
<1>4. CASE ref.local /\ Members(ref) # <<>>
  <2>1. /\ Targets(ValueTypeEdges(ctx, m, ref))
              = AllTargets(ctx, m, ref, ref.types) \cup AllTargets(ctx, m, ref, ref.may)
        /\ Targets(Live(ValueTypeEdges(ctx, m, ref))) = AllTargets(ctx, m, ref, ref.types)
    BY <1>4, ReceiverTargets
  <2>2. ASSUME NEW r \in {Declared(ref), AtUse(ref)}
        PROVE  Targets(ValueTypeEdges(ctx, m, r)) = AllTargets(ctx, m, ref, r.types)
    <3>1. /\ r.local /\ Members(r) # <<>> /\ r.may = <<>>
          /\ Written(ctx.T, r) /\ Head(r.name) # "self"
      BY <1>1, <1>3, <1>4
    <3>2. Targets(ValueTypeEdges(ctx, m, r))
          = AllTargets(ctx, m, r, r.types)
                \cup (IF r.may = <<>> THEN {} ELSE AllTargets(ctx, m, r, r.may))
      BY <3>1, ReceiverTargets
    <3>3. Targets(ValueTypeEdges(ctx, m, r)) = AllTargets(ctx, m, r, r.types)
      BY <3>1, <3>2
    <3> QED
      BY <1>3, <3>3
  <2>3. AllTargets(ctx, m, ref, ref.types \o ref.may)
        = AllTargets(ctx, m, ref, ref.types) \cup AllTargets(ctx, m, ref, ref.may)
    BY <1>2, TargetsInParts
  <2> QED
    BY <1>1, <2>1, <2>2, <2>3
<1>5. CASE ~(ref.local /\ Members(ref) # <<>>)
  <2>1. ValueTypeEdges(ctx, m, ref) = <<>>
    BY <1>5 DEF ValueTypeEdges
  <2>2. \A r \in {Declared(ref), AtUse(ref)} : ValueTypeEdges(ctx, m, r) = <<>>
    BY <1>1, <1>3, <1>5 DEF ValueTypeEdges
  <2>3. IsList(<<>>) /\ ToSet(<<>>) = {}
    BY DEF IsList, ToSet
  <2>4. Targets(<<>>) = {} /\ Targets(Live(<<>>)) = {}
    <3>1. ToSet(Live(<<>>)) = {}
      BY <2>3, LiveIs
    <3> QED
      BY <2>3, <3>1 DEF Targets
  <2> QED
    BY <2>1, <2>2, <2>4
<1> QED
  BY <1>4, <1>5

(* No method binds its self to something else: the receiver of that name   *)
(* has no other types.                                                     *)
SelfStands ==
    \A m \in Modules : \A p \in Menu[m] : \A r \in ToSet(p.refs) :
        Head(r.name) = "self" => r.may = <<>>

(* typeres.py:217, over every history of patches: a reassigned receiver    *)
(* may reach what one with the union of its types may, and by default what *)
(* one with the types at the use may, whatever tables and menus there are. *)
THEOREM WideningStaysUnion == SelfStands => (Spec => []WideningIsUnion)
<1> SUFFICES ASSUME SelfStands PROVE Spec => []WideningIsUnion
  OBVIOUS
<1>1. Cached => WideningIsUnion
  <2>1. SUFFICES ASSUME CacheInv, RecordsInv, cache # None PROVE WideningIsUnion
    BY DEF Cached, WideningIsUnion
  <2> DEFINE products == cache.products
             T == Tables(products)
             main == PerFile(T.fs, LAMBDA m : cache.recs[m].main)
             ctx == ResolveIndex(T, main)
             edgesOf(m, r) == ValueTypeEdges(ctx, m, r)
  <2>2. IsProject(products) /\ T.fs = products
    BY <2>1, TablesAre DEF CacheInv
  <2>3. Indexed(ctx) /\ ctx.T = T
    <3>1. \A m \in DOMAIN products : IsList(cache.recs[m].main)
      BY <2>1 DEF RecordsInv, Landed, SyntacticIsFull
    <3>2. Context(products, cache.recs) = ctx
      BY <2>2 DEF Context
    <3> HIDE DEF products, ctx, T
    <3> QED
      BY <2>2, <3>1, <3>2, ContextIs DEF T
  <2>4. ASSUME NEW m \in DOMAIN products, NEW ref \in ToSet(products[m].refs), ref.may # <<>>
        PROVE  /\ Targets(edgesOf(m, ref)) = Targets(edgesOf(m, Declared(ref)))
               /\ Targets(Live(edgesOf(m, ref))) = Targets(edgesOf(m, AtUse(ref)))
    <3>1. Extracted(m, products[m]) /\ products[m] \in Menu[m] /\ m \in Modules
      BY <2>2, TablesAre DEF IsProject
    <3>2. ToSet(products[m].symbols) \subseteq Symbols(products)
      BY DEF Symbols
    <3>3. Written(T, ref)
      BY <2>2, <3>1, <3>2, TablesAre DEF Extracted, Written
    <3>4. Head(ref.name) # "self"
      BY <2>4, <3>1 DEF SelfStands
    <3>5. DOMAIN ref = DOMAIN RawRef(ref.src, ref.kind, ref.name)
      BY <3>1 DEF Extracted
    <3> HIDE DEF ctx, T
    <3> QED
      BY <2>3, <2>4, <3>3, <3>4, <3>5, WideningOf
  <2> HIDE DEF ctx
  <2> QED
    BY <2>4, Zenon DEF WideningIsUnion, Live, Declared, AtUse, ctx
<1> QED
  BY <1>1, AlwaysCached, PTL

-----------------------------------------------------------------------------
(* The dials of a relation query.                                          *)
LEMMA DialsAre ==
    ASSUME NEW e, e.via \in DOMAIN Confidence, e.flow \in {"stable", "flow", "may"}
    PROVE  ~Below(e, 0) /\ ~Excluded(e, "union")
<1>1. Confidence[e.via] \in {"high", "medium", "low"}
  BY DEF Confidence
<1>2. Rank(e) \in 0 .. 2
  BY <1>1 DEF Rank
<1> QED
  BY <1>2 DEF Below, Excluded, Allows

(* A count of places in two parts.                                         *)
LEMMA CountInParts ==
    ASSUME NEW S, IsFiniteSet(S), NEW A \in SUBSET S
    PROVE  /\ Cardinality(S) = Cardinality(A) + Cardinality(S \ A)
           /\ Cardinality(A) \in Nat /\ Cardinality(S \ A) \in Nat
<1> DEFINE B == S \ A
<1>1. /\ IsFiniteSet(A) /\ IsFiniteSet(B)
      /\ Cardinality(A) \in Nat /\ Cardinality(B) \in Nat
  BY FS_Subset, FS_CardinalityType
<1>2. A \cup B = S /\ A \cap B = {}
  OBVIOUS
<1> HIDE DEF B
<1>3. Cardinality(A \cap B) = 0
  BY <1>2, FS_EmptySet
<1>4. Cardinality(A \cup B) = Cardinality(A) + Cardinality(B) - Cardinality(A \cap B)
  BY <1>1, FS_Union
<1>5. Cardinality(A \cup B) = Cardinality(A) + Cardinality(B)
  BY <1>1, <1>3, <1>4
<1> QED
  BY <1>1, <1>2, <1>5, Zenon DEF B

LEMMA CountsOf ==
    ASSUME NEW edges, EdgeList(edges), NEW symbol, NEW which \in Queries,
           NEW floor \in 0 .. 2, NEW mode \in DOMAIN Allows
    PROVE  LET found(f, m) == Cardinality(Find(edges, symbol, which, f, m))
               hidden == Suppression(edges, symbol, which, floor, mode)
           IN  /\ found(floor, "union") = found(floor, mode) + hidden.reassignment
               /\ found(0, "union") = found(floor, mode) + hidden.reassignment + hidden.confidence
<1> DEFINE all == Considered(edges, symbol, which)
           kept == Find(edges, symbol, which, floor, mode)
           high == Find(edges, symbol, which, floor, "union")
           low == {i \in all : Below(edges[i], floor)}
           widened == {i \in all : ~Below(edges[i], floor) /\ Excluded(edges[i], mode)}
<1>1. all \subseteq DOMAIN edges
  BY DEF Considered, OutEdges, InEdges, Queries
<1>2. IsFiniteSet(all)
  BY <1>1, FS_Subset DEF EdgeList
<1>3. \A i \in all : ~Below(edges[i], 0) /\ ~Excluded(edges[i], "union")
  BY <1>1, DialsAre DEF EdgeList
<1> HIDE DEF all
<1>4. kept = {i \in all : ~Excluded(edges[i], mode) /\ ~Below(edges[i], floor)}
  BY DEF Find, all
<1>5. high = {i \in all : ~Below(edges[i], floor)}
  BY <1>3 DEF Find, all
<1>6. Find(edges, symbol, which, 0, "union") = all
  BY <1>3 DEF Find, all
<1>7. /\ Suppression(edges, symbol, which, floor, mode).confidence = Cardinality(low)
      /\ Suppression(edges, symbol, which, floor, mode).reassignment = Cardinality(widened)
  BY DEF Suppression, all
<1> HIDE DEF kept, high, low, widened
<1>8. /\ IsFiniteSet(high) /\ high \in SUBSET all
      /\ low = all \ high
  BY <1>2, <1>5, FS_Subset DEF low
<1>9. kept \in SUBSET high /\ widened = high \ kept
  BY <1>4, <1>5 DEF widened
<1>10. /\ Cardinality(high) = Cardinality(kept) + Cardinality(widened)
       /\ Cardinality(kept) \in Nat /\ Cardinality(widened) \in Nat
  BY <1>8, <1>9, CountInParts
<1>11. /\ Cardinality(all) = Cardinality(high) + Cardinality(low)
       /\ Cardinality(low) \in Nat
  BY <1>2, <1>8, CountInParts
<1> QED
  BY <1>6, <1>7, <1>10, <1>11 DEF kept, high

(* relations.py:137-140, for every list of edges: as many results come     *)
(* back as the counts say, for every query, floor and mode.  The premise   *)
(* is about the list alone: that the passes leave one.                     *)
THEOREM CountsAreActionable ==
    (cache # None => EdgeList(result.edges)) => SuppressionIsActionable
BY CountsOf DEF SuppressionIsActionable

(* So the counts stay true through every history of patches: whether or    *)
(* not a reused record is the right one, some pass left its edges.         *)
THEOREM DialsStayActionable == Spec => []SuppressionIsActionable
<1>1. Cached => SuppressionIsActionable
  BY EdgesAre, CountsAreActionable DEF Cached
<1> QED
  BY <1>1, AlwaysCached, PTL
=============================================================================
