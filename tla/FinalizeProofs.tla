--------------------------- MODULE FinalizeProofs ---------------------------
(***************************************************************************)
(* Theorems about Finalize, for any products a backend may give, and about *)
(* the products that extraction makes of any program.                      *)
(***************************************************************************)
EXTENDS Indexing, RecursionTheorems

-----------------------------------------------------------------------------
LEMMA CandidatesAre ==
    ASSUME NEW base \in Names
    PROVE  /\ Candidates(base) \in Seq(Names)
           /\ Len(Candidates(base)) = Len(Marks) + 1
           /\ Candidates(base)[1] = base
           /\ \A n \in DOMAIN Marks : Candidates(base)[n + 1] = base \o <<Marks[n]>>
<1> DEFINE suffixed == [n \in DOMAIN Marks |-> base \o <<Marks[n]>>]
<1>1. Marks \in Seq(STRING) /\ Len(Marks) \in Nat /\ DOMAIN Marks = 1 .. Len(Marks)
  BY FinalizeAssumption
<1>2. \A n \in DOMAIN Marks : base \o <<Marks[n]>> \in Names
  BY <1>1 DEF Names
<1>3. suffixed \in Seq(Names) /\ Len(suffixed) = Len(Marks)
  BY <1>1, <1>2
<1>4. <<base>> \in Seq(Names) /\ Len(<<base>>) = 1
  OBVIOUS
<1> HIDE DEF suffixed
<1>5. /\ <<base>> \o suffixed \in Seq(Names)
      /\ Len(<<base>> \o suffixed) = Len(Marks) + 1
      /\ (<<base>> \o suffixed)[1] = base
      /\ \A n \in DOMAIN Marks : (<<base>> \o suffixed)[n + 1] = suffixed[n]
  BY <1>1, <1>3, <1>4
<1> QED
  BY <1>5 DEF suffixed, Candidates

LEMMA CandidatesDiffer ==
    ASSUME NEW base \in Names,
           NEW m \in 1 .. Len(Marks) + 1, NEW n \in 1 .. Len(Marks) + 1,
           Candidates(base)[m] = Candidates(base)[n]
    PROVE  m = n
<1>1. /\ Marks \in Seq(STRING) /\ Len(Marks) \in Nat /\ DOMAIN Marks = 1 .. Len(Marks)
      /\ \A a, b \in DOMAIN Marks : Marks[a] = Marks[b] => a = b
  BY FinalizeAssumption DEF IsInjective
<1>2. base \in Seq(STRING) /\ Len(base) \in Nat
  BY DEF Names
<1>3. \A k \in DOMAIN Marks : /\ Candidates(base)[k + 1] = base \o <<Marks[k]>>
                              /\ Len(base \o <<Marks[k]>>) = Len(base) + 1
                              /\ (base \o <<Marks[k]>>)[Len(base) + 1] = Marks[k]
  <2> SUFFICES ASSUME NEW k \in DOMAIN Marks
               PROVE  /\ Len(base \o <<Marks[k]>>) = Len(base) + 1
                      /\ (base \o <<Marks[k]>>)[Len(base) + 1] = Marks[k]
    BY CandidatesAre
  <2>1. Marks[k] \in STRING /\ <<Marks[k]>> \in Seq(STRING) /\ Len(<<Marks[k]>>) = 1
    BY <1>1
  <2> QED
    BY <2>1, <1>2
<1>4. CASE m = 1 /\ n = 1
  BY <1>4
<1>5. CASE m = 1 /\ n # 1
  <2>1. n - 1 \in DOMAIN Marks /\ (n - 1) + 1 = n
    BY <1>1, <1>5
  <2>2. Len(Candidates(base)[n]) = Len(base) + 1
    BY <2>1, <1>3
  <2>3. Candidates(base)[m] = base
    BY <1>5, CandidatesAre
  <2> QED
    BY <2>2, <2>3, <1>2
<1>6. CASE m # 1 /\ n = 1
  <2>1. m - 1 \in DOMAIN Marks /\ (m - 1) + 1 = m
    BY <1>1, <1>6
  <2>2. Len(Candidates(base)[m]) = Len(base) + 1
    BY <2>1, <1>3
  <2>3. Candidates(base)[n] = base
    BY <1>6, CandidatesAre
  <2> QED
    BY <2>2, <2>3, <1>2
<1>7. CASE m # 1 /\ n # 1
  <2>1. /\ n - 1 \in DOMAIN Marks /\ (n - 1) + 1 = n
        /\ m - 1 \in DOMAIN Marks /\ (m - 1) + 1 = m
    BY <1>1, <1>7
  <2>2. Marks[m - 1] = Marks[n - 1]
    <3>1. /\ Candidates(base)[n] = base \o <<Marks[n - 1]>>
          /\ (base \o <<Marks[n - 1]>>)[Len(base) + 1] = Marks[n - 1]
      BY <2>1, <1>3, Zenon
    <3>2. /\ Candidates(base)[m] = base \o <<Marks[m - 1]>>
          /\ (base \o <<Marks[m - 1]>>)[Len(base) + 1] = Marks[m - 1]
      BY <2>1, <1>3, Zenon
    <3> QED
      BY <3>1, <3>2, Zenon
  <2>3. m - 1 = n - 1
    BY <1>1, <2>1, <2>2
  <2> QED
    BY <2>3
<1> QED
  BY <1>4, <1>5, <1>6, <1>7

-----------------------------------------------------------------------------
(* While ids are claimed: the slots that have theirs, and what it is.      *)
Holds(i, k, q) ==
    \/ i \in DOMAIN moduleId /\ k = 1 /\ q = moduleId[i]
    \/ i = Len(out) + 1 /\ k \in DOMAIN symbols /\ q = symbols[k].id
    \/ i \in DOMAIN out /\ k \in DOMAIN out[i].symbols /\ q = out[i].symbols[k].id

SeenInv ==
    /\ \A q \in seen : \E at \in Slots(files) : Holds(at[1], at[2], q)
    /\ \A at \in Slots(files) : \A q : Holds(at[1], at[2], q) => q \in seen

LEMMA ClaimIsFirst ==
    ASSUME NEW base \in Names,
           \E n \in 1 .. Len(Marks) + 1 : Candidates(base)[n] \notin seen
    PROVE  /\ Claim(base) \in Names \ seen
           /\ base \notin seen => Claim(base) = base
           /\ \E n \in 1 .. Len(Marks) + 1 :
                 /\ Claim(base) = Candidates(base)[n]
                 /\ \A m \in 1 .. n - 1 : Candidates(base)[m] \in seen
<1> DEFINE I == {n \in 1 .. Len(Candidates(base)) : Candidates(base)[n] \notin seen}
<1>1. Len(Marks) \in Nat /\ Len(Candidates(base)) = Len(Marks) + 1
  BY FinalizeAssumption, CandidatesAre
<1>2. I \in SUBSET Nat /\ I # {}
  BY <1>1
<1>3. Claim(base) = Candidates(base)[Min(I)]
  BY <1>2 DEF Claim, SelectInSeq, Candidates
<1>4. Min(I) \in I /\ \A n \in I : Min(I) <= n
  BY <1>2, MinIsLeast
<1>5. Claim(base) \in Names \ seen
  BY <1>1, <1>3, <1>4, CandidatesAre
<1>6. ASSUME base \notin seen PROVE Claim(base) = base
  <2>1. 1 \in I
    BY <1>1, <1>6, CandidatesAre
  <2>2. Min(I) = 1
    BY <1>1, <1>4, <2>1
  <2> QED
    BY <1>3, <2>2, CandidatesAre
<1>7. /\ Min(I) \in 1 .. Len(Marks) + 1
      /\ \A m \in 1 .. Min(I) - 1 : Candidates(base)[m] \in seen
  <2>1. Min(I) \in 1 .. Len(Marks) + 1
    BY <1>1, <1>4
  <2>2. ASSUME NEW m \in 1 .. Min(I) - 1 PROVE m \in 1 .. Len(Candidates(base)) /\ ~(Min(I) <= m)
    BY <1>1, <2>1
  <2> QED
    BY <1>4, <2>1, <2>2
<1> QED
  BY <1>3, <1>5, <1>6, <1>7

-----------------------------------------------------------------------------
(* Names and their ancestors.                                              *)
LEMMA NonEmptyNames ==
    ASSUME NEW m \in Names \ {<<>>}, Len(m) # 1
    PROVE  Len(m) > 1
<1>1. Len(m) \in Nat /\ Len(m) # 0
  BY DEF Names
<1>2. \A l \in Nat : l # 0 /\ l # 1 => l > 1
  OBVIOUS
<1> QED
  BY <1>1, <1>2

LEMMA AncestorsAre ==
    ASSUME NEW m \in Names
    PROVE  /\ \A q \in Ancestors(m) : q \in Names /\ q # m /\ Len(q) \in 1 .. Len(m)
           /\ Len(m) > 1 => Front(m) \in Ancestors(m)
<1>1. m \in Seq(STRING) /\ Len(m) \in Nat
  BY DEF Names
<1>2. ASSUME NEW q \in Ancestors(m)
      PROVE  q \in Names /\ q # m /\ Len(q) \in 1 .. Len(m)
  <2>1. PICK l \in 0 .. Len(m) : q = SubSeq(m, 1, l)
    BY <1>2 DEF Ancestors, Prefixes
  <2>2. q \in Seq(STRING) /\ Len(q) = l
    BY <1>1, <2>1
  <2>3. q # m /\ q # <<>>
    BY <1>2 DEF Ancestors
  <2>4. l # 0
    BY <2>2, <2>3
  <2> QED
    BY <1>1, <2>2, <2>3, <2>4 DEF Names
<1>3. ASSUME Len(m) > 1 PROVE Front(m) \in Ancestors(m)
  <2>1. Front(m) = SubSeq(m, 1, Len(m) - 1) /\ Len(m) - 1 \in 0 .. Len(m)
    BY <1>1, <1>3 DEF Front
  <2>2. Len(Front(m)) = Len(m) - 1
    BY <1>1, <1>3, <2>1
  <2>3. Front(m) # m /\ Front(m) # <<>>
    BY <1>1, <1>3, <2>2
  <2> QED
    BY <2>1, <2>3 DEF Ancestors, Prefixes
<1> QED
  BY <1>2, <1>3

LEMMA AncestorsShorter ==
    ASSUME NEW m \in Names, NEW q \in Ancestors(m)
    PROVE  Len(q) \in Nat /\ Len(q) < Len(m)
<1>1. m \in Seq(STRING) /\ Len(m) \in Nat
  BY DEF Names
<1>2. PICK l \in 0 .. Len(m) : q = SubSeq(m, 1, l)
  BY DEF Ancestors, Prefixes
<1>3. Len(q) = l
  BY <1>1, <1>2
<1>4. l # Len(m)
  BY <1>1, <1>2 DEF Ancestors
<1> QED
  BY <1>1, <1>2, <1>3, <1>4

LEMMA NearestPackageIs ==
    ASSUME NEW m \in Names
    PROVE  NearestPackage(m) = None \/ NearestPackage(m) \in Ancestors(m) \cap ModuleNames
<1> DEFINE known == Ancestors(m) \cap ModuleNames
           gaps == {Len(m) - Len(q) : q \in known}
<1>1. CASE known = {}
  BY <1>1 DEF NearestPackage
<1>2. CASE known # {}
  <2>1. Len(m) \in Nat /\ \A q \in known : Len(q) \in 1 .. Len(m)
    BY AncestorsAre DEF Names
  <2>2. gaps \in SUBSET Nat /\ gaps # {}
    BY <1>2, <2>1
  <2>3. Min(gaps) \in gaps /\ \A g \in gaps : Min(gaps) <= g
    BY <2>2, MinIsLeast
  <2>4. PICK q \in known : Len(m) - Len(q) = Min(gaps)
    BY <2>3
  <2>5. ASSUME NEW r \in known PROVE Len(r) <= Len(q)
    <3>1. Len(m) - Len(r) \in gaps
      OBVIOUS
    <3>2. Len(m) - Len(q) <= Len(m) - Len(r)
      BY <2>3, <2>4, <3>1
    <3> QED
      BY <2>1, <3>2
  <2> QED
    BY <1>2, <2>5 DEF NearestPackage
<1> QED
  BY <1>1, <1>2

-----------------------------------------------------------------------------
(* The states of a run that renames.                                       *)
Reform == [was : Names, id : Names, parent : Names \cup {None}]

FilesInv ==
    /\ Len(files) \in Nat /\ DOMAIN files = 1 .. Len(files)
    /\ \A i \in DOMAIN files : WellFormed(files[i])

PhaseInv ==
    /\ pc \in {"start", "modules", "members", "done"}
    /\ moduleId \in Seq(Names) /\ symbols \in Seq(Reform) /\ \E S : out \in Seq(S)
    /\ Len(moduleId) <= Len(files) /\ Len(out) <= Len(files)
    /\ pc = "start" => moduleId = <<>>
    /\ pc \in {"start", "modules"} => symbols = <<>> /\ out = <<>>
    /\ pc = "modules" => Len(moduleId) < Len(files)
    /\ pc \in {"members", "done"} => Len(moduleId) = Len(files)
    /\ pc = "members" => /\ Len(out) < Len(files)
                        /\ Len(symbols) <= Len(files[Len(out) + 1].symbols)
    /\ pc = "done" => Len(out) = Len(files) /\ symbols = <<>>

(* The symbols syms are those of product fi, from the same parents.        *)
Placed(modules, fi, syms, k) ==
    IF k = 1
    THEN syms[1].parent = None \/ syms[1].parent \in Ancestors(fi.module) \cap modules
    ELSE \E j \in 1 .. k - 1 : /\ fi.symbols[k].parent = fi.symbols[j].id
                              /\ syms[k].parent = syms[j].id

SymbolsInv ==
    \A k \in DOMAIN symbols :
        /\ symbols[k].was = files[Len(out) + 1].symbols[k].id
        /\ k = 1 => symbols[k].id = moduleId[Len(out) + 1]
        /\ Placed(ModuleNames, files[Len(out) + 1], symbols, k)

OutInv ==
    \A i \in DOMAIN out :
        /\ DOMAIN out[i].symbols = DOMAIN files[i].symbols
        /\ out[i].symbols[1].id = moduleId[i]
        /\ \A k \in DOMAIN out[i].symbols :
              /\ out[i].symbols[k].kind = files[i].symbols[k].kind
              /\ Placed(ModuleNames, files[i], out[i].symbols, k)

RunInv == PhaseInv /\ SymbolsInv /\ OutInv

LEMMA RunInit == Init => FilesInv /\ RunInv
<1> SUFFICES ASSUME Init PROVE FilesInv /\ RunInv
  OBVIOUS
<1>1. FilesInv
  <2>1. PICK sources \in Projects : files = Parsed(sources)
    BY DEF Init
  <2>2. DOMAIN sources = 1 .. Len(sources) /\ Len(sources) \in Nat
    BY FinalizeAssumption
  <2>3. DOMAIN files = 1 .. Len(sources) /\ Len(files) = Len(sources)
    BY <2>1, <2>2 DEF Parsed
  <2>4. \A i \in DOMAIN files : WellFormed(files[i])
    BY <2>1, <2>2, <2>3, FinalizeAssumption
  <2> QED
    BY <2>2, <2>3, <2>4 DEF FilesInv
<1>2. RunInv
  <2>1. <<>> \in Seq({})
    OBVIOUS
  <2> QED
    BY <1>1, <2>1 DEF Init, FilesInv, RunInv, PhaseInv, SymbolsInv, OutInv
<1> QED
  BY <1>1, <1>2

(* Remap takes an old id to the new id of the first symbol that had it.    *)
LEMMA RemapKnown ==
    ASSUME symbols \in Seq(Reform), NEW q, NEW n \in DOMAIN symbols, symbols[n].was = q
    PROVE  \E k \in 1 .. n : symbols[k].was = q /\ Remap(q) = symbols[k].id
<1> DEFINE I == {k \in 1 .. Len(symbols) : symbols[k].was = q}
<1>1. I \in SUBSET Nat /\ n \in I
  OBVIOUS
<1>2. Min(I) \in I /\ Min(I) <= n
  BY <1>1, MinIsLeast
<1>3. Min(I) # 0 /\ Remap(q) = symbols[Min(I)].id
  BY <1>1, <1>2 DEF Remap, SelectInSeq
<1>4. Min(I) \in 1 .. n /\ symbols[Min(I)].was = q
  BY <1>1, <1>2
<1> QED
  BY <1>3, <1>4

-----------------------------------------------------------------------------
(* No slot is given two ids, and no two slots one.                         *)
LEMMA TakenOnce ==
    ASSUME RunInv, NEW i, NEW k, NEW q, NEW r, Holds(i, k, q), Holds(i, k, r)
    PROVE  q = r
<1>1. DOMAIN out = 1 .. Len(out) /\ Len(out) \in Nat
  BY DEF RunInv, PhaseInv
<1>2. i = Len(out) + 1 => i \notin DOMAIN out
  BY <1>1
<1>3. i \in DOMAIN out => out[i].symbols[1].id = moduleId[i]
  BY DEF RunInv, OutInv
<1>4. 1 \in DOMAIN symbols => symbols[1].id = moduleId[Len(out) + 1]
  BY DEF RunInv, SymbolsInv
<1> QED
  BY <1>2, <1>3, <1>4 DEF Holds

DistinctInv ==
    \A a, b \in Slots(files) : \A q :
        Holds(a[1], a[2], q) /\ Holds(b[1], b[2], q) => a = b

SlotsInv == IsFiniteSet(Slots(files)) /\ Cardinality(Slots(files)) <= Len(Marks)

(* Claim returns a free id: there are more candidates than slots.          *)
LEMMA ClaimIsFree ==
    ASSUME RunInv, SeenInv, SlotsInv, NEW base \in Names
    PROVE  /\ Claim(base) \in Names \ seen
           /\ base \notin seen => Claim(base) = base
           /\ \E n \in 1 .. Len(Marks) + 1 :
                 /\ Claim(base) = Candidates(base)[n]
                 /\ \A m \in 1 .. n - 1 : Candidates(base)[m] \in seen
<1>1. ASSUME \A n \in 1 .. Len(Marks) + 1 : Candidates(base)[n] \in seen
      PROVE  FALSE
  <2> DEFINE D == 1 .. Len(Marks) + 1
             T == Slots(files)
             g == [n \in D |-> CHOOSE at \in T : Holds(at[1], at[2], Candidates(base)[n])]
  <2>1. \A n \in D : g[n] \in T /\ Holds(g[n][1], g[n][2], Candidates(base)[n])
    BY <1>1 DEF SeenInv
  <2>2. g \in [D -> T]
    BY <2>1
  <2>3. ASSUME NEW m \in D, NEW n \in D, g[m] = g[n] PROVE m = n
    <3>1. Candidates(base)[m] = Candidates(base)[n]
      BY <2>1, <2>3, TakenOnce
    <3> QED
      BY <3>1, CandidatesDiffer
  <2>4. g \in Injection(D, T)
    BY <2>2, <2>3 DEF Injection, IsInjective
  <2>5. Cardinality(D) <= Cardinality(T)
    BY <2>4, FS_Injection DEF SlotsInv
  <2>6. Len(Marks) \in Nat
    BY FinalizeAssumption
  <2>7. Cardinality(D) = Len(Marks) + 1
    BY <2>6, FS_Interval
  <2>8. Cardinality(T) \in Nat /\ Cardinality(T) <= Len(Marks)
    BY FS_CardinalityType DEF SlotsInv
  <2> QED
    BY <2>5, <2>6, <2>7, <2>8
<1> QED
  BY <1>1, ClaimIsFirst

(* One more slot has its id, a new one.                                    *)
LEMMA OneMoreTaken ==
    ASSUME SeenInv, DistinctInv, UNCHANGED files,
           NEW at \in Slots(files), NEW id, id \notin seen,
           seen' = seen \cup {id},
           \A i, k, q :
               Holds(i, k, q)' <=> Holds(i, k, q) \/ (i = at[1] /\ k = at[2] /\ q = id)
    PROVE  SeenInv' /\ DistinctInv'
<1>1. Slots(files)' = Slots(files)
  BY DEF Slots
<1>2. SeenInv'
  BY <1>1 DEF SeenInv
<1>3. ASSUME NEW b \in Slots(files), b[1] = at[1], b[2] = at[2] PROVE b = at
  BY <1>3 DEF Slots
<1>4. DistinctInv'
  BY <1>1, <1>3 DEF DistinctInv, SeenInv
<1> QED
  BY <1>2, <1>4

LEMMA NoMoreTaken ==
    ASSUME SeenInv, DistinctInv, UNCHANGED <<files, seen>>,
           \A i, k, q : Holds(i, k, q)' <=> Holds(i, k, q)
    PROVE  SeenInv' /\ DistinctInv'
<1>1. Slots(files)' = Slots(files)
  BY DEF Slots
<1> QED
  BY <1>1 DEF SeenInv, DistinctInv

-----------------------------------------------------------------------------
(* A name that is taken when its module comes is that of an earlier module.*)
NamesInv ==
    \A i \in DOMAIN moduleId : \E j \in DOMAIN moduleId : moduleId[j] = files[i].module

ClaimsInv == RunInv /\ SeenInv /\ DistinctInv /\ NamesInv

(* What one step of pass 1 does.                                           *)
LEMMA ReserveIs ==
    ASSUME FilesInv, SlotsInv, ClaimsInv, ReserveModule
    PROVE  LET n == Len(moduleId) + 1
               id == Claim(files[n].module)
           IN  /\ pc \in {"start", "modules"} /\ symbols = <<>> /\ out = <<>>
               /\ moduleId \in Seq(Names) /\ Len(moduleId) \in Nat
               /\ DOMAIN moduleId = 1 .. Len(moduleId)
               /\ n \in DOMAIN files /\ files[n].module \in Names
               /\ 1 \in DOMAIN files[n].symbols /\ id \in Names \ seen
               /\ files[n].module \notin seen => id = files[n].module
               /\ seen' = seen \cup {id}
               /\ pc' = (IF n = Len(files) THEN "members" ELSE "modules")
               /\ UNCHANGED <<files, symbols, out>>
               /\ moduleId' \in Seq(Names) /\ Len(moduleId') = n /\ DOMAIN moduleId' = 1 .. n
               /\ moduleId'[n] = id /\ \A i \in DOMAIN moduleId : moduleId'[i] = moduleId[i]
               /\ \A i, k, q : Holds(i, k, q)' <=> Holds(i, k, q) \/ (i = n /\ k = 1 /\ q = id)
<1> DEFINE n == Len(moduleId) + 1
           id == Claim(files[n].module)
<1>1. /\ pc \in {"start", "modules"} /\ symbols = <<>> /\ out = <<>>
      /\ moduleId \in Seq(Names) /\ Len(moduleId) \in Nat
      /\ DOMAIN moduleId = 1 .. Len(moduleId)
  BY DEF ClaimsInv, RunInv, PhaseInv, ReserveModule
<1>2. n \in DOMAIN files
  <2>1. CASE pc = "start"
    <3>1. HasDuplicate \/ HasGap
      BY <2>1 DEF ReserveModule
    <3>2. DOMAIN files # {}
      BY <3>1 DEF HasDuplicate, HasGap, UniqueIn, Slots, ModuleNames
    <3>3. Len(moduleId) = 0
      BY <2>1 DEF ClaimsInv, RunInv, PhaseInv
    <3> QED
      BY <3>2, <3>3 DEF FilesInv
  <2>2. CASE pc = "modules"
    BY <1>1, <2>2 DEF ClaimsInv, RunInv, PhaseInv, FilesInv
  <2> QED
    BY <1>1, <2>1, <2>2
<1>3. files[n].module \in Names /\ 1 \in DOMAIN files[n].symbols
  BY <1>2 DEF FilesInv, WellFormed
<1>4. id \in Names \ seen /\ (files[n].module \notin seen => id = files[n].module)
  BY <1>3, ClaimIsFree DEF ClaimsInv
<1>5. /\ moduleId' = Append(moduleId, id) /\ seen' = seen \cup {id}
      /\ pc' = (IF n = Len(files) THEN "members" ELSE "modules")
      /\ UNCHANGED <<files, symbols, out>>
  BY DEF ReserveModule
<1> HIDE DEF id
<1>6. /\ moduleId' \in Seq(Names) /\ Len(moduleId') = n /\ DOMAIN moduleId' = 1 .. n
      /\ moduleId'[n] = id /\ \A i \in DOMAIN moduleId : moduleId'[i] = moduleId[i]
  BY <1>1, <1>4, <1>5
<1>7. \A i, k, q : Holds(i, k, q)' <=> Holds(i, k, q) \/ (i = n /\ k = 1 /\ q = id)
  BY <1>1, <1>5, <1>6 DEF Holds
<1> QED
  BY <1>1, <1>2, <1>3, <1>4, <1>5, <1>6, <1>7 DEF id

LEMMA ReserveStep ==
    ASSUME FilesInv, SlotsInv, ClaimsInv, ReserveModule
    PROVE  ClaimsInv'
<1> DEFINE n == Len(moduleId) + 1
           id == Claim(files[n].module)
<1>1. /\ pc \in {"start", "modules"} /\ symbols = <<>> /\ out = <<>>
      /\ moduleId \in Seq(Names) /\ Len(moduleId) \in Nat
      /\ DOMAIN moduleId = 1 .. Len(moduleId)
  BY ReserveIs
<1>2. n \in DOMAIN files
  BY ReserveIs
<1>3. files[n].module \in Names /\ 1 \in DOMAIN files[n].symbols
  BY ReserveIs
<1>4. id \in Names \ seen /\ (files[n].module \notin seen => id = files[n].module)
  BY ReserveIs
<1>5. /\ seen' = seen \cup {id}
      /\ pc' = (IF n = Len(files) THEN "members" ELSE "modules")
      /\ UNCHANGED <<files, symbols, out>>
  BY ReserveIs
<1>6. /\ moduleId' \in Seq(Names) /\ Len(moduleId') = n /\ DOMAIN moduleId' = 1 .. n
      /\ moduleId'[n] = id /\ \A i \in DOMAIN moduleId : moduleId'[i] = moduleId[i]
  BY ReserveIs
<1> HIDE DEF id
<1>7. PhaseInv'
  <2>1. n <= Len(files) /\ Len(files) \in Nat
    BY <1>2 DEF FilesInv
  <2>2. Len(files[1].symbols) \in Nat /\ <<>> \in Seq({})
    BY <1>2 DEF FilesInv, WellFormed
  <2>3. \E S : out' \in Seq(S)
    BY <1>1, <1>5, <2>2
  <2>4. /\ pc' = "members" => Len(out') < Len(files') /\ Len(symbols') <= Len(files'[Len(out') + 1].symbols)
        /\ symbols' \in Seq(Reform)
    BY <1>1, <1>2, <1>5, <2>1, <2>2
  <2> QED
    BY <1>1, <1>5, <1>6, <2>1, <2>3, <2>4 DEF PhaseInv
<1>8. SymbolsInv' /\ OutInv'
  BY <1>1, <1>5 DEF SymbolsInv, OutInv
<1>9. SeenInv' /\ DistinctInv'
  <2>1. <<n, 1>> \in Slots(files)
    BY <1>2, <1>3 DEF Slots
  <2>2. \A i, k, q : Holds(i, k, q)' <=> Holds(i, k, q) \/ (i = <<n, 1>>[1] /\ k = <<n, 1>>[2] /\ q = id)
    BY ReserveIs DEF id
  <2> QED
    BY <1>4, <1>5, <2>1, <2>2, OneMoreTaken DEF ClaimsInv
<1>10. NamesInv'
  <2>1. \A q \in seen : \E j \in DOMAIN moduleId : moduleId[j] = q
    BY <1>1 DEF ClaimsInv, SeenInv, Holds
  <2>2. \E j \in DOMAIN moduleId' : moduleId'[j] = files[n].module
    BY <1>1, <1>4, <1>6, <2>1
  <2>3. ASSUME NEW i \in DOMAIN moduleId'
        PROVE  \E j \in DOMAIN moduleId' : moduleId'[j] = files[i].module
    <3>1. CASE i = n
      BY <2>2, <3>1
    <3>2. CASE i # n
      <4>1. i \in DOMAIN moduleId
        BY <1>1, <1>6, <3>2
      <4>2. PICK j \in DOMAIN moduleId : moduleId[j] = files[i].module
        BY <4>1 DEF ClaimsInv, NamesInv
      <4>3. j \in DOMAIN moduleId'
        BY <1>1, <1>6
      <4> QED
        BY <1>6, <4>2, <4>3
    <3> QED
      BY <3>1, <3>2
  <2> QED
    BY <1>5, <2>3 DEF NamesInv
<1> QED
  BY <1>7, <1>8, <1>9, <1>10 DEF ClaimsInv, RunInv

-----------------------------------------------------------------------------
(* The parent of the symbol that is next.                                  *)
LEMMA CurrentIs ==
    ASSUME FilesInv, PhaseInv, pc = "members"
    PROVE  /\ Len(out) + 1 \in DOMAIN files
           /\ WellFormed(Current)
           /\ CurrentModule \in Names
           /\ Len(symbols) \in Nat /\ DOMAIN symbols = 1 .. Len(symbols)
           /\ Len(symbols) <= Len(Current.symbols)
<1>1. Len(out) \in Nat /\ Len(out) + 1 \in DOMAIN files
  BY DEF FilesInv, PhaseInv
<1>2. moduleId \in Seq(Names) /\ Len(moduleId) = Len(files)
  BY DEF PhaseInv
<1>3. CurrentModule \in Names
  BY <1>1, <1>2 DEF FilesInv, CurrentModule
<1> QED
  BY <1>1, <1>3 DEF FilesInv, PhaseInv, Current

LEMMA ModuleParent ==
    ASSUME FilesInv, PhaseInv, pc = "members", symbols = <<>>,
           NEW s, s = Current.symbols[1]
    PROVE  NewParent(s) = None \/ NewParent(s) \in Ancestors(Current.module) \cap ModuleNames
<1>1. /\ Current.module \in Names \ {<<>>} /\ s.kind = "module"
      /\ s.parent = IF Len(Current.module) = 1 THEN None ELSE Front(Current.module)
  BY CurrentIs DEF WellFormed
<1>2. Len(Current.module) # 1 => Len(Current.module) > 1
  BY <1>1, NonEmptyNames
<1>3. s.parent = None \/ s.parent \in Ancestors(Current.module)
  BY <1>1, <1>2, AncestorsAre
<1>4. CorrectedParent(s) = None \/ CorrectedParent(s) \in Ancestors(Current.module) \cap ModuleNames
  BY <1>1, <1>3, NearestPackageIs DEF CorrectedParent
<1>5. ASSUME NEW q \in Ancestors(Current.module) PROVE Remap(q) = q
  <2>1. q # Current.module
    BY <1>1, AncestorsAre
  <2>2. SelectInSeq(symbols, LAMBDA t : t.was = q) = 0
    BY DEF SelectInSeq
  <2> QED
    BY <2>1, <2>2 DEF Remap
<1> QED
  BY <1>1, <1>4, <1>5 DEF NewParent

LEMMA MemberParent ==
    ASSUME FilesInv, PhaseInv, SymbolsInv, pc = "members", Len(symbols) < Len(Current.symbols),
           symbols # <<>>, NEW s, s = Current.symbols[Len(symbols) + 1]
    PROVE  /\ s.kind # "module" /\ NewParent(s) \in Names
           /\ \E j \in DOMAIN symbols : /\ s.parent = Current.symbols[j].id
                                       /\ NewParent(s) = symbols[j].id
<1> DEFINE k == Len(symbols) + 1
<1>1. /\ k \in DOMAIN Current.symbols /\ k # 1 /\ WellFormed(Current)
      /\ symbols \in Seq(Reform) /\ DOMAIN symbols = 1 .. k - 1 /\ Len(symbols) \in Nat
  <2>1. WellFormed(Current) /\ Len(symbols) \in Nat /\ DOMAIN symbols = 1 .. Len(symbols)
    BY CurrentIs
  <2>2. symbols \in Seq(Reform)
    BY DEF PhaseInv
  <2>3. Len(symbols) # 0
    BY <2>2
  <2>4. DOMAIN Current.symbols = 1 .. Len(Current.symbols) /\ Len(Current.symbols) \in Nat
    BY <2>1 DEF WellFormed
  <2> QED
    BY <2>1, <2>2, <2>3, <2>4
<1>2. s.kind # "module" /\ \E j \in 1 .. k - 1 : s.parent = Current.symbols[j].id
  BY <1>1 DEF WellFormed
<1>3. PICK n \in DOMAIN symbols : s.parent = Current.symbols[n].id
  BY <1>1, <1>2
<1>4. \A j \in DOMAIN symbols : symbols[j].was = Current.symbols[j].id
  BY DEF SymbolsInv, Current
<1>5. PICK j \in 1 .. n : symbols[j].was = s.parent /\ Remap(s.parent) = symbols[j].id
  <2>1. symbols[n].was = s.parent
    BY <1>3, <1>4
  <2>2. \E j \in 1 .. n : symbols[j].was = s.parent /\ Remap(s.parent) = symbols[j].id
    BY <1>1, <2>1, RemapKnown
  <2> QED
    BY <2>2
<1>6. j \in DOMAIN symbols /\ symbols[j] \in Reform
  <2>1. n \in Nat /\ n <= Len(symbols)
    BY <1>1
  <2>2. j \in DOMAIN symbols
    BY <1>1, <1>5, <2>1
  <2> QED
    BY <1>1, <2>2
<1>7. s.parent # None
  <2>1. n \in DOMAIN Current.symbols
    BY <1>1
  <2> QED
    BY <1>1, <1>3, <2>1, FinalizeAssumption DEF WellFormed
<1>8. NewParent(s) = symbols[j].id
  BY <1>2, <1>5, <1>7 DEF NewParent
<1> QED
  BY <1>2, <1>4, <1>5, <1>6, <1>8 DEF Reform

-----------------------------------------------------------------------------
(* What a symbol's place depends on.                                       *)
LEMMA PlacedKept ==
    ASSUME NEW modules, NEW fi, NEW syms, NEW syms2, NEW k \in Nat \ {0},
           \A j \in 1 .. k : syms2[j].id = syms[j].id /\ syms2[j].parent = syms[j].parent,
           Placed(modules, fi, syms, k)
    PROVE  Placed(modules, fi, syms2, k)
<1>1. k \in 1 .. k
  OBVIOUS
<1>2. CASE k = 1
  BY <1>1, <1>2 DEF Placed
<1>3. CASE k # 1
  <2>1. PICK j \in 1 .. k - 1 : /\ fi.symbols[k].parent = fi.symbols[j].id
                                /\ syms[k].parent = syms[j].id
    BY <1>3 DEF Placed
  <2>2. j \in 1 .. k
    BY <2>1
  <2> QED
    BY <1>1, <1>3, <2>1, <2>2 DEF Placed
<1> QED
  BY <1>2, <1>3

(* What one step of pass 2 does.                                           *)
LEMMA ReformIs ==
    ASSUME FilesInv, SlotsInv, ClaimsInv, ReformSymbol
    PROVE  LET k == Len(symbols) + 1
               s == Current.symbols[k]
               parent == NewParent(s)
               id == IF s.kind = "module" THEN CurrentModule ELSE Claim(parent \o s.name)
           IN  /\ pc = "members" /\ seen' = seen \cup {id}
               /\ UNCHANGED <<files, moduleId, out, pc>>
               /\ Len(out) + 1 \in DOMAIN files /\ WellFormed(Current) /\ CurrentModule \in Names
               /\ Len(symbols) \in Nat /\ DOMAIN symbols = 1 .. Len(symbols)
               /\ k \in DOMAIN Current.symbols
               /\ Len(out) \in Nat /\ DOMAIN out = 1 .. Len(out)
               /\ s.id \in Names /\ s.name \in Names /\ (k = 1 <=> s.kind = "module")
               /\ k # 1 => /\ parent \in Names /\ parent \o s.name \in Names
                          /\ id \in Names \ seen /\ id = Claim(parent \o s.name)
                          /\ \E j \in DOMAIN symbols :
                                s.parent = Current.symbols[j].id /\ parent = symbols[j].id
               /\ k = 1 => /\ symbols = <<>> /\ id = CurrentModule
                          /\ parent \in {None} \cup (Ancestors(Current.module) \cap ModuleNames)
               /\ symbols' \in Seq(Reform) /\ Len(symbols') = k /\ DOMAIN symbols' = 1 .. k
               /\ symbols'[k].was = s.id /\ symbols'[k].id = id /\ symbols'[k].parent = parent
               /\ \A j \in DOMAIN symbols : symbols'[j] = symbols[j]
               /\ \A i, l, q :
                     Holds(i, l, q)' <=> Holds(i, l, q) \/ (i = Len(out) + 1 /\ l = k /\ q = id)
<1> DEFINE k == Len(symbols) + 1
           s == Current.symbols[k]
           parent == NewParent(s)
           base == IF parent = None THEN s.name ELSE parent \o s.name
           id == IF s.kind = "module" THEN CurrentModule ELSE Claim(base)
           new == [was |-> s.id, id |-> id, parent |-> parent]
<1>1. /\ pc = "members" /\ Len(symbols) < Len(Current.symbols)
      /\ symbols' = Append(symbols, new) /\ seen' = seen \cup {id}
      /\ UNCHANGED <<files, moduleId, out, pc>>
  BY DEF ReformSymbol
<1>2. RunInv /\ PhaseInv /\ SymbolsInv /\ OutInv /\ SeenInv /\ DistinctInv
  BY DEF ClaimsInv, RunInv
<1>3. /\ Len(out) + 1 \in DOMAIN files /\ WellFormed(Current) /\ CurrentModule \in Names
      /\ Len(symbols) \in Nat /\ DOMAIN symbols = 1 .. Len(symbols)
      /\ k \in DOMAIN Current.symbols
      /\ Len(out) \in Nat /\ DOMAIN out = 1 .. Len(out)
  <2>1. /\ Len(out) + 1 \in DOMAIN files /\ WellFormed(Current) /\ CurrentModule \in Names
        /\ Len(symbols) \in Nat /\ DOMAIN symbols = 1 .. Len(symbols)
    BY <1>1, <1>2, CurrentIs
  <2>2. Len(out) \in Nat /\ DOMAIN out = 1 .. Len(out)
    BY <1>2 DEF PhaseInv
  <2>3. DOMAIN Current.symbols = 1 .. Len(Current.symbols) /\ Len(Current.symbols) \in Nat
    BY <2>1 DEF WellFormed
  <2>4. k \in DOMAIN Current.symbols
    BY <1>1, <2>1, <2>3
  <2> QED
    BY <2>1, <2>2, <2>4
<1>4. s.id \in Names /\ s.name \in Names /\ (k = 1 <=> s.kind = "module")
  BY <1>3 DEF WellFormed
<1>5. ASSUME k # 1
      PROVE  /\ parent \in Names /\ parent \o s.name \in Names
             /\ id \in Names \ seen /\ id = Claim(parent \o s.name)
             /\ \E j \in DOMAIN symbols : s.parent = Current.symbols[j].id /\ parent = symbols[j].id
  <2>1. symbols # <<>>
    BY <1>3, <1>5
  <2>2. /\ parent \in Names
        /\ \E j \in DOMAIN symbols : s.parent = Current.symbols[j].id /\ parent = symbols[j].id
    BY <1>1, <1>2, <2>1, MemberParent
  <2>3. base \in Names /\ base = parent \o s.name
    <3>1. parent # None
      BY <2>2, FinalizeAssumption
    <3>2. parent \o s.name \in Names
      BY <1>4, <2>2 DEF Names
    <3> QED
      BY <3>1, <3>2
  <2>4. id = Claim(base)
    BY <1>4, <1>5
  <2>5. Claim(base) \in Names \ seen
    BY <1>2, <2>3, ClaimIsFree
  <2>6. parent \o s.name \in Names /\ id = Claim(parent \o s.name) /\ id \in Names \ seen
    BY <2>3, <2>4, <2>5
  <2> QED
    BY <2>2, <2>6
<1>6. ASSUME k = 1
      PROVE  /\ symbols = <<>> /\ id = CurrentModule
             /\ parent = None \/ parent \in Ancestors(Current.module) \cap ModuleNames
  <2>1. symbols = <<>>
    BY <1>2, <1>3, <1>6 DEF PhaseInv
  <2> QED
    BY <1>1, <1>2, <1>4, <1>6, <2>1, ModuleParent
<1>7. new \in Reform
  <2>1. Current.module \in Names
    BY <1>3 DEF WellFormed
  <2>2. parent \in Names \cup {None} /\ id \in Names
    BY <1>3, <1>5, <1>6, <2>1, AncestorsAre
  <2> QED
    BY <1>4, <2>2 DEF Reform
<1> HIDE DEF new, id, parent
<1>8. /\ symbols' \in Seq(Reform) /\ Len(symbols') = k /\ DOMAIN symbols' = 1 .. k
      /\ symbols'[k] = new /\ \A j \in DOMAIN symbols : symbols'[j] = symbols[j]
  BY <1>1, <1>2, <1>3, <1>7 DEF PhaseInv
<1>9. new.was = s.id /\ new.id = id /\ new.parent = parent
  BY DEF new
<1>10. \A i, l, q :
           Holds(i, l, q)' <=> Holds(i, l, q) \/ (i = Len(out) + 1 /\ l = k /\ q = id)
  <2>1. CASE k = 1
    <3>1. Holds(Len(out) + 1, 1, id)
      <4>1. Len(out) + 1 \in DOMAIN moduleId
        BY <1>1, <1>2, <1>3 DEF PhaseInv, FilesInv
      <4> QED
        BY <1>6, <2>1, <4>1 DEF Holds, CurrentModule
    <3> QED
      BY <1>1, <1>3, <1>6, <1>8, <1>9, <2>1, <3>1 DEF Holds
  <2>2. CASE k # 1
    BY <1>1, <1>3, <1>8, <1>9, <2>2 DEF Holds
  <2> QED
    BY <2>1, <2>2
<1>11. id = (IF s.kind = "module" THEN CurrentModule ELSE Claim(parent \o s.name))
  BY <1>4, <1>5, <1>6
<1> QED
  BY <1>1, <1>3, <1>4, <1>5, <1>6, <1>8, <1>9, <1>10, <1>11 DEF parent

LEMMA ReformStep ==
    ASSUME FilesInv, SlotsInv, ClaimsInv, ReformSymbol
    PROVE  ClaimsInv'
<1> DEFINE k == Len(symbols) + 1
           s == Current.symbols[k]
           parent == NewParent(s)
           id == IF s.kind = "module" THEN CurrentModule ELSE Claim(parent \o s.name)
<1>1. pc = "members" /\ seen' = seen \cup {id} /\ UNCHANGED <<files, moduleId, out, pc>>
  BY ReformIs
<1>2. RunInv /\ PhaseInv /\ SymbolsInv /\ OutInv /\ SeenInv /\ DistinctInv
  BY DEF ClaimsInv, RunInv
<1>3. /\ Len(out) + 1 \in DOMAIN files /\ WellFormed(Current)
      /\ Len(symbols) \in Nat /\ DOMAIN symbols = 1 .. Len(symbols)
      /\ k \in DOMAIN Current.symbols
      /\ Len(out) \in Nat /\ DOMAIN out = 1 .. Len(out)
  BY ReformIs
<1>4. k # 1 => /\ id \in Names \ seen
               /\ \E j \in DOMAIN symbols : s.parent = Current.symbols[j].id /\ parent = symbols[j].id
  BY ReformIs
<1>5. k = 1 => /\ id = CurrentModule
               /\ parent = None \/ parent \in Ancestors(Current.module) \cap ModuleNames
  BY ReformIs
<1>6. /\ symbols' \in Seq(Reform) /\ Len(symbols') = k /\ DOMAIN symbols' = 1 .. k
      /\ \A j \in DOMAIN symbols : symbols'[j] = symbols[j]
  BY ReformIs
<1>7. symbols'[k].was = s.id /\ symbols'[k].id = id /\ symbols'[k].parent = parent
  BY ReformIs
<1>8. \A i, l, q :
          Holds(i, l, q)' <=> Holds(i, l, q) \/ (i = Len(out) + 1 /\ l = k /\ q = id)
  BY ReformIs
<1> HIDE DEF id, parent
<1>9. PhaseInv'
  <2>1. k <= Len(Current.symbols)
    BY <1>3 DEF WellFormed
  <2> QED
    BY <1>1, <1>2, <1>6, <2>1 DEF PhaseInv, Current
<1>10. SymbolsInv'
  <2> SUFFICES ASSUME NEW n \in 1 .. k
               PROVE  /\ symbols'[n].was = Current.symbols[n].id
                      /\ n = 1 => symbols'[n].id = CurrentModule
                      /\ Placed(ModuleNames, Current, symbols', n)
    BY <1>1, <1>6 DEF SymbolsInv, Current, CurrentModule, ModuleNames
  <2>1. CASE n # k
    <3>1. n \in DOMAIN symbols /\ n \in Nat \ {0} /\ \A j \in 1 .. n : j \in DOMAIN symbols
      BY <1>3, <2>1
    <3>2. /\ symbols[n].was = Current.symbols[n].id
          /\ n = 1 => symbols[n].id = CurrentModule
          /\ Placed(ModuleNames, Current, symbols, n)
      BY <1>2, <3>1 DEF SymbolsInv, Current, CurrentModule
    <3>3. \A j \in 1 .. n : symbols'[j] = symbols[j]
      BY <1>6, <3>1
    <3>4. Placed(ModuleNames, Current, symbols', n)
      BY <3>1, <3>2, <3>3, PlacedKept
    <3> QED
      BY <1>6, <3>1, <3>2, <3>4
  <2>2. CASE n = k /\ k = 1
    BY <1>5, <1>6, <1>7, <2>2 DEF Placed
  <2>3. CASE n = k /\ k # 1
    <3>1. PICK j \in DOMAIN symbols : s.parent = Current.symbols[j].id /\ parent = symbols[j].id
      BY <1>4, <2>3
    <3>2. j \in 1 .. k - 1 /\ symbols'[j] = symbols[j]
      BY <1>3, <1>6
    <3> QED
      BY <1>6, <1>7, <2>3, <3>1, <3>2 DEF Placed
  <2> QED
    BY <2>1, <2>2, <2>3
<1>11. OutInv'
  <2>1. ModuleNames' = ModuleNames
    BY <1>1 DEF ModuleNames
  <2> QED
    BY <1>1, <1>2, <2>1 DEF OutInv
<1>12. SeenInv' /\ DistinctInv'
  <2>1. CASE k = 1
    <3>1. Holds(Len(out) + 1, 1, CurrentModule)
      <4>1. Len(out) + 1 \in DOMAIN moduleId
        BY <1>1, <1>2, <1>3 DEF PhaseInv, FilesInv
      <4> QED
        BY <4>1 DEF Holds, CurrentModule
    <3>2. <<Len(out) + 1, 1>> \in Slots(files)
      BY <1>3, <2>1 DEF Slots, Current
    <3>3. CurrentModule \in seen
      BY <1>2, <3>1, <3>2 DEF SeenInv
    <3>4. seen' = seen
      BY <1>1, <1>5, <2>1, <3>3
    <3>5. \A i, l, q : Holds(i, l, q)' <=> Holds(i, l, q)
      BY <1>5, <1>8, <2>1, <3>1
    <3> QED
      BY <1>1, <1>2, <3>4, <3>5, NoMoreTaken
  <2>2. CASE k # 1
    <3>1. <<Len(out) + 1, k>> \in Slots(files)
      BY <1>3 DEF Slots, Current
    <3>2. \A i, l, q : Holds(i, l, q)' <=>
              Holds(i, l, q) \/ (i = <<Len(out) + 1, k>>[1] /\ l = <<Len(out) + 1, k>>[2] /\ q = id)
      BY <1>8
    <3> QED
      BY <1>1, <1>2, <1>4, <2>2, <3>1, <3>2, OneMoreTaken
  <2> QED
    BY <2>1, <2>2
<1>13. NamesInv'
  BY <1>1 DEF ClaimsInv, NamesInv
<1> QED
  BY <1>9, <1>10, <1>11, <1>12, <1>13 DEF ClaimsInv, RunInv

-----------------------------------------------------------------------------
(* A finished file has the symbols it had, as they are renamed.            *)
LEMMA FinishedIs ==
    ASSUME FilesInv, PhaseInv, pc = "members", Len(symbols) = Len(Current.symbols)
    PROVE  /\ DOMAIN Finished.symbols = DOMAIN Current.symbols
           /\ DOMAIN symbols = DOMAIN Current.symbols
           /\ \A k \in DOMAIN Current.symbols :
                 /\ Finished.symbols[k].id = symbols[k].id
                 /\ Finished.symbols[k].parent = symbols[k].parent
                 /\ Finished.symbols[k].kind = Current.symbols[k].kind
<1>1. WellFormed(Current) /\ DOMAIN symbols = DOMAIN Current.symbols
  BY CurrentIs DEF WellFormed
<1>2. Finished.symbols = Reformed
  <2>1. CASE Reformed = Current.symbols
    BY <2>1 DEF Finished
  <2>2. CASE Reformed # Current.symbols
    BY <1>1, <2>2 DEF Finished, WellFormed
  <2> QED
    BY <2>1, <2>2
<1>3. DOMAIN Reformed = DOMAIN Current.symbols
  BY <1>1 DEF Reformed
<1>4. ASSUME NEW k \in DOMAIN Current.symbols
      PROVE  /\ Reformed[k].id = symbols[k].id
             /\ Reformed[k].parent = symbols[k].parent
             /\ Reformed[k].kind = Current.symbols[k].kind
  <2>1. {"id", "name", "kind", "parent"} \subseteq DOMAIN Current.symbols[k]
    BY <1>1 DEF WellFormed
  <2>2. Reformed[k] = [Current.symbols[k] EXCEPT !.id = symbols[k].id, !.parent = symbols[k].parent]
    BY <1>1 DEF Reformed
  <2> QED
    BY <2>1, <2>2
<1> QED
  BY <1>1, <1>2, <1>3, <1>4

(* What the end of a file does.                                            *)
LEMMA FinishIs ==
    ASSUME FilesInv, ClaimsInv, FinishFile
    PROVE  LET i == Len(out) + 1
           IN  /\ pc = "members" /\ Len(symbols) = Len(Current.symbols) /\ symbols' = <<>>
               /\ pc' = (IF i = Len(files) THEN "done" ELSE "members")
               /\ UNCHANGED <<files, seen, moduleId>>
               /\ i \in DOMAIN files /\ WellFormed(Current) /\ CurrentModule \in Names
               /\ Len(out) \in Nat /\ DOMAIN out = 1 .. Len(out) /\ i \notin DOMAIN out
               /\ Current = files[i] /\ CurrentModule = moduleId[i]
               /\ \E S : out' \in Seq(S)
               /\ Len(out') = i /\ DOMAIN out' = 1 .. i /\ out'[i] = Finished
               /\ \A j \in DOMAIN out : out'[j] = out[j]
               /\ \A j, k, q : Holds(j, k, q)' <=> Holds(j, k, q)
<1> DEFINE i == Len(out) + 1
<1>1. /\ pc = "members" /\ Len(symbols) = Len(Current.symbols)
      /\ out' = Append(out, Finished) /\ symbols' = <<>>
      /\ pc' = (IF i = Len(files) THEN "done" ELSE "members")
      /\ UNCHANGED <<files, seen, moduleId>>
  BY DEF FinishFile
<1>2. RunInv /\ PhaseInv /\ SymbolsInv /\ OutInv /\ SeenInv /\ DistinctInv
  BY DEF ClaimsInv, RunInv
<1>3. /\ i \in DOMAIN files /\ WellFormed(Current) /\ CurrentModule \in Names
      /\ Len(out) \in Nat /\ DOMAIN out = 1 .. Len(out) /\ i \notin DOMAIN out
      /\ Current = files[i] /\ CurrentModule = moduleId[i]
  BY <1>1, <1>2, CurrentIs DEF PhaseInv, Current, CurrentModule
<1>4. /\ DOMAIN Finished.symbols = DOMAIN Current.symbols
      /\ DOMAIN symbols = DOMAIN Current.symbols
      /\ \A k \in DOMAIN Current.symbols :
            /\ Finished.symbols[k].id = symbols[k].id
            /\ Finished.symbols[k].parent = symbols[k].parent
            /\ Finished.symbols[k].kind = Current.symbols[k].kind
  BY <1>1, <1>2, FinishedIs
<1>5. /\ \E S : out' \in Seq(S)
      /\ Len(out') = i /\ DOMAIN out' = 1 .. i /\ out'[i] = Finished
      /\ \A j \in DOMAIN out : out'[j] = out[j]
  <2>1. PICK S : out \in Seq(S)
    BY <1>2 DEF PhaseInv
  <2>2. out \in Seq(S \cup {Finished})
    BY <2>1
  <2>3. out' \in Seq(S \cup {Finished}) /\ Len(out') = i /\ DOMAIN out' = 1 .. i
    BY <1>1, <2>2
  <2>4. out'[i] = Finished /\ \A j \in DOMAIN out : out'[j] = out[j]
    BY <1>1, <1>3, <2>2
  <2> QED
    BY <2>3, <2>4
<1>6. ASSUME NEW j, NEW k, NEW q PROVE Holds(j, k, q)' <=> Holds(j, k, q)
  <2>1. j \in DOMAIN out' <=> j = i \/ j \in DOMAIN out
    BY <1>3, <1>5
  <2>2. k \in DOMAIN symbols => (q = symbols[k].id <=> q = Finished.symbols[k].id)
    BY <1>4
  <2> QED
    BY <1>1, <1>3, <1>4, <1>5, <2>1, <2>2 DEF Holds
<1> QED
  BY <1>1, <1>3, <1>5, <1>6

LEMMA FinishStep ==
    ASSUME FilesInv, ClaimsInv, FinishFile
    PROVE  ClaimsInv'
<1> DEFINE i == Len(out) + 1
<1>1. /\ pc = "members" /\ Len(symbols) = Len(Current.symbols) /\ symbols' = <<>>
      /\ pc' = (IF i = Len(files) THEN "done" ELSE "members")
      /\ UNCHANGED <<files, seen, moduleId>>
  BY FinishIs
<1>2. RunInv /\ PhaseInv /\ SymbolsInv /\ OutInv /\ SeenInv /\ DistinctInv
  BY DEF ClaimsInv, RunInv
<1>3. /\ i \in DOMAIN files /\ WellFormed(Current) /\ CurrentModule \in Names
      /\ Len(out) \in Nat /\ DOMAIN out = 1 .. Len(out) /\ i \notin DOMAIN out
      /\ Current = files[i] /\ CurrentModule = moduleId[i]
  BY FinishIs
<1>4. /\ DOMAIN Finished.symbols = DOMAIN Current.symbols
      /\ DOMAIN symbols = DOMAIN Current.symbols
      /\ \A k \in DOMAIN Current.symbols :
            /\ Finished.symbols[k].id = symbols[k].id
            /\ Finished.symbols[k].parent = symbols[k].parent
            /\ Finished.symbols[k].kind = Current.symbols[k].kind
  BY <1>1, <1>2, FinishedIs
<1>5. /\ \E S : out' \in Seq(S)
      /\ Len(out') = i /\ DOMAIN out' = 1 .. i /\ out'[i] = Finished
      /\ \A j \in DOMAIN out : out'[j] = out[j]
  BY FinishIs
<1>6. PhaseInv'
  <2>1. symbols' \in Seq(Reform) /\ Len(symbols') = 0
    BY <1>1
  <2>2. i \in Nat /\ i <= Len(files) /\ Len(files) \in Nat
    BY <1>3 DEF FilesInv
  <2>3. i # Len(files) => i < Len(files) /\ i + 1 \in DOMAIN files
    <3>1. \A a, b \in Nat : a <= b /\ a # b => a < b /\ a + 1 \in 1 .. b
      OBVIOUS
    <3> QED
      BY <2>2, <3>1 DEF FilesInv
  <2>4. i # Len(files) => 0 <= Len(files[i + 1].symbols)
    <3>1. i # Len(files) => Len(files[i + 1].symbols) \in Nat
      BY <2>3 DEF FilesInv, WellFormed
    <3>2. \A l \in Nat : 0 <= l
      OBVIOUS
    <3> QED
      BY <3>1, <3>2
  <2> QED
    BY <1>1, <1>2, <1>5, <2>1, <2>2, <2>3, <2>4 DEF PhaseInv
<1>7. SymbolsInv'
  BY <1>1 DEF SymbolsInv
<1>8. OutInv'
  <2>1. ModuleNames' = ModuleNames
    BY <1>1 DEF ModuleNames
  <2>2. /\ DOMAIN Finished.symbols = DOMAIN Current.symbols
        /\ Finished.symbols[1].id = CurrentModule
        /\ \A k \in DOMAIN Current.symbols :
              /\ Finished.symbols[k].kind = Current.symbols[k].kind
              /\ Placed(ModuleNames, Current, Finished.symbols, k)
    <3>1. 1 \in DOMAIN Current.symbols
      BY <1>3 DEF WellFormed
    <3>2. symbols[1].id = CurrentModule
      BY <1>2, <1>3, <1>4, <3>1 DEF SymbolsInv
    <3>3. ASSUME NEW k \in DOMAIN Current.symbols
          PROVE  Placed(ModuleNames, Current, Finished.symbols, k)
      <4>1. k \in Nat \ {0} /\ \A j \in 1 .. k : j \in DOMAIN Current.symbols
        BY <1>3 DEF WellFormed
      <4>2. Placed(ModuleNames, Current, symbols, k)
        BY <1>2, <1>3, <1>4 DEF SymbolsInv
      <4>3. \A j \in 1 .. k : /\ Finished.symbols[j].id = symbols[j].id
                              /\ Finished.symbols[j].parent = symbols[j].parent
        BY <1>4, <4>1
      <4> QED
        BY <4>1, <4>2, <4>3, PlacedKept
    <3> QED
      BY <1>4, <3>1, <3>2, <3>3
  <2>3. \A j \in DOMAIN out' : j = i \/ j \in DOMAIN out
    BY <1>3, <1>5
  <2> QED
    BY <1>1, <1>2, <1>3, <1>5, <2>1, <2>2, <2>3 DEF OutInv
<1>9. SeenInv' /\ DistinctInv'
  <2>1. \A j, k, q : Holds(j, k, q)' <=> Holds(j, k, q)
    BY FinishIs
  <2> QED
    BY <1>1, <1>2, <2>1, NoMoreTaken
<1>10. NamesInv'
  BY <1>1 DEF ClaimsInv, NamesInv
<1> QED
  BY <1>6, <1>7, <1>8, <1>9, <1>10 DEF ClaimsInv, RunInv

-----------------------------------------------------------------------------
(* A run that finds nothing to do returns the files.                       *)
Untouched ==
    pc = "done" /\ moduleId = <<>> /\ out = files /\ UniqueIn(files) /\ ~HasGap

FinalizeInv == FilesInv /\ (Untouched \/ ClaimsInv)

LEMMA ClaimsInit == Init => FilesInv /\ ClaimsInv
<1> SUFFICES ASSUME Init PROVE FilesInv /\ ClaimsInv
  OBVIOUS
<1>1. FilesInv /\ RunInv
  BY RunInit
<1>2. \A i, k, q : ~Holds(i, k, q)
  BY DEF Init, Holds
<1>3. SeenInv /\ DistinctInv /\ NamesInv
  BY <1>2 DEF Init, SeenInv, DistinctInv, NamesInv
<1> QED
  BY <1>1, <1>3 DEF ClaimsInv

(* The suffixes suffice for the files of this run.                         *)
LEMMA SlotsInit ==
    Init => SlotsInv
BY EnoughMarks DEF Init, SlotsInv

LEMMA ClaimsStutter ==
    ASSUME ClaimsInv, UNCHANGED vars
    PROVE  ClaimsInv'
<1>1. UNCHANGED <<files, seen, moduleId, symbols, out, pc>> /\ ModuleNames' = ModuleNames
  BY DEF vars, ModuleNames
<1>2. PhaseInv'
  BY <1>1 DEF ClaimsInv, RunInv, PhaseInv
<1>3. SymbolsInv' /\ OutInv' /\ NamesInv'
  BY <1>1 DEF ClaimsInv, RunInv, SymbolsInv, OutInv, NamesInv
<1>4. \A i, k, q : Holds(i, k, q)' <=> Holds(i, k, q)
  BY <1>1 DEF Holds
<1>5. SeenInv' /\ DistinctInv'
  BY <1>1, <1>4, NoMoreTaken DEF ClaimsInv
<1> QED
  BY <1>2, <1>3, <1>5 DEF ClaimsInv, RunInv

LEMMA FinalizeStep == FinalizeInv /\ SlotsInv /\ [Next]_vars => FinalizeInv' /\ SlotsInv'
<1> SUFFICES ASSUME FinalizeInv, SlotsInv, [Next]_vars PROVE FinalizeInv' /\ SlotsInv'
  OBVIOUS
<1>1. UNCHANGED files
  BY DEF Next, ReturnUntouched, ReserveModule, ReformSymbol, FinishFile, vars
<1>2. SlotsInv'
  BY <1>1 DEF SlotsInv, Slots
<1>3. FilesInv /\ FilesInv'
  BY <1>1 DEF FinalizeInv, FilesInv
<1>4. CASE Untouched
  <2>1. UNCHANGED vars
    BY <1>4 DEF Untouched, Next, ReturnUntouched, ReserveModule, ReformSymbol, FinishFile
  <2>2. UNCHANGED <<files, moduleId, out, pc>> /\ HasGap' = HasGap
    BY <2>1 DEF vars, HasGap, ModuleNames
  <2>3. UniqueIn(files)' <=> UniqueIn(files)
    BY <2>2 DEF UniqueIn, Slots, IdAt
  <2>4. Untouched'
    BY <1>4, <2>2, <2>3 DEF Untouched
  <2> QED
    BY <1>2, <1>3, <2>4 DEF FinalizeInv
<1>5. CASE ClaimsInv
  <2>1. CASE ReturnUntouched
    <3>1. Untouched'
      BY <1>5, <2>1 DEF ClaimsInv, RunInv, PhaseInv, ReturnUntouched, Untouched, HasDuplicate, UniqueIn, Slots, IdAt, HasGap, ModuleNames
    <3> QED
      BY <1>2, <1>3, <3>1 DEF FinalizeInv
  <2>2. CASE ReserveModule
    BY <1>2, <1>3, <1>5, <2>2, ReserveStep DEF FinalizeInv
  <2>3. CASE ReformSymbol
    BY <1>2, <1>3, <1>5, <2>3, ReformStep DEF FinalizeInv
  <2>4. CASE FinishFile
    BY <1>2, <1>3, <1>5, <2>4, FinishStep DEF FinalizeInv
  <2>5. CASE UNCHANGED vars
    BY <1>2, <1>3, <1>5, <2>5, ClaimsStutter DEF FinalizeInv
  <2> QED
    BY <2>1, <2>2, <2>3, <2>4, <2>5 DEF Next
<1> QED
  BY <1>4, <1>5 DEF FinalizeInv

LEMMA FinalizeInvAlways ==
    Spec => []FinalizeInv
<1>1. Init => FinalizeInv /\ SlotsInv
  BY ClaimsInit, SlotsInit DEF FinalizeInv
<1> QED
  BY <1>1, FinalizeStep, PTL DEF Spec

-----------------------------------------------------------------------------
(* What a run that renamed has done.                                       *)
LEMMA DoneIs ==
    ASSUME FilesInv, ClaimsInv, Done
    PROVE  /\ DOMAIN out = DOMAIN files /\ DOMAIN moduleId = DOMAIN files
           /\ Len(out) = Len(files)
           /\ \A i \in DOMAIN files :
                 /\ DOMAIN out[i].symbols = DOMAIN files[i].symbols
                 /\ 1 \in DOMAIN files[i].symbols
                 /\ out[i].symbols[1].id = moduleId[i] /\ out[i].symbols[1].kind = "module"
<1>1. /\ PhaseInv /\ OutInv /\ Len(out) = Len(files) /\ Len(moduleId) = Len(files)
  BY DEF ClaimsInv, RunInv, PhaseInv, Done
<1>2. DOMAIN out = DOMAIN files /\ DOMAIN moduleId = DOMAIN files
  BY <1>1 DEF PhaseInv, FilesInv
<1>3. \A i \in DOMAIN files : 1 \in DOMAIN files[i].symbols /\ files[i].symbols[1].kind = "module"
  BY DEF FilesInv, WellFormed
<1> QED
  BY <1>1, <1>2, <1>3 DEF OutInv

(* Every reachable state of the pass has its type: the module is the first *)
(* id of each file, reserved ids are taken ids, and a finished run returns *)
(* as many files as it was given.                                          *)
THEOREM FinalizeTypes ==
    Spec => []FinalizeTypeOK
<1>1. FinalizeInv => FinalizeTypeOK
  <2> SUFFICES ASSUME FinalizeInv PROVE FinalizeTypeOK
    OBVIOUS
  <2>1. \A i \in DOMAIN files : Head(Ids(files[i])) = files[i].module
    BY DEF FinalizeInv, FilesInv, WellFormed, Ids
  <2>2. CASE Untouched
    BY <2>1, <2>2 DEF Untouched, FinalizeInv, FilesInv, FinalizeTypeOK, ToSet
  <2>3. CASE ClaimsInv
    <3>1. /\ pc \in {"start", "modules", "members", "done"}
          /\ Len(moduleId) <= Len(files) /\ Len(out) <= Len(files)
          /\ Done => Len(out) = Len(files)
      BY <2>3 DEF ClaimsInv, RunInv, PhaseInv, Done
    <3>2. ASSUME NEW i \in DOMAIN moduleId PROVE moduleId[i] \in seen
      <4>1. <<i, 1>> \in Slots(files)
        <5>1. i \in DOMAIN files
          BY <2>3 DEF ClaimsInv, RunInv, PhaseInv, FinalizeInv, FilesInv
        <5> QED
          BY <5>1 DEF FinalizeInv, FilesInv, WellFormed, Slots
      <4> QED
        BY <2>3, <4>1 DEF ClaimsInv, SeenInv, Holds
    <3> QED
      BY <2>1, <3>1, <3>2 DEF FinalizeTypeOK, ToSet
  <2> QED
    BY <2>2, <2>3 DEF FinalizeInv
<1> QED
  BY <1>1, FinalizeInvAlways, PTL

(* All ids of the result are different, whatever collided and whatever the *)
(* suffixes collided with.                                                 *)
THEOREM IdsAreUnique ==
    Spec => []UniqueIds
<1>1. FinalizeInv => UniqueIds
  <2> SUFFICES ASSUME FinalizeInv, Done, ~Untouched, NEW a \in Slots(out), NEW b \in Slots(out),
                      IdAt(out, a) = IdAt(out, b)
               PROVE  a = b
    BY DEF UniqueIds, UniqueIn, Untouched
  <2>1. FilesInv /\ ClaimsInv
    BY DEF FinalizeInv
  <2>2. /\ a[1] \in DOMAIN out /\ a[2] \in DOMAIN out[a[1]].symbols
        /\ b[1] \in DOMAIN out /\ b[2] \in DOMAIN out[b[1]].symbols
    BY DEF Slots
  <2>3. a \in Slots(files) /\ b \in Slots(files)
    BY <2>1, <2>2, DoneIs DEF Slots
  <2>4. Holds(a[1], a[2], IdAt(out, a)) /\ Holds(b[1], b[2], IdAt(out, a))
    BY <2>2 DEF Holds, IdAt
  <2> QED
    BY <2>1, <2>3, <2>4 DEF ClaimsInv, DistinctInv
<1> QED
  BY <1>1, FinalizeInvAlways, PTL

(* ensure_unique_ids reserves the modules first, and _claim gives a name   *)
(* away only if it is free: the name of every module stays the id of one.  *)
THEOREM ModulesAreKept ==
    Spec => []ModulesKeepNames
<1>1. FinalizeInv => ModulesKeepNames
  <2> SUFFICES ASSUME FinalizeInv, Done, NEW m \in ModuleNames
               PROVE  \E i \in DOMAIN out : \E s \in ToSet(out[i].symbols) :
                          s.kind = "module" /\ s.id = m
    BY DEF ModulesKeepNames
  <2>1. PICK i \in DOMAIN files : files[i].module = m
    BY DEF ModuleNames
  <2>2. CASE Untouched
    <3>1. /\ 1 \in DOMAIN files[i].symbols
          /\ files[i].symbols[1].kind = "module" /\ files[i].symbols[1].id = m
      BY <2>1 DEF FinalizeInv, FilesInv, WellFormed
    <3> QED
      BY <2>1, <2>2, <3>1 DEF Untouched, ToSet
  <2>3. CASE ClaimsInv
    <3>1. FilesInv
      BY DEF FinalizeInv
    <3>2. PICK j \in DOMAIN moduleId : moduleId[j] = m
      BY <2>1, <2>3, <3>1, DoneIs DEF ClaimsInv, NamesInv
    <3>3. /\ j \in DOMAIN out /\ 1 \in DOMAIN out[j].symbols
          /\ out[j].symbols[1].kind = "module" /\ out[j].symbols[1].id = m
      BY <2>3, <3>1, <3>2, DoneIs
    <3> QED
      BY <3>3 DEF ToSet
  <2> QED
    BY <2>2, <2>3 DEF FinalizeInv
<1> QED
  BY <1>1, FinalizeInvAlways, PTL

(* The parents ensure_unique_ids rewrites: each member hangs from the      *)
(* symbol it hung from, under its new id, and each module from none or     *)
(* from a package of the project above it.                                 *)
THEOREM TreeIsWhole ==
    Spec => []TreeStaysWhole
<1>1. FinalizeInv => TreeStaysWhole
  <2> DEFINE Hangs(before, after, i, k) ==
               IF before.kind = "module"
               THEN after.parent = None \/ (after.parent \in ModuleNames
                                            /\ after.parent \in Ancestors(files[i].module))
               ELSE \E j \in 1 .. k - 1 :
                       /\ before.parent = files[i].symbols[j].id
                       /\ after.parent = out[i].symbols[j].id
  <2> SUFFICES ASSUME FinalizeInv, Done, NEW i \in DOMAIN out, NEW k \in DOMAIN out[i].symbols
               PROVE  Hangs(files[i].symbols[k], out[i].symbols[k], i, k)
    BY DEF TreeStaysWhole
  <2>1. CASE Untouched
    <3>1. /\ i \in DOMAIN files /\ k \in DOMAIN files[i].symbols /\ WellFormed(files[i])
          /\ out[i] = files[i]
      BY <2>1 DEF Untouched, FinalizeInv, FilesInv
    <3>2. CASE k # 1
      BY <3>1, <3>2 DEF WellFormed
    <3>3. CASE k = 1
      <4>1. /\ files[i].module \in Names \ {<<>>}
            /\ files[i].symbols[k].kind = "module"
            /\ files[i].symbols[k].parent =
                  IF Len(files[i].module) = 1 THEN None ELSE Front(files[i].module)
        BY <3>1, <3>3 DEF WellFormed
      <4>2. Len(files[i].module) # 1 => Len(files[i].module) > 1
        BY <4>1, NonEmptyNames
      <4>3. Len(files[i].module) > 1 => Front(files[i].module) \in ModuleNames
        BY <2>1, <3>1 DEF Untouched, HasGap, ModuleNames
      <4> QED
        BY <3>1, <4>1, <4>2, <4>3, AncestorsAre
    <3> QED
      BY <3>2, <3>3
  <2>2. CASE ClaimsInv
    <3>1. /\ i \in DOMAIN files /\ k \in DOMAIN files[i].symbols /\ WellFormed(files[i])
      BY <2>2, DoneIs DEF FinalizeInv, FilesInv
    <3>2. Placed(ModuleNames, files[i], out[i].symbols, k)
      BY <2>2 DEF ClaimsInv, RunInv, OutInv
    <3>3. files[i].symbols[k].kind = "module" <=> k = 1
      BY <3>1 DEF WellFormed
    <3> QED
      BY <3>2, <3>3 DEF Placed
  <2> QED
    BY <2>1, <2>2 DEF FinalizeInv
<1> QED
  BY <1>1, FinalizeInvAlways, PTL

-----------------------------------------------------------------------------
(* References are made from symbols of their file, before and after.       *)
SourcesAreSymbols(fi) ==
    \A r \in DOMAIN fi.refs : \E k \in DOMAIN fi.symbols : fi.symbols[k].id = fi.refs[r].src

SourcesInv == \A i \in DOMAIN files : SourcesAreSymbols(files[i])

Followed(fi, fo) ==
    \A r \in DOMAIN fo.refs : \E k \in DOMAIN fo.symbols :
        fi.symbols[k].id = fi.refs[r].src /\ fo.symbols[k].id = fo.refs[r].src

RefsInv == \A i \in DOMAIN out : Followed(files[i], out[i])

LEMMA FinishedFollows ==
    ASSUME FilesInv, PhaseInv, SymbolsInv, SourcesInv,
           pc = "members", Len(symbols) = Len(Current.symbols)
    PROVE  Followed(Current, Finished)
<1>1. WellFormed(Current) /\ SourcesAreSymbols(Current) /\ symbols \in Seq(Reform)
  BY CurrentIs DEF PhaseInv, SourcesInv, Current
<1>2. /\ DOMAIN Finished.symbols = DOMAIN Current.symbols
      /\ DOMAIN symbols = DOMAIN Current.symbols
      /\ \A k \in DOMAIN symbols : Finished.symbols[k].id = symbols[k].id
      /\ \A k \in DOMAIN symbols : symbols[k].was = Current.symbols[k].id
  BY FinishedIs DEF SymbolsInv, Current
<1>3. CASE Reformed = Current.symbols
  BY <1>1, <1>3 DEF Finished, Followed, SourcesAreSymbols
<1>4. CASE Reformed # Current.symbols
  <2>1. Finished.refs = [r \in DOMAIN Current.refs |->
                            [Current.refs[r] EXCEPT !.src = Remap(Current.refs[r].src)]]
    <3>1. "refs" \in DOMAIN Current
      BY <1>1 DEF WellFormed
    <3> QED
      BY <1>4, <3>1, Zenon DEF Finished
  <2> SUFFICES ASSUME NEW r \in DOMAIN Current.refs
               PROVE  \E k \in DOMAIN symbols : /\ Current.symbols[k].id = Current.refs[r].src
                                              /\ symbols[k].id = Finished.refs[r].src
    BY <1>2, <2>1 DEF Followed
  <2>2. Finished.refs[r].src = Remap(Current.refs[r].src)
    BY <1>1, <2>1 DEF WellFormed
  <2>3. PICK n \in DOMAIN symbols : symbols[n].was = Current.refs[r].src
    BY <1>1, <1>2 DEF SourcesAreSymbols
  <2>4. PICK k \in 1 .. n : /\ symbols[k].was = Current.refs[r].src
                            /\ Remap(Current.refs[r].src) = symbols[k].id
    BY <1>1, <2>3, RemapKnown
  <2>5. k \in DOMAIN symbols
    BY <1>1, <2>4
  <2> QED
    BY <1>2, <2>2, <2>4, <2>5
<1> QED
  BY <1>3, <1>4

(* The sources ensure_unique_ids rewrites: a reference whose source is a   *)
(* symbol of its file is still made from that symbol, under its new id.    *)
THEOREM ReferencesFollow ==
    ASSUME \A sources \in Projects : \A i \in DOMAIN sources : SourcesAreSymbols(Parsed(sources)[i])
    PROVE  Spec => []RefsFollow
<1>1. Init => SourcesInv /\ RefsInv
  <2>1. ASSUME NEW sources \in Projects PROVE DOMAIN Parsed(sources) = DOMAIN sources
    BY DEF Parsed
  <2> QED
    BY <2>1 DEF Init, SourcesInv, RefsInv
<1>2. FinalizeInv /\ SourcesInv /\ RefsInv /\ [Next]_vars => SourcesInv' /\ RefsInv'
  <2> SUFFICES ASSUME FinalizeInv, SourcesInv, RefsInv, [Next]_vars PROVE SourcesInv' /\ RefsInv'
    OBVIOUS
  <2>1. UNCHANGED files
    BY DEF Next, ReturnUntouched, ReserveModule, ReformSymbol, FinishFile, vars
  <2>2. SourcesInv'
    BY <2>1 DEF SourcesInv
  <2>3. CASE ReturnUntouched
    BY <2>1, <2>3 DEF ReturnUntouched, RefsInv, SourcesInv, Followed, SourcesAreSymbols
  <2>4. CASE UNCHANGED out
    BY <2>1, <2>2, <2>4 DEF RefsInv
  <2>5. CASE FinishFile
    <3>1. FilesInv /\ ClaimsInv
      BY <2>5 DEF FinalizeInv, Untouched, FinishFile
    <3>2. PhaseInv /\ SymbolsInv
      BY <3>1 DEF ClaimsInv, RunInv
    <3>3. Followed(files[Len(out) + 1], Finished)
      BY <2>5, <3>1, <3>2, FinishedFollows DEF FinishFile, Current
    <3>4. PICK S : out \in Seq(S)
      BY <3>2 DEF PhaseInv
    <3>5. out \in Seq(S \cup {Finished}) /\ out' = Append(out, Finished)
      BY <2>5, <3>4 DEF FinishFile
    <3>6. /\ DOMAIN out = 1 .. Len(out) /\ DOMAIN out' = 1 .. Len(out) + 1 /\ Len(out) \in Nat
          /\ out'[Len(out) + 1] = Finished /\ \A i \in DOMAIN out : out'[i] = out[i]
      BY <3>5
    <3>7. \A i \in DOMAIN out' : i = Len(out) + 1 \/ i \in DOMAIN out
      BY <3>6
    <3>8. \A i \in DOMAIN out' : Followed(files[i], out'[i])
      BY <3>3, <3>6, <3>7 DEF RefsInv
    <3> QED
      BY <2>1, <2>2, <3>8 DEF RefsInv
  <2> QED
    BY <2>2, <2>3, <2>4, <2>5 DEF Next, ReserveModule, ReformSymbol, vars
<1>3. RefsInv => RefsFollow
  BY DEF RefsInv, RefsFollow, Followed
<1> QED
  BY <1>1, <1>2, <1>3, FinalizeInvAlways, PTL DEF Spec

-----------------------------------------------------------------------------
(* The ids of a file by itself, and what a suffix does to one.             *)
LEMMA CandidateIs ==
    ASSUME NEW base \in Names, NEW n \in 1 .. Len(Marks) + 1
    PROVE  LET q == Candidates(base)[n]
           IN  /\ q \in Names
               /\ n = 1 => q = base
               /\ n # 1 => Marked(q) /\ q # <<>> /\ Front(q) = base
<1>1. Marks \in Seq(STRING) /\ Len(Marks) \in Nat /\ DOMAIN Marks = 1 .. Len(Marks)
  BY FinalizeAssumption
<1>2. base \in Seq(STRING) /\ Len(base) \in Nat
  BY DEF Names
<1>3. CASE n = 1
  BY <1>3, CandidatesAre
<1>4. CASE n # 1
  <2> DEFINE k == n - 1
             q == base \o <<Marks[k]>>
  <2>1. k \in DOMAIN Marks /\ k + 1 = n
    BY <1>1, <1>4
  <2>2. Marks[k] \in STRING /\ Marks[k] \in ToSet(Marks)
    BY <1>1, <2>1 DEF ToSet
  <2>3. Candidates(base)[n] = q
    BY <2>1, CandidatesAre
  <2>4. /\ q \in Seq(STRING) /\ Len(q) = Len(base) + 1 /\ q[Len(base) + 1] = Marks[k]
        /\ \A c \in 1 .. Len(base) : q[c] = base[c]
    BY <1>2, <2>2
  <2> HIDE DEF q
  <2>5. Marked(q) /\ q # <<>>
    BY <1>2, <2>2, <2>4 DEF Marked
  <2>6. Front(q) = base
    BY <1>2, <2>4 DEF Front
  <2> QED
    BY <1>4, <2>3, <2>4, <2>5, <2>6 DEF Names
<1> QED
  BY <1>3, <1>4

LEMMA JoinIs ==
    ASSUME NEW parent \in Names, NEW name \in Names, Len(name) = 1
    PROVE  LET q == parent \o name
           IN  /\ q \in Names /\ q # <<>> /\ Front(q) = parent
               /\ ~Marked(q) => ~Marked(parent)
<1> DEFINE q == parent \o name
<1>1. parent \in Seq(STRING) /\ name \in Seq(STRING) /\ Len(parent) \in Nat
  BY DEF Names
<1>2. /\ q \in Seq(STRING) /\ Len(q) = Len(parent) + 1
      /\ \A c \in 1 .. Len(parent) : q[c] = parent[c]
  <2>1. Len(q) = Len(parent) + Len(name) /\ q \in Seq(STRING)
    <3>1. \A a, b \in Seq(STRING) : a \o b \in Seq(STRING) /\ Len(a \o b) = Len(a) + Len(b)
      OBVIOUS
    <3> QED
      BY <1>1, <3>1
  <2>2. \A c \in 1 .. Len(parent) : q[c] = parent[c]
    BY <1>1
  <2> QED
    BY <1>1, <2>1, <2>2
<1> HIDE DEF q
<1>3. Front(q) = parent
  BY <1>1, <1>2 DEF Front
<1>4. ASSUME Marked(parent) PROVE Marked(q)
  <2>1. PICK c \in DOMAIN parent : parent[c] \in ToSet(Marks)
    BY <1>4 DEF Marked
  <2>2. c \in DOMAIN q /\ q[c] = parent[c]
    BY <1>1, <1>2, <2>1
  <2> QED
    BY <2>1, <2>2 DEF Marked
<1> QED
  BY <1>1, <1>2, <1>3, <1>4 DEF Names, q

Own(fi) == ToSet(Ids(fi))

LEMMA OwnIs ==
    ASSUME NEW fi, WellFormed(fi)
    PROVE  Own(fi) = {fi.symbols[k].id : k \in DOMAIN fi.symbols}
BY DEF Own, Ids, ToSet

(* Whatever comes before the last component of an id is an id.             *)
LEMMA OwnClosed ==
    ASSUME NEW fi, WellFormed(fi), Settled(fi)
    PROVE  /\ fi.module \in Own(fi) /\ ~Marked(fi.module)
           /\ \A q \in Own(fi) : q = fi.module \/ Front(q) \in Own(fi)
<1>1. fi.module \in Own(fi)
  <2>1. 1 \in DOMAIN fi.symbols /\ fi.symbols[1].id = fi.module
    BY DEF WellFormed
  <2> QED
    BY <2>1, OwnIs
<1>2. ASSUME NEW k \in DOMAIN fi.symbols, k # 1
      PROVE  Front(fi.symbols[k].id) \in Own(fi)
  <2> DEFINE s == fi.symbols[k]
             base == s.parent \o s.name
  <2>1. PICK j \in 1 .. k - 1 : s.parent = fi.symbols[j].id
    BY <1>2 DEF WellFormed
  <2>2. j \in DOMAIN fi.symbols /\ fi.symbols[j].id \in Names /\ s.name \in Names
    BY <1>2, <2>1 DEF WellFormed
  <2>3. /\ Len(s.name) = 1
        /\ \E n \in 1 .. Len(Marks) + 1 :
              /\ s.id = Candidates(base)[n]
              /\ \A m \in 1 .. n - 1 : Candidates(base)[m] \in Before(fi, k)
    BY <1>2 DEF Settled
  <2>4. base \in Names /\ Front(base) = s.parent
    BY <2>1, <2>2, <2>3, JoinIs
  <2> HIDE DEF base
  <2>5. PICK n \in 1 .. Len(Marks) + 1 :
            /\ s.id = Candidates(base)[n]
            /\ \A m \in 1 .. n - 1 : Candidates(base)[m] \in Before(fi, k)
    BY <2>3
  <2>6. CASE n = 1
    BY <2>1, <2>2, <2>4, <2>5, <2>6, CandidateIs, OwnIs
  <2>7. CASE n # 1
    <3>1. 1 \in 1 .. n - 1 /\ 1 \in 1 .. Len(Marks) + 1
      BY <2>7, FinalizeAssumption
    <3>2. Candidates(base)[1] \in Before(fi, k) /\ Candidates(base)[1] = base
      BY <2>4, <2>5, <3>1, CandidatesAre
    <3>3. Before(fi, k) \subseteq Own(fi)
      <4>1. DOMAIN fi.symbols = 1 .. Len(fi.symbols) /\ Len(fi.symbols) \in Nat
        BY DEF WellFormed
      <4>2. \A l \in 1 .. k - 1 : l \in DOMAIN fi.symbols
        BY <1>2, <4>1
      <4> QED
        BY <4>2, OwnIs DEF Before
    <3> QED
      BY <2>4, <2>5, <2>7, <3>2, <3>3, CandidateIs
  <2> QED
    BY <2>6, <2>7
<1>3. \A q \in Own(fi) : q = fi.module \/ Front(q) \in Own(fi)
  BY <1>2, OwnIs DEF WellFormed
<1> QED
  BY <1>1, <1>3 DEF Settled

-----------------------------------------------------------------------------
(* No other file is given an id of a file that clashes with none, which is *)
(* why the ids it claims are its own.                                      *)
AllSettled == \A i \in DOMAIN files : Settled(files[i])

Foreign(i) == \A j, k, q : Holds(j, k, q) /\ j # i => q \notin Own(files[i])

Kept(i) ==
    /\ Foreign(i)
    /\ i \in DOMAIN moduleId => moduleId[i] = files[i].module
    /\ i = Len(out) + 1 => \A k \in DOMAIN symbols :
          /\ symbols[k].id = files[i].symbols[k].id
          /\ symbols[k].parent = files[i].symbols[k].parent
    /\ i \in DOMAIN out => out[i] = files[i]

(* An id without a suffix is the one the symbol had; and the id that a     *)
(* symbol would form first is taken once the symbol has one.               *)
ModulesPlain ==
    \A j \in DOMAIN moduleId : ~Marked(moduleId[j]) => moduleId[j] = files[j].module

SymbolPlain(k) ==
    /\ ~Marked(symbols[k].id) => symbols[k].id = Current.symbols[k].id
    /\ k # 1 => symbols[k].parent \o Current.symbols[k].name \in seen

PlainInv == ModulesPlain /\ \A k \in DOMAIN symbols : SymbolPlain(k)

KeptInv == PlainInv /\ \A i \in DOMAIN files : ~Clashes(i) => Kept(i)

(* What a foreign claim would have to start from.                          *)
LEMMA ClaimOutside ==
    ASSUME NEW fi, WellFormed(fi), Settled(fi), NEW base \in Names,
           NEW n \in 1 .. Len(Marks) + 1, Candidates(base)[n] \in Own(fi)
    PROVE  base \in Own(fi)
<1>1. CASE n = 1
  BY <1>1, CandidateIs
<1>2. CASE n # 1
  <2>1. Marked(Candidates(base)[n]) /\ Front(Candidates(base)[n]) = base
    BY <1>2, CandidateIs
  <2> QED
    BY <2>1, OwnClosed
<1> QED
  BY <1>1, <1>2

LEMMA ModuleIsOwn ==
    ASSUME FilesInv, NEW i \in DOMAIN files
    PROVE  files[i].module \in Own(files[i]) /\ files[i].module \in Names
BY OwnIs DEF FilesInv, WellFormed

LEMMA ReserveKeeps ==
    ASSUME FilesInv, SlotsInv, ClaimsInv, AllSettled, KeptInv, ReserveModule
    PROVE  KeptInv'
<1> DEFINE n == Len(moduleId) + 1
           id == Claim(files[n].module)
<1>1. /\ symbols = <<>> /\ out = <<>> /\ n \in DOMAIN files /\ n \notin DOMAIN moduleId
      /\ files[n].module \in Names /\ id \in Names \ seen
      /\ files[n].module \notin seen => id = files[n].module
      /\ UNCHANGED <<files, symbols, out>>
  BY ReserveIs
<1>2. /\ DOMAIN moduleId' = DOMAIN moduleId \cup {n} /\ moduleId'[n] = id
      /\ \A j \in DOMAIN moduleId : moduleId'[j] = moduleId[j]
  BY ReserveIs
<1>3. \A j, k, q : Holds(j, k, q)' <=> Holds(j, k, q) \/ (j = n /\ k = 1 /\ q = id)
  BY ReserveIs
<1>4. PICK c \in 1 .. Len(Marks) + 1 : id = Candidates(files[n].module)[c]
  BY <1>1, ClaimIsFree DEF ClaimsInv
<1> HIDE DEF id
<1>5. ModulesPlain'
  <2>1. ~Marked(id) => id = files[n].module
    BY <1>1, <1>4, CandidateIs
  <2> QED
    BY <1>1, <1>2, <2>1 DEF KeptInv, PlainInv, ModulesPlain
<1>6. ASSUME NEW i \in DOMAIN files, ~Clashes(i)
      PROVE  Kept(i)'
  <2>1. Kept(i) /\ WellFormed(files[i]) /\ Settled(files[i])
    BY <1>6 DEF KeptInv, FilesInv, AllSettled
  <2>2. ASSUME n # i PROVE id \notin Own(files[i])
    <3>1. files[n].module \in Own(files[n])
      BY <1>1, ModuleIsOwn
    <3>2. files[n].module \notin Own(files[i])
      BY <1>1, <1>6, <2>2, <3>1 DEF Clashes, Own
    <3> QED
      BY <1>1, <1>4, <2>1, <3>2, ClaimOutside
  <2>3. ASSUME n = i PROVE id = files[i].module
    <3>1. ASSUME files[i].module \in seen PROVE FALSE
      <4>1. PICK at \in Slots(files) : Holds(at[1], at[2], files[i].module)
        BY <3>1 DEF ClaimsInv, SeenInv
      <4>2. at[1] \in DOMAIN moduleId
        BY <1>1, <4>1 DEF Holds
      <4> QED
        BY <1>1, <1>6, <2>1, <2>3, <4>1, <4>2, ModuleIsOwn DEF Kept, Foreign
    <3> QED
      BY <1>1, <2>3, <3>1
  <2>4. Foreign(i)'
    BY <1>1, <1>3, <2>1, <2>2 DEF Kept, Foreign, Own, Ids
  <2>5. i \in DOMAIN moduleId' => moduleId'[i] = files[i].module
    BY <1>2, <2>1, <2>3 DEF Kept
  <2> QED
    BY <1>1, <2>1, <2>4, <2>5 DEF Kept
<1>7. \A i \in DOMAIN files : Clashes(i)' <=> Clashes(i)
  BY <1>1 DEF Clashes, Ids, ModuleNames
<1> QED
  BY <1>1, <1>5, <1>6, <1>7 DEF KeptInv, PlainInv

(* In a file by itself: what a symbol would form first is an id of it, and *)
(* no id is that of two symbols.                                           *)
LEMMA SettledIs ==
    ASSUME NEW fi, WellFormed(fi), Settled(fi), NEW k \in DOMAIN fi.symbols, k # 1
    PROVE  LET s == fi.symbols[k]
               base == s.parent \o s.name
           IN  /\ base \in Names /\ Front(base) = s.parent
               /\ base \in Own(fi)
               /\ s.id = base \/ base \in Before(fi, k)
               /\ ~Marked(s.id) => s.id = base
<1> DEFINE s == fi.symbols[k]
           base == s.parent \o s.name
<1>1. PICK j \in 1 .. k - 1 : s.parent = fi.symbols[j].id
  BY DEF WellFormed
<1>2. /\ DOMAIN fi.symbols = 1 .. Len(fi.symbols) /\ Len(fi.symbols) \in Nat
      /\ j \in DOMAIN fi.symbols /\ fi.symbols[j].id \in Names /\ s.name \in Names
  BY <1>1 DEF WellFormed
<1>3. /\ Len(s.name) = 1
      /\ \E n \in 1 .. Len(Marks) + 1 :
            /\ s.id = Candidates(base)[n]
            /\ \A m \in 1 .. n - 1 : Candidates(base)[m] \in Before(fi, k)
  BY DEF Settled
<1>4. base \in Names /\ Front(base) = s.parent
  BY <1>1, <1>2, <1>3, JoinIs
<1> HIDE DEF base
<1>5. PICK n \in 1 .. Len(Marks) + 1 :
          /\ s.id = Candidates(base)[n]
          /\ \A m \in 1 .. n - 1 : Candidates(base)[m] \in Before(fi, k)
  BY <1>3
<1>6. Before(fi, k) \subseteq Own(fi) /\ s.id \in Own(fi)
  <2>1. \A l \in 1 .. k - 1 : l \in DOMAIN fi.symbols
    BY <1>2
  <2> QED
    BY <2>1, OwnIs DEF Before
<1>7. CASE n = 1
  <2>1. s.id = base
    BY <1>4, <1>5, <1>7, CandidateIs
  <2> QED
    BY <1>4, <1>6, <2>1 DEF base
<1>8. CASE n # 1
  <2>1. 1 \in 1 .. n - 1
    BY <1>8
  <2>2. base \in Before(fi, k)
    BY <1>4, <1>5, <2>1, CandidatesAre
  <2>3. Marked(s.id)
    BY <1>4, <1>5, <1>8, CandidateIs
  <2> QED
    BY <1>4, <1>6, <2>2, <2>3 DEF base
<1> QED
  BY <1>7, <1>8

LEMMA OwnOnce ==
    ASSUME NEW fi, WellFormed(fi), Settled(fi),
           NEW a \in DOMAIN fi.symbols, NEW b \in DOMAIN fi.symbols,
           fi.symbols[a].id = fi.symbols[b].id
    PROVE  a = b
<1>1. DOMAIN fi.symbols = 1 .. Len(fi.symbols) /\ Len(fi.symbols) \in Nat
  BY DEF WellFormed
<1>2. ASSUME NEW c \in DOMAIN fi.symbols, NEW d \in DOMAIN fi.symbols, c < d
      PROVE  fi.symbols[c].id # fi.symbols[d].id
  <2>1. d # 1 /\ c \in 1 .. d - 1
    BY <1>1, <1>2
  <2>2. fi.symbols[d].id \notin Before(fi, d)
    BY <2>1 DEF Settled
  <2> QED
    BY <2>1, <2>2 DEF Before
<1>3. a < b \/ b < a \/ a = b
  BY <1>1
<1> QED
  BY <1>2, <1>3

(* A name that a module has, or had when it was reserved, is taken.        *)
LEMMA ModuleSeen ==
    ASSUME FilesInv, ClaimsInv, NEW i \in DOMAIN moduleId
    PROVE  files[i].module \in seen /\ moduleId[i] \in seen
<1>1. \A j \in DOMAIN moduleId : moduleId[j] \in seen
  <2> SUFFICES ASSUME NEW j \in DOMAIN moduleId PROVE moduleId[j] \in seen
    OBVIOUS
  <2>1. j \in DOMAIN files
    BY DEF ClaimsInv, RunInv, PhaseInv, FilesInv
  <2>2. <<j, 1>> \in Slots(files)
    BY <2>1 DEF FilesInv, WellFormed, Slots
  <2> QED
    BY <2>2 DEF ClaimsInv, SeenInv, Holds
<1> QED
  BY <1>1 DEF ClaimsInv, NamesInv

LEMMA ReformPlain ==
    ASSUME FilesInv, SlotsInv, ClaimsInv, AllSettled, KeptInv, ReformSymbol
    PROVE  PlainInv'
<1> DEFINE k == Len(symbols) + 1
           s == Current.symbols[k]
           parent == NewParent(s)
           base == parent \o s.name
           id == IF s.kind = "module" THEN CurrentModule ELSE Claim(base)
<1>1. /\ pc = "members" /\ seen' = seen \cup {id} /\ UNCHANGED <<files, moduleId, out, pc>>
      /\ Len(out) + 1 \in DOMAIN files /\ WellFormed(Current)
      /\ Len(symbols) \in Nat /\ DOMAIN symbols = 1 .. Len(symbols)
      /\ k \in DOMAIN Current.symbols
      /\ s.id \in Names /\ s.name \in Names /\ (k = 1 <=> s.kind = "module")
  BY ReformIs
<1>2. k # 1 => /\ parent \in Names /\ base \in Names /\ id = Claim(base) /\ id \in Names \ seen
               /\ \E j \in DOMAIN symbols :
                     s.parent = Current.symbols[j].id /\ parent = symbols[j].id
  BY ReformIs
<1>3. k = 1 => id = CurrentModule
  BY ReformIs
<1>4. /\ DOMAIN symbols' = 1 .. k /\ symbols'[k].id = id /\ symbols'[k].parent = parent
      /\ \A j \in DOMAIN symbols : symbols'[j] = symbols[j]
  BY ReformIs
<1>5. Settled(Current) /\ Current = files[Len(out) + 1] /\ Current' = Current
  BY <1>1 DEF AllSettled, Current
<1>6. Len(out) + 1 \in DOMAIN moduleId
  BY <1>1 DEF ClaimsInv, RunInv, PhaseInv, FilesInv
<1> HIDE DEF id, base, parent
<1>7. ASSUME ~Marked(id) => id = s.id, k # 1 => base \in seen'
      PROVE  PlainInv'
  <2> SUFFICES ASSUME NEW j \in DOMAIN symbols' PROVE SymbolPlain(j)'
    BY <1>1 DEF PlainInv, KeptInv, ModulesPlain
  <2>1. CASE j = k
    BY <1>4, <1>5, <1>7, <2>1 DEF SymbolPlain, base
  <2>2. CASE j # k
    <3>1. j \in DOMAIN symbols
      BY <1>1, <1>4, <2>2
    <3> QED
      BY <1>1, <1>4, <1>5, <3>1 DEF KeptInv, PlainInv, SymbolPlain
  <2> QED
    BY <2>1, <2>2
<1>8. CASE k = 1
  <2>1. s.id = Current.module
    BY <1>1, <1>8 DEF WellFormed
  <2>2. ~Marked(id) => id = s.id
    BY <1>3, <1>5, <1>6, <1>8, <2>1 DEF KeptInv, PlainInv, ModulesPlain, CurrentModule
  <2> QED
    BY <1>7, <1>8, <2>2
<1>9. CASE k # 1
  <2>1. PICK c \in 1 .. Len(Marks) + 1 :
            id = Candidates(base)[c] /\ \A m \in 1 .. c - 1 : Candidates(base)[m] \in seen
    BY <1>2, <1>9, ClaimIsFree DEF ClaimsInv
  <2>2. base \in seen \cup {id}
    <3>1. CASE c = 1
      BY <1>2, <1>9, <2>1, <3>1, CandidateIs
    <3>2. CASE c # 1
      <4>1. 1 \in 1 .. c - 1
        BY <3>2
      <4> QED
        BY <1>2, <1>9, <2>1, <4>1, CandidatesAre
    <3> QED
      BY <3>1, <3>2
  <2>3. ASSUME ~Marked(id) PROVE id = s.id
    <3>1. id = base /\ base \notin seen
      BY <1>2, <1>9, <2>1, <2>3, CandidateIs
    <3>2. PICK j \in DOMAIN symbols : s.parent = Current.symbols[j].id /\ parent = symbols[j].id
      BY <1>2, <1>9
    <3>3. Len(s.name) = 1
      BY <1>1, <1>5, <1>9 DEF Settled
    <3>4. ~Marked(parent)
      BY <1>1, <1>2, <1>9, <2>3, <3>1, <3>3, JoinIs DEF base
    <3>5. parent = s.parent
      BY <3>2, <3>4 DEF KeptInv, PlainInv, SymbolPlain
    <3>6. base = s.parent \o s.name
      BY <3>5 DEF base
    <3>7. Front(base) = s.parent /\ (s.id = base \/ base \in Before(Current, k))
      BY <1>1, <1>5, <1>9, <3>6, SettledIs
    <3>8. ASSUME base \in Before(Current, k) PROVE FALSE
      <4>1. PICK l \in 1 .. k - 1 : Current.symbols[l].id = base
        BY <3>8 DEF Before
      <4>2. l \in DOMAIN symbols /\ l \in DOMAIN Current.symbols /\ j \in DOMAIN Current.symbols
        BY <1>1, <4>1 DEF WellFormed
      <4>3. CASE l = 1
        <5>1. base = Current.module
          BY <1>1, <4>1, <4>2, <4>3 DEF WellFormed
        <5> QED
          BY <1>5, <1>6, <3>1, <5>1, ModuleSeen
      <4>4. CASE l # 1
        <5> DEFINE t == Current.symbols[l]
        <5>1. t.parent \o t.name = base /\ Front(base) = t.parent
          BY <1>1, <1>5, <2>3, <3>1, <4>1, <4>2, <4>4, SettledIs
        <5>2. t.parent = s.parent
          BY <3>7, <5>1
        <5>3. PICK h \in 1 .. l - 1 : t.parent = Current.symbols[h].id /\ symbols[l].parent = symbols[h].id
          BY <1>5, <4>2, <4>4 DEF ClaimsInv, RunInv, SymbolsInv, Placed
        <5>4. h \in DOMAIN Current.symbols
          BY <1>1, <4>2, <5>3 DEF WellFormed
        <5>5. h = j
          BY <1>1, <1>5, <3>2, <4>2, <5>2, <5>3, <5>4, OwnOnce
        <5>6. symbols[l].parent \o t.name = base
          BY <3>2, <3>5, <5>1, <5>2, <5>3, <5>5
        <5> QED
          BY <3>1, <4>2, <4>4, <5>6 DEF KeptInv, PlainInv, SymbolPlain
      <4> QED
        BY <4>3, <4>4
    <3> QED
      BY <3>1, <3>7, <3>8
  <2> QED
    BY <1>1, <1>7, <1>9, <2>2, <2>3
<1> QED
  BY <1>8, <1>9

(* The first candidate that is free is the one claimed.                    *)
LEMMA ClaimIs ==
    ASSUME RunInv, SeenInv, SlotsInv, NEW base \in Names, NEW n \in 1 .. Len(Marks) + 1,
           Candidates(base)[n] \notin seen,
           \A m \in 1 .. n - 1 : Candidates(base)[m] \in seen
    PROVE  Claim(base) = Candidates(base)[n]
<1>1. PICK c \in 1 .. Len(Marks) + 1 :
          Claim(base) = Candidates(base)[c] /\ \A m \in 1 .. c - 1 : Candidates(base)[m] \in seen
  BY ClaimIsFree
<1>2. Candidates(base)[c] \notin seen
  BY <1>1, ClaimIsFree
<1>3. Len(Marks) \in Nat
  BY FinalizeAssumption
<1>4. ~(c < n) /\ ~(n < c)
  <2>1. ASSUME c < n PROVE c \in 1 .. n - 1
    BY <1>3, <2>1
  <2>2. ASSUME n < c PROVE n \in 1 .. c - 1
    BY <1>3, <2>2
  <2> QED
    BY <1>1, <1>2, <2>1, <2>2
<1>5. c = n
  BY <1>3, <1>4
<1> QED
  BY <1>1, <1>5

(* The file itself: the module's parent is there, and each symbol has the  *)
(* id it had, by way of the same candidates.                               *)
LEMMA OwnModuleParent ==
    ASSUME FilesInv, PhaseInv, pc = "members", symbols = <<>>, ~Clashes(Len(out) + 1),
           NEW s, s = Current.symbols[1]
    PROVE  NewParent(s) = s.parent
<1>1. /\ Current.module \in Names \ {<<>>} /\ s.kind = "module"
      /\ s.parent = IF Len(Current.module) = 1 THEN None ELSE Front(Current.module)
  BY CurrentIs DEF WellFormed
<1>2. CASE s.parent = None
  BY <1>1, <1>2 DEF NewParent, CorrectedParent
<1>3. CASE s.parent # None
  <2>1. Len(Current.module) > 1 /\ s.parent = Front(Current.module)
    BY <1>1, <1>3, NonEmptyNames
  <2>2. s.parent \in ModuleNames
    BY <2>1 DEF Clashes, Current
  <2>3. s.parent # Current.module
    BY <1>1, <2>1, AncestorsAre
  <2>4. SelectInSeq(symbols, LAMBDA t : t.was = s.parent) = 0
    BY DEF SelectInSeq
  <2>5. Remap(s.parent) = s.parent
    BY <2>3, <2>4 DEF Remap
  <2> QED
    BY <1>1, <1>3, <2>2, <2>5 DEF NewParent, CorrectedParent
<1> QED
  BY <1>2, <1>3

LEMMA OwnClaim ==
    ASSUME FilesInv, SlotsInv, ClaimsInv, AllSettled, ReformSymbol,
           ~Clashes(Len(out) + 1), Kept(Len(out) + 1)
    PROVE  LET k == Len(symbols) + 1
               s == Current.symbols[k]
           IN  /\ NewParent(s) = s.parent
               /\ IF s.kind = "module" THEN CurrentModule = s.id
                  ELSE Claim(s.parent \o s.name) = s.id
<1> DEFINE i == Len(out) + 1
           k == Len(symbols) + 1
           s == Current.symbols[k]
           parent == NewParent(s)
<1>1. /\ pc = "members" /\ i \in DOMAIN files /\ WellFormed(Current) /\ Len(out) \in Nat
      /\ DOMAIN out = 1 .. Len(out) /\ Len(symbols) \in Nat /\ DOMAIN symbols = 1 .. Len(symbols)
      /\ k \in DOMAIN Current.symbols /\ (k = 1 <=> s.kind = "module") /\ (k = 1 => symbols = <<>>)
  BY ReformIs
<1>2. k # 1 => \E j \in DOMAIN symbols : s.parent = Current.symbols[j].id /\ parent = symbols[j].id
  BY ReformIs
<1>3. Settled(Current) /\ Current = files[i] /\ i \in DOMAIN moduleId /\ PhaseInv /\ RunInv /\ SeenInv
  BY <1>1 DEF AllSettled, Current, ClaimsInv, RunInv, PhaseInv, FilesInv
<1>4. CASE k = 1
  <2>1. parent = s.parent
    BY <1>1, <1>3, <1>4, OwnModuleParent
  <2>2. CurrentModule = s.id
    BY <1>1, <1>3, <1>4 DEF Kept, CurrentModule, WellFormed
  <2> QED
    BY <1>1, <1>4, <2>1, <2>2
<1>5. CASE k # 1
  <2>1. parent = s.parent
    BY <1>2, <1>3, <1>5 DEF Kept
  <2> DEFINE base == s.parent \o s.name
  <2>2. /\ s.id \notin Before(Current, k)
        /\ \E n \in 1 .. Len(Marks) + 1 :
              /\ s.id = Candidates(base)[n]
              /\ \A m \in 1 .. n - 1 : Candidates(base)[m] \in Before(Current, k)
    BY <1>1, <1>3, <1>5 DEF Settled
  <2>3. base \in Names
    BY <1>1, <1>3, <1>5, SettledIs
  <2> HIDE DEF base
  <2>4. PICK n \in 1 .. Len(Marks) + 1 :
            /\ s.id = Candidates(base)[n]
            /\ \A m \in 1 .. n - 1 : Candidates(base)[m] \in Before(Current, k)
    BY <2>2
  <2>5. \A l \in 1 .. k - 1 : /\ l \in DOMAIN symbols /\ l \in DOMAIN Current.symbols
                             /\ symbols[l].id = Current.symbols[l].id
    <3>1. 1 .. k - 1 = DOMAIN symbols
      BY <1>1
    <3>2. k <= Len(Current.symbols) /\ DOMAIN Current.symbols = 1 .. Len(Current.symbols)
          /\ Len(Current.symbols) \in Nat
      BY <1>1 DEF WellFormed
    <3>3. \A l \in 1 .. k - 1 : l \in DOMAIN Current.symbols
      BY <1>1, <3>2
    <3>4. \A l \in DOMAIN symbols : symbols[l].id = Current.symbols[l].id
      BY <1>3 DEF Kept
    <3> QED
      BY <3>1, <3>3, <3>4
  <2>6. ASSUME NEW q \in Before(Current, k) PROVE q \in seen
    <3>1. PICK l \in 1 .. k - 1 : q = Current.symbols[l].id
      BY <2>6 DEF Before
    <3>2. Holds(i, l, q) /\ <<i, l>> \in Slots(files)
      BY <1>1, <1>3, <2>5, <3>1 DEF Holds, Slots
    <3> QED
      BY <1>3, <3>2 DEF SeenInv
  <2>7. ASSUME s.id \in seen PROVE FALSE
    <3>1. PICK at \in Slots(files) : Holds(at[1], at[2], s.id)
      BY <1>3, <2>7 DEF SeenInv
    <3>2. s.id \in Own(files[i])
      BY <1>1, <1>3, OwnIs
    <3>3. at[1] = i
      BY <3>1, <3>2 DEF Kept, Foreign
    <3>4. CASE s.id = moduleId[i]
      <4>1. s.id = Current.symbols[1].id
        BY <1>1, <1>3, <3>4 DEF Kept, WellFormed
      <4>2. 1 \in 1 .. k - 1
        BY <1>1, <1>5
      <4> QED
        BY <2>2, <4>1, <4>2 DEF Before
    <3>5. CASE at[2] \in DOMAIN symbols /\ s.id = symbols[at[2]].id
      <4>1. at[2] \in 1 .. k - 1
        BY <1>1, <3>5
      <4> QED
        BY <2>2, <2>5, <3>5, <4>1 DEF Before
    <3>6. i \notin DOMAIN out
      BY <1>1
    <3> QED
      BY <3>1, <3>3, <3>4, <3>5, <3>6 DEF Holds
  <2>8. Claim(base) = s.id
    BY <1>3, <2>3, <2>4, <2>6, <2>7, ClaimIs
  <2> QED
    BY <1>1, <1>5, <2>1, <2>8 DEF base
<1> QED
  BY <1>4, <1>5

(* Another file's: an id of this one would have to be formed from a parent *)
(* of this one, or to be its module, which another file has by that name.  *)
LEMMA ForeignClaim ==
    ASSUME FilesInv, SlotsInv, ClaimsInv, AllSettled, PlainInv, ReformSymbol,
           NEW i \in DOMAIN files, i # Len(out) + 1, ~Clashes(i), Foreign(i)
    PROVE  LET s == Current.symbols[Len(symbols) + 1]
           IN  (IF s.kind = "module" THEN CurrentModule ELSE Claim(NewParent(s) \o s.name))
                   \notin Own(files[i])
<1> DEFINE n == Len(out) + 1
           k == Len(symbols) + 1
           s == Current.symbols[k]
           parent == NewParent(s)
           base == parent \o s.name
<1>1. /\ pc = "members" /\ n \in DOMAIN files /\ WellFormed(Current) /\ DOMAIN symbols = 1 .. Len(symbols)
      /\ k \in DOMAIN Current.symbols /\ s.name \in Names /\ (k = 1 <=> s.kind = "module")
  BY ReformIs
<1>2. k # 1 => /\ parent \in Names /\ base \in Names
               /\ \E j \in DOMAIN symbols : s.parent = Current.symbols[j].id /\ parent = symbols[j].id
  BY ReformIs
<1>3. /\ Settled(Current) /\ Current = files[n] /\ n \in DOMAIN moduleId /\ RunInv /\ SeenInv
      /\ WellFormed(files[i]) /\ Settled(files[i])
  BY <1>1 DEF AllSettled, Current, ClaimsInv, RunInv, PhaseInv, FilesInv
<1> HIDE DEF parent
<1>4. CASE k = 1
  <2>1. Holds(n, 1, CurrentModule)
    BY <1>3 DEF Holds, CurrentModule
  <2> QED
    BY <1>1, <1>4, <2>1 DEF Foreign
<1>5. CASE k # 1
  <2>1. PICK j \in DOMAIN symbols : s.parent = Current.symbols[j].id /\ parent = symbols[j].id
    BY <1>2, <1>5
  <2>2. parent \notin Own(files[i])
    <3>1. Holds(n, j, parent)
      BY <2>1 DEF Holds
    <3> QED
      BY <3>1 DEF Foreign
  <2>3. Len(s.name) = 1
    BY <1>1, <1>3, <1>5 DEF Settled
  <2>4. Front(base) = parent /\ (~Marked(base) => ~Marked(parent))
    BY <1>1, <1>2, <1>5, <2>3, JoinIs
  <2>5. ASSUME base \in Own(files[i]) PROVE FALSE
    <3>1. base = files[i].module /\ ~Marked(base)
      BY <1>3, <2>2, <2>4, <2>5, OwnClosed
    <3>2. parent = s.parent
      BY <2>1, <2>4, <3>1 DEF PlainInv, SymbolPlain
    <3>3. base \in Own(files[n])
      BY <1>1, <1>3, <1>5, <3>2, SettledIs
    <3> QED
      BY <1>1, <2>5, <3>3 DEF Clashes, Own
  <2> HIDE DEF base
  <2>6. PICK c \in 1 .. Len(Marks) + 1 : Claim(base) = Candidates(base)[c]
    BY <1>2, <1>3, <1>5, ClaimIsFree
  <2>7. Claim(base) \notin Own(files[i])
    BY <1>2, <1>3, <1>5, <2>5, <2>6, ClaimOutside
  <2> QED
    BY <1>1, <1>5, <2>7 DEF base, parent
<1> QED
  BY <1>4, <1>5

LEMMA ReformKeeps ==
    ASSUME FilesInv, SlotsInv, ClaimsInv, AllSettled, KeptInv, ReformSymbol
    PROVE  KeptInv'
<1> DEFINE n == Len(out) + 1
           k == Len(symbols) + 1
           s == Current.symbols[k]
           parent == NewParent(s)
           id == IF s.kind = "module" THEN CurrentModule ELSE Claim(parent \o s.name)
<1>1. /\ UNCHANGED <<files, moduleId, out, pc>> /\ DOMAIN symbols = 1 .. Len(symbols)
      /\ Len(symbols) \in Nat /\ DOMAIN symbols' = 1 .. k
      /\ symbols'[k].id = id /\ symbols'[k].parent = parent
      /\ \A j \in DOMAIN symbols : symbols'[j] = symbols[j]
  BY ReformIs
<1>2. \A j, l, q : Holds(j, l, q)' <=> Holds(j, l, q) \/ (j = n /\ l = k /\ q = id)
  BY ReformIs
<1>3. ASSUME NEW i \in DOMAIN files, ~Clashes(i)
      PROVE  Kept(i)'
  <2>1. Kept(i)
    BY <1>3 DEF KeptInv
  <2>2. Own(files[i])' = Own(files[i])
    BY <1>1 DEF Own, Ids
  <2>3. CASE i # n
    <3>1. id \notin Own(files[i])
      BY <1>3, <2>1, <2>3, ForeignClaim DEF KeptInv, Kept
    <3> HIDE DEF id
    <3>2. Foreign(i)'
      BY <1>1, <1>2, <2>1, <2>2, <3>1 DEF Kept, Foreign
    <3> QED
      BY <1>1, <2>1, <2>3, <3>2 DEF Kept
  <2>4. CASE i = n
    <3>1. parent = s.parent /\ id = s.id /\ Current = files[i]
      BY <1>3, <2>1, <2>4, OwnClaim DEF Current
    <3> HIDE DEF id, parent
    <3>2. \A j \in DOMAIN symbols' : /\ symbols'[j].id = files[i].symbols[j].id
                                    /\ symbols'[j].parent = files[i].symbols[j].parent
      <4> SUFFICES ASSUME NEW j \in DOMAIN symbols'
                   PROVE  /\ symbols'[j].id = files[i].symbols[j].id
                          /\ symbols'[j].parent = files[i].symbols[j].parent
        OBVIOUS
      <4>1. CASE j = k
        BY <1>1, <3>1, <4>1
      <4>2. CASE j # k
        <5>1. j \in DOMAIN symbols
          BY <1>1, <4>2
        <5> QED
          BY <1>1, <2>1, <2>4, <5>1 DEF Kept
      <4> QED
        BY <4>1, <4>2
    <3>3. Foreign(i)'
      BY <1>1, <1>2, <2>1, <2>2, <2>4 DEF Kept, Foreign
    <3> QED
      BY <1>1, <2>1, <3>2, <3>3 DEF Kept
  <2> QED
    BY <2>3, <2>4
<1>4. \A i \in DOMAIN files : Clashes(i)' <=> Clashes(i)
  BY <1>1 DEF Clashes, Ids, ModuleNames
<1> QED
  BY <1>1, <1>3, <1>4, ReformPlain DEF KeptInv

(* A file whose symbols all have what they had is returned as it is.       *)
LEMMA FinishedKept ==
    ASSUME FilesInv, ClaimsInv, FinishFile, Kept(Len(out) + 1)
    PROVE  Finished = Current
<1>1. /\ pc = "members" /\ Len(symbols) = Len(Current.symbols) /\ WellFormed(Current)
      /\ Current = files[Len(out) + 1] /\ PhaseInv
  BY FinishIs DEF ClaimsInv, RunInv
<1>2. DOMAIN symbols = DOMAIN Current.symbols
  BY <1>1, FinishedIs
<1>3. ASSUME NEW k \in DOMAIN symbols
      PROVE  [Current.symbols[k] EXCEPT !.id = symbols[k].id, !.parent = symbols[k].parent]
                 = [field \in DOMAIN Current.symbols[k] |-> Current.symbols[k][field]]
  <2>1. symbols[k].id = Current.symbols[k].id /\ symbols[k].parent = Current.symbols[k].parent
    BY <1>1 DEF Kept
  <2> QED
    BY <2>1
<1>4. Reformed = [k \in DOMAIN Current.symbols |->
                     [field \in DOMAIN Current.symbols[k] |-> Current.symbols[k][field]]]
  BY <1>2, <1>3, Zenon DEF Reformed
<1>5. Reformed = Current.symbols
  BY <1>1, <1>4 DEF WellFormed, Recorded
<1> QED
  BY <1>5 DEF Finished

LEMMA FinishKeeps ==
    ASSUME FilesInv, ClaimsInv, KeptInv, FinishFile
    PROVE  KeptInv'
<1> DEFINE n == Len(out) + 1
<1>1. /\ symbols' = <<>> /\ UNCHANGED <<files, seen, moduleId>>
      /\ Len(out) \in Nat /\ DOMAIN out = 1 .. Len(out)
      /\ DOMAIN out' = 1 .. n /\ out'[n] = Finished /\ \A j \in DOMAIN out : out'[j] = out[j]
      /\ \A j, k, q : Holds(j, k, q)' <=> Holds(j, k, q)
      /\ Current = files[n]
  BY FinishIs
<1>2. ASSUME NEW i \in DOMAIN files, ~Clashes(i)
      PROVE  Kept(i)'
  <2>1. Kept(i)
    BY <1>2 DEF KeptInv
  <2>2. Foreign(i)'
    BY <1>1, <2>1 DEF Kept, Foreign, Own, Ids
  <2>3. i = n => out'[i] = files[i]
    BY <1>1, <2>1, FinishedKept
  <2>4. i \in DOMAIN out' => i = n \/ i \in DOMAIN out
    BY <1>1
  <2> QED
    BY <1>1, <2>1, <2>2, <2>3, <2>4 DEF Kept
<1>3. \A i \in DOMAIN files : Clashes(i)' <=> Clashes(i)
  BY <1>1 DEF Clashes, Ids, ModuleNames
<1>4. PlainInv'
  BY <1>1 DEF KeptInv, PlainInv, ModulesPlain
<1> QED
  BY <1>1, <1>2, <1>3, <1>4 DEF KeptInv

(* finalize.py:94-96, for any collisions and any number of files: a file   *)
(* that shares no id with another, in a package that is there, comes back  *)
(* as it was given, so its dependants' edges stand.  Its symbols have the  *)
(* ids that symbols.py gives them, as have those of all files.             *)
THEOREM UntouchedAreKept ==
    ASSUME \A sources \in Projects : \A i \in DOMAIN sources : Settled(Parsed(sources)[i])
    PROVE  Spec => []UntouchedFilesKept
<1> DEFINE Keeping == AllSettled /\ (Untouched \/ (ClaimsInv /\ KeptInv))
<1>1. Init => Keeping
  <2> SUFFICES ASSUME Init PROVE Keeping
    OBVIOUS
  <2>1. AllSettled
    <3>1. PICK sources \in Projects : files = Parsed(sources)
      BY DEF Init
    <3> QED
      BY <3>1 DEF AllSettled, Parsed
  <2>2. \A j, k, q : ~Holds(j, k, q)
    BY DEF Init, Holds
  <2>3. KeptInv
    BY <2>2 DEF Init, KeptInv, PlainInv, ModulesPlain, Kept, Foreign
  <2> QED
    BY <2>1, <2>3, ClaimsInit
<1>2. FinalizeInv /\ SlotsInv /\ Keeping /\ [Next]_vars => Keeping'
  <2> SUFFICES ASSUME FinalizeInv, SlotsInv, Keeping, [Next]_vars PROVE Keeping'
    OBVIOUS
  <2>1. UNCHANGED files /\ AllSettled'
    BY DEF Next, ReturnUntouched, ReserveModule, ReformSymbol, FinishFile, vars, AllSettled
  <2>2. CASE Untouched
    <3>1. UNCHANGED vars
      BY <2>2 DEF Untouched, Next, ReturnUntouched, ReserveModule, ReformSymbol, FinishFile
    <3>2. UNCHANGED <<files, moduleId, out, pc>> /\ HasGap' = HasGap
      BY <3>1 DEF vars, HasGap, ModuleNames
    <3>3. UniqueIn(files)' <=> UniqueIn(files)
      BY <3>2 DEF UniqueIn, Slots, IdAt
    <3>4. Untouched'
      BY <2>2, <3>2, <3>3 DEF Untouched
    <3> QED
      BY <2>1, <3>4
  <2>3. CASE ClaimsInv /\ KeptInv
    <3>1. FilesInv /\ AllSettled
      BY DEF FinalizeInv
    <3>2. CASE ReturnUntouched
      <4>1. Untouched'
        BY <2>3, <3>2 DEF ClaimsInv, RunInv, PhaseInv, ReturnUntouched, Untouched, HasDuplicate, UniqueIn, Slots, IdAt, HasGap, ModuleNames
      <4> QED
        BY <2>1, <4>1
    <3>3. CASE ReserveModule
      BY <2>1, <2>3, <3>1, <3>3, ReserveStep, ReserveKeeps
    <3>4. CASE ReformSymbol
      BY <2>1, <2>3, <3>1, <3>4, ReformStep, ReformKeeps
    <3>5. CASE FinishFile
      BY <2>1, <2>3, <3>1, <3>5, FinishStep, FinishKeeps
    <3>6. CASE UNCHANGED vars
      <4>1. ClaimsInv'
        BY <2>3, <3>6, ClaimsStutter
      <4>2. UNCHANGED <<files, seen, moduleId, symbols, out, pc>>
        BY <3>6 DEF vars
      <4>3. KeptInv'
        <5>1. /\ \A j, k, q : Holds(j, k, q)' <=> Holds(j, k, q)
              /\ ModuleNames' = ModuleNames /\ Current' = Current
          BY <4>2 DEF Holds, ModuleNames, Current
        <5>2. \A i \in DOMAIN files : Clashes(i)' <=> Clashes(i)
          BY <4>2, <5>1 DEF Clashes, Ids
        <5>3. \A i \in DOMAIN files : Kept(i)' <=> Kept(i)
          BY <4>2, <5>1 DEF Kept, Foreign, Own, Ids
        <5>4. PlainInv'
          BY <2>3, <4>2, <5>1 DEF KeptInv, PlainInv, ModulesPlain, SymbolPlain
        <5> QED
          BY <2>3, <4>2, <5>2, <5>3, <5>4 DEF KeptInv
      <4> QED
        BY <2>1, <4>1, <4>3
    <3> QED
      BY <3>2, <3>3, <3>4, <3>5, <3>6 DEF Next
  <2> QED
    BY <2>2, <2>3
<1>3. FinalizeInv /\ Keeping => UntouchedFilesKept
  <2> SUFFICES ASSUME FinalizeInv, Keeping, Done, NEW i \in DOMAIN files, ~Clashes(i)
               PROVE  out[i] = files[i]
    BY DEF UntouchedFilesKept
  <2>1. CASE Untouched
    BY <2>1 DEF Untouched
  <2>2. CASE ClaimsInv /\ KeptInv
    BY <2>2, DoneIs DEF FinalizeInv, KeptInv, Kept
  <2> QED
    BY <2>1, <2>2
<1>4. Init => FinalizeInv /\ SlotsInv
  BY ClaimsInit, SlotsInit DEF FinalizeInv
<1> HIDE DEF Keeping
<1> QED
  BY <1>1, <1>2, <1>3, <1>4, FinalizeStep, PTL DEF Spec

-----------------------------------------------------------------------------
(* The graph of files.  As the ids are unique, add_symbol drops nothing:   *)
(* each symbol of the files is the one the graph has under its id.         *)
FoldedBody(s, fold) ==
    [P \in SUBSET DOMAIN s |-> IF P = {} THEN <<>> ELSE AddSymbol(fold[P \ {Max(P)}], s[Max(P)])]

LEMMA FoldedIs ==
    ASSUME NEW S, NEW s \in Seq(S)
    PROVE  \E fold : /\ FoldLeft(AddSymbol, <<>>, s) = fold[1 .. Len(s)]
                     /\ fold[{}] = <<>>
                     /\ \A i \in 1 .. Len(s) : fold[1 .. i] = AddSymbol(fold[1 .. i - 1], s[i])
<1> DEFINE n == Len(s)
           chosen == CHOOSE fold : fold = FoldedBody(s, fold)
<1>1. n \in Nat /\ DOMAIN s = 1 .. n /\ \A i \in 1 .. n : s[i] \in S
  OBVIOUS
<1>2. FoldLeft(AddSymbol, <<>>, s) = chosen[DOMAIN s]
  BY Zenon DEF FoldLeft, MapThenFoldSet, FoldedBody
<1>3. \E fold : fold = FoldedBody(s, fold)
  <2> DEFINE op == [i \in 1 .. n |-> [g \in Seq(S) |-> AddSymbol(g, s[i])]]
  <2>1. ASSUME NEW i \in 1 .. n, NEW g \in Seq(S)
        PROVE  op[i][g] = AddSymbol(g, s[i]) /\ op[i][g] \in Seq(S)
    BY <1>1 DEF AddSymbol
  <2>2. <<>> \in Seq(S)
    OBVIOUS
  <2> HIDE DEF op, n
  <2>3. PICK fold \in [SUBSET (1 .. n) -> Seq(S)] : Folds(n, <<>>, op, fold)
    <3>1. \A i \in 1 .. n : \A g \in Seq(S) : op[i][g] \in Seq(S)
      BY <2>1
    <3> QED
      BY <1>1, <2>2, <3>1, FoldExists DEF Stays
  <2>4. ASSUME NEW P \in SUBSET (1 .. n), P # {}
        PROVE  op[Max(P)][fold[P \ {Max(P)}]] = AddSymbol(fold[P \ {Max(P)}], s[Max(P)])
    <3>1. Max(P) \in 1 .. n
      BY <1>1, <2>4, MaxIsGreatest
    <3>2. fold[P \ {Max(P)}] \in Seq(S)
      BY <2>3
    <3> QED
      BY <2>1, <3>1, <3>2
  <2>5. fold = FoldedBody(s, fold)
    BY <1>1, <2>3, <2>4 DEF Folds, FoldedBody
  <2> QED
    BY <2>5
<1>4. chosen = FoldedBody(s, chosen)
  BY <1>3
<1> HIDE DEF chosen
<1>5. chosen[{}] = <<>> /\ \A i \in 1 .. n : chosen[1 .. i] = AddSymbol(chosen[1 .. i - 1], s[i])
  <2> DEFINE A == {chosen[P] : P \in SUBSET (1 .. n)}
             op == [i \in 1 .. n |-> [g \in A |-> AddSymbol(g, s[i])]]
  <2>1. ASSUME NEW i \in 1 .. n, NEW P \in SUBSET (1 .. n)
        PROVE  op[i][chosen[P]] = AddSymbol(chosen[P], s[i])
    OBVIOUS
  <2> HIDE DEF op, n
  <2>2. ASSUME NEW P \in SUBSET (1 .. n), P # {}
        PROVE  op[Max(P)][chosen[P \ {Max(P)}]] = AddSymbol(chosen[P \ {Max(P)}], s[Max(P)])
    <3>1. Max(P) \in 1 .. n
      BY <1>1, <2>2, MaxIsGreatest
    <3> QED
      BY <2>1, <3>1
  <2>3. Folds(n, <<>>, op, chosen)
    BY <1>1, <1>4, <2>2 DEF Folds, FoldedBody
  <2>4. /\ chosen[{}] = <<>>
        /\ \A i \in 1 .. n : chosen[1 .. i] = op[i][chosen[1 .. i - 1]]
    BY <1>1, <2>3, FoldIs
  <2>5. ASSUME NEW i \in 1 .. n PROVE op[i][chosen[1 .. i - 1]] = AddSymbol(chosen[1 .. i - 1], s[i])
    <3>1. 1 .. i - 1 \in SUBSET (1 .. n)
      BY <1>1
    <3> QED
      BY <2>1, <3>1
  <2> QED
    BY <2>4, <2>5
<1> QED
  BY <1>1, <1>2, <1>5

Once(g) == \A j, k \in DOMAIN g : g[j].id = g[k].id => j = k

LEMMA FoldedSymbols ==
    ASSUME NEW S, NEW s \in Seq(S)
    PROVE  LET g == FoldLeft(AddSymbol, <<>>, s)
           IN  /\ g \in Seq(ToSet(s)) /\ Once(g)
               /\ SymbolIds(g) = {s[i].id : i \in DOMAIN s}
<1>1. Len(s) \in Nat /\ DOMAIN s = 1 .. Len(s)
  OBVIOUS
<1>2. PICK fold : /\ FoldLeft(AddSymbol, <<>>, s) = fold[1 .. Len(s)]
                  /\ fold[{}] = <<>>
                  /\ \A i \in 1 .. Len(s) : fold[1 .. i] = AddSymbol(fold[1 .. i - 1], s[i])
  BY FoldedIs
<1> DEFINE Right(i) == /\ fold[1 .. i] \in Seq(ToSet(s)) /\ Once(fold[1 .. i])
                       /\ SymbolIds(fold[1 .. i]) = {s[j].id : j \in 1 .. i}
           T == {i \in 0 .. Len(s) : ~Right(i)}
<1>3. Right(0)
  <2>1. 1 .. 0 = {}
    OBVIOUS
  <2>2. fold[1 .. 0] = <<>>
    BY <1>2, <2>1
  <2>3. {s[j].id : j \in 1 .. 0} = {}
    BY <2>1
  <2>4. SymbolIds(<<>>) = {} /\ Once(<<>>)
    BY DEF SymbolIds, Once
  <2> QED
    BY <2>2, <2>3, <2>4
<1>4. ASSUME NEW i \in 1 .. Len(s), Right(i - 1) PROVE Right(i)
  <2> DEFINE g == fold[1 .. i - 1]
  <2>1. g \in Seq(ToSet(s)) /\ Once(g) /\ SymbolIds(g) = {s[j].id : j \in 1 .. i - 1}
    BY <1>4
  <2>2. fold[1 .. i] = AddSymbol(g, s[i])
    BY <1>2
  <2>3. s[i] \in ToSet(s)
    BY <1>1 DEF ToSet
  <2>4. {s[j].id : j \in 1 .. i} = {s[j].id : j \in 1 .. i - 1} \cup {s[i].id}
    <3>1. 1 .. i = (1 .. i - 1) \cup {i}
      BY <1>1
    <3> QED
      BY <3>1
  <2> HIDE DEF g
  <2>5. /\ Append(g, s[i]) \in Seq(ToSet(s)) /\ SymbolIds(Append(g, s[i])) = SymbolIds(g) \cup {s[i].id}
        /\ s[i].id \notin SymbolIds(g) => Once(Append(g, s[i]))
    <3>1. /\ Append(g, s[i]) \in Seq(ToSet(s)) /\ Len(g) \in Nat /\ DOMAIN g = 1 .. Len(g)
          /\ DOMAIN Append(g, s[i]) = (1 .. Len(g)) \cup {Len(g) + 1}
          /\ Append(g, s[i])[Len(g) + 1] = s[i]
          /\ \A k \in 1 .. Len(g) : Append(g, s[i])[k] = g[k]
      BY <2>1, <2>3
    <3>2. ASSUME s[i].id \notin SymbolIds(g) PROVE Once(Append(g, s[i]))
      <4>1. \A k \in 1 .. Len(g) : g[k].id # s[i].id
        BY <3>1, <3>2 DEF SymbolIds
      <4> QED
        BY <2>1, <3>1, <4>1 DEF Once
    <3> QED
      BY <3>1, <3>2 DEF SymbolIds
  <2>6. /\ AddSymbol(g, s[i]) \in Seq(ToSet(s)) /\ Once(AddSymbol(g, s[i]))
        /\ SymbolIds(AddSymbol(g, s[i])) = SymbolIds(g) \cup {s[i].id}
    BY <2>1, <2>5 DEF AddSymbol
  <2> QED
    BY <2>1, <2>2, <2>4, <2>6
<1> HIDE DEF Right
<1>5. Right(Len(s))
  <2> SUFFICES ASSUME T # {} PROVE FALSE
    BY <1>1
  <2>1. T \in SUBSET Nat
    BY <1>1
  <2> DEFINE i == Min(T)
  <2>2. i \in T /\ \A j \in T : i <= j
    BY <2>1, MinIsLeast
  <2> HIDE DEF i
  <2>3. i \in 1 .. Len(s)
    BY <1>1, <1>3, <2>2
  <2>4. i - 1 \notin T /\ i - 1 \in 0 .. Len(s)
    BY <1>1, <2>1, <2>2, <2>3
  <2> QED
    BY <1>4, <2>2, <2>3, <2>4
<1> DEFINE g == FoldLeft(AddSymbol, <<>>, s)
<1>6. g \in Seq(ToSet(s)) /\ Once(g) /\ SymbolIds(g) = {s[i].id : i \in DOMAIN s}
  BY <1>1, <1>2, <1>5 DEF Right
<1> QED
  BY <1>6

(* The symbols of each file are a list.                                    *)
Listed(fs) ==
    /\ Len(fs) \in Nat /\ DOMAIN fs = 1 .. Len(fs)
    /\ \A i \in DOMAIN fs :
          /\ \E m \in Nat : DOMAIN fs[i].symbols = 1 .. m
          /\ fs[i].symbols = [k \in DOMAIN fs[i].symbols |-> fs[i].symbols[k]]

SymbolIn(fs, at) == fs[at[1]].symbols[at[2]]

LEMMA TreeHas ==
    ASSUME NEW fs, Listed(fs)
    PROVE  LET g == Assemble(fs)
           IN  /\ g \in Seq({SymbolIn(fs, at) : at \in Slots(fs)}) /\ Once(g)
               /\ SymbolIds(g) = {IdAt(fs, at) : at \in Slots(fs)}
               /\ \A k \in DOMAIN g : \E at \in Slots(fs) : g[k] = SymbolIn(fs, at)
<1> DEFINE S == {SymbolIn(fs, at) : at \in Slots(fs)}
           parts == [i \in DOMAIN fs |-> fs[i].symbols]
           s == FlattenSeq(parts)
           g == Assemble(fs)
<1>1. ASSUME NEW i \in DOMAIN fs
      PROVE  fs[i].symbols \in Seq(S) /\ ToSet(fs[i].symbols) = {SymbolIn(fs, <<i, k>>) : k \in DOMAIN fs[i].symbols}
  <2>1. PICK m \in Nat : DOMAIN fs[i].symbols = 1 .. m
    BY DEF Listed
  <2>2. \A k \in 1 .. m : <<i, k>> \in Slots(fs) /\ fs[i].symbols[k] = SymbolIn(fs, <<i, k>>)
    BY <2>1 DEF Slots, SymbolIn
  <2>3. \A k \in 1 .. m : fs[i].symbols[k] \in S
    BY <2>2
  <2> HIDE DEF S
  <2>4. fs[i].symbols = [k \in 1 .. m |-> fs[i].symbols[k]]
    BY <2>1 DEF Listed
  <2>5. fs[i].symbols \in [1 .. m -> S]
    BY <2>3, <2>4
  <2>6. fs[i].symbols \in Seq(S)
    BY <2>1, <2>5
  <2>7. ToSet(fs[i].symbols) = {SymbolIn(fs, <<i, k>>) : k \in DOMAIN fs[i].symbols}
    BY <2>1, <2>2 DEF ToSet
  <2> QED
    BY <2>6, <2>7
<1>2. parts \in Seq(Seq(S)) /\ DOMAIN parts = DOMAIN fs /\ \A i \in DOMAIN fs : parts[i] = fs[i].symbols
  <2>1. parts \in [1 .. Len(fs) -> Seq(S)]
    BY <1>1 DEF Listed
  <2> QED
    BY <2>1 DEF Listed
<1>3. S = UNION {ToSet(parts[i]) : i \in DOMAIN parts}
  <2>1. \A x : x \in S => \E i \in DOMAIN fs : x \in ToSet(fs[i].symbols)
    BY DEF Slots, SymbolIn, ToSet
  <2>2. \A i \in DOMAIN fs : ToSet(fs[i].symbols) \subseteq S
    <3> TAKE i \in DOMAIN fs
    <3>1. \A k \in DOMAIN fs[i].symbols : <<i, k>> \in Slots(fs)
      BY DEF Slots
    <3> QED
      BY <1>1, <3>1
  <2> HIDE DEF S, parts
  <2> QED
    BY <1>2, <2>1, <2>2
<1> HIDE DEF parts
<1>4. s \in Seq(S) /\ ToSet(s) = S
  <2> HIDE DEF S
  <2> QED
    BY <1>2, <1>3, FlattenSeqIs
<1>5. g = FoldLeft(AddSymbol, <<>>, s)
  BY DEF Assemble, parts
<1>6. /\ g \in Seq(ToSet(s)) /\ Once(g) /\ \A k \in DOMAIN g : g[k] \in ToSet(s)
      /\ SymbolIds(g) = {s[i].id : i \in DOMAIN s}
  <2> HIDE DEF s, S, g
  <2> QED
    BY <1>4, <1>5, FoldedSymbols
<1>7. {s[i].id : i \in DOMAIN s} = {x.id : x \in S}
  <2> HIDE DEF s, S
  <2> QED
    BY <1>4 DEF ToSet
<1>8. {x.id : x \in S} = {IdAt(fs, at) : at \in Slots(fs)}
  BY DEF IdAt, SymbolIn
<1> HIDE DEF s, g
<1> QED
  BY <1>4, <1>6, <1>7, <1>8 DEF g

LEMMA TreeShows ==
    ASSUME NEW fs, Listed(fs), UniqueIn(fs), NEW at \in Slots(fs)
    PROVE  /\ IdAt(fs, at) \in SymbolIds(Assemble(fs))
           /\ SymbolOf(Assemble(fs), IdAt(fs, at)) = SymbolIn(fs, at)
<1> DEFINE g == Assemble(fs)
           id == IdAt(fs, at)
           k == CHOOSE k \in DOMAIN g : g[k].id = id
<1>1. /\ SymbolIds(g) = {IdAt(fs, b) : b \in Slots(fs)}
      /\ \A j \in DOMAIN g : \E b \in Slots(fs) : g[j] = SymbolIn(fs, b)
  BY TreeHas
<1> HIDE DEF g
<1>2. id \in SymbolIds(g)
  BY <1>1
<1>3. k \in DOMAIN g /\ g[k].id = id
  BY <1>2 DEF SymbolIds
<1> HIDE DEF k
<1>4. PICK b \in Slots(fs) : g[k] = SymbolIn(fs, b)
  BY <1>1, <1>3
<1>5. IdAt(fs, b) = IdAt(fs, at)
  BY <1>3, <1>4 DEF IdAt, SymbolIn
<1>6. b = at
  BY <1>5 DEF UniqueIn
<1>7. SymbolOf(g, id) = g[k]
  BY DEF SymbolOf, k
<1> QED
  BY <1>2, <1>4, <1>6, <1>7 DEF g

-----------------------------------------------------------------------------
(* Going up.  Every symbol hangs from an earlier one of its file, or is    *)
(* the module there; a module hangs from nothing or from a module of a     *)
(* lower rank, so no way up is a circle.                                   *)
HangsFrom(fs, rank, at) ==
    LET s == SymbolIn(fs, at)
    IN  /\ rank[at[1]] \in Nat /\ at[2] \in Nat /\ s.id # None
        /\ IF s.kind = "module"
           THEN \/ s.parent = None
                \/ \E b \in Slots(fs) :
                      /\ SymbolIn(fs, b).kind = "module" /\ rank[b[1]] < rank[at[1]]
                      /\ s.parent = IdAt(fs, b)
           ELSE \E b \in Slots(fs) : /\ b[1] = at[1] /\ b[2] < at[2]
                                     /\ s.parent = IdAt(fs, b)

Hanging(fs, rank) == \A at \in Slots(fs) : HangsFrom(fs, rank, at)

ParentIn(g) ==
    [id \in SymbolIds(g) |->
        LET parent == SymbolOf(g, id).parent
        IN  IF parent \in SymbolIds(g) THEN {parent} ELSE {}]

LEMMA LowestFirst ==
    ASSUME NEW D, NEW rank, D # {}, \A x \in D : rank[x] \in Nat
    PROVE  \E x \in D : \A y \in D : rank[x] <= rank[y]
<1> DEFINE I == {rank[x] : x \in D}
<1>1. I \in SUBSET Nat /\ I # {}
  OBVIOUS
<1> HIDE DEF I
<1>2. PICK i \in I : \A j \in I : i <= j
  BY <1>1, MinIsLeast
<1> QED
  BY <1>2 DEF I

LEMMA AboveFounded ==
    ASSUME NEW fs, NEW rank, Listed(fs), UniqueIn(fs), Hanging(fs, rank)
    PROVE  LET g == Assemble(fs)
           IN  ParentIn(g) \in [SymbolIds(g) -> SUBSET SymbolIds(g)] /\ Founded(SymbolIds(g), ParentIn(g))
<1> DEFINE g == Assemble(fs)
<1>1. SymbolIds(g) = {IdAt(fs, at) : at \in Slots(fs)}
  BY TreeHas
<1>2. \A at \in Slots(fs) : IdAt(fs, at) \in SymbolIds(g) /\ SymbolOf(g, IdAt(fs, at)) = SymbolIn(fs, at)
  BY TreeShows
<1>3. None \notin SymbolIds(g)
  BY <1>1 DEF Hanging, HangsFrom, IdAt, SymbolIn
<1> HIDE DEF g
<1>4. ASSUME NEW T \in SUBSET SymbolIds(g), T # {} PROVE \E c \in T : ParentIn(g)[c] \cap T = {}
  <2> DEFINE D == {at \in Slots(fs) : IdAt(fs, at) \in T}
             first == [at \in D |-> rank[at[1]]]
  <2>1. D # {} /\ \A at \in D : first[at] \in Nat
    <3>1. PICK c \in T : TRUE
      BY <1>4
    <3>2. PICK at \in Slots(fs) : c = IdAt(fs, at)
      BY <1>1
    <3> QED
      BY <3>2 DEF Hanging, HangsFrom
  <2>2. PICK low \in D : \A at \in D : rank[low[1]] <= rank[at[1]]
    <3> HIDE DEF D, first
    <3>1. PICK low \in D : \A at \in D : first[low] <= first[at]
      BY <2>1, LowestFirst
    <3> QED
      BY <3>1 DEF first
  <2> DEFINE F == {at \in D : at[1] = low[1]}
             place == [at \in F |-> at[2]]
  <2>3. F # {} /\ \A at \in F : place[at] \in Nat
    BY <2>2 DEF Hanging, HangsFrom
  <2>4. PICK at \in F : \A b \in F : at[2] <= b[2]
    <3> HIDE DEF F, place
    <3>1. PICK at \in F : \A b \in F : place[at] <= place[b]
      BY <2>3, LowestFirst
    <3> QED
      BY <3>1 DEF place
  <2>5. /\ at \in Slots(fs) /\ at[1] = low[1] /\ IdAt(fs, at) \in T
        /\ at[2] \in Nat /\ rank[at[1]] \in Nat
    BY <2>4 DEF Hanging, HangsFrom
  <2> DEFINE parent == SymbolIn(fs, at).parent
  <2>6. ParentIn(g)[IdAt(fs, at)] = IF parent \in SymbolIds(g) THEN {parent} ELSE {}
    BY <1>2, <2>5 DEF ParentIn
  <2>7. parent \notin T
    <3>1. CASE SymbolIn(fs, at).kind = "module"
      <4>1. ASSUME NEW b \in Slots(fs), rank[b[1]] < rank[at[1]], parent = IdAt(fs, b), parent \in T
            PROVE  FALSE
        <5>1. b \in D
          BY <4>1
        <5>2. rank[at[1]] <= rank[b[1]] /\ rank[b[1]] \in Nat
          BY <2>2, <2>5, <5>1 DEF Hanging, HangsFrom
        <5> QED
          BY <2>5, <4>1, <5>2
      <4> QED
        BY <1>3, <2>5, <3>1, <4>1 DEF Hanging, HangsFrom
    <3>2. CASE SymbolIn(fs, at).kind # "module"
      <4>1. ASSUME NEW b \in Slots(fs), b[1] = at[1], b[2] < at[2], parent = IdAt(fs, b), parent \in T
            PROVE  FALSE
        <5>1. b \in F
          BY <2>5, <4>1
        <5>2. at[2] <= b[2] /\ b[2] \in Nat
          BY <2>4, <4>1, <5>1 DEF Hanging, HangsFrom
        <5> QED
          BY <2>5, <4>1, <5>2
      <4> QED
        BY <2>5, <3>2, <4>1 DEF Hanging, HangsFrom
    <3> QED
      BY <3>1, <3>2
  <2> QED
    BY <2>5, <2>6, <2>7
<1>5. ParentIn(g) \in [SymbolIds(g) -> SUBSET SymbolIds(g)]
  BY DEF ParentIn
<1> QED
  BY <1>4, <1>5 DEF Founded, g

Climbs(g, module, up) ==
    up = [i \in SymbolIds(g) |->
             LET parent == SymbolOf(g, i).parent
             IN  IF i = module \/ parent \notin SymbolIds(g) THEN <<i>> ELSE <<i>> \o up[parent]]

LEMMA ClimbIs ==
    ASSUME NEW g, Founded(SymbolIds(g), ParentIn(g)), NEW module
    PROVE  \E up : /\ \A id \in SymbolIds(g) : UpTo(g, id, module) = up[id]
                   /\ Climbs(g, module, up)
<1> DEFINE C == SymbolIds(g)
           S == Seq(C)
           below == ParentIn(g)
           step == [c \in C |-> [h \in [below[c] -> S] |->
                       IF c = module \/ SymbolOf(g, c).parent \notin C THEN <<c>>
                       ELSE <<c>> \o h[SymbolOf(g, c).parent]]]
           chosen == CHOOSE up : Climbs(g, module, up)
<1>1. /\ below \in [C -> SUBSET C]
      /\ \A c \in C : below[c] = IF SymbolOf(g, c).parent \in C THEN {SymbolOf(g, c).parent} ELSE {}
  BY DEF ParentIn
<1> HIDE DEF below
<1>2. ASSUME NEW c \in C, NEW h \in [below[c] -> S]
      PROVE  /\ step[c][h] = IF c = module \/ SymbolOf(g, c).parent \notin C THEN <<c>>
                             ELSE <<c>> \o h[SymbolOf(g, c).parent]
             /\ step[c][h] \in S
  <2>1. SymbolOf(g, c).parent \in C => h[SymbolOf(g, c).parent] \in Seq(C)
    BY <1>1
  <2>2. <<c>> \in Seq(C)
    OBVIOUS
  <2> HIDE DEF C
  <2> QED
    BY <2>1, <2>2
<1>3. \E f \in [C -> S] : Follows(C, below, step, f)
  <2>1. Passes(C, below, S, step)
    BY <1>2 DEF Passes
  <2>2. Founded(C, below)
    BY DEF below
  <2> HIDE DEF C, S, step
  <2> QED
    BY <1>1, <2>1, <2>2, Recursion
<1>4. PICK f \in [C -> S] : Follows(C, below, step, f)
  BY <1>3
<1>5. ASSUME NEW c \in C
      PROVE  f[c] = IF c = module \/ SymbolOf(g, c).parent \notin C THEN <<c>>
                    ELSE <<c>> \o f[SymbolOf(g, c).parent]
  <2> DEFINE h == [b \in below[c] |-> f[b]]
  <2>1. below[c] \subseteq C
    BY <1>1
  <2>2. h \in [below[c] -> S]
    BY <1>4, <2>1
  <2>3. f[c] = step[c][h]
    BY <1>4 DEF Follows
  <2>4. SymbolOf(g, c).parent \in C => h[SymbolOf(g, c).parent] = f[SymbolOf(g, c).parent]
    BY <1>1
  <2> HIDE DEF h, step
  <2> QED
    BY <1>2, <2>2, <2>3, <2>4
<1>6. Climbs(g, module, f)
  BY <1>4, <1>5 DEF Climbs
<1>7. Climbs(g, module, chosen)
  BY <1>6
<1>8. \A id \in SymbolIds(g) : UpTo(g, id, module) = chosen[id]
  BY Zenon DEF UpTo, Climbs
<1> HIDE DEF chosen
<1> QED
  BY <1>7, <1>8

(* The last one on the way up is a symbol that nothing is above.           *)
LEMMA ClimbEnds ==
    ASSUME NEW g, Founded(SymbolIds(g), ParentIn(g)), None \notin SymbolIds(g), NEW id \in SymbolIds(g)
    PROVE  LET top == Last(UpTo(g, id, None))
           IN  top \in SymbolIds(g) /\ SymbolOf(g, top).parent \notin SymbolIds(g)
<1> DEFINE C == SymbolIds(g)
<1>1. PICK up : /\ \A i \in C : UpTo(g, i, None) = up[i]
                /\ Climbs(g, None, up)
  BY ClimbIs
<1>2. \A i \in C : up[i] = IF SymbolOf(g, i).parent \in C THEN <<i>> \o up[SymbolOf(g, i).parent] ELSE <<i>>
  BY <1>1 DEF Climbs
<1>3. \A i \in C : ParentIn(g)[i] = IF SymbolOf(g, i).parent \in C THEN {SymbolOf(g, i).parent} ELSE {}
  BY DEF ParentIn
<1> DEFINE Ends(i) == /\ up[i] \in Seq(C) /\ Len(up[i]) > 0
                      /\ up[i][Len(up[i])] \in C /\ SymbolOf(g, up[i][Len(up[i])]).parent \notin C
           T == {i \in C : ~Ends(i)}
<1>4. T = {}
  <2> SUFFICES ASSUME T # {} PROVE FALSE
    OBVIOUS
  <2>1. PICK i \in T : ParentIn(g)[i] \cap T = {}
    <3>1. T \in SUBSET C
      OBVIOUS
    <3> HIDE DEF T
    <3> QED
      BY <3>1 DEF Founded
  <2>2. i \in C /\ ~Ends(i)
    BY <2>1
  <2> DEFINE parent == SymbolOf(g, i).parent
  <2>3. CASE parent \notin C
    <3>1. up[i] = <<i>>
      BY <1>2, <2>2, <2>3
    <3>2. Ends(i)
      BY <2>2, <2>3, <3>1
    <3> QED
      BY <2>2, <3>2
  <2>4. CASE parent \in C
    <3>1. up[i] = <<i>> \o up[parent]
      BY <1>2, <2>2, <2>4
    <3>2. parent \notin T
      BY <1>3, <2>1, <2>2, <2>4
    <3>3. Ends(parent)
      BY <2>4, <3>2
    <3> DEFINE way == up[parent]
    <3>4. /\ way \in Seq(C) /\ Len(way) > 0 /\ way[Len(way)] \in C
          /\ SymbolOf(g, way[Len(way)]).parent \notin C
      BY <3>3
    <3> HIDE DEF way, C
    <3>5. <<i>> \in Seq(C)
      BY <2>2
    <3>6. /\ <<i>> \o way \in Seq(C) /\ Len(<<i>> \o way) = Len(way) + 1
          /\ (<<i>> \o way)[Len(way) + 1] = way[Len(way)]
      BY <3>4, <3>5
    <3>7. up[i] = <<i>> \o way
      BY <3>1 DEF way
    <3>8. Ends(i)
      BY <3>4, <3>6, <3>7
    <3> QED
      BY <2>2, <3>8
  <2> QED
    BY <2>3, <2>4
<1>5. Ends(id)
  BY <1>4
<1> QED
  BY <1>1, <1>5 DEF Last

(* The way up ends at a module that hangs from nothing.                    *)
LEMMA WayUp ==
    ASSUME NEW fs, NEW rank, Listed(fs), UniqueIn(fs), Hanging(fs, rank)
    PROVE  LET g == Assemble(fs)
           IN  \A id \in SymbolIds(g) :
                   LET top == SymbolOf(g, Last(UpTo(g, id, None)))
                   IN  top.kind = "module" /\ top.parent = None
<1> DEFINE g == Assemble(fs)
<1>1. SymbolIds(g) = {IdAt(fs, at) : at \in Slots(fs)}
  BY TreeHas
<1>2. \A at \in Slots(fs) : IdAt(fs, at) \in SymbolIds(g) /\ SymbolOf(g, IdAt(fs, at)) = SymbolIn(fs, at)
  BY TreeShows
<1>3. None \notin SymbolIds(g)
  BY <1>1 DEF Hanging, HangsFrom, IdAt, SymbolIn
<1>4. Founded(SymbolIds(g), ParentIn(g))
  BY AboveFounded
<1> HIDE DEF g
<1>5. ASSUME NEW id \in SymbolIds(g)
      PROVE  LET top == SymbolOf(g, Last(UpTo(g, id, None)))
             IN  top.kind = "module" /\ top.parent = None
  <2> DEFINE last == Last(UpTo(g, id, None))
  <2>1. last \in SymbolIds(g) /\ SymbolOf(g, last).parent \notin SymbolIds(g)
    BY <1>3, <1>4, ClimbEnds
  <2> HIDE DEF last
  <2>2. PICK at \in Slots(fs) : last = IdAt(fs, at)
    BY <1>1, <2>1
  <2>3. SymbolOf(g, last) = SymbolIn(fs, at)
    BY <1>2, <2>2
  <2>4. \A b \in Slots(fs) : SymbolIn(fs, at).parent # IdAt(fs, b)
    BY <1>1, <2>1, <2>3
  <2>5. SymbolIn(fs, at).kind = "module" /\ SymbolIn(fs, at).parent = None
    BY <2>4 DEF Hanging, HangsFrom
  <2> QED
    BY <2>3, <2>5 DEF last
<1> QED
  BY <1>5 DEF g

-----------------------------------------------------------------------------
(* What the run keeps of this: a module's id is no shorter than its name,  *)
(* and the symbols of a finished file are a list, with ids.                *)
WholeInv ==
    /\ \A i \in DOMAIN moduleId : Len(files[i].module) <= Len(moduleId[i])
    /\ \A i \in DOMAIN out :
          /\ out[i].symbols = [k \in DOMAIN out[i].symbols |-> out[i].symbols[k]]
          /\ \A k \in DOMAIN out[i].symbols : out[i].symbols[k].id \in Names

LEMMA ClaimNoShorter ==
    ASSUME RunInv, SeenInv, SlotsInv, NEW base \in Names
    PROVE  Len(base) <= Len(Claim(base))
<1>1. PICK n \in 1 .. Len(Marks) + 1 : Claim(base) = Candidates(base)[n]
  BY ClaimIsFree
<1>2. Len(Marks) \in Nat /\ Marks \in Seq(STRING) /\ DOMAIN Marks = 1 .. Len(Marks)
  BY FinalizeAssumption
<1>3. base \in Seq(STRING) /\ Len(base) \in Nat
  BY DEF Names
<1>4. CASE n = 1
  BY <1>1, <1>3, <1>4, CandidatesAre
<1>5. CASE n # 1
  <2> DEFINE m == n - 1
  <2>1. m \in DOMAIN Marks /\ n = m + 1
    BY <1>2, <1>5
  <2>2. Claim(base) = base \o <<Marks[m]>>
    BY <1>1, <2>1, CandidatesAre
  <2>3. <<Marks[m]>> \in Seq(STRING) /\ Len(<<Marks[m]>>) = 1
    BY <1>2, <2>1
  <2>4. Len(base \o <<Marks[m]>>) = Len(base) + 1
    BY <1>3, <2>3
  <2> QED
    BY <1>3, <2>2, <2>4
<1> QED
  BY <1>4, <1>5

LEMMA FileIsWhole ==
    ASSUME FilesInv, NEW i \in DOMAIN files
    PROVE  /\ files[i].symbols = [k \in DOMAIN files[i].symbols |-> files[i].symbols[k]]
           /\ \A k \in DOMAIN files[i].symbols : files[i].symbols[k].id \in Names
<1>1. WellFormed(files[i])
  BY DEF FilesInv
<1>2. \A k \in DOMAIN files[i].symbols : files[i].symbols[k].id \in Names
  BY <1>1 DEF WellFormed
<1>3. files[i].symbols = [k \in DOMAIN files[i].symbols |->
                              [field \in DOMAIN files[i].symbols[k] |-> files[i].symbols[k][field]]]
  BY <1>1 DEF WellFormed, Recorded
<1> QED
  BY <1>2, <1>3

LEMMA WholeStep ==
    ASSUME FilesInv, SlotsInv, Untouched \/ ClaimsInv, WholeInv, [Next]_vars
    PROVE  WholeInv'
<1>1. CASE UNCHANGED vars
  BY <1>1 DEF vars, WholeInv
<1>2. CASE Untouched
  <2>1. UNCHANGED vars
    BY <1>2 DEF Untouched, Next, ReturnUntouched, ReserveModule, ReformSymbol, FinishFile
  <2> QED
    BY <1>1, <2>1
<1>3. CASE ClaimsInv /\ ReturnUntouched
  <2>1. out' = files /\ UNCHANGED <<files, moduleId>>
    BY <1>3 DEF ReturnUntouched
  <2> QED
    BY <2>1, FileIsWhole DEF WholeInv
<1>4. CASE ClaimsInv /\ ReserveModule
  <2> DEFINE n == Len(moduleId) + 1
             id == Claim(files[n].module)
  <2>1. /\ files[n].module \in Names /\ UNCHANGED <<files, out>>
        /\ DOMAIN moduleId = 1 .. Len(moduleId) /\ Len(moduleId) \in Nat /\ DOMAIN moduleId' = 1 .. n
        /\ moduleId'[n] = id /\ \A i \in DOMAIN moduleId : moduleId'[i] = moduleId[i]
    BY <1>4, ReserveIs
  <2>2. Len(files[n].module) <= Len(id)
    BY <1>4, <2>1, ClaimNoShorter DEF ClaimsInv
  <2>3. \A i \in DOMAIN moduleId' : i = n \/ i \in DOMAIN moduleId
    BY <2>1
  <2> HIDE DEF n, id
  <2> QED
    BY <2>1, <2>2, <2>3 DEF WholeInv
<1>5. CASE ClaimsInv /\ ReformSymbol
  BY <1>5 DEF ReformSymbol, WholeInv
<1>6. CASE ClaimsInv /\ FinishFile
  <2> DEFINE n == Len(out) + 1
  <2>1. /\ pc = "members" /\ Len(symbols) = Len(Current.symbols) /\ UNCHANGED <<files, moduleId>>
        /\ Len(out) \in Nat /\ DOMAIN out = 1 .. Len(out) /\ n \in DOMAIN files /\ Current = files[n]
        /\ DOMAIN out' = 1 .. n /\ out'[n] = Finished
        /\ \A i \in DOMAIN out : out'[i] = out[i]
    BY <1>6, FinishIs
  <2>2. PhaseInv /\ symbols \in Seq(Reform)
    BY <1>6 DEF ClaimsInv, RunInv, PhaseInv
  <2>3. /\ DOMAIN Finished.symbols = DOMAIN Current.symbols /\ DOMAIN symbols = DOMAIN Current.symbols
        /\ \A k \in DOMAIN Current.symbols : Finished.symbols[k].id = symbols[k].id
    BY <2>1, <2>2, FinishedIs
  <2>4. \A k \in DOMAIN symbols : symbols[k].id \in Names
    <3>1. \A k \in DOMAIN symbols : symbols[k] \in Reform
      BY <2>2
    <3> QED
      BY <3>1 DEF Reform
  <2>5. Finished.symbols = [k \in DOMAIN Finished.symbols |-> Finished.symbols[k]]
    <3>1. CASE Reformed = Current.symbols
      BY <2>1, <3>1, FileIsWhole DEF Finished
    <3>2. CASE Reformed # Current.symbols
      <4>1. Finished.symbols = Reformed
        <5>1. WellFormed(Current)
          BY <2>1 DEF FilesInv
        <5> QED
          BY <3>2, <5>1 DEF Finished, WellFormed
      <4>2. Reformed = [k \in DOMAIN Reformed |-> Reformed[k]]
        BY DEF Reformed
      <4> QED
        BY <4>1, <4>2
    <3> QED
      BY <3>1, <3>2
  <2>6. \A i \in DOMAIN out' : i = n \/ i \in DOMAIN out
    BY <2>1
  <2> QED
    BY <2>1, <2>3, <2>4, <2>5, <2>6 DEF WholeInv
<1> QED
  BY <1>1, <1>2, <1>3, <1>4, <1>5, <1>6 DEF Next

LEMMA DoneHangs ==
    ASSUME FinalizeInv, WholeInv, Done, UniqueIds
    PROVE  Listed(out) /\ UniqueIn(out) /\ \E rank : Hanging(out, rank)
<1>1. FilesInv
  BY DEF FinalizeInv
<1>2. UniqueIn(out)
  BY DEF UniqueIds
<1>3. CASE Untouched
  <2>1. out = files
    BY <1>3 DEF Untouched
  <2>2. Listed(out)
    BY <1>1, <2>1, FileIsWhole DEF Listed, FilesInv, WellFormed
  <2> DEFINE rank == [i \in DOMAIN files |-> Len(files[i].module)]
  <2>3. ASSUME NEW at \in Slots(out)
        PROVE  HangsFrom(out, rank, at)
    <3> DEFINE i == at[1]
               k == at[2]
               s == SymbolIn(out, at)
    <3>1. i \in DOMAIN files /\ k \in DOMAIN files[i].symbols /\ s = files[i].symbols[k]
      BY <2>1 DEF Slots, SymbolIn
    <3>2. WellFormed(files[i])
      BY <1>1, <3>1 DEF FilesInv
    <3>3. rank[i] \in Nat /\ k \in Nat /\ s.id # None
      <4>1. files[i].module \in Seq(STRING)
        BY <3>2 DEF WellFormed, Names
      <4>2. s.id \in Names /\ k \in Nat
        BY <3>1, <3>2 DEF WellFormed
      <4> QED
        BY <3>1, <4>1, <4>2, FinalizeAssumption
    <3>4. s.kind = "module" <=> k = 1
      BY <3>1, <3>2 DEF WellFormed
    <3>5. CASE k # 1
      <4>1. PICK j \in 1 .. k - 1 : s.parent = files[i].symbols[j].id
        BY <3>1, <3>2, <3>5 DEF WellFormed
      <4>2. j \in DOMAIN files[i].symbols /\ j < k
        BY <3>1, <3>2, <4>1 DEF WellFormed
      <4>3. <<i, j>> \in Slots(out) /\ s.parent = IdAt(out, <<i, j>>)
        BY <2>1, <3>1, <4>1, <4>2 DEF Slots, IdAt
      <4> QED
        BY <3>3, <3>4, <3>5, <4>2, <4>3 DEF HangsFrom
    <3>6. CASE k = 1 /\ s.parent # None
      <4>1. files[i].module \in Names \ {<<>>} /\ Len(files[i].module) # 1 /\ s.parent = Front(files[i].module)
        BY <3>1, <3>2, <3>6 DEF WellFormed
      <4>2. Len(files[i].module) > 1 /\ Len(Front(files[i].module)) < Len(files[i].module)
        BY <4>1, NonEmptyNames DEF Front
      <4>3. Front(files[i].module) \in ModuleNames
        BY <1>3, <3>1, <4>2 DEF Untouched, HasGap, ModuleNames
      <4>4. PICK j \in DOMAIN files : files[j].module = Front(files[i].module)
        BY <4>3 DEF ModuleNames
      <4>5. /\ 1 \in DOMAIN files[j].symbols /\ files[j].symbols[1].kind = "module"
            /\ files[j].symbols[1].id = files[j].module
        BY <1>1 DEF FilesInv, WellFormed
      <4>6. /\ <<j, 1>> \in Slots(out) /\ SymbolIn(out, <<j, 1>>).kind = "module"
            /\ s.parent = IdAt(out, <<j, 1>>)
        BY <2>1, <4>1, <4>4, <4>5 DEF Slots, IdAt, SymbolIn
      <4>7. rank[j] < rank[i]
        BY <3>1, <4>2, <4>4
      <4> QED
        BY <3>3, <3>4, <3>6, <4>6, <4>7 DEF HangsFrom
    <3> QED
      BY <3>3, <3>4, <3>5, <3>6 DEF HangsFrom
  <2>4. Hanging(out, rank)
    <3> HIDE DEF rank
    <3> QED
      BY <2>3 DEF Hanging
  <2> QED
    BY <1>2, <2>2, <2>4
<1>4. CASE ClaimsInv
  <2>1. /\ DOMAIN out = DOMAIN files /\ DOMAIN moduleId = DOMAIN files /\ Len(out) = Len(files)
        /\ \A i \in DOMAIN files :
              /\ DOMAIN out[i].symbols = DOMAIN files[i].symbols
              /\ 1 \in DOMAIN files[i].symbols
              /\ out[i].symbols[1].id = moduleId[i] /\ out[i].symbols[1].kind = "module"
    BY <1>1, <1>4, DoneIs
  <2>2. Listed(out)
    BY <1>1, <2>1 DEF Listed, WholeInv, FilesInv, WellFormed
  <2> DEFINE rank == [i \in DOMAIN files |-> Len(files[i].module)]
  <2>3. ASSUME NEW at \in Slots(out)
        PROVE  HangsFrom(out, rank, at)
    <3> DEFINE i == at[1]
               k == at[2]
               s == SymbolIn(out, at)
    <3>1. /\ i \in DOMAIN files /\ i \in DOMAIN out /\ k \in DOMAIN files[i].symbols
          /\ k \in DOMAIN out[i].symbols /\ s = out[i].symbols[k]
      BY <2>1 DEF Slots, SymbolIn
    <3>2. WellFormed(files[i])
      BY <1>1, <3>1 DEF FilesInv
    <3>3. rank[i] \in Nat /\ k \in Nat /\ s.id # None
      <4>1. files[i].module \in Seq(STRING)
        BY <3>2 DEF WellFormed, Names
      <4>2. k \in Nat
        BY <3>1, <3>2 DEF WellFormed
      <4>3. s.id \in Names
        BY <3>1 DEF WholeInv
      <4> QED
        BY <3>1, <4>1, <4>2, <4>3, FinalizeAssumption
    <3>4. /\ s.kind = "module" <=> k = 1
          /\ Placed(ModuleNames, files[i], out[i].symbols, k)
      BY <1>4, <3>1, <3>2 DEF WellFormed, ClaimsInv, RunInv, OutInv
    <3>5. CASE k # 1
      <4>1. PICK j \in 1 .. k - 1 : s.parent = out[i].symbols[j].id
        BY <3>1, <3>4, <3>5 DEF Placed
      <4>2. j \in DOMAIN out[i].symbols /\ j < k
        BY <2>1, <3>1, <3>2, <4>1 DEF WellFormed
      <4>3. <<i, j>> \in Slots(out) /\ s.parent = IdAt(out, <<i, j>>)
        BY <3>1, <4>1, <4>2 DEF Slots, IdAt
      <4> QED
        BY <3>3, <3>4, <3>5, <4>2, <4>3 DEF HangsFrom
    <3>6. CASE k = 1 /\ s.parent # None
      <4>1. s.parent \in Ancestors(files[i].module) /\ s.parent \in ModuleNames
        BY <3>1, <3>4, <3>6 DEF Placed
      <4>2. Len(s.parent) \in Nat /\ Len(s.parent) < Len(files[i].module)
        BY <3>2, <4>1, AncestorsShorter DEF WellFormed
      <4>3. PICK m \in DOMAIN files : files[m].module = s.parent
        BY <4>1 DEF ModuleNames
      <4>4. PICK j \in DOMAIN moduleId : moduleId[j] = s.parent
        BY <1>4, <2>1, <4>3 DEF ClaimsInv, NamesInv
      <4>5. /\ j \in DOMAIN out /\ 1 \in DOMAIN out[j].symbols
            /\ out[j].symbols[1].kind = "module" /\ out[j].symbols[1].id = s.parent
        BY <2>1, <4>4
      <4>6. /\ <<j, 1>> \in Slots(out) /\ SymbolIn(out, <<j, 1>>).kind = "module"
            /\ s.parent = IdAt(out, <<j, 1>>)
        BY <4>5 DEF Slots, IdAt, SymbolIn
      <4>7. rank[j] < rank[i]
        <5>1. files[j].module \in Seq(STRING) /\ files[i].module \in Seq(STRING)
          BY <1>1, <2>1, <3>1, <4>4 DEF FilesInv, WellFormed, Names
        <5>2. Len(files[j].module) \in Nat /\ Len(files[i].module) \in Nat
          BY <5>1
        <5>3. Len(files[j].module) <= Len(s.parent)
          BY <4>4 DEF WholeInv
        <5>4. rank[j] = Len(files[j].module) /\ rank[i] = Len(files[i].module)
          BY <2>1, <3>1, <4>4
        <5> HIDE DEF rank
        <5> QED
          BY <4>2, <5>2, <5>3, <5>4
      <4> QED
        BY <3>3, <3>4, <3>6, <4>6, <4>7 DEF HangsFrom
    <3> QED
      BY <3>3, <3>4, <3>5, <3>6 DEF HangsFrom
  <2>4. Hanging(out, rank)
    <3> HIDE DEF rank
    <3> QED
      BY <2>3 DEF Hanging
  <2> QED
    BY <1>2, <2>2, <2>4
<1> QED
  BY <1>3, <1>4 DEF FinalizeInv

(* finalize.py:43-44, for any projects: in the graph of the finished files *)
(* the parents lead from every symbol, in finitely many steps, to a module *)
(* that hangs from nothing, so an outline from there can reach it.         *)
THEOREM HangsTogether ==
    Spec => []EverythingHangsTogether
<1>1. Init => FinalizeInv /\ SlotsInv /\ WholeInv
  <2>1. Init => WholeInv
    BY DEF Init, WholeInv
  <2> QED
    BY <2>1, ClaimsInit, SlotsInit DEF FinalizeInv
<1>2. FinalizeInv /\ SlotsInv /\ WholeInv /\ [Next]_vars => WholeInv'
  BY WholeStep DEF FinalizeInv
<1>3. FinalizeInv /\ WholeInv /\ UniqueIds => EverythingHangsTogether
  <2> SUFFICES ASSUME FinalizeInv, WholeInv, UniqueIds, Done PROVE EverythingHangsTogether
    BY DEF EverythingHangsTogether
  <2>1. PICK rank : Listed(out) /\ UniqueIn(out) /\ Hanging(out, rank)
    BY DoneHangs
  <2> QED
    BY <2>1, WayUp DEF EverythingHangsTogether, Tree
<1> QED
  BY <1>1, <1>2, <1>3, FinalizeStep, IdsAreUnique, PTL DEF Spec

-----------------------------------------------------------------------------
(* The outline.  A tree is a graph with a symbol for each id, in which no  *)
(* way up is a circle.                                                     *)
IsTree(g) ==
    /\ g \in Seq(ToSet(g)) /\ Once(g)
    /\ None \notin SymbolIds(g) /\ Founded(SymbolIds(g), ParentIn(g))

LEMMA SymbolIs ==
    ASSUME NEW g, IsTree(g)
    PROVE  /\ Len(g) \in Nat /\ DOMAIN g = 1 .. Len(g)
           /\ \A k \in DOMAIN g : g[k].id \in SymbolIds(g) /\ SymbolOf(g, g[k].id) = g[k]
           /\ \A id \in SymbolIds(g) : \E k \in DOMAIN g : g[k].id = id /\ SymbolOf(g, id) = g[k]
<1>1. Len(g) \in Nat /\ DOMAIN g = 1 .. Len(g)
  BY DEF IsTree
<1>2. ASSUME NEW k \in DOMAIN g PROVE g[k].id \in SymbolIds(g) /\ SymbolOf(g, g[k].id) = g[k]
  <2> DEFINE j == CHOOSE j \in DOMAIN g : g[j].id = g[k].id
  <2>1. j \in DOMAIN g /\ g[j].id = g[k].id
    OBVIOUS
  <2>2. j = k
    <3> HIDE DEF j
    <3> QED
      BY <2>1 DEF IsTree, Once
  <2>3. SymbolOf(g, g[k].id) = g[j]
    BY DEF SymbolOf
  <2>4. g[k].id \in SymbolIds(g)
    BY DEF SymbolIds
  <2> HIDE DEF j
  <2> QED
    BY <2>2, <2>3, <2>4
<1>3. ASSUME NEW id \in SymbolIds(g) PROVE \E k \in DOMAIN g : g[k].id = id /\ SymbolOf(g, id) = g[k]
  BY <1>2 DEF SymbolIds
<1> QED
  BY <1>1, <1>2, <1>3

LEMMA ChildrenAre ==
    ASSUME NEW g, IsTree(g), NEW id
    PROVE  /\ Children(g, id) \in Seq(ToSet(g))
           /\ ToSet(Children(g, id)) = {s \in ToSet(g) : s.parent = id}
           /\ Once(Children(g, id))
<1> DEFINE S == ToSet(g)
           parts == [k \in DOMAIN g |-> IF g[k].parent = id THEN <<g[k]>> ELSE <<>>]
           key == [s \in S |-> s.id]
<1>1. Len(g) \in Nat /\ DOMAIN g = 1 .. Len(g) /\ \A k \in DOMAIN g : g[k] \in S /\ key[g[k]] = g[k].id
  BY SymbolIs DEF ToSet
<1>2. \A s \in S : \E k \in DOMAIN g : s = g[k]
  BY DEF ToSet
<1>3. ASSUME NEW k \in DOMAIN g
      PROVE  /\ parts[k] = IF g[k].parent = id THEN <<g[k]>> ELSE <<>>
             /\ parts[k] \in Seq(S) /\ ToSet(parts[k]) = IF g[k].parent = id THEN {g[k]} ELSE {}
             /\ Apart(key, parts[k])
  <2>1. g[k] \in S
    BY <1>1
  <2> HIDE DEF S, key
  <2>2. /\ <<g[k]>> \in Seq(S) /\ ToSet(<<g[k]>>) = {g[k]} /\ Apart(key, <<g[k]>>)
        /\ <<>> \in Seq(S) /\ ToSet(<<>>) = {} /\ Apart(key, <<>>)
    BY <2>1 DEF ToSet, Apart
  <2> QED
    BY <2>2
<1>4. parts \in Seq(Seq(S)) /\ DOMAIN parts = DOMAIN g
  <2>1. parts = [k \in 1 .. Len(g) |-> parts[k]] /\ DOMAIN parts = DOMAIN g
    BY <1>1
  <2> HIDE DEF parts, S
  <2>2. parts \in [1 .. Len(g) -> Seq(S)]
    BY <1>1, <1>3, <2>1
  <2> QED
    BY <1>1, <2>1, <2>2
<1> HIDE DEF parts, S, key
<1>5. FlattenSeq(parts) \in Seq(S) /\ ToSet(FlattenSeq(parts)) = UNION {ToSet(parts[k]) : k \in DOMAIN parts}
  BY <1>4, FlattenSeqIs
<1>6. UNION {ToSet(parts[k]) : k \in DOMAIN parts} = {s \in S : s.parent = id}
  BY <1>1, <1>2, <1>3, <1>4
<1>7. Apart(key, FlattenSeq(parts))
  <2>1. ASSUME NEW i \in DOMAIN parts, NEW j \in DOMAIN parts, NEW x \in ToSet(parts[i]), NEW y \in ToSet(parts[j]),
               key[x] = key[y]
        PROVE  i = j
    <3>1. i \in DOMAIN g /\ j \in DOMAIN g /\ x = g[i] /\ y = g[j]
      BY <1>3, <1>4, <2>1
    <3>2. g[i].id = g[j].id
      BY <1>1, <2>1, <3>1
    <3> QED
      BY <3>1, <3>2 DEF IsTree, Once
  <2>2. \A i \in DOMAIN parts : Apart(key, parts[i])
    BY <1>3, <1>4
  <2> QED
    BY <1>4, <2>1, <2>2, FlatApart
<1>8. Children(g, id) = FlattenSeq(parts)
  BY DEF Children, parts
<1>9. Once(FlattenSeq(parts))
  <2> DEFINE c == FlattenSeq(parts)
  <2>1. \A k \in DOMAIN c : c[k] \in S
    BY <1>5
  <2>2. \A k \in DOMAIN c : key[c[k]] = c[k].id
    BY <2>1 DEF key
  <2> HIDE DEF c
  <2> QED
    BY <1>7, <2>2 DEF Once, Apart, c
<1> QED
  BY <1>5, <1>6, <1>8, <1>9 DEF S

(* The way up from a symbol is that from its parent, with it before.       *)
UpIs(g, up) ==
    \A c \in SymbolIds(g) :
        /\ up[c] \in Seq(SymbolIds(g)) /\ Len(up[c]) \in Nat \ {0} /\ up[c][1] = c
        /\ LET parent == SymbolOf(g, c).parent
           IN  /\ parent \notin SymbolIds(g) => Len(up[c]) = 1
               /\ parent \in SymbolIds(g) =>
                    /\ Len(up[c]) = Len(up[parent]) + 1
                    /\ \A j \in 1 .. Len(up[parent]) : up[c][j + 1] = up[parent][j]

LEMMA ClimbsUp ==
    ASSUME NEW g, IsTree(g), NEW up, Climbs(g, None, up)
    PROVE  UpIs(g, up)
<1> DEFINE C == SymbolIds(g)
<1>1. \A i \in C : up[i] = IF SymbolOf(g, i).parent \in C THEN <<i>> \o up[SymbolOf(g, i).parent] ELSE <<i>>
  BY DEF Climbs, IsTree
<1>2. \A i \in C : ParentIn(g)[i] = IF SymbolOf(g, i).parent \in C THEN {SymbolOf(g, i).parent} ELSE {}
  BY DEF ParentIn
<1> HIDE DEF C
<1>3. ASSUME NEW c \in C
      PROVE  <<c>> \in Seq(C) /\ Len(<<c>>) = 1 /\ <<c>>[1] = c
  OBVIOUS
<1>4. ASSUME NEW c \in C, NEW way \in Seq(C)
      PROVE  /\ <<c>> \o way \in Seq(C) /\ Len(<<c>> \o way) = Len(way) + 1 /\ Len(way) \in Nat
             /\ (<<c>> \o way)[1] = c
             /\ \A j \in 1 .. Len(way) : (<<c>> \o way)[j + 1] = way[j]
  BY <1>3
<1> DEFINE T == {i \in C : up[i] \notin Seq(C)}
<1>5. T = {}
  <2> SUFFICES ASSUME T # {} PROVE FALSE
    OBVIOUS
  <2>1. T \in SUBSET C
    OBVIOUS
  <2>2. PICK i \in T : ParentIn(g)[i] \cap T = {}
    <3> HIDE DEF T
    <3> QED
      BY <2>1 DEF C, IsTree, Founded
  <2>3. i \in C /\ up[i] \notin Seq(C)
    BY <2>2
  <2>4. CASE SymbolOf(g, i).parent \notin C
    BY <1>1, <1>3, <2>3, <2>4
  <2>5. CASE SymbolOf(g, i).parent \in C
    <3>1. up[SymbolOf(g, i).parent] \in Seq(C)
      BY <1>2, <2>2, <2>3, <2>5
    <3> QED
      BY <1>1, <1>4, <2>3, <2>5, <3>1
  <2> QED
    BY <2>4, <2>5
<1>6. \A i \in C : up[i] \in Seq(C)
  BY <1>5
<1>7. ASSUME NEW c \in C
      PROVE  /\ up[c] \in Seq(C) /\ Len(up[c]) \in Nat \ {0} /\ up[c][1] = c
             /\ SymbolOf(g, c).parent \notin C => Len(up[c]) = 1
             /\ SymbolOf(g, c).parent \in C =>
                  /\ Len(up[c]) = Len(up[SymbolOf(g, c).parent]) + 1
                  /\ \A j \in 1 .. Len(up[SymbolOf(g, c).parent]) : up[c][j + 1] = up[SymbolOf(g, c).parent][j]
  <2> DEFINE parent == SymbolOf(g, c).parent
  <2>1. CASE parent \notin C
    <3>1. up[c] = <<c>>
      BY <1>1, <2>1
    <3> QED
      BY <1>3, <2>1, <3>1
  <2>2. CASE parent \in C
    <3> DEFINE way == up[parent]
    <3>1. up[c] = <<c>> \o way /\ way \in Seq(C)
      BY <1>1, <1>6, <2>2
    <3> HIDE DEF way
    <3>2. /\ up[c] \in Seq(C) /\ Len(up[c]) = Len(way) + 1 /\ Len(way) \in Nat /\ up[c][1] = c
          /\ \A j \in 1 .. Len(way) : up[c][j + 1] = way[j]
      BY <1>4, <3>1
    <3> QED
      BY <2>2, <3>2 DEF way
  <2> QED
    BY <2>1, <2>2
<1> QED
  BY <1>7 DEF UpIs, C

(* The way up from a symbol on it is the rest of it, so no symbol is on it *)
(* twice.                                                                  *)
Along(g, up, c) ==
    \A k \in 1 .. Len(up[c]) :
        /\ up[c][k] \in SymbolIds(g) /\ Len(up[up[c][k]]) = Len(up[c]) - k + 1
        /\ k < Len(up[c]) => SymbolOf(g, up[c][k]).parent = up[c][k + 1]

LEMMA UpRest ==
    ASSUME NEW g, IsTree(g), NEW up, UpIs(g, up)
    PROVE  \A c \in SymbolIds(g) : /\ Along(g, up, c)
                                   /\ \A j, k \in 1 .. Len(up[c]) : up[c][j] = up[c][k] => j = k
<1> DEFINE C == SymbolIds(g)
           T == {c \in C : ~Along(g, up, c)}
<1>1. \A i \in C : ParentIn(g)[i] = IF SymbolOf(g, i).parent \in C THEN {SymbolOf(g, i).parent} ELSE {}
  BY DEF ParentIn
<1>2. T = {}
  <2> SUFFICES ASSUME T # {} PROVE FALSE
    OBVIOUS
  <2>1. T \in SUBSET C
    OBVIOUS
  <2>2. PICK c \in T : ParentIn(g)[c] \cap T = {}
    <3> HIDE DEF T
    <3> QED
      BY <2>1 DEF IsTree, Founded
  <2>3. c \in C /\ ~Along(g, up, c)
    BY <2>2
  <2> DEFINE parent == SymbolOf(g, c).parent
             n == Len(up[c])
  <2>4. /\ n \in Nat \ {0} /\ up[c][1] = c
        /\ parent \notin C => n = 1
    BY <2>3 DEF UpIs
  <2>5. ASSUME parent \in C
        PROVE  /\ Len(up[parent]) \in Nat \ {0} /\ up[parent][1] = parent /\ n = Len(up[parent]) + 1
               /\ \A j \in 1 .. Len(up[parent]) : up[c][j + 1] = up[parent][j]
               /\ Along(g, up, parent)
    <3>1. parent \notin T
      BY <1>1, <2>2, <2>3, <2>5
    <3>2. Along(g, up, parent)
      BY <2>5, <3>1
    <3> QED
      BY <2>3, <2>5, <3>2 DEF UpIs
  <2> HIDE DEF C, T
  <2>6. ASSUME NEW k \in 1 .. n
        PROVE  /\ up[c][k] \in C /\ Len(up[up[c][k]]) = n - k + 1
               /\ k < n => SymbolOf(g, up[c][k]).parent = up[c][k + 1]
    <3>1. CASE k = 1
      <4>1. 1 < n => parent \in C
        <5> HIDE DEF n, parent
        <5> QED
          BY <2>4
      <4>2. parent \in C => up[c][1 + 1] = parent
        BY <2>5
      <4>3. Len(up[c]) = n /\ n - 1 + 1 = n
        BY <2>4
      <4> HIDE DEF n, parent
      <4>4. 1 < n => SymbolOf(g, c).parent = up[c][1 + 1]
        BY <4>1, <4>2 DEF parent
      <4> QED
        BY <2>3, <2>4, <3>1, <4>3, <4>4
    <3>2. CASE k # 1
      <4>1. parent \in C
        <5> HIDE DEF n, parent
        <5>1. n # 1
          BY <2>4, <2>6, <3>2
        <5> QED
          BY <2>4, <5>1
      <4> DEFINE m == Len(up[parent])
                 j == k - 1
      <4>2. /\ m \in Nat \ {0} /\ n = m + 1 /\ \A i \in 1 .. m : up[c][i + 1] = up[parent][i]
            /\ Along(g, up, parent)
        BY <2>5, <4>1
      <4>3. j \in 1 .. m /\ k = j + 1 /\ (k < n <=> j < m) /\ (j < m => j + 1 \in 1 .. m) /\ m - j + 1 = n - k + 1
        BY <3>2, <4>2
      <4>4. /\ up[parent][j] \in C /\ Len(up[up[parent][j]]) = m - j + 1
            /\ j < m => SymbolOf(g, up[parent][j]).parent = up[parent][j + 1]
        BY <4>2, <4>3 DEF Along, C
      <4> HIDE DEF j, m, n, parent
      <4>5. up[c][k] = up[parent][j] /\ (j < m => up[c][k + 1] = up[parent][j + 1])
        BY <4>2, <4>3
      <4> QED
        BY <4>3, <4>4, <4>5
    <3> QED
      BY <3>1, <3>2
  <2> QED
    BY <2>3, <2>6 DEF Along, C
<1>3. \A c \in C : Along(g, up, c)
  BY <1>2
<1>4. ASSUME NEW c \in C, NEW j \in 1 .. Len(up[c]), NEW k \in 1 .. Len(up[c]), up[c][j] = up[c][k] PROVE j = k
  <2> DEFINE n == Len(up[c])
  <2>1. n - j + 1 = n - k + 1
    BY <1>3, <1>4 DEF Along
  <2>2. n \in Nat
    BY DEF UpIs
  <2> HIDE DEF n
  <2> QED
    BY <2>1, <2>2 DEF n
<1> QED
  BY <1>3, <1>4

Hung(g) == [id \in SymbolIds(g) |-> {c \in SymbolIds(g) : SymbolOf(g, c).parent = id}]

LEMMA HungFounded ==
    ASSUME NEW g, IsTree(g), NEW up, UpIs(g, up)
    PROVE  Hung(g) \in [SymbolIds(g) -> SUBSET SymbolIds(g)] /\ Founded(SymbolIds(g), Hung(g))
<1> DEFINE C == SymbolIds(g)
<1>1. ASSUME NEW T \in SUBSET C, T # {} PROVE \E c \in T : Hung(g)[c] \cap T = {}
  <2> DEFINE D == {k \in DOMAIN g : g[k].id \in T}
             rank == [k \in DOMAIN g |-> Len(up[g[k].id])]
  <2>1. /\ Len(g) \in Nat /\ DOMAIN g = 1 .. Len(g)
        /\ \A k \in DOMAIN g : g[k].id \in C
        /\ \A id \in C : \E k \in DOMAIN g : g[k].id = id
    BY SymbolIs
  <2>2. \A k \in DOMAIN g : rank[k] = Len(up[g[k].id]) /\ rank[k] \in Nat
    BY <2>1 DEF UpIs
  <2>3. D \in SUBSET (1 .. Len(g)) /\ D # {}
    BY <1>1, <2>1
  <2>4. PICK x \in D : \A y \in D : rank[y] <= rank[x]
    <3> HIDE DEF D, rank
    <3> QED
      BY <2>1, <2>2, <2>3, HighestFirst
  <2> DEFINE c == g[x].id
  <2>5. c \in T /\ c \in C /\ rank[x] = Len(up[c]) /\ Len(up[c]) \in Nat
    BY <2>2, <2>4 DEF UpIs
  <2> HIDE DEF c, rank
  <2>6. ASSUME NEW d \in T, SymbolOf(g, d).parent = c PROVE FALSE
    <3>1. PICK y \in D : g[y].id = d
      BY <2>1
    <3>2. rank[y] = Len(up[d])
      BY <2>2, <3>1
    <3>3. Len(up[d]) = Len(up[c]) + 1
      BY <2>5, <2>6 DEF UpIs
    <3>4. rank[y] <= rank[x]
      BY <2>4
    <3> QED
      BY <2>5, <3>2, <3>3, <3>4
  <2>7. Hung(g)[c] = {d \in C : SymbolOf(g, d).parent = c}
    BY <2>5 DEF Hung
  <2> QED
    BY <2>5, <2>6, <2>7
<1>2. Hung(g) \in [C -> SUBSET C]
  BY DEF Hung
<1> QED
  BY <1>1, <1>2 DEF Founded

(* The lines of an outline.  Part are those of one member, and Under those *)
(* of all members of a symbol; walk gives the lines of each symbol.        *)
Lines(g) == [id : SymbolIds(g), depth : Nat]
Deeper(lines) == [k \in DOMAIN lines |-> [lines[k] EXCEPT !.depth = @ + 1]]
Part(revealed, walk, s) ==
    Deeper(IF s.kind = "module" /\ s.id \notin revealed THEN <<[id |-> s.id, depth |-> 0]>> ELSE walk[s.id])
Under(g, revealed, walk, id) ==
    FlattenSeq([k \in DOMAIN Children(g, id) |-> Part(revealed, walk, Children(g, id)[k])])
Walks(g, revealed, walk) ==
    walk = [id \in SymbolIds(g) |-> <<[id |-> id, depth |-> 0]>> \o Under(g, revealed, walk, id)]

LEMMA DeeperIs ==
    ASSUME NEW g, NEW lines \in Seq(Lines(g))
    PROVE  /\ Deeper(lines) \in Seq(Lines(g)) /\ DOMAIN Deeper(lines) = DOMAIN lines
           /\ \A k \in DOMAIN lines : /\ lines[k] \in Lines(g)
                                      /\ Deeper(lines)[k].id = lines[k].id
                                      /\ Deeper(lines)[k].depth = lines[k].depth + 1
<1> DEFINE L == Lines(g)
<1>1. \A k \in DOMAIN lines : lines[k] \in L
  OBVIOUS
<1>2. ASSUME NEW l \in L
      PROVE  /\ [l EXCEPT !.depth = @ + 1] \in L /\ [l EXCEPT !.depth = @ + 1].id = l.id
             /\ [l EXCEPT !.depth = @ + 1].depth = l.depth + 1
  BY DEF Lines
<1> HIDE DEF L
<1>3. /\ Len(lines) \in Nat /\ DOMAIN lines = 1 .. Len(lines)
  OBVIOUS
<1>4. Deeper(lines) = [k \in 1 .. Len(lines) |-> [lines[k] EXCEPT !.depth = @ + 1]]
  BY <1>3 DEF Deeper
<1>5. Deeper(lines) \in [1 .. Len(lines) -> L]
  BY <1>1, <1>2, <1>3, <1>4
<1>6. Deeper(lines) \in Seq(L)
  BY <1>3, <1>5
<1>7. \A k \in DOMAIN lines : Deeper(lines)[k].id = lines[k].id /\ Deeper(lines)[k].depth = lines[k].depth + 1
  BY <1>1, <1>2, <1>3, <1>4
<1> QED
  BY <1>1, <1>3, <1>4, <1>6, <1>7 DEF L

LEMMA PartIs ==
    ASSUME NEW g, IsTree(g), NEW revealed, NEW walk, NEW s \in ToSet(g), walk[s.id] \in Seq(Lines(g))
    PROVE  Part(revealed, walk, s) \in Seq(Lines(g))
<1>1. s.id \in SymbolIds(g)
  BY DEF ToSet, SymbolIds
<1>2. [id |-> s.id, depth |-> 0] \in Lines(g)
  BY <1>1 DEF Lines
<1>3. <<[id |-> s.id, depth |-> 0]>> \in Seq(Lines(g))
  BY <1>2
<1> QED
  BY <1>3, DeeperIs DEF Part

LEMMA UnderIs ==
    ASSUME NEW g, IsTree(g), NEW revealed, NEW walk, NEW id,
           \A s \in ToSet(Children(g, id)) : walk[s.id] \in Seq(Lines(g))
    PROVE  LET parts == [k \in DOMAIN Children(g, id) |-> Part(revealed, walk, Children(g, id)[k])]
           IN  /\ parts \in Seq(Seq(Lines(g)))
               /\ Under(g, revealed, walk, id) \in Seq(Lines(g))
               /\ ToSet(Under(g, revealed, walk, id)) =
                      UNION {ToSet(Part(revealed, walk, s)) : s \in ToSet(Children(g, id))}
<1> DEFINE below == Children(g, id)
           L == Lines(g)
           parts == [k \in DOMAIN below |-> Part(revealed, walk, below[k])]
<1>1. below \in Seq(ToSet(g)) /\ \A s \in ToSet(below) : s \in ToSet(g)
  BY ChildrenAre
<1> HIDE DEF below
<1>2. /\ Len(below) \in Nat /\ DOMAIN below = 1 .. Len(below)
      /\ \A k \in DOMAIN below : below[k] \in ToSet(below)
  BY <1>1 DEF ToSet
<1>3. \A k \in DOMAIN below : Part(revealed, walk, below[k]) \in Seq(L)
  BY <1>1, <1>2, PartIs DEF below
<1>4. parts \in [1 .. Len(below) -> Seq(L)]
  <2> HIDE DEF L
  <2> QED
    BY <1>2, <1>3
<1>5. parts \in Seq(Seq(L)) /\ DOMAIN parts = DOMAIN below /\ \A k \in DOMAIN below : parts[k] = Part(revealed, walk, below[k])
  <2>1. parts \in Seq(Seq(L))
    <3> HIDE DEF parts, L
    <3> QED
      BY <1>2, <1>4
  <2> QED
    BY <2>1
<1> HIDE DEF parts, L
<1>6. FlattenSeq(parts) \in Seq(L) /\ ToSet(FlattenSeq(parts)) = UNION {ToSet(parts[k]) : k \in DOMAIN parts}
  BY <1>5, FlattenSeqIs
<1>7. UNION {ToSet(parts[k]) : k \in DOMAIN parts} = UNION {ToSet(Part(revealed, walk, s)) : s \in ToSet(below)}
  <2>1. {ToSet(parts[k]) : k \in DOMAIN parts} = {ToSet(Part(revealed, walk, below[k])) : k \in DOMAIN below}
    BY <1>5
  <2>2. {ToSet(Part(revealed, walk, below[k])) : k \in DOMAIN below} = {ToSet(Part(revealed, walk, s)) : s \in ToSet(below)}
    <3>1. \A s \in ToSet(below) : \E k \in DOMAIN below : s = below[k]
      BY DEF ToSet
    <3> HIDE DEF below
    <3> QED
      BY <1>2, <3>1, Zenon
  <2> QED
    BY <2>1, <2>2
<1>8. Under(g, revealed, walk, id) = FlattenSeq(parts)
  BY DEF Under, parts, below
<1> QED
  BY <1>5, <1>6, <1>7, <1>8 DEF parts, below, L

LEMMA ChildIs ==
    ASSUME NEW g, IsTree(g), NEW id \in SymbolIds(g), NEW s \in ToSet(Children(g, id))
    PROVE  /\ s \in ToSet(g) /\ s.id \in SymbolIds(g) /\ SymbolOf(g, s.id) = s /\ s.parent = id
           /\ s.id \in Hung(g)[id]
<1>1. s \in ToSet(g) /\ s.parent = id
  BY ChildrenAre
<1>2. PICK k \in DOMAIN g : s = g[k]
  BY <1>1 DEF ToSet
<1>3. s.id \in SymbolIds(g) /\ SymbolOf(g, s.id) = s
  BY <1>2, SymbolIs
<1> QED
  BY <1>1, <1>3 DEF Hung

LEMMA WalkIs ==
    ASSUME NEW g, IsTree(g), NEW up, UpIs(g, up), NEW module, NEW focus
    PROVE  \E walk : /\ Outline(g, module, focus) = walk[module]
                     /\ Walks(g, RevealSpine(g, focus, module), walk)
<1> DEFINE C == SymbolIds(g)
           S == Seq(Lines(g))
           below == Hung(g)
           revealed == RevealSpine(g, focus, module)
           step == [c \in C |-> [h \in [below[c] -> S] |->
                       <<[id |-> c, depth |-> 0]>> \o Under(g, revealed, h, c)]]
           chosen == CHOOSE walk : Walks(g, revealed, walk)
<1>1. below \in [C -> SUBSET C] /\ Founded(C, below)
  BY HungFounded
<1>2. Outline(g, module, focus) = chosen[module]
  BY Zenon DEF Outline, Walks, Under, Part, Deeper
<1> HIDE DEF revealed
<1>3. ASSUME NEW c \in C, NEW h, \A b \in below[c] : h[b] \in S
      PROVE  <<[id |-> c, depth |-> 0]>> \o Under(g, revealed, h, c) \in S
  <2>1. \A s \in ToSet(Children(g, c)) : h[s.id] \in S
    BY <1>3, ChildIs
  <2>2. Under(g, revealed, h, c) \in S
    BY <2>1, UnderIs
  <2>3. [id |-> c, depth |-> 0] \in Lines(g)
    BY DEF Lines
  <2>4. <<[id |-> c, depth |-> 0]>> \in S
    BY <2>3
  <2> QED
    BY <2>2, <2>4
<1> HIDE DEF below
<1>4. ASSUME NEW c \in C, NEW h \in [below[c] -> S]
      PROVE  /\ step[c][h] = <<[id |-> c, depth |-> 0]>> \o Under(g, revealed, h, c)
             /\ step[c][h] \in S
  <2>1. \A b \in below[c] : h[b] \in S
    OBVIOUS
  <2> QED
    BY <1>3, <2>1
<1>5. PICK f \in [C -> S] : Follows(C, below, step, f)
  <2>1. Passes(C, below, S, step)
    BY <1>4 DEF Passes
  <2> HIDE DEF C, S, step
  <2> QED
    BY <1>1, <2>1, Recursion
<1>6. ASSUME NEW c \in C
      PROVE  f[c] = <<[id |-> c, depth |-> 0]>> \o Under(g, revealed, f, c)
  <2> DEFINE h == [b \in below[c] |-> f[b]]
             of == Children(g, c)
  <2>1. below[c] \subseteq C
    BY <1>1
  <2>2. h \in [below[c] -> S]
    BY <1>5, <2>1
  <2>3. f[c] = step[c][h]
    BY <1>5 DEF Follows
  <2>4. \A k \in DOMAIN of : of[k].id \in below[c]
    BY ChildIs DEF ToSet, below
  <2>5. \A k \in DOMAIN of : h[of[k].id] = f[of[k].id]
    BY <2>4
  <2> HIDE DEF h, step
  <2>6. \A k \in DOMAIN of : Part(revealed, h, of[k]) = Part(revealed, f, of[k])
    BY <2>5 DEF Part
  <2>7. Under(g, revealed, h, c) = Under(g, revealed, f, c)
    BY <2>6, Zenon DEF Under
  <2> QED
    BY <1>4, <2>2, <2>3, <2>7
<1>7. f = [c \in C |-> f[c]]
  BY <1>5
<1>8. Walks(g, revealed, f)
  BY <1>6, <1>7 DEF Walks
<1>9. Walks(g, revealed, chosen)
  BY <1>8
<1> HIDE DEF chosen
<1> QED
  BY <1>2, <1>9 DEF revealed

(* Every line is of a symbol below, at its distance, and no two are of one *)
(* symbol.                                                                 *)
Placing(g, up, walk, id) ==
    /\ walk[id] \in Seq(Lines(g)) /\ Once(walk[id])
    /\ \A l \in ToSet(walk[id]) : l.depth + 1 \in 1 .. Len(up[l.id]) /\ up[l.id][l.depth + 1] = id

LEMMA PartPlaces ==
    ASSUME NEW g, IsTree(g), NEW up, UpIs(g, up), NEW revealed, NEW walk,
           NEW id \in SymbolIds(g), NEW s \in ToSet(Children(g, id)), Placing(g, up, walk, s.id)
    PROVE  LET part == Part(revealed, walk, s)
           IN  /\ part \in Seq(Lines(g)) /\ Once(part)
               /\ \A l \in ToSet(part) : /\ l.depth \in 1 .. Len(up[l.id]) - 1
                                         /\ up[l.id][l.depth] = s.id /\ up[l.id][l.depth + 1] = id
<1> DEFINE one == <<[id |-> s.id, depth |-> 0]>>
           lines == IF s.kind = "module" /\ s.id \notin revealed THEN one ELSE walk[s.id]
<1>1. s.id \in SymbolIds(g) /\ SymbolOf(g, s.id) = s /\ s.parent = id
  BY ChildIs
<1>2. one \in Seq(Lines(g)) /\ Once(one) /\ ToSet(one) = {[id |-> s.id, depth |-> 0]}
  <2>1. [id |-> s.id, depth |-> 0] \in Lines(g)
    BY <1>1 DEF Lines
  <2>2. one \in Seq(Lines(g))
    BY <2>1
  <2>3. DOMAIN one = {1} /\ one[1] = [id |-> s.id, depth |-> 0]
    OBVIOUS
  <2> QED
    BY <2>2, <2>3 DEF Once, ToSet
<1>3. Len(up[s.id]) \in Nat \ {0} /\ up[s.id][1] = s.id
  BY <1>1 DEF UpIs
<1>4. /\ lines \in Seq(Lines(g)) /\ Once(lines)
      /\ \A l \in ToSet(lines) : l.depth + 1 \in 1 .. Len(up[l.id]) /\ up[l.id][l.depth + 1] = s.id
  <2>1. CASE lines = one
    <3>1. ASSUME NEW l \in ToSet(one) PROVE l.id = s.id /\ l.depth + 1 = 1
      BY <1>2
    <3> HIDE DEF one, lines
    <3>2. ASSUME NEW l \in ToSet(one) PROVE l.depth + 1 \in 1 .. Len(up[l.id]) /\ up[l.id][l.depth + 1] = s.id
      <4>1. l.id = s.id /\ l.depth + 1 = 1
        BY <3>1
      <4>2. 1 \in 1 .. Len(up[s.id])
        BY <1>3
      <4> QED
        BY <1>3, <4>1, <4>2
    <3> QED
      BY <1>2, <2>1, <3>2
  <2>2. CASE lines = walk[s.id]
    <3> HIDE DEF lines
    <3> QED
      BY <2>2 DEF Placing
  <2> QED
    BY <2>1, <2>2
<1> DEFINE part == Deeper(lines)
<1>5. part = Part(revealed, walk, s)
  BY DEF Part
<1> HIDE DEF lines
<1>6. /\ part \in Seq(Lines(g)) /\ DOMAIN part = DOMAIN lines
      /\ \A k \in DOMAIN lines : /\ lines[k] \in Lines(g) /\ part[k].id = lines[k].id
                                 /\ part[k].depth = lines[k].depth + 1
  BY <1>4, DeeperIs
<1> HIDE DEF part
<1>7. Once(part)
  BY <1>4, <1>6 DEF Once
<1>8. ASSUME NEW l \in ToSet(part)
      PROVE  l.depth \in 1 .. Len(up[l.id]) - 1 /\ up[l.id][l.depth] = s.id /\ up[l.id][l.depth + 1] = id
  <2>1. PICK k \in DOMAIN lines : l = part[k]
    BY <1>6 DEF ToSet
  <2> DEFINE x == lines[k].id
             d == lines[k].depth
             n == Len(up[x])
  <2>2. l.id = x /\ l.depth = d + 1 /\ x \in SymbolIds(g) /\ d \in Nat
    BY <1>6, <2>1 DEF Lines
  <2>3. d + 1 \in 1 .. n /\ up[x][d + 1] = s.id
    BY <1>4 DEF ToSet
  <2>4. n \in Nat /\ Along(g, up, x)
    BY <2>2, UpRest DEF UpIs
  <2> HIDE DEF n, d, x
  <2>5. d + 1 < n
    <3>1. Len(up[s.id]) = n - (d + 1) + 1
      BY <2>3, <2>4 DEF Along, n
    <3>2. Len(up[s.id]) = Len(up[id]) + 1 /\ Len(up[id]) \in Nat \ {0}
      BY <1>1 DEF UpIs
    <3> QED
      BY <2>2, <2>4, <3>1, <3>2
  <2>6. up[x][d + 1 + 1] = id
    BY <1>1, <2>3, <2>4, <2>5 DEF Along, n
  <2>7. d + 1 \in 1 .. n - 1
    BY <2>2, <2>4, <2>5
  <2> QED
    BY <2>2, <2>3, <2>6, <2>7 DEF n
<1> QED
  BY <1>5, <1>6, <1>7, <1>8

LEMMA LinesPlace ==
    ASSUME NEW g, IsTree(g), NEW up, UpIs(g, up), NEW revealed, NEW walk, Walks(g, revealed, walk)
    PROVE  \A id \in SymbolIds(g) : Placing(g, up, walk, id)
<1> DEFINE C == SymbolIds(g)
           L == Lines(g)
           T == {id \in C : ~Placing(g, up, walk, id)}
           key == [l \in L |-> l.id]
<1> SUFFICES ASSUME T # {} PROVE FALSE
  OBVIOUS
<1>1. PICK id \in T : Hung(g)[id] \cap T = {}
  <2>1. T \in SUBSET C /\ Founded(C, Hung(g))
    BY HungFounded
  <2> HIDE DEF T, C
  <2> QED
    BY <2>1 DEF Founded
<1>2. id \in C /\ ~Placing(g, up, walk, id)
  BY <1>1
<1> DEFINE of == Children(g, id)
           parts == [k \in DOMAIN of |-> Part(revealed, walk, of[k])]
           top == <<[id |-> id, depth |-> 0]>>
           under == Under(g, revealed, walk, id)
<1>3. \A s \in ToSet(of) : Placing(g, up, walk, s.id)
  <2> TAKE s \in ToSet(of)
  <2>1. s.id \in Hung(g)[id] /\ s.id \in C
    BY <1>2, ChildIs
  <2>2. s.id \notin T
    BY <1>1, <2>1
  <2> QED
    BY <2>1, <2>2
<1>4. walk[id] = top \o under
  BY <1>2 DEF Walks
<1> HIDE DEF T
<1>5. \A s \in ToSet(of) : walk[s.id] \in Seq(L)
  BY <1>3 DEF Placing
<1>6. /\ parts \in Seq(Seq(L)) /\ under \in Seq(L)
      /\ ToSet(under) = UNION {ToSet(Part(revealed, walk, s)) : s \in ToSet(of)}
  BY <1>5, UnderIs
<1>7. \A s \in ToSet(of) :
          /\ Part(revealed, walk, s) \in Seq(L) /\ Once(Part(revealed, walk, s))
          /\ \A l \in ToSet(Part(revealed, walk, s)) :
                /\ l.depth \in 1 .. Len(up[l.id]) - 1
                /\ up[l.id][l.depth] = s.id /\ up[l.id][l.depth + 1] = id
  BY <1>2, <1>3, PartPlaces
<1>8. \A c \in C : /\ Len(up[c]) \in Nat \ {0} /\ up[c][1] = c
                   /\ \A j, k \in 1 .. Len(up[c]) : up[c][j] = up[c][k] => j = k
  BY UpRest DEF UpIs
<1>9. \A l \in L : key[l] = l.id /\ l.id \in C /\ l.depth \in Nat
  BY DEF Lines
<1> HIDE DEF L, key
<1>10. \A s \in Seq(L) : Apart(key, s) <=> Once(s)
  <2> TAKE s \in Seq(L)
  <2>1. \A k \in DOMAIN s : s[k] \in L
    OBVIOUS
  <2>2. \A k \in DOMAIN s : key[s[k]] = s[k].id
    BY <1>9, <2>1
  <2> QED
    BY <2>2 DEF Apart, Once
<1>11. Apart(key, under)
  <2>1. DOMAIN parts = DOMAIN of /\ \A k \in DOMAIN of : parts[k] = Part(revealed, walk, of[k]) /\ of[k] \in ToSet(of)
    BY DEF ToSet
  <2>2. under = FlattenSeq(parts)
    BY DEF Under
  <2> HIDE DEF parts, under
  <2>3. \A k \in DOMAIN parts : Apart(key, parts[k])
    BY <1>7, <1>10, <2>1
  <2>4. ASSUME NEW i \in DOMAIN parts, NEW j \in DOMAIN parts,
               NEW x \in ToSet(parts[i]), NEW y \in ToSet(parts[j]), key[x] = key[y]
        PROVE  i = j
    <3>1. parts[i] \in Seq(L) /\ parts[j] \in Seq(L)
      BY <1>6, <2>1
    <3>2. x \in L /\ y \in L
      BY <3>1 DEF ToSet
    <3> DEFINE c == x.id
    <3>3. y.id = c /\ c \in C /\ x.depth \in Nat /\ y.depth \in Nat
      BY <1>9, <2>4, <3>2
    <3>4. /\ x.depth \in 1 .. Len(up[c]) - 1 /\ up[c][x.depth] = of[i].id /\ up[c][x.depth + 1] = id
          /\ y.depth \in 1 .. Len(up[c]) - 1 /\ up[c][y.depth] = of[j].id /\ up[c][y.depth + 1] = id
      <4>1. x \in ToSet(Part(revealed, walk, of[i])) /\ y \in ToSet(Part(revealed, walk, of[j]))
        BY <2>1
      <4> QED
        BY <1>7, <2>1, <3>3, <4>1
    <3> HIDE DEF c, of
    <3>5. x.depth + 1 \in 1 .. Len(up[c]) /\ y.depth + 1 \in 1 .. Len(up[c])
      BY <1>8, <3>3, <3>4
    <3>6. x.depth + 1 = y.depth + 1
      BY <1>8, <3>3, <3>4, <3>5
    <3>7. x.depth = y.depth
      BY <3>3, <3>6
    <3>8. of[i].id = of[j].id
      BY <3>4, <3>7
    <3>9. i \in DOMAIN of /\ j \in DOMAIN of
      BY <2>1
    <3> QED
      BY <3>8, <3>9, ChildrenAre DEF Once, of
  <2> QED
    BY <1>6, <2>2, <2>3, <2>4, FlatApart
<1> HIDE DEF of, parts, under
<1>12. ASSUME NEW l \in ToSet(under)
       PROVE  /\ l \in L /\ l.depth \in 1 .. Len(up[l.id]) - 1 /\ up[l.id][l.depth + 1] = id
  <2>1. PICK s \in ToSet(of) : l \in ToSet(Part(revealed, walk, s))
    BY <1>6
  <2>2. l \in L
    BY <1>6 DEF ToSet
  <2> QED
    BY <1>7, <2>1, <2>2
<1>13. top \in Seq(L) /\ ToSet(top) = {[id |-> id, depth |-> 0]} /\ Apart(key, top)
  <2>1. [id |-> id, depth |-> 0] \in L
    BY <1>2 DEF L, Lines
  <2>2. DOMAIN top = {1} /\ top[1] = [id |-> id, depth |-> 0]
    OBVIOUS
  <2> QED
    BY <2>1, <2>2 DEF Apart, ToSet
<1> DEFINE first == [id |-> id, depth |-> 0]
<1>14. first.id = id /\ first.depth = 0 /\ key[first] = id /\ ToSet(top) = {first}
  <2>1. first \in L
    BY <1>2 DEF L, Lines
  <2> QED
    BY <1>9, <1>13, <2>1
<1> HIDE DEF first, top
<1>15. \A x \in ToSet(top), y \in ToSet(under) : key[x] # key[y]
  <2> SUFFICES ASSUME NEW y \in ToSet(under), y.id = id PROVE FALSE
    BY <1>9, <1>12, <1>14
  <2>1. y.depth \in 1 .. Len(up[id]) - 1 /\ up[id][y.depth + 1] = id
    BY <1>12
  <2>2. y.depth + 1 \in 1 .. Len(up[id]) /\ 1 \in 1 .. Len(up[id]) /\ y.depth + 1 # 1
    BY <1>2, <1>8, <2>1
  <2> QED
    BY <1>2, <1>8, <2>1, <2>2
<1>16. Apart(key, top \o under) /\ ToSet(top \o under) = ToSet(top) \cup ToSet(under) /\ top \o under \in Seq(L)
  <2>1. top \o under \in Seq(L)
    BY <1>6, <1>13
  <2>2. Apart(key, top \o under)
    BY <1>6, <1>11, <1>13, <1>15, JoinApart
  <2> QED
    BY <1>6, <1>13, <2>1, <2>2, JoinedIs
<1>17. ASSUME NEW l \in ToSet(walk[id]) PROVE l.depth + 1 \in 1 .. Len(up[l.id]) /\ up[l.id][l.depth + 1] = id
  <2>1. CASE l = first
    <3>1. l.id = id /\ l.depth + 1 = 1
      BY <1>14, <2>1
    <3> QED
      BY <1>2, <1>8, <3>1
  <2>2. CASE l \in ToSet(under)
    <3>1. l.depth \in 1 .. Len(up[l.id]) - 1 /\ up[l.id][l.depth + 1] = id /\ l \in L
      BY <1>12, <2>2
    <3>2. Len(up[l.id]) \in Nat
      BY <1>8, <1>9, <3>1
    <3> QED
      BY <3>1, <3>2
  <2> QED
    BY <1>4, <1>14, <1>16, <1>17, <2>1, <2>2
<1>18. Placing(g, up, walk, id)
  BY <1>4, <1>10, <1>16, <1>17 DEF Placing, L
<1> QED
  BY <1>2, <1>18

(* What the outline of a symbol above the focus reveals is the way there.  *)
LEMMA SpineIs ==
    ASSUME NEW g, IsTree(g), NEW up, UpIs(g, up), NEW focus \in SymbolIds(g), NEW k \in 1 .. Len(up[focus])
    PROVE  \A j \in 1 .. k : up[focus][j] \in RevealSpine(g, focus, up[focus][k])
<1> DEFINE way == up[focus]
           n == Len(way)
           module == way[k]
           C == SymbolIds(g)
<1>1. /\ n \in Nat \ {0} /\ way[1] = focus /\ Along(g, up, focus)
      /\ \A i, j \in 1 .. n : way[i] = way[j] => i = j
  BY UpRest DEF UpIs
<1>2. PICK um : /\ \A id \in C : UpTo(g, id, module) = um[id]
                /\ Climbs(g, module, um)
  BY ClimbIs DEF IsTree
<1>3. \A i \in C : um[i] = IF i = module \/ SymbolOf(g, i).parent \notin C THEN <<i>> ELSE <<i>> \o um[SymbolOf(g, i).parent]
  BY <1>2 DEF Climbs
<1>4. \A j \in 1 .. n : way[j] \in C /\ (j < n => SymbolOf(g, way[j]).parent = way[j + 1])
  BY <1>1 DEF Along
<1> HIDE DEF C, n, way, module
<1> DEFINE Shows(j) == /\ um[way[j]] \in Seq(C) /\ Len(um[way[j]]) \in Nat \ {0}
                       /\ um[way[j]][Len(um[way[j]])] = module
                       /\ \A i \in j .. k : way[i] \in ToSet(um[way[j]])
           Gone == {d \in 0 .. k - 1 : ~Shows(k - d)}
<1>5. k \in 1 .. n
  BY DEF n, way
<1>6. Shows(k)
  <2>1. um[way[k]] = <<module>> /\ way[k] = module /\ module \in C
    BY <1>3, <1>4, <1>5 DEF module
  <2>2. <<module>> \in Seq(C) /\ Len(<<module>>) = 1 /\ <<module>>[1] = module /\ ToSet(<<module>>) = {module}
    BY <2>1 DEF ToSet
  <2>3. \A i \in k .. k : i = k
    BY <1>1, <1>5
  <2> QED
    BY <2>1, <2>2, <2>3
<1>7. ASSUME NEW j \in 1 .. k - 1, Shows(j + 1) PROVE Shows(j)
  <2>1. j \in 1 .. n /\ j + 1 \in 1 .. n /\ j < n /\ j # k /\ k \in 1 .. n
    BY <1>1, <1>5
  <2>2. way[j] \in C /\ way[j + 1] \in C /\ SymbolOf(g, way[j]).parent = way[j + 1] /\ way[j] # module
    BY <1>1, <1>4, <2>1 DEF module
  <2> DEFINE rest == um[way[j + 1]]
             c == way[j]
  <2>3. um[c] = <<c>> \o rest
    BY <1>3, <2>2
  <2>4. /\ rest \in Seq(C) /\ Len(rest) \in Nat \ {0} /\ rest[Len(rest)] = module
        /\ \A i \in j + 1 .. k : way[i] \in ToSet(rest)
    BY <1>7
  <2> HIDE DEF rest
  <2>5. <<c>> \in Seq(C) /\ ToSet(<<c>>) = {c}
    BY <2>2 DEF ToSet
  <2>6. /\ um[c] \in Seq(C) /\ Len(um[c]) = Len(rest) + 1 /\ um[c][Len(rest) + 1] = rest[Len(rest)]
    <3> HIDE DEF c, C
    <3>1. /\ <<c>> \o rest \in Seq(C) /\ Len(<<c>> \o rest) = Len(rest) + 1
          /\ (<<c>> \o rest)[Len(rest) + 1] = rest[Len(rest)]
      BY <2>4, <2>5
    <3> QED
      BY <2>3, <3>1
  <2>7. ToSet(um[c]) = {c} \cup ToSet(rest)
    <3> DEFINE one == <<c>>
    <3>1. one \in Seq(C) /\ ToSet(one) = {c} /\ um[c] = one \o rest
      BY <2>3, <2>5
    <3> HIDE DEF one
    <3> QED
      BY <2>4, <3>1, JoinedIs
  <2>8. \A i \in j .. k : i = j \/ i \in j + 1 .. k
    BY <2>1
  <2>9. \A i \in j .. k : way[i] \in ToSet(um[way[j]])
    BY <2>4, <2>7, <2>8
  <2>10. Len(um[c]) \in Nat \ {0} /\ um[c][Len(um[c])] = module
    BY <2>4, <2>6
  <2> QED
    BY <2>6, <2>9, <2>10
<1> HIDE DEF Shows
<1>8. Shows(1)
  <2> SUFFICES ASSUME Gone # {} PROVE FALSE
    <3>1. k - 1 \in 0 .. k - 1 /\ k - (k - 1) = 1
      BY <1>1, <1>5
    <3> QED
      BY <3>1
  <2>1. Gone \in SUBSET Nat
    OBVIOUS
  <2> DEFINE d == Min(Gone)
  <2>2. d \in Gone /\ \A e \in Gone : d <= e
    BY <2>1, MinIsLeast
  <2> HIDE DEF d
  <2>3. d \in 0 .. k - 1 /\ ~Shows(k - d) /\ k \in Nat
    BY <1>1, <1>5, <2>2
  <2>4. d # 0
    BY <1>6, <2>3
  <2>5. d - 1 \in 0 .. k - 1 /\ d - 1 \notin Gone
    BY <2>1, <2>2, <2>3, <2>4
  <2>6. Shows(k - (d - 1))
    BY <2>5
  <2>7. k - (d - 1) = k - d + 1 /\ k - d \in 1 .. k - 1
    BY <2>3, <2>4
  <2> QED
    BY <1>7, <2>3, <2>6, <2>7
<1>9. /\ um[focus] \in Seq(C) /\ Len(um[focus]) \in Nat \ {0} /\ um[focus][Len(um[focus])] = module
      /\ \A i \in 1 .. k : way[i] \in ToSet(um[focus])
  BY <1>1, <1>8 DEF Shows
<1>10. UpTo(g, focus, module) = um[focus]
  BY <1>2 DEF C
<1>11. RevealSpine(g, focus, module) = ToSet(um[focus])
  BY <1>9, <1>10 DEF RevealSpine, Last
<1> QED
  BY <1>9, <1>11 DEF module, way

(* On the way down each symbol has a line for the focus, at its distance.  *)
LEMMA LineDown ==
    ASSUME NEW g, IsTree(g), NEW up, UpIs(g, up), NEW revealed, NEW walk, Walks(g, revealed, walk),
           NEW focus \in SymbolIds(g), NEW k \in 1 .. Len(up[focus]),
           \A j \in 1 .. k : up[focus][j] \in revealed
    PROVE  [id |-> focus, depth |-> k - 1] \in ToSet(walk[up[focus][k]])
<1> DEFINE way == up[focus]
           n == Len(way)
           Has(j) == [id |-> focus, depth |-> j - 1] \in ToSet(walk[way[j]])
           T == {j \in 1 .. k : ~Has(j)}
<1>1. /\ n \in Nat \ {0} /\ way[1] = focus
      /\ \A j \in 1 .. n : way[j] \in SymbolIds(g) /\ (j < n => SymbolOf(g, way[j]).parent = way[j + 1])
  BY UpRest DEF UpIs, Along
<1>2. \A c \in SymbolIds(g) : walk[c] \in Seq(Lines(g))
  BY LinesPlace DEF Placing
<1>3. \A c \in SymbolIds(g) : walk[c] = <<[id |-> c, depth |-> 0]>> \o Under(g, revealed, walk, c)
  BY DEF Walks
<1>4. \A c \in SymbolIds(g) : \A s \in ToSet(Children(g, c)) :
          s \in ToSet(g) /\ s.id \in SymbolIds(g) /\ walk[s.id] \in Seq(Lines(g))
  BY <1>2, ChildIs
<1>5. ASSUME NEW c \in SymbolIds(g)
      PROVE  ToSet(walk[c]) = {[id |-> c, depth |-> 0]}
                                  \cup UNION {ToSet(Part(revealed, walk, s)) : s \in ToSet(Children(g, c))}
  <2> DEFINE top == <<[id |-> c, depth |-> 0]>>
             under == Under(g, revealed, walk, c)
  <2>1. /\ under \in Seq(Lines(g))
        /\ ToSet(under) = UNION {ToSet(Part(revealed, walk, s)) : s \in ToSet(Children(g, c))}
    BY <1>4, UnderIs
  <2>2. [id |-> c, depth |-> 0] \in Lines(g)
    BY DEF Lines
  <2>3. top \in Seq(Lines(g)) /\ ToSet(top) = {[id |-> c, depth |-> 0]}
    BY <2>2 DEF ToSet
  <2> HIDE DEF top, under
  <2>4. walk[c] = top \o under
    BY <1>3 DEF top, under
  <2> QED
    BY <2>1, <2>3, <2>4, JoinedIs
<1> HIDE DEF way, n
<1>6. k \in 1 .. n /\ \A j \in 1 .. k : way[j] \in revealed
  BY DEF way, n
<1>7. Has(1)
  <2>1. way[1] = focus /\ 1 - 1 = 0
    BY <1>1
  <2>2. [id |-> focus, depth |-> 0] \in ToSet(walk[focus])
    BY <1>5
  <2> QED
    BY <2>1, <2>2
<1>8. ASSUME NEW j \in 1 .. k - 1, Has(j) PROVE Has(j + 1)
  <2>1. j \in 1 .. n /\ j + 1 \in 1 .. n /\ j < n /\ j \in 1 .. k /\ j + 1 - 1 = j /\ j - 1 + 1 = j /\ j - 1 \in Nat
    BY <1>1, <1>6
  <2> DEFINE c == way[j]
             s == SymbolOf(g, c)
             lines == walk[c]
  <2>2. c \in SymbolIds(g) /\ way[j + 1] \in SymbolIds(g) /\ s.parent = way[j + 1] /\ c \in revealed
    BY <1>1, <1>6, <2>1
  <2>3. s.id = c /\ s \in ToSet(g)
    BY <2>2, SymbolIs DEF ToSet
  <2>4. s \in ToSet(Children(g, way[j + 1]))
    BY <2>2, <2>3, ChildrenAre
  <2>5. Part(revealed, walk, s) = Deeper(lines)
    BY <2>2, <2>3 DEF Part
  <2>6. lines \in Seq(Lines(g))
    BY <1>2, <2>2
  <2>7. PICK i \in DOMAIN lines : lines[i] = [id |-> focus, depth |-> j - 1]
    BY <1>8 DEF ToSet
  <2> HIDE DEF lines, s, c
  <2>8. /\ i \in DOMAIN Deeper(lines) /\ Deeper(lines)[i] \in Lines(g)
        /\ Deeper(lines)[i].id = focus /\ Deeper(lines)[i].depth = j
    <3>1. /\ Deeper(lines) \in Seq(Lines(g)) /\ DOMAIN Deeper(lines) = DOMAIN lines
          /\ Deeper(lines)[i].id = lines[i].id /\ Deeper(lines)[i].depth = lines[i].depth + 1
      BY <2>6, <2>7, DeeperIs
    <3>2. Deeper(lines)[i] \in Lines(g)
      BY <2>7, <3>1
    <3>3. lines[i].id = focus /\ lines[i].depth = j - 1
      BY <2>7
    <3> QED
      BY <2>1, <2>7, <3>1, <3>2, <3>3
  <2>9. Deeper(lines)[i] = [id |-> focus, depth |-> j]
    BY <2>8 DEF Lines
  <2>10. [id |-> focus, depth |-> j] \in ToSet(Part(revealed, walk, s))
    BY <2>5, <2>8, <2>9 DEF ToSet
  <2>11. [id |-> focus, depth |-> j] \in ToSet(walk[way[j + 1]])
    BY <1>5, <2>2, <2>4, <2>10
  <2> QED
    BY <2>1, <2>11
<1> HIDE DEF Has
<1>9. Has(k)
  <2> SUFFICES ASSUME T # {} PROVE FALSE
    BY <1>1, <1>6
  <2>1. T \in SUBSET Nat
    OBVIOUS
  <2> DEFINE j == Min(T)
  <2>2. j \in T /\ \A i \in T : j <= i
    BY <2>1, MinIsLeast
  <2> HIDE DEF j
  <2>3. j \in 1 .. k /\ ~Has(j) /\ k \in Nat
    BY <1>1, <1>6, <2>2
  <2>4. j # 1
    BY <1>7, <2>3
  <2>5. j - 1 \in 1 .. k - 1 /\ j - 1 \in 1 .. k /\ j - 1 + 1 = j /\ j - 1 \notin T
    BY <2>1, <2>2, <2>3, <2>4
  <2>6. Has(j - 1)
    BY <2>5
  <2> QED
    BY <1>8, <2>3, <2>5, <2>6
<1> QED
  BY <1>9 DEF Has, way

LEMMA TreeIs ==
    ASSUME NEW fs, NEW rank, Listed(fs), UniqueIn(fs), Hanging(fs, rank)
    PROVE  IsTree(Assemble(fs))
<1> DEFINE g == Assemble(fs)
           S == {SymbolIn(fs, at) : at \in Slots(fs)}
<1>1. g \in Seq(S) /\ Once(g) /\ SymbolIds(g) = {IdAt(fs, at) : at \in Slots(fs)}
  BY TreeHas
<1>2. Founded(SymbolIds(g), ParentIn(g))
  BY AboveFounded
<1> HIDE DEF g
<1>3. None \notin SymbolIds(g)
  BY <1>1 DEF Hanging, HangsFrom, IdAt, SymbolIn
<1>4. g \in Seq(ToSet(g))
  <2> HIDE DEF S
  <2>1. Len(g) \in Nat /\ DOMAIN g = 1 .. Len(g) /\ g = [k \in 1 .. Len(g) |-> g[k]]
    BY <1>1
  <2>2. \A k \in 1 .. Len(g) : g[k] \in ToSet(g)
    BY <2>1 DEF ToSet
  <2>3. g \in [1 .. Len(g) -> ToSet(g)]
    BY <2>1, <2>2
  <2> QED
    BY <2>1, <2>3
<1> QED
  BY <1>1, <1>2, <1>3, <1>4 DEF IsTree, g

LEMMA OutlineShows ==
    ASSUME NEW g, IsTree(g), NEW focus \in SymbolIds(g), NEW k \in DOMAIN UpTo(g, focus, None)
    PROVE  LET lines == Outline(g, UpTo(g, focus, None)[k], focus)
           IN  /\ [id |-> focus, depth |-> k - 1] \in ToSet(lines)
               /\ IsInjective([j \in DOMAIN lines |-> lines[j].id])
<1>1. PICK up : /\ \A id \in SymbolIds(g) : UpTo(g, id, None) = up[id]
                /\ Climbs(g, None, up)
  BY ClimbIs DEF IsTree
<1>2. UpIs(g, up)
  BY <1>1, ClimbsUp
<1>3. k \in 1 .. Len(up[focus]) /\ UpTo(g, focus, None) = up[focus]
  BY <1>1, <1>2 DEF UpIs
<1> DEFINE module == up[focus][k]
           revealed == RevealSpine(g, focus, module)
<1>4. \A j \in 1 .. k : up[focus][j] \in revealed
  BY <1>2, <1>3, SpineIs
<1>5. PICK walk : /\ Outline(g, module, focus) = walk[module]
                  /\ Walks(g, revealed, walk)
  BY <1>2, WalkIs
<1> HIDE DEF revealed
<1>6. [id |-> focus, depth |-> k - 1] \in ToSet(walk[module])
  BY <1>2, <1>3, <1>4, <1>5, LineDown
<1>7. module \in SymbolIds(g)
  BY <1>2, <1>3, UpRest DEF Along
<1>8. Once(walk[module])
  BY <1>2, <1>5, <1>7, LinesPlace DEF Placing
<1>9. IsInjective([j \in DOMAIN walk[module] |-> walk[module][j].id])
  <2> DEFINE lines == walk[module]
  <2>1. \A i, j \in DOMAIN lines : lines[i].id = lines[j].id => i = j
    BY <1>8 DEF Once
  <2> HIDE DEF lines
  <2>2. IsInjective([j \in DOMAIN lines |-> lines[j].id])
    BY <2>1 DEF IsInjective
  <2> QED
    BY <2>2 DEF lines
<1> QED
  BY <1>3, <1>5, <1>6, <1>9

(* lookup.py:106-109, for any projects: whatever ids collide and whatever  *)
(* packages are missing, the outline of any symbol above the focus has one *)
(* line for the focus, at its distance, and no symbol twice.               *)
THEOREM FocusStaysShown ==
    Spec => []FocusShown
<1>1. Init => FinalizeInv /\ SlotsInv /\ WholeInv
  <2>1. Init => WholeInv
    BY DEF Init, WholeInv
  <2> QED
    BY <2>1, ClaimsInit, SlotsInit DEF FinalizeInv
<1>2. FinalizeInv /\ SlotsInv /\ WholeInv /\ [Next]_vars => WholeInv'
  BY WholeStep DEF FinalizeInv
<1>3. FinalizeInv /\ WholeInv /\ UniqueIds => FocusShown
  <2> SUFFICES ASSUME FinalizeInv, WholeInv, UniqueIds, Done PROVE FocusShown
    BY DEF FocusShown
  <2>1. PICK rank : Listed(out) /\ UniqueIn(out) /\ Hanging(out, rank)
    BY DoneHangs
  <2>2. IsTree(Tree)
    BY <2>1, TreeIs DEF Tree
  <2>3. ASSUME NEW focus \in SymbolIds(Tree), NEW k \in DOMAIN UpTo(Tree, focus, None)
        PROVE  LET lines == Outline(Tree, UpTo(Tree, focus, None)[k], focus)
               IN  /\ [id |-> focus, depth |-> k - 1] \in ToSet(lines)
                   /\ IsInjective([j \in DOMAIN lines |-> lines[j].id])
    BY <2>2, OutlineShows
  <2> QED
    BY <2>3, Zenon DEF FocusShown
<1> QED
  BY <1>1, <1>2, <1>3, FinalizeStep, IdsAreUnique, PTL DEF Spec

-----------------------------------------------------------------------------
(* Extraction.  What is around a line is a line before it, or the module.  *)
LEMMA InnermostIs ==
    ASSUME NEW p, Program(p), NEW i \in DOMAIN p, NEW kinds
    PROVE  /\ Innermost(p, i, kinds) \in 0 .. i - 1
           /\ Innermost(p, i, kinds) # 0 =>
                 /\ Innermost(p, i, kinds) \in Above(p, i) /\ Innermost(p, i, kinds) \in DOMAIN p
                 /\ p[Innermost(p, i, kinds)].kind \in kinds
<1> DEFINE I == {j \in Above(p, i) : p[j].kind \in kinds}
           J == {0} \cup I
<1>1. Len(p) \in Nat /\ DOMAIN p = 1 .. Len(p) /\ i \in 1 .. Len(p) /\ Above(p, i) \subseteq 1 .. i - 1
  BY DEF Program, LineOf, IsList, Above
<1>2. I \in SUBSET (1 .. i - 1) /\ i - 1 \in Nat
  BY <1>1
<1>3. \E x \in J : \A y \in J : x >= y
  <2>1. CASE I = {}
    BY <2>1
  <2>2. CASE I # {}
    <3> HIDE DEF I
    <3>1. Max(I) \in I /\ \A k \in I : k <= Max(I)
      BY <1>2, <2>2, MaxIsGreatest
    <3> DEFINE top == Max(I)
    <3>2. top \in I /\ top \in 1 .. i - 1 /\ \A k \in I : k \in 1 .. i - 1 /\ k <= top
      BY <1>2, <3>1
    <3> HIDE DEF top
    <3>3. \A k \in J : top >= k
      BY <1>2, <3>2
    <3> QED
      BY <3>2, <3>3
  <2> QED
    BY <2>1, <2>2
<1>4. Max(J) \in J
  <2> HIDE DEF J
  <2> QED
    BY <1>3 DEF Max
<1>5. Innermost(p, i, kinds) = Max(J)
  BY Zenon DEF Innermost
<1> DEFINE m == Max(J)
<1>6. m = 0 \/ m \in I
  BY <1>4
<1> HIDE DEF m
<1>7. m \in 0 .. i - 1 /\ m # 0 => m \in DOMAIN p
  BY <1>1, <1>6
<1>8. m \in 0 .. i - 1
  BY <1>1, <1>2, <1>6
<1> QED
  BY <1>5, <1>6, <1>7, <1>8 DEF m

(* The lines of a set, in order.                                           *)
LEMMA InOrderIs ==
    ASSUME NEW p, IsList(p), NEW lines
    PROVE  /\ InOrder(p, lines) \in Seq(DOMAIN p \cap lines)
           /\ ToSet(InOrder(p, lines)) = DOMAIN p \cap lines
<1> DEFINE s == [i \in DOMAIN p |-> IF i \in lines THEN <<i>> ELSE <<>>]
           S == DOMAIN p \cap lines
<1>1. s \in Seq(Seq(S))
  <2>1. Len(p) \in Nat /\ DOMAIN p = 1 .. Len(p)
    BY DEF IsList
  <2>2. ASSUME NEW i \in DOMAIN p PROVE s[i] \in Seq(S)
    <3>1. CASE i \in lines
      <4>1. i \in S /\ s[i] = <<i>>
        BY <3>1
      <4> HIDE DEF S, s
      <4> QED
        BY <4>1
    <3>2. CASE i \notin lines
      <4>1. s[i] = <<>>
        BY <3>2
      <4> HIDE DEF S, s
      <4> QED
        BY <4>1
    <3> QED
      BY <3>1, <3>2
  <2>3. s = [i \in 1 .. Len(p) |-> s[i]]
    BY <2>1
  <2> HIDE DEF s, S
  <2> QED
    BY <2>1, <2>2, <2>3
<1>2. \A i \in DOMAIN s : ToSet(s[i]) = {i} \cap lines
  BY DEF ToSet
<1>3. DOMAIN s = DOMAIN p
  OBVIOUS
<1>4. InOrder(p, lines) = FlattenSeq(s)
  BY DEF InOrder
<1> HIDE DEF s, S
<1>5. FlattenSeq(s) \in Seq(S) /\ ToSet(FlattenSeq(s)) = UNION {ToSet(s[i]) : i \in DOMAIN s}
  BY <1>1, FlattenSeqIs
<1>6. UNION {ToSet(s[i]) : i \in DOMAIN s} = S
  BY <1>2, <1>3 DEF S
<1> QED
  BY <1>4, <1>5, <1>6 DEF S

-----------------------------------------------------------------------------
(* The symbols of a file, one by one.                                      *)
SymbolFields == {"id", "name", "kind", "parent", "at", "type", "inferred", "static"}

Reads(s, i, id, name, parent) ==
    /\ DOMAIN s = SymbolFields /\ s = [field \in SymbolFields |-> s[field]]
    /\ s.at = i /\ s.id = id /\ s.name = <<name>> /\ s.parent = parent /\ s.kind # "module"

(* The fields of the symbols that the passes over the lines make.          *)
LEMMA DefinitionReads ==
    ASSUME NEW p, NEW i, NEW id, NEW parent
    PROVE  Reads(DefinitionSymbol(p, i, id, parent), i, id, p[i].name, parent)
<1>1. FunctionKind(p, i) # "module"
  BY DEF FunctionKind
<1> DEFINE kind == FunctionKind(p, i)
           inferred == p[i].returns = None /\ InferredReturn(p, i) # None
           type == ReturnType(p, i)
           static == IsStatic(p, i)
           symbol == SymbolAt(i, id, p[i].name, "class", parent)
<1>2. Reads(symbol, i, id, p[i].name, parent)
  BY DEF Reads, SymbolFields, SymbolAt
<1>3. DefinitionSymbol(p, i, id, parent) =
          IF p[i].kind = "class" THEN symbol
          ELSE [symbol EXCEPT !.kind = kind, !.type = type, !.inferred = inferred, !.static = static]
  BY Zenon DEF DefinitionSymbol
<1> HIDE DEF kind, inferred, type, static
<1>4. Reads([symbol EXCEPT !.kind = kind, !.type = type, !.inferred = inferred, !.static = static],
            i, id, p[i].name, parent)
  BY <1>1 DEF Reads, SymbolFields, SymbolAt, kind
<1> QED
  BY <1>2, <1>3, <1>4

LEMMA VariableReads ==
    ASSUME NEW p, NEW i, NEW parent, NEW name
    PROVE  /\ Reads(AssignedVariable(p, i, parent, name), i, parent \o <<name>>, name, parent)
           /\ \E j : Reads(InstanceAttribute(p, i, parent, name), j, parent \o <<name>>, name, parent)
<1> DEFINE one == IF p[i].kind = "annassign" THEN AnnotationName(p[i].annotation) ELSE None
           declared == DeclaredAttribute(p, i, name)
           inferred == InferredAttribute(p, i, name)
           j == Min(AssignmentsTo(p, i, name))
           other == IF declared # None THEN declared ELSE inferred
           flag == declared = None /\ inferred # None
<1>1. AssignedVariable(p, i, parent, name) =
          [SymbolAt(i, parent \o <<name>>, name, "variable", parent) EXCEPT !.type = one]
  BY Zenon DEF AssignedVariable
<1>2. InstanceAttribute(p, i, parent, name) =
          [SymbolAt(j, parent \o <<name>>, name, "variable", parent) EXCEPT !.type = other, !.inferred = flag]
  BY Zenon DEF InstanceAttribute
<1> HIDE DEF one, j, other, flag
<1>3. Reads([SymbolAt(i, parent \o <<name>>, name, "variable", parent) EXCEPT !.type = one],
            i, parent \o <<name>>, name, parent)
  BY DEF Reads, SymbolFields, SymbolAt
<1>4. Reads([SymbolAt(j, parent \o <<name>>, name, "variable", parent) EXCEPT !.type = other, !.inferred = flag],
            j, parent \o <<name>>, name, parent)
  BY DEF Reads, SymbolFields, SymbolAt
<1> QED
  BY <1>1, <1>2, <1>3, <1>4

(* All that may be a symbol of a file.                                     *)
MadeIn(p, module) ==
    {ModuleSymbol(module)}
    \cup {DefinitionSymbol(p, i, id, parent) : i \in DOMAIN p, id \in Names, parent \in Names}
    \cup {AssignedVariable(p, i, parent, name) : i \in DOMAIN p, parent \in Names, name \in STRING}
    \cup {InstanceAttribute(p, c, parent, name) : c \in DOMAIN p, parent \in Names, name \in STRING}

-----------------------------------------------------------------------------
(* _unique and _claim alike: the first of the ids a name forms that is not *)
(* taken.                                                                  *)
FirstFree(taken, base, id) ==
    /\ id \notin taken
    /\ \E n \in 1 .. Len(Marks) + 1 :
          /\ id = Candidates(base)[n]
          /\ \A m \in 1 .. n - 1 : Candidates(base)[m] \in taken

(* There is one as long as the suffixes do not run out.                    *)
LEMMA UniqueIs ==
    ASSUME NEW pass, NEW base \in Names,
           \E n \in 1 .. Len(Marks) + 1 : Candidates(base)[n] \notin ToSet(Ids(pass))
    PROVE  FirstFree(ToSet(Ids(pass)), base, Unique(pass, base)) /\ Unique(pass, base) \in Names
<1> DEFINE taken == ToSet(Ids(pass))
           I == {n \in 1 .. Len(Candidates(base)) : Candidates(base)[n] \notin taken}
<1>1. Len(Marks) \in Nat /\ Len(Candidates(base)) = Len(Marks) + 1
  BY FinalizeAssumption, CandidatesAre
<1>2. I \in SUBSET Nat /\ I # {}
  BY <1>1
<1>3. Taken(pass) = taken
  BY DEF Taken, Ids, ToSet
<1>4. Unique(pass, base) = Candidates(base)[Min(I)]
  BY <1>2, <1>3 DEF Unique, SelectInSeq, Candidates
<1>5. Min(I) \in I /\ \A n \in I : Min(I) <= n
  BY <1>2, MinIsLeast
<1> DEFINE n == Min(I)
<1>6. n \in 1 .. Len(Marks) + 1 /\ Candidates(base)[n] \notin taken
  BY <1>1, <1>5
<1>7. ASSUME NEW m \in 1 .. n - 1 PROVE Candidates(base)[m] \in taken
  <2>1. m \in 1 .. Len(Candidates(base)) /\ ~(n <= m)
    BY <1>1, <1>6
  <2> QED
    BY <1>5, <2>1
<1>8. Unique(pass, base) = Candidates(base)[n]
  BY <1>4
<1> HIDE DEF n, I
<1>9. Unique(pass, base) \in Names
  BY <1>1, <1>6, <1>8, CandidatesAre
<1> QED
  BY <1>6, <1>7, <1>8, <1>9 DEF FirstFree

-----------------------------------------------------------------------------
(* The pass over the lines.  Each symbol but the module's has been claimed *)
(* against those before it, under one of them.                             *)
IdsIn(syms, k) == {syms[j].id : j \in 1 .. k}

Claimed(syms, k) ==
    LET s == syms[k]
    IN  /\ s.id \in Names /\ s.parent \in IdsIn(syms, k - 1)
        /\ \E name \in Written : Reads(s, s.at, s.id, name, s.parent)
        /\ FirstFree(IdsIn(syms, k - 1), s.parent \o s.name, s.id)

Sound(syms) == \A k \in DOMAIN syms \ {1} : Claimed(syms, k)

(* A symbol added under one of those before, with a free id, is claimed.   *)
LEMMA AppendSound ==
    ASSUME NEW M, NEW syms \in Seq(M), syms # <<>>, Sound(syms), NEW s \in M,
           NEW id \in Names, NEW parent \in IdsIn(syms, Len(syms)), NEW name \in Written, NEW i,
           Reads(s, i, id, name, parent),
           FirstFree(IdsIn(syms, Len(syms)), parent \o <<name>>, id)
    PROVE  Sound(Append(syms, s))
<1> DEFINE new == Append(syms, s)
           n == Len(syms)
<1>1. /\ n \in Nat \ {0} /\ DOMAIN syms = 1 .. n /\ DOMAIN new = 1 .. n + 1
      /\ \A k \in 1 .. n : new[k] = syms[k]
      /\ new[n + 1] = s
  OBVIOUS
<1> HIDE DEF new, n
<1>2. ASSUME NEW k \in 1 .. n + 1 PROVE IdsIn(new, k - 1) = IdsIn(syms, k - 1)
  <2>1. \A j \in 1 .. k - 1 : j \in 1 .. n
    BY <1>1
  <2> QED
    BY <1>1, <2>1 DEF IdsIn
<1>3. ASSUME NEW k \in DOMAIN syms \ {1} PROVE Claimed(new, k)
  <2>1. k \in 1 .. n /\ k \in 1 .. n + 1
    BY <1>1
  <2>2. new[k] = syms[k] /\ IdsIn(new, k - 1) = IdsIn(syms, k - 1)
    BY <1>1, <1>2, <2>1
  <2>3. Claimed(syms, k)
    BY DEF Sound
  <2> QED
    BY <2>2, <2>3, Zenon DEF Claimed
<1>4. Claimed(new, n + 1)
  <2>1. (n + 1) - 1 = n /\ n + 1 \in 1 .. n + 1
    BY <1>1
  <2>2. IdsIn(new, (n + 1) - 1) = IdsIn(syms, n)
    BY <1>2, <2>1
  <2>3. s.id = id /\ s.parent = parent /\ s.name = <<name>> /\ s.at = i
    BY DEF Reads
  <2>4. Reads(s, s.at, s.id, name, s.parent)
    BY <2>3
  <2> QED
    BY <1>1, <2>2, <2>3, <2>4, Zenon DEF Claimed, n
<1> QED
  BY <1>1, <1>3, <1>4 DEF Sound, new

(* The definitions that the first i lines make symbols of.                 *)
DefinedTo(p, i) == {0} \cup {d \in 1 .. i : p[d].kind \in Definitions /\ Visited(p, d)}

Keeps(p, module, D, syms, ids) ==
    /\ syms \in Seq(MadeIn(p, module)) /\ ids \in [D -> Names]
    /\ syms # <<>> /\ syms[1] = ModuleSymbol(module) /\ ids[0] = module
    /\ Sound(syms)
    /\ \A d \in D : \E k \in DOMAIN syms : syms[k].id = ids[d] /\ syms[k].at = d
    /\ \A k \in DOMAIN syms : \A base \in Names : \A n \in DOMAIN Marks :
          syms[k].id = base \o <<Marks[n]>> => \E d \in D \ {0} : ids[d] = syms[k].id

Passed(p, module, i, h) ==
    /\ h = [symbols |-> h.symbols, ids |-> h.ids]
    /\ Keeps(p, module, DefinedTo(p, i), h.symbols, h.ids)

LEMMA ExtendedIs ==
    ASSUME NEW q \in Names, NEW name \in STRING
    PROVE  /\ q \o <<name>> \in Names /\ Len(q \o <<name>>) = Len(q) + 1
           /\ (q \o <<name>>)[Len(q) + 1] = name
BY OneMore, Zenon DEF Names

(* No written name ends in a suffix.                                       *)
LEMMA WrittenLast ==
    ASSUME NEW q \in Names, NEW name \in Written, NEW base \in Names, NEW n \in DOMAIN Marks
    PROVE  q \o <<name>> # base \o <<Marks[n]>>
<1>1. Marks \in Seq(STRING) /\ DOMAIN Marks = 1 .. Len(Marks)
  BY FinalizeAssumption
<1>2. Marks[n] \in STRING /\ Marks[n] \in ToSet(Marks)
  BY <1>1 DEF ToSet
<1>3. name \in STRING /\ name # Marks[n]
  BY <1>2 DEF Written
<1>4. /\ Len(q \o <<name>>) = Len(q) + 1 /\ (q \o <<name>>)[Len(q) + 1] = name
      /\ Len(base \o <<Marks[n]>>) = Len(base) + 1 /\ (base \o <<Marks[n]>>)[Len(base) + 1] = Marks[n]
  BY <1>2, <1>3, ExtendedIs
<1>5. Len(q) \in Nat /\ Len(base) \in Nat
  BY DEF Names
<1>6. ASSUME q \o <<name>> = base \o <<Marks[n]>> PROVE FALSE
  <2>1. Len(q) + 1 = Len(base) + 1
    BY <1>4, <1>6
  <2>2. Len(q) + 1 = Len(base) + 1 => name = Marks[n]
    BY <1>4, <1>6, Zenon
  <2> QED
    BY <1>3, <2>1, <2>2
<1> QED
  BY <1>6

-----------------------------------------------------------------------------
(* The pass: before the first line, and over each.                         *)
LEMMA PassedStart ==
    ASSUME NEW p, NEW module \in Seq(Written) \ {<<>>}
    PROVE  Passed(p, module, 0, [symbols |-> <<ModuleSymbol(module)>>, ids |-> [d \in {0} |-> module]])
<1> DEFINE s == ModuleSymbol(module)
           syms == <<s>>
           ids == [d \in {0} |-> module]
           h == [symbols |-> syms, ids |-> ids]
<1>1. module \in Names /\ Len(module) \in Nat /\ Len(module) # 0
  BY DEF Names, Written
<1>2. s \in MadeIn(p, module)
  BY DEF MadeIn
<1>3. s.id = module /\ s.at = 0
  BY DEF ModuleSymbol, SymbolAt
<1>4. DefinedTo(p, 0) = {0}
  BY DEF DefinedTo
<1> HIDE DEF s
<1>5. syms \in Seq(MadeIn(p, module)) /\ syms # <<>> /\ DOMAIN syms = {1} /\ syms[1] = s
  BY <1>2
<1>6. ids \in [{0} -> Names] /\ ids[0] = module
  BY <1>1
<1> HIDE DEF syms, ids
<1>7. h.symbols = syms /\ h.ids = ids /\ h = [symbols |-> h.symbols, ids |-> h.ids]
  OBVIOUS
<1>8. \A base \in Names : \A n \in DOMAIN Marks : module # base \o <<Marks[n]>>
  <2> SUFFICES ASSUME NEW base \in Names, NEW n \in DOMAIN Marks, module = base \o <<Marks[n]>>
               PROVE  FALSE
    OBVIOUS
  <2>1. Marks \in Seq(STRING) /\ DOMAIN Marks = 1 .. Len(Marks)
    BY FinalizeAssumption
  <2>2. Marks[n] \in STRING /\ Marks[n] \notin Written
    BY <2>1 DEF Written, ToSet
  <2>3. module[Len(base) + 1] = Marks[n] /\ Len(module) = Len(base) + 1 /\ Len(base) \in Nat
    BY <2>2, ExtendedIs DEF Names
  <2>4. module[Len(base) + 1] \in Written
    BY <2>3
  <2> QED
    BY <2>2, <2>3, <2>4
<1>9. Sound(syms)
  BY <1>5 DEF Sound
<1> HIDE DEF h
<1>10. Keeps(p, module, DefinedTo(p, 0), syms, ids)
  BY <1>3, <1>4, <1>5, <1>6, <1>8, <1>9 DEF Keeps, s
<1>11. Passed(p, module, 0, h)
  BY <1>7, <1>10 DEF Passed
<1> QED
  BY <1>11 DEF h, syms, ids, s

(* A suffix of an id is taken by a definition, and there are suffixes for  *)
(* all of them: the definition of the next line finds one.                 *)
LEMMA MarkIsFree ==
    ASSUME NEW p, Program(p), NEW module, NEW i \in DOMAIN p, p[i].kind \in Definitions,
           NEW h, Passed(p, module, i - 1, h), NEW base \in Names
    PROVE  \E n \in 1 .. Len(Marks) + 1 : Candidates(base)[n] \notin ToSet(Ids(h))
<1> DEFINE D == {d \in DOMAIN p : p[d].kind \in Definitions}
           E == D \ {i}
           at == [n \in DOMAIN Marks |-> CHOOSE d \in DefinedTo(p, i - 1) \ {0} : h.ids[d] = base \o <<Marks[n]>>]
<1>1. /\ Len(Marks) \in Nat /\ DOMAIN Marks = 1 .. Len(Marks)
      /\ Len(p) \in Nat /\ DOMAIN p = 1 .. Len(p) /\ i \in 1 .. Len(p)
  BY FinalizeAssumption DEF Program, IsList
<1>2. IsFiniteSet(D) /\ Cardinality(D) \in Nat /\ Cardinality(D) <= Len(Marks) /\ i \in D
  <2>1. IsFiniteSet(1 .. Len(p))
    BY <1>1, FS_Interval
  <2>2. D \subseteq 1 .. Len(p)
    BY <1>1
  <2>3. IsFiniteSet(D)
    BY <2>1, <2>2, FS_Subset
  <2> QED
    BY <2>3, FS_CardinalityType DEF Program
<1>3. IsFiniteSet(E) /\ Cardinality(E) = Cardinality(D) - 1
  BY <1>2, FS_RemoveElement
<1>4. SUFFICES ASSUME \A n \in 1 .. Len(Marks) + 1 : Candidates(base)[n] \in ToSet(Ids(h)) PROVE FALSE
  OBVIOUS
<1>5. ASSUME NEW n \in DOMAIN Marks PROVE at[n] \in E /\ h.ids[at[n]] = base \o <<Marks[n]>>
  <2>1. n + 1 \in 1 .. Len(Marks) + 1
    BY <1>1
  <2>2. base \o <<Marks[n]>> \in ToSet(Ids(h))
    BY <1>4, <2>1, CandidatesAre
  <2>3. PICK k \in DOMAIN h.symbols : h.symbols[k].id = base \o <<Marks[n]>>
    BY <2>2 DEF ToSet, Ids
  <2>4. \E d \in DefinedTo(p, i - 1) \ {0} : h.ids[d] = base \o <<Marks[n]>>
    <3>1. \E d \in DefinedTo(p, i - 1) \ {0} : h.ids[d] = h.symbols[k].id
      BY <2>3, Zenon DEF Passed, Keeps
    <3> QED
      BY <2>3, <3>1, Zenon
  <2>5. at[n] \in DefinedTo(p, i - 1) \ {0} /\ h.ids[at[n]] = base \o <<Marks[n]>>
    BY <2>4
  <2> HIDE DEF at
  <2>6. \A d \in 1 .. i - 1 : d \in 1 .. Len(p) /\ d # i
    BY <1>1
  <2>7. DefinedTo(p, i - 1) \ {0} \subseteq E
    BY <1>1, <2>6 DEF DefinedTo
  <2> QED
    BY <2>5, <2>7
<1>6. at \in Injection(1 .. Len(Marks), E)
  <2>1. DOMAIN at = DOMAIN Marks /\ at \in [DOMAIN Marks -> {at[n] : n \in DOMAIN Marks}]
    <3> DEFINE A == {at[n] : n \in DOMAIN Marks}
    <3>1. \A n \in DOMAIN Marks : at[n] \in A
      BY Zenon
    <3> HIDE DEF A
    <3>2. at \in [DOMAIN Marks -> A]
      BY <3>1, Zenon
    <3> QED
      BY <3>2, Zenon DEF A
  <2> HIDE DEF at
  <2>2. ASSUME NEW m \in 1 .. Len(Marks), NEW n \in 1 .. Len(Marks), at[m] = at[n] PROVE m = n
    <3>1. base \o <<Marks[m]>> = base \o <<Marks[n]>>
      BY <1>1, <1>5, <2>2
    <3>2. m + 1 \in 1 .. Len(Marks) + 1 /\ n + 1 \in 1 .. Len(Marks) + 1
      BY <1>1
    <3>3. /\ Candidates(base)[m + 1] = base \o <<Marks[m]>>
          /\ Candidates(base)[n + 1] = base \o <<Marks[n]>>
      BY <1>1, CandidatesAre, Zenon
    <3>4. m + 1 = n + 1
      BY <3>1, <3>2, <3>3, CandidatesDiffer
    <3> QED
      BY <1>1, <3>4
  <2>3. at \in [1 .. Len(Marks) -> E]
    BY <1>1, <1>5, <2>1
  <2> QED
    BY <2>2, <2>3 DEF Injection, IsInjective
<1>7. Cardinality(1 .. Len(Marks)) = Len(Marks)
  <2> DEFINE m == Len(Marks)
  <2>1. m \in Nat /\ m \in Int /\ 1 \in Int
    BY <1>1
  <2> HIDE DEF m
  <2>2. Cardinality(1 .. m) = IF 1 > m THEN 0 ELSE m - 1 + 1
    BY <2>1, FS_Interval
  <2>3. Cardinality(1 .. m) = m
    BY <2>1, <2>2
  <2> QED
    BY <2>3 DEF m
<1>8. Cardinality(1 .. Len(Marks)) <= Cardinality(E)
  BY <1>3, <1>6, FS_Injection
<1> QED
  BY <1>1, <1>2, <1>3, <1>7, <1>8

(* The definition around a line that is visited is a symbol.               *)
LEMMA EnclosingDefined ==
    ASSUME NEW p, Program(p), NEW i \in DOMAIN p, Visited(p, i)
    PROVE  EnclosingDefinition(p, i) \in DefinedTo(p, i - 1)
<1> DEFINE d == EnclosingDefinition(p, i)
<1>1. d \in 0 .. i - 1 /\ (d # 0 => d \in Above(p, i) /\ d \in DOMAIN p /\ p[d].kind \in Definitions)
  BY InnermostIs DEF EnclosingDefinition
<1>2. LineOf(p, i) /\ i \in Nat /\ Len(p) \in Nat /\ DOMAIN p = 1 .. Len(p)
  BY DEF Program, IsList
<1>3. d # 0 => Above(p, d) \subseteq Above(p, i)
  BY <1>1, <1>2 DEF LineOf, Above
<1> HIDE DEF d
<1>4. d # 0 => Visited(p, d)
  BY <1>3 DEF Visited
<1>5. d # 0 => d \in 1 .. i - 1
  BY <1>1, <1>2
<1> QED
  BY <1>1, <1>4, <1>5 DEF DefinedTo, d

LEMMA PassedIds ==
    ASSUME NEW p, NEW module, NEW i, NEW h, Passed(p, module, i, h)
    PROVE  /\ h.symbols \in Seq(MadeIn(p, module)) /\ Len(h.symbols) \in Nat \ {0}
           /\ DOMAIN h.symbols = 1 .. Len(h.symbols)
           /\ ToSet(Ids(h)) = IdsIn(h.symbols, Len(h.symbols))
           /\ \A d \in DefinedTo(p, i) : h.ids[d] \in Names /\ h.ids[d] \in IdsIn(h.symbols, Len(h.symbols))
<1>1. h.symbols \in Seq(MadeIn(p, module)) /\ h.symbols # <<>> /\ h.ids \in [DefinedTo(p, i) -> Names]
  BY DEF Passed, Keeps
<1>2. Len(h.symbols) \in Nat \ {0} /\ DOMAIN h.symbols = 1 .. Len(h.symbols)
  BY <1>1
<1>3. ToSet(Ids(h)) = IdsIn(h.symbols, Len(h.symbols))
  BY <1>2 DEF ToSet, Ids, IdsIn
<1>4. ASSUME NEW d \in DefinedTo(p, i) PROVE h.ids[d] \in IdsIn(h.symbols, Len(h.symbols))
  <2>1. PICK k \in DOMAIN h.symbols : h.symbols[k].id = h.ids[d]
    BY DEF Passed, Keeps
  <2> QED
    BY <1>2, <2>1 DEF IdsIn
<1> QED
  BY <1>1, <1>2, <1>3, <1>4

(* A symbol added that is claimed keeps the rest.                          *)
LEMMA AppendPassed ==
    ASSUME NEW p, NEW module, NEW i, NEW j, NEW h, Passed(p, module, j, h),
           NEW s \in MadeIn(p, module), NEW id \in Names, NEW name \in Written, NEW at,
           NEW parent \in IdsIn(h.symbols, Len(h.symbols)),
           Reads(s, at, id, name, parent),
           FirstFree(IdsIn(h.symbols, Len(h.symbols)), parent \o <<name>>, id),
           NEW ids \in [DefinedTo(p, i) -> Names],
           DefinedTo(p, j) \subseteq DefinedTo(p, i),
           \A d \in DefinedTo(p, j) : ids[d] = h.ids[d],
           \A d \in DefinedTo(p, i) \ DefinedTo(p, j) : d = at /\ ids[d] = id,
           (\E base \in Names : \E n \in DOMAIN Marks : id = base \o <<Marks[n]>>) =>
               \E d \in DefinedTo(p, i) \ {0} : ids[d] = id
    PROVE  Passed(p, module, i, [symbols |-> Append(h.symbols, s), ids |-> ids])
<1> DEFINE n == Len(h.symbols)
           new == Append(h.symbols, s)
           M == MadeIn(p, module)
<1>1. h.symbols \in Seq(M) /\ n \in Nat \ {0} /\ DOMAIN h.symbols = 1 .. n
  BY PassedIds
<1> HIDE DEF M
<1>2. /\ new \in Seq(M) /\ DOMAIN new = 1 .. n + 1 /\ new # <<>>
      /\ \A k \in 1 .. n : new[k] = h.symbols[k]
      /\ new[n + 1] = s
  BY <1>1 DEF M
<1>3. h.symbols # <<>> /\ Sound(h.symbols) /\ h.symbols[1] = ModuleSymbol(module) /\ h.ids[0] = module
  BY DEF Passed, Keeps
<1>4. Sound(new)
  BY <1>1, <1>3, AppendSound DEF M
<1>5. s.id = id /\ s.at = at
  BY DEF Reads
<1> HIDE DEF n, new
<1>6. new[1] = ModuleSymbol(module) /\ ids[0] = module
  <2>1. 1 \in 1 .. n /\ 0 \in DefinedTo(p, j)
    BY <1>1 DEF DefinedTo
  <2> QED
    BY <1>2, <1>3, <2>1
<1>7. ASSUME NEW d \in DefinedTo(p, i) PROVE \E k \in DOMAIN new : new[k].id = ids[d] /\ new[k].at = d
  <2>1. CASE d \in DefinedTo(p, j)
    <3>1. PICK k \in DOMAIN h.symbols : h.symbols[k].id = h.ids[d] /\ h.symbols[k].at = d
      BY <2>1 DEF Passed, Keeps
    <3>2. k \in DOMAIN new /\ new[k] = h.symbols[k]
      BY <1>1, <1>2
    <3> QED
      BY <2>1, <3>1, <3>2
  <2>2. CASE d \notin DefinedTo(p, j)
    <3>1. n + 1 \in DOMAIN new
      BY <1>1, <1>2
    <3> QED
      BY <1>2, <1>5, <2>2, <3>1
  <2> QED
    BY <2>1, <2>2
<1>8. ASSUME NEW k \in DOMAIN new, NEW base \in Names, NEW m \in DOMAIN Marks, new[k].id = base \o <<Marks[m]>>
      PROVE  \E d \in DefinedTo(p, i) \ {0} : ids[d] = new[k].id
  <2>1. CASE k = n + 1
    <3>1. new[k].id = id
      BY <1>2, <1>5, <2>1
    <3>2. \E d \in DefinedTo(p, i) \ {0} : ids[d] = id
      BY <1>8, <3>1
    <3> QED
      BY <3>1, <3>2
  <2>2. CASE k # n + 1
    <3>1. k \in DOMAIN h.symbols /\ new[k] = h.symbols[k]
      BY <1>1, <1>2, <2>2
    <3>2. h.symbols[k].id = base \o <<Marks[m]>>
      BY <1>8, <3>1, Zenon
    <3>3. \E d \in DefinedTo(p, j) \ {0} : h.ids[d] = h.symbols[k].id
      BY <3>1, <3>2, Zenon DEF Passed, Keeps
    <3> QED
      BY <3>1, <3>3
  <2> QED
    BY <2>1, <2>2
<1>9. Keeps(p, module, DefinedTo(p, i), new, ids)
  BY <1>2, <1>3, <1>4, <1>6, <1>7, <1>8 DEF Keeps, M
<1> DEFINE after == [symbols |-> new, ids |-> ids]
<1>10. after.symbols = new /\ after.ids = ids /\ after = [symbols |-> after.symbols, ids |-> after.ids]
  OBVIOUS
<1> HIDE DEF after
<1>11. Passed(p, module, i, after)
  BY <1>9, <1>10 DEF Passed
<1> QED
  BY <1>11 DEF after, new

(* A definition is a symbol, and has its id in node_ids.                   *)
LEMMA DefinePassed ==
    ASSUME NEW p, Program(p), NEW module \in Seq(Written) \ {<<>>}, NEW i \in DOMAIN p,
           NEW h, Passed(p, module, i - 1, h)
    PROVE  Passed(p, module, i, Define(p, h, i))
<1>1. /\ i \in Nat \ {0} /\ i - 1 \in Nat /\ LineOf(p, i)
      /\ \A d \in 1 .. i : d = i \/ d \in 1 .. i - 1
      /\ 1 .. i - 1 \subseteq 1 .. i /\ i \in 1 .. i /\ i \notin 1 .. i - 1
  BY DEF Program, IsList
<1>2. CASE ~(p[i].kind \in Definitions /\ Visited(p, i))
  <2>1. DefinedTo(p, i) = DefinedTo(p, i - 1)
    BY <1>1, <1>2 DEF DefinedTo
  <2>2. Define(p, h, i) = h
    BY <1>2 DEF Define
  <2> QED
    BY <2>1, <2>2 DEF Passed
<1>3. CASE p[i].kind \in Definitions /\ Visited(p, i)
  <2> DEFINE container == EnclosingDefinition(p, i)
             parent == h.ids[container]
             base == parent \o <<p[i].name>>
             id == Unique(h, base)
             s == DefinitionSymbol(p, i, id, parent)
             ids == [d \in DOMAIN h.ids \cup {i} |-> IF d = i THEN id ELSE h.ids[d]]
  <2>1. Define(p, h, i) = [symbols |-> Append(h.symbols, s), ids |-> ids]
    BY <1>3, Zenon DEF Define, AddDefinition, Prefix
  <2>2. container \in DefinedTo(p, i - 1) /\ p[i].name \in Written /\ p[i].name \in STRING
    BY <1>1, <1>3, EnclosingDefined DEF LineOf, Written
  <2> HIDE DEF container
  <2>3. parent \in Names /\ parent \in IdsIn(h.symbols, Len(h.symbols))
    BY <2>2, PassedIds
  <2> HIDE DEF parent
  <2>4. base \in Names
    BY <2>2, <2>3, ExtendedIs
  <2> HIDE DEF base
  <2>5. FirstFree(ToSet(Ids(h)), base, id) /\ id \in Names
    BY <1>3, <2>4, MarkIsFree, UniqueIs
  <2> HIDE DEF id
  <2>6. Reads(s, i, id, p[i].name, parent)
    BY DefinitionReads
  <2>7. s \in MadeIn(p, module)
    BY <2>3, <2>5 DEF MadeIn
  <2> HIDE DEF s
  <2>8. DefinedTo(p, i) = DefinedTo(p, i - 1) \cup {i} /\ i # 0
    BY <1>1, <1>3 DEF DefinedTo
  <2>9. h.ids \in [DefinedTo(p, i - 1) -> Names] /\ i \notin DefinedTo(p, i - 1)
    BY <1>1 DEF Passed, Keeps, DefinedTo
  <2>10. /\ ids \in [DefinedTo(p, i) -> Names] /\ ids[i] = id
         /\ \A d \in DefinedTo(p, i - 1) : ids[d] = h.ids[d]
    BY <2>5, <2>8, <2>9
  <2> HIDE DEF ids
  <2>11. /\ DefinedTo(p, i - 1) \subseteq DefinedTo(p, i)
         /\ \A d \in DefinedTo(p, i) \ DefinedTo(p, i - 1) : d = i /\ ids[d] = id
         /\ \E d \in DefinedTo(p, i) \ {0} : ids[d] = id
    BY <2>8, <2>9, <2>10
  <2>12. FirstFree(IdsIn(h.symbols, Len(h.symbols)), parent \o <<p[i].name>>, id)
    BY <2>5, PassedIds DEF base
  <2>13. Passed(p, module, i, [symbols |-> Append(h.symbols, s), ids |-> ids])
    <3> DEFINE name == p[i].name
    <3>1. name \in Written /\ Reads(s, i, id, name, parent)
      BY <2>2, <2>6
    <3>2. FirstFree(IdsIn(h.symbols, Len(h.symbols)), parent \o <<name>>, id)
      BY <2>12
    <3> HIDE DEF name
    <3>3. (\E q \in Names : \E n \in DOMAIN Marks : id = q \o <<Marks[n]>>) =>
              \E d \in DefinedTo(p, i) \ {0} : ids[d] = id
      BY <2>11
    <3>4. id \in Names /\ s \in MadeIn(p, module) /\ parent \in IdsIn(h.symbols, Len(h.symbols))
      BY <2>3, <2>5, <2>7
    <3>5. \A d \in DefinedTo(p, i) \ DefinedTo(p, i - 1) : d = i /\ ids[d] = id
      BY <2>11
    <3> QED
      BY <3>1, <3>2, <3>3, <3>4, <3>5, <2>10, <2>11, AppendPassed
  <2> QED
    BY <2>1, <2>13
<1> QED
  BY <1>2, <1>3

-----------------------------------------------------------------------------
(* A variable of the module or of a definition before.                     *)
Variable(p, module, i, ids, s) ==
    /\ s \in MadeIn(p, module)
    /\ \E at : \E name \in Written : \E d \in DefinedTo(p, i) :
          Reads(s, at, ids[d] \o <<name>>, name, ids[d])

(* A variable is claimed like a definition, or is not added.               *)
LEMMA AddVariableKeeps ==
    ASSUME NEW p, NEW module, NEW i, NEW h, Passed(p, module, i, h),
           NEW s, Variable(p, module, i, h.ids, s)
    PROVE  /\ Passed(p, module, i, AddVariable(h, s)) /\ AddVariable(h, s).ids = h.ids
           /\ AddVariable(h, s).symbols \in Seq(MadeIn(p, module))
<1>1. PICK at : \E name \in Written : \E d \in DefinedTo(p, i) :
                    Reads(s, at, h.ids[d] \o <<name>>, name, h.ids[d])
  BY Zenon DEF Variable
<1>1a. PICK name \in Written, d \in DefinedTo(p, i) : Reads(s, at, h.ids[d] \o <<name>>, name, h.ids[d])
  BY <1>1
<1> DEFINE parent == h.ids[d]
           id == parent \o <<name>>
<1>2. parent \in Names /\ parent \in IdsIn(h.symbols, Len(h.symbols)) /\ h.symbols \in Seq(MadeIn(p, module))
  BY PassedIds
<1>3. Reads(s, at, id, name, parent) /\ s \in MadeIn(p, module) /\ s.id = id
  BY <1>1a DEF Reads, Variable
<1>4. Taken(h) = IdsIn(h.symbols, Len(h.symbols))
  <2>1. Taken(h) = ToSet(Ids(h))
    BY DEF Taken, ToSet, Ids
  <2> QED
    BY <2>1, PassedIds
<1> HIDE DEF parent
<1>5. id \in Names
  BY <1>2, ExtendedIs DEF Written
<1> HIDE DEF id
<1>6. CASE s.id \in Taken(h)
  <2>1. AddVariable(h, s) = h
    BY <1>6, Zenon DEF AddVariable
  <2> QED
    BY <1>2, <2>1
<1>7. CASE s.id \notin Taken(h)
  <2> DEFINE symbols1 == Append(h.symbols, s)
             ids == h.ids
  <2>1. h = [symbols |-> h.symbols, ids |-> h.ids]
    BY DEF Passed
  <2>2. AddVariable(h, s) = [h EXCEPT !.symbols = symbols1]
    BY <1>7 DEF AddVariable
  <2>3. symbols1 \in Seq(MadeIn(p, module))
    BY <1>2, <1>3
  <2> HIDE DEF symbols1
  <2>4. AddVariable(h, s) = [symbols |-> symbols1, ids |-> ids]
    BY <2>1, <2>2
  <2>5. ids \in [DefinedTo(p, i) -> Names]
    BY DEF Passed, Keeps
  <2>6. FirstFree(IdsIn(h.symbols, Len(h.symbols)), parent \o <<name>>, id)
    <3>1. Candidates(id)[1] = id /\ Len(Marks) \in Nat
      BY <1>5, CandidatesAre, FinalizeAssumption
    <3> DEFINE first == 1
    <3>3. first \in 1 .. Len(Marks) + 1 /\ \A m \in 1 .. first - 1 : FALSE
      BY <3>1
    <3> HIDE DEF first
    <3>4. Candidates(id)[first] = id
      BY <3>1 DEF first
    <3>2. id \notin IdsIn(h.symbols, Len(h.symbols))
      BY <1>3, <1>4, <1>7
    <3>5. FirstFree(IdsIn(h.symbols, Len(h.symbols)), id, id)
      BY <3>2, <3>3, <3>4 DEF FirstFree
    <3> QED
      BY <3>5 DEF id
  <2>7. \A q \in Names : \A n \in DOMAIN Marks : id # q \o <<Marks[n]>>
    BY <1>2, WrittenLast DEF id
  <2> HIDE DEF ids
  <2>8. /\ DefinedTo(p, i) \subseteq DefinedTo(p, i)
        /\ \A e \in DefinedTo(p, i) : ids[e] = h.ids[e]
        /\ \A e \in DefinedTo(p, i) \ DefinedTo(p, i) : e = at /\ ids[e] = id
        /\ (\E q \in Names : \E n \in DOMAIN Marks : id = q \o <<Marks[n]>>) =>
              \E e \in DefinedTo(p, i) \ {0} : ids[e] = id
    BY <2>7 DEF ids
  <2>9. Passed(p, module, i, [symbols |-> Append(h.symbols, s), ids |-> ids])
    BY <1>2, <1>3, <1>5, <2>5, <2>6, <2>8, AppendPassed
  <2>10. AddVariable(h, s).symbols = symbols1 /\ AddVariable(h, s).ids = h.ids
    BY <2>4 DEF ids
  <2> QED
    BY <2>3, <2>4, <2>9, <2>10 DEF symbols1
<1> QED
  BY <1>6, <1>7

AddingBody(h, given, adding) ==
    [P \in SUBSET DOMAIN given |->
        IF P = {} THEN h ELSE AddVariable(adding[P \ {Max(P)}], given[Max(P)])]

LEMMA VariablesKeep ==
    ASSUME NEW p, NEW module, NEW i, NEW h, Passed(p, module, i, h),
           NEW given, IsList(given), \A k \in DOMAIN given : Variable(p, module, i, h.ids, given[k])
    PROVE  Passed(p, module, i, FoldLeft(AddVariable, h, given))
<1> DEFINE chosen == CHOOSE adding : adding = AddingBody(h, given, adding)
           A == {a \in [symbols : Seq(MadeIn(p, module)), ids : {h.ids}] : Passed(p, module, i, a)}
           n == Len(given)
           op == [k \in 1 .. n |-> [a \in A |-> AddVariable(a, given[k])]]
<1>1. FoldLeft(AddVariable, h, given) = chosen[DOMAIN given]
  BY Zenon DEF FoldLeft, MapThenFoldSet, AddingBody
<1>2. n \in Nat /\ DOMAIN given = 1 .. n
  BY DEF IsList
<1>3. h \in A
  <2>1. h = [symbols |-> h.symbols, ids |-> h.ids] /\ h.symbols \in Seq(MadeIn(p, module))
    BY DEF Passed, Keeps
  <2> QED
    BY <2>1
<1>4. ASSUME NEW k \in 1 .. n, NEW a \in A
      PROVE  op[k][a] = AddVariable(a, given[k]) /\ op[k][a] \in A
  <2>1. op[k][a] = AddVariable(a, given[k])
    OBVIOUS
  <2>2. Passed(p, module, i, a) /\ a.ids = h.ids
    OBVIOUS
  <2> DEFINE b == AddVariable(a, given[k])
  <2>3. Passed(p, module, i, b) /\ b.ids = a.ids /\ b.symbols \in Seq(MadeIn(p, module))
    BY <1>2, <2>2, AddVariableKeeps
  <2> HIDE DEF b
  <2>4. b = [symbols |-> b.symbols, ids |-> b.ids]
    BY <2>3 DEF Passed
  <2>5. b \in A
    BY <2>2, <2>3, <2>4
  <2> QED
    BY <2>1, <2>5 DEF b
<1>5. \A a \in A : Passed(p, module, i, a)
  OBVIOUS
<1> HIDE DEF op, A, n
<1>6. Stays(n, A, op)
  BY <1>4 DEF Stays
<1>7. \E adding : adding = AddingBody(h, given, adding)
  <2>1. PICK fold \in [SUBSET (1 .. n) -> A] : Folds(n, h, op, fold)
    BY <1>2, <1>3, <1>6, FoldExists
  <2>2. ASSUME NEW P \in SUBSET (1 .. n), P # {}
        PROVE  op[Max(P)][fold[P \ {Max(P)}]] = AddVariable(fold[P \ {Max(P)}], given[Max(P)])
    <3>1. Max(P) \in 1 .. n
      BY <1>2, <2>2, MaxIsGreatest
    <3>2. fold[P \ {Max(P)}] \in A
      BY <2>1
    <3> QED
      BY <1>4, <3>1, <3>2
  <2>3. fold = AddingBody(h, given, fold)
    BY <1>2, <2>1, <2>2 DEF Folds, AddingBody
  <2> QED
    BY <2>3
<1>8. chosen = AddingBody(h, given, chosen)
  BY <1>7
<1> HIDE DEF chosen
<1>9. \A P \in SUBSET (1 .. n) : chosen[P] = IF P = {} THEN h ELSE AddVariable(chosen[P \ {Max(P)}], given[Max(P)])
  BY <1>2, <1>8 DEF AddingBody
<1>10. chosen[{}] = h
  BY <1>9
<1>11. Carries(n, A, op, chosen)
  <2>1. ASSUME NEW P \in SUBSET (1 .. n), P # {}, chosen[P \ {Max(P)}] \in A
        PROVE  chosen[P] = op[Max(P)][chosen[P \ {Max(P)}]]
    <3>1. Max(P) \in 1 .. n
      BY <1>2, <2>1, MaxIsGreatest
    <3> QED
      BY <1>4, <1>9, <2>1, <3>1
  <2> QED
    BY <2>1 DEF Carries
<1>12. \A k \in 0 .. n : chosen[1 .. k] \in A
  BY <1>2, <1>3, <1>6, <1>10, <1>11, FoldFollows
<1>13. chosen[1 .. n] \in A
  BY <1>2, <1>12
<1> QED
  BY <1>1, <1>2, <1>5, <1>13

LEMMA AttributesAre ==
    ASSUME NEW p, Program(p), NEW c
    PROVE  InstanceAttributes(p, c) \in Seq(Written)
<1> DEFINE W == UNION {Walked(p, f) : f \in Methods(p, c)}
           lines == InOrder(p, W)
           s == [k \in DOMAIN lines |-> AttributesOf(p[lines[k]])]
<1>1. lines \in Seq(DOMAIN p \cap W)
  BY InOrderIs DEF Program
<1>2. ASSUME NEW j \in DOMAIN p \cap W PROVE AttributesOf(p[j]) \in Seq(Written)
  <2>1. p[j].kind \in {"assign", "annassign"}
    BY DEF Walked
  <2>2. LineOf(p, j)
    BY DEF Program
  <2>3. /\ p[j].attrs \in Seq(Written)
        /\ p[j].kind = "assign" => p[j].unpackedAttrs \in Seq(Written)
    BY <2>1, <2>2, Zenon DEF LineOf
  <2> DEFINE one == p[j].attrs
             rest == IF p[j].kind = "assign" THEN p[j].unpackedAttrs ELSE <<>>
  <2>4. one \in Seq(Written) /\ rest \in Seq(Written)
    BY <2>3
  <2> HIDE DEF one, rest
  <2>5. one \o rest \in Seq(Written)
    BY <2>4
  <2> QED
    BY <2>5 DEF AttributesOf, one, rest
<1> HIDE DEF lines, W
<1>3. \A k \in DOMAIN lines : lines[k] \in DOMAIN p \cap W
  BY <1>1
<1>4. \A k \in DOMAIN lines : s[k] \in Seq(Written)
  BY <1>2, <1>3
<1>5. DOMAIN s = 1 .. Len(lines) /\ Len(lines) \in Nat
  BY <1>1
<1>6. s = [k \in DOMAIN s |-> s[k]]
  BY Zenon
<1>7. InstanceAttributes(p, c) = FlattenSeq(s)
  BY DEF InstanceAttributes, lines, W
<1> HIDE DEF s
<1>8. s \in Seq(Seq(Written))
  BY <1>1, <1>4, <1>5, <1>6
<1> QED
  BY <1>7, <1>8, FlattenSeqIs

LEMMA EndingIs ==
    ASSUME NEW p, Program(p), NEW i \in DOMAIN p
    PROVE  Ending(p, i) \in Seq(DOMAIN p \cap (DefinedTo(p, i) \ {0}))
<1> DEFINE E == {c \in {i} \cup Above(p, i) :
                    p[c].kind = "class" /\ Visited(p, c) /\ Max({c} \cup Inside(p, c)) = i}
           D == DOMAIN p \cap (DefinedTo(p, i) \ {0})
<1>1. LineOf(p, i) /\ DOMAIN p = 1 .. Len(p) /\ Len(p) \in Nat
  BY DEF Program, IsList
<1>2. Above(p, i) \subseteq 1 .. i - 1
  BY <1>1 DEF LineOf, Above
<1>3. ASSUME NEW c \in E PROVE c \in D
  <2>1. c \in 1 .. i /\ c # 0
    BY <1>1, <1>2
  <2>2. p[c].kind \in Definitions /\ Visited(p, c)
    BY DEF Definitions
  <2> QED
    BY <1>1, <2>1, <2>2 DEF DefinedTo
<1> HIDE DEF E
<1>4. InOrder(p, E) \in Seq(DOMAIN p \cap E)
  BY InOrderIs DEF Program
<1>5. DOMAIN p \cap E \subseteq D
  BY <1>3
<1> DEFINE s == InOrder(p, E)
<1> HIDE DEF D
<1>6. s \in Seq(D)
  <2> DEFINE S == DOMAIN p \cap E
  <2>1. s \in Seq(S) /\ S \subseteq D
    BY <1>4, <1>5
  <2> HIDE DEF S, s
  <2> QED
    BY <2>1
<1> HIDE DEF s
<1>7. Reverse(s) \in Seq(D)
  BY <1>6, ReverseIs
<1>8. Ending(p, i) = Reverse(s)
  BY Zenon DEF Ending, s, E
<1> QED
  BY <1>7, <1>8 DEF D

(* The variables of a line: those it assigns, and the attributes of the    *)
(* instances of the classes that end with it.                              *)
LEMMA VariablesAre ==
    ASSUME NEW p, Program(p), NEW module, NEW i \in DOMAIN p, NEW h, Passed(p, module, i, h)
    PROVE  /\ IsList(Variables(p, h, i))
           /\ \A k \in DOMAIN Variables(p, h, i) : Variable(p, module, i, h.ids, Variables(p, h, i)[k])
<1> DEFINE V == {s \in MadeIn(p, module) : Variable(p, module, i, h.ids, s)}
           container == EnclosingDefinition(p, i)
           names == AssignedNames(p[i])
           own == AssignedVariables(p, h, i)
           ends == Ending(p, i)
           each == [k \in DOMAIN ends |-> InstanceVariables(p, h, ends[k])]
<1>1. LineOf(p, i) /\ DOMAIN p = 1 .. Len(p) /\ Len(p) \in Nat /\ i \in Nat
  BY DEF Program, IsList
<1>2. own \in Seq(V)
  <2>1. CASE /\ p[i].kind \in {"assign", "annassign"} /\ Visited(p, i)
             /\ container = 0 \/ p[container].kind = "class"
    <3> DEFINE one == p[i].names
               rest == IF p[i].kind = "assign" THEN p[i].unpacked ELSE <<>>
    <3>1. one \in Seq(Written) /\ rest \in Seq(Written)
      BY <1>1, <2>1 DEF LineOf
    <3>2. names = one \o rest
      BY DEF AssignedNames
    <3> HIDE DEF one, rest, names
    <3>3. names \in Seq(Written)
      BY <3>1, <3>2
    <3>4. container \in DefinedTo(p, i - 1)
      BY <2>1, EnclosingDefined
    <3> HIDE DEF container
    <3>5. container \in DefinedTo(p, i)
      <4>1. 1 .. i - 1 \subseteq 1 .. i
        BY <1>1
      <4> QED
        BY <3>4, <4>1 DEF DefinedTo
    <3>6. own = [k \in DOMAIN names |-> AssignedVariable(p, i, h.ids[container], names[k])]
      BY <2>1, Zenon DEF AssignedVariables, Prefix, container, names
    <3> HIDE DEF own
    <3>7. ASSUME NEW name \in Written PROVE AssignedVariable(p, i, h.ids[container], name) \in V
      <4> DEFINE s == AssignedVariable(p, i, h.ids[container], name)
      <4>1. Reads(s, i, h.ids[container] \o <<name>>, name, h.ids[container])
        BY VariableReads
      <4>2. s \in MadeIn(p, module)
        <5>1. h.ids[container] \in Names /\ name \in STRING
          BY <3>5, PassedIds DEF Written
        <5> QED
          BY <5>1 DEF MadeIn
      <4> HIDE DEF s
      <4>3. Variable(p, module, i, h.ids, s)
        BY <3>5, <4>1, <4>2 DEF Variable
      <4> QED
        BY <4>2, <4>3 DEF s
    <3> HIDE DEF V
    <3> QED
      BY <3>3, <3>6, <3>7
  <2>2. CASE ~(/\ p[i].kind \in {"assign", "annassign"} /\ Visited(p, i)
               /\ container = 0 \/ p[container].kind = "class")
    <3>1. own = <<>>
      BY <2>2, Zenon DEF AssignedVariables
    <3> HIDE DEF own, V
    <3> QED
      BY <3>1
  <2> QED
    BY <2>1, <2>2
<1>3. ends \in Seq(DOMAIN p \cap (DefinedTo(p, i) \ {0}))
  BY EndingIs
<1>4. ASSUME NEW c \in DOMAIN p \cap (DefinedTo(p, i) \ {0}) PROVE InstanceVariables(p, h, c) \in Seq(V)
  <2> DEFINE parts == InstanceAttributes(p, c)
  <2>1. parts \in Seq(Written)
    BY AttributesAre
  <2>2. InstanceVariables(p, h, c) = [k \in DOMAIN parts |-> InstanceAttribute(p, c, h.ids[c], parts[k])]
    BY Zenon DEF InstanceVariables
  <2> HIDE DEF parts
  <2>3. ASSUME NEW name \in Written PROVE InstanceAttribute(p, c, h.ids[c], name) \in V
    <3> DEFINE s == InstanceAttribute(p, c, h.ids[c], name)
    <3>1. \E at : Reads(s, at, h.ids[c] \o <<name>>, name, h.ids[c])
      BY VariableReads
    <3>2. s \in MadeIn(p, module)
      <4>1. h.ids[c] \in Names /\ name \in STRING
        BY PassedIds DEF Written
      <4> QED
        BY <4>1 DEF MadeIn
    <3> HIDE DEF s
    <3>3. Variable(p, module, i, h.ids, s)
      BY <3>1, <3>2 DEF Variable
    <3> QED
      BY <3>2, <3>3 DEF s
  <2> HIDE DEF V
  <2> QED
    BY <2>1, <2>2, <2>3
<1>5. Variables(p, h, i) = own \o FlattenSeq(each)
  BY Zenon DEF Variables
<1>6. \A s \in V : Variable(p, module, i, h.ids, s)
  OBVIOUS
<1> HIDE DEF V, own, ends
<1>7. each \in Seq(Seq(V))
  <2>1. \A k \in DOMAIN ends : ends[k] \in DOMAIN p \cap (DefinedTo(p, i) \ {0})
    BY <1>3
  <2>2. \A k \in DOMAIN ends : each[k] \in Seq(V)
    BY <1>4, <2>1
  <2>3. DOMAIN each = 1 .. Len(ends) /\ Len(ends) \in Nat /\ each = [k \in DOMAIN each |-> each[k]]
    BY <1>3
  <2> HIDE DEF each
  <2> QED
    BY <1>3, <2>2, <2>3
<1> HIDE DEF each
<1>8. FlattenSeq(each) \in Seq(V)
  BY <1>7, FlattenSeqIs
<1>9. Variables(p, h, i) \in Seq(V)
  BY <1>2, <1>5, <1>8
<1> QED
  BY <1>6, <1>9 DEF IsList

-----------------------------------------------------------------------------
LEMMA VisitPassed ==
    ASSUME NEW p, Program(p), NEW module \in Seq(Written) \ {<<>>}, NEW i \in DOMAIN p,
           NEW h, Passed(p, module, i - 1, h)
    PROVE  Passed(p, module, i, VisitLine(p, h, i))
<1> DEFINE defined == Define(p, h, i)
           vars1 == Variables(p, defined, i)
<1>1. Passed(p, module, i, defined)
  BY DefinePassed
<1>2. VisitLine(p, h, i) = FoldLeft(AddVariable, defined, vars1)
  BY Zenon DEF VisitLine
<1> HIDE DEF defined
<1>3. IsList(vars1) /\ \A k \in DOMAIN vars1 : Variable(p, module, i, defined.ids, vars1[k])
  BY <1>1, VariablesAre
<1> HIDE DEF vars1
<1>4. Passed(p, module, i, FoldLeft(AddVariable, defined, vars1))
  BY <1>1, <1>3, VariablesKeep
<1> QED
  BY <1>2, <1>4

NoLines(module) == [symbols |-> <<ModuleSymbol(module)>>, ids |-> [d \in {0} |-> module]]

LEMMA LinesPassed ==
    ASSUME NEW p, Program(p), NEW module \in Seq(Written) \ {<<>>}, NEW pass, pass[0] = NoLines(module),
           \A i \in 1 .. Len(p) : Passed(p, module, i - 1, pass[i - 1]) => pass[i] = VisitLine(p, pass[i - 1], i)
    PROVE  \A i \in 0 .. Len(p) : Passed(p, module, i, pass[i])
<1> DEFINE T == {i \in 0 .. Len(p) : ~Passed(p, module, i, pass[i])}
<1>1. Len(p) \in Nat /\ DOMAIN p = 1 .. Len(p)
  BY DEF Program, IsList
<1>2. SUFFICES ASSUME T # {} PROVE FALSE
  OBVIOUS
<1>3. T \in SUBSET Nat
  BY <1>1
<1>4. Min(T) \in T /\ \A j \in T : Min(T) <= j
  BY <1>2, <1>3, MinIsLeast
<1> DEFINE i == Min(T)
<1>5. i \in 0 .. Len(p) /\ ~Passed(p, module, i, pass[i]) /\ \A j \in T : i <= j
  BY <1>4
<1>6. \A j \in 0 .. Len(p) : j \notin T => Passed(p, module, j, pass[j])
  OBVIOUS
<1> HIDE DEF i, T
<1>7. CASE i = 0
  <2>1. Passed(p, module, 0, pass[0])
    BY PassedStart DEF NoLines
  <2> QED
    BY <1>5, <1>7, <2>1
<1>8. CASE i # 0
  <2>1. i \in DOMAIN p /\ i \in 1 .. Len(p) /\ i - 1 \in 0 .. Len(p) /\ ~(i <= i - 1)
    BY <1>1, <1>5, <1>8
  <2>2. Passed(p, module, i - 1, pass[i - 1])
    BY <1>5, <1>6, <2>1
  <2>3. pass[i] = VisitLine(p, pass[i - 1], i)
    BY <2>1, <2>2
  <2>4. Passed(p, module, i, VisitLine(p, pass[i - 1], i))
    BY <2>1, <2>2, VisitPassed
  <2> QED
    BY <1>5, <2>3, <2>4
<1> QED
  BY <1>7, <1>8

ExtractBody(p, module, pass) ==
    [i \in 0 .. Len(p) |->
        IF i = 0 THEN [symbols |-> <<ModuleSymbol(module)>>, ids |-> [d \in {0} |-> module]]
        ELSE VisitLine(p, pass[i - 1], i)]

(* extract_symbols: by recursion over the lines, all of it is kept.        *)
LEMMA ExtractPassed ==
    ASSUME NEW p, Program(p), NEW module \in Seq(Written) \ {<<>>}
    PROVE  Passed(p, module, Len(p), ExtractSymbols(p, module))
<1> DEFINE n == Len(p)
           C == 0 .. n
           S == UNION {[symbols : Seq(MadeIn(p, module)), ids : [DefinedTo(p, i) -> Names]] : i \in C}
           below == [i \in C |-> IF i = 0 THEN {} ELSE {i - 1}]
           start == NoLines(module)
           step == [i \in C |-> [g \in [below[i] -> S] |->
                       IF i # 0 /\ Passed(p, module, i - 1, g[i - 1])
                       THEN VisitLine(p, g[i - 1], i) ELSE start]]
           chosen == CHOOSE pass : pass = ExtractBody(p, module, pass)
<1>1. ExtractSymbols(p, module) = chosen[n]
  BY Zenon DEF ExtractSymbols, ExtractBody
<1>2. n \in Nat /\ DOMAIN p = 1 .. n
  BY DEF Program, IsList
<1>3. ASSUME NEW i \in C, NEW h, Passed(p, module, i, h) PROVE h \in S
  <2>1. h = [symbols |-> h.symbols, ids |-> h.ids]
        /\ h.symbols \in Seq(MadeIn(p, module)) /\ h.ids \in [DefinedTo(p, i) -> Names]
    BY <1>3 DEF Passed, Keeps
  <2>2. h \in [symbols : Seq(MadeIn(p, module)), ids : [DefinedTo(p, i) -> Names]]
    BY <2>1
  <2> QED
    BY <2>2
<1>4. start \in S
  <2>1. Passed(p, module, 0, start) /\ 0 \in C
    BY <1>2, PassedStart DEF NoLines
  <2> QED
    BY <1>3, <2>1
<1>5. below \in [C -> SUBSET C] /\ Founded(C, below)
  <2>1. \A i \in C : below[i] \subseteq C /\ \A j \in below[i] : j < i
    BY <1>2
  <2>2. below \in [C -> SUBSET C]
    BY <2>1
  <2> HIDE DEF below
  <2> QED
    BY <1>2, <2>1, <2>2, LowerFounded
<1> HIDE DEF S, start
<1>6. ASSUME NEW i \in C, NEW g \in [below[i] -> S]
      PROVE  /\ step[i][g] \in S
             /\ i # 0 /\ Passed(p, module, i - 1, g[i - 1]) => step[i][g] = VisitLine(p, g[i - 1], i)
             /\ i = 0 => step[i][g] = start
  <2>1. step[i][g] = IF i # 0 /\ Passed(p, module, i - 1, g[i - 1]) THEN VisitLine(p, g[i - 1], i) ELSE start
    OBVIOUS
  <2> HIDE DEF step
  <2>2. CASE i # 0 /\ Passed(p, module, i - 1, g[i - 1])
    <3>1. i \in DOMAIN p
      BY <1>2, <2>2
    <3>2. Passed(p, module, i, VisitLine(p, g[i - 1], i))
      BY <2>2, <3>1, VisitPassed
    <3>3. VisitLine(p, g[i - 1], i) \in S
      BY <1>3, <3>2
    <3> QED
      BY <2>1, <2>2, <3>3
  <2>3. CASE ~(i # 0 /\ Passed(p, module, i - 1, g[i - 1]))
    BY <1>4, <2>1, <2>3
  <2> QED
    BY <2>2, <2>3
<1>7. Passes(C, below, S, step)
  BY <1>6 DEF Passes
<1>8. PICK f \in [C -> S] : Follows(C, below, step, f)
  <2> HIDE DEF C, step, below
  <2> QED
    BY <1>5, <1>7, Recursion
<1>9. ASSUME NEW i \in C
      PROVE  /\ i # 0 /\ Passed(p, module, i - 1, f[i - 1]) => f[i] = VisitLine(p, f[i - 1], i)
             /\ i = 0 => f[i] = start
  <2> DEFINE g == [b \in below[i] |-> f[b]]
  <2>1. below[i] \subseteq C
    BY <1>5
  <2>2. g \in [below[i] -> S] /\ f[i] = step[i][g]
    BY <1>8, <2>1 DEF Follows
  <2>3. i # 0 => g[i - 1] = f[i - 1]
    OBVIOUS
  <2> HIDE DEF g, step, below
  <2> QED
    BY <1>6, <2>2, <2>3
<1>10. 0 \in C /\ \A i \in 1 .. n : i \in C /\ i # 0
  BY <1>2
<1> HIDE DEF step, below
<1>11. f[0] = NoLines(module)
  BY <1>9, <1>10 DEF start
<1>12. \A i \in 0 .. Len(p) : Passed(p, module, i, f[i])
  BY <1>9, <1>10, <1>11, LinesPassed
<1>13. f = ExtractBody(p, module, f)
  <2>1. ASSUME NEW i \in C
        PROVE  f[i] = IF i = 0 THEN [symbols |-> <<ModuleSymbol(module)>>, ids |-> [d \in {0} |-> module]]
                      ELSE VisitLine(p, f[i - 1], i)
    <3>1. CASE i = 0
      BY <1>11, <3>1 DEF NoLines
    <3>2. CASE i # 0
      <4>1. i - 1 \in 0 .. Len(p)
        BY <1>2, <3>2
      <4> QED
        BY <1>9, <1>12, <3>2, <4>1
    <3> QED
      BY <3>1, <3>2
  <2> QED
    BY <2>1 DEF ExtractBody
<1>14. chosen = ExtractBody(p, module, chosen)
  BY <1>13
<1> HIDE DEF chosen
<1>15. /\ chosen[0] = NoLines(module)
       /\ \A i \in 1 .. Len(p) : chosen[i] = VisitLine(p, chosen[i - 1], i)
  <2>1. \A i \in C : chosen[i] = IF i = 0 THEN [symbols |-> <<ModuleSymbol(module)>>, ids |-> [d \in {0} |-> module]]
                                 ELSE VisitLine(p, chosen[i - 1], i)
    BY <1>14 DEF ExtractBody
  <2> QED
    BY <1>10, <2>1 DEF NoLines
<1>16. \A i \in 0 .. Len(p) : Passed(p, module, i, chosen[i])
  BY <1>15, LinesPassed
<1> QED
  BY <1>1, <1>2, <1>16

-----------------------------------------------------------------------------
(* node_ids has the id of a definition that is a symbol.                   *)
DefinitionBody(p, ids, id) ==
    [j \in 0 .. Len(p) |->
        IF j \in DOMAIN ids THEN ids[j] ELSE id[EnclosingDefinition(p, j)] \o <<p[j].name>>]

LEMMA DefinitionIs ==
    ASSUME NEW p, Program(p), NEW ids \in [DefinedTo(p, Len(p)) -> Names],
           NEW d \in DefinedTo(p, Len(p))
    PROVE  DefinitionId(p, ids, d) = ids[d]
<1> DEFINE n == Len(p)
           C == 0 .. n
           N == STRING \cup {p[j].name : j \in DOMAIN p}
           S == Seq(N)
           below == [j \in C |-> IF j \in DOMAIN ids THEN {} ELSE {EnclosingDefinition(p, j)}]
           step == [j \in C |-> [g \in [below[j] -> S] |->
                       IF j \in DOMAIN ids THEN ids[j] ELSE g[EnclosingDefinition(p, j)] \o <<p[j].name>>]]
           chosen == CHOOSE id : id = DefinitionBody(p, ids, id)
<1>1. DefinitionId(p, ids, d) = chosen[d]
  BY Zenon DEF DefinitionId, DefinitionBody
<1>2. n \in Nat /\ DOMAIN p = 1 .. n
  BY DEF Program, IsList
<1>3. DOMAIN ids \subseteq C /\ 0 \in DOMAIN ids /\ d \in DOMAIN ids
  BY <1>2 DEF DefinedTo
<1>4. ASSUME NEW j \in C, j \notin DOMAIN ids
      PROVE  EnclosingDefinition(p, j) \in 0 .. j - 1 /\ j \in DOMAIN p
  <2>1. j \in DOMAIN p
    BY <1>2, <1>3, <1>4
  <2> QED
    BY <2>1, InnermostIs DEF EnclosingDefinition
<1>5. below \in [C -> SUBSET C] /\ Founded(C, below)
  <2>1. \A j \in C : below[j] \subseteq C /\ \A k \in below[j] : k < j
    BY <1>2, <1>4
  <2>2. below \in [C -> SUBSET C]
    BY <2>1
  <2> HIDE DEF below
  <2> QED
    BY <1>2, <2>1, <2>2, LowerFounded
<1>6. ASSUME NEW j \in C, NEW g \in [below[j] -> S]
      PROVE  /\ step[j][g] \in S
             /\ step[j][g] = IF j \in DOMAIN ids THEN ids[j]
                             ELSE g[EnclosingDefinition(p, j)] \o <<p[j].name>>
  <2>1. step[j][g] = IF j \in DOMAIN ids THEN ids[j] ELSE g[EnclosingDefinition(p, j)] \o <<p[j].name>>
    OBVIOUS
  <2> HIDE DEF step
  <2>2. CASE j \in DOMAIN ids
    <3>1. ids[j] \in Seq(STRING)
      BY <2>2 DEF Names
    <3>2. STRING \subseteq N
      OBVIOUS
    <3> HIDE DEF N
    <3>3. ids[j] \in S
      BY <3>1, <3>2, Wider
    <3> QED
      BY <2>1, <2>2, <3>3
  <2>3. CASE j \notin DOMAIN ids
    <3> DEFINE q == g[EnclosingDefinition(p, j)]
               name == p[j].name
    <3>1. q \in S /\ name \in N
      BY <1>4, <2>3
    <3> HIDE DEF q, name, N
    <3>2. q \o <<name>> \in S
      BY <3>1, OneMore
    <3> QED
      BY <2>1, <2>3, <3>2 DEF q, name
  <2> QED
    BY <2>1, <2>2, <2>3
<1>7. Passes(C, below, S, step)
  BY <1>6 DEF Passes
<1>8. PICK f \in [C -> S] : Follows(C, below, step, f)
  <2> HIDE DEF C, S, step, below
  <2> QED
    BY <1>5, <1>7, Recursion
<1>9. f = DefinitionBody(p, ids, f)
  <2>1. ASSUME NEW j \in C
        PROVE  f[j] = IF j \in DOMAIN ids THEN ids[j] ELSE f[EnclosingDefinition(p, j)] \o <<p[j].name>>
    <3> DEFINE g == [b \in below[j] |-> f[b]]
    <3>1. below[j] \subseteq C
      BY <1>5
    <3>2. g \in [below[j] -> S] /\ f[j] = step[j][g]
      BY <1>8, <3>1 DEF Follows
    <3>3. j \notin DOMAIN ids => g[EnclosingDefinition(p, j)] = f[EnclosingDefinition(p, j)]
      OBVIOUS
    <3> HIDE DEF g, step, below
    <3> QED
      BY <1>6, <3>2, <3>3
  <2> QED
    BY <2>1 DEF DefinitionBody
<1>10. chosen = DefinitionBody(p, ids, chosen)
  BY <1>9
<1> HIDE DEF chosen
<1>11. chosen[d] = ids[d]
  BY <1>3, <1>10 DEF DefinitionBody
<1> QED
  BY <1>1, <1>11

-----------------------------------------------------------------------------
(* A reference and its source: the module, the class, or the definition it *)
(* is in.  Lists of references.                                            *)
SoundRef(p, ids, module, r) ==
    /\ {"src", "at", "kind"} \subseteq DOMAIN r
    /\ \/ r.kind = "import" /\ r.src = module
       \/ /\ r.kind = "inherits" /\ r.src = DefinitionId(p, ids, r.at)
          /\ r.at \in DOMAIN p /\ p[r.at].kind \in Definitions
       \/ r.kind \notin {"import", "inherits"} /\ r.src = Source(p, ids, r.at) /\ r.at \in DOMAIN p

RefList(p, ids, module, s) == \E T : s \in Seq(T) /\ \A r \in T : SoundRef(p, ids, module, r)

LEMMA FewRefs ==
    ASSUME NEW p, NEW ids, NEW module
    PROVE  /\ RefList(p, ids, module, <<>>)
           /\ \A r : SoundRef(p, ids, module, r) => RefList(p, ids, module, <<r>>)
<1>1. RefList(p, ids, module, <<>>)
  <2> DEFINE T == {}
  <2>1. <<>> \in Seq(T) /\ \A r \in T : SoundRef(p, ids, module, r)
    OBVIOUS
  <2> HIDE DEF T
  <2> QED
    BY <2>1 DEF RefList
<1>2. ASSUME NEW r, SoundRef(p, ids, module, r) PROVE RefList(p, ids, module, <<r>>)
  <2> DEFINE T == {r}
             s == <<r>>
  <2>1. s \in Seq(T) /\ \A x \in T : SoundRef(p, ids, module, x)
    BY <1>2
  <2> HIDE DEF T
  <2> QED
    BY <1>2, <2>1 DEF RefList
<1> QED
  BY <1>1, <1>2

LEMMA JoinedRefs ==
    ASSUME NEW p, NEW ids, NEW module, NEW a, NEW b, RefList(p, ids, module, a), RefList(p, ids, module, b)
    PROVE  RefList(p, ids, module, a \o b)
<1>1. PICK S : a \in Seq(S) /\ \A r \in S : SoundRef(p, ids, module, r)
  BY DEF RefList
<1>2. PICK T : b \in Seq(T) /\ \A r \in T : SoundRef(p, ids, module, r)
  BY DEF RefList
<1> DEFINE U == S \cup T
<1>3. S \subseteq U /\ T \subseteq U /\ \A r \in U : SoundRef(p, ids, module, r)
  BY <1>1, <1>2
<1> HIDE DEF U
<1>4. a \in Seq(U) /\ b \in Seq(U)
  BY <1>1, <1>2, <1>3
<1>5. a \o b \in Seq(U)
  BY <1>4
<1> QED
  BY <1>3, <1>5 DEF RefList

LEMMA FlatRefs ==
    ASSUME NEW p, NEW ids, NEW module, NEW n \in Nat, NEW s, s = [k \in 1 .. n |-> s[k]],
           \A k \in 1 .. n : RefList(p, ids, module, s[k])
    PROVE  RefList(p, ids, module, FlattenSeq(s))
<1> DEFINE T == UNION {ToSet(s[k]) : k \in 1 .. n}
<1>1. ASSUME NEW k \in 1 .. n
      PROVE  s[k] \in Seq(T) /\ \A r \in ToSet(s[k]) : SoundRef(p, ids, module, r)
  <2>1. PICK S : s[k] \in Seq(S) /\ \A r \in S : SoundRef(p, ids, module, r)
    BY DEF RefList
  <2>2. Len(s[k]) \in Nat /\ DOMAIN s[k] = 1 .. Len(s[k]) /\ s[k] = [j \in 1 .. Len(s[k]) |-> s[k][j]]
        /\ \A j \in DOMAIN s[k] : s[k][j] \in S
    BY <2>1
  <2>3. \A j \in DOMAIN s[k] : s[k][j] \in ToSet(s[k])
    BY <2>2 DEF ToSet
  <2>4. ToSet(s[k]) \subseteq T
    OBVIOUS
  <2> HIDE DEF T
  <2>5. \A j \in DOMAIN s[k] : s[k][j] \in T
    BY <2>3, <2>4
  <2>6. s[k] \in Seq(T)
    BY <2>2, <2>5
  <2>7. \A r \in ToSet(s[k]) : r \in S
    BY <2>2 DEF ToSet
  <2> QED
    BY <2>1, <2>6, <2>7
<1>2. \A r \in T : SoundRef(p, ids, module, r)
  BY <1>1
<1> HIDE DEF T
<1>3. s \in Seq(Seq(T))
  BY <1>1
<1>4. FlattenSeq(s) \in Seq(T)
  BY <1>3, FlattenSeqIs
<1> QED
  BY <1>2, <1>4 DEF RefList

(* Giving a reference types keeps its source and its line.                 *)
LEMMA NamedRefIs ==
    ASSUME NEW p, NEW ids, NEW module, NEW r, SoundRef(p, ids, module, r)
    PROVE  RefList(p, ids, module, NamedRef(p, r))
<1> DEFINE type == TypeAt(p, r.at, Head(r.name))
           types == type.types
           inferred == type.inferred
           flow == type.flow
           may == type.may
           x == [r EXCEPT !.local = TRUE, !.args = <<>>, !.types = types,
                          !.inferred = inferred, !.flow = flow, !.may = may]
           local == IsLocal(p, r.at, Head(r.name))
           bare == Len(r.name) = 1
<1>1. NamedRef(p, r) = IF ~local THEN <<r>> ELSE IF bare THEN <<>> ELSE <<x>>
  BY Zenon DEF NamedRef
<1> HIDE DEF types, inferred, flow, may, local, bare
<1>2. SoundRef(p, ids, module, x)
  <2>1. {"src", "at", "kind"} \subseteq DOMAIN r
    BY DEF SoundRef
  <2>2. {"src", "at", "kind"} \subseteq DOMAIN x /\ x.src = r.src /\ x.at = r.at /\ x.kind = r.kind
    BY <2>1
  <2> HIDE DEF x
  <2> QED
    BY <2>2 DEF SoundRef
<1> HIDE DEF x
<1>3. /\ RefList(p, ids, module, <<x>>) /\ RefList(p, ids, module, <<r>>)
      /\ RefList(p, ids, module, <<>>)
  BY <1>2, FewRefs
<1> QED
  BY <1>1, <1>3

(* The references of calls, of other expressions, of bases, of imports.    *)
LEMMA CallRefIs ==
    ASSUME NEW p, NEW ids, NEW module, NEW i \in DOMAIN p, NEW n
    PROVE  RefList(p, ids, module, CallRef(p, ids, i, n))
<1> DEFINE e == p[i]
           first == SelectInSeq(e.ops, LAMBDA op : op = Call)
           receiver == <<e.root>> \o SubSeq(e.ops, 1, first - 1)
           members == SelectSeq(SubSeq(e.ops, first, n), LAMBDA op : op # Call)
           src == Source(p, ids, i)
           args == ArgTypes(p, i)
           ref == RawRefAt(i, src, "call", receiver)
           one == [ref EXCEPT !.args = args]
           other == [ref EXCEPT !.chain = members]
<1>1. CallRef(p, ids, i, n) = IF n = first THEN NamedRef(p, one)
                              ELSE IF members = <<>> THEN <<>> ELSE NamedRef(p, other)
  BY Zenon DEF CallRef
<1> HIDE DEF first, receiver, members, src, args
<1>2. /\ {"src", "at", "kind"} \subseteq DOMAIN one /\ one.src = src /\ one.at = i /\ one.kind = "call"
      /\ {"src", "at", "kind"} \subseteq DOMAIN other /\ other.src = src /\ other.at = i /\ other.kind = "call"
  BY DEF RawRefAt
<1> HIDE DEF one, other
<1>3. SoundRef(p, ids, module, one) /\ SoundRef(p, ids, module, other)
  BY <1>2 DEF SoundRef, src
<1>4. /\ RefList(p, ids, module, NamedRef(p, one)) /\ RefList(p, ids, module, NamedRef(p, other))
      /\ RefList(p, ids, module, <<>>)
  BY <1>3, NamedRefIs, FewRefs
<1> QED
  BY <1>1, <1>4

LEMMA ExpressionRefsAre ==
    ASSUME NEW p, Program(p), NEW ids, NEW module, NEW i \in DOMAIN p, p[i].kind = "expr"
    PROVE  RefList(p, ids, module, ExpressionRefs(p, ids, i))
<1> DEFINE e == Loaded(p[i])
           W == {n \in DOMAIN e.ops : e.ops[n] = Call}
           calls == Reverse(InOrder(e.ops, W))
           refs == [k \in DOMAIN calls |-> CallRef(p, ids, i, calls[k])]
           src == Source(p, ids, i)
           name == DottedName(e)
           ref == RawRefAt(i, src, "reference", name)
<1>1. ExpressionRefs(p, ids, i) =
          IF e.root \in {Value, Nil} THEN <<>>
          ELSE IF calls # <<>> THEN FlattenSeq(refs)
          ELSE IF e.ops # <<>> THEN NamedRef(p, ref) ELSE <<>>
  BY Zenon DEF ExpressionRefs
<1>2. IsList(e.ops)
  <2>1. LineOf(p, i)
    BY DEF Program
  <2>2. p[i].ops \in Seq(STRING) /\ (p[i].store => p[i].ops # <<>>)
    BY <2>1, Zenon DEF LineOf
  <2> DEFINE l == p[i]
             ops == l.ops
  <2>3. CASE ~l.store
    <3>1. e.ops = ops
      BY <2>3 DEF Loaded
    <3> QED
      BY <2>2, <3>1 DEF IsList
  <2>4. CASE l.store
    <3>1. e.ops = Front(ops) /\ ops \in Seq(STRING) /\ ops # <<>>
      BY <2>2, <2>4 DEF Loaded
    <3> HIDE DEF ops
    <3>2. Front(ops) \in Seq(STRING)
      BY <3>1 DEF Front
    <3>3. e.ops \in Seq(STRING)
      BY <3>1, <3>2
    <3> QED
      BY <3>3 DEF IsList
  <2> QED
    BY <2>3, <2>4
<1> DEFINE s == InOrder(e.ops, W)
<1>3. s \in Seq(DOMAIN e.ops \cap W)
  BY <1>2, InOrderIs
<1> DEFINE S == DOMAIN e.ops \cap W
<1> HIDE DEF s, W
<1>4. s \in Seq(S)
  BY <1>3
<1> HIDE DEF S
<1>5. Reverse(s) \in Seq(S)
  BY <1>4, ReverseIs
<1>6. calls \in Seq(S)
  BY <1>5 DEF s
<1>7. SoundRef(p, ids, module, ref)
  <2> HIDE DEF src, name
  <2>1. {"src", "at", "kind"} \subseteq DOMAIN ref /\ ref.src = src /\ ref.at = i /\ ref.kind = "reference"
    BY DEF RawRefAt
  <2> HIDE DEF ref
  <2> QED
    BY <2>1 DEF SoundRef, src
<1>8. RefList(p, ids, module, NamedRef(p, ref)) /\ RefList(p, ids, module, <<>>)
  BY <1>7, NamedRefIs, FewRefs
<1>9. RefList(p, ids, module, FlattenSeq(refs))
  <2> HIDE DEF calls
  <2>1. DOMAIN calls = 1 .. Len(calls) /\ Len(calls) \in Nat
    BY <1>6
  <2>2. \A k \in DOMAIN calls : RefList(p, ids, module, refs[k])
    BY CallRefIs
  <2>3. refs = [k \in 1 .. Len(calls) |-> refs[k]]
    BY <2>1
  <2> HIDE DEF refs
  <2> QED
    BY <2>1, <2>2, <2>3, FlatRefs
<1> HIDE DEF e, calls, refs, ref
<1> QED
  BY <1>1, <1>8, <1>9

LEMMA BaseRefsAre ==
    ASSUME NEW p, Program(p), NEW ids, NEW module, NEW i \in DOMAIN p, p[i].kind = "class"
    PROVE  RefList(p, ids, module, BaseRefs(p, ids, i))
<1> DEFINE bases == p[i].bases
           src == DefinitionId(p, ids, i)
           ref(base) == RawRefAt(i, src, "inherits", base)
           refs == [k \in DOMAIN bases |-> IF IsLocal(p, i, Head(bases[k])) THEN <<>> ELSE <<ref(bases[k])>>]
<1>1. BaseRefs(p, ids, i) = FlattenSeq(refs)
  BY Zenon DEF BaseRefs
<1>2. IsList(bases)
  BY DEF Program, LineOf
<1>3. ASSUME NEW base PROVE SoundRef(p, ids, module, ref(base))
  <2> DEFINE r == ref(base)
  <2> HIDE DEF src
  <2>1. {"src", "at", "kind"} \subseteq DOMAIN r /\ r.src = src /\ r.at = i /\ r.kind = "inherits"
    BY DEF RawRefAt
  <2>2. p[i].kind \in Definitions
    BY DEF Definitions
  <2> HIDE DEF r
  <2>3. SoundRef(p, ids, module, r)
    BY <2>1, <2>2 DEF SoundRef, src
  <2> QED
    BY <2>3 DEF r
<1> HIDE DEF bases, ref
<1>4. ASSUME NEW k \in DOMAIN bases PROVE RefList(p, ids, module, refs[k])
  <2>1. RefList(p, ids, module, <<>>) /\ RefList(p, ids, module, <<ref(bases[k])>>)
    BY <1>3, FewRefs
  <2>2. refs[k] = IF IsLocal(p, i, Head(bases[k])) THEN <<>> ELSE <<ref(bases[k])>>
    OBVIOUS
  <2> HIDE DEF refs
  <2> QED
    BY <2>1, <2>2
<1> DEFINE n == Len(bases)
<1>5. n \in Nat /\ refs = [k \in 1 .. n |-> refs[k]]
  BY <1>2 DEF IsList
<1>6. \A k \in 1 .. n : RefList(p, ids, module, refs[k])
  BY <1>2, <1>4 DEF IsList
<1> HIDE DEF refs, n
<1> QED
  BY <1>1, <1>5, <1>6, FlatRefs

LEMMA ImportRefsAre ==
    ASSUME NEW p, Program(p), NEW ids, NEW module, NEW package
    PROVE  RefList(p, ids, module, ImportRefs(p, module, package))
<1> DEFINE targets(l) ==
               IF l.from = None THEN [k \in DOMAIN l.items |-> l.items[k].name]
               ELSE LET mod == FromModule(l, package)
                    IN  IF mod = None THEN <<>>
                        ELSE <<mod>> \o [k \in DOMAIN l.items |-> mod \o l.items[k].name]
           refs(i) == [k \in DOMAIN targets(p[i]) |-> RawRefAt(i, module, "import", targets(p[i])[k])]
           lines == ModuleImports(p)
           s == [k \in DOMAIN lines |-> refs(lines[k])]
<1>1. ImportRefs(p, module, package) = FlattenSeq(s)
  BY Zenon DEF ImportRefs
<1>2. lines \in Seq(DOMAIN p \cap {i \in OwnLines(p, 0) : p[i].kind = "import"})
  BY InOrderIs DEF Program, ModuleImports
<1>3. ASSUME NEW i \in DOMAIN p, p[i].kind = "import" PROVE RefList(p, ids, module, refs(i))
  <2> DEFINE l == p[i]
             n == Len(l.items)
             mod == FromModule(l, package)
             names == [k \in DOMAIN l.items |-> mod \o l.items[k].name]
             one == <<mod>>
             T == targets(l)
  <2>1. n \in Nat /\ DOMAIN l.items = 1 .. n
    BY <1>3 DEF Program, LineOf, IsList
  <2>2. \E m \in Nat : DOMAIN T = 1 .. m
    <3>1. CASE l.from = None
      <4>1. DOMAIN T = 1 .. n
        BY <2>1, <3>1
      <4> HIDE DEF T, n
      <4> QED
        BY <2>1, <4>1
    <3>2. CASE l.from # None /\ mod = None
      <4>1. T = <<>>
        BY <3>2
      <4> HIDE DEF T
      <4>2. DOMAIN T = 1 .. 0
        BY <4>1
      <4> QED
        BY <4>2
    <3>3. CASE l.from # None /\ mod # None
      <4>1. T = one \o names
        BY <3>3
      <4> DEFINE A == {mod} \cup {mod \o l.items[k].name : k \in DOMAIN l.items}
      <4>2. names \in Seq(A) /\ one \in Seq(A)
        <5>1. \A k \in DOMAIN l.items : names[k] \in A
          OBVIOUS
        <5>2. names = [k \in 1 .. n |-> names[k]]
          BY <2>1
        <5>3. mod \in A
          OBVIOUS
        <5> HIDE DEF A, mod
        <5>4. one \in Seq(A)
          BY <5>3
        <5> HIDE DEF names, one, n
        <5>5. names \in Seq(A)
          BY <2>1, <5>1, <5>2
        <5> QED
          BY <5>4, <5>5
      <4> HIDE DEF T, names, one, A
      <4>3. T \in Seq(A)
        BY <4>1, <4>2
      <4> QED
        BY <4>3
    <3> QED
      BY <3>1, <3>2, <3>3
  <2>3. PICK m \in Nat : DOMAIN T = 1 .. m
    BY <2>2
  <2>4. refs(i) = [k \in DOMAIN T |-> RawRefAt(i, module, "import", T[k])]
    OBVIOUS
  <2> DEFINE R == {RawRefAt(i, module, "import", T[k]) : k \in 1 .. m}
  <2> HIDE DEF T, refs
  <2>5. ASSUME NEW k \in 1 .. m PROVE SoundRef(p, ids, module, RawRefAt(i, module, "import", T[k]))
    BY DEF SoundRef, RawRefAt
  <2>6. refs(i) \in Seq(R)
    BY <2>3, <2>4
  <2> QED
    BY <2>5, <2>6 DEF RefList
<1> HIDE DEF targets, refs, lines
<1>4. ASSUME NEW k \in DOMAIN lines PROVE RefList(p, ids, module, s[k])
  <2>1. lines[k] \in DOMAIN p /\ p[lines[k]].kind = "import"
    BY <1>2
  <2> QED
    BY <1>3, <2>1
<1>5. Len(lines) \in Nat /\ DOMAIN lines = 1 .. Len(lines) /\ s = [k \in 1 .. Len(lines) |-> s[k]]
  BY <1>2
<1> HIDE DEF s
<1> QED
  BY <1>1, <1>4, <1>5, FlatRefs

(* extract_refs: every reference of a file has its source.                 *)
LEMMA ExtractRefsAre ==
    ASSUME NEW p, Program(p), NEW ids, NEW module, NEW package
    PROVE  RefList(p, ids, module, ExtractRefs(p, ids, module, package))
<1> DEFINE s == [i \in DOMAIN p |-> LineRefs(p, ids, i)]
<1>1. ASSUME NEW i \in DOMAIN p PROVE RefList(p, ids, module, s[i])
  <2>1. LineRefs(p, ids, i) = IF p[i].kind = "class" THEN BaseRefs(p, ids, i)
                              ELSE IF p[i].kind = "expr" THEN ExpressionRefs(p, ids, i) ELSE <<>>
    BY DEF LineRefs
  <2>2. p[i].kind = "class" => RefList(p, ids, module, BaseRefs(p, ids, i))
    BY BaseRefsAre
  <2>3. p[i].kind = "expr" => RefList(p, ids, module, ExpressionRefs(p, ids, i))
    BY ExpressionRefsAre
  <2> QED
    BY <2>1, <2>2, <2>3, FewRefs
<1>2. Len(p) \in Nat /\ DOMAIN p = 1 .. Len(p) /\ s = [i \in 1 .. Len(p) |-> s[i]]
  BY DEF Program, IsList
<1>3. ExtractRefs(p, ids, module, package) = FlattenSeq(s) \o ImportRefs(p, module, package)
  BY Zenon DEF ExtractRefs
<1> HIDE DEF s
<1>4. RefList(p, ids, module, FlattenSeq(s))
  BY <1>1, <1>2, FlatRefs
<1> QED
  BY <1>3, <1>4, ImportRefsAre, JoinedRefs

-----------------------------------------------------------------------------
(* A name by itself.                                                       *)
LEMMA NameIs ==
    ASSUME NEW name \in STRING
    PROVE  <<name>> \in Names /\ Len(<<name>>) = 1 /\ DOMAIN <<name>> = {1} /\ <<name>>[1] = name
BY SingleIs, Zenon DEF Names

(* What the pass over all lines has kept.                                  *)
LEMMA AllPassed ==
    ASSUME NEW p, Program(p), NEW module \in Seq(Written) \ {<<>>}, NEW isInit
    PROVE  LET pass == ExtractSymbols(p, module)
               fi == ParseFile(module, isInit, p)
           IN  /\ Keeps(p, module, DefinedTo(p, Len(p)), pass.symbols, pass.ids)
               /\ {"module", "symbols", "refs"} \subseteq DOMAIN fi
               /\ fi.module = module /\ fi.symbols = pass.symbols /\ fi.source = p
               /\ RefList(p, pass.ids, module, fi.refs)
<1> DEFINE pass == ExtractSymbols(p, module)
           package == Package(module, isInit)
           fi == ParseFile(module, isInit, p)
           refs == ExtractRefs(p, pass.ids, module, package)
           imports == CollectImports(p, package)
<1>1. Keeps(p, module, DefinedTo(p, Len(p)), pass.symbols, pass.ids)
  BY ExtractPassed DEF Passed
<1>2. fi = [module |-> module, package |-> package, source |-> p,
            symbols |-> pass.symbols, refs |-> refs, imports |-> imports]
  BY Zenon DEF ParseFile
<1>3. RefList(p, pass.ids, module, refs)
  BY ExtractRefsAre
<1> HIDE DEF pass, package, fi, refs, imports
<1>4. /\ {"module", "symbols", "refs"} \subseteq DOMAIN fi
      /\ fi.module = module /\ fi.symbols = pass.symbols /\ fi.source = p /\ fi.refs = refs
  BY <1>2
<1> QED
  BY <1>1, <1>3, <1>4 DEF pass, fi

(* The symbols of a product, but the module's.                             *)
LEMMA ClaimedIs ==
    ASSUME NEW syms, Sound(syms), NEW k \in DOMAIN syms \ {1}
    PROVE  /\ DOMAIN syms[k] = SymbolFields
           /\ syms[k] = [field \in DOMAIN syms[k] |-> syms[k][field]]
           /\ syms[k].id \in Names /\ syms[k].kind # "module"
           /\ syms[k].parent \in IdsIn(syms, k - 1)
           /\ \E name \in Written : syms[k].name = <<name>>
           /\ FirstFree(IdsIn(syms, k - 1), syms[k].parent \o syms[k].name, syms[k].id)
<1>1. Claimed(syms, k)
  BY DEF Sound
<1> DEFINE s == syms[k]
<1>2. PICK name \in Written : Reads(s, s.at, s.id, name, s.parent)
  BY <1>1 DEF Claimed
<1>3. /\ DOMAIN s = SymbolFields /\ s = [field \in SymbolFields |-> s[field]]
      /\ s.name = <<name>> /\ s.kind # "module"
  BY <1>2, Zenon DEF Reads
<1> QED
  BY <1>1, <1>3, Zenon DEF Claimed

LEMMA ModuleReads ==
    ASSUME NEW module
    PROVE  /\ DOMAIN ModuleSymbol(module) = SymbolFields
           /\ ModuleSymbol(module) = [field \in DOMAIN ModuleSymbol(module) |-> ModuleSymbol(module)[field]]
           /\ ModuleSymbol(module).id = module /\ ModuleSymbol(module).kind = "module"
           /\ ModuleSymbol(module).name = <<Last(module)>>
           /\ ModuleSymbol(module).parent = IF Len(module) = 1 THEN None ELSE Front(module)
<1> DEFINE name == Last(module)
           parent == IF Len(module) = 1 THEN None ELSE Front(module)
           s == SymbolAt(0, module, name, "module", parent)
<1>1. ModuleSymbol(module) = s
  BY Zenon DEF ModuleSymbol
<1> HIDE DEF name, parent
<1>2. /\ DOMAIN s = SymbolFields /\ s = [field \in DOMAIN s |-> s[field]]
      /\ s.id = module /\ s.kind = "module" /\ s.name = <<name>> /\ s.parent = parent
  BY DEF SymbolAt, SymbolFields
<1> HIDE DEF s
<1> QED
  BY <1>1, <1>2 DEF name, parent

(* The product of any file, as finalisation takes it.                      *)
LEMMA ProductIs ==
    ASSUME NEW p, Program(p), NEW module \in Seq(Written) \ {<<>>}, NEW isInit
    PROVE  WellFormed(ParseFile(module, isInit, p)) /\ Settled(ParseFile(module, isInit, p))
<1> DEFINE fi == ParseFile(module, isInit, p)
           syms == ExtractSymbols(p, module).symbols
           ids == ExtractSymbols(p, module).ids
<1>1. /\ Keeps(p, module, DefinedTo(p, Len(p)), syms, ids)
      /\ {"module", "symbols", "refs"} \subseteq DOMAIN fi
      /\ fi.module = module /\ fi.symbols = syms
      /\ RefList(p, ids, module, fi.refs)
  BY AllPassed
<1> HIDE DEF fi, syms, ids
<1>2. syms \in Seq(MadeIn(p, module)) /\ syms # <<>> /\ syms[1] = ModuleSymbol(module) /\ Sound(syms)
  BY <1>1 DEF Keeps
<1>3. DOMAIN syms = 1 .. Len(syms) /\ Len(syms) \in Nat \ {0} /\ syms = [k \in DOMAIN syms |-> syms[k]]
  <2> DEFINE M == MadeIn(p, module)
  <2>1. syms \in Seq(M) /\ syms # <<>>
    BY <1>2
  <2> HIDE DEF M
  <2> QED
    BY <2>1
<1>4. module \in Names \ {<<>>} /\ Len(module) \in Nat /\ Len(module) # 0 /\ DOMAIN module = 1 .. Len(module)
      /\ \A c \in DOMAIN module : module[c] \in Written
  BY DEF Names, Written
<1>5. /\ DOMAIN syms[1] = SymbolFields /\ syms[1] = [field \in DOMAIN syms[1] |-> syms[1][field]]
      /\ syms[1].id = module /\ syms[1].kind = "module" /\ syms[1].name = <<Last(module)>>
      /\ syms[1].parent = IF Len(module) = 1 THEN None ELSE Front(module)
  BY <1>2, ModuleReads
<1>6. WellFormed(fi)
  <2>1. Recorded(fi)
    <3>1. \A k \in DOMAIN syms : syms[k] = [field \in DOMAIN syms[k] |-> syms[k][field]]
      BY <1>2, <1>5, ClaimedIs
    <3> QED
      BY <1>1, <1>3, <3>1, Zenon DEF Recorded
  <2>2. ASSUME NEW k \in DOMAIN syms
        PROVE  /\ {"id", "name", "kind", "parent"} \subseteq DOMAIN syms[k]
               /\ syms[k].id \in Names /\ syms[k].name \in Names
               /\ k = 1 <=> syms[k].kind = "module"
               /\ k = 1 => syms[k].id = module
               /\ IF k = 1
                  THEN syms[k].parent = IF Len(module) = 1 THEN None ELSE Front(module)
                  ELSE \E j \in 1 .. k - 1 : syms[k].parent = syms[j].id
    <3>1. CASE k = 1
      <4>1. Last(module) \in STRING
        BY <1>4 DEF Last, Written
      <4>2. <<Last(module)>> \in Names
        BY <4>1, NameIs
      <4> QED
        BY <1>4, <1>5, <3>1, <4>2 DEF SymbolFields
    <3>2. CASE k # 1
      <4>1. /\ DOMAIN syms[k] = SymbolFields /\ syms[k].id \in Names /\ syms[k].kind # "module"
            /\ syms[k].parent \in IdsIn(syms, k - 1)
        BY <1>2, <3>2, ClaimedIs
      <4>2. PICK name \in Written : syms[k].name = <<name>>
        BY <1>2, <3>2, ClaimedIs
      <4>3. <<name>> \in Names
        BY NameIs DEF Written
      <4> QED
        BY <3>2, <4>1, <4>2, <4>3 DEF SymbolFields, IdsIn
    <3> QED
      BY <3>1, <3>2
  <2>3. \A r \in DOMAIN fi.refs : "src" \in DOMAIN fi.refs[r]
    <3>1. PICK T : fi.refs \in Seq(T) /\ \A r \in T : SoundRef(p, ids, module, r)
      BY <1>1 DEF RefList
    <3>2. \A r \in DOMAIN fi.refs : fi.refs[r] \in T
      BY <3>1
    <3> QED
      BY <3>1, <3>2 DEF SoundRef
  <2>4. /\ {"module", "symbols", "refs"} \subseteq DOMAIN fi
        /\ fi.module \in Names \ {<<>>}
        /\ DOMAIN fi.symbols = 1 .. Len(fi.symbols) /\ Len(fi.symbols) \in Nat \ {0}
    BY <1>1, <1>3, <1>4
  <2> QED
    BY <1>1, <2>1, <2>2, <2>3, <2>4, Zenon DEF WellFormed
<1>7. Settled(fi)
  <2>1. ~Marked(module)
    BY <1>4 DEF Marked, Written
  <2>2. ASSUME NEW k \in DOMAIN syms \ {1}
        PROVE  /\ Len(syms[k].name) = 1 /\ ~Marked(syms[k].name)
               /\ FirstFree(Before(fi, k), syms[k].parent \o syms[k].name, syms[k].id)
    <3>1. PICK name \in Written : syms[k].name = <<name>>
      BY <1>2, ClaimedIs
    <3>2. Len(<<name>>) = 1 /\ ~Marked(<<name>>)
      <4>1. name \in STRING /\ name \notin ToSet(Marks)
        BY DEF Written
      <4> DEFINE one == <<name>>
      <4>2. Len(one) = 1 /\ DOMAIN one = {1} /\ one[1] = name
        BY <4>1, NameIs
      <4> HIDE DEF one
      <4>3. ~Marked(one)
        BY <4>1, <4>2 DEF Marked
      <4> QED
        BY <4>2, <4>3 DEF one
    <3>3. FirstFree(IdsIn(syms, k - 1), syms[k].parent \o syms[k].name, syms[k].id)
      BY <1>2, ClaimedIs
    <3>4. Before(fi, k) = IdsIn(syms, k - 1)
      BY <1>1 DEF Before, IdsIn
    <3> QED
      BY <3>1, <3>2, <3>3, <3>4
  <2> QED
    BY <1>1, <2>1, <2>2, Zenon DEF Settled, FirstFree
<1> QED
  BY <1>6, <1>7 DEF fi

(* Ids once, and references made from symbols at the right lines.          *)
Encloses(fi) ==
    /\ IsInjective([k \in DOMAIN fi.symbols |-> fi.symbols[k].id])
    /\ \A r \in DOMAIN fi.refs : \E k \in DOMAIN fi.symbols :
          /\ fi.symbols[k].id = fi.refs[r].src
          /\ fi.symbols[k].at = IF fi.refs[r].kind = "import" THEN 0
                                ELSE IF fi.refs[r].kind = "inherits" THEN fi.refs[r].at
                                ELSE Home(fi, fi.refs[r].at)

(* An id that is claimed is not one before.                                *)
LEMMA SoundIsOnce ==
    ASSUME NEW syms, IsList(syms), Sound(syms)
    PROVE  IsInjective([k \in DOMAIN syms |-> syms[k].id])
<1>1. Len(syms) \in Nat /\ DOMAIN syms = 1 .. Len(syms)
  BY DEF IsList
<1>2. ASSUME NEW j \in DOMAIN syms, NEW k \in DOMAIN syms, j < k PROVE syms[j].id # syms[k].id
  <2>1. k \in DOMAIN syms \ {1} /\ j \in 1 .. k - 1
    BY <1>1, <1>2
  <2>2. syms[k].id \notin IdsIn(syms, k - 1)
    BY <2>1, ClaimedIs DEF FirstFree
  <2> QED
    BY <2>1, <2>2 DEF IdsIn
<1>3. \A j, k \in DOMAIN syms : j < k \/ k < j \/ j = k
  BY <1>1
<1>4. \A j, k \in DOMAIN syms : syms[j].id = syms[k].id => j = k
  BY <1>2, <1>3
<1> QED
  BY <1>4 DEF IsInjective

(* Without except*, every definition is a symbol that references find.     *)
LEMMA ProductEncloses ==
    ASSUME NEW p, Program(p), NEW module \in Seq(Written) \ {<<>>}, NEW isInit,
           \A d \in DOMAIN p : p[d].kind \in Definitions => Visited(p, d)
    PROVE  Encloses(ParseFile(module, isInit, p))
<1> DEFINE fi == ParseFile(module, isInit, p)
           syms == ExtractSymbols(p, module).symbols
           ids == ExtractSymbols(p, module).ids
           D == DefinedTo(p, Len(p))
<1>1. /\ Keeps(p, module, D, syms, ids)
      /\ fi.symbols = syms /\ fi.source = p
      /\ RefList(p, ids, module, fi.refs)
  BY AllPassed
<1>2. Len(p) \in Nat /\ DOMAIN p = 1 .. Len(p)
  BY DEF Program, IsList
<1>3. 0 \in D /\ \A d \in DOMAIN p : p[d].kind \in Definitions => d \in D
  BY <1>2 DEF DefinedTo
<1> HIDE DEF fi, syms, ids
<1>4. /\ ids \in [D -> Names] /\ ids[0] = module
      /\ \A d \in D : \E k \in DOMAIN syms : syms[k].id = ids[d] /\ syms[k].at = d
      /\ syms \in Seq(MadeIn(p, module)) /\ Sound(syms)
  BY <1>1 DEF Keeps
<1>5. \A d \in D : DefinitionId(p, ids, d) = ids[d]
  BY <1>4, DefinitionIs
<1> HIDE DEF D
<1>6. ASSUME NEW i \in DOMAIN p PROVE EnclosingDefinition(p, i) \in D
  BY <1>3, InnermostIs DEF EnclosingDefinition
<1>7. ASSUME NEW r, SoundRef(p, ids, module, r)
      PROVE  \E k \in DOMAIN syms :
                /\ syms[k].id = r.src
                /\ syms[k].at = IF r.kind = "import" THEN 0
                                ELSE IF r.kind = "inherits" THEN r.at ELSE EnclosingDefinition(p, r.at)
  <2>1. CASE r.kind = "import" /\ r.src = module
    BY <1>3, <1>4, <2>1
  <2>2. CASE /\ r.kind = "inherits" /\ r.src = DefinitionId(p, ids, r.at)
             /\ r.at \in DOMAIN p /\ p[r.at].kind \in Definitions
    <3>1. r.at \in D /\ r.src = ids[r.at]
      BY <1>3, <1>5, <2>2
    <3> QED
      BY <1>4, <2>2, <3>1
  <2>3. CASE r.kind \notin {"import", "inherits"} /\ r.src = Source(p, ids, r.at) /\ r.at \in DOMAIN p
    <3> DEFINE d == EnclosingDefinition(p, r.at)
    <3>1. d \in D
      BY <1>6, <2>3
    <3>2. r.src = DefinitionId(p, ids, d)
      BY <2>3 DEF Source
    <3> HIDE DEF d
    <3>3. r.src = ids[d]
      BY <1>5, <3>1, <3>2
    <3>4. PICK k \in DOMAIN syms : syms[k].id = ids[d] /\ syms[k].at = d
      BY <1>4, <3>1
    <3> QED
      BY <2>3, <3>3, <3>4 DEF d
  <2> QED
    BY <1>7, <2>1, <2>2, <2>3 DEF SoundRef
<1>8. IsInjective([k \in DOMAIN syms |-> syms[k].id])
  <2> DEFINE M == MadeIn(p, module)
  <2>1. syms \in Seq(M)
    BY <1>4
  <2> HIDE DEF M
  <2>2. IsList(syms)
    BY <2>1 DEF IsList
  <2> QED
    BY <1>4, <2>2, SoundIsOnce
<1>9. PICK T : fi.refs \in Seq(T) /\ \A r \in T : SoundRef(p, ids, module, r)
  BY <1>1 DEF RefList
<1>10. \A r \in DOMAIN fi.refs : SoundRef(p, ids, module, fi.refs[r])
  BY <1>9
<1>11. \A i : Home(fi, i) = EnclosingDefinition(p, i)
  BY <1>1 DEF Home
<1>12. Encloses(fi)
  BY <1>1, <1>7, <1>8, <1>10, <1>11 DEF Encloses
<1> QED
  BY <1>12 DEF fi

(* backend.py and _unique in symbols.py, for any program: a product has a  *)
(* module symbol, parents before their children, and ids that are each the *)
(* first free one for the parent and the name.  It is what the theorems    *)
(* above ask of a backend.                                                 *)
THEOREM ProductsAreSettled ==
    ASSUME FromFiles, \A src \in Projects : ByPython(src),
           NEW sources \in Projects, NEW i \in DOMAIN sources
    PROVE  WellFormed(Parsed(sources)[i]) /\ Settled(Parsed(sources)[i])
<1> DEFINE s == sources[i]
<1>1. /\ s.module \in Seq(Written) \ {<<>>} /\ Program(s.lines)
      /\ Parse(s.module, s.isInit, s.lines) = ParseFile(s.module, s.isInit, s.lines)
  BY DEF FromFiles, ByPython
<1>2. Parsed(sources)[i] = Parse(s.module, s.isInit, s.lines)
  BY DEF Parsed
<1> HIDE DEF s
<1> QED
  BY <1>1, <1>2, ProductIs

LEMMA ProductsEnclose ==
    ASSUME FromFiles, \A src \in Projects : ByPython(src), NoExceptStar,
           NEW sources \in Projects, NEW i \in DOMAIN sources
    PROVE  Encloses(Parsed(sources)[i])
<1> DEFINE s == sources[i]
<1>1. /\ s.module \in Seq(Written) \ {<<>>} /\ Program(s.lines)
      /\ Parse(s.module, s.isInit, s.lines) = ParseFile(s.module, s.isInit, s.lines)
  BY DEF FromFiles, ByPython
<1>2. \A d \in DOMAIN s.lines : s.lines[d].kind \in Definitions => Visited(s.lines, d)
  BY DEF NoExceptStar
<1>3. Parsed(sources)[i] = Parse(s.module, s.isInit, s.lines)
  BY DEF Parsed
<1> HIDE DEF s
<1> QED
  BY <1>1, <1>2, <1>3, ProductEncloses

(* symbols.py:48-51, for any programs without definitions in except*: no   *)
(* two symbols of a file have one id, and every reference is made from the *)
(* symbol of the definition it stands in, wherever that is and however     *)
(* many have its name; a base from its class, an import from the module.   *)
THEOREM SourcesStayEnclosed ==
    ASSUME FromFiles, \A src \in Projects : ByPython(src), NoExceptStar
    PROVE  Spec => []SourcesEnclose
<1> DEFINE Enclosing == \A i \in DOMAIN files : Encloses(files[i])
<1>1. Init => Enclosing
  <2>1. ASSUME NEW sources \in Projects PROVE DOMAIN Parsed(sources) = DOMAIN sources
    BY DEF Parsed
  <2> QED
    BY <2>1, ProductsEnclose DEF Init
<1>2. Enclosing /\ [Next]_vars => Enclosing'
  <2>1. [Next]_vars => UNCHANGED files
    BY DEF Next, ReturnUntouched, ReserveModule, ReformSymbol, FinishFile, vars
  <2> QED
    BY <2>1
<1>3. Enclosing => SourcesEnclose
  <2>1. ASSUME NEW fi, Encloses(fi), NEW r \in ToSet(fi.refs)
        PROVE  \E s \in ToSet(fi.symbols) :
                  /\ s.id = r.src
                  /\ s.at = IF r.kind = "import" THEN 0
                            ELSE IF r.kind = "inherits" THEN r.at ELSE Home(fi, r.at)
    <3>1. PICK n \in DOMAIN fi.refs : fi.refs[n] = r
      BY DEF ToSet
    <3>2. PICK k \in DOMAIN fi.symbols :
              /\ fi.symbols[k].id = fi.refs[n].src
              /\ fi.symbols[k].at = IF fi.refs[n].kind = "import" THEN 0
                                    ELSE IF fi.refs[n].kind = "inherits" THEN fi.refs[n].at
                                    ELSE Home(fi, fi.refs[n].at)
      BY <2>1, Zenon DEF Encloses
    <3>3. fi.symbols[k] \in ToSet(fi.symbols)
      BY DEF ToSet
    <3> QED
      BY <3>1, <3>2, <3>3
  <2>2. Enclosing => \A fi \in Extracted : Encloses(fi)
    BY DEF Extracted, ToSet
  <2> QED
    BY <2>1, <2>2 DEF SourcesEnclose, Encloses
<1> HIDE DEF Enclosing
<1> QED
  BY <1>1, <1>2, <1>3, PTL DEF Spec

(* finalize.py:94-96 for any programs: of the files that extraction makes, *)
(* one that clashes with none comes back as it was.                        *)
THEOREM UntouchedStay ==
    ASSUME FromFiles, \A src \in Projects : ByPython(src)
    PROVE  Spec => []UntouchedFilesKept
<1>1. \A sources \in Projects : \A i \in DOMAIN sources : Settled(Parsed(sources)[i])
  BY ProductsAreSettled
<1> QED
  BY <1>1, UntouchedAreKept

(* finalize.py:100 for any programs without definitions in except*: after  *)
(* renaming, every reference that extraction makes is still made from the  *)
(* symbol it was made from.                                                *)
THEOREM EdgesFollow ==
    ASSUME FromFiles, \A src \in Projects : ByPython(src), NoExceptStar
    PROVE  Spec => []RefsFollow
<1>1. \A sources \in Projects : \A i \in DOMAIN sources : SourcesAreSymbols(Parsed(sources)[i])
  BY ProductsEnclose DEF Encloses, SourcesAreSymbols
<1> QED
  BY <1>1, ReferencesFollow
=============================================================================
