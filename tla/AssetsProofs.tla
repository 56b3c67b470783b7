---------------------------- MODULE AssetsProofs ----------------------------
(* Theorems about Assets for any contents, sessions, storers and ages.     *)
EXTENDS Assets, TLAPS

(* Whoever is between two steps of a transaction holds the write lock, a   *)
(* storer's temporary file is its own until it is unlinked, and what it    *)
(* published stays until its transaction ends.                             *)
StoreInv(p) ==
    /\ store[p].pc \in {"open", "synced", "linked"} => store[p].temp \in Temps /\ store[p].temp \in Files
    /\ store[p].pc = "synced" => dir[store[p].temp].data = "synced"
    /\ store[p].pc \notin {"open", "synced", "linked"} => store[p].temp = NoOne
    /\ store[p].pc # "idle" => store[p].digest \in Digests
    /\ store[p].pc \in {"linked", "clean", "flushed"} => lock = p /\ store[p].digest \in Files
    /\ store[p].pc = "flushed" => store[p].digest \in DOMAIN disk

GcInv(c) ==
    /\ gc[c].pc \in {"unlinked", "swept"} => lock = c
    /\ gc[c].pc = "removed" => gc[c].cur \in Digests

TempsApart == \A p, q \in Storers : store[p].temp = store[q].temp /\ store[p].temp # NoOne => p = q

(* Only complete files get the name of a digest.                           *)
DataInv ==
    /\ \A n \in Digests \cap Files : dir[n].data = "synced"
    /\ \A n \in Digests \cap DOMAIN disk : disk[n].data = "synced"

BaseInv ==
    /\ TypeOK /\ DataInv /\ LinkedIsCataloged /\ TempsApart
    /\ \A p \in Storers : StoreInv(p)
    /\ \A c \in Collectors : GcInv(c)

(* A cataloged file has reached the disk, and so has the one whose row was *)
(* just removed.  The second half is what restore_catalog_row rests on; it *)
(* holds as long as no second collector is at work.                        *)
OnDisk == Digests \cap Files \cap DOMAIN disk

DiskInv ==
    /\ Cataloged \subseteq OnDisk
    /\ \A c \in Collectors : gc[c].pc = "removed" => gc[c].cur \in OnDisk

OneCollector == \A c, e \in Collectors : c = e

-----------------------------------------------------------------------------
(* Operators.                                                              *)

(* What AssetsAssumption says, name by name. *)
LEMMA Constants ==
    /\ NoOne \notin Storers /\ NoOne \notin Collectors /\ NoOne \notin Digests /\ NoOne \notin Temps
    /\ \A p \in Storers : p \notin Collectors
    /\ \A d \in Digests : d \notin Temps
    /\ Grace \in Nat /\ Grace >= 1 /\ TempMin \in Nat /\ TempMin >= 1 /\ MaxLate \in Nat
  BY AssetsAssumption

(* The cap on ages is a number. *)
LEMMA CapIs == Cap \in Nat
  <1>1. Max({Grace, TempMin}) \in Nat
    <2>1. \E x \in {Grace, TempMin} : \A y \in {Grace, TempMin} : x >= y
      BY Constants
    <2>2. Max({Grace, TempMin}) \in {Grace, TempMin}
      BY <2>1 DEF Max
    <2> QED BY <2>2, Constants
  <1> QED BY <1>1, Constants DEF Cap

(* A partial function is a function from some of the domain.               *)
LEMMA PartialIs ==
    ASSUME NEW D, NEW R, NEW f
    PROVE  f \in Partial(D, R) <=> DOMAIN f \subseteq D /\ f \in [DOMAIN f -> R]
  <1>1. ASSUME f \in Partial(D, R) PROVE DOMAIN f \subseteq D /\ f \in [DOMAIN f -> R]
    <2>1. PICK d \in SUBSET D : f \in [d -> R]
      BY <1>1 DEF Partial
    <2> QED BY <2>1
  <1>2. ASSUME DOMAIN f \subseteq D, f \in [DOMAIN f -> R] PROVE f \in Partial(D, R)
    BY <1>2 DEF Partial
  <1> QED BY <1>1, <1>2

(* Replacing one value of a partial function. *)
LEMMA SetIs ==
    ASSUME NEW D, NEW R, NEW f \in Partial(D, R), NEW x \in DOMAIN f, NEW y \in R
    PROVE  /\ [f EXCEPT ![x] = y] \in Partial(D, R) /\ DOMAIN [f EXCEPT ![x] = y] = DOMAIN f
           /\ [f EXCEPT ![x] = y][x] = y /\ \A z \in DOMAIN f : z # x => [f EXCEPT ![x] = y][z] = f[z]
  <1>1. DOMAIN f \subseteq D /\ f \in [DOMAIN f -> R]
    BY PartialIs
  <1>2. DOMAIN [f EXCEPT ![x] = y] = DOMAIN f /\ [f EXCEPT ![x] = y] \in [DOMAIN f -> R]
    BY <1>1
  <1>3. [f EXCEPT ![x] = y] \in Partial(D, R)
    BY <1>1, <1>2, PartialIs
  <1> QED BY <1>1, <1>2, <1>3

-----------------------------------------------------------------------------
(* What a step owes to those who do not take it.                           *)

(* What storer q relies on.                                                *)
DirKeeps(q) ==
    /\ store'[q] = store[q]
    /\ lock = q => /\ lock' = q
                   /\ Digests \cap Files \subseteq DOMAIN dir'
                   /\ OnDisk \subseteq DOMAIN disk'
    /\ store[q].temp \in Temps /\ store[q].temp \in Files =>
          /\ store[q].temp \in DOMAIN dir'
          /\ dir[store[q].temp].data = "synced" => dir'[store[q].temp].data = "synced"

(* A storer that is not acting keeps its invariant while its temporary stays in the
   directory. *)
LEMMA OthersKeep ==
    ASSUME NEW q \in Storers, StoreInv(q), DirKeeps(q)
    PROVE  StoreInv(q)'
  <1>1. PICK s : s = store[q] /\ s = store'[q]
    BY DEF DirKeeps
  <1>2. s.pc \in {"open", "synced", "linked"} => s.temp \in Temps /\ s.temp \in DOMAIN dir'
    BY <1>1 DEF StoreInv, DirKeeps
  <1>3. s.pc = "synced" => dir'[s.temp].data = "synced"
    BY <1>1 DEF StoreInv, DirKeeps
  <1>4. s.pc \in {"linked", "clean", "flushed"} => lock' = q /\ s.digest \in DOMAIN dir'
    BY <1>1 DEF StoreInv, DirKeeps
  <1>5. s.pc = "flushed" => s.digest \in DOMAIN disk'
    BY <1>1 DEF StoreInv, DirKeeps, OnDisk
  <1>6. (s.pc \notin {"open", "synced", "linked"} => s.temp = NoOne) /\ (s.pc # "idle" => s.digest \in Digests)
    BY <1>1 DEF StoreInv
  <1> QED BY <1>1, <1>2, <1>3, <1>4, <1>5, <1>6 DEF StoreInv, Files

(* A step of storer p.                                                     *)
LEMMA StorerTurn ==
    ASSUME BaseInv, NEW p \in Storers, NEW s \in Store, store' = [store EXCEPT ![p] = s], UNCHANGED gc,
           catalog' \in Partial(Digests, Ages), dir' \in Partial(Names, File), disk' \in Partial(Names, File),
           links' \subseteq Sessions \X Digests, lock' \in Storers \cup Collectors \cup {NoOne},
           unused' \in [Digests -> 0..Grace], DataInv', LinkedIsCataloged', StoreInv(p)',
           \A q \in Storers \ {p} : DirKeeps(q), lock \in Collectors => lock' = lock,
           s.temp = NoOne \/ s.temp = store[p].temp \/ \A q \in Storers : store[q].temp # s.temp
    PROVE  BaseInv'
  <1>1. store \in [Storers -> Store]
    BY DEF BaseInv, TypeOK
  <1>2. store' \in [Storers -> Store] /\ store'[p] = s /\ \A q \in Storers \ {p} : store'[q] = store[q]
    BY <1>1
  <1>3. TypeOK'
    BY <1>2 DEF BaseInv, TypeOK
  <1>4. \A q \in Storers : StoreInv(q)'
    BY OthersKeep DEF BaseInv
  <1>5. \A c \in Collectors : GcInv(c)'
    BY DEF BaseInv, GcInv
  <1>6. TempsApart'
    BY <1>2 DEF BaseInv, TempsApart
  <1> QED BY <1>3, <1>4, <1>5, <1>6 DEF BaseInv

(* A step of collector c.                                                  *)
LEMMA CollectorTurn ==
    ASSUME BaseInv, NEW c \in Collectors, NEW g \in Gc, gc' = [gc EXCEPT ![c] = g], UNCHANGED <<store, links, unused>>,
           catalog' \in Partial(Digests, Ages), dir' \in Partial(Names, File), disk' \in Partial(Names, File),
           lock' \in Storers \cup Collectors \cup {NoOne},
           DataInv', LinkedIsCataloged', GcInv(c)',
           \A q \in Storers : DirKeeps(q), lock \in Collectors \ {c} => lock' = lock
    PROVE  BaseInv'
  <1>1. gc \in [Collectors -> Gc]
    BY DEF BaseInv, TypeOK
  <1>2. gc' \in [Collectors -> Gc] /\ \A e \in Collectors \ {c} : gc'[e] = gc[e]
    BY <1>1
  <1>3. TypeOK'
    BY <1>2 DEF BaseInv, TypeOK
  <1>4. \A q \in Storers : StoreInv(q)'
    BY OthersKeep DEF BaseInv
  <1>5. \A e \in Collectors : GcInv(e)'
    BY <1>2 DEF BaseInv, GcInv
  <1>6. TempsApart'
    BY DEF BaseInv, TempsApart
  <1> QED BY <1>3, <1>4, <1>5, <1>6 DEF BaseInv


-----------------------------------------------------------------------------
(* The steps of a storer.                                                  *)

(* A digest's file stays where it is, in the directory and on disk.        *)
DigestsStay ==
    /\ Digests \cap Files \subseteq DOMAIN dir'
    /\ OnDisk \subseteq DOMAIN disk'

(* The types of the variables, one by one. *)
LEMMA Now ==
    ASSUME BaseInv
    PROVE  /\ catalog \in Partial(Digests, Ages) /\ dir \in Partial(Names, File) /\ disk \in Partial(Names, File)
           /\ links \subseteq Sessions \X Digests /\ lock \in Storers \cup Collectors \cup {NoOne}
           /\ unused \in [Digests -> 0..Grace] /\ store \in [Storers -> Store] /\ gc \in [Collectors -> Gc]
           /\ Cataloged \subseteq Digests /\ Files \subseteq Names /\ DOMAIN disk \subseteq Names
           /\ \A n \in Files : dir[n] \in File
           /\ \A d \in Cataloged : catalog[d] \in Ages
           /\ NoOne \notin Files
  <1>1. /\ catalog \in Partial(Digests, Ages) /\ dir \in Partial(Names, File) /\ disk \in Partial(Names, File)
        /\ links \subseteq Sessions \X Digests /\ lock \in Storers \cup Collectors \cup {NoOne}
        /\ unused \in [Digests -> 0..Grace] /\ store \in [Storers -> Store] /\ gc \in [Collectors -> Gc]
    BY DEF BaseInv, TypeOK
  <1>2. Cataloged \subseteq Digests /\ \A d \in Cataloged : catalog[d] \in Ages
    BY <1>1, PartialIs DEF Cataloged
  <1>3. Files \subseteq Names /\ \A n \in Files : dir[n] \in File
    BY <1>1, PartialIs DEF Files
  <1>4. DOMAIN disk \subseteq Names
    BY <1>1, PartialIs
  <1> QED BY <1>1, <1>2, <1>3, <1>4, Constants DEF Names

(* Entries that come and go, in the directory and in the catalog.          *)
LEMMA DirWith ==
    ASSUME BaseInv, NEW x \in Names, NEW y \in File
    PROVE  /\ With(dir, x, y) \in Partial(Names, File) /\ DOMAIN With(dir, x, y) = DOMAIN dir \cup {x}
           /\ With(dir, x, y)[x] = y /\ \A z \in DOMAIN dir : z # x => With(dir, x, y)[z] = dir[z]
  <1>1. DOMAIN dir \subseteq Names /\ dir \in [DOMAIN dir -> File]
    BY Now, PartialIs
  <1>2. DOMAIN With(dir, x, y) = DOMAIN dir \cup {x} /\ With(dir, x, y) \in [DOMAIN dir \cup {x} -> File]
    BY <1>1 DEF With
  <1>3. With(dir, x, y) \in Partial(Names, File)
    BY <1>1, <1>2, PartialIs
  <1> QED BY <1>2, <1>3 DEF With

(* What removing names from the directory leaves. *)
LEMMA DirWithout ==
    ASSUME BaseInv, NEW S
    PROVE  /\ Without(dir, S) \in Partial(Names, File) /\ DOMAIN Without(dir, S) = DOMAIN dir \ S
           /\ \A z \in DOMAIN dir \ S : Without(dir, S)[z] = dir[z]
  <1>1. DOMAIN dir \subseteq Names /\ dir \in [DOMAIN dir -> File]
    BY Now, PartialIs
  <1>2. Without(dir, S) = [z \in DOMAIN dir \ S |-> dir[z]]
    BY DEF Without, Restrict
  <1>3. DOMAIN Without(dir, S) = DOMAIN dir \ S /\ Without(dir, S) \in [DOMAIN dir \ S -> File]
    BY <1>1, <1>2
  <1>4. Without(dir, S) \in Partial(Names, File)
    BY <1>1, <1>3, PartialIs
  <1> QED BY <1>2, <1>3, <1>4

(* What writing a row into the catalog leaves. *)
LEMMA RowWith ==
    ASSUME BaseInv, NEW x \in Digests, NEW y \in Ages
    PROVE  /\ With(catalog, x, y) \in Partial(Digests, Ages) /\ DOMAIN With(catalog, x, y) = DOMAIN catalog \cup {x}
           /\ With(catalog, x, y)[x] = y /\ \A z \in DOMAIN catalog : z # x => With(catalog, x, y)[z] = catalog[z]
  <1>1. DOMAIN catalog \subseteq Digests /\ catalog \in [DOMAIN catalog -> Ages]
    BY Now, PartialIs
  <1>2. DOMAIN With(catalog, x, y) = DOMAIN catalog \cup {x} /\ With(catalog, x, y) \in [DOMAIN catalog \cup {x} -> Ages]
    BY <1>1 DEF With
  <1>3. With(catalog, x, y) \in Partial(Digests, Ages)
    BY <1>1, <1>2, PartialIs
  <1> QED BY <1>2, <1>3 DEF With

(* What removing rows from the catalog leaves. *)
LEMMA RowWithout ==
    ASSUME BaseInv, NEW S
    PROVE  /\ Without(catalog, S) \in Partial(Digests, Ages) /\ DOMAIN Without(catalog, S) = DOMAIN catalog \ S
           /\ \A z \in DOMAIN catalog \ S : Without(catalog, S)[z] = catalog[z]
  <1>1. DOMAIN catalog \subseteq Digests /\ catalog \in [DOMAIN catalog -> Ages]
    BY Now, PartialIs
  <1>2. Without(catalog, S) = [z \in DOMAIN catalog \ S |-> catalog[z]]
    BY DEF Without, Restrict
  <1>3. DOMAIN Without(catalog, S) = DOMAIN catalog \ S /\ Without(catalog, S) \in [DOMAIN catalog \ S -> Ages]
    BY <1>1, <1>2
  <1>4. Without(catalog, S) \in Partial(Digests, Ages)
    BY <1>1, <1>3, PartialIs
  <1> QED BY <1>2, <1>3, <1>4

(* The files a store creates are well formed. *)
LEMMA NewFile ==
    /\ [data |-> "written", age |-> 0] \in File /\ [data |-> "synced", age |-> 0] \in File /\ 0 \in Ages
  BY CapIs DEF File, Ages

(* Moving a store on changes its place only. *)
LEMMA StoreFields ==
    ASSUME NEW s \in Store, NEW pc \in {"idle", "open", "synced", "linked", "clean", "flushed", "stored"}
    PROVE  /\ [s EXCEPT !.pc = pc] \in Store /\ [s EXCEPT !.pc = pc].pc = pc
           /\ [s EXCEPT !.pc = pc].temp = s.temp /\ [s EXCEPT !.pc = pc].digest = s.digest
  BY DEF Store

(* What GoStore writes in the storer it moves, and that it leaves the others alone. *)
LEMMA Moved ==
    ASSUME BaseInv, NEW p \in Storers, NEW pc \in {"idle", "open", "synced", "linked", "clean", "flushed", "stored"},
           GoStore(p, pc)
    PROVE  \E s \in Store : /\ store' = [store EXCEPT ![p] = s] /\ store'[p] = s
                            /\ s.pc = pc /\ s.temp = store[p].temp /\ s.digest = store[p].digest
                            /\ \A q \in Storers \ {p} : store'[q] = store[q]
  <1>1. store \in [Storers -> Store]
    BY Now
  <1>2. PICK s : s = [store[p] EXCEPT !.pc = pc]
    OBVIOUS
  <1>3. s \in Store /\ s.pc = pc /\ s.temp = store[p].temp /\ s.digest = store[p].digest
    BY <1>1, <1>2, StoreFields
  <1>4. store' = [store EXCEPT ![p] = s]
    BY <1>1, <1>2 DEF GoStore
  <1> QED BY <1>1, <1>3, <1>4

(* A storer that is idle holds no temporary. *)
LEMMA Idle ==
    /\ NoStore \in Store /\ NoStore.pc = "idle" /\ NoStore.temp = NoOne
  BY DEF NoStore, Store

(* A temporary file belongs to one storer.                                 *)
LEMMA OwnTemp ==
    ASSUME BaseInv, NEW p \in Storers, store[p].temp \in Temps
    PROVE  /\ store[p].temp \in Files /\ store[p].temp \notin Digests /\ store[p].temp # NoOne
           /\ \A q \in Storers \ {p} : store[q].temp # store[p].temp
           /\ store[p].pc \in {"open", "synced", "linked"}
  BY Constants DEF BaseInv, StoreInv, TempsApart

(* Creating the temporary. *)
LEMMA CreateStep ==
    ASSUME BaseInv, NEW p \in Storers, NEW t \in Temps, NEW d \in Digests, CreateTemp(p, t, d)
    PROVE  BaseInv' /\ DigestsStay /\ UNCHANGED catalog
  <1>1. PICK s : s = [pc |-> "open", temp |-> t, digest |-> d]
    OBVIOUS
  <1>2. s \in Store /\ s.pc = "open" /\ s.temp = t /\ s.digest = d
    BY <1>1 DEF Store
  <1>3. store' = [store EXCEPT ![p] = s] /\ t \notin Files /\ UNCHANGED <<catalog, disk, links, lock, gc, unused>>
    BY <1>1 DEF CreateTemp
  <1>4. store'[p] = s /\ \A q \in Storers \ {p} : store'[q] = store[q]
    BY <1>3, Now
  <1>5. /\ dir' \in Partial(Names, File) /\ DOMAIN dir' = Files \cup {t}
        /\ \A z \in Files : dir'[z] = dir[z]
    <2>1. PICK f : f = [data |-> "written", age |-> 0]
      OBVIOUS
    <2>2. dir \in Partial(Names, File) /\ t \in Names /\ f \in File
      BY <2>1, Now, NewFile DEF Names
    <2>3. /\ With(dir, t, f) \in Partial(Names, File) /\ DOMAIN With(dir, t, f) = DOMAIN dir \cup {t}
          /\ With(dir, t, f)[t] = f /\ \A z \in DOMAIN dir : z # t => With(dir, t, f)[z] = dir[z]
      BY <2>2, DirWith
    <2>4. dir' = With(dir, t, f)
      BY <2>1 DEF CreateTemp
    <2> QED BY <1>3, <2>3, <2>4 DEF Files
  <1>6. DataInv'
    BY <1>3, <1>5, Constants DEF BaseInv, DataInv, Files
  <1>7. StoreInv(p)'
    BY <1>2, <1>4, <1>5 DEF StoreInv, Files
  <1>8. \A q \in Storers \ {p} : DirKeeps(q)
    BY <1>3, <1>4, <1>5 DEF DirKeeps, OnDisk
  <1>9. \A q \in Storers : store[q].temp # t
    BY <1>3, OwnTemp
  <1>10. LinkedIsCataloged'
    BY <1>3 DEF BaseInv, LinkedIsCataloged, Linked, Cataloged
  <1>11. BaseInv'
    BY <1>2, <1>3, <1>5, <1>6, <1>7, <1>8, <1>9, <1>10, Now, StorerTurn
  <1> QED BY <1>3, <1>5, <1>11 DEF DigestsStay, OnDisk

(* Syncing the temporary's content. *)
LEMMA SyncStep ==
    ASSUME BaseInv, NEW p \in Storers, SyncTemp(p)
    PROVE  BaseInv' /\ DigestsStay /\ UNCHANGED catalog
  <1>1. store[p].pc = "open" /\ GoStore(p, "synced") /\ UNCHANGED <<catalog, disk, links, lock, gc, unused>>
    BY DEF SyncTemp
  <1>2. PICK s \in Store : /\ store' = [store EXCEPT ![p] = s] /\ store'[p] = s
                           /\ s.pc = "synced" /\ s.temp = store[p].temp /\ s.digest = store[p].digest
                           /\ \A q \in Storers \ {p} : store'[q] = store[q]
    BY <1>1, Moved
  <1>3. s.temp \in Temps /\ s.temp \in Files /\ s.temp \notin Digests /\ s.digest \in Digests
    BY <1>1, <1>2, Constants DEF BaseInv, StoreInv
  <1>4. /\ dir' \in Partial(Names, File) /\ DOMAIN dir' = Files
        /\ dir'[s.temp].data = "synced" /\ \A z \in Files : z # s.temp => dir'[z] = dir[z]
    <2>1. dir' = [dir EXCEPT ![s.temp] = [data |-> "synced", age |-> 0]]
      BY <1>2 DEF SyncTemp
    <2>2. PICK f : f = [data |-> "synced", age |-> 0]
      OBVIOUS
    <2>3. dir \in Partial(Names, File) /\ s.temp \in DOMAIN dir /\ f \in File
      BY <1>3, <2>2, Now, NewFile DEF Files
    <2>4. /\ [dir EXCEPT ![s.temp] = f] \in Partial(Names, File) /\ DOMAIN [dir EXCEPT ![s.temp] = f] = DOMAIN dir
          /\ [dir EXCEPT ![s.temp] = f][s.temp] = f
          /\ \A z \in DOMAIN dir : z # s.temp => [dir EXCEPT ![s.temp] = f][z] = dir[z]
      BY <2>3, SetIs
    <2>5. dir' = [dir EXCEPT ![s.temp] = f]
      BY <2>1, <2>2
    <2> QED BY <2>2, <2>4, <2>5 DEF Files
  <1>5. DataInv'
    BY <1>1, <1>3, <1>4 DEF BaseInv, DataInv, Files
  <1>6. StoreInv(p)'
    BY <1>2, <1>3, <1>4 DEF StoreInv, Files
  <1>7. \A q \in Storers \ {p} : DirKeeps(q)
    BY <1>1, <1>2, <1>4 DEF DirKeeps, OnDisk
  <1>8. LinkedIsCataloged'
    BY <1>1 DEF BaseInv, LinkedIsCataloged, Linked, Cataloged
  <1>9. BaseInv'
    BY <1>1, <1>2, <1>4, <1>5, <1>6, <1>7, <1>8, Now, StorerTurn
  <1> QED BY <1>1, <1>4, <1>9 DEF DigestsStay, OnDisk

(* Linking the temporary under its digest, or finding the digest there. *)
LEMMA PublishStep ==
    ASSUME BaseInv, NEW p \in Storers, Publish(p)
    PROVE  BaseInv' /\ DigestsStay /\ UNCHANGED catalog
  <1>1. /\ store[p].pc = "synced" /\ lock = NoOne /\ lock' = p /\ GoStore(p, "linked")
        /\ UNCHANGED <<catalog, disk, links, gc, unused>>
    BY DEF Publish
  <1>2. PICK s \in Store : /\ store' = [store EXCEPT ![p] = s] /\ store'[p] = s
                           /\ s.pc = "linked" /\ s.temp = store[p].temp /\ s.digest = store[p].digest
                           /\ \A q \in Storers \ {p} : store'[q] = store[q]
    BY <1>1, Moved
  <1>3. /\ s.temp \in Temps /\ s.temp \in Files /\ s.digest \in Digests
        /\ dir[s.temp].data = "synced" /\ dir[s.temp] \in File
    BY <1>1, <1>2, Now DEF BaseInv, StoreInv
  <1>4. /\ dir' \in Partial(Names, File) /\ DOMAIN dir' = Files \cup {s.digest}
        /\ \A z \in Files : dir'[z] = dir[z] /\ dir'[s.digest].data = "synced"
    <2>1. CASE s.digest \in Files
      <3>1. dir' = dir
        BY <1>2, <2>1 DEF Publish
      <3>2. dir[s.digest].data = "synced"
        BY <1>3, <2>1 DEF BaseInv, DataInv
      <3> QED BY <2>1, <3>1, <3>2, Now DEF Files
    <2>2. CASE s.digest \notin Files
      <3>1. dir' = With(dir, s.digest, dir[s.temp])
        BY <1>2, <2>2 DEF Publish
      <3>2. PICK f : f = dir[s.temp]
        OBVIOUS
      <3>3. dir \in Partial(Names, File) /\ s.digest \in Names /\ f \in File
        BY <1>3, <3>2, Now DEF Names
      <3>4. /\ With(dir, s.digest, f) \in Partial(Names, File)
            /\ DOMAIN With(dir, s.digest, f) = DOMAIN dir \cup {s.digest} /\ With(dir, s.digest, f)[s.digest] = f
            /\ \A z \in DOMAIN dir : z # s.digest => With(dir, s.digest, f)[z] = dir[z]
        BY <3>3, DirWith
      <3> QED BY <1>3, <2>2, <3>1, <3>2, <3>4 DEF Files
    <2> QED BY <2>1, <2>2
  <1>5. DataInv'
    BY <1>1, <1>3, <1>4 DEF BaseInv, DataInv, Files
  <1>6. StoreInv(p)'
    BY <1>1, <1>2, <1>3, <1>4 DEF StoreInv, Files
  <1>7. \A q \in Storers \ {p} : DirKeeps(q)
    BY <1>1, <1>2, <1>4, Constants DEF DirKeeps, OnDisk
  <1>8. LinkedIsCataloged'
    BY <1>1 DEF BaseInv, LinkedIsCataloged, Linked, Cataloged
  <1>9. lock' \in Storers \cup Collectors \cup {NoOne} /\ (lock \in Collectors => lock' = lock)
    BY <1>1, Constants
  <1>10. BaseInv'
    BY <1>1, <1>2, <1>4, <1>5, <1>6, <1>7, <1>8, <1>9, Now, StorerTurn
  <1> QED BY <1>1, <1>4, <1>10 DEF DigestsStay, OnDisk

(* A temporary name goes, or nothing does.                                 *)
LEMMA TempGoes ==
    ASSUME BaseInv, NEW p \in Storers, dir' = Without(dir, {store[p].temp}) \/ dir' = dir
    PROVE  /\ dir' \in Partial(Names, File) /\ Digests \cap Files \subseteq DOMAIN dir' /\ DOMAIN dir' \subseteq Files
           /\ \A z \in DOMAIN dir' : dir'[z] = dir[z]
           /\ \A q \in Storers \ {p} : store[q].temp \in Temps /\ store[q].temp \in Files => store[q].temp \in DOMAIN dir'
  <1>1. CASE dir' = dir
    BY <1>1, Now DEF Files
  <1>2. CASE dir' = Without(dir, {store[p].temp})
    <2>1. dir' \in Partial(Names, File) /\ DOMAIN dir' = Files \ {store[p].temp} /\ \A z \in DOMAIN dir' : dir'[z] = dir[z]
      <3>1. PICK S : S = {store[p].temp}
        OBVIOUS
      <3>2. dir \in Partial(Names, File)
        BY Now
      <3>3. /\ Without(dir, S) \in Partial(Names, File) /\ DOMAIN Without(dir, S) = DOMAIN dir \ S
            /\ \A z \in DOMAIN dir \ S : Without(dir, S)[z] = dir[z]
        BY DirWithout
      <3>4. dir' = Without(dir, S)
        BY <1>2, <3>1
      <3> QED BY <3>1, <3>3, <3>4 DEF Files
    <2>2. store[p].temp \notin Digests
      BY Constants, Now DEF Store
    <2>3. \A q \in Storers \ {p} : store[q].temp \in Temps => store[q].temp # store[p].temp
      BY OwnTemp
    <2> QED BY <2>1, <2>2, <2>3
  <1> QED BY <1>1, <1>2

(* Removing the temporary's name. *)
LEMMA UnlinkStep ==
    ASSUME BaseInv, NEW p \in Storers, UnlinkTemp(p)
    PROVE  BaseInv' /\ DigestsStay /\ UNCHANGED catalog
  <1>1. store[p].pc = "linked" /\ UNCHANGED <<catalog, disk, links, lock, gc, unused>>
    BY DEF UnlinkTemp
  <1>2. store[p] \in Store
    BY Now
  <1>3. PICK s : s = [store[p] EXCEPT !.pc = "clean", !.temp = NoOne]
    OBVIOUS
  <1>4. s \in Store /\ s.pc = "clean" /\ s.temp = NoOne /\ s.digest = store[p].digest
    BY <1>2, <1>3 DEF Store
  <1>5. store' = [store EXCEPT ![p] = s]
    BY <1>3, Now DEF UnlinkTemp
  <1>6. store'[p] = s /\ \A q \in Storers \ {p} : store'[q] = store[q]
    BY <1>5, Now
  <1>7. /\ dir' \in Partial(Names, File) /\ Digests \cap Files \subseteq DOMAIN dir' /\ DOMAIN dir' \subseteq Files
        /\ \A z \in DOMAIN dir' : dir'[z] = dir[z]
        /\ \A q \in Storers \ {p} : store[q].temp \in Temps /\ store[q].temp \in Files => store[q].temp \in DOMAIN dir'
    BY TempGoes DEF UnlinkTemp
  <1>8. DataInv'
    BY <1>1, <1>7 DEF BaseInv, DataInv, Files
  <1>9. s.digest \in Digests /\ lock = p /\ s.digest \in Files
    BY <1>1, <1>4 DEF BaseInv, StoreInv
  <1>10. StoreInv(p)'
    BY <1>1, <1>4, <1>6, <1>7, <1>9 DEF StoreInv, Files
  <1>11. \A q \in Storers \ {p} : DirKeeps(q)
    BY <1>1, <1>6, <1>7 DEF DirKeeps, OnDisk
  <1>12. LinkedIsCataloged'
    BY <1>1 DEF BaseInv, LinkedIsCataloged, Linked, Cataloged
  <1>13. BaseInv'
    BY <1>1, <1>4, <1>5, <1>7, <1>8, <1>10, <1>11, <1>12, Now, StorerTurn
  <1> QED BY <1>1, <1>7, <1>13 DEF DigestsStay, OnDisk

(* Syncing the directory after publication. *)
LEMMA FlushStep ==
    ASSUME BaseInv, NEW p \in Storers, Flush(p)
    PROVE  BaseInv' /\ DigestsStay /\ UNCHANGED catalog
  <1>1. store[p].pc = "clean" /\ GoStore(p, "flushed") /\ disk' = dir /\ UNCHANGED <<catalog, dir, links, lock, gc, unused>>
    BY DEF Flush, Sync
  <1>2. PICK s \in Store : /\ store' = [store EXCEPT ![p] = s] /\ store'[p] = s
                           /\ s.pc = "flushed" /\ s.temp = store[p].temp /\ s.digest = store[p].digest
                           /\ \A q \in Storers \ {p} : store'[q] = store[q]
    BY <1>1, Moved
  <1>3. DataInv'
    BY <1>1 DEF BaseInv, DataInv, Files
  <1>4. StoreInv(p)'
    BY <1>1, <1>2 DEF BaseInv, StoreInv, Files
  <1>5. \A q \in Storers \ {p} : DirKeeps(q)
    BY <1>1, <1>2 DEF DirKeeps, OnDisk, Files
  <1>6. LinkedIsCataloged'
    BY <1>1 DEF BaseInv, LinkedIsCataloged, Linked, Cataloged
  <1>7. BaseInv'
    BY <1>1, <1>2, <1>3, <1>4, <1>5, <1>6, Now, StorerTurn
  <1> QED BY <1>1, <1>7 DEF DigestsStay, OnDisk, Files

(* The row is inserted once the file and its name are on disk.             *)
LEMMA CatalogStep ==
    ASSUME BaseInv, NEW p \in Storers, Catalog(p)
    PROVE  BaseInv' /\ DigestsStay /\ \E d \in OnDisk : DOMAIN catalog' = Cataloged \cup {d}
  <1>1. store[p].pc = "flushed" /\ GoStore(p, "stored") /\ lock' = NoOne /\ UNCHANGED <<dir, disk, links, gc>>
    BY DEF Catalog
  <1>2. PICK s \in Store : /\ store' = [store EXCEPT ![p] = s] /\ store'[p] = s
                           /\ s.pc = "stored" /\ s.temp = store[p].temp /\ s.digest = store[p].digest
                           /\ \A q \in Storers \ {p} : store'[q] = store[q]
    BY <1>1, Moved
  <1>3. s.digest \in OnDisk /\ s.digest \in Digests /\ lock = p /\ s.temp = NoOne
    BY <1>1, <1>2 DEF BaseInv, StoreInv, OnDisk
  <1>4. catalog' \in Partial(Digests, Ages) /\ DOMAIN catalog' = Cataloged \cup {s.digest}
    <2>1. CASE s.digest \in Cataloged
      <3>1. catalog' = catalog
        BY <1>2, <2>1 DEF Catalog
      <3> QED BY <2>1, <3>1, Now DEF Cataloged
    <2>2. CASE s.digest \notin Cataloged
      <3>1. catalog' = With(catalog, s.digest, 0)
        BY <1>2, <2>2 DEF Catalog
      <3>2. catalog \in Partial(Digests, Ages) /\ 0 \in Ages
        BY Now, NewFile
      <3>3. /\ With(catalog, s.digest, 0) \in Partial(Digests, Ages)
            /\ DOMAIN With(catalog, s.digest, 0) = DOMAIN catalog \cup {s.digest} /\ With(catalog, s.digest, 0)[s.digest] = 0
            /\ \A z \in DOMAIN catalog : z # s.digest => With(catalog, s.digest, 0)[z] = catalog[z]
        BY <1>3, <3>2, RowWith
      <3> QED BY <3>1, <3>3 DEF Cataloged
    <2> QED BY <2>1, <2>2
  <1>5. unused' \in [Digests -> 0..Grace]
    BY <1>2, <1>3, Now, Constants DEF Catalog
  <1>6. DataInv'
    BY <1>1 DEF BaseInv, DataInv, Files
  <1>7. StoreInv(p)'
    BY <1>2, <1>3 DEF StoreInv
  <1>8. \A q \in Storers \ {p} : DirKeeps(q)
    BY <1>1, <1>2, <1>3 DEF DirKeeps, OnDisk, Files
  <1>9. LinkedIsCataloged'
    BY <1>1, <1>4 DEF BaseInv, LinkedIsCataloged, Linked, Cataloged
  <1>10. lock' \in Storers \cup Collectors \cup {NoOne} /\ (lock \in Collectors => lock' = lock)
    BY <1>1, <1>3, Constants
  <1>11. BaseInv'
    BY <1>1, <1>2, <1>4, <1>5, <1>6, <1>7, <1>8, <1>9, <1>10, Now, StorerTurn
  <1> QED BY <1>1, <1>3, <1>4, <1>11 DEF DigestsStay, OnDisk, Files

(* The storer is done with its reference, or fails, or dies.               *)
LEMMA LeaveStep ==
    ASSUME BaseInv, NEW p \in Storers, StopStore(p) \/ DropReference(p) \/ \E t \in Sessions : Link(p, t)
    PROVE  BaseInv' /\ DigestsStay /\ UNCHANGED catalog
  <1>1. store' = [store EXCEPT ![p] = NoStore] /\ UNCHANGED <<catalog, disk, gc, unused>>
    BY DEF StopStore, DropReference, Link
  <1>2. store'[p] = NoStore /\ \A q \in Storers \ {p} : store'[q] = store[q]
    BY <1>1, Now
  <1>3. dir' = Without(dir, {store[p].temp}) \/ dir' = dir
    BY DEF StopStore, DropReference, Link
  <1>4. /\ dir' \in Partial(Names, File) /\ Digests \cap Files \subseteq DOMAIN dir' /\ DOMAIN dir' \subseteq Files
        /\ \A z \in DOMAIN dir' : dir'[z] = dir[z]
        /\ \A q \in Storers \ {p} : store[q].temp \in Temps /\ store[q].temp \in Files => store[q].temp \in DOMAIN dir'
    BY <1>3, TempGoes
  <1>5. lock' = lock \/ (lock = p /\ lock' = NoOne)
    BY DEF StopStore, DropReference, Link
  <1>6. DataInv'
    BY <1>1, <1>4 DEF BaseInv, DataInv, Files
  <1>7. StoreInv(p)'
    BY <1>2, Idle DEF StoreInv
  <1>8. \A q \in Storers \ {p} : DirKeeps(q)
    BY <1>1, <1>2, <1>4, <1>5 DEF DirKeeps, OnDisk
  <1>9. links' \subseteq Sessions \X Digests /\ LinkedIsCataloged'
    <2>1. CASE links' = links
      BY <1>1, <2>1, Now DEF BaseInv, LinkedIsCataloged, Linked, Cataloged
    <2>2. ASSUME NEW t \in Sessions, Link(p, t), store[p].digest \in Cataloged
          PROVE  links' \subseteq Sessions \X Digests /\ LinkedIsCataloged'
      <3>1. links' = links \cup {<<t, store[p].digest>>}
        BY <2>2 DEF Link
      <3>2. \A l \in links : l[2] \in Cataloged
        BY DEF BaseInv, LinkedIsCataloged, Linked
      <3>3. \A l \in links' : l[2] \in Cataloged
        BY <2>2, <3>1, <3>2
      <3> QED BY <1>1, <2>2, <3>1, <3>3, Now DEF LinkedIsCataloged, Linked, Cataloged
    <2> QED BY <2>1, <2>2 DEF StopStore, DropReference, Link
  <1>10. lock' \in Storers \cup Collectors \cup {NoOne} /\ (lock \in Collectors => lock' = lock)
    BY <1>5, Now, Constants
  <1>11. BaseInv'
    BY <1>1, <1>4, <1>6, <1>7, <1>8, <1>9, <1>10, Now, Idle, StorerTurn
  <1> QED BY <1>1, <1>4, <1>11 DEF DigestsStay, OnDisk


-----------------------------------------------------------------------------
(* The steps of a collector.                                               *)

(* What a collector's step must keep for DiskInv when it is the only one.  *)
Collects(c) ==
    DiskInv => /\ DOMAIN catalog' \subseteq OnDisk'
               /\ gc'[c].pc = "removed" => gc'[c].cur \in OnDisk'

(* A collector that is idle. *)
LEMMA NoGcIs == NoGc \in Gc /\ NoGc.pc = "idle"
  BY Constants, CapIs DEF NoGc, Gc, Ages

(* The types of a collector's fields. *)
LEMMA GcNow ==
    ASSUME BaseInv, NEW c \in Collectors
    PROVE  /\ gc[c] \in Gc /\ gc \in [Collectors -> Gc] /\ gc[c].todo \in SUBSET Digests /\ gc[c].scan \in SUBSET Names
           /\ gc[c].late \in 0..MaxLate /\ gc[c].scanLate \in 0..MaxLate /\ gc[c].age \in Ages
  BY Now DEF Gc

(* Only the collector's own record moves, and it may let go of the lock.   *)
LEMMA QuietStep ==
    ASSUME BaseInv, NEW c \in Collectors, NEW g \in Gc, gc' = [gc EXCEPT ![c] = g],
           UNCHANGED <<catalog, dir, disk, links, store, unused>>,
           g.pc \in {"idle", "catalog", "scan"}, lock' = lock \/ (lock = c /\ lock' = NoOne)
    PROVE  BaseInv' /\ Collects(c)
  <1>1. gc'[c] = g
    BY GcNow
  <1>2. DataInv' /\ LinkedIsCataloged'
    BY DEF BaseInv, DataInv, Files, LinkedIsCataloged, Linked, Cataloged
  <1>3. GcInv(c)'
    BY <1>1 DEF GcInv
  <1>4. \A q \in Storers : DirKeeps(q)
    BY Constants DEF DirKeeps, OnDisk, Files
  <1>5. lock' \in Storers \cup Collectors \cup {NoOne} /\ (lock \in Collectors \ {c} => lock' = lock)
    BY Now
  <1>6. BaseInv'
    BY <1>2, <1>3, <1>4, <1>5, Now, CollectorTurn
  <1>7. Collects(c)
    BY <1>1 DEF Collects, DiskInv, OnDisk, Files, Cataloged
  <1> QED BY <1>6, <1>7

(* The record of a collector that goes on to pc.                           *)
LEMMA GoesOn ==
    ASSUME BaseInv, NEW c \in Collectors, NEW pc \in {"catalog", "unlinked", "scan"}, GoGc(c, pc)
    PROVE  \E g \in Gc : gc' = [gc EXCEPT ![c] = g] /\ gc'[c] = g /\ g.pc = pc
  <1>1. PICK g : g = [gc[c] EXCEPT !.pc = pc, !.cur = NoOne, !.age = 0]
    OBVIOUS
  <1>2. g \in Gc /\ g.pc = pc
    BY <1>1, GcNow, NewFile DEF Gc
  <1>3. gc' = [gc EXCEPT ![c] = g] /\ gc'[c] = g
    BY <1>1, GcNow DEF GoGc
  <1> QED BY <1>2, <1>3

(* The steps of a collector that remove nothing. *)
LEMMA QuietSteps ==
    ASSUME BaseInv, NEW c \in Collectors, StartGc(c) \/ StartScan(c) \/ FinishGc(c) \/ StopGc(c)
    PROVE  BaseInv' /\ Collects(c)
  <1>1. UNCHANGED <<catalog, dir, disk, links, store, unused>> /\ (lock' = lock \/ (lock = c /\ lock' = NoOne))
    BY DEF StartGc, StartScan, FinishGc, StopGc
  <1>2. CASE StartGc(c)
    <2>1. PICK T : T = {d \in Digests : Collectable(d, 0)}
      OBVIOUS
    <2>2. PICK g : g = [NoGc EXCEPT !.pc = "catalog", !.todo = T]
      OBVIOUS
    <2>3. g \in Gc /\ g.pc = "catalog"
      BY <2>1, <2>2, NoGcIs DEF Gc
    <2>4. gc' = [gc EXCEPT ![c] = g]
      BY <1>2, <2>1, <2>2 DEF StartGc
    <2> QED BY <1>1, <2>3, <2>4, QuietStep
  <1>3. CASE StartScan(c)
    <2>1. PICK S \in SUBSET Files : gc' = [gc EXCEPT ![c] = [@ EXCEPT !.pc = "scan", !.scan = S, !.scanLate = 0]]
      BY <1>3 DEF StartScan
    <2>2. PICK g : g = [gc[c] EXCEPT !.pc = "scan", !.scan = S, !.scanLate = 0]
      OBVIOUS
    <2>3. S \in SUBSET Names /\ 0 \in 0..MaxLate
      BY Now, Constants
    <2>4. g \in Gc /\ g.pc = "scan"
      BY <2>2, <2>3, GcNow DEF Gc
    <2>5. gc' = [gc EXCEPT ![c] = g]
      BY <2>1, <2>2, GcNow
    <2> QED BY <1>1, <2>4, <2>5, QuietStep
  <1>4. CASE FinishGc(c) \/ StopGc(c)
    <2>1. gc' = [gc EXCEPT ![c] = NoGc]
      BY <1>4 DEF FinishGc, StopGc
    <2> QED BY <1>1, <2>1, NoGcIs, QuietStep
  <1> QED BY <1>2, <1>3, <1>4

(* The first transaction: an unused row is removed. *)
LEMMA RemoveRowStep ==
    ASSUME BaseInv, NEW c \in Collectors, NEW d \in Digests, RemoveRow(c, d)
    PROVE  BaseInv' /\ Collects(c)
  <1>1. UNCHANGED <<dir, disk, links, lock, store, unused>>
    BY DEF RemoveRow
  <1>2. CASE ~StillCollectable(c, d)
    <2>1. PICK g : g = [gc[c] EXCEPT !.todo = @ \ {d}]
      OBVIOUS
    <2>2. g \in Gc /\ g.pc = "catalog"
      BY <2>1, GcNow DEF Gc, RemoveRow
    <2>3. gc' = [gc EXCEPT ![c] = g] /\ UNCHANGED catalog
      BY <1>2, <2>1, GcNow DEF RemoveRow
    <2> QED BY <1>1, <2>2, <2>3, QuietStep
  <1>3. CASE StillCollectable(c, d)
    <2>1. d \in Cataloged /\ d \notin Linked
      BY <1>3 DEF StillCollectable, Collectable
    <2>2. PICK g : g = [gc[c] EXCEPT !.pc = "removed", !.todo = @ \ {d}, !.cur = d, !.age = catalog[d]]
      OBVIOUS
    <2>3. catalog[d] \in Ages
      BY <2>1, Now
    <2>4. g \in Gc /\ g.pc = "removed" /\ g.cur = d
      BY <2>2, <2>3, GcNow DEF Gc
    <2>5. gc' = [gc EXCEPT ![c] = g] /\ gc'[c] = g /\ catalog' = Without(catalog, {d})
      <3>1. catalog' = Without(catalog, {d}) /\ gc' = [gc EXCEPT ![c] = g]
        BY <1>3, <2>2 DEF RemoveRow
      <3> QED BY <3>1, GcNow
    <2>6. catalog' \in Partial(Digests, Ages) /\ DOMAIN catalog' = Cataloged \ {d}
      BY <2>5, RowWithout DEF Cataloged
    <2>7. DataInv'
      BY <1>1 DEF BaseInv, DataInv, Files
    <2>8. LinkedIsCataloged'
      BY <1>1, <2>1, <2>6 DEF BaseInv, LinkedIsCataloged, Linked, Cataloged
    <2>9. GcInv(c)'
      BY <2>4, <2>5 DEF GcInv
    <2>10. \A q \in Storers : DirKeeps(q)
      BY <1>1 DEF DirKeeps, OnDisk, Files
    <2>11. BaseInv'
      BY <1>1, <2>4, <2>5, <2>6, <2>7, <2>8, <2>9, <2>10, Now, CollectorTurn
    <2>12. Collects(c)
      BY <1>1, <2>1, <2>4, <2>5, <2>6 DEF Collects, DiskInv, OnDisk, Files, Cataloged
    <2> QED BY <2>11, <2>12
  <1> QED BY <1>2, <1>3

(* A file without a row goes; the directory is synced later.               *)
LEMMA UnlinkFile ==
    ASSUME BaseInv, NEW c \in Collectors, NEW g \in Gc, gc' = [gc EXCEPT ![c] = g], g.pc \in {"unlinked", "swept"},
           NEW n \in Names, dir' = Without(dir, {n}), lock = NoOne, lock' = c,
           UNCHANGED <<catalog, disk, links, store, unused>>,
           n \in Digests => n \notin Cataloged, n \notin Digests => n \notin Locked
    PROVE  BaseInv' /\ Collects(c)
  <1>1. gc'[c] = g
    BY GcNow
  <1>2. PICK N : N = {n}
    OBVIOUS
  <1>3. dir' = Without(dir, N)
    BY <1>2
  <1>4. dir' \in Partial(Names, File) /\ DOMAIN dir' = Files \ N /\ \A z \in DOMAIN dir' : dir'[z] = dir[z]
    <2>1. /\ Without(dir, N) \in Partial(Names, File) /\ DOMAIN Without(dir, N) = DOMAIN dir \ N
          /\ \A z \in DOMAIN dir \ N : Without(dir, N)[z] = dir[z]
      BY DirWithout
    <2> QED BY <1>3, <2>1 DEF Files
  <1>5. DataInv'
    BY <1>4 DEF BaseInv, DataInv, Files
  <1>6. LinkedIsCataloged'
    BY DEF BaseInv, LinkedIsCataloged, Linked, Cataloged
  <1>7. GcInv(c)'
    BY <1>1 DEF GcInv
  <1>8. ASSUME NEW q \in Storers, store[q].temp \in Temps PROVE store[q].temp # n
    <2>1. n \in Digests => store[q].temp # n
      BY <1>8, Constants
    <2>2. n \notin Digests => store[q].temp # n
      BY <1>8, Constants DEF Locked
    <2> QED BY <2>1, <2>2
  <1>9. \A q \in Storers : DirKeeps(q)
    BY <1>2, <1>4, <1>8, Constants DEF DirKeeps
  <1>10. BaseInv'
    BY <1>4, <1>5, <1>6, <1>7, <1>9, Now, Constants, CollectorTurn
  <1>11. Collects(c)
    BY <1>1, <1>2, <1>4, Now DEF Collects, DiskInv, OnDisk, Files, Cataloged
  <1> QED BY <1>10, <1>11

(* The second transaction: the file goes while no row names it. *)
LEMMA RemoveFileStep ==
    ASSUME BaseInv, NEW c \in Collectors, RemoveFile(c)
    PROVE  BaseInv' /\ Collects(c)
  <1>1. gc[c].pc = "removed" /\ lock = NoOne /\ UNCHANGED <<catalog, disk, links, store, unused>>
    BY DEF RemoveFile
  <1>2. PICK d \in Digests : d = gc[c].cur
    BY <1>1 DEF BaseInv, GcInv
  <1>3. CASE GoGc(c, "catalog") /\ UNCHANGED <<dir, lock>>
    <2>1. PICK g \in Gc : gc' = [gc EXCEPT ![c] = g] /\ gc'[c] = g /\ g.pc = "catalog"
      BY <1>3, GoesOn
    <2> QED BY <1>1, <1>3, <2>1, QuietStep
  <1>4. CASE d \notin Cataloged /\ dir' = Without(dir, {d}) /\ lock' = c /\ GoGc(c, "unlinked")
    <2>1. PICK g \in Gc : gc' = [gc EXCEPT ![c] = g] /\ gc'[c] = g /\ g.pc = "unlinked"
      BY <1>4, GoesOn
    <2>2. d \in Names
      BY DEF Names
    <2> QED BY <1>1, <1>4, <2>1, <2>2, UnlinkFile
  <1> QED BY <1>2, <1>3, <1>4 DEF RemoveFile, Recataloged

(* The row comes back while the file is still there.                       *)
LEMMA RestoreStep ==
    ASSUME BaseInv, NEW c \in Collectors, RestoreRow(c)
    PROVE  BaseInv' /\ Collects(c)
  <1>1. /\ gc[c].pc = "removed" /\ gc' = [gc EXCEPT ![c] = NoGc] /\ UNCHANGED <<dir, disk, links, lock, store, unused>>
    BY DEF RestoreRow
  <1>2. PICK d \in Digests : d = gc[c].cur
    BY <1>1 DEF BaseInv, GcInv
  <1>3. catalog' = With(catalog, d, gc[c].age) /\ gc[c].age \in Ages
    BY <1>2, GcNow DEF RestoreRow
  <1>4. catalog' \in Partial(Digests, Ages) /\ DOMAIN catalog' = Cataloged \cup {d}
    BY <1>3, RowWith DEF Cataloged
  <1>5. gc'[c] = NoGc
    BY <1>1, GcNow
  <1>6. DataInv'
    BY <1>1 DEF BaseInv, DataInv, Files
  <1>7. LinkedIsCataloged'
    BY <1>1, <1>4 DEF BaseInv, LinkedIsCataloged, Linked, Cataloged
  <1>8. GcInv(c)'
    BY <1>5, NoGcIs DEF GcInv
  <1>9. \A q \in Storers : DirKeeps(q)
    BY <1>1 DEF DirKeeps, OnDisk, Files
  <1>10. BaseInv'
    BY <1>1, <1>4, <1>6, <1>7, <1>8, <1>9, Now, NoGcIs, CollectorTurn
  <1>11. Collects(c)
    BY <1>1, <1>2, <1>4, <1>5, NoGcIs DEF Collects, DiskInv, OnDisk, Files, Cataloged
  <1> QED BY <1>10, <1>11

(* The directory is synced and the transaction ends.                       *)
LEMMA CommitSteps ==
    ASSUME BaseInv, NEW c \in Collectors, CommitRemoval(c) \/ CommitSweep(c)
    PROVE  BaseInv' /\ Collects(c)
  <1>1. /\ gc[c].pc \in {"unlinked", "swept"} /\ disk' = dir /\ lock' = NoOne
        /\ UNCHANGED <<catalog, dir, links, store, unused>>
    BY DEF CommitRemoval, CommitSweep, Sync
  <1>2. PICK g \in Gc : gc' = [gc EXCEPT ![c] = g] /\ gc'[c] = g /\ g.pc \in {"catalog", "scan"}
    BY GoesOn DEF CommitRemoval, CommitSweep
  <1>3. lock = c
    BY <1>1 DEF BaseInv, GcInv
  <1>4. DataInv'
    BY <1>1 DEF BaseInv, DataInv, Files
  <1>5. LinkedIsCataloged'
    BY <1>1 DEF BaseInv, LinkedIsCataloged, Linked, Cataloged
  <1>6. GcInv(c)'
    BY <1>2 DEF GcInv
  <1>7. \A q \in Storers : DirKeeps(q)
    BY <1>1, <1>3, Constants DEF DirKeeps, Files
  <1>8. BaseInv'
    BY <1>1, <1>2, <1>3, <1>4, <1>5, <1>6, <1>7, Now, CollectorTurn
  <1>9. Collects(c)
    BY <1>1, <1>2 DEF Collects, DiskInv, OnDisk, Files, Cataloged
  <1> QED BY <1>8, <1>9

(* The orphan sweep: one name is examined and perhaps removed. *)
LEMMA ScanStep ==
    ASSUME BaseInv, NEW c \in Collectors, NEW n \in Names, ScanName(c, n)
    PROVE  BaseInv' /\ Collects(c)
  <1>1. gc[c].pc = "scan" /\ lock = NoOne /\ UNCHANGED <<catalog, disk, links, store, unused>>
    BY DEF ScanName
  <1>2. PICK g, h : /\ g = [gc[c] EXCEPT !.scan = @ \ {n}]
                    /\ h = [gc[c] EXCEPT !.pc = "swept", !.scan = @ \ {n}]
    OBVIOUS
  <1>3. g \in Gc /\ g.pc = "scan"
    BY <1>1, <1>2, GcNow DEF Gc
  <1>4. h \in Gc /\ h.pc = "swept"
    BY <1>1, <1>2, GcNow DEF Gc
  <1>5. CASE gc' = [gc EXCEPT ![c] = NoGc] /\ UNCHANGED <<dir, lock>>
    BY <1>1, <1>5, NoGcIs, QuietStep
  <1>6. CASE Orphan(c, n) /\ dir' = Without(dir, {n}) /\ lock' = c /\ gc' = [gc EXCEPT ![c] = h]
    <2>1. (n \in Digests => n \notin Cataloged) /\ (n \notin Digests => n \notin Locked)
      BY <1>6 DEF Orphan
    <2> QED BY <1>1, <1>4, <1>6, <2>1, UnlinkFile
  <1>7. CASE gc' = [gc EXCEPT ![c] = g] /\ UNCHANGED <<dir, lock>>
    BY <1>1, <1>3, <1>7, QuietStep
  <1>8. \/ gc' = [gc EXCEPT ![c] = NoGc] /\ UNCHANGED <<dir, lock>>
        \/ Orphan(c, n) /\ dir' = Without(dir, {n}) /\ lock' = c /\ gc' = [gc EXCEPT ![c] = h]
        \/ gc' = [gc EXCEPT ![c] = g] /\ UNCHANGED <<dir, lock>>
    <2>1. CASE Orphan(c, n)
      <3>1. \/ gc' = [gc EXCEPT ![c] = NoGc] /\ UNCHANGED <<dir, lock>>
            \/ dir' = Without(dir, {n}) /\ lock' = c /\ gc' = [gc EXCEPT ![c] = h]
        BY <1>2, <2>1 DEF ScanName
      <3> QED BY <2>1, <3>1
    <2>2. CASE ~Orphan(c, n)
      <3>1. gc' = [gc EXCEPT ![c].scan = @ \ {n}] /\ UNCHANGED <<dir, lock>>
        BY <2>2 DEF ScanName
      <3>2. [gc EXCEPT ![c].scan = @ \ {n}] = [gc EXCEPT ![c] = g]
        BY <1>2, GcNow
      <3> QED BY <3>1, <3>2
    <2> QED BY <2>1, <2>2
  <1> QED BY <1>5, <1>6, <1>7, <1>8


-----------------------------------------------------------------------------
(* Steps of nobody in particular.                                          *)

(* Deleting a session removes links only. *)
LEMMA DeleteStep ==
    ASSUME BaseInv, NEW s \in Sessions, DeleteSession(s)
    PROVE  BaseInv' /\ (DiskInv => DiskInv')
  <1>1. links' \subseteq links /\ UNCHANGED <<catalog, dir, disk, lock, store, gc>>
    BY DEF DeleteSession
  <1>2. unused' \in [Digests -> 0..Grace]
    BY Now, Constants DEF DeleteSession
  <1>3. TypeOK'
    BY <1>1, <1>2 DEF BaseInv, TypeOK
  <1>4. LinkedIsCataloged'
    BY <1>1 DEF BaseInv, LinkedIsCataloged, Linked, Cataloged
  <1>5. DataInv' /\ TempsApart' /\ (\A p \in Storers : StoreInv(p)') /\ (\A c \in Collectors : GcInv(c)')
    BY <1>1 DEF BaseInv, DataInv, Files, TempsApart, StoreInv, GcInv
  <1> QED BY <1>1, <1>3, <1>4, <1>5 DEF BaseInv, DiskInv, OnDisk, Files, Cataloged

(* Ages stay under their cap. *)
LEMMA OlderIs ==
    ASSUME NEW top \in Nat, NEW n \in 0..top
    PROVE  Older(n, top) \in 0..top
  BY DEF Older

(* A file that ages stays what it is.                                      *)
LEMMA AgedFile ==
    ASSUME NEW f \in File
    PROVE  [f EXCEPT !.age = Older(f.age, Cap)] \in File /\ [f EXCEPT !.age = Older(f.age, Cap)].data = f.data
  <1>1. Older(f.age, Cap) \in Ages
    BY OlderIs, CapIs DEF File, Ages
  <1> QED BY <1>1 DEF File

(* The passage of time leaves a collector where it is. *)
LEMMA AgedGc ==
    ASSUME BaseInv, Tick, NEW c \in Collectors
    PROVE  gc'[c] \in Gc /\ gc'[c].pc = gc[c].pc /\ gc'[c].cur = gc[c].cur
  <1>1. PICK g : g = gc[c] /\ g \in Gc
    BY GcNow
  <1>2. CASE g.pc = "idle"
    BY <1>1, <1>2 DEF Tick
  <1>3. CASE g.pc # "idle"
    <2>1. PICK late, age, scanLate :
            /\ late = g.late + 1 /\ age = (IF g.pc = "removed" THEN Older(g.age, Cap) ELSE 0)
            /\ scanLate = IF g.pc \in {"scan", "swept"} THEN g.scanLate + 1 ELSE 0
      OBVIOUS
    <2>2. gc'[c] = [g EXCEPT !.late = late, !.age = age, !.scanLate = scanLate]
      BY <1>1, <1>3, <2>1 DEF Tick
    <2>3. late \in 0..MaxLate
      <3>1. g.late < MaxLate /\ g.late \in 0..MaxLate
        BY <1>1, GcNow DEF Tick
      <3> QED BY <2>1, <3>1, Constants
    <2>4. age \in Ages
      BY <1>1, <2>1, GcNow, OlderIs, CapIs DEF Ages
    <2>5. scanLate \in 0..MaxLate
      <3>1. g.scanLate < MaxLate /\ g.scanLate \in 0..MaxLate
        BY <1>1, GcNow DEF Tick
      <3>2. g.scanLate + 1 \in 0..MaxLate /\ 0 \in 0..MaxLate
        BY <3>1, Constants
      <3> QED BY <2>1, <3>2
    <2> QED BY <1>1, <2>2, <2>3, <2>4, <2>5 DEF Gc
  <1> QED BY <1>2, <1>3

(* The passage of time removes nothing. *)
LEMMA TickStep ==
    ASSUME BaseInv, Tick
    PROVE  BaseInv' /\ (DiskInv => DiskInv')
  <1>1. UNCHANGED <<links, lock, store>>
    BY DEF Tick
  <1>2. dir' \in Partial(Names, File) /\ DOMAIN dir' = Files /\ \A n \in Files : dir'[n].data = dir[n].data
    <2>1. dir' = [n \in DOMAIN dir |-> [dir[n] EXCEPT !.age = Older(dir[n].age, Cap)]]
      BY DEF Tick, Files
    <2>2. DOMAIN dir \subseteq Names /\ \A n \in DOMAIN dir : dir[n] \in File
      BY Now, PartialIs
    <2>3. \A n \in DOMAIN dir : dir'[n] \in File /\ dir'[n].data = dir[n].data
      BY <2>1, <2>2, AgedFile
    <2>4. DOMAIN dir' = DOMAIN dir /\ dir' \in [DOMAIN dir -> File]
      BY <2>1, <2>3
    <2>5. dir' \in Partial(Names, File)
      BY <2>2, <2>4, PartialIs
    <2> QED BY <2>3, <2>4, <2>5 DEF Files
  <1>3. disk' \in Partial(Names, File) /\ DOMAIN disk' = DOMAIN disk /\ \A n \in DOMAIN disk : disk'[n].data = disk[n].data
    <2>1. disk' = [n \in DOMAIN disk |-> [disk[n] EXCEPT !.age = Older(disk[n].age, Cap)]]
      BY DEF Tick, Files
    <2>2. DOMAIN disk \subseteq Names /\ \A n \in DOMAIN disk : disk[n] \in File
      BY Now, PartialIs
    <2>3. \A n \in DOMAIN disk : disk'[n] \in File /\ disk'[n].data = disk[n].data
      BY <2>1, <2>2, AgedFile
    <2>4. DOMAIN disk' = DOMAIN disk /\ disk' \in [DOMAIN disk -> File]
      BY <2>1, <2>3
    <2>5. disk' \in Partial(Names, File)
      BY <2>2, <2>4, PartialIs
    <2> QED BY <2>3, <2>4, <2>5 DEF Files
  <1>4. catalog' \in Partial(Digests, Ages) /\ DOMAIN catalog' = Cataloged
    <2>1. DOMAIN catalog' = Cataloged /\ \A d \in Cataloged : catalog'[d] \in Ages
      BY Now, OlderIs, CapIs DEF Tick, Ages
    <2>2. catalog' \in [Cataloged -> Ages]
      BY <2>1 DEF Tick
    <2> QED BY <2>1, <2>2, Now, PartialIs
  <1>5. gc' \in [Collectors -> Gc]
    BY AgedGc DEF Tick
  <1>6. unused' \in [Digests -> 0..Grace]
    <2>1. \A d \in Digests : unused'[d] \in 0..Grace
      <3>1. \A d \in Digests : Older(unused[d], Grace) \in 0..Grace
        BY Now, OlderIs, Constants
      <3>2. 0 \in 0..Grace
        BY Constants
      <3> QED BY <3>1, <3>2 DEF Tick
    <2> QED BY <2>1 DEF Tick
  <1>7. TypeOK'
    BY <1>1, <1>2, <1>3, <1>4, <1>5, <1>6, Now DEF TypeOK
  <1>8. DataInv'
    BY <1>2, <1>3 DEF BaseInv, DataInv, Files
  <1>9. LinkedIsCataloged' /\ TempsApart'
    BY <1>1, <1>4 DEF BaseInv, LinkedIsCataloged, Linked, Cataloged, TempsApart
  <1>10. ASSUME NEW q \in Storers PROVE StoreInv(q)'
    BY <1>1, <1>2, <1>3, OthersKeep DEF DirKeeps, OnDisk, BaseInv
  <1>11. \A c \in Collectors : GcInv(c)'
    BY <1>1, AgedGc DEF BaseInv, GcInv
  <1>12. DiskInv => DiskInv'
    BY <1>2, <1>3, <1>4, AgedGc DEF DiskInv, OnDisk, Files, Cataloged
  <1> QED BY <1>7, <1>8, <1>9, <1>10, <1>11, <1>12 DEF BaseInv

(* A power failure may undo what was not synced, but no digest's file that *)
(* is in the directory and on disk.                                        *)
LEMMA PowerLossStep ==
    ASSUME BaseInv, PowerLoss
    PROVE  BaseInv' /\ (DiskInv => DiskInv')
  <1>1. /\ disk' = dir' /\ lock' = NoOne /\ store' = [p \in Storers |-> NoStore] /\ gc' = [c \in Collectors |-> NoGc]
        /\ UNCHANGED <<catalog, links, unused>>
    BY DEF PowerLoss, Sync
  <1>2. PICK S \in SUBSET (DOMAIN disk \cup Files) :
           /\ Files \cap DOMAIN disk \subseteq S
           /\ dir' = [n \in S |-> AfterPowerLoss(IF n \in Files THEN dir[n] ELSE disk[n])]
    BY DEF PowerLoss
  <1>3. DOMAIN dir' = S /\ S \subseteq Names
    BY <1>2, Now
  <1>4. ASSUME NEW n \in S
        PROVE  dir'[n] \in File /\ (n \in Digests => dir'[n].data = "synced")
    <2>1. PICK f : f = IF n \in Files THEN dir[n] ELSE disk[n]
      OBVIOUS
    <2>2. dir'[n] = AfterPowerLoss(f)
      BY <1>2, <2>1
    <2>3. f \in File
      <3>1. \A m \in DOMAIN disk : disk[m] \in File
        BY Now, PartialIs
      <3> QED BY <1>2, <2>1, <3>1, Now
    <2>4. n \in Digests => f.data = "synced"
      BY <1>2, <2>1 DEF BaseInv, DataInv
    <2>5. AfterPowerLoss(f) \in File
      BY <2>3 DEF AfterPowerLoss, File
    <2>6. f.data = "synced" => AfterPowerLoss(f) = f
      BY DEF AfterPowerLoss
    <2> QED BY <2>2, <2>3, <2>4, <2>5, <2>6
  <1>5. dir' \in Partial(Names, File)
    <2>1. dir' \in [S -> File]
      BY <1>2, <1>4
    <2> QED BY <1>3, <2>1, PartialIs
  <1>6. store' \in [Storers -> Store] /\ gc' \in [Collectors -> Gc]
    BY <1>1, Idle, NoGcIs
  <1>7. TypeOK'
    BY <1>1, <1>5, <1>6, Now DEF TypeOK
  <1>8. DataInv'
    BY <1>1, <1>3, <1>4 DEF DataInv, Files
  <1>9. LinkedIsCataloged'
    BY <1>1 DEF BaseInv, LinkedIsCataloged, Linked, Cataloged
  <1>10. TempsApart'
    BY <1>1, Idle DEF TempsApart
  <1>11. \A p \in Storers : StoreInv(p)'
    BY <1>1, Idle DEF StoreInv
  <1>12. \A c \in Collectors : GcInv(c)'
    BY <1>1, NoGcIs DEF GcInv
  <1>13. DiskInv => DiskInv'
    BY <1>1, <1>2, <1>3, NoGcIs DEF DiskInv, OnDisk, Files, Cataloged
  <1> QED BY <1>7, <1>8, <1>9, <1>10, <1>11, <1>12, <1>13 DEF BaseInv

-----------------------------------------------------------------------------
(* The invariants and the theorems.                                        *)

(* Both invariants hold in an empty store. *)
LEMMA BaseInit == Init => BaseInv /\ DiskInv
  <1> SUFFICES ASSUME Init PROVE BaseInv /\ DiskInv
    OBVIOUS
  <1>1. \A D, R : EmptyMap \in Partial(D, R) /\ DOMAIN EmptyMap = {}
    BY PartialIs DEF EmptyMap
  <1>2. catalog = EmptyMap /\ dir = EmptyMap /\ disk = EmptyMap /\ links = {} /\ lock = NoOne
    BY DEF Init
  <1>3. store \in [Storers -> Store] /\ \A p \in Storers : store[p] = NoStore
    BY Idle DEF Init
  <1>4. gc \in [Collectors -> Gc] /\ \A c \in Collectors : gc[c] = NoGc
    BY NoGcIs DEF Init
  <1>5. unused \in [Digests -> 0..Grace]
    BY Constants DEF Init
  <1>6. TypeOK
    BY <1>1, <1>2, <1>3, <1>4, <1>5 DEF TypeOK
  <1>7. DataInv /\ LinkedIsCataloged
    BY <1>1, <1>2 DEF DataInv, Files, LinkedIsCataloged, Linked
  <1>8. TempsApart /\ \A p \in Storers : StoreInv(p)
    BY <1>3, Idle DEF TempsApart, StoreInv
  <1>9. \A c \in Collectors : GcInv(c)
    BY <1>4, NoGcIs DEF GcInv
  <1>10. DiskInv
    BY <1>1, <1>2, <1>4, NoGcIs DEF DiskInv, Cataloged
  <1> QED BY <1>6, <1>7, <1>8, <1>9, <1>10 DEF BaseInv

(* A storer's step leaves what DiskInv speaks of where it is.              *)
LEMMA StorerDisk ==
    ASSUME BaseInv, DigestsStay, UNCHANGED gc,
           DOMAIN catalog' = Cataloged \/ \E d \in OnDisk : DOMAIN catalog' = Cataloged \cup {d}
    PROVE  DiskInv => DiskInv'
  <1>1. OnDisk \subseteq OnDisk'
    BY DEF DigestsStay, OnDisk, Files
  <1> QED BY <1>1 DEF DiskInv, Cataloged

(* Every step of a storer, and its death at any of them. *)
LEMMA StorerSteps ==
    ASSUME BaseInv, NEW p \in Storers, StoreStep(p) \/ StopStore(p)
    PROVE  BaseInv' /\ (DiskInv => DiskInv')
  <1>1. UNCHANGED gc
    BY DEF StoreStep, StopStore, CreateTemp, SyncTemp, Publish, UnlinkTemp, Flush, Catalog, Link, DropReference
  <1>2. CASE Catalog(p)
    BY <1>1, <1>2, CatalogStep, StorerDisk
  <1>3. CASE ~Catalog(p)
    <2>1. BaseInv' /\ DigestsStay /\ UNCHANGED catalog
      BY <1>3, CreateStep, SyncStep, PublishStep, UnlinkStep, FlushStep, LeaveStep DEF StoreStep
    <2> QED BY <1>1, <2>1, StorerDisk DEF Cataloged
  <1> QED BY <1>2, <1>3

(* Every step of a collector, its death at any of them, and the restoring of a row. *)
LEMMA CollectorSteps ==
    ASSUME BaseInv, NEW c \in Collectors, GcStep(c) \/ StopGc(c) \/ RestoreRow(c)
    PROVE  BaseInv' /\ Collects(c)
  BY QuietSteps, RemoveRowStep, RemoveFileStep, RestoreStep, CommitSteps, ScanStep DEF GcStep

(* With one collector, what it removes leaves every cataloged file on disk. *)
LEMMA CollectorDisk ==
    ASSUME OneCollector, NEW c \in Collectors, Collects(c)
    PROVE  DiskInv => DiskInv'
  BY DEF OneCollector, Collects, DiskInv, Cataloged

(* BaseInv is inductive; DiskInv is inductive with one collector. *)
LEMMA BaseStep ==
    ASSUME BaseInv, [Next]_vars
    PROVE  BaseInv' /\ (OneCollector /\ DiskInv => DiskInv')
  <1>1. CASE UNCHANGED vars
    BY <1>1 DEF vars, BaseInv, TypeOK, DataInv, Files, LinkedIsCataloged, Linked, Cataloged, TempsApart, StoreInv, GcInv,
                DiskInv, OnDisk
  <1>2. ASSUME NEW p \in Storers, StoreStep(p) \/ StopStore(p) PROVE BaseInv' /\ (DiskInv => DiskInv')
    BY <1>2, StorerSteps
  <1>3. ASSUME NEW c \in Collectors, GcStep(c) \/ StopGc(c) \/ RestoreRow(c)
        PROVE  BaseInv' /\ (OneCollector /\ DiskInv => DiskInv')
    BY <1>3, CollectorSteps, CollectorDisk
  <1>4. ASSUME NEW s \in Sessions, DeleteSession(s) PROVE BaseInv' /\ (DiskInv => DiskInv')
    BY <1>4, DeleteStep
  <1>5. CASE Tick
    BY <1>5, TickStep
  <1>6. CASE PowerLoss
    BY <1>6, PowerLossStep
  <1> QED BY <1>1, <1>2, <1>3, <1>4, <1>5, <1>6 DEF Next, Normal, Fault

(* Any number of storers and collectors: types, what a session links is    *)
(* cataloged, and the temporary file of a store in progress is kept.       *)
THEOREM Invariance == Spec => []BaseInv
  <1>1. BaseInv /\ [Next]_vars => BaseInv'
    BY BaseStep
  <1>2. Init => BaseInv
    BY BaseInit
  <1> QED BY <1>1, <1>2, PTL DEF Spec

(* BaseInv implies that no file of a live store is taken from it. *)
LEMMA TempsStay ==
    ASSUME BaseInv
    PROVE  TempsAreKept
  <1>1. ASSUME NEW p \in Storers, store[p].temp # NoOne PROVE store[p].temp \in Files
    BY <1>1 DEF BaseInv, StoreInv
  <1> QED BY <1>1 DEF TempsAreKept, Locked

(* An asset a session links to is never collected, and a store in progress never loses its
   temporary file to the orphan sweep of collect_assets (store_asset, collect_assets, the
   TEMP_PREFIX minimum age): for any number of storers and collectors, whatever dies and
   whenever. *)
THEOREM UsedIsKept == Spec => [](TypeOK /\ LinkedIsCataloged /\ TempsAreKept)
  <1>1. BaseInv => TypeOK /\ LinkedIsCataloged /\ TempsAreKept
    BY TempsStay DEF BaseInv
  <1> QED BY <1>1, Invariance, PTL

(* With one collector at a time nothing in use is lost at all: every       *)
(* cataloged asset can be read, whatever storers, crashes, failing system  *)
(* calls and power failures do.                                            *)
THEOREM AssetsStay ==
    ASSUME OneCollector
    PROVE  Spec => []AssetsAreKept
  <1>1. BaseInv /\ DiskInv /\ [Next]_vars => (BaseInv /\ DiskInv)'
    BY BaseStep
  <1>2. BaseInv /\ DiskInv => AssetsAreKept
    BY TempsStay DEF BaseInv, DiskInv, OnDisk, DataInv, AssetsAreKept, CatalogIsReadable, Readable
  <1> QED BY <1>1, <1>2, BaseInit, PTL DEF Spec

=============================================================================
