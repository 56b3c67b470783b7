------------------------------- MODULE Assets -------------------------------
(***************************************************************************)
(* Content-addressed media files and the catalog rows that speak for them: *)
(* storing, linking to sessions, and garbage collection by several         *)
(* processes over one directory and one database.                          *)
(*                                                                         *)
(* A file is published and removed by file-system calls made inside SQLite *)
(* write transactions, so the write lock is explicit and every call that   *)
(* a crash can separate from the next is an action of its own.  A          *)
(* committed transaction is durable (synchronous = EXTRA); a directory     *)
(* entry only after the directory was synced.                              *)
(*                                                                         *)
(* Abstractions: a digest is the content; ownership, modes and access      *)
(* lists are valid; ages count ticks and stop where comparisons stop.      *)
(***************************************************************************)
EXTENDS Integers, FiniteSets, FiniteSetsExt, Functions

CONSTANTS
    Digests,        \* contents of media
    Temps,          \* names for temporary files
    Sessions,       \* sessions with transcripts that link media
    Storers,        \* callers of store_asset
    Collectors,     \* callers of gc_assets
    NoOne,          \* nobody holds the database's write lock
    Grace,          \* the grace period in ticks
    TempMin,        \* one hour in ticks
    MaxLate,        \* bound: ticks one collection pass may take
    MaxEntries      \* MAX_GC_DIRECTORY_ENTRIES

ASSUME AssetsAssumption ==
    /\ NoOne \notin Storers \cup Collectors \cup Digests \cup Temps
    /\ Storers \cap Collectors = {} /\ Digests \cap Temps = {}
    /\ Grace \in Nat \ {0} /\ TempMin \in Nat \ {0} /\ MaxLate \in Nat /\ MaxEntries \in Nat \ {0}

VARIABLES
    catalog,    \* the assets table: the age of each row
    dir,        \* the asset directory
    disk,       \* the directory as of its last sync
    links,      \* rows of session_assets and of the turn journal's tables
    lock,       \* holder of the write lock
    store,      \* the calls of store_asset
    gc,         \* the calls of gc_assets
    unused      \* history: ticks since an asset was last stored or linked

vars == <<catalog, dir, disk, links, lock, store, gc, unused>>

Cap == Max({Grace, TempMin}) + MaxLate
Ages == 0..Cap
Names == Digests \cup Temps

(* data: written, or synced as well, or lost by a power failure.           *)
File == [data : {"written", "synced", "torn"}, age : Ages]

Partial(D, R) == UNION {[d -> R] : d \in SUBSET D}

Store == [pc : {"idle", "open", "synced", "linked", "clean", "flushed", "stored"},
          temp : Temps \cup {NoOne}, digest : Digests \cup {NoOne}]

(* todo: candidates left; cur: the row removed last with its age; scan:    *)
(* names left to look at; late, scanLate: ticks since the cutoffs.         *)
Gc == [pc : {"idle", "catalog", "removed", "unlinked", "scan", "swept"},
       todo : SUBSET Digests, cur : Digests \cup {NoOne}, age : Ages, scan : SUBSET Names,
       late : 0..MaxLate, scanLate : 0..MaxLate]

TypeOK ==
    /\ catalog \in Partial(Digests, Ages)
    /\ dir \in Partial(Names, File) /\ disk \in Partial(Names, File)
    /\ links \subseteq Sessions \X Digests
    /\ lock \in Storers \cup Collectors \cup {NoOne}
    /\ store \in [Storers -> Store]
    /\ gc \in [Collectors -> Gc]
    /\ unused \in [Digests -> 0..Grace]

-----------------------------------------------------------------------------
Cataloged == DOMAIN catalog
Files == DOMAIN dir

With(f, x, y) == [z \in DOMAIN f \cup {x} |-> IF z = x THEN y ELSE f[z]]
Without(f, S) == Restrict(f, DOMAIN f \ S)

Linked == {l[2] : l \in links}

(* The flock on a temporary file lasts as long as its storer.              *)
Locked == {store[p].temp : p \in Storers} \ {NoOne}

Sync == disk' = dir'

GoStore(p, pc) == store' = [store EXCEPT ![p].pc = pc]
GoGc(c, pc) == gc' = [gc EXCEPT ![c] = [@ EXCEPT !.pc = pc, !.cur = NoOne, !.age = 0]]

NoStore == [pc |-> "idle", temp |-> NoOne, digest |-> NoOne]
NoGc == [pc |-> "idle", todo |-> {}, cur |-> NoOne, age |-> 0, scan |-> {}, late |-> 0, scanLate |-> 0]

(* What read_asset verifies before it returns the bytes.                   *)
Readable(d) == d \in Cataloged /\ d \in Files /\ dir[d].data = "synced"

-----------------------------------------------------------------------------
(* store_asset                                                             *)

CreateTemp(p, t, d) ==
    /\ store[p].pc = "idle" /\ t \notin Files \cup DOMAIN disk
    /\ store' = [store EXCEPT ![p] = [pc |-> "open", temp |-> t, digest |-> d]]
    /\ dir' = With(dir, t, [data |-> "written", age |-> 0])
    /\ UNCHANGED <<catalog, disk, links, lock, gc, unused>>

(* The bounded stream is written and hashed, then the file is synced.      *)
SyncTemp(p) ==
    /\ store[p].pc = "open"
    /\ GoStore(p, "synced")
    /\ dir' = [dir EXCEPT ![store[p].temp] = [data |-> "synced", age |-> 0]]
    /\ UNCHANGED <<catalog, disk, links, lock, gc, unused>>

(* Begin the transaction and link the synced file to its digest; a file    *)
(* that is already there is kept and must verify.                          *)
Publish(p) ==
    LET d == store[p].digest IN
    /\ store[p].pc = "synced" /\ lock = NoOne
    /\ lock' = p
    /\ d \in Files => dir[d].data # "torn"
    /\ dir' = IF d \in Files THEN dir ELSE With(dir, d, dir[store[p].temp])
    /\ GoStore(p, "linked")
    /\ UNCHANGED <<catalog, disk, links, gc, unused>>

UnlinkTemp(p) ==
    /\ store[p].pc = "linked"
    /\ dir' = Without(dir, {store[p].temp})
    /\ store' = [store EXCEPT ![p] = [@ EXCEPT !.pc = "clean", !.temp = NoOne]]
    /\ UNCHANGED <<catalog, disk, links, lock, gc, unused>>

(* Mutant: the directory is left to the operating system.                  *)
FlushLater(p) ==
    /\ store[p].pc = "clean"
    /\ GoStore(p, "flushed")
    /\ UNCHANGED <<catalog, dir, disk, links, lock, gc, unused>>

Flush(p) ==
    /\ store[p].pc = "clean"
    /\ UNCHANGED dir /\ Sync
    /\ GoStore(p, "flushed")
    /\ UNCHANGED <<catalog, links, lock, gc, unused>>

(* A row that is there keeps its created_at.                               *)
Catalog(p) ==
    LET d == store[p].digest IN
    /\ store[p].pc = "flushed"
    /\ catalog' = IF d \in Cataloged THEN catalog ELSE With(catalog, d, 0)
    /\ lock' = NoOne
    /\ GoStore(p, "stored")
    /\ unused' = [unused EXCEPT ![d] = 0]
    /\ UNCHANGED <<dir, disk, links, gc>>

(* The reference is linked by an event or by a turn's journal, or refused  *)
(* because the row is gone, or dropped with the turn.                      *)
Link(p, s) ==
    /\ store[p].pc = "stored" /\ lock = NoOne
    /\ links' = IF store[p].digest \in Cataloged THEN links \cup {<<s, store[p].digest>>} ELSE links
    /\ store' = [store EXCEPT ![p] = NoStore]
    /\ UNCHANGED <<catalog, dir, disk, lock, gc, unused>>

DropReference(p) ==
    /\ store[p].pc = "stored"
    /\ store' = [store EXCEPT ![p] = NoStore]
    /\ UNCHANGED <<catalog, dir, disk, links, lock, gc, unused>>

(* An error returns through the destructor of PendingAsset, a crash does   *)
(* not; both end the transaction.                                          *)
StopStore(p) ==
    /\ store[p].pc \notin {"idle", "stored"}
    /\ \/ dir' = Without(dir, {store[p].temp})
       \/ dir' = dir
    /\ lock' = IF lock = p THEN NoOne ELSE lock
    /\ store' = [store EXCEPT ![p] = NoStore]
    /\ UNCHANGED <<catalog, disk, links, gc, unused>>

(* ON DELETE CASCADE: the links go with the session; delete_session and    *)
(* maintain delete nothing else.                                           *)
DeleteSession(s) ==
    /\ lock = NoOne
    /\ links' = {l \in links : l[1] # s}
    /\ unused' = [d \in Digests |-> IF d \in Linked THEN 0 ELSE unused[d]]
    /\ UNCHANGED <<catalog, dir, disk, lock, store, gc>>

-----------------------------------------------------------------------------
(* gc_assets                                                               *)

Collectable(d, late) == d \in Cataloged \ Linked /\ catalog[d] - late >= Grace

StartGc(c) ==
    /\ gc[c].pc = "idle"
    /\ gc' = [gc EXCEPT ![c] = [NoGc EXCEPT !.pc = "catalog",
                                               !.todo = {d \in Digests : Collectable(d, 0)}]]
    /\ UNCHANGED <<catalog, dir, disk, links, lock, store, unused>>

StillCollectable(c, d) == Collectable(d, gc[c].late)

(* The first transaction: only the row goes.                               *)
RemoveRow(c, d) ==
    /\ gc[c].pc = "catalog" /\ d \in gc[c].todo /\ lock = NoOne
    /\ IF StillCollectable(c, d)
       THEN /\ catalog' = Without(catalog, {d})
            /\ gc' = [gc EXCEPT ![c] = [gc[c] EXCEPT !.pc = "removed", !.todo = @ \ {d}, !.cur = d,
                                                     !.age = catalog[d]]]
       ELSE /\ UNCHANGED catalog
            /\ gc' = [gc EXCEPT ![c].todo = @ \ {d}]
    /\ UNCHANGED <<dir, disk, links, lock, store, unused>>

Recataloged(d) == d \in Cataloged

(* The second transaction: the file goes unless it was stored again.       *)
RemoveFile(c) ==
    LET d == gc[c].cur IN
    /\ gc[c].pc = "removed" /\ lock = NoOne
    /\ \/ /\ Recataloged(d) \/ d \notin Files
          /\ GoGc(c, "catalog")
          /\ UNCHANGED <<dir, lock>>
       \/ /\ ~Recataloged(d) /\ d \in Files /\ dir[d].data # "torn"
          /\ dir' = Without(dir, {d})
          /\ lock' = c
          /\ GoGc(c, "unlinked")
    /\ UNCHANGED <<catalog, disk, links, store, unused>>

(* The file cannot be opened, verified or removed: the row is put back and *)
(* the pass ends.                                                          *)
RestoreRow(c) ==
    LET d == gc[c].cur IN
    /\ gc[c].pc = "removed" /\ lock = NoOne
    /\ ~Recataloged(d) /\ d \in Files
    /\ catalog' = With(catalog, d, gc[c].age)
    /\ gc' = [gc EXCEPT ![c] = NoGc]
    /\ UNCHANGED <<dir, disk, links, lock, store, unused>>

CommitRemoval(c) ==
    /\ gc[c].pc = "unlinked"
    /\ UNCHANGED dir /\ Sync
    /\ lock' = NoOne
    /\ GoGc(c, "catalog")
    /\ UNCHANGED <<catalog, links, store, unused>>

(* readdir yields at most MaxEntries names, in any order.                  *)
StartScan(c) ==
    /\ gc[c].pc = "catalog" /\ gc[c].todo = {}
    /\ \E S \in SUBSET Files :
          /\ Cardinality(S) = Min({MaxEntries, Cardinality(Files)})
          /\ gc' = [gc EXCEPT ![c] = [@ EXCEPT !.pc = "scan", !.scan = S, !.scanLate = 0]]
    /\ UNCHANGED <<catalog, dir, disk, links, lock, store, unused>>

Orphan(c, n) ==
    /\ n \in Files /\ dir[n].age - gc[c].late >= Grace
    /\ IF n \in Digests THEN n \notin Cataloged
       ELSE n \notin Locked /\ dir[n].age - gc[c].scanLate >= TempMin

(* A digest whose content does not verify ends the pass with an error.     *)
ScanName(c, n) ==
    /\ gc[c].pc = "scan" /\ n \in gc[c].scan /\ lock = NoOne
    /\ IF Orphan(c, n)
       THEN IF n \in Digests /\ dir[n].data = "torn"
            THEN gc' = [gc EXCEPT ![c] = NoGc] /\ UNCHANGED <<dir, lock>>
            ELSE /\ dir' = Without(dir, {n})
                 /\ lock' = c
                 /\ gc' = [gc EXCEPT ![c] = [gc[c] EXCEPT !.pc = "swept", !.scan = @ \ {n}]]
       ELSE gc' = [gc EXCEPT ![c].scan = @ \ {n}] /\ UNCHANGED <<dir, lock>>
    /\ UNCHANGED <<catalog, disk, links, store, unused>>

CommitSweep(c) ==
    /\ gc[c].pc = "swept"
    /\ UNCHANGED dir /\ Sync
    /\ lock' = NoOne
    /\ GoGc(c, "scan")
    /\ UNCHANGED <<catalog, links, store, unused>>

FinishGc(c) ==
    /\ gc[c].pc = "scan" /\ gc[c].scan = {}
    /\ gc' = [gc EXCEPT ![c] = NoGc]
    /\ UNCHANGED <<catalog, dir, disk, links, lock, store, unused>>

(* A crash, or an error of a system call.                                  *)
StopGc(c) ==
    /\ gc[c].pc # "idle"
    /\ gc' = [gc EXCEPT ![c] = NoGc]
    /\ lock' = IF lock = c THEN NoOne ELSE lock
    /\ UNCHANGED <<catalog, dir, disk, links, store, unused>>

-----------------------------------------------------------------------------
(* Every process dies.  Directory changes since the last sync survive in   *)
(* any combination, data that was not synced does not.                     *)
AfterPowerLoss(f) == IF f.data = "written" THEN [f EXCEPT !.data = "torn"] ELSE f

PowerLoss ==
    /\ \E S \in SUBSET (DOMAIN disk \cup Files) :
          /\ Files \cap DOMAIN disk \subseteq S
          /\ dir' = [n \in S |-> AfterPowerLoss(IF n \in Files THEN dir[n] ELSE disk[n])]
    /\ Sync
    /\ lock' = NoOne
    /\ store' = [p \in Storers |-> NoStore]
    /\ gc' = [c \in Collectors |-> NoGc]
    /\ UNCHANGED <<catalog, links, unused>>

Older(n, top) == IF n < top THEN n + 1 ELSE top

Tick ==
    /\ \A c \in Collectors : gc[c].late < MaxLate /\ gc[c].scanLate < MaxLate
    /\ catalog' = [d \in Cataloged |-> Older(catalog[d], Cap)]
    /\ dir' = [n \in Files |-> [dir[n] EXCEPT !.age = Older(@, Cap)]]
    /\ disk' = [n \in DOMAIN disk |-> [disk[n] EXCEPT !.age = Older(@, Cap)]]
    /\ gc' = [c \in Collectors |->
                IF gc[c].pc = "idle" THEN gc[c]
                ELSE [gc[c] EXCEPT !.late = @ + 1,
                                   !.age = IF gc[c].pc = "removed" THEN Older(@, Cap) ELSE 0,
                                   !.scanLate = IF gc[c].pc \in {"scan", "swept"} THEN @ + 1 ELSE 0]]
    /\ unused' = [d \in Digests |-> IF d \in Linked THEN 0 ELSE Older(unused[d], Grace)]
    /\ UNCHANGED <<links, lock, store>>

-----------------------------------------------------------------------------
EmptyMap == [x \in {} |-> 0]

Init ==
    /\ catalog = EmptyMap /\ dir = EmptyMap /\ disk = EmptyMap
    /\ links = {} /\ lock = NoOne
    /\ store = [p \in Storers |-> NoStore]
    /\ gc = [c \in Collectors |-> NoGc]
    /\ unused = [d \in Digests |-> 0]

StoreStep(p) ==
    \/ \E t \in Temps, d \in Digests : CreateTemp(p, t, d)
    \/ SyncTemp(p)
    \/ Publish(p)
    \/ UnlinkTemp(p)
    \/ Flush(p)
    \/ Catalog(p)
    \/ \E s \in Sessions : Link(p, s)
    \/ DropReference(p)

GcStep(c) ==
    \/ StartGc(c)
    \/ \E d \in Digests : RemoveRow(c, d)
    \/ RemoveFile(c)
    \/ CommitRemoval(c)
    \/ StartScan(c)
    \/ \E n \in Names : ScanName(c, n)
    \/ CommitSweep(c)
    \/ FinishGc(c)

Fault ==
    \/ \E p \in Storers : StopStore(p)
    \/ \E c \in Collectors : StopGc(c) \/ RestoreRow(c)
    \/ PowerLoss

Normal ==
    \/ \E p \in Storers : StoreStep(p)
    \/ \E c \in Collectors : GcStep(c)
    \/ \E s \in Sessions : DeleteSession(s)
    \/ Tick

Next == Normal \/ Fault

Spec == Init /\ [][Next]_vars

(* Time passes, a transaction that was begun ends, and collection is run   *)
(* again and gets its turn at the write lock.                              *)
FairSpec ==
    /\ Spec
    /\ WF_vars(Tick)
    /\ \A p \in Storers : WF_vars(UnlinkTemp(p) \/ Flush(p) \/ Catalog(p))
    /\ \A c \in Collectors : SF_vars(GcStep(c))

-----------------------------------------------------------------------------
(* Properties.                                                             *)

(* Every cataloged asset can be read: its file is in the directory with    *)
(* all its bytes, also while others store and collect the same content and *)
(* after a crash or a power failure at any point.                          *)
CatalogIsReadable == \A d \in Cataloged : Readable(d)

(* What a session links stays cataloged however collection interleaves     *)
(* with storing and linking.                                               *)
LinkedIsCataloged == Linked \subseteq Cataloged

(* The temporary file of a store in progress is never collected under it,  *)
(* however slowly its stream arrives.                                      *)
TempsAreKept == Locked \subseteq Files

(* Once nothing fails any more, what a crash left behind, a file without a *)
(* row or a temporary file without its storer, is collected.               *)
OrphansAreCollected ==
    <>[][Normal]_vars =>
        \A n \in Names : (n \in Files \ (Cataloged \cup Locked)) ~> (n \notin Files \/ n \in Cataloged)

(* An asset that nobody uses is kept, counted from its last use, for the   *)
(* whole grace period before its row goes.                                 *)
UnusedIsKept == [][\A d \in Cataloged : d \notin Cataloged' => unused[d] >= Grace]_vars


(* Deleting a session deletes the assets that it was the last to use.      *)
DeletionFreesAssets == [][\A d \in Linked : d \notin Linked' => d \notin Cataloged']_vars

(* Storing, linking and collecting the same content at the same time, with *)
(* crashes and power failures at any point, loses nothing that is in use.  *)
AssetsAreKept == TypeOK /\ CatalogIsReadable /\ LinkedIsCataloged /\ TempsAreKept
=============================================================================
