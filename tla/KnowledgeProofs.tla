--------------------------- MODULE KnowledgeProofs ---------------------------
(* Theorems about Knowledge for any keys, workers, versions and windows.   *)
EXTENDS Knowledge, FiniteSetTheorems, WellFoundedInduction, TLAPS

(* What a row is by itself: its active version is there, a number names    *)
(* one version, and a row that is gone is gone entirely.                   *)
GoodRow(r) ==
    /\ r \in Row
    /\ ~Stored(r) => r = NoRow
    /\ Stored(r) => r.active \in Numbers(r)
    /\ \A x, y \in r.versions : x.v = y.v => x = y

(* What a row owes to its history: no number beyond the newest version was *)
(* ever given out, and the tombstone is no older than it is on record.     *)
RowInv(k) ==
    /\ GoodRow(rows[k])
    /\ ~Stored(rows[k]) => hist.spent[k] = {}
    /\ \A n \in hist.spent[k] : \E x \in rows[k].versions : n <= x.v
    /\ rows[k].tombstoned =>
          rows[k].tombAge <= hist.hidden[k] /\ rows[k].tombAge <= hist.audit[k]

(* A job that may still run has a failure left.                            *)
JobInv(t) == jobs[t].state \in {"pending", "running"} => jobs[t].fails < MAX_JOB_FAILURES

KInv ==
    /\ TypeOK
    /\ \A k \in Keys : RowInv(k)
    /\ \A t \in Seqs : JobInv(t)
    /\ AppliedOnce

(* How a row may follow another one within a step, but for time: `audited` *)
(* tells whether its tombstone is put on record.                           *)
Follows(r, r2, audited) ==
    /\ GoodRow(r2)
    /\ Stored(r2) => \A x \in r.versions : \E y \in r2.versions : x.v <= y.v
    /\ \A x \in r2.versions \ r.versions : \A y \in r.versions : y.v < x.v
    /\ r2.tombstoned => r2.tombAge = 0 \/ (r.tombstoned /\ r2.tombAge = r.tombAge /\ ~audited)
    /\ Stored(r) /\ ~Stored(r2) => r.tombstoned /\ r.tombAge = Grace

-----------------------------------------------------------------------------
(* Versions.                                                               *)

(* What KnowledgeAssumption says of the numbers and of the two names that are no worker. *)
LEMMA Bounds ==
    /\ MaxSeq \in Nat /\ MaxVersion \in Nat /\ MaxRetries \in Nat /\ Backoff \in Nat
    /\ Keep \in Nat /\ Keep >= 1 /\ MaxAge \in Nat /\ Grace \in Nat /\ Grace >= 1
    /\ WorkerTtl \in Nat /\ WorkerTtl >= 1
    /\ Seqs \subseteq Nat /\ 0 \notin Seqs /\ 1..MaxVersion \subseteq Nat
    /\ NoOne \notin Workers /\ Orphan \notin Workers
  BY KnowledgeAssumption DEF Seqs

(* A set of naturals has a least element.                                  *)
LEMMA MinIs ==
    ASSUME NEW S \in SUBSET Nat, S # {}
    PROVE  Min(S) \in S /\ \A y \in S : Min(S) <= y
  <1>1. PICK x \in S : \A y \in S : ~(<<y, x>> \in OpToRel(<, Nat))
    BY WFMin, NatLessThanWellFounded
  <1>2. \A y \in S : ~(y < x)
    BY <1>1 DEF OpToRel
  <1>3. \A y \in S : x <= y
    BY <1>2
  <1> QED BY <1>3 DEF Min

(* A bounded one has a greatest.                                           *)
LEMMA MaxIs ==
    ASSUME NEW N \in Nat, NEW S \in SUBSET (1..N), S # {}
    PROVE  Max(S) \in S /\ \A y \in S : y <= Max(S)
  <1> DEFINE U == {m \in Nat : \A y \in S : y <= m}
  <1>1. U \in SUBSET Nat /\ U # {}
    <2>1. N \in U
      OBVIOUS
    <2> QED BY <2>1
  <1>2. PICK m \in U : \A u \in U : m <= u
    <2> HIDE DEF U
    <2> QED BY <1>1, MinIs
  <1>3. m \in S
    <2> SUFFICES ASSUME m \notin S PROVE FALSE
      OBVIOUS
    <2>1. m \in Nat /\ \A y \in S : y \in Nat /\ y <= m /\ y # m /\ y >= 1
      BY <1>2
    <2>2. m - 1 \in Nat
      <3>1. PICK y \in S : TRUE
        OBVIOUS
      <3> QED BY <2>1, <3>1
    <2>3. m - 1 \in U
      BY <2>1, <2>2
    <2> QED BY <1>2, <2>1, <2>3
  <1> QED BY <1>2, <1>3 DEF Max

(* The versions of a row, and the number the next one gets.                *)
LEMMA NumbersOf ==
    ASSUME NEW r \in Row
    PROVE  /\ Numbers(r) \in SUBSET (1..MaxVersion)
           /\ \A x \in r.versions : x.v \in 1..MaxVersion /\ x.v \in Nat /\ x.v \in Numbers(r)
           /\ \A n \in Numbers(r) : \E x \in r.versions : x.v = n
           /\ r.versions # {} <=> Numbers(r) # {}
  <1>1. \A x \in r.versions : x \in [v : 1..MaxVersion, by : 0..MaxSeq]
    BY DEF Row
  <1> QED BY <1>1, Bounds DEF Numbers

(* The next version number is above every stored one. *)
LEMMA NextIsNew ==
    ASSUME NEW r \in Row
    PROVE  /\ NextVersion(r) \in Nat /\ NextVersion(r) >= 1
           /\ \A x \in r.versions : x.v < NextVersion(r)
  <1>1. CASE r.versions = {}
    BY <1>1 DEF NextVersion
  <1>2. CASE r.versions # {}
    <2>1. Max(Numbers(r)) \in Numbers(r) /\ \A y \in Numbers(r) : y <= Max(Numbers(r))
      BY <1>2, NumbersOf, MaxIs, Bounds
    <2>2. Max(Numbers(r)) \in Nat /\ NextVersion(r) = Max(Numbers(r)) + 1
      BY <1>2, <2>1, NumbersOf, Bounds DEF NextVersion
    <2> QED BY <2>1, <2>2, NumbersOf
  <1> QED BY <1>1, <1>2

-----------------------------------------------------------------------------
(* What the operators do to a row.                                         *)

(* A row that only changes its flags.                                      *)
LEMMA FlagsFollow ==
    ASSUME NEW r, GoodRow(r), Stored(r), NEW pinned \in BOOLEAN, NEW tombstoned \in BOOLEAN, NEW audited \in BOOLEAN,
           NEW active \in Numbers(r), NEW tombAge \in 0..Grace,
           tombstoned => tombAge = 0 \/ (r.tombstoned /\ tombAge = r.tombAge /\ ~audited),
           NEW r2, r2 = [active |-> active, versions |-> r.versions, pinned |-> pinned, tombstoned |-> tombstoned,
                         age |-> 0, tombAge |-> tombAge]
    PROVE  Follows(r, r2, audited) /\ Stored(r2)
  <1>1. r \in Row /\ Numbers(r) \in SUBSET (1..MaxVersion)
    BY NumbersOf DEF GoodRow
  <1>2. r2 \in Row
    BY <1>1, Bounds DEF Row
  <1>3. Stored(r2) /\ Numbers(r2) = Numbers(r)
    BY <1>1, Bounds DEF Stored, Numbers
  <1>4. GoodRow(r2)
    BY <1>2, <1>3 DEF GoodRow
  <1>5. \A x \in r.versions : x.v <= x.v
    BY <1>1, NumbersOf
  <1> QED BY <1>3, <1>4, <1>5 DEF Follows

(* A row that stays as it is follows itself. *)
LEMMA Unchanging ==
    ASSUME NEW r, GoodRow(r)
    PROVE  Follows(r, r, FALSE)
  <1>1. \A x \in r.versions : x.v <= x.v
    BY NumbersOf DEF GoodRow
  <1> QED BY <1>1 DEF Follows

(* Storing a version follows: the number is new and nothing is dropped. *)
LEMMA VersionFollows ==
    ASSUME NEW r, GoodRow(r), NEW by \in 0..MaxSeq, NEW pin \in BOOLEAN,
           WithVersion(r, by, pin).active <= MaxVersion, NEW audited \in BOOLEAN
    PROVE  /\ Follows(r, WithVersion(r, by, pin), audited) /\ Stored(WithVersion(r, by, pin))
           /\ r.versions \subseteq WithVersion(r, by, pin).versions /\ ~WithVersion(r, by, pin).tombstoned
  <1> DEFINE v == NextVersion(r)
             new == [v |-> v, by |-> by]
  <1>1. r \in Row /\ v \in Nat /\ v >= 1 /\ \A x \in r.versions : x.v < v /\ x.v \in Nat
    BY NextIsNew, NumbersOf DEF GoodRow
  <1>2. PICK r2 : r2 = WithVersion(r, by, pin)
    OBVIOUS
  <1>3. /\ r2.active = v /\ r2.versions = r.versions \cup {new} /\ r2.pinned = (r.pinned \/ pin)
        /\ ~r2.tombstoned /\ r2.age = 0 /\ r2.tombAge = 0
    BY <1>2 DEF WithVersion
  <1>4. v \in 1..MaxVersion
    BY <1>1, <1>2, <1>3, Bounds
  <1> HIDE DEF v
  <1>5. new \in [v : 1..MaxVersion, by : 0..MaxSeq] /\ new.v = v
    BY <1>4
  <1> HIDE DEF new
  <1>6. r2 \in Row
    <2>1. r.versions \cup {new} \in SUBSET [v : 1..MaxVersion, by : 0..MaxSeq]
      BY <1>1, <1>5 DEF Row
    <2>2. (r.pinned \/ pin) \in BOOLEAN
      BY <1>1 DEF Row
    <2>3. r2 = [active |-> v, versions |-> r.versions \cup {new}, pinned |-> r.pinned \/ pin,
                tombstoned |-> FALSE, age |-> 0, tombAge |-> 0]
      BY <1>2 DEF WithVersion, v, new
    <2> QED BY <1>4, <2>1, <2>2, <2>3, Bounds DEF Row
  <1>7. Stored(r2) /\ v \in Numbers(r2)
    BY <1>1, <1>3, <1>5 DEF Stored, Numbers
  <1>8. \A x, y \in r2.versions : x.v = y.v => x = y
    BY <1>1, <1>3, <1>5 DEF GoodRow
  <1>9. GoodRow(r2)
    BY <1>3, <1>6, <1>7, <1>8 DEF GoodRow
  <1>10. \A x \in r.versions : x \in r2.versions /\ x.v <= x.v
    BY <1>1, <1>3
  <1>11. \A x \in r2.versions \ r.versions : \A y \in r.versions : y.v < x.v
    BY <1>1, <1>3, <1>5
  <1> QED BY <1>2, <1>3, <1>7, <1>9, <1>10, <1>11 DEF Follows

(* Pruning keeps the active and the newest version.                        *)
LEMMA PruneFollows ==
    ASSUME NEW r, GoodRow(r), Stored(r)
    PROVE  Follows(r, Pruned(r), FALSE) /\ Stored(Pruned(r))
  <1>1. CASE r.pinned
    BY <1>1, Unchanging DEF Pruned
  <1>2. CASE ~r.pinned
    <2> DEFINE kept == {x \in r.versions : x.v = r.active \/ Rank(r, x) <= Keep}
    <2>1. r \in Row /\ Pruned(r) = [r EXCEPT !.versions = kept]
      BY <1>2 DEF Pruned, GoodRow
    <2>2. PICK r2 : r2 = Pruned(r)
      OBVIOUS
    <2> HIDE DEF kept
    <2>3. /\ r2.versions = kept /\ r2.active = r.active /\ r2.tombstoned = r.tombstoned
          /\ r2.tombAge = r.tombAge /\ r2.pinned = r.pinned /\ r2.age = r.age
      BY <2>1, <2>2 DEF Row
    <2>4. kept \subseteq r.versions
      BY DEF kept
    <2>5. r2 \in Row
      BY <2>1, <2>2, <2>4 DEF Row
    <2>6. Stored(r2) /\ r2.active \in Numbers(r2)
      <3>1. PICK x \in r.versions : x.v = r.active
        BY DEF GoodRow, Numbers
      <3>2. x \in kept
        BY <3>1 DEF kept
      <3> QED BY <2>3, <3>1, <3>2 DEF Stored, Numbers
    <2>7. GoodRow(r2)
      BY <2>3, <2>4, <2>5, <2>6 DEF GoodRow
    <2>8. PICK top \in r.versions : top \in kept /\ \A x \in r.versions : x.v <= top.v
      <3>1. Numbers(r) # {}
        BY DEF GoodRow
      <3>2. PICK m \in Numbers(r) : \A n \in Numbers(r) : n <= m
        BY <2>1, <3>1, NumbersOf, MaxIs, Bounds
      <3>3. PICK top \in r.versions : top.v = m
        BY <2>1, NumbersOf
      <3>4. \A x \in r.versions : x.v <= top.v /\ x.v \in Nat
        BY <2>1, <3>2, <3>3, NumbersOf
      <3>5. {y \in r.versions : y.v >= top.v} = {top}
        BY <3>3, <3>4 DEF GoodRow
      <3>6. Rank(r, top) = 1
        BY <3>5, FS_Singleton DEF Rank
      <3>7. top \in kept
        BY <3>6, Bounds DEF kept
      <3> QED BY <3>4, <3>7
    <2>9. \A x \in r.versions : \E y \in r2.versions : x.v <= y.v
      BY <2>3, <2>8
    <2> QED BY <2>2, <2>3, <2>4, <2>6, <2>7, <2>9 DEF Follows
  <1> QED BY <1>1, <1>2

(* A maintenance pass removes only what was hidden for the whole grace.    *)
LEMMA RetainedFollows ==
    ASSUME NEW r, GoodRow(r)
    PROVE  /\ Follows(r, Retained(r), FALSE)
           /\ Stored(r) /\ r.pinned => Retained(r) = r
  <1>1. CASE ~Stored(r)
    <2>1. r = NoRow /\ Hidden(r) = r /\ ~Removable(r)
      BY <1>1 DEF GoodRow, Hidden, Removable
    <2>2. Pruned(r) = r
      BY <2>1 DEF Pruned, NoRow
    <2> QED BY <1>1, <2>1, <2>2, Unchanging DEF Retained
  <1>2. CASE Stored(r) /\ r.pinned
    BY <1>2, Unchanging DEF Retained, Hidden, Removable, Pruned
  <1>3. CASE Stored(r) /\ ~r.pinned /\ r.tombstoned /\ r.tombAge >= Grace
    <2>1. Hidden(r) = r /\ Retained(r) = NoRow
      BY <1>3 DEF Hidden, Retained, Removable
    <2>2. GoodRow(NoRow) /\ ~Stored(NoRow) /\ NoRow.versions = {} /\ ~NoRow.tombstoned
      BY Bounds DEF GoodRow, NoRow, Row, Stored
    <2>3. r.tombAge = Grace
      BY <1>3, Bounds DEF GoodRow, Row
    <2> QED BY <1>3, <2>1, <2>2, <2>3 DEF Follows
  <1>4. CASE Stored(r) /\ ~r.pinned /\ ~r.tombstoned /\ r.age >= MaxAge
    <2>1. PICK r1 : r1 = [r EXCEPT !.tombstoned = TRUE, !.tombAge = 0, !.age = 0] /\ r1 = Hidden(r)
      BY <1>4 DEF Hidden
    <2>2. r \in Row
      BY DEF GoodRow
    <2>3. r1 = [active |-> r.active, versions |-> r.versions, pinned |-> FALSE, tombstoned |-> TRUE,
                age |-> 0, tombAge |-> 0]
      BY <1>4, <2>1, <2>2 DEF Row
    <2>4. Follows(r, r1, FALSE) /\ Stored(r1) /\ GoodRow(r1)
      <3>1. r.active \in Numbers(r) /\ 0 \in 0..Grace
        BY <1>4, Bounds DEF GoodRow
      <3>2. Follows(r, r1, FALSE) /\ Stored(r1)
        BY <1>4, <2>3, <3>1, FlagsFollow
      <3> QED BY <3>2 DEF Follows
    <2>5. Retained(r) = Pruned(r1)
      <3>1. r1.tombAge = 0
        BY <2>3
      <3>2. ~Removable(r1)
        BY <3>1, Bounds DEF Removable
      <3> QED BY <2>1, <3>2 DEF Retained
    <2>6. Follows(r1, Pruned(r1), FALSE) /\ Stored(Pruned(r1))
      BY <2>4, PruneFollows
    <2>7. PICK r2 : r2 = Pruned(r1)
      OBVIOUS
    <2>8. r1.versions = r.versions /\ r1.tombAge = 0
      BY <2>3
    <2> QED BY <1>4, <2>5, <2>6, <2>7, <2>8 DEF Follows
  <1>5. CASE /\ Stored(r) /\ ~r.pinned /\ ~(r.tombstoned /\ r.tombAge >= Grace)
             /\ ~(~r.tombstoned /\ r.age >= MaxAge)
    <2>1. Hidden(r) = r /\ Retained(r) = Pruned(r)
      BY <1>5 DEF Hidden, Retained, Removable
    <2> QED BY <1>5, <2>1, PruneFollows
  <1>6. r.pinned \in BOOLEAN /\ r.tombstoned \in BOOLEAN
    BY DEF GoodRow, Row
  <1> QED BY <1>1, <1>2, <1>3, <1>4, <1>5, <1>6

(* A candidate leaves a pinned entry visible with all its versions.        *)
LEMMA AppliedFollows ==
    ASSUME NEW r, GoodRow(r), NEW candidate \in Candidates, NEW by \in 0..MaxSeq,
           Applied(r, candidate, by).active <= MaxVersion
    PROVE  /\ Follows(r, Applied(r, candidate, by), candidate = "tombstone" /\ MayTombstone(r))
           /\ Stored(r) => /\ Stored(Applied(r, candidate, by))
                           /\ r.pinned => /\ Applied(r, candidate, by).tombstoned => r.tombstoned
                                          /\ r.versions \subseteq Applied(r, candidate, by).versions
  <1>1. CASE candidate = "none" \/ (candidate = "tombstone" /\ ~MayTombstone(r))
    <2>1. Applied(r, candidate, by) = r
      BY <1>1 DEF Applied
    <2> QED BY <1>1, <2>1, Unchanging
  <1>2. CASE candidate = "upsert"
    <2>1. Applied(r, candidate, by) = WithVersion(r, by, FALSE)
      BY <1>2 DEF Applied
    <2> QED BY <1>2, <2>1, VersionFollows
  <1>3. CASE candidate = "upsertPinned"
    <2>1. Applied(r, candidate, by) = WithVersion(r, by, TRUE)
      BY <1>3 DEF Applied
    <2> QED BY <1>3, <2>1, VersionFollows
  <1>4. CASE candidate = "tombstone" /\ MayTombstone(r)
    <2>1. r \in Row /\ Stored(r) /\ ~r.pinned /\ r.active \in Numbers(r) /\ 0 \in 0..Grace
      BY <1>4, Bounds DEF MayTombstone, GoodRow
    <2>2. Applied(r, candidate, by) = [r EXCEPT !.tombstoned = TRUE, !.tombAge = 0, !.age = 0]
      BY <1>4 DEF Applied, Tombstone
    <2>3. Applied(r, candidate, by) = [active |-> r.active, versions |-> r.versions, pinned |-> r.pinned,
                                       tombstoned |-> TRUE, age |-> 0, tombAge |-> 0]
      BY <2>1, <2>2 DEF Row
    <2>4. Follows(r, Applied(r, candidate, by), TRUE) /\ Stored(Applied(r, candidate, by))
      <3>1. PICK r2 : r2 = Applied(r, candidate, by)
        OBVIOUS
      <3>2. r.pinned \in BOOLEAN
        BY <2>1 DEF Row
      <3> QED BY <2>1, <2>3, <3>1, <3>2, FlagsFollow
    <2> QED BY <1>4, <2>1, <2>4
  <1> QED BY <1>1, <1>2, <1>3, <1>4 DEF Candidates

-----------------------------------------------------------------------------
(* The rows of a step.                                                     *)

(* The history that a step books, field by field.                          *)
LEMMA Booked ==
    ASSUME hist \in History, NEW newRows, NEW audited
    PROVE  HistoryOf(newRows, audited) =
             [spent |-> [k \in Keys |-> IF Stored(newRows[k]) THEN hist.spent[k] \cup Numbers(newRows[k]) ELSE {}],
              hidden |-> [k \in Keys |-> IF Stored(newRows[k]) /\ newRows[k].tombstoned THEN hist.hidden[k] ELSE 0],
              audit |-> [k \in Keys |-> IF ~Stored(newRows[k]) THEN Grace
                                        ELSE IF k \in audited THEN 0 ELSE hist.audit[k]],
              applied |-> hist.applied]
  <1> DEFINE spent == [k \in Keys |-> IF Stored(newRows[k]) THEN hist.spent[k] \cup Numbers(newRows[k]) ELSE {}]
             hidden == [k \in Keys |-> IF Stored(newRows[k]) /\ newRows[k].tombstoned THEN hist.hidden[k] ELSE 0]
             audit == [k \in Keys |-> IF ~Stored(newRows[k]) THEN Grace
                                      ELSE IF k \in audited THEN 0 ELSE hist.audit[k]]
  <1>1. HistoryOf(newRows, audited) = [hist EXCEPT !.spent = spent, !.hidden = hidden, !.audit = audit]
    BY DEF HistoryOf
  <1> HIDE DEF spent, hidden, audit
  <1>2. HistoryOf(newRows, audited) = [spent |-> spent, hidden |-> hidden, audit |-> audit, applied |-> hist.applied]
    BY <1>1 DEF History
  <1> QED BY <1>2 DEF spent, hidden, audit

(* The rows follow the rows, and the history is booked with them.          *)
RowsMove(audited, applied) ==
    /\ rows' \in [Keys -> Row]
    /\ \A k \in Keys : Follows(rows[k], rows'[k], k \in audited)
    /\ hist' = [HistoryOf(rows', audited) EXCEPT !.applied = applied]

(* What the action properties say of an entry.                             *)
Fresh(k) ==
    Stored(rows[k]) => \A x \in rows'[k].versions \ rows[k].versions : x.v \notin hist.spent[k]

Graced(k) ==
    Stored(rows[k]) /\ ~Stored(rows'[k]) => hist.hidden[k] = Grace /\ hist.audit[k] = Grace

Pinned(k) ==
    Stored(rows[k]) /\ rows[k].pinned =>
        \/ /\ Stored(rows'[k])
           /\ rows'[k].tombstoned => rows[k].tombstoned
           /\ rows[k].versions \subseteq rows'[k].versions
        \/ DeleteKnowledge(k)

(* What the history variables hold for one key. *)
LEMMA HistoryTypes ==
    ASSUME hist \in History, NEW k \in Keys
    PROVE  /\ hist.spent[k] \in SUBSET (1..MaxVersion) /\ hist.spent[k] \subseteq Nat
           /\ hist.hidden[k] \in 0..Grace /\ hist.audit[k] \in 0..Grace
  BY Bounds DEF History

(* When every row follows its earlier self, the rows keep their invariant, spend no number
   twice and lose no tombstone early. *)
LEMMA RowsKept ==
    ASSUME KInv, NEW audited, NEW applied \in [Seqs -> Nat], RowsMove(audited, applied)
    PROVE  /\ hist' \in History /\ hist'.applied = applied
           /\ \A k \in Keys : RowInv(k)' /\ Fresh(k) /\ Graced(k)
  <1>1. hist \in History
    BY DEF KInv, TypeOK
  <1>a. PICK base : base = HistoryOf(rows', audited) /\ hist' = [base EXCEPT !.applied = applied]
    BY DEF RowsMove
  <1>b. PICK s, h, a :
          /\ base = [spent |-> s, hidden |-> h, audit |-> a, applied |-> hist.applied]
          /\ [spent |-> s, hidden |-> h, audit |-> a, applied |-> applied]
               = [spent |-> [k \in Keys |-> IF Stored(rows'[k]) THEN hist.spent[k] \cup Numbers(rows'[k]) ELSE {}],
                 hidden |-> [k \in Keys |-> IF Stored(rows'[k]) /\ rows'[k].tombstoned THEN hist.hidden[k] ELSE 0],
                 audit |-> [k \in Keys |-> IF ~Stored(rows'[k]) THEN Grace
                                           ELSE IF k \in audited THEN 0 ELSE hist.audit[k]],
                 applied |-> applied]
    BY <1>1, <1>a, Booked
  <1>c. hist' = [spent |-> s, hidden |-> h, audit |-> a, applied |-> applied]
    BY <1>a, <1>b
  <1>2. hist' = [spent |-> [k \in Keys |-> IF Stored(rows'[k]) THEN hist.spent[k] \cup Numbers(rows'[k]) ELSE {}],
                 hidden |-> [k \in Keys |-> IF Stored(rows'[k]) /\ rows'[k].tombstoned THEN hist.hidden[k] ELSE 0],
                 audit |-> [k \in Keys |-> IF ~Stored(rows'[k]) THEN Grace
                                           ELSE IF k \in audited THEN 0 ELSE hist.audit[k]],
                 applied |-> applied]
    BY <1>b, <1>c
  <1>3. hist'.applied = applied
    BY <1>2
  <1>4. ASSUME NEW k \in Keys
        PROVE  /\ hist'.spent[k] = IF Stored(rows'[k]) THEN hist.spent[k] \cup Numbers(rows'[k]) ELSE {}
               /\ hist'.hidden[k] = IF Stored(rows'[k]) /\ rows'[k].tombstoned THEN hist.hidden[k] ELSE 0
               /\ hist'.audit[k] = IF ~Stored(rows'[k]) THEN Grace
                                   ELSE IF k \in audited THEN 0 ELSE hist.audit[k]
    BY <1>2
  <1>5. ASSUME NEW k \in Keys
        PROVE  /\ GoodRow(rows[k]) /\ GoodRow(rows'[k]) /\ Follows(rows[k], rows'[k], k \in audited)
               /\ Numbers(rows'[k]) \in SUBSET (1..MaxVersion) /\ Numbers(rows[k]) \in SUBSET (1..MaxVersion)
               /\ \A x \in rows[k].versions : x.v \in Nat
               /\ \A x \in rows'[k].versions : x.v \in Nat
               /\ rows'[k].tombAge \in 0..Grace /\ rows[k].tombAge \in 0..Grace
    <2>1. GoodRow(rows[k]) /\ GoodRow(rows'[k]) /\ Follows(rows[k], rows'[k], k \in audited)
      BY DEF KInv, RowInv, RowsMove, Follows
    <2>2. rows[k] \in Row /\ rows'[k] \in Row
      BY <2>1 DEF GoodRow
    <2> QED BY <2>1, <2>2, NumbersOf DEF Row
  <1>6. hist' \in History
    <2>1. ASSUME NEW k \in Keys
          PROVE  /\ (IF Stored(rows'[k]) THEN hist.spent[k] \cup Numbers(rows'[k]) ELSE {}) \in SUBSET (1..MaxVersion)
                 /\ (IF Stored(rows'[k]) /\ rows'[k].tombstoned THEN hist.hidden[k] ELSE 0) \in 0..Grace
                 /\ (IF ~Stored(rows'[k]) THEN Grace
                     ELSE IF k \in audited THEN 0 ELSE hist.audit[k]) \in 0..Grace
      BY <1>1, <1>5, HistoryTypes, Bounds
    <2> QED BY <1>2, <2>1 DEF History
  <1>7. ASSUME NEW k \in Keys PROVE RowInv(k)'
    <2>1. ~Stored(rows'[k]) => hist'.spent[k] = {}
      BY <1>4
    <2>2. ASSUME NEW n \in hist'.spent[k] PROVE \E x \in rows'[k].versions : n <= x.v
      <3>1. Stored(rows'[k]) /\ (n \in hist.spent[k] \/ n \in Numbers(rows'[k]))
        BY <1>4, <2>2
      <3>2. CASE n \in Numbers(rows'[k])
        <4>1. PICK x \in rows'[k].versions : x.v = n
          BY <3>2 DEF Numbers
        <4> QED BY <1>5, <4>1
      <3>3. CASE n \in hist.spent[k]
        <4>1. PICK x \in rows[k].versions : n <= x.v
          BY <3>3 DEF KInv, RowInv
        <4>2. PICK y \in rows'[k].versions : x.v <= y.v
          BY <1>5, <3>1, <4>1 DEF Follows
        <4>3. n \in Nat /\ x.v \in Nat /\ y.v \in Nat
          BY <1>1, <1>5, <3>3, <4>1, <4>2, HistoryTypes
        <4> QED BY <4>1, <4>2, <4>3
      <3> QED BY <3>1, <3>2, <3>3
    <2>3. ASSUME rows'[k].tombstoned
          PROVE  rows'[k].tombAge <= hist'.hidden[k] /\ rows'[k].tombAge <= hist'.audit[k]
      <3>1. Stored(rows'[k])
        BY <1>5, <2>3 DEF GoodRow, NoRow
      <3>2. CASE rows'[k].tombAge = 0
        <4>1. hist'.hidden[k] \in 0..Grace /\ hist'.audit[k] \in 0..Grace
          BY <1>6 DEF History
        <4> QED BY <3>2, <4>1, Bounds
      <3>3. CASE rows[k].tombstoned /\ rows'[k].tombAge = rows[k].tombAge /\ k \notin audited
        <4>1. rows[k].tombAge <= hist.hidden[k] /\ rows[k].tombAge <= hist.audit[k]
          BY <3>3 DEF KInv, RowInv
        <4> QED BY <1>4, <2>3, <3>1, <3>3, <4>1
      <3> QED BY <1>5, <2>3, <3>2, <3>3 DEF Follows
    <2> QED BY <1>5, <2>1, <2>2, <2>3 DEF RowInv
  <1>8. ASSUME NEW k \in Keys PROVE Fresh(k)
    <2> SUFFICES ASSUME NEW x \in rows'[k].versions \ rows[k].versions, x.v \in hist.spent[k] PROVE FALSE
      BY DEF Fresh
    <2>1. PICK y \in rows[k].versions : x.v <= y.v
      BY DEF KInv, RowInv
    <2>2. y.v < x.v
      BY <1>5, <2>1 DEF Follows
    <2> QED BY <1>5, <2>1, <2>2
  <1>9. ASSUME NEW k \in Keys PROVE Graced(k)
    <2> SUFFICES ASSUME Stored(rows[k]), ~Stored(rows'[k]) PROVE hist.hidden[k] = Grace /\ hist.audit[k] = Grace
      BY DEF Graced
    <2>1. rows[k].tombstoned /\ rows[k].tombAge = Grace
      BY <1>5 DEF Follows
    <2>2. Grace <= hist.hidden[k] /\ Grace <= hist.audit[k]
      BY <2>1 DEF KInv, RowInv
    <2> QED BY <1>1, <2>2, HistoryTypes, Bounds
  <1> QED BY <1>3, <1>6, <1>7, <1>8, <1>9

(* One entry set by the user.                                              *)
LEMMA SetRowMoves ==
    ASSUME KInv, NEW k \in Keys, NEW row, NEW audited \in SUBSET {k}, SetRow(k, row, audited),
           Follows(rows[k], row, k \in audited)
    PROVE  RowsMove(audited, hist.applied) /\ rows' = [rows EXCEPT ![k] = row]
  <1>1. hist \in History /\ rows \in [Keys -> Row]
    BY DEF KInv, TypeOK
  <1>2. row \in Row /\ rows' = [rows EXCEPT ![k] = row] /\ hist' = HistoryOf(rows', audited)
    BY DEF Follows, GoodRow, SetRow
  <1>3. rows' \in [Keys -> Row] /\ rows'[k] = row /\ \A j \in Keys \ {k} : rows'[j] = rows[j]
    BY <1>1, <1>2
  <1>4. ASSUME NEW j \in Keys PROVE Follows(rows[j], rows'[j], j \in audited)
    <2>1. CASE j # k
      <3>1. GoodRow(rows[j]) /\ (j \in audited) = FALSE
        BY <2>1 DEF KInv, RowInv
      <3> QED BY <1>3, <2>1, <3>1, Unchanging
    <2> QED BY <1>3, <2>1
  <1>5. hist' = [HistoryOf(rows', audited) EXCEPT !.applied = hist.applied]
    <2>1. PICK base : base = HistoryOf(rows', audited)
      OBVIOUS
    <2>2. base = [base EXCEPT !.applied = hist.applied]
      BY <1>1, <2>1, Booked
    <2> QED BY <1>2, <2>1, <2>2
  <1> QED BY <1>2, <1>3, <1>4, <1>5 DEF RowsMove

(* Each operation of the user moves one row, and never drops a pinned version. *)
LEMMA UserRows ==
    ASSUME KInv, NEW k \in Keys, UserStep(k)
    PROVE  (\E audited : RowsMove(audited, hist.applied)) /\ \A j \in Keys : Pinned(j)
  <1>1. GoodRow(rows[k]) /\ rows[k] \in Row /\ rows \in [Keys -> Row] /\ 0 \in 0..Grace
    BY Bounds DEF KInv, RowInv, GoodRow, TypeOK
  <1>2. ASSUME NEW row, rows' = [rows EXCEPT ![k] = row],
               Stored(row) /\ (row.tombstoned => rows[k].tombstoned) /\ rows[k].versions \subseteq row.versions
        PROVE  \A j \in Keys : Pinned(j)
    <2> SUFFICES ASSUME NEW j \in Keys PROVE Pinned(j)
      OBVIOUS
    <2>1. rows'[j] = IF j = k THEN row ELSE rows[j]
      BY <1>1, <1>2
    <2> QED BY <1>2, <2>1 DEF Pinned
  <1>3. CASE Remember(k)
    <2>1. SetRow(k, WithVersion(rows[k], 0, FALSE), {}) /\ NextVersion(rows[k]) <= MaxVersion
      BY <1>3 DEF Remember
    <2>2. WithVersion(rows[k], 0, FALSE).active <= MaxVersion /\ 0 \in 0..MaxSeq /\ (k \in {}) = FALSE
      BY <2>1, Bounds DEF WithVersion
    <2>3. /\ Follows(rows[k], WithVersion(rows[k], 0, FALSE), FALSE) /\ Stored(WithVersion(rows[k], 0, FALSE))
          /\ rows[k].versions \subseteq WithVersion(rows[k], 0, FALSE).versions
          /\ ~WithVersion(rows[k], 0, FALSE).tombstoned
      BY <1>1, <2>2, VersionFollows
    <2>4. RowsMove({}, hist.applied) /\ rows' = [rows EXCEPT ![k] = WithVersion(rows[k], 0, FALSE)]
      <3>1. PICK row : row = WithVersion(rows[k], 0, FALSE)
        OBVIOUS
      <3>2. SetRow(k, row, {}) /\ Follows(rows[k], row, FALSE) /\ (k \in {}) = FALSE
        BY <2>1, <2>2, <2>3, <3>1
      <3>3. RowsMove({}, hist.applied) /\ rows' = [rows EXCEPT ![k] = row]
        BY <3>2, SetRowMoves
      <3> QED BY <3>1, <3>3
    <2> QED BY <1>2, <2>3, <2>4
  <1>4. ASSUME NEW v \in 1..MaxVersion, ActivateKnowledge(k, v)
        PROVE  (\E audited : RowsMove(audited, hist.applied)) /\ \A j \in Keys : Pinned(j)
    <2>1. PICK row : row = [rows[k] EXCEPT !.active = v, !.tombstoned = FALSE, !.tombAge = 0, !.age = 0]
      OBVIOUS
    <2>2. SetRow(k, row, {}) /\ v \in Numbers(rows[k])
      BY <1>4, <2>1 DEF ActivateKnowledge
    <2>3. row = [active |-> v, versions |-> rows[k].versions, pinned |-> rows[k].pinned, tombstoned |-> FALSE,
                 age |-> 0, tombAge |-> 0]
      BY <1>1, <2>1 DEF Row
    <2>4. Stored(rows[k]) /\ rows[k].pinned \in BOOLEAN /\ (k \in {}) = FALSE
      BY <1>1, <2>2 DEF GoodRow, NoRow, Numbers, Row
    <2>5. Follows(rows[k], row, FALSE) /\ Stored(row)
      BY <1>1, <2>2, <2>3, <2>4, FlagsFollow
    <2>6. RowsMove({}, hist.applied) /\ rows' = [rows EXCEPT ![k] = row]
      BY <2>2, <2>4, <2>5, SetRowMoves
    <2> QED BY <1>2, <2>3, <2>5, <2>6
  <1>5. ASSUME NEW pinned \in BOOLEAN, SetKnowledgePinned(k, pinned)
        PROVE  (\E audited : RowsMove(audited, hist.applied)) /\ \A j \in Keys : Pinned(j)
    <2>1. PICK row : row = [rows[k] EXCEPT !.pinned = pinned, !.age = 0]
      OBVIOUS
    <2>2. SetRow(k, row, {}) /\ Stored(rows[k])
      BY <1>5, <2>1 DEF SetKnowledgePinned
    <2>3. row = [active |-> rows[k].active, versions |-> rows[k].versions, pinned |-> pinned,
                 tombstoned |-> rows[k].tombstoned, age |-> 0, tombAge |-> rows[k].tombAge]
      BY <1>1, <2>1 DEF Row
    <2>4. /\ rows[k].active \in Numbers(rows[k]) /\ rows[k].tombstoned \in BOOLEAN
          /\ rows[k].tombAge \in 0..Grace /\ (k \in {}) = FALSE
      BY <1>1, <2>2 DEF GoodRow, Row
    <2>5. Follows(rows[k], row, FALSE) /\ Stored(row)
      BY <1>1, <2>2, <2>3, <2>4, FlagsFollow
    <2>6. RowsMove({}, hist.applied) /\ rows' = [rows EXCEPT ![k] = row]
      BY <2>2, <2>4, <2>5, SetRowMoves
    <2> QED BY <1>2, <2>3, <2>5, <2>6
  <1>6. CASE DeleteKnowledge(k)
    <2>1. PICK row : row = [rows[k] EXCEPT !.tombstoned = TRUE, !.tombAge = 0, !.pinned = FALSE, !.age = 0]
      OBVIOUS
    <2>2. SetRow(k, row, {k}) /\ Stored(rows[k])
      BY <1>6, <2>1 DEF DeleteKnowledge
    <2>3. row = [active |-> rows[k].active, versions |-> rows[k].versions, pinned |-> FALSE,
                 tombstoned |-> TRUE, age |-> 0, tombAge |-> 0]
      BY <1>1, <2>1 DEF Row
    <2>4. rows[k].active \in Numbers(rows[k]) /\ (k \in {k}) = TRUE
      BY <1>1, <2>2 DEF GoodRow
    <2>5. Follows(rows[k], row, TRUE)
      BY <1>1, <2>2, <2>3, <2>4, FlagsFollow
    <2>6. RowsMove({k}, hist.applied) /\ rows' = [rows EXCEPT ![k] = row]
      BY <2>2, <2>4, <2>5, SetRowMoves
    <2>7. ASSUME NEW j \in Keys PROVE Pinned(j)
      <3>1. CASE j = k
        BY <1>6, <3>1 DEF Pinned
      <3>2. CASE j # k
        <4>1. rows'[j] = rows[j]
          BY <1>1, <2>6, <3>2
        <4> QED BY <4>1 DEF Pinned
      <3> QED BY <3>1, <3>2
    <2> QED BY <2>6, <2>7
  <1> QED BY <1>3, <1>4, <1>5, <1>6 DEF UserStep

(* The candidates of a distillation.                                       *)
LEMMA CompleteRows ==
    ASSUME KInv, NEW w \in Workers, NEW candidates \in [Keys -> Candidates], CompleteDistillation(w, candidates)
    PROVE  /\ worker[w] \in Seqs
           /\ \E audited : RowsMove(audited, [hist.applied EXCEPT ![worker[w]] = @ + 1])
           /\ \A j \in Keys : Pinned(j)
  <1>1. worker[w] \in Seqs /\ worker[w] \in 0..MaxSeq /\ hist \in History
    BY DEF CompleteDistillation, HoldsJob, OwnsJob, KInv, TypeOK
  <1>2. PICK t \in Seqs : t = worker[w]
    BY <1>1
  <1> DEFINE audited == {k \in Keys : candidates[k] = "tombstone" /\ MayTombstone(rows[k])}
  <1>3. /\ rows' = [k \in Keys |-> Applied(rows[k], candidates[k], t)]
        /\ \A k \in Keys : rows'[k].active <= MaxVersion
        /\ hist' = [HistoryOf(rows', audited) EXCEPT !.applied[t] = @ + 1]
    BY <1>2 DEF CompleteDistillation
  <1>4. ASSUME NEW k \in Keys
        PROVE  /\ rows'[k] = Applied(rows[k], candidates[k], t) /\ candidates[k] \in Candidates
               /\ Applied(rows[k], candidates[k], t).active <= MaxVersion /\ GoodRow(rows[k]) /\ t \in 0..MaxSeq
               /\ (k \in audited) = (candidates[k] = "tombstone" /\ MayTombstone(rows[k]))
    BY <1>1, <1>2, <1>3 DEF KInv, RowInv
  <1> HIDE DEF audited
  <1>5. ASSUME NEW k \in Keys
        PROVE  /\ Follows(rows[k], rows'[k], k \in audited)
               /\ Pinned(k)
    <2>1. /\ Follows(rows[k], Applied(rows[k], candidates[k], t), candidates[k] = "tombstone" /\ MayTombstone(rows[k]))
          /\ Stored(rows[k]) => /\ Stored(Applied(rows[k], candidates[k], t))
                                /\ rows[k].pinned => /\ Applied(rows[k], candidates[k], t).tombstoned => rows[k].tombstoned
                                                     /\ rows[k].versions \subseteq Applied(rows[k], candidates[k], t).versions
      BY <1>4, AppliedFollows
    <2> QED BY <1>4, <2>1 DEF Pinned
  <1>6. rows' \in [Keys -> Row]
    BY <1>3, <1>5 DEF Follows, GoodRow
  <1>7. hist' = [HistoryOf(rows', audited) EXCEPT !.applied = [hist.applied EXCEPT ![t] = @ + 1]]
    <2>1. HistoryOf(rows', audited).applied = hist.applied
      BY <1>1, Booked
    <2> QED BY <1>1, <1>3, <2>1, Booked
  <1> QED BY <1>1, <1>2, <1>5, <1>6, <1>7 DEF RowsMove

(* A maintenance pass.                                                     *)
LEMMA MaintainRows ==
    ASSUME KInv, Maintain
    PROVE  RowsMove({}, hist.applied) /\ \A k \in Keys : Pinned(k)
  <1>1. rows' = [k \in Keys |-> Retained(rows[k])] /\ hist' = HistoryOf(rows', {}) /\ hist \in History
    BY DEF Maintain, KInv, TypeOK
  <1>2. ASSUME NEW k \in Keys
        PROVE  Follows(rows[k], rows'[k], k \in {}) /\ Pinned(k)
    <2>1. GoodRow(rows[k]) /\ rows'[k] = Retained(rows[k]) /\ (k \in {}) = FALSE
      BY <1>1 DEF KInv, RowInv
    <2>2. Follows(rows[k], Retained(rows[k]), FALSE) /\ (Stored(rows[k]) /\ rows[k].pinned => Retained(rows[k]) = rows[k])
      BY <2>1, RetainedFollows
    <2> QED BY <2>1, <2>2 DEF Pinned
  <1>3. rows' \in [Keys -> Row]
    BY <1>1, <1>2 DEF Follows, GoodRow
  <1>4. hist' = [HistoryOf(rows', {}) EXCEPT !.applied = hist.applied]
    BY <1>1, Booked
  <1> QED BY <1>2, <1>3, <1>4 DEF RowsMove

-----------------------------------------------------------------------------

(* The jobs of a step.                                                     *)

(* Job rows that keep their types, their failures and what is completed.   *)
JobFollows(job, job2) ==
    /\ job2 \in Job
    /\ job2.state \in {"pending", "running"} => job2.fails < MAX_JOB_FAILURES
    /\ job2.state = "completed" <=> job.state = "completed"

KeepsJobs(js) == js \in [Seqs -> Job] /\ \A t \in Seqs : JobFollows(jobs[t], js[t])

(* The jobs keep themselves. *)
LEMMA JobsNow ==
    ASSUME KInv
    PROVE  KeepsJobs(jobs) /\ \A t \in Seqs : jobs[t] \in Job
  BY DEF KInv, TypeOK, JobInv, KeepsJobs, JobFollows

(* Recording a failure leaves a job that may still be retried below the failure limit. *)
LEMMA FailureFollows ==
    ASSUME NEW job \in Job, job.state \in {"pending", "running"}, job.fails < MAX_JOB_FAILURES, NEW permanent \in BOOLEAN
    PROVE  JobFollows(job, JobFailure(job, permanent))
  <1>1. job.fails \in Nat /\ job.fails + 1 \in 0..MAX_JOB_FAILURES
    BY DEF Job, MAX_JOB_FAILURES
  <1>2. PICK f, last : f = job.fails + 1 /\ last = (permanent \/ f >= MAX_JOB_FAILURES)
    OBVIOUS
  <1>3. JobFailure(job, permanent) = [state |-> IF last THEN "failed" ELSE "pending", fails |-> f,
                                      wait |-> IF last THEN 0 ELSE Backoff, holder |-> NoOne, ttl |-> 0]
    BY <1>2 DEF JobFailure
  <1>4. JobFailure(job, permanent) \in Job
    BY <1>1, <1>2, <1>3, Bounds DEF Job
  <1>5. PICK job2 : job2 = JobFailure(job, permanent)
    OBVIOUS
  <1>6. job2.fails = f /\ (job2.state = "failed" \/ (job2.state = "pending" /\ ~last))
    BY <1>3, <1>5
  <1>7. ~last => f < MAX_JOB_FAILURES
    <2>1. ~last => ~(f >= MAX_JOB_FAILURES)
      BY <1>2
    <2> QED BY <1>1, <1>2, <2>1 DEF MAX_JOB_FAILURES
  <1>8. JobFollows(job, job2)
    BY <1>4, <1>5, <1>6, <1>7 DEF JobFollows
  <1> QED BY <1>5, <1>8

(* A claim changes hands.                                                  *)
LEMMA ClaimSet ==
    ASSUME NEW job \in Job, NEW state \in {"pending", "running"}, NEW holder \in Workers \cup {NoOne, Orphan},
           NEW ttl \in 0..WorkerTtl
    PROVE  [job EXCEPT !.state = state, !.holder = holder, !.ttl = ttl] \in Job
  BY DEF Job

(* Recovering stale workers' jobs keeps every job sound. *)
LEMMA RecoveredKeeps ==
    ASSUME KInv
    PROVE  KeepsJobs(Recovered)
  <1>1. ASSUME NEW t \in Seqs PROVE JobFollows(jobs[t], Recovered[t])
    <2>1. JobFollows(jobs[t], jobs[t]) /\ jobs[t] \in Job
      BY JobsNow DEF KeepsJobs
    <2>2. CASE Expired(jobs[t])
      BY <2>1, <2>2, FailureFollows DEF Recovered, Expired, JobFollows
    <2>3. CASE ~Expired(jobs[t])
      BY <2>1, <2>3 DEF Recovered
    <2> QED BY <2>2, <2>3
  <1> QED BY <1>1 DEF KeepsJobs, Recovered, JobFollows

(* One job row set.                                                        *)
LEMMA SetJobKeeps ==
    ASSUME KInv, NEW js, KeepsJobs(js), NEW t \in Seqs, NEW job, JobFollows(jobs[t], job),
           NEW js2, js2 = [js EXCEPT ![t] = job]
    PROVE  KeepsJobs(js2)
  BY DEF KeepsJobs, JobFollows

(* What the step keeps of everything but the rows.                         *)
JobsKept ==
    /\ session' \in Session /\ jobs' \in [Seqs -> Job] /\ worker' \in [Workers -> 0..MaxSeq]
    /\ retries' \in 0..MaxRetries /\ \A t \in Seqs : JobInv(t)'

(* When every job is kept and nothing is applied, what is known of the jobs stays. *)
LEMMA JobsKeep ==
    ASSUME KInv, KeepsJobs(jobs'), UNCHANGED <<session, retries>>, worker' \in [Workers -> 0..MaxSeq],
           hist'.applied = hist.applied
    PROVE  JobsKept /\ AppliedOnce'
  BY DEF KInv, TypeOK, KeepsJobs, JobFollows, JobsKept, JobInv, AppliedOnce

(* Taking up a job or laying one down leaves the worker table well formed. *)
LEMMA WorkerTypes ==
    ASSUME KInv
    PROVE  /\ worker \in [Workers -> 0..MaxSeq]
           /\ \A w \in Workers : [worker EXCEPT ![w] = 0] \in [Workers -> 0..MaxSeq]
           /\ \A w \in Workers : \A t \in Seqs : [worker EXCEPT ![w] = t] \in [Workers -> 0..MaxSeq]
  BY Bounds DEF KInv, TypeOK, Seqs

(* The steps of a worker that leave the entries alone.                     *)
LEMMA WorkerJobs ==
    ASSUME KInv, NEW w \in Workers, UNCHANGED <<session, retries, hist>>,
           \/ ClaimDistillation(w) \/ RenewDistillation(w) \/ AbandonDistillation(w) \/ DropDistillationLease(w)
           \/ \E permanent \in BOOLEAN : RecordDistillationFailure(w, permanent)
    PROVE  JobsKept /\ AppliedOnce'
  <1>1. CASE ClaimDistillation(w)
    <2>1. CASE jobs' = Recovered /\ UNCHANGED worker
      BY <2>1, RecoveredKeeps, WorkerTypes, JobsKeep
    <2>2. CASE Claimable(Recovered) # {}
      <3>1. PICK t : t = Min(Claimable(Recovered)) /\ t \in Claimable(Recovered) /\ t \in Seqs
        <4>1. Claimable(Recovered) \in SUBSET Nat
          BY Bounds DEF Claimable
        <4> QED BY <2>2, <4>1, MinIs DEF Claimable
      <3>2. /\ jobs' = [Recovered EXCEPT ![t] = [@ EXCEPT !.state = "running", !.holder = w, !.ttl = WorkerTtl]]
            /\ worker' = [worker EXCEPT ![w] = t]
        BY <1>1, <2>2, <3>1 DEF ClaimDistillation
      <3>3. Recovered[t].state = "pending"
        BY <3>1 DEF Claimable
      <3>4. PICK old : old = Recovered[t] /\ JobFollows(jobs[t], old)
        BY <3>1, RecoveredKeeps DEF KeepsJobs
      <3>5. PICK job : job = [old EXCEPT !.state = "running", !.holder = w, !.ttl = WorkerTtl]
        OBVIOUS
      <3>6. JobFollows(jobs[t], job)
        <4>1. old \in Job /\ old.state = "pending" /\ old.fails < MAX_JOB_FAILURES /\ jobs[t].state # "completed"
          BY <3>3, <3>4 DEF JobFollows
        <4>2. job \in Job
          <5>1. WorkerTtl \in 0..WorkerTtl
            BY Bounds
          <5> QED BY <3>5, <4>1, <5>1, ClaimSet
        <4>3. job.state = "running" /\ job.fails = old.fails
          BY <3>5, <4>1 DEF Job
        <4> QED BY <4>1, <4>2, <4>3 DEF JobFollows
      <3>7. jobs' = [Recovered EXCEPT ![t] = job]
        BY <3>1, <3>2, <3>4, <3>5, RecoveredKeeps DEF KeepsJobs
      <3>8. KeepsJobs(jobs')
        BY <3>1, <3>6, <3>7, RecoveredKeeps, SetJobKeeps
      <3> QED BY <3>1, <3>2, <3>8, WorkerTypes, JobsKeep
    <2> QED BY <1>1, <2>1, <2>2 DEF ClaimDistillation
  <1>2. ASSUME OwnsJob(w), NEW job, jobs' = [jobs EXCEPT ![worker[w]] = job], JobFollows(jobs[worker[w]], job),
               worker' = worker \/ worker' = [worker EXCEPT ![w] = 0]
        PROVE  JobsKept /\ AppliedOnce'
    <2>1. worker[w] \in Seqs
      BY <1>2 DEF OwnsJob
    <2>2. KeepsJobs(jobs')
      BY <1>2, <2>1, JobsNow, SetJobKeeps
    <2> QED BY <1>2, <2>2, WorkerTypes, JobsKeep
  <1>3. ASSUME OwnsJob(w)
        PROVE  /\ worker[w] \in Seqs /\ jobs[worker[w]] \in Job /\ jobs[worker[w]].state = "running"
               /\ jobs[worker[w]].fails < MAX_JOB_FAILURES /\ jobs \in [Seqs -> Job]
    BY <1>3, JobsNow DEF OwnsJob, KeepsJobs, JobFollows
  <1>4. CASE RenewDistillation(w)
    <2>1. PICK job : job = [jobs[worker[w]] EXCEPT !.ttl = WorkerTtl]
      OBVIOUS
    <2>2. OwnsJob(w) /\ jobs' = [jobs EXCEPT ![worker[w]] = job] /\ worker' = worker
      BY <1>3, <1>4, <2>1 DEF RenewDistillation
    <2>3. JobFollows(jobs[worker[w]], job)
      BY <1>3, <2>1, <2>2, Bounds DEF JobFollows, Job
    <2> QED BY <1>2, <2>2, <2>3
  <1>5. CASE AbandonDistillation(w)
    <2>1. PICK job : job = [jobs[worker[w]] EXCEPT !.state = "pending", !.holder = NoOne, !.ttl = 0]
      OBVIOUS
    <2>2. OwnsJob(w) /\ jobs' = [jobs EXCEPT ![worker[w]] = job] /\ worker' = [worker EXCEPT ![w] = 0]
      BY <1>3, <1>5, <2>1 DEF AbandonDistillation
    <2>3. JobFollows(jobs[worker[w]], job)
      <3>1. PICK old : old = jobs[worker[w]]
        OBVIOUS
      <3>2. old \in Job /\ old.state = "running" /\ old.fails < MAX_JOB_FAILURES
        BY <1>3, <2>2, <3>1
      <3>3. job = [old EXCEPT !.state = "pending", !.holder = NoOne, !.ttl = 0]
        BY <2>1, <3>1
      <3>4. job \in Job
        <4>1. 0 \in 0..WorkerTtl
          BY Bounds
        <4> QED BY <3>2, <3>3, <4>1, ClaimSet
      <3>5. job.state = "pending" /\ job.fails = old.fails
        BY <3>2, <3>3 DEF Job
      <3> QED BY <3>1, <3>2, <3>4, <3>5 DEF JobFollows
    <2> QED BY <1>2, <2>2, <2>3
  <1>6. ASSUME NEW permanent \in BOOLEAN, RecordDistillationFailure(w, permanent) PROVE JobsKept /\ AppliedOnce'
    <2>1. /\ OwnsJob(w) /\ jobs' = [jobs EXCEPT ![worker[w]] = JobFailure(jobs[worker[w]], permanent)]
          /\ worker' = [worker EXCEPT ![w] = 0]
      BY <1>3, <1>6 DEF RecordDistillationFailure
    <2>2. JobFollows(jobs[worker[w]], JobFailure(jobs[worker[w]], permanent))
      BY <1>3, <2>1, FailureFollows
    <2> QED BY <1>2, <2>1, <2>2
  <1>7. CASE DropDistillationLease(w)
    <2>1. worker' = [worker EXCEPT ![w] = 0]
      BY <1>7 DEF DropDistillationLease
    <2>2. CASE UNCHANGED jobs
      BY <2>1, <2>2, JobsNow, WorkerTypes, JobsKeep
    <2>3. CASE OwnsJob(w) /\ jobs' = [jobs EXCEPT ![worker[w]] = JobFailure(@, FALSE)]
      <3>1. JobFollows(jobs[worker[w]], JobFailure(jobs[worker[w]], FALSE))
        BY <1>3, <2>3, FailureFollows
      <3>2. jobs' = [jobs EXCEPT ![worker[w]] = JobFailure(jobs[worker[w]], FALSE)]
        BY <1>3, <2>3
      <3> QED BY <1>2, <2>1, <2>3, <3>1, <3>2
    <2>4. CASE OwnsJob(w) /\ jobs' = [jobs EXCEPT ![worker[w]] = [@ EXCEPT !.holder = Orphan]]
      <3>1. PICK job : job = [jobs[worker[w]] EXCEPT !.holder = Orphan]
        OBVIOUS
      <3>2. jobs' = [jobs EXCEPT ![worker[w]] = job]
        BY <1>3, <2>4, <3>1
      <3>3. JobFollows(jobs[worker[w]], job)
        BY <1>3, <2>4, <3>1 DEF JobFollows, Job
      <3> QED BY <1>2, <2>1, <2>4, <3>2, <3>3
    <2> QED BY <1>7, <2>2, <2>3, <2>4 DEF DropDistillationLease
  <1> QED BY <1>1, <1>4, <1>5, <1>6, <1>7

(* A session that is gone took its jobs along.                             *)
LEMMA ErasedJobs ==
    ASSUME KInv, Erase, UNCHANGED <<worker, retries>>
    PROVE  JobsKept /\ AppliedOnce'
  <1>1. NoJob \in Job /\ NoJob.state = "none"
    BY Bounds DEF NoJob, Job, MAX_JOB_FAILURES
  <1>2. session' \in Session /\ ~session'.exists
    BY Bounds DEF Erase, Session
  <1>3. jobs' \in [Seqs -> Job] /\ \A t \in Seqs : jobs'[t].state = "none"
    BY <1>1 DEF Erase
  <1> QED BY <1>2, <1>3 DEF KInv, TypeOK, JobsKept, JobInv, AppliedOnce

(* The completion applies its candidates for the first time.               *)
LEMMA CompleteJobs ==
    ASSUME KInv, NEW w \in Workers, NEW candidates \in [Keys -> Candidates], CompleteDistillation(w, candidates),
           hist'.applied = [hist.applied EXCEPT ![worker[w]] = @ + 1]
    PROVE  JobsKept /\ AppliedOnce'
  <1>1. PICK t \in Seqs : t = worker[w] /\ jobs[t].state = "running"
    BY DEF CompleteDistillation, HoldsJob, OwnsJob
  <1>2. /\ jobs' = [jobs EXCEPT ![t] = [NoJob EXCEPT !.state = "completed", !.fails = jobs[t].fails]]
        /\ worker' = [worker EXCEPT ![w] = 0] /\ UNCHANGED <<session, retries>>
    BY <1>1 DEF CompleteDistillation
  <1>3. jobs \in [Seqs -> Job] /\ jobs[t] \in Job /\ hist \in History
    BY <1>1 DEF KInv, TypeOK
  <1>4. PICK job : job = [NoJob EXCEPT !.state = "completed", !.fails = jobs[t].fails]
    OBVIOUS
  <1>5. job \in Job /\ job.state = "completed"
    <2>1. PICK f : f = jobs[t].fails /\ f \in 0..MAX_JOB_FAILURES
      BY <1>3 DEF Job
    <2>2. job = [state |-> "completed", fails |-> f, wait |-> 0, holder |-> NoOne, ttl |-> 0]
      BY <1>4, <2>1 DEF NoJob
    <2> QED BY <2>1, <2>2, Bounds DEF Job
  <1>6. jobs' \in [Seqs -> Job] /\ jobs'[t].state = "completed" /\ \A s \in Seqs \ {t} : jobs'[s] = jobs[s]
    BY <1>2, <1>3, <1>4, <1>5
  <1>7. JobsKept
    BY <1>2, <1>6, WorkerTypes DEF KInv, TypeOK, JobInv, JobsKept
  <1>8. hist.applied \in [Seqs -> Nat]
    BY <1>3 DEF History
  <1>9. ASSUME session'.exists, NEW s \in Seqs
        PROVE  hist'.applied[s] = IF jobs'[s].state = "completed" THEN 1 ELSE 0
    <2>1. hist.applied[s] = IF jobs[s].state = "completed" THEN 1 ELSE 0
      BY <1>2, <1>9 DEF KInv, AppliedOnce
    <2>2. CASE s = t
      <3>1. hist.applied[s] = 0
        BY <1>1, <2>1, <2>2
      <3> QED BY <1>1, <1>6, <1>8, <2>2, <3>1
    <2>3. CASE s # t
      BY <1>1, <1>6, <1>8, <2>1, <2>3
    <2> QED BY <2>2, <2>3
  <1> QED BY <1>7, <1>9 DEF AppliedOnce

(* The operator, the session's owner and time.                             *)
LEMMA OtherJobs ==
    ASSUME KInv, hist'.applied = hist.applied,
           \/ OwnerStep \/ QueueDistillation \/ (\E t \in Seqs : RetryFailedJob(t)) \/ Tick
    PROVE  JobsKept /\ AppliedOnce'
  <1>1. session \in Session /\ jobs \in [Seqs -> Job] /\ retries \in 0..MaxRetries
    BY DEF KInv, TypeOK
  <1>2. CASE OwnerStep
    <2>1. session' \in Session /\ session'.exists = session.exists
      <3>1. CASE session' = [session EXCEPT !.live = ~@]
        BY <1>1, <3>1 DEF Session
      <3>2. CASE session.last < MaxSeq /\ session' = [session EXCEPT !.last = @ + 1]
        <4>1. session.last + 1 \in 0..MaxSeq
          BY <1>1, <3>2, Bounds DEF Session
        <4> QED BY <1>1, <3>2, <4>1 DEF Session
      <3> QED BY <1>2, <3>1, <3>2 DEF OwnerStep
    <2> QED BY <1>2, <2>1, WorkerTypes DEF OwnerStep, KInv, TypeOK, JobsKept, JobInv, AppliedOnce
  <1>3. PICK fresh : fresh = [NoJob EXCEPT !.state = "pending"]
    OBVIOUS
  <1>4. fresh \in Job /\ fresh.state = "pending" /\ fresh.fails < MAX_JOB_FAILURES
    BY <1>3, Bounds DEF NoJob, Job, MAX_JOB_FAILURES
  <1>5. CASE QueueDistillation
    <2>1. /\ session.last \in Seqs /\ jobs[session.last].state = "none"
          /\ jobs' = [jobs EXCEPT ![session.last] = fresh] /\ UNCHANGED <<session, retries, worker>>
      BY <1>1, <1>3, <1>5, Bounds DEF QueueDistillation, Session, Seqs
    <2>2. JobFollows(jobs[session.last], fresh)
      BY <1>4, <2>1 DEF JobFollows
    <2>3. KeepsJobs(jobs')
      BY <2>1, <2>2, JobsNow, SetJobKeeps
    <2> QED BY <2>1, <2>3, WorkerTypes, JobsKeep
  <1>6. ASSUME NEW t \in Seqs, RetryFailedJob(t) PROVE JobsKept /\ AppliedOnce'
    <2>1. /\ jobs[t].state = "failed" /\ jobs' = [jobs EXCEPT ![t] = fresh] /\ UNCHANGED <<session, worker>>
          /\ retries < MaxRetries /\ retries' = retries + 1
      BY <1>3, <1>6 DEF RetryFailedJob
    <2>2. JobFollows(jobs[t], fresh)
      BY <1>4, <2>1 DEF JobFollows
    <2>3. KeepsJobs(jobs')
      BY <2>1, <2>2, JobsNow, SetJobKeeps
    <2>4. retries' \in 0..MaxRetries
      BY <1>1, <2>1, Bounds
    <2> QED BY <1>1, <2>1, <2>3, <2>4, WorkerTypes DEF KInv, KeepsJobs, JobFollows, JobsKept, JobInv, AppliedOnce
  <1>7. CASE Tick
    <2>1. ASSUME NEW t \in Seqs PROVE JobFollows(jobs[t], jobs'[t])
      <3>1. PICK job : job = jobs[t] /\ job \in Job /\ JobFollows(job, job)
        BY JobsNow DEF KeepsJobs
      <3>2. jobs'[t] = [job EXCEPT !.ttl = Less(job.ttl), !.wait = Less(job.wait)]
        BY <1>7, <3>1 DEF Tick
      <3>3. Less(job.ttl) \in 0..WorkerTtl /\ Less(job.wait) \in 0..Backoff
        BY <3>1, Bounds DEF Less, Job
      <3>4. jobs'[t] \in Job /\ jobs'[t].state = job.state /\ jobs'[t].fails = job.fails
        BY <3>1, <3>2, <3>3 DEF Job
      <3> QED BY <3>1, <3>4 DEF JobFollows
    <2>2. jobs' \in [Seqs -> Job]
      BY <1>7, <2>1 DEF Tick, JobFollows
    <2>3. KeepsJobs(jobs')
      BY <2>1, <2>2 DEF KeepsJobs
    <2> QED BY <1>7, <2>3, WorkerTypes, JobsKeep DEF Tick
  <1> QED BY <1>2, <1>5, <1>6, <1>7


-----------------------------------------------------------------------------
(* The invariant and the theorems.                                         *)

(* Time passes for an entry: nothing about it moves but its ages, and the  *)
(* tombstone ages no faster than its records.                              *)
LEMMA Aging ==
    ASSUME NEW n \in 0..Grace, NEW m \in 0..Grace, n <= m
    PROVE  Sooner(n, Grace) \in 0..Grace /\ Sooner(n, Grace) <= Sooner(m, Grace)
  BY Bounds DEF Sooner

(* The passage of time only ages a row. *)
LEMMA TickRow ==
    ASSUME KInv, Tick, NEW k \in Keys
    PROVE  /\ rows'[k] \in Row /\ rows'[k].active = rows[k].active /\ rows'[k].versions = rows[k].versions
           /\ rows'[k].tombstoned = rows[k].tombstoned /\ rows'[k].pinned = rows[k].pinned
           /\ ~Stored(rows[k]) => rows'[k] = rows[k]
           /\ rows[k].tombstoned => rows'[k].tombAge = Sooner(rows[k].tombAge, Grace)
  <1>1. PICK r : r = rows[k] /\ r \in Row /\ (~Stored(r) => r = NoRow)
    BY DEF KInv, TypeOK, RowInv, GoodRow
  <1>2. PICK r2 : r2 = rows'[k]
    OBVIOUS
  <1>3. CASE ~Stored(r)
    <2>1. r2 = r /\ ~r.tombstoned
      <3>1. r2 = r
        BY <1>1, <1>2, <1>3 DEF Tick
      <3> QED BY <1>1, <1>3, <3>1 DEF NoRow
    <2> QED BY <1>1, <1>2, <2>1
  <1>4. CASE Stored(r)
    <2>1. PICK age, tombAge : /\ age = Sooner(r.age, MaxAge)
                              /\ tombAge = IF r.tombstoned THEN Sooner(r.tombAge, Grace) ELSE 0
      OBVIOUS
    <2>2. r2 = [r EXCEPT !.age = age, !.tombAge = tombAge]
      BY <1>1, <1>2, <1>4, <2>1 DEF Tick
    <2>3. age \in 0..MaxAge
      BY <1>1, <2>1, Bounds DEF Row, Sooner
    <2>4. tombAge \in 0..Grace
      BY <1>1, <2>1, Bounds DEF Row, Sooner
    <2>5. r2 \in Row /\ r2.active = r.active /\ r2.versions = r.versions /\ r2.tombstoned = r.tombstoned
          /\ r2.pinned = r.pinned /\ r2.tombAge = tombAge
      BY <1>1, <2>2, <2>3, <2>4 DEF Row
    <2> QED BY <1>1, <1>2, <1>4, <2>1, <2>5
  <1> QED BY <1>3, <1>4

(* The passage of time only ages the history. *)
LEMMA TickHistory ==
    ASSUME KInv, Tick
    PROVE  /\ hist' \in History /\ hist'.spent = hist.spent /\ hist'.applied = hist.applied
           /\ \A k \in Keys : /\ rows[k].tombstoned => hist'.hidden[k] = Sooner(hist.hidden[k], Grace)
                              /\ hist'.audit[k] = Sooner(hist.audit[k], Grace)
  <1>1. hist \in History
    BY DEF KInv, TypeOK
  <1>2. PICK hidden, audit : /\ hidden = [k \in Keys |-> IF rows[k].tombstoned THEN Sooner(hist.hidden[k], Grace) ELSE 0]
                             /\ audit = [k \in Keys |-> Sooner(hist.audit[k], Grace)]
    OBVIOUS
  <1>3. hist' = [hist EXCEPT !.hidden = hidden, !.audit = audit]
    BY <1>1, <1>2 DEF Tick
  <1>4. hidden \in [Keys -> 0..Grace]
    <2>1. \A k \in Keys : hidden[k] \in 0..Grace
      BY <1>1, <1>2, HistoryTypes, Bounds DEF Sooner
    <2> QED BY <1>2, <2>1
  <1>5. audit \in [Keys -> 0..Grace]
    <2>1. \A k \in Keys : audit[k] \in 0..Grace
      BY <1>1, <1>2, HistoryTypes, Bounds DEF Sooner
    <2> QED BY <1>2, <2>1
  <1>6. hist' \in History /\ hist'.spent = hist.spent /\ hist'.applied = hist.applied
        /\ hist'.hidden = hidden /\ hist'.audit = audit
    BY <1>1, <1>3, <1>4, <1>5 DEF History
  <1> QED BY <1>2, <1>6

(* The passage of time keeps the rows' invariant: the tombstone and the two clocks of the
   history age together. *)
LEMMA TickRows ==
    ASSUME KInv, Tick
    PROVE  rows' \in [Keys -> Row] /\ \A k \in Keys : RowInv(k)' /\ Fresh(k) /\ Graced(k) /\ Pinned(k)
  <1>1. rows' \in [Keys -> Row]
    <2>1. \A k \in Keys : rows'[k] \in Row
      BY TickRow
    <2> QED BY <2>1 DEF Tick
  <1>2. ASSUME NEW k \in Keys PROVE RowInv(k)' /\ Fresh(k) /\ Graced(k) /\ Pinned(k)
    <2>1. RowInv(k) /\ rows[k] \in Row /\ hist \in History
      BY DEF KInv, TypeOK
    <2>2. Stored(rows'[k]) <=> Stored(rows[k])
      BY TickRow DEF Stored
    <2>3. Numbers(rows'[k]) = Numbers(rows[k])
      BY TickRow DEF Numbers
    <2>4. GoodRow(rows'[k])
      BY <2>1, <2>2, <2>3, TickRow DEF RowInv, GoodRow, Stored
    <2>5. rows'[k].tombstoned => rows'[k].tombAge <= hist'.hidden[k] /\ rows'[k].tombAge <= hist'.audit[k]
      <3> SUFFICES ASSUME rows[k].tombstoned
                   PROVE  rows'[k].tombAge <= hist'.hidden[k] /\ rows'[k].tombAge <= hist'.audit[k]
        BY TickRow
      <3>1. rows[k].tombAge \in 0..Grace
        BY <2>1 DEF Row
      <3>2. rows[k].tombAge <= hist.hidden[k] /\ rows[k].tombAge <= hist.audit[k]
        BY <2>1 DEF RowInv
      <3>3. Sooner(rows[k].tombAge, Grace) <= Sooner(hist.hidden[k], Grace)
        BY <2>1, <3>1, <3>2, HistoryTypes, Aging
      <3>4. Sooner(rows[k].tombAge, Grace) <= Sooner(hist.audit[k], Grace)
        BY <2>1, <3>1, <3>2, HistoryTypes, Aging
      <3> QED BY <3>3, <3>4, TickRow, TickHistory
    <2>6. RowInv(k)'
      BY <2>1, <2>2, <2>4, <2>5, TickRow, TickHistory DEF RowInv
    <2> QED BY <2>2, <2>6, TickRow DEF Fresh, Graced, Pinned
  <1> QED BY <1>1, <1>2

(* KInv holds in an empty store. *)
LEMMA KInit == Init => KInv
  <1> SUFFICES ASSUME Init PROVE KInv
    OBVIOUS
  <1>1. NoRow \in Row /\ ~Stored(NoRow) /\ ~NoRow.tombstoned /\ NoRow.versions = {}
    BY Bounds DEF NoRow, Row, Stored
  <1>2. NoJob \in Job /\ NoJob.state = "none"
    BY Bounds DEF NoJob, Job, MAX_JOB_FAILURES
  <1>3. session \in Session /\ worker \in [Workers -> 0..MaxSeq] /\ retries \in 0..MaxRetries
    BY Bounds DEF Init, Session
  <1>4. rows \in [Keys -> Row] /\ \A k \in Keys : rows[k] = NoRow
    BY <1>1 DEF Init
  <1>5. jobs \in [Seqs -> Job] /\ \A t \in Seqs : jobs[t].state = "none"
    BY <1>2 DEF Init
  <1>6. PICK s, h, a, p : /\ s = [k \in Keys |-> {}] /\ h = [k \in Keys |-> 0]
                          /\ a = [k \in Keys |-> Grace] /\ p = [t \in Seqs |-> 0]
    OBVIOUS
  <1>7. hist = [spent |-> s, hidden |-> h, audit |-> a, applied |-> p]
    BY <1>6 DEF Init
  <1>8. s \in [Keys -> SUBSET (1..MaxVersion)] /\ h \in [Keys -> 0..Grace] /\ a \in [Keys -> 0..Grace] /\ p \in [Seqs -> Nat]
    BY <1>6, Bounds
  <1>9. hist \in History /\ hist.spent = s /\ hist.applied = p
    BY <1>7, <1>8 DEF History
  <1>10. \A k \in Keys : RowInv(k)
    BY <1>1, <1>4, <1>6, <1>9 DEF RowInv, GoodRow
  <1>11. AppliedOnce
    BY <1>5, <1>6, <1>9 DEF AppliedOnce
  <1> QED BY <1>3, <1>4, <1>5, <1>9, <1>10, <1>11 DEF KInv, TypeOK, JobInv

(* What a step does, to its entries and to its jobs.                       *)
EntriesKept ==
    /\ rows' \in [Keys -> Row] /\ hist' \in History
    /\ \A k \in Keys : RowInv(k)' /\ Fresh(k) /\ Graced(k) /\ Pinned(k)

(* A step that touches no row keeps the entries. *)
LEMMA EntriesStay ==
    ASSUME KInv, UNCHANGED <<rows, hist>>
    PROVE  EntriesKept
  <1>1. \A k \in Keys : RowInv(k)'
    BY DEF KInv, RowInv
  <1> QED BY <1>1 DEF KInv, TypeOK, EntriesKept, Fresh, Graced, Pinned

(* A step that moves the rows soundly keeps the entries. *)
LEMMA EntriesMove ==
    ASSUME KInv, NEW applied \in [Seqs -> Nat], \E audited : RowsMove(audited, applied), \A k \in Keys : Pinned(k)
    PROVE  EntriesKept /\ hist'.applied = applied
  <1>1. PICK audited : RowsMove(audited, applied)
    OBVIOUS
  <1>2. rows' \in [Keys -> Row]
    BY <1>1 DEF RowsMove
  <1> QED BY <1>1, <1>2, RowsKept DEF EntriesKept

(* One case for each action: rows, jobs and the count of applied candidates. *)
LEMMA KStep ==
    ASSUME KInv, [Next]_vars
    PROVE  EntriesKept /\ JobsKept /\ AppliedOnce'
  <1>1. hist.applied \in [Seqs -> Nat] /\ hist \in History
    BY DEF KInv, TypeOK, History
  <1>2. ASSUME NEW k \in Keys, UserStep(k) PROVE EntriesKept /\ JobsKept /\ AppliedOnce'
    <2>1. UNCHANGED <<session, jobs, worker, retries>>
      BY <1>2 DEF UserStep, Remember, ActivateKnowledge, SetKnowledgePinned, DeleteKnowledge
    <2>2. EntriesKept /\ hist'.applied = hist.applied
      BY <1>1, <1>2, UserRows, EntriesMove
    <2>3. KeepsJobs(jobs')
      BY <2>1, JobsNow
    <2> QED BY <2>1, <2>2, <2>3, WorkerTypes, JobsKeep
  <1>3. ASSUME NEW w \in Workers, NEW candidates \in [Keys -> Candidates], CompleteDistillation(w, candidates)
        PROVE  EntriesKept /\ JobsKept /\ AppliedOnce'
    <2>1. worker[w] \in Seqs
      BY <1>3, CompleteRows
    <2>2. PICK applied : applied = [hist.applied EXCEPT ![worker[w]] = @ + 1]
      OBVIOUS
    <2>3. applied \in [Seqs -> Nat]
      BY <1>1, <2>1, <2>2
    <2>4. EntriesKept /\ hist'.applied = applied
      BY <1>3, <2>2, <2>3, CompleteRows, EntriesMove
    <2> QED BY <1>3, <2>2, <2>4, CompleteJobs
  <1>4. ASSUME NEW w \in Workers,
               \/ ClaimDistillation(w) \/ RenewDistillation(w) \/ AbandonDistillation(w) \/ DropDistillationLease(w)
               \/ \E permanent \in BOOLEAN : RecordDistillationFailure(w, permanent)
        PROVE  EntriesKept /\ JobsKept /\ AppliedOnce'
    <2>1. UNCHANGED <<session, rows, retries, hist>>
      BY <1>4 DEF ClaimDistillation, RenewDistillation, AbandonDistillation, DropDistillationLease, RecordDistillationFailure
    <2> QED BY <1>4, <2>1, WorkerJobs, EntriesStay
  <1>5. CASE OwnerStep \/ QueueDistillation \/ \E t \in Seqs : RetryFailedJob(t)
    <2>1. UNCHANGED <<rows, hist>>
      BY <1>5 DEF OwnerStep, QueueDistillation, RetryFailedJob
    <2> QED BY <1>5, <2>1, OtherJobs, EntriesStay
  <1>6. CASE DeleteSession
    <2>1. Erase /\ UNCHANGED <<rows, worker, retries, hist>>
      BY <1>6 DEF DeleteSession
    <2> QED BY <2>1, ErasedJobs, EntriesStay
  <1>7. CASE Maintain
    <2>1. EntriesKept /\ hist'.applied = hist.applied
      BY <1>1, <1>7, MaintainRows, EntriesMove
    <2>2. CASE jobs' = Recovered /\ UNCHANGED session
      BY <1>7, <2>1, <2>2, RecoveredKeeps, WorkerTypes, JobsKeep DEF Maintain
    <2>3. CASE Erase
      BY <1>7, <2>1, <2>3, ErasedJobs DEF Maintain
    <2> QED BY <1>7, <2>1, <2>2, <2>3 DEF Maintain
  <1>8. CASE Tick
    BY <1>8, TickRows, TickHistory, OtherJobs DEF EntriesKept
  <1>9. CASE UNCHANGED vars
    <2>1. UNCHANGED <<session, rows, jobs, worker, retries, hist>>
      BY <1>9 DEF vars
    <2> QED BY <2>1, EntriesStay, JobsNow, WorkerTypes, JobsKeep
  <1> QED BY <1>2, <1>3, <1>4, <1>5, <1>6, <1>7, <1>8, <1>9 DEF Next, WorkerStep

(* KInv is inductive. *)
LEMMA KStays ==
    ASSUME KInv, [Next]_vars
    PROVE  KInv'
  BY KStep DEF EntriesKept, JobsKept, KInv, TypeOK

(* The inductive invariant holds throughout.                               *)
THEOREM Invariance == Spec => []KInv
  BY KInit, KStays, PTL DEF Spec

(* The candidates of a distillation job are applied exactly once and only  *)
(* by complete_distillation, for any number of workers that claim, lose,   *)
(* drop, orphan or revive its claim.                                       *)
THEOREM CandidatesApplyOnce == Spec => []AppliedOnce
  <1>1. KInv => AppliedOnce
    BY DEF KInv
  <1> QED BY <1>1, Invariance, PTL

(* The active version of every entry is stored, and no version appended    *)
(* after activations and pruning takes a number given out before.          *)
THEOREM VersionsStaySound == Spec => VersionsAreSound
  <1>1. KInv => TypeOK /\ ActiveIsStored
    BY DEF KInv, RowInv, GoodRow, ActiveIsStored
  <1>2. KInv /\ [Next]_vars =>
          [\A k \in Keys : Stored(rows[k]) => \A x \in rows'[k].versions \ rows[k].versions :
                                                 x.v \notin hist.spent[k]]_vars
    BY KStep DEF EntriesKept, Fresh
  <1>3. Spec => [](TypeOK /\ ActiveIsStored)
    BY <1>1, Invariance, PTL
  <1>4. Spec => VersionNumbersAreFresh
    BY <1>2, Invariance, PTL DEF Spec, VersionNumbersAreFresh
  <1> QED BY <1>3, <1>4 DEF VersionsAreSound

(* Pinned entries stay visible with all their versions until the user      *)
(* forgets them, and no entry is removed before the whole grace period has *)
(* passed since it was last visible and since its last audit record.       *)
THEOREM NothingGoesEarly == Spec => RetentionIsKept
  <1>1. KInv /\ [Next]_vars =>
          [\A k \in Keys :
              Stored(rows[k]) /\ rows[k].pinned =>
                  \/ /\ Stored(rows'[k])
                     /\ rows'[k].tombstoned => rows[k].tombstoned
                     /\ rows[k].versions \subseteq rows'[k].versions
                  \/ DeleteKnowledge(k)]_vars
    BY KStep DEF EntriesKept, Pinned
  <1>2. KInv /\ [Next]_vars =>
          [\A k \in Keys :
              Stored(rows[k]) /\ ~Stored(rows'[k]) => hist.hidden[k] = Grace /\ hist.audit[k] = Grace]_vars
    BY KStep DEF EntriesKept, Graced
  <1>3. Spec => PinsHold
    BY <1>1, Invariance, PTL DEF Spec, PinsHold
  <1>4. Spec => GraceIsKept
    BY <1>2, Invariance, PTL DEF Spec, GraceIsKept
  <1> QED BY <1>3, <1>4 DEF RetentionIsKept

=============================================================================
