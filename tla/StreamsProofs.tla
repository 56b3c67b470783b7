----------------------------- MODULE StreamsProofs -----------------------------
(* Proofs about Streams: what a reader is shown and how a stream ends, for any *)
(* number of jobs, any size of the queue and of the channels, any cancellation *)
(* and any failure.  What is assumed of the replies is that each is logged     *)
(* exactly (ReplyIsExact), which EveryStreamIsExact asks of every short one.   *)
(*                                                                             *)
(* The argument follows the events of a job from the log to the reader: what   *)
(* was sent is the log up to the callback that the thread makes next, and what *)
(* the reader has is a beginning of what was sent.  A loop that was cut short  *)
(* was cut by a flag that is never taken back, so that the last checkpoint     *)
(* meets it and no shortened reply is completed.                               *)
EXTENDS Streams, SequenceTheorems, WellFoundedInduction, NaturalsInduction, TLAPS

-----------------------------------------------------------------------------
(* Folds.                                                                      *)

(* The largest element of a set of numbers.                                    *)
LEMMA MaxIs ==
    ASSUME NEW S \in SUBSET Nat, NEW k \in S, \A y \in S : y <= k
    PROVE  Max(S) = k
  <1>1. \A x \in S : (\A y \in S : x >= y) => x = k
    OBVIOUS
  <1>2. \A y \in S : k >= y
    OBVIOUS
  <1> QED BY <1>1, <1>2 DEF Max

(* What holds of 0 and goes on holds up to n.                                  *)
LEMMA UpTo ==
    ASSUME NEW n \in Nat, NEW P, 0 \in P, \A m \in Nat : m < n /\ m \in P => m + 1 \in P
    PROVE  n \in P
  <1> SUFFICES ASSUME n \notin P PROVE FALSE
    OBVIOUS
  <1> DEFINE B == {m \in Nat : m <= n /\ m \notin P}
  <1>1. B # {} /\ B \subseteq Nat
    OBVIOUS
  <1>2. PICK m \in B : \A x \in B : ~(<<x, m>> \in OpToRel(<, Nat))
    BY <1>1, WFMin, NatLessThanWellFounded
  <1>3. m # 0
    OBVIOUS
  <1>4. m - 1 \in Nat /\ m - 1 < m /\ m - 1 < n /\ (m - 1) + 1 = m
    BY <1>3
  <1>5. m - 1 \notin B
    BY <1>2, <1>4 DEF OpToRel
  <1> QED BY <1>4, <1>5

IsRec(s, b, m, f) ==
    f = [S \in SUBSET (1..m) |-> IF S = {} THEN b ELSE Observe(f[S \ {Max(S)}], s[Max(S)])]

(* The reconciler after some segments, set by set: there is such a function.*)
LEMMA RecExists ==
    ASSUME NEW s, NEW b, NEW n \in Nat
    PROVE  \E f : IsRec(s, b, n, f)
  <1> DEFINE P == {m \in Nat : \E f : IsRec(s, b, m, f)}
  <1>1. 0 \in P
    <2>1. IsRec(s, b, 0, [S \in SUBSET (1..0) |-> b])
      <3>1. \A S \in SUBSET (1..0) : S = {}
        OBVIOUS
      <3> QED BY <3>1 DEF IsRec
    <2> QED BY <2>1
  <1>2. ASSUME NEW m \in Nat, m \in P PROVE m + 1 \in P
    <2>1. PICK f : IsRec(s, b, m, f)
      BY <1>2
    <2>2. PICK g : g = [S \in SUBSET (1..(m + 1)) |->
                         IF m + 1 \in S THEN Observe(f[S \ {m + 1}], s[m + 1]) ELSE f[S]]
      OBVIOUS
    <2>3. ASSUME NEW S \in SUBSET (1..(m + 1))
          PROVE  g[S] = IF S = {} THEN b ELSE Observe(g[S \ {Max(S)}], s[Max(S)])
      <3>1. CASE m + 1 \in S
        <4>1. Max(S) = m + 1
          BY <3>1, MaxIs
        <4>2. S \ {m + 1} \in SUBSET (1..m) /\ S \ {m + 1} \in SUBSET (1..(m + 1)) /\ m + 1 \notin S \ {m + 1}
          OBVIOUS
        <4>3. g[S \ {m + 1}] = f[S \ {m + 1}]
          BY <2>2, <4>2
        <4>4. g[S] = Observe(f[S \ {m + 1}], s[m + 1])
          BY <2>2, <3>1
        <4> QED BY <3>1, <4>1, <4>3, <4>4
      <3>2. CASE m + 1 \notin S
        <4>1. S \in SUBSET (1..m)
          BY <3>2
        <4>2. g[S] = f[S]
          BY <2>2, <3>2
        <4>3. f[S] = IF S = {} THEN b ELSE Observe(f[S \ {Max(S)}], s[Max(S)])
          BY <2>1, <4>1 DEF IsRec
        <4>4. S \ {Max(S)} \in SUBSET (1..(m + 1)) /\ m + 1 \notin S \ {Max(S)}
          BY <3>2
        <4>5. g[S \ {Max(S)}] = f[S \ {Max(S)}]
          BY <2>2, <4>4
        <4> QED BY <4>2, <4>3, <4>5
      <3> QED BY <3>1, <3>2
    <2>4. IsRec(s, b, m + 1, g)
      BY <2>2, <2>3 DEF IsRec
    <2> QED BY <2>4
  <1>3. n \in P
    <2> HIDE DEF P
    <2> QED BY <1>1, <1>2, UpTo
  <1> QED BY <1>3

(* The fold is one of them, at the whole sequence.                         *)
LEMMA RecIs ==
    ASSUME NEW s, NEW b, NEW n \in Nat, DOMAIN s = 1..n
    PROVE  \E f : IsRec(s, b, n, f) /\ FoldLeft(Observe, b, s) = f[1..n]
  <1>1. FoldLeft(Observe, b, s) = (CHOOSE f : IsRec(s, b, n, f))[1..n]
    BY DEF FoldLeft, MapThenFoldSet, IsRec
  <1> QED BY <1>1, RecExists

(* It starts with the base ...                                             *)
LEMMA RecStart ==
    ASSUME NEW s, NEW b, NEW n \in Nat, NEW f, IsRec(s, b, n, f)
    PROVE  f[1..0] = b
  <1>1. 1..0 = {} /\ 1..0 \in SUBSET (1..n)
    OBVIOUS
  <1> QED BY <1>1 DEF IsRec

(* ... and goes on element by element.                                     *)
LEMMA RecStep ==
    ASSUME NEW s, NEW b, NEW n \in Nat, NEW f, IsRec(s, b, n, f), NEW m \in Nat, m < n
    PROVE  f[1..(m + 1)] = Observe(f[1..m], s[m + 1])
  <1>1. 1..(m + 1) \in SUBSET (1..n) /\ 1..(m + 1) # {} /\ (1..(m + 1)) \ {m + 1} = 1..m
    OBVIOUS
  <1>2. Max(1..(m + 1)) = m + 1
    BY MaxIs
  <1> QED BY <1>1, <1>2 DEF IsRec

(* One element more is one step more.                                      *)
LEMMA RecAppend ==
    ASSUME NEW T, NEW s \in Seq(T), NEW e \in T, NEW b
    PROVE  FoldLeft(Observe, b, Append(s, e)) = Observe(FoldLeft(Observe, b, s), e)
  <1>1. PICK n \in Nat : n = Len(s) /\ DOMAIN s = 1..n
    OBVIOUS
  <1>2. PICK t : t = Append(s, e)
    OBVIOUS
  <1>3. DOMAIN t = 1..(n + 1) /\ t[n + 1] = e /\ \A i \in 1..n : t[i] = s[i]
    BY <1>1, <1>2, AppendProperties
  <1>4. PICK f : IsRec(s, b, n, f) /\ FoldLeft(Observe, b, s) = f[1..n]
    BY <1>1, RecIs
  <1>5. PICK g : IsRec(t, b, n + 1, g) /\ FoldLeft(Observe, b, t) = g[1..(n + 1)]
    BY <1>3, RecIs
  <1> DEFINE P == {m \in Nat : m <= n => f[1..m] = g[1..m]}
  <1>6. 0 \in P
    <2>1. n + 1 \in Nat
      OBVIOUS
    <2>2. f[1..0] = b
      BY <1>4, RecStart, Zenon
    <2>3. g[1..0] = b
      BY <1>5, <2>1, RecStart, Zenon
    <2> QED BY <2>2, <2>3
  <1>7. ASSUME NEW m \in Nat, m < n, m \in P PROVE m + 1 \in P
    <2>1. f[1..(m + 1)] = Observe(f[1..m], s[m + 1]) /\ g[1..(m + 1)] = Observe(g[1..m], t[m + 1])
      BY <1>4, <1>5, <1>7, RecStep
    <2>2. t[m + 1] = s[m + 1] /\ f[1..m] = g[1..m]
      BY <1>3, <1>7
    <2> QED BY <2>1, <2>2
  <1>8. n \in P
    <2> HIDE DEF P
    <2> QED BY <1>6, <1>7, UpTo
  <1>9. g[1..(n + 1)] = Observe(g[1..n], t[n + 1])
    <2>1. n + 1 \in Nat /\ n < n + 1
      OBVIOUS
    <2> QED BY <1>5, <2>1, RecStep
  <1> QED BY <1>2, <1>3, <1>4, <1>5, <1>8, <1>9

(* Nothing adds nothing.                                                   *)
LEMMA RecEmpty ==
    ASSUME NEW b
    PROVE  FoldLeft(Observe, b, <<>>) = b
  <1>1. DOMAIN <<>> = 1..0
    OBVIOUS
  <1>2. PICK f : IsRec(<<>>, b, 0, f) /\ FoldLeft(Observe, b, <<>>) = f[1..0]
    BY <1>1, RecIs
  <1> QED BY <1>2, RecStart, Zenon

IsThink(s, b, m, f) ==
    f = [S \in SUBSET (1..m) |-> IF S = {} THEN b ELSE Thinks(f[S \ {Max(S)}], s[Max(S)])]

(* The reasoning in some segments, set by set: there is such a function.   *)
LEMMA ThinkExists ==
    ASSUME NEW s, NEW b, NEW n \in Nat
    PROVE  \E f : IsThink(s, b, n, f)
  <1> DEFINE P == {m \in Nat : \E f : IsThink(s, b, m, f)}
  <1>1. 0 \in P
    <2>1. IsThink(s, b, 0, [S \in SUBSET (1..0) |-> b])
      <3>1. \A S \in SUBSET (1..0) : S = {}
        OBVIOUS
      <3> QED BY <3>1 DEF IsThink
    <2> QED BY <2>1
  <1>2. ASSUME NEW m \in Nat, m \in P PROVE m + 1 \in P
    <2>1. PICK f : IsThink(s, b, m, f)
      BY <1>2
    <2>2. PICK g : g = [S \in SUBSET (1..(m + 1)) |->
                         IF m + 1 \in S THEN Thinks(f[S \ {m + 1}], s[m + 1]) ELSE f[S]]
      OBVIOUS
    <2>3. ASSUME NEW S \in SUBSET (1..(m + 1))
          PROVE  g[S] = IF S = {} THEN b ELSE Thinks(g[S \ {Max(S)}], s[Max(S)])
      <3>1. CASE m + 1 \in S
        <4>1. Max(S) = m + 1
          BY <3>1, MaxIs
        <4>2. S \ {m + 1} \in SUBSET (1..m) /\ S \ {m + 1} \in SUBSET (1..(m + 1)) /\ m + 1 \notin S \ {m + 1}
          OBVIOUS
        <4>3. g[S \ {m + 1}] = f[S \ {m + 1}]
          BY <2>2, <4>2
        <4>4. g[S] = Thinks(f[S \ {m + 1}], s[m + 1])
          BY <2>2, <3>1
        <4> QED BY <3>1, <4>1, <4>3, <4>4
      <3>2. CASE m + 1 \notin S
        <4>1. S \in SUBSET (1..m)
          BY <3>2
        <4>2. g[S] = f[S]
          BY <2>2, <3>2
        <4>3. f[S] = IF S = {} THEN b ELSE Thinks(f[S \ {Max(S)}], s[Max(S)])
          BY <2>1, <4>1 DEF IsThink
        <4>4. S \ {Max(S)} \in SUBSET (1..(m + 1)) /\ m + 1 \notin S \ {Max(S)}
          BY <3>2
        <4>5. g[S \ {Max(S)}] = f[S \ {Max(S)}]
          BY <2>2, <4>4
        <4> QED BY <4>2, <4>3, <4>5
      <3> QED BY <3>1, <3>2
    <2>4. IsThink(s, b, m + 1, g)
      BY <2>2, <2>3 DEF IsThink
    <2> QED BY <2>4
  <1>3. n \in P
    <2> HIDE DEF P
    <2> QED BY <1>1, <1>2, UpTo
  <1> QED BY <1>3

(* The fold is one of them, at the whole sequence.                         *)
LEMMA ThinkIs ==
    ASSUME NEW s, NEW b, NEW n \in Nat, DOMAIN s = 1..n
    PROVE  \E f : IsThink(s, b, n, f) /\ FoldLeft(Thinks, b, s) = f[1..n]
  <1>1. FoldLeft(Thinks, b, s) = (CHOOSE f : IsThink(s, b, n, f))[1..n]
    BY DEF FoldLeft, MapThenFoldSet, IsThink
  <1> QED BY <1>1, ThinkExists

(* It starts with the base ...                                             *)
LEMMA ThinkStart ==
    ASSUME NEW s, NEW b, NEW n \in Nat, NEW f, IsThink(s, b, n, f)
    PROVE  f[1..0] = b
  <1>1. 1..0 = {} /\ 1..0 \in SUBSET (1..n)
    OBVIOUS
  <1> QED BY <1>1 DEF IsThink

(* ... and goes on element by element.                                     *)
LEMMA ThinkStep ==
    ASSUME NEW s, NEW b, NEW n \in Nat, NEW f, IsThink(s, b, n, f), NEW m \in Nat, m < n
    PROVE  f[1..(m + 1)] = Thinks(f[1..m], s[m + 1])
  <1>1. 1..(m + 1) \in SUBSET (1..n) /\ 1..(m + 1) # {} /\ (1..(m + 1)) \ {m + 1} = 1..m
    OBVIOUS
  <1>2. Max(1..(m + 1)) = m + 1
    BY MaxIs
  <1> QED BY <1>1, <1>2 DEF IsThink

(* One element more is one step more.                                      *)
LEMMA ThinkAppend ==
    ASSUME NEW T, NEW s \in Seq(T), NEW e \in T, NEW b
    PROVE  FoldLeft(Thinks, b, Append(s, e)) = Thinks(FoldLeft(Thinks, b, s), e)
  <1>1. PICK n \in Nat : n = Len(s) /\ DOMAIN s = 1..n
    OBVIOUS
  <1>2. PICK t : t = Append(s, e)
    OBVIOUS
  <1>3. DOMAIN t = 1..(n + 1) /\ t[n + 1] = e /\ \A i \in 1..n : t[i] = s[i]
    BY <1>1, <1>2, AppendProperties
  <1>4. PICK f : IsThink(s, b, n, f) /\ FoldLeft(Thinks, b, s) = f[1..n]
    BY <1>1, ThinkIs
  <1>5. PICK g : IsThink(t, b, n + 1, g) /\ FoldLeft(Thinks, b, t) = g[1..(n + 1)]
    BY <1>3, ThinkIs
  <1> DEFINE P == {m \in Nat : m <= n => f[1..m] = g[1..m]}
  <1>6. 0 \in P
    <2>1. n + 1 \in Nat
      OBVIOUS
    <2>2. f[1..0] = b
      BY <1>4, ThinkStart, Zenon
    <2>3. g[1..0] = b
      BY <1>5, <2>1, ThinkStart, Zenon
    <2> QED BY <2>2, <2>3
  <1>7. ASSUME NEW m \in Nat, m < n, m \in P PROVE m + 1 \in P
    <2>1. f[1..(m + 1)] = Thinks(f[1..m], s[m + 1]) /\ g[1..(m + 1)] = Thinks(g[1..m], t[m + 1])
      BY <1>4, <1>5, <1>7, ThinkStep
    <2>2. t[m + 1] = s[m + 1] /\ f[1..m] = g[1..m]
      BY <1>3, <1>7
    <2> QED BY <2>1, <2>2
  <1>8. n \in P
    <2> HIDE DEF P
    <2> QED BY <1>6, <1>7, UpTo
  <1>9. g[1..(n + 1)] = Thinks(g[1..n], t[n + 1])
    <2>1. n + 1 \in Nat /\ n < n + 1
      OBVIOUS
    <2> QED BY <1>5, <2>1, ThinkStep
  <1> QED BY <1>2, <1>3, <1>4, <1>5, <1>8, <1>9

(* Nothing adds nothing.                                                   *)
LEMMA ThinkEmpty ==
    ASSUME NEW b
    PROVE  FoldLeft(Thinks, b, <<>>) = b
  <1>1. DOMAIN <<>> = 1..0
    OBVIOUS
  <1>2. PICK f : IsThink(<<>>, b, 0, f) /\ FoldLeft(Thinks, b, <<>>) = f[1..0]
    BY <1>1, ThinkIs
  <1> QED BY <1>2, ThinkStart, Zenon

IsTok(s, b, m, f) ==
    f = [S \in SUBSET (1..m) |-> IF S = {} THEN b ELSE TakeToken(f[S \ {Max(S)}], s[Max(S)])]

(* The emitter after some tokens, set by set: there is such a function.    *)
LEMMA TokExists ==
    ASSUME NEW s, NEW b, NEW n \in Nat
    PROVE  \E f : IsTok(s, b, n, f)
  <1> DEFINE P == {m \in Nat : \E f : IsTok(s, b, m, f)}
  <1>1. 0 \in P
    <2>1. IsTok(s, b, 0, [S \in SUBSET (1..0) |-> b])
      <3>1. \A S \in SUBSET (1..0) : S = {}
        OBVIOUS
      <3> QED BY <3>1 DEF IsTok
    <2> QED BY <2>1
  <1>2. ASSUME NEW m \in Nat, m \in P PROVE m + 1 \in P
    <2>1. PICK f : IsTok(s, b, m, f)
      BY <1>2
    <2>2. PICK g : g = [S \in SUBSET (1..(m + 1)) |->
                         IF m + 1 \in S THEN TakeToken(f[S \ {m + 1}], s[m + 1]) ELSE f[S]]
      OBVIOUS
    <2>3. ASSUME NEW S \in SUBSET (1..(m + 1))
          PROVE  g[S] = IF S = {} THEN b ELSE TakeToken(g[S \ {Max(S)}], s[Max(S)])
      <3>1. CASE m + 1 \in S
        <4>1. Max(S) = m + 1
          BY <3>1, MaxIs
        <4>2. S \ {m + 1} \in SUBSET (1..m) /\ S \ {m + 1} \in SUBSET (1..(m + 1)) /\ m + 1 \notin S \ {m + 1}
          OBVIOUS
        <4>3. g[S \ {m + 1}] = f[S \ {m + 1}]
          BY <2>2, <4>2
        <4>4. g[S] = TakeToken(f[S \ {m + 1}], s[m + 1])
          BY <2>2, <3>1
        <4> QED BY <3>1, <4>1, <4>3, <4>4
      <3>2. CASE m + 1 \notin S
        <4>1. S \in SUBSET (1..m)
          BY <3>2
        <4>2. g[S] = f[S]
          BY <2>2, <3>2
        <4>3. f[S] = IF S = {} THEN b ELSE TakeToken(f[S \ {Max(S)}], s[Max(S)])
          BY <2>1, <4>1 DEF IsTok
        <4>4. S \ {Max(S)} \in SUBSET (1..(m + 1)) /\ m + 1 \notin S \ {Max(S)}
          BY <3>2
        <4>5. g[S \ {Max(S)}] = f[S \ {Max(S)}]
          BY <2>2, <4>4
        <4> QED BY <4>2, <4>3, <4>5
      <3> QED BY <3>1, <3>2
    <2>4. IsTok(s, b, m + 1, g)
      BY <2>2, <2>3 DEF IsTok
    <2> QED BY <2>4
  <1>3. n \in P
    <2> HIDE DEF P
    <2> QED BY <1>1, <1>2, UpTo
  <1> QED BY <1>3

(* The fold is one of them, at the whole sequence.                         *)
LEMMA TokIs ==
    ASSUME NEW s, NEW b, NEW n \in Nat, DOMAIN s = 1..n
    PROVE  \E f : IsTok(s, b, n, f) /\ FoldLeft(TakeToken, b, s) = f[1..n]
  <1>1. FoldLeft(TakeToken, b, s) = (CHOOSE f : IsTok(s, b, n, f))[1..n]
    BY DEF FoldLeft, MapThenFoldSet, IsTok
  <1> QED BY <1>1, TokExists

(* It starts with the base ...                                             *)
LEMMA TokStart ==
    ASSUME NEW s, NEW b, NEW n \in Nat, NEW f, IsTok(s, b, n, f)
    PROVE  f[1..0] = b
  <1>1. 1..0 = {} /\ 1..0 \in SUBSET (1..n)
    OBVIOUS
  <1> QED BY <1>1 DEF IsTok

(* ... and goes on element by element.                                     *)
LEMMA TokStep ==
    ASSUME NEW s, NEW b, NEW n \in Nat, NEW f, IsTok(s, b, n, f), NEW m \in Nat, m < n
    PROVE  f[1..(m + 1)] = TakeToken(f[1..m], s[m + 1])
  <1>1. 1..(m + 1) \in SUBSET (1..n) /\ 1..(m + 1) # {} /\ (1..(m + 1)) \ {m + 1} = 1..m
    OBVIOUS
  <1>2. Max(1..(m + 1)) = m + 1
    BY MaxIs
  <1> QED BY <1>1, <1>2 DEF IsTok

(* One element more is one step more.                                      *)
LEMMA TokAppend ==
    ASSUME NEW T, NEW s \in Seq(T), NEW e \in T, NEW b
    PROVE  FoldLeft(TakeToken, b, Append(s, e)) = TakeToken(FoldLeft(TakeToken, b, s), e)
  <1>1. PICK n \in Nat : n = Len(s) /\ DOMAIN s = 1..n
    OBVIOUS
  <1>2. PICK t : t = Append(s, e)
    OBVIOUS
  <1>3. DOMAIN t = 1..(n + 1) /\ t[n + 1] = e /\ \A i \in 1..n : t[i] = s[i]
    BY <1>1, <1>2, AppendProperties
  <1>4. PICK f : IsTok(s, b, n, f) /\ FoldLeft(TakeToken, b, s) = f[1..n]
    BY <1>1, TokIs
  <1>5. PICK g : IsTok(t, b, n + 1, g) /\ FoldLeft(TakeToken, b, t) = g[1..(n + 1)]
    BY <1>3, TokIs
  <1> DEFINE P == {m \in Nat : m <= n => f[1..m] = g[1..m]}
  <1>6. 0 \in P
    <2>1. n + 1 \in Nat
      OBVIOUS
    <2>2. f[1..0] = b
      BY <1>4, TokStart, Zenon
    <2>3. g[1..0] = b
      BY <1>5, <2>1, TokStart, Zenon
    <2> QED BY <2>2, <2>3
  <1>7. ASSUME NEW m \in Nat, m < n, m \in P PROVE m + 1 \in P
    <2>1. f[1..(m + 1)] = TakeToken(f[1..m], s[m + 1]) /\ g[1..(m + 1)] = TakeToken(g[1..m], t[m + 1])
      BY <1>4, <1>5, <1>7, TokStep
    <2>2. t[m + 1] = s[m + 1] /\ f[1..m] = g[1..m]
      BY <1>3, <1>7
    <2> QED BY <2>1, <2>2
  <1>8. n \in P
    <2> HIDE DEF P
    <2> QED BY <1>6, <1>7, UpTo
  <1>9. g[1..(n + 1)] = TakeToken(g[1..n], t[n + 1])
    <2>1. n + 1 \in Nat /\ n < n + 1
      OBVIOUS
    <2> QED BY <1>5, <2>1, TokStep
  <1> QED BY <1>2, <1>3, <1>4, <1>5, <1>8, <1>9

(* Nothing adds nothing.                                                   *)
LEMMA TokEmpty ==
    ASSUME NEW b
    PROVE  FoldLeft(TakeToken, b, <<>>) = b
  <1>1. DOMAIN <<>> = 1..0
    OBVIOUS
  <1>2. PICK f : IsTok(<<>>, b, 0, f) /\ FoldLeft(TakeToken, b, <<>>) = f[1..0]
    BY <1>1, TokIs
  <1> QED BY <1>2, TokStart, Zenon

(* What an event adds.                                                       *)
Joined(type, t, v) == t \o Piece(type, v)

IsOf(type, s, m, f) ==
    f = [S \in SUBSET (1..m) |-> IF S = {} THEN <<>> ELSE Joined(type, f[S \ {Max(S)}], s[Max(S)])]

(* What some events say, set by set: there is such a function.             *)
LEMMA OfExists ==
    ASSUME NEW type, NEW s, NEW n \in Nat
    PROVE  \E f : IsOf(type, s, n, f)
  <1> DEFINE P == {m \in Nat : \E f : IsOf(type, s, m, f)}
  <1>1. 0 \in P
    <2>1. IsOf(type, s, 0, [S \in SUBSET (1..0) |-> <<>>])
      <3>1. \A S \in SUBSET (1..0) : S = {}
        OBVIOUS
      <3> QED BY <3>1 DEF IsOf
    <2> QED BY <2>1
  <1>2. ASSUME NEW m \in Nat, m \in P PROVE m + 1 \in P
    <2>1. PICK f : IsOf(type, s, m, f)
      BY <1>2
    <2>2. PICK g : g = [S \in SUBSET (1..(m + 1)) |->
                         IF m + 1 \in S THEN Joined(type, f[S \ {m + 1}], s[m + 1]) ELSE f[S]]
      OBVIOUS
    <2>3. ASSUME NEW S \in SUBSET (1..(m + 1))
          PROVE  g[S] = IF S = {} THEN <<>> ELSE Joined(type, g[S \ {Max(S)}], s[Max(S)])
      <3>1. CASE m + 1 \in S
        <4>1. Max(S) = m + 1
          BY <3>1, MaxIs
        <4>2. S \ {m + 1} \in SUBSET (1..m) /\ S \ {m + 1} \in SUBSET (1..(m + 1)) /\ m + 1 \notin S \ {m + 1}
          OBVIOUS
        <4>3. g[S \ {m + 1}] = f[S \ {m + 1}]
          BY <2>2, <4>2
        <4>4. g[S] = Joined(type, f[S \ {m + 1}], s[m + 1])
          BY <2>2, <3>1
        <4> QED BY <3>1, <4>1, <4>3, <4>4
      <3>2. CASE m + 1 \notin S
        <4>1. S \in SUBSET (1..m)
          BY <3>2
        <4>2. g[S] = f[S]
          BY <2>2, <3>2
        <4>3. f[S] = IF S = {} THEN <<>> ELSE Joined(type, f[S \ {Max(S)}], s[Max(S)])
          BY <2>1, <4>1 DEF IsOf
        <4>4. S \ {Max(S)} \in SUBSET (1..(m + 1)) /\ m + 1 \notin S \ {Max(S)}
          BY <3>2
        <4>5. g[S \ {Max(S)}] = f[S \ {Max(S)}]
          BY <2>2, <4>4
        <4> QED BY <4>2, <4>3, <4>5
      <3> QED BY <3>1, <3>2
    <2>4. IsOf(type, s, m + 1, g)
      BY <2>2, <2>3 DEF IsOf
    <2> QED BY <2>4
  <1>3. n \in P
    <2> HIDE DEF P
    <2> QED BY <1>1, <1>2, UpTo
  <1> QED BY <1>3

(* The fold is one of them, at the whole sequence.                         *)
LEMMA OfIs ==
    ASSUME NEW type, NEW s, NEW n \in Nat, DOMAIN s = 1..n
    PROVE  \E f : IsOf(type, s, n, f) /\ Of(type, s) = f[1..n]
  <1>1. Of(type, s) = (CHOOSE f : IsOf(type, s, n, f))[1..n]
    BY DEF Joined, Of, FoldLeft, MapThenFoldSet, IsOf
  <1> QED BY <1>1, OfExists

(* It starts with the base ...                                             *)
LEMMA OfStart ==
    ASSUME NEW type, NEW s, NEW n \in Nat, NEW f, IsOf(type, s, n, f)
    PROVE  f[1..0] = <<>>
  <1>1. 1..0 = {} /\ 1..0 \in SUBSET (1..n)
    OBVIOUS
  <1> QED BY <1>1 DEF IsOf

(* ... and goes on element by element.                                     *)
LEMMA OfStep ==
    ASSUME NEW type, NEW s, NEW n \in Nat, NEW f, IsOf(type, s, n, f), NEW m \in Nat, m < n
    PROVE  f[1..(m + 1)] = Joined(type, f[1..m], s[m + 1])
  <1>1. 1..(m + 1) \in SUBSET (1..n) /\ 1..(m + 1) # {} /\ (1..(m + 1)) \ {m + 1} = 1..m
    OBVIOUS
  <1>2. Max(1..(m + 1)) = m + 1
    BY MaxIs
  <1> QED BY <1>1, <1>2 DEF IsOf

(* One element more is one step more.                                      *)
LEMMA OfAppend ==
    ASSUME NEW T, NEW s \in Seq(T), NEW e \in T, NEW type
    PROVE  Of(type, Append(s, e)) = Joined(type, Of(type, s), e)
  <1>1. PICK n \in Nat : n = Len(s) /\ DOMAIN s = 1..n
    OBVIOUS
  <1>2. PICK t : t = Append(s, e)
    OBVIOUS
  <1>3. DOMAIN t = 1..(n + 1) /\ t[n + 1] = e /\ \A i \in 1..n : t[i] = s[i]
    BY <1>1, <1>2, AppendProperties
  <1>4. PICK f : IsOf(type, s, n, f) /\ Of(type, s) = f[1..n]
    BY <1>1, OfIs
  <1>5. PICK g : IsOf(type, t, n + 1, g) /\ Of(type, t) = g[1..(n + 1)]
    BY <1>3, OfIs
  <1> DEFINE P == {m \in Nat : m <= n => f[1..m] = g[1..m]}
  <1>6. 0 \in P
    <2>1. n + 1 \in Nat
      OBVIOUS
    <2>2. f[1..0] = <<>>
      BY <1>4, OfStart, Zenon
    <2>3. g[1..0] = <<>>
      BY <1>5, <2>1, OfStart, Zenon
    <2> QED BY <2>2, <2>3
  <1>7. ASSUME NEW m \in Nat, m < n, m \in P PROVE m + 1 \in P
    <2>1. f[1..(m + 1)] = Joined(type, f[1..m], s[m + 1]) /\ g[1..(m + 1)] = Joined(type, g[1..m], t[m + 1])
      BY <1>4, <1>5, <1>7, OfStep
    <2>2. t[m + 1] = s[m + 1] /\ f[1..m] = g[1..m]
      BY <1>3, <1>7
    <2> QED BY <2>1, <2>2
  <1>8. n \in P
    <2> HIDE DEF P
    <2> QED BY <1>6, <1>7, UpTo
  <1>9. g[1..(n + 1)] = Joined(type, g[1..n], t[n + 1])
    <2>1. PICK k \in Nat : k = n + 1
      OBVIOUS
    <2>2. n < k
      BY <2>1
    <2>3. IsOf(type, t, k, g)
      BY <1>5, <2>1
    <2> HIDE DEF P
    <2> QED BY <2>2, <2>3, OfStep, SMTT(30)
  <1> QED BY <1>2, <1>3, <1>4, <1>5, <1>8, <1>9

(* Nothing adds nothing.                                                   *)
LEMMA OfEmpty ==
    ASSUME NEW type
    PROVE  Of(type, <<>>) = <<>>
  <1>1. DOMAIN <<>> = 1..0
    OBVIOUS
  <1>2. PICK f : IsOf(type, <<>>, 0, f) /\ Of(type, <<>>) = f[1..0]
    BY <1>1, OfIs
  <1> QED BY <1>2, OfStart, Zenon

-----------------------------------------------------------------------------
(* What the emitter logs.                                                      *)

(* The reconciler and the reasoning after every entry of a log.                *)
IsAccount(L, c) ==
    /\ c[0] = [rec |-> Reconciler, thought |-> <<>>]
    /\ \A k \in 1..Len(L) :
         c[k] = [rec     |-> FoldLeft(Observe, c[k - 1].rec, L[k].out),
                 thought |-> FoldLeft(Thinks, c[k - 1].thought, L[k].out)]

EmitterFields == {"raw", "cls", "filter", "held", "heldShown", "forced"}

(* What Collect keeps up: the log accounts for what was collected, and its     *)
(* last reply is that of the text as it is.                                    *)
Collected(s) ==
    /\ DOMAIN s = {"e", "b", "rec", "thought", "seed", "log"}
    /\ DOMAIN s.e = EmitterFields
    /\ \E S : s.log \in Seq(S)
    /\ \E c : IsAccount(s.log, c) /\ c[Len(s.log)] = [rec |-> s.rec, thought |-> s.thought]
    /\ Len(s.log) > 0 => s.log[Len(s.log)].reply = Reply(s.e.raw, s.seed, s.e.forced)

(* An account is continued entry by entry. *)
LEMMA AccountGrows ==
    ASSUME NEW S, NEW L \in Seq(S), NEW x, NEW c, IsAccount(L, c)
    PROVE  \E d : /\ IsAccount(Append(L, x), d)
                  /\ d[Len(L) + 1] = [rec     |-> FoldLeft(Observe, c[Len(L)].rec, x.out),
                                      thought |-> FoldLeft(Thinks, c[Len(L)].thought, x.out)]
  <1>1. PICK n \in Nat : n = Len(L)
    OBVIOUS
  <1>0. PICK M : M = Append(L, x)
    OBVIOUS
  <1>2. M = Append(L, x) /\ Len(M) = n + 1 /\ M[n + 1] = x /\ \A k \in 1..n : M[k] = L[k]
    <2>1. L \in Seq(S \cup {x}) /\ x \in S \cup {x}
      OBVIOUS
    <2> QED BY <1>0, <1>1, <2>1, AppendProperties
  <1>3. PICK new : new = [rec |-> FoldLeft(Observe, c[n].rec, x.out), thought |-> FoldLeft(Thinks, c[n].thought, x.out)]
    OBVIOUS
  <1>4. PICK d : d = [k \in 0..(n + 1) |-> IF k = n + 1 THEN new ELSE c[k]]
    OBVIOUS
  <1>5. d[n + 1] = new /\ \A k \in 0..n : d[k] = c[k]
    BY <1>4
  <1>6. d[0] = [rec |-> Reconciler, thought |-> <<>>]
    BY <1>5 DEF IsAccount
  <1>7. ASSUME NEW k \in 1..(n + 1)
        PROVE  d[k] = [rec     |-> FoldLeft(Observe, d[k - 1].rec, M[k].out),
                       thought |-> FoldLeft(Thinks, d[k - 1].thought, M[k].out)]
    <2>1. CASE k = n + 1
      <3>1. d[k] = new /\ d[k - 1] = c[n] /\ M[k] = x
        BY <1>2, <1>5, <2>1
      <3> QED BY <1>3, <3>1
    <2>2. CASE k # n + 1
      <3>1. k \in 1..n /\ d[k] = c[k] /\ d[k - 1] = c[k - 1] /\ M[k] = L[k]
        BY <1>2, <1>5, <2>2
      <3>2. c[k] = [rec     |-> FoldLeft(Observe, c[k - 1].rec, L[k].out),
                    thought |-> FoldLeft(Thinks, c[k - 1].thought, L[k].out)]
        BY <1>1, <3>1 DEF IsAccount
      <3> QED BY <3>1, <3>2
    <2> QED BY <2>1, <2>2
  <1>8. IsAccount(M, d)
    BY <1>2, <1>6, <1>7 DEF IsAccount
  <1> QED BY <1>1, <1>2, <1>3, <1>5, <1>8

(* Whatever the emitter returns is collected. *)
LEMMA CollectKeeps ==
    ASSUME NEW s, Collected(s), NEW e, DOMAIN e = EmitterFields
    PROVE  Collected(Collect(s, e)) /\ Collect(s, e).e = e
           /\ Len(Collect(s, e).log) = Len(s.log) + 1
           /\ Collect(s, e).seed = s.seed /\ Len(s.log) \in Nat
           /\ \A k \in 1..Len(s.log) : Collect(s, e).log[k] = s.log[k]
  <1>1. DOMAIN s = {"e", "b", "rec", "thought", "seed", "log"}
    BY DEF Collected
  <1>2. PICK t : t = Collect(s, e)
    OBVIOUS
  <1>3. PICK x : x = [out |-> e.cls.out, reply |-> Reply(e.raw, s.seed, e.forced)]
    OBVIOUS
  <1>4. /\ DOMAIN t = {"e", "b", "rec", "thought", "seed", "log"}
        /\ t.e = e /\ t.seed = s.seed /\ t.log = Append(s.log, x)
        /\ t.rec = FoldLeft(Observe, s.rec, e.cls.out)
        /\ t.thought = FoldLeft(Thinks, s.thought, e.cls.out)
    BY <1>1, <1>2, <1>3 DEF Collect
  <1>5. PICK S : s.log \in Seq(S)
    BY DEF Collected
  <1>6. PICK c : IsAccount(s.log, c) /\ c[Len(s.log)] = [rec |-> s.rec, thought |-> s.thought]
    BY DEF Collected
  <1>7. PICK d : /\ IsAccount(Append(s.log, x), d)
                 /\ d[Len(s.log) + 1] = [rec     |-> FoldLeft(Observe, c[Len(s.log)].rec, x.out),
                                         thought |-> FoldLeft(Thinks, c[Len(s.log)].thought, x.out)]
    BY <1>5, <1>6, AccountGrows
  <1>8. /\ t.log \in Seq(S \cup {x}) /\ Len(t.log) = Len(s.log) + 1 /\ Len(s.log) \in Nat
        /\ t.log[Len(t.log)] = x /\ \A k \in 1..Len(s.log) : t.log[k] = s.log[k]
    <2>1. s.log \in Seq(S \cup {x}) /\ x \in S \cup {x}
      BY <1>5
    <2> QED BY <1>4, <2>1, AppendProperties
  <1>9. d[Len(t.log)] = [rec |-> t.rec, thought |-> t.thought]
    <2>1. x.out = e.cls.out /\ c[Len(s.log)].rec = s.rec /\ c[Len(s.log)].thought = s.thought
      BY <1>3, <1>6
    <2> QED BY <1>4, <1>7, <1>8, <2>1
  <1>10. \E a : IsAccount(t.log, a) /\ a[Len(t.log)] = [rec |-> t.rec, thought |-> t.thought]
    BY <1>4, <1>7, <1>9
  <1>11. t.log[Len(t.log)].reply = Reply(t.e.raw, t.seed, t.e.forced)
    BY <1>3, <1>4, <1>8
  <1>12. \E Q : t.log \in Seq(Q)
    BY <1>8
  <1>13. Collected(t)
    BY <1>4, <1>10, <1>11, <1>12 DEF Collected
  <1> QED BY <1>2, <1>4, <1>8, <1>13

(* A token and, when the budget is spent, a close marker. *)
LEMMA TokenKeeps ==
    ASSUME NEW s, Collected(s), NEW token
    PROVE  Collected(TakeToken(s, token)) /\ TakeToken(s, token).seed = s.seed
  <1>1. DOMAIN s.e = EmitterFields
    BY DEF Collected
  <1>2. DOMAIN EmitToken(s.e, token) = EmitterFields
    <2>1. PICK f : f = Filtered(s.e, token, Display(token))
      OBVIOUS
    <2>2. DOMAIN f.emitter = EmitterFields
      BY <1>1, <2>1 DEF Filtered
    <2> QED BY <2>1, <2>2 DEF EmitToken
  <1>3. PICK t : t = Collect(s, EmitToken(s.e, token))
    OBVIOUS
  <1>4. Collected(t) /\ t.seed = s.seed
    BY <1>2, <1>3, CollectKeeps
  <1>5. PICK u : u = [t EXCEPT !.b = BudgetObserves(@, token)]
    OBVIOUS
  <1>6. DOMAIN t = {"e", "b", "rec", "thought", "seed", "log"}
    BY <1>4 DEF Collected
  <1>7. DOMAIN u = DOMAIN t /\ u.e = t.e /\ u.rec = t.rec /\ u.thought = t.thought /\ u.seed = t.seed /\ u.log = t.log
    BY <1>5, <1>6
  <1>8. Collected(u) /\ u.seed = s.seed
    BY <1>4, <1>7 DEF Collected
  <1>9. DOMAIN ForceClose(u.e, u.b.fires) = EmitterFields
    <2>1. DOMAIN u.e = EmitterFields
      BY <1>8 DEF Collected
    <2> QED BY <2>1 DEF ForceClose
  <1>10. Collected(Forced(u)) /\ Forced(u).seed = s.seed
    BY <1>8, <1>9, CollectKeeps DEF Forced
  <1>11. TakeToken(s, token) = Forced(u)
    BY <1>3, <1>5 DEF TakeToken
  <1> QED BY <1>10, <1>11

(* All tokens, by induction over their number. *)
LEMMA TokensKeep ==
    ASSUME NEW T, NEW tokens \in Seq(T), NEW seed, NEW budget
    PROVE  Collected(FoldLeft(TakeToken, Start(seed, budget), tokens))
  <1> DEFINE b == Start(seed, budget)
             P == {m \in Nat : m <= Len(tokens) => Collected(FoldLeft(TakeToken, b, SubSeq(tokens, 1, m)))}
  <1>1. Collected(b)
    <2>1. DOMAIN b = {"e", "b", "rec", "thought", "seed", "log"} /\ b.log = <<>>
          /\ b.rec = Reconciler /\ b.thought = <<>> /\ DOMAIN b.e = EmitterFields
      BY DEF Start, Emitter, EmitterFields
    <2>2. PICK c : c = [k \in {0} |-> [rec |-> Reconciler, thought |-> <<>>]]
      OBVIOUS
    <2>3. IsAccount(<<>>, c) /\ c[Len(<<>>)] = [rec |-> Reconciler, thought |-> <<>>]
      BY <2>2 DEF IsAccount
    <2>4. <<>> \in Seq({}) /\ Len(<<>>) = 0
      OBVIOUS
    <2> HIDE DEF b
    <2> QED BY <2>1, <2>3, <2>4 DEF Collected
  <1>2. 0 \in P
    <2>1. SubSeq(tokens, 1, 0) = <<>>
      OBVIOUS
    <2>2. FoldLeft(TakeToken, b, <<>>) = b
      BY TokEmpty
    <2> HIDE DEF b
    <2> QED BY <1>1, <2>1, <2>2
  <1>3. ASSUME NEW m \in Nat, m < Len(tokens), m \in P PROVE m + 1 \in P
    <2>0. SubSeq(tokens, 1, m) \in Seq(T)
      <3>1. \A i \in 1..m : tokens[i] \in T
        BY <1>3
      <3> QED BY <3>1, SubSeqProperties
    <2>1. PICK q : q = SubSeq(tokens, 1, m) /\ q \in Seq(T)
      BY <2>0
    <2>2. tokens[m + 1] \in T /\ SubSeq(tokens, 1, m + 1) = Append(q, tokens[m + 1])
      BY <1>3, <2>1
    <2>3. FoldLeft(TakeToken, b, Append(q, tokens[m + 1])) = TakeToken(FoldLeft(TakeToken, b, q), tokens[m + 1])
      BY <2>1, <2>2, TokAppend
    <2>4. Collected(FoldLeft(TakeToken, b, q))
      BY <1>3, <2>1
    <2>5. Collected(FoldLeft(TakeToken, b, SubSeq(tokens, 1, m + 1)))
      <3> HIDE DEF b
      <3> QED BY <2>2, <2>3, <2>4, TokenKeeps
    <2> HIDE DEF b
    <2> QED BY <2>5
  <1>4. Len(tokens) \in P
    <2> HIDE DEF P
    <2> QED BY <1>2, <1>3, UpTo
  <1>5. SubSeq(tokens, 1, Len(tokens)) = tokens
    OBVIOUS
  <1>6. Collected(FoldLeft(TakeToken, b, SubSeq(tokens, 1, Len(tokens))))
    <2>1. Len(tokens) <= Len(tokens)
      OBVIOUS
    <2> HIDE DEF b
    <2> QED BY <1>4, <2>1
  <1> QED BY <1>5, <1>6

(* What a log has to be for the reader.                                        *)
ExactLog(L) ==
    /\ L \in Seq(LogEntry) /\ Len(L) > 0
    /\ \E c : /\ IsAccount(L, c)
              /\ IsPrefix(c[Len(L)].rec.emitted, L[Len(L)].reply.text)
              /\ c[Len(L)].thought = L[Len(L)].reply.reasoning
    /\ L[IF Len(L) = 1 THEN 1 ELSE Len(L) - 1].reply = L[Len(L)].reply

(* The log of an exact reply is one.                                           *)
LEMMA LogIsExact ==
    ASSUME NEW r, ReplyIsExact(r), NEW T, r.tokens \in Seq(T)
    PROVE  ExactLog(Log(r))
  <1>1. PICK s : s = Stopped(FoldLeft(TakeToken, Start(r.seed, r.budget), r.tokens), r.stops) /\ Collected(s)
    <2>1. PICK u : u = FoldLeft(TakeToken, Start(r.seed, r.budget), r.tokens) /\ Collected(u)
      BY TokensKeep
    <2>2. DOMAIN EmitEos(u.e) = EmitterFields
      <3>1. PICK f : f = Filtered(u.e, EosText, <<>>)
        OBVIOUS
      <3>2. DOMAIN u.e = EmitterFields
        BY <2>1 DEF Collected
      <3>3. DOMAIN f.emitter = EmitterFields
        BY <3>1, <3>2 DEF Filtered
      <3> QED BY <3>1, <3>3 DEF EmitEos
    <2>3. Collected(Stopped(u, r.stops))
      BY <2>1, <2>2, CollectKeeps DEF Stopped
    <2> QED BY <2>1, <2>3
  <1>2. PICK e : e = FlushTerminal(s.e)
    OBVIOUS
  <1>3. DOMAIN e = EmitterFields /\ e.raw = s.e.raw /\ e.forced = s.e.forced
    <2>1. DOMAIN s.e = EmitterFields
      BY <1>1 DEF Collected
    <2> QED BY <1>2, <2>1 DEF FlushTerminal, EmitterFields
  <1>4. PICK t : t = Collect(s, e)
    OBVIOUS
  <1>5. /\ Collected(t) /\ t.e = e /\ t.seed = s.seed /\ Len(t.log) = Len(s.log) + 1 /\ Len(s.log) \in Nat
        /\ \A k \in 1..Len(s.log) : t.log[k] = s.log[k]
    BY <1>1, <1>3, <1>4, CollectKeeps
  <1>6. t = Streamed(r.tokens, r.seed, r.budget, r.stops) /\ Log(r) = t.log
    BY <1>1, <1>2, <1>4 DEF Streamed, Flushed, Log
  <1>7. IsExact(t) /\ t.log \in Seq(LogEntry)
    BY <1>6 DEF ReplyIsExact, StreamIsExact
  <1>8. PICK c : IsAccount(t.log, c) /\ c[Len(t.log)] = [rec |-> t.rec, thought |-> t.thought]
    BY <1>5 DEF Collected
  <1>9. t.log[Len(t.log)].reply = Reply(t.e.raw, t.seed, t.e.forced)
    BY <1>5 DEF Collected
  <1>10. IsPrefix(t.rec.emitted, t.log[Len(t.log)].reply.text) /\ t.thought = t.log[Len(t.log)].reply.reasoning
    BY <1>7, <1>9 DEF IsExact, IsReconciled
  <1>11. t.log[IF Len(t.log) = 1 THEN 1 ELSE Len(t.log) - 1].reply = t.log[Len(t.log)].reply
    <2>1. CASE Len(s.log) = 0
      BY <1>5, <2>1
    <2>2. CASE Len(s.log) # 0
      <3>1. s.log[Len(s.log)].reply = Reply(s.e.raw, s.seed, s.e.forced) /\ t.log[Len(s.log)] = s.log[Len(s.log)]
        BY <1>1, <1>5, <2>2 DEF Collected
      <3>2. Len(t.log) # 1 /\ Len(t.log) - 1 = Len(s.log)
        BY <1>5, <2>2
      <3> QED BY <1>3, <1>5, <1>9, <3>1, <3>2
    <2> QED BY <2>1, <2>2
  <1>12. \E a : /\ IsAccount(t.log, a)
                /\ IsPrefix(a[Len(t.log)].rec.emitted, t.log[Len(t.log)].reply.text)
                /\ a[Len(t.log)].thought = t.log[Len(t.log)].reply.reasoning
    BY <1>8, <1>10
  <1>13. ExactLog(t.log)
    <2>1. Len(t.log) > 0
      BY <1>5
    <2> QED BY <1>7, <1>11, <1>12, <2>1 DEF ExactLog
  <1> QED BY <1>6, <1>13
-----------------------------------------------------------------------------
(* Beginnings of texts.                                                        *)

LEMMA PrefixIs ==
    ASSUME NEW S, NEW s \in Seq(S), NEW t \in Seq(S)
    PROVE  IsPrefix(s, t) <=> (Len(s) <= Len(t) /\ \A i \in 1..Len(s) : s[i] = t[i])
  <1>1. ASSUME Len(s) <= Len(t)
        PROVE  (SubSeq(s, 1, Len(s)) = SubSeq(t, 1, Len(s))) <=> \A i \in 1..Len(s) : s[i] = t[i]
    <2>0. PICK u : u = SubSeq(t, 1, Len(s))
      OBVIOUS
    <2>1. u \in Seq(S) /\ u = SubSeq(t, 1, Len(s)) /\ Len(u) = Len(s) /\ \A i \in 1..Len(s) : u[i] = t[i]
      <3>1. \A i \in 1..Len(s) : t[i] \in S
        BY <1>1
      <3>2. u \in Seq(S)
        BY <2>0, <3>1, SubSeqProperties
      <3> QED BY <1>1, <2>0, <3>2
    <2>2. SubSeq(s, 1, Len(s)) = s
      OBVIOUS
    <2>3. (s = u) <=> \A i \in 1..Len(s) : s[i] = u[i]
      BY <2>1, SeqEqual
    <2> QED BY <2>1, <2>2, <2>3
  <1> QED BY <1>1 DEF IsPrefix

LEMMA PrefixRefl ==
    ASSUME NEW S, NEW s \in Seq(S)
    PROVE  IsPrefix(s, s)
  BY PrefixIs

LEMMA PrefixEmpty ==
    ASSUME NEW S, NEW s \in Seq(S)
    PROVE  IsPrefix(<<>>, s)
  <1>1. Len(<<>>) = 0 /\ SubSeq(<<>>, 1, 0) = <<>> /\ SubSeq(s, 1, 0) = <<>> /\ 0 <= Len(s)
    OBVIOUS
  <1> QED BY <1>1 DEF IsPrefix

LEMMA PrefixTrans ==
    ASSUME NEW S, NEW s \in Seq(S), NEW t \in Seq(S), NEW u \in Seq(S), IsPrefix(s, t), IsPrefix(t, u)
    PROVE  IsPrefix(s, u)
  <1>1. Len(s) \in Nat /\ Len(t) \in Nat /\ Len(u) \in Nat
    OBVIOUS
  <1>2. Len(s) <= Len(t) /\ \A i \in 1..Len(s) : s[i] = t[i]
    BY PrefixIs
  <1>3. Len(t) <= Len(u) /\ \A i \in 1..Len(t) : t[i] = u[i]
    BY PrefixIs
  <1>4. Len(s) <= Len(u) /\ \A i \in 1..Len(s) : s[i] = u[i]
    BY <1>1, <1>2, <1>3
  <1> QED BY <1>4, PrefixIs

LEMMA PrefixMore ==
    ASSUME NEW S, NEW s \in Seq(S), NEW t \in Seq(S)
    PROVE  s \o t \in Seq(S) /\ IsPrefix(s, s \o t)
  <1>1. s \o t \in Seq(S) /\ Len(s) <= Len(s \o t) /\ \A i \in 1..Len(s) : s[i] = (s \o t)[i]
    BY ConcatProperties
  <1> QED BY <1>1, PrefixIs

(* What follows a beginning completes it.                                      *)
LEMMA PrefixRest ==
    ASSUME NEW S, NEW s \in Seq(S), NEW t \in Seq(S), IsPrefix(s, t)
    PROVE  From(t, Len(s) + 1) \in Seq(S) /\ s \o From(t, Len(s) + 1) = t
  <1>1. Len(s) \in Nat /\ Len(t) \in Nat /\ Len(s) <= Len(t) /\ \A i \in 1..Len(s) : s[i] = t[i]
    BY PrefixIs
  <1>2. PICK u : u = SubSeq(t, Len(s) + 1, Len(t))
    OBVIOUS
  <1>3. u \in Seq(S) /\ Len(u) = Len(t) - Len(s) /\ \A i \in 1..(Len(t) - Len(s)) : u[i] = t[Len(s) + i]
    <2>1. \A i \in (Len(s) + 1)..Len(t) : t[i] \in S
      BY <1>1
    <2>2. u \in Seq(S)
      BY <1>1, <1>2, <2>1, SubSeqProperties
    <2> QED BY <1>1, <1>2, <2>2
  <1>0. PICK v : v = s \o u
    OBVIOUS
  <1>4. /\ v \in Seq(S) /\ v = s \o u /\ Len(v) = Len(t)
        /\ \A i \in 1..Len(t) : v[i] = IF i <= Len(s) THEN s[i] ELSE u[i - Len(s)]
    <2>1. s \o u \in Seq(S)
      BY <1>3, ConcatProperties
    <2> QED BY <1>0, <1>1, <1>3, <2>1
  <1>5. \A i \in 1..Len(t) : v[i] = t[i]
    BY <1>1, <1>3, <1>4
  <1>6. v = t
    BY <1>4, <1>5, SeqEqual
  <1> QED BY <1>2, <1>3, <1>4, <1>6 DEF From

LEMMA ConcatEmpty ==
    ASSUME NEW S, NEW s \in Seq(S)
    PROVE  s \o <<>> = s
  BY ConcatEmptySeq

-----------------------------------------------------------------------------
(* The account of an exact log, segment by segment.                            *)

Segs == [kind : {"text", "reasoning", "tool"}, text : Seq(Symbols)]
Recs == [emitted : Seq(Symbols), withhold : BOOLEAN]

EndOf(L) == L[Len(L)].reply

IsExactAccount(L, c) ==
    /\ IsAccount(L, c)
    /\ IsPrefix(c[Len(L)].rec.emitted, EndOf(L).text)
    /\ c[Len(L)].thought = EndOf(L).reasoning

Account(L) == CHOOSE c : IsExactAccount(L, c)

(* Reconciler and reasoning after i segments of the entry k. *)
After(L, k, i) ==
    [rec     |-> FoldLeft(Observe, Account(L)[k - 1].rec, SubSeq(L[k].out, 1, i)),
     thought |-> FoldLeft(Thinks, Account(L)[k - 1].thought, SubSeq(L[k].out, 1, i))]

LEMMA AccountIs ==
    ASSUME NEW L, ExactLog(L)
    PROVE  IsExactAccount(L, Account(L))
  <1>1. \E c : IsExactAccount(L, c)
    BY DEF ExactLog, IsExactAccount, EndOf
  <1> QED BY <1>1 DEF Account

LEMMA LogIs ==
    ASSUME NEW L, ExactLog(L)
    PROVE  /\ L \in Seq(LogEntry) /\ Len(L) \in Nat /\ Len(L) > 0
           /\ EndOf(L).text \in Seq(Symbols) /\ EndOf(L).reasoning \in Seq(Symbols) /\ EndOf(L).calls \in Seq(Valid)
           /\ \A k \in 1..Len(L) : L[k].out \in Seq(Segs)
  <1>1. L \in Seq(LogEntry) /\ Len(L) > 0
    BY DEF ExactLog
  <1>2. \A k \in 1..Len(L) : L[k] \in LogEntry
    BY <1>1
  <1>3. \A x \in LogEntry : /\ x.out \in Seq(Segs) /\ x.reply.text \in Seq(Symbols)
                            /\ x.reply.reasoning \in Seq(Symbols) /\ x.reply.calls \in Seq(Valid)
    BY DEF LogEntry, Segs
  <1>4. Len(L) \in Nat /\ Len(L) \in 1..Len(L)
    BY <1>1
  <1> QED BY <1>1, <1>2, <1>3, <1>4 DEF EndOf

(* What one segment does. *)
LEMMA SegmentAdds ==
    ASSUME NEW rec \in Recs, NEW t \in Seq(Symbols), NEW seg \in Segs
    PROVE  /\ Observe(rec, seg) \in Recs /\ Thinks(t, seg) \in Seq(Symbols)
           /\ IsPrefix(rec.emitted, Observe(rec, seg).emitted) /\ IsPrefix(t, Thinks(t, seg))
  <1>1. rec.emitted \in Seq(Symbols) /\ seg.text \in Seq(Symbols)
    BY DEF Recs, Segs
  <1>2. IsPrefix(rec.emitted, rec.emitted) /\ IsPrefix(t, t)
    BY <1>1, PrefixRefl
  <1>3. /\ rec.emitted \o seg.text \in Seq(Symbols) /\ IsPrefix(rec.emitted, rec.emitted \o seg.text)
        /\ t \o seg.text \in Seq(Symbols) /\ IsPrefix(t, t \o seg.text)
    BY <1>1, PrefixMore
  <1>4. /\ Observe(rec, seg) \in {rec, [rec EXCEPT !.withhold = TRUE], [rec EXCEPT !.emitted = rec.emitted \o seg.text]}
        /\ Thinks(t, seg) \in {t, t \o seg.text}
    BY DEF Observe, Thinks
  <1>5. [rec EXCEPT !.withhold = TRUE] \in Recs /\ [rec EXCEPT !.withhold = TRUE].emitted = rec.emitted
    BY DEF Recs
  <1>6. PICK u : u = rec.emitted \o seg.text
    OBVIOUS
  <1>7. [rec EXCEPT !.emitted = u] \in Recs /\ [rec EXCEPT !.emitted = u].emitted = u
    BY <1>3, <1>6 DEF Recs
  <1> QED BY <1>2, <1>3, <1>4, <1>5, <1>6, <1>7

(* The segments of one entry, from any state. *)
Ran(rec, t, out, i) ==
    [rec |-> FoldLeft(Observe, rec, SubSeq(out, 1, i)), thought |-> FoldLeft(Thinks, t, SubSeq(out, 1, i))]

LEMMA RanStart ==
    ASSUME NEW rec, NEW t, NEW out \in Seq(Segs)
    PROVE  Ran(rec, t, out, 0) = [rec |-> rec, thought |-> t]
  <1>1. SubSeq(out, 1, 0) = <<>>
    OBVIOUS
  <1>2. FoldLeft(Observe, rec, <<>>) = rec /\ FoldLeft(Thinks, t, <<>>) = t
    BY RecEmpty, ThinkEmpty
  <1> QED BY <1>1, <1>2 DEF Ran

LEMMA RanStep ==
    ASSUME NEW rec, NEW t, NEW out \in Seq(Segs), NEW i \in Nat, i < Len(out)
    PROVE  Ran(rec, t, out, i + 1) = [rec     |-> Observe(Ran(rec, t, out, i).rec, out[i + 1]),
                                      thought |-> Thinks(Ran(rec, t, out, i).thought, out[i + 1])]
  <1>0. SubSeq(out, 1, i) \in Seq(Segs)
    <2>1. \A m \in 1..i : out[m] \in Segs
      OBVIOUS
    <2> QED BY <2>1, SubSeqProperties
  <1>1. PICK q : q = SubSeq(out, 1, i) /\ q \in Seq(Segs)
    BY <1>0
  <1>2. out[i + 1] \in Segs /\ SubSeq(out, 1, i + 1) = Append(q, out[i + 1])
    BY <1>1
  <1>3. /\ FoldLeft(Observe, rec, Append(q, out[i + 1])) = Observe(FoldLeft(Observe, rec, q), out[i + 1])
        /\ FoldLeft(Thinks, t, Append(q, out[i + 1])) = Thinks(FoldLeft(Thinks, t, q), out[i + 1])
    BY <1>1, <1>2, RecAppend, ThinkAppend
  <1> QED BY <1>1, <1>2, <1>3 DEF Ran

(* They are typed and only add. *)
LEMMA RanGrows ==
    ASSUME NEW rec \in Recs, NEW t \in Seq(Symbols), NEW out \in Seq(Segs), NEW n \in Nat, n <= Len(out)
    PROVE  /\ Ran(rec, t, out, n).rec \in Recs /\ Ran(rec, t, out, n).thought \in Seq(Symbols)
           /\ \A i \in 0..n : /\ Ran(rec, t, out, i).rec \in Recs /\ Ran(rec, t, out, i).thought \in Seq(Symbols)
                              /\ IsPrefix(Ran(rec, t, out, i).rec.emitted, Ran(rec, t, out, n).rec.emitted)
                              /\ IsPrefix(Ran(rec, t, out, i).thought, Ran(rec, t, out, n).thought)
  <1> DEFINE R(i) == Ran(rec, t, out, i)
             G(i) == R(i).rec \in Recs /\ R(i).thought \in Seq(Symbols)
             B(i, m) == IsPrefix(R(i).rec.emitted, R(m).rec.emitted) /\ IsPrefix(R(i).thought, R(m).thought)
             P == {m \in Nat : m <= n => \A i \in 0..m : G(i) /\ B(i, m)}
  <1>0. \A x \in Recs : x.emitted \in Seq(Symbols)
    BY DEF Recs
  <1>1. 0 \in P
    <2>1. R(0).rec = rec /\ R(0).thought = t
      BY RanStart
    <2>2. G(0) /\ B(0, 0)
      BY <1>0, <2>1, PrefixRefl
    <2> QED BY <2>2
  <1>2. ASSUME NEW m \in Nat, m < n, m \in P PROVE m + 1 \in P
    <2>1. G(m) /\ m \in 0..m
      BY <1>2
    <2>2. out[m + 1] \in Segs /\ m < Len(out)
      BY <1>2
    <2>3. R(m + 1).rec = Observe(R(m).rec, out[m + 1]) /\ R(m + 1).thought = Thinks(R(m).thought, out[m + 1])
      <3>1. R(m + 1) = [rec |-> Observe(R(m).rec, out[m + 1]), thought |-> Thinks(R(m).thought, out[m + 1])]
        BY <2>2, RanStep
      <3> HIDE DEF R
      <3> QED BY <3>1
    <2>4. G(m + 1) /\ B(m, m + 1)
      <3>1. PICK x \in Recs : x = R(m).rec
        BY <2>1
      <3>2. PICK y \in Seq(Symbols) : y = R(m).thought
        BY <2>1
      <3>3. /\ Observe(x, out[m + 1]) \in Recs /\ Thinks(y, out[m + 1]) \in Seq(Symbols)
            /\ IsPrefix(x.emitted, Observe(x, out[m + 1]).emitted) /\ IsPrefix(y, Thinks(y, out[m + 1]))
        BY <2>2, SegmentAdds
      <3> HIDE DEF R
      <3> QED BY <2>3, <3>1, <3>2, <3>3
    <2>5. B(m + 1, m + 1)
      BY <1>0, <2>4, PrefixRefl
    <2>6. ASSUME NEW i \in 0..m PROVE G(i) /\ B(i, m + 1)
      <3>1. G(i) /\ B(i, m)
        BY <1>2
      <3> HIDE DEF R
      <3> QED BY <1>0, <2>1, <2>4, <3>1, PrefixTrans
    <2>7. \A i \in 0..(m + 1) : i \in 0..m \/ i = m + 1
      OBVIOUS
    <2> HIDE DEF G, B
    <2> QED BY <2>4, <2>5, <2>6, <2>7
  <1>3. n \in P
    <2> HIDE DEF P
    <2> QED BY <1>1, <1>2, UpTo
  <1>4. n <= n /\ n \in 0..n
    OBVIOUS
  <1>5. \A i \in 0..n : G(i) /\ B(i, n)
    <2> HIDE DEF G, B
    <2> QED BY <1>3, <1>4
  <1> QED BY <1>4, <1>5

(* Where the account stands after i segments of what the entry k says; an      *)
(* entry that says nothing is streamed as one empty segment.                   *)
Goes(L, k, o) ==
    /\ o \in Seq(Segs)
    /\ Ran(Account(L)[k - 1].rec, Account(L)[k - 1].thought, o, Len(o)) = Account(L)[k]

At(L, k, o, i) == Ran(Account(L)[k - 1].rec, Account(L)[k - 1].thought, o, i)

Standing(x) == x.rec \in Recs /\ x.thought \in Seq(Symbols)

(* x is not beyond y. *)
Within(x, y) == IsPrefix(x.rec.emitted, y.rec.emitted) /\ IsPrefix(x.thought, y.thought)

LEMMA WithinTrans ==
    ASSUME NEW x, NEW y, NEW z, Standing(x), Standing(y), Standing(z), Within(x, y), Within(y, z)
    PROVE  Within(x, z)
  <1>1. \A r \in Recs : r.emitted \in Seq(Symbols)
    BY DEF Recs
  <1> QED BY <1>1, PrefixTrans DEF Standing, Within

LEMMA WithinRefl ==
    ASSUME NEW x, Standing(x)
    PROVE  Within(x, x)
  <1>1. \A r \in Recs : r.emitted \in Seq(Symbols)
    BY DEF Recs
  <1> QED BY <1>1, PrefixRefl DEF Standing, Within

LEMMA RanWithin ==
    ASSUME NEW rec \in Recs, NEW t \in Seq(Symbols), NEW o \in Seq(Segs), NEW i \in 0..Len(o)
    PROVE  /\ Standing(Ran(rec, t, o, i)) /\ Standing(Ran(rec, t, o, Len(o)))
           /\ Within(Ran(rec, t, o, i), Ran(rec, t, o, Len(o)))
  <1>1. Len(o) \in Nat /\ Len(o) <= Len(o)
    OBVIOUS
  <1> QED BY <1>1, RanGrows DEF Standing, Within

LEMMA AccountStep ==
    ASSUME NEW L, ExactLog(L), NEW k \in 1..Len(L)
    PROVE  Goes(L, k, L[k].out)
  <1>1. IsAccount(L, Account(L))
    BY AccountIs DEF IsExactAccount
  <1>2. PICK o \in Seq(Segs) : o = L[k].out
    BY LogIs
  <1>3. SubSeq(o, 1, Len(o)) = o
    OBVIOUS
  <1>4. PICK c : c = Account(L)
    OBVIOUS
  <1>5. c[k] = [rec     |-> FoldLeft(Observe, c[k - 1].rec, o),
                thought |-> FoldLeft(Thinks, c[k - 1].thought, o)]
    BY <1>1, <1>2, <1>4 DEF IsAccount
  <1>6. Ran(c[k - 1].rec, c[k - 1].thought, o, Len(o)) = c[k]
    BY <1>3, <1>5 DEF Ran
  <1> QED BY <1>2, <1>4, <1>6 DEF Goes

(* The account is typed and never beyond the reply. *)
LEMMA AccountGrowsOn ==
    ASSUME NEW L, ExactLog(L)
    PROVE  /\ Account(L)[0] = [rec |-> Reconciler, thought |-> <<>>]
           /\ \A k \in 0..Len(L) : Standing(Account(L)[k]) /\ Within(Account(L)[k], Account(L)[Len(L)])
  <1>1. PICK c : c = Account(L)
    OBVIOUS
  <1>2. c[0] = [rec |-> Reconciler, thought |-> <<>>]
    BY <1>1, AccountIs DEF IsExactAccount, IsAccount
  <1>3. PICK n \in Nat : n = Len(L)
    BY LogIs
  <1> DEFINE P == {m \in Nat : m <= n => \A k \in 0..m : Standing(c[k]) /\ Within(c[k], c[m])}
  <1>4. Standing(c[0])
    <2>1. <<>> \in Seq(Symbols)
      OBVIOUS
    <2>2. Reconciler \in Recs
      BY <2>1 DEF Reconciler, Recs
    <2> QED BY <1>2, <2>1, <2>2 DEF Standing
  <1>5. 0 \in P
    <2>1. Within(c[0], c[0])
      BY <1>4, WithinRefl
    <2> QED BY <1>4, <2>1
  <1>6. ASSUME NEW m \in Nat, m < n, m \in P PROVE m + 1 \in P
    <2>1. m \in 0..m /\ m + 1 \in 1..n /\ (m + 1) - 1 = m
      BY <1>6
    <2>2. \A k \in 0..m : Standing(c[k]) /\ Within(c[k], c[m])
      BY <1>6
    <2>3. PICK o \in Seq(Segs) : Ran(c[m].rec, c[m].thought, o, Len(o)) = c[m + 1]
      <3>1. Goes(L, m + 1, L[m + 1].out)
        BY <1>3, <2>1, AccountStep
      <3> QED BY <1>1, <2>1, <3>1 DEF Goes
    <2>4. c[m].rec \in Recs /\ c[m].thought \in Seq(Symbols)
      BY <2>1, <2>2 DEF Standing
    <2>5. Ran(c[m].rec, c[m].thought, o, 0) = [rec |-> c[m].rec, thought |-> c[m].thought]
      BY RanStart
    <2>6. PICK z : z = Ran(c[m].rec, c[m].thought, o, 0)
      OBVIOUS
    <2>7. z.rec = c[m].rec /\ z.thought = c[m].thought
      BY <2>5, <2>6
    <2>8. 0 \in 0..Len(o)
      OBVIOUS
    <2>9. Standing(c[m + 1]) /\ Within(z, c[m + 1])
      BY <2>3, <2>4, <2>6, <2>8, RanWithin
    <2>10. Within(c[m], c[m + 1])
      BY <2>7, <2>9 DEF Within
    <2>11. ASSUME NEW k \in 0..(m + 1) PROVE Standing(c[k]) /\ Within(c[k], c[m + 1])
      <3>1. CASE k = m + 1
        BY <2>9, <3>1, WithinRefl
      <3>2. CASE k # m + 1
        <4>1. k \in 0..m
          BY <3>2
        <4> QED BY <2>1, <2>2, <2>9, <2>10, <4>1, WithinTrans
      <3> QED BY <3>1, <3>2
    <2> QED BY <2>11
  <1>7. n \in P
    <2> HIDE DEF P
    <2> QED BY <1>5, <1>6, UpTo
  <1> QED BY <1>1, <1>2, <1>3, <1>7

Reaches(L, x) ==
    /\ Standing(x) /\ x.rec.emitted \in Seq(Symbols)
    /\ IsPrefix(x.rec.emitted, EndOf(L).text) /\ IsPrefix(x.thought, EndOf(L).reasoning)

LEMMA AccountReaches ==
    ASSUME NEW L, ExactLog(L)
    PROVE  /\ \A k \in 0..Len(L) : Reaches(L, Account(L)[k])
           /\ Account(L)[Len(L)].thought = EndOf(L).reasoning
  <1>1. PICK c : c = Account(L)
    OBVIOUS
  <1>2. IsPrefix(c[Len(L)].rec.emitted, EndOf(L).text) /\ c[Len(L)].thought = EndOf(L).reasoning
    BY <1>1, AccountIs DEF IsExactAccount
  <1>3. \A r \in Recs : r.emitted \in Seq(Symbols)
    BY DEF Recs
  <1>4. EndOf(L).text \in Seq(Symbols) /\ Len(L) \in Nat
    BY LogIs
  <1>5. \A k \in 0..Len(L) : Standing(c[k]) /\ Within(c[k], c[Len(L)])
    BY <1>1, AccountGrowsOn
  <1>6. ASSUME NEW k \in 0..Len(L) PROVE Reaches(L, c[k])
    <2>1. Standing(c[k]) /\ Within(c[k], c[Len(L)]) /\ Standing(c[Len(L)])
      BY <1>4, <1>5
    <2>2. c[k].rec.emitted \in Seq(Symbols) /\ c[Len(L)].rec.emitted \in Seq(Symbols)
      BY <1>3, <2>1 DEF Standing
    <2>3. IsPrefix(c[k].rec.emitted, EndOf(L).text)
      BY <1>2, <1>4, <2>1, <2>2, PrefixTrans DEF Within
    <2>4. IsPrefix(c[k].thought, EndOf(L).reasoning)
      BY <1>2, <2>1 DEF Within
    <2> QED BY <2>1, <2>2, <2>3, <2>4 DEF Reaches
  <1> QED BY <1>1, <1>2, <1>6

(* The same for every standing in between. *)
LEMMA AtFacts ==
    ASSUME NEW L, ExactLog(L), NEW k \in 1..Len(L), NEW o, Goes(L, k, o)
    PROVE  /\ o \in Seq(Segs)
           /\ At(L, k, o, 0) = Account(L)[k - 1] /\ At(L, k, o, Len(o)) = Account(L)[k]
           /\ \A i \in 0..Len(o) : Reaches(L, At(L, k, o, i))
           /\ \A i \in 0..(Len(o) - 1) :
                 At(L, k, o, i + 1) = [rec     |-> Observe(At(L, k, o, i).rec, o[i + 1]),
                                       thought |-> Thinks(At(L, k, o, i).thought, o[i + 1])]
  <1>1. PICK c : c = Account(L)
    OBVIOUS
  <1>2. o \in Seq(Segs) /\ Ran(c[k - 1].rec, c[k - 1].thought, o, Len(o)) = c[k]
    BY <1>1 DEF Goes
  <1>3. k - 1 \in 0..Len(L) /\ k \in 0..Len(L)
    BY LogIs
  <1>4. Reaches(L, c[k - 1]) /\ Reaches(L, c[k])
    BY <1>1, <1>3, AccountReaches
  <1>5. c[k - 1].rec \in Recs /\ c[k - 1].thought \in Seq(Symbols) /\ Standing(c[k])
    BY <1>4 DEF Reaches, Standing
  <1>6. c[k - 1] = [rec |-> c[k - 1].rec, thought |-> c[k - 1].thought]
    <2>1. CASE k - 1 = 0
      BY <1>1, <2>1, AccountGrowsOn
    <2>2. CASE k - 1 # 0
      <3>1. k - 1 \in 1..Len(L)
        BY <1>3, <2>2
      <3>2. Goes(L, k - 1, L[k - 1].out)
        BY <3>1, AccountStep
      <3> QED BY <1>1, <3>2 DEF Goes, Ran
    <2> QED BY <2>1, <2>2
  <1>7. Ran(c[k - 1].rec, c[k - 1].thought, o, 0) = c[k - 1]
    BY <1>2, <1>6, RanStart
  <1>8. ASSUME NEW i \in 0..Len(o) PROVE Reaches(L, Ran(c[k - 1].rec, c[k - 1].thought, o, i))
    <2>1. PICK x : x = Ran(c[k - 1].rec, c[k - 1].thought, o, i)
      OBVIOUS
    <2>2. Standing(x) /\ Within(x, c[k])
      BY <1>2, <1>5, <2>1, RanWithin
    <2>3. \A r \in Recs : r.emitted \in Seq(Symbols)
      BY DEF Recs
    <2>4. EndOf(L).text \in Seq(Symbols) /\ EndOf(L).reasoning \in Seq(Symbols)
      BY LogIs
    <2>5. x.rec.emitted \in Seq(Symbols) /\ x.thought \in Seq(Symbols)
      BY <2>2, <2>3 DEF Standing
    <2>6. c[k].rec.emitted \in Seq(Symbols) /\ c[k].thought \in Seq(Symbols)
      BY <1>5, <2>3 DEF Standing
    <2>7. IsPrefix(x.rec.emitted, c[k].rec.emitted) /\ IsPrefix(x.thought, c[k].thought)
      BY <2>2 DEF Within
    <2>8. IsPrefix(c[k].rec.emitted, EndOf(L).text) /\ IsPrefix(c[k].thought, EndOf(L).reasoning)
      BY <1>4 DEF Reaches
    <2>9. IsPrefix(x.rec.emitted, EndOf(L).text) /\ IsPrefix(x.thought, EndOf(L).reasoning)
      BY <2>4, <2>5, <2>6, <2>7, <2>8, PrefixTrans
    <2> QED BY <2>1, <2>2, <2>5, <2>9 DEF Reaches
  <1>9. ASSUME NEW i \in 0..(Len(o) - 1)
        PROVE  Ran(c[k - 1].rec, c[k - 1].thought, o, i + 1)
                 = [rec     |-> Observe(Ran(c[k - 1].rec, c[k - 1].thought, o, i).rec, o[i + 1]),
                    thought |-> Thinks(Ran(c[k - 1].rec, c[k - 1].thought, o, i).thought, o[i + 1])]
    <2>1. i \in Nat /\ i < Len(o)
      BY <1>2
    <2> QED BY <1>2, <2>1, RanStep
  <1> QED BY <1>1, <1>2, <1>7, <1>8, <1>9 DEF At

(* One empty segment changes nothing. *)
LEMMA GoesOnNothing ==
    ASSUME NEW L, ExactLog(L), NEW k \in 1..Len(L), L[k].out = <<>>
    PROVE  Goes(L, k, <<Segment("text", <<>>)>>)
  <1>1. PICK seg : seg = Segment("text", <<>>)
    OBVIOUS
  <1>2. seg.kind = "text" /\ seg.text = <<>> /\ seg \in Segs
    BY <1>1 DEF Segment, Segs
  <1>3. PICK o : o = <<seg>>
    OBVIOUS
  <1>4. o \in Seq(Segs) /\ Len(o) = 1 /\ o[1] = seg
    BY <1>2, <1>3
  <1>5. PICK c : c = Account(L)
    OBVIOUS
  <1>6. Goes(L, k, L[k].out)
    BY AccountStep
  <1>7. Len(<<>>) = 0 /\ <<>> \in Seq(Segs)
    OBVIOUS
  <1>8. Ran(c[k - 1].rec, c[k - 1].thought, <<>>, 0) = c[k]
    BY <1>5, <1>6, <1>7 DEF Goes
  <1>9. c[k] = [rec |-> c[k - 1].rec, thought |-> c[k - 1].thought]
    BY <1>7, <1>8, RanStart
  <1>10. k - 1 \in 0..Len(L)
    BY LogIs
  <1>11. c[k - 1].rec \in Recs /\ c[k - 1].thought \in Seq(Symbols)
    BY <1>5, <1>10, AccountReaches DEF Reaches, Standing
  <1>12. PICK rec \in Recs : rec = c[k - 1].rec
    BY <1>11
  <1>13. PICK t \in Seq(Symbols) : t = c[k - 1].thought
    BY <1>11
  <1>14. Ran(rec, t, o, 0) = [rec |-> rec, thought |-> t]
    BY <1>4, RanStart
  <1>15. Ran(rec, t, o, 1) = [rec |-> Observe(rec, seg), thought |-> Thinks(t, seg)]
    <2>1. 0 \in Nat /\ 0 < Len(o) /\ 0 + 1 = 1
      BY <1>4
    <2>2. Ran(rec, t, o, 0 + 1) = [rec |-> Observe(Ran(rec, t, o, 0).rec, o[0 + 1]),
                                   thought |-> Thinks(Ran(rec, t, o, 0).thought, o[0 + 1])]
      BY <1>4, <2>1, RanStep
    <2> QED BY <1>4, <1>14, <2>1, <2>2
  <1>16. Thinks(t, seg) = t
    BY <1>2 DEF Thinks
  <1>17. Observe(rec, seg) = rec
    <2>1. rec.emitted \o <<>> = rec.emitted
      <3>1. rec.emitted \in Seq(Symbols)
        BY DEF Recs
      <3> QED BY <3>1, ConcatEmpty
    <2>2. [rec EXCEPT !.emitted = rec.emitted] = rec
      BY DEF Recs
    <2> QED BY <1>2, <2>1, <2>2 DEF Observe
  <1> QED BY <1>1, <1>3, <1>4, <1>5, <1>9, <1>12, <1>13, <1>15, <1>16, <1>17 DEF Goes

-----------------------------------------------------------------------------
(* The inductive invariant.                                                    *)

EventSet ==
    {Progress(n) : n \in Nat}
    \cup {Event(type, v) : type \in {"text", "reasoning"}, v \in Seq(Symbols)}
    \cup {Event("call", v) : v \in Valid}
    \cup {Event("error", why) : why \in {"cancelled", "failed"}}
    \cup {Event("completed", v) : v \in [text : Seq(Symbols), reasoning : Seq(Symbols),
                                         calls : Seq(Valid), n : Nat]}

(* The first m numbers of the progress. *)
Count(m) == [i \in 1..m |-> IF i <= 2 THEN 0 ELSE i - 2]

Typed(X) ==
    /\ X \in Seq(EventSet)
    /\ Of("text", X) \in Seq(Symbols) /\ Of("reasoning", X) \in Seq(Symbols)
    /\ Of("call", X) \in Seq(Valid) /\ Of("progress", X) \in Seq(Nat)

(* Events before the terminal one, for the reply q.log. *)
Calm(q, X) ==
    /\ Typed(X)
    /\ q.mode # "whole" =>
           /\ IsPrefix(Of("text", X), EndOf(q.log).text)
           /\ IsPrefix(Of("reasoning", X), EndOf(q.log).reasoning)
           /\ IsPrefix(Of("call", X), EndOf(q.log).calls)
    /\ q.mode = "native" => \E m \in Nat : Of("progress", X) = Count(m)
    /\ \A i \in 1..Len(X) : X[i].type \notin {"completed", "error"}

FullReply(L) == Numbered(EndOf(L), Len(L) - 1)

(* The terminal event fits what went before it. *)
Fits(q, X, e) ==
    \/ e = Event("error", "cancelled")
    \/ e = Event("error", "failed")
    \/ /\ e = Event("completed", FullReply(q.log))
       /\ q.mode # "whole" =>
              /\ Of("text", X) = EndOf(q.log).text
              /\ Of("reasoning", X) = EndOf(q.log).reasoning
              /\ Of("call", X) = EndOf(q.log).calls
       /\ q.mode = "native" => Of("progress", X) = Count(Len(q.log) + 1)

Sealed(q, X, e) == \E B : X = Append(B, e) /\ Calm(q, B) /\ Fits(q, B, e)

(* All that was sent, and whatever part of it was received. *)
History(q, X) ==
    /\ X \in Seq(EventSet)
    /\ \A m \in 0..Len(X) : m < Len(X) => Calm(q, SubSeq(X, 1, m))
    /\ Calm(q, X) \/ \E e : Sealed(q, X, e)

Stopping == {"cancel", "wait", "drop"}

JobOk(q, st, ch, cl, ca, us, g) ==
    /\ ch \in Seq(EventSet) /\ g \in Seq(EventSet) /\ Len(ch) <= Cap
    /\ st \in {"idle", "refused"} => ch = <<>> /\ g = <<>> /\ ~cl /\ ~ca /\ us = "none"
    /\ st \notin {"idle", "refused"} =>
           /\ ExactLog(q.log) /\ q.mode \in {"native", "rig", "whole"} /\ us # "none"
           /\ History(q, g \o ch)
    /\ st = "queued" => ch = <<>> /\ g = <<>>
    /\ st \in {"queued", "running"} => Calm(q, g \o ch)
    /\ us = "reading" => ~cl /\ ~ca
    /\ (cl /\ q.mode # "rig") => ca
    /\ us \in Stopping => ~cl /\ (q.mode # "rig" => ca)
    /\ us = "reading" /\ st = "ended" =>
           \E e : Sealed(q, g \o ch, e) /\ e # Event("error", "cancelled")

Cancelled(q, cl, ca) == ca \/ (cl /\ q.mode # "whole")

(* What was sent so far is what the account x and the m-th progress say.       *)
Sent(q, cl, X, rec, x, m) ==
    /\ rec = x.rec
    /\ cl \/ /\ Of("call", X) = <<>>
             /\ q.mode # "whole" => Of("text", X) = x.rec.emitted /\ Of("reasoning", X) = x.thought
             /\ q.mode = "native" => Of("progress", X) = Count(m)

(* The segments of o after the first i. *)
SegRest(o, i) == [m \in 1..(Len(o) - i) |-> [type |-> "segment", value |-> o[i + m]]]

(* The calls after the first m, and the whole reply. *)
CallRest(L, m) ==
    [i \in 1..(Len(EndOf(L).calls) - m + 1) |->
        IF i = Len(EndOf(L).calls) - m + 1 THEN Event("completed", FullReply(L))
        ELSE Event("call", EndOf(L).calls[m + i])]

(* Before the first token; progress of the entry k; its segments; the flush;   *)
(* a loop that was cut short.                                                  *)
Begins(w, q, cl, X) ==
    /\ w.phase = "decode" /\ w.at = 0
    /\ \E m \in 0..2 : /\ w.todo = [i \in 1..m |-> Progress(0)]
                       /\ Sent(q, cl, X, w.rec, Account(q.log)[0], 2 - m)

Counts(w, q, cl, X) ==
    /\ w.phase = "decode" /\ w.at \in 1..(Len(q.log) - 1)
    /\ \E o : /\ Goes(q.log, w.at, o)
              /\ w.todo = <<Progress(w.at)>> \o SegRest(o, 0)
              /\ Sent(q, cl, X, w.rec, Account(q.log)[w.at - 1], w.at + 1)

ShowsAt(q, cl, X, rec, todo, k, m) ==
    \E o : \E i \in 0..Len(o) :
        /\ Goes(q.log, k, o) /\ todo = SegRest(o, i)
        /\ Sent(q, cl, X, rec, At(q.log, k, o, i), m)

Shows(w, q, cl, X) ==
    /\ w.phase = "decode" /\ w.at \in 1..(Len(q.log) - 1)
    /\ ShowsAt(q, cl, X, w.rec, w.todo, w.at, w.at + 2)

Flushes(w, q, cl, X) ==
    /\ w.phase = "flush" /\ w.at = Len(q.log) - 1
    /\ ShowsAt(q, cl, X, w.rec, w.todo, Len(q.log), Len(q.log) + 1)

WasCut(w, q, cl, ca) == w.phase = "flush" /\ w.todo = <<>> /\ Cancelled(q, cl, ca)

(* The error; the whole reply; the rest of the answer; the calls. *)
Reports(w, q, cl, ca) ==
    /\ w.phase = "deliver"
    /\ \/ w.todo = <<Event("error", "failed")>>
       \/ w.todo = <<Event("error", "cancelled")>> /\ Cancelled(q, cl, ca)

Answers(w, q) ==
    w.phase = "deliver" /\ q.mode = "whole" /\ w.todo = <<Event("completed", FullReply(q.log))>>

(* Everything but the text was streamed. *)
Settled(q, X) ==
    /\ Of("reasoning", X) = EndOf(q.log).reasoning
    /\ q.mode = "native" => Of("progress", X) = Count(Len(q.log) + 1)

Completes(w, q, cl, X) ==
    /\ w.phase = "deliver" /\ q.mode # "whole"
    /\ \E rest \in Seq(Symbols) :
          /\ w.todo = <<Event("text", rest)>> \o CallRest(q.log, 0)
          /\ cl \/ /\ Settled(q, X) /\ Of("call", X) = <<>>
                   /\ Of("text", X) \o rest = EndOf(q.log).text

Calling(w, q, cl, X) ==
    /\ w.phase = "deliver" /\ q.mode # "whole"
    /\ \E m \in 0..Len(EndOf(q.log).calls) :
          /\ w.todo = CallRest(q.log, m)
          /\ cl \/ /\ Settled(q, X) /\ Of("text", X) = EndOf(q.log).text
                   /\ Of("call", X) = SubSeq(EndOf(q.log).calls, 1, m)

RunOk(w, q, cl, ca, X) ==
    \/ Begins(w, q, cl, X) \/ Counts(w, q, cl, X) \/ Shows(w, q, cl, X) \/ Flushes(w, q, cl, X)
    \/ WasCut(w, q, cl, ca)
    \/ Reports(w, q, cl, ca) \/ Answers(w, q) \/ Completes(w, q, cl, X) \/ Calling(w, q, cl, X)

Works == {"job", "phase", "at", "rec", "todo"}

Shapes ==
    /\ open \in BOOLEAN /\ thread \in BOOLEAN /\ faults \in 0..MaxFaults
    /\ queue \in Seq(Jobs) /\ Len(queue) <= QueueSize
    /\ DOMAIN request = Jobs /\ DOMAIN channel = Jobs /\ DOMAIN got = Jobs
    /\ \A j \in Jobs : /\ DOMAIN request[j] = {"mode", "log"}
                       /\ request[j].mode \in {"none", "native", "rig", "whole"}
    /\ state \in [Jobs -> {"idle", "refused", "queued", "running", "ended"}]
    /\ user \in [Jobs -> {"none", "reading", "cancelled", "waiting", "over"} \cup Leaves]
    /\ closed \in [Jobs -> BOOLEAN] /\ cancelled \in [Jobs -> BOOLEAN]

JobsOk ==
    \A j \in Jobs : JobOk(request[j], state[j], channel[j], closed[j], cancelled[j], user[j], got[j])

QueueOk ==
    /\ \A i \in 1..Len(queue) : state[queue[i]] = "queued"
    /\ \A i, k \in 1..Len(queue) : queue[i] = queue[k] => i = k

WorkOk ==
    work # NoWork =>
        /\ DOMAIN work = Works /\ work.job \in Jobs /\ state[work.job] = "running"
        /\ RunOk(work, request[work.job], closed[work.job], cancelled[work.job],
                 got[work.job] \o channel[work.job])

StreamsInv == Shapes /\ JobsOk /\ QueueOk /\ WorkOk

-----------------------------------------------------------------------------
(* Events.                                                                     *)

LEMMA EventSetHas ==
    /\ \A n \in Nat : Progress(n) \in EventSet
    /\ \A type \in {"text", "reasoning"}, v \in Seq(Symbols) : Event(type, v) \in EventSet
    /\ \A v \in Valid : Event("call", v) \in EventSet
    /\ Event("error", "cancelled") \in EventSet /\ Event("error", "failed") \in EventSet
    /\ \A L : ExactLog(L) => Event("completed", FullReply(L)) \in EventSet
  <1>1. ASSUME NEW L, ExactLog(L)
        PROVE  Event("completed", FullReply(L)) \in EventSet
    <2>1. Len(L) - 1 \in Nat /\ EndOf(L).text \in Seq(Symbols) /\ EndOf(L).reasoning \in Seq(Symbols)
          /\ EndOf(L).calls \in Seq(Valid)
      BY <1>1, LogIs
    <2>2. FullReply(L) \in [text : Seq(Symbols), reasoning : Seq(Symbols), calls : Seq(Valid), n : Nat]
      BY <2>1 DEF FullReply, Numbered
    <2> QED BY <2>2 DEF EventSet
  <1>2. \A n \in Nat : Progress(n) \in EventSet
    BY DEF EventSet
  <1>3. \A type \in {"text", "reasoning"}, v \in Seq(Symbols) : Event(type, v) \in EventSet
    BY DEF EventSet
  <1>4. \A v \in Valid : Event("call", v) \in EventSet
    BY DEF EventSet
  <1>5. Event("error", "cancelled") \in EventSet /\ Event("error", "failed") \in EventSet
    BY DEF EventSet
  <1> QED BY <1>1, <1>2, <1>3, <1>4, <1>5

LEMMA PieceOf ==
    /\ \A n : Piece("progress", Progress(n)) = <<n>>
    /\ \A n, type : type # "progress" => Piece(type, Progress(n)) = <<>>
    /\ \A v : /\ Piece("text", Event("text", v)) = v /\ Piece("reasoning", Event("reasoning", v)) = v
              /\ Piece("call", Event("call", v)) = <<v>>
    /\ \A type, other, v : type # other => Piece(type, Event(other, v)) = <<>>
  BY DEF Piece, Progress, Event

LEMMA OfMore ==
    ASSUME NEW X \in Seq(EventSet), NEW e \in EventSet, NEW type
    PROVE  Of(type, Append(X, e)) = Of(type, X) \o Piece(type, e)
  BY OfAppend DEF Joined

LEMMA TypedEmpty ==
    Typed(<<>>) /\ \A type : Of(type, <<>>) = <<>>
  <1>1. \A S : <<>> \in Seq(S)
    OBVIOUS
  <1> QED BY <1>1, OfEmpty DEF Typed

(* Each event says one thing. *)
LEMMA AddProgress ==
    ASSUME NEW X, Typed(X), NEW n \in Nat
    PROVE  /\ Typed(Append(X, Progress(n)))
           /\ Of("text", Append(X, Progress(n))) = Of("text", X)
           /\ Of("reasoning", Append(X, Progress(n))) = Of("reasoning", X)
           /\ Of("call", Append(X, Progress(n))) = Of("call", X)
           /\ Of("progress", Append(X, Progress(n))) = Append(Of("progress", X), n)
  <1>1. PICK e \in EventSet : e = Progress(n)
    BY EventSetHas
  <1>2. X \in Seq(EventSet)
    BY DEF Typed
  <1>3. PICK Y : Y = Append(X, e)
    OBVIOUS
  <1>4. Y \in Seq(EventSet)
    BY <1>2, <1>3, AppendProperties
  <1>5. \A type : Of(type, Y) = Of(type, X) \o Piece(type, e)
    BY <1>2, <1>3, OfMore
  <1>6. /\ Piece("progress", e) = <<n>> /\ Piece("text", e) = <<>> /\ Piece("reasoning", e) = <<>>
        /\ Piece("call", e) = <<>>
    BY <1>1, PieceOf
  <1>7. /\ Of("text", X) \o <<>> = Of("text", X) /\ Of("reasoning", X) \o <<>> = Of("reasoning", X)
        /\ Of("call", X) \o <<>> = Of("call", X)
    BY ConcatEmpty DEF Typed
  <1>8. PICK p \in Seq(Nat) : p = Of("progress", X)
    BY DEF Typed
  <1>9. p \o <<n>> = Append(p, n) /\ Append(p, n) \in Seq(Nat)
    OBVIOUS
  <1>10. Of("text", Y) = Of("text", X) /\ Of("reasoning", Y) = Of("reasoning", X) /\ Of("call", Y) = Of("call", X)
         /\ Of("progress", Y) = Append(p, n)
    BY <1>5, <1>6, <1>7, <1>8, <1>9
  <1>11. Typed(Y)
    BY <1>4, <1>9, <1>10 DEF Typed
  <1> QED BY <1>1, <1>3, <1>8, <1>10, <1>11

LEMMA AddText ==
    ASSUME NEW X, Typed(X), NEW v \in Seq(Symbols)
    PROVE  /\ Typed(Append(X, Event("text", v)))
           /\ Of("text", Append(X, Event("text", v))) = Of("text", X) \o v
           /\ Of("reasoning", Append(X, Event("text", v))) = Of("reasoning", X)
           /\ Of("call", Append(X, Event("text", v))) = Of("call", X)
           /\ Of("progress", Append(X, Event("text", v))) = Of("progress", X)
  <1>1. PICK e \in EventSet : e = Event("text", v)
    BY EventSetHas
  <1>2. X \in Seq(EventSet)
    BY DEF Typed
  <1>3. PICK Y : Y = Append(X, e)
    OBVIOUS
  <1>4. Y \in Seq(EventSet)
    BY <1>2, <1>3, AppendProperties
  <1>5. \A type : Of(type, Y) = Of(type, X) \o Piece(type, e)
    BY <1>2, <1>3, OfMore
  <1>6. /\ Piece("text", e) = v /\ Piece("progress", e) = <<>> /\ Piece("reasoning", e) = <<>>
        /\ Piece("call", e) = <<>>
    BY <1>1, PieceOf
  <1>7. /\ Of("progress", X) \o <<>> = Of("progress", X) /\ Of("reasoning", X) \o <<>> = Of("reasoning", X)
        /\ Of("call", X) \o <<>> = Of("call", X)
    BY ConcatEmpty DEF Typed
  <1>9. Of("text", X) \o v \in Seq(Symbols)
    BY ConcatProperties DEF Typed
  <1>10. Of("progress", Y) = Of("progress", X) /\ Of("reasoning", Y) = Of("reasoning", X) /\ Of("call", Y) = Of("call", X)
         /\ Of("text", Y) = Of("text", X) \o v
    BY <1>5, <1>6, <1>7
  <1>11. Typed(Y)
    BY <1>4, <1>9, <1>10 DEF Typed
  <1> QED BY <1>1, <1>3, <1>10, <1>11

LEMMA AddReasoning ==
    ASSUME NEW X, Typed(X), NEW v \in Seq(Symbols)
    PROVE  /\ Typed(Append(X, Event("reasoning", v)))
           /\ Of("text", Append(X, Event("reasoning", v))) = Of("text", X)
           /\ Of("reasoning", Append(X, Event("reasoning", v))) = Of("reasoning", X) \o v
           /\ Of("call", Append(X, Event("reasoning", v))) = Of("call", X)
           /\ Of("progress", Append(X, Event("reasoning", v))) = Of("progress", X)
  <1>1. PICK e \in EventSet : e = Event("reasoning", v)
    BY EventSetHas
  <1>2. X \in Seq(EventSet)
    BY DEF Typed
  <1>3. PICK Y : Y = Append(X, e)
    OBVIOUS
  <1>4. Y \in Seq(EventSet)
    BY <1>2, <1>3, AppendProperties
  <1>5. \A type : Of(type, Y) = Of(type, X) \o Piece(type, e)
    BY <1>2, <1>3, OfMore
  <1>6. /\ Piece("reasoning", e) = v /\ Piece("progress", e) = <<>> /\ Piece("text", e) = <<>>
        /\ Piece("call", e) = <<>>
    BY <1>1, PieceOf
  <1>7. /\ Of("progress", X) \o <<>> = Of("progress", X) /\ Of("text", X) \o <<>> = Of("text", X)
        /\ Of("call", X) \o <<>> = Of("call", X)
    BY ConcatEmpty DEF Typed
  <1>9. Of("reasoning", X) \o v \in Seq(Symbols)
    BY ConcatProperties DEF Typed
  <1>10. Of("progress", Y) = Of("progress", X) /\ Of("text", Y) = Of("text", X) /\ Of("call", Y) = Of("call", X)
         /\ Of("reasoning", Y) = Of("reasoning", X) \o v
    BY <1>5, <1>6, <1>7
  <1>11. Typed(Y)
    BY <1>4, <1>9, <1>10 DEF Typed
  <1> QED BY <1>1, <1>3, <1>10, <1>11

LEMMA AddCall ==
    ASSUME NEW X, Typed(X), NEW v \in Valid
    PROVE  /\ Typed(Append(X, Event("call", v)))
           /\ Of("text", Append(X, Event("call", v))) = Of("text", X)
           /\ Of("reasoning", Append(X, Event("call", v))) = Of("reasoning", X)
           /\ Of("call", Append(X, Event("call", v))) = Append(Of("call", X), v)
           /\ Of("progress", Append(X, Event("call", v))) = Of("progress", X)
  <1>1. PICK e \in EventSet : e = Event("call", v)
    BY EventSetHas
  <1>2. X \in Seq(EventSet)
    BY DEF Typed
  <1>3. PICK Y : Y = Append(X, e)
    OBVIOUS
  <1>4. Y \in Seq(EventSet)
    BY <1>2, <1>3, AppendProperties
  <1>5. \A type : Of(type, Y) = Of(type, X) \o Piece(type, e)
    BY <1>2, <1>3, OfMore
  <1>6. /\ Piece("call", e) = <<v>> /\ Piece("progress", e) = <<>> /\ Piece("text", e) = <<>>
        /\ Piece("reasoning", e) = <<>>
    BY <1>1, PieceOf
  <1>7. /\ Of("progress", X) \o <<>> = Of("progress", X) /\ Of("text", X) \o <<>> = Of("text", X)
        /\ Of("reasoning", X) \o <<>> = Of("reasoning", X)
    BY ConcatEmpty DEF Typed
  <1>8. PICK p \in Seq(Valid) : p = Of("call", X)
    BY DEF Typed
  <1>9. p \o <<v>> = Append(p, v) /\ Append(p, v) \in Seq(Valid)
    OBVIOUS
  <1>10. Of("progress", Y) = Of("progress", X) /\ Of("text", Y) = Of("text", X) /\ Of("reasoning", Y) = Of("reasoning", X)
         /\ Of("call", Y) = Append(p, v)
    BY <1>5, <1>6, <1>7, <1>8, <1>9
  <1>11. Typed(Y)
    BY <1>4, <1>9, <1>10 DEF Typed
  <1> QED BY <1>1, <1>3, <1>8, <1>10, <1>11

(* A terminal event says nothing of this. *)
LEMMA AddEnd ==
    ASSUME NEW X, Typed(X), NEW v, NEW last \in {"completed", "error"}, Event(last, v) \in EventSet
    PROVE  /\ Of("text", Append(X, Event(last, v))) = Of("text", X)
           /\ Of("reasoning", Append(X, Event(last, v))) = Of("reasoning", X)
           /\ Of("call", Append(X, Event(last, v))) = Of("call", X)
           /\ Of("progress", Append(X, Event(last, v))) = Of("progress", X)
  <1>1. PICK e \in EventSet : e = Event(last, v)
    OBVIOUS
  <1>2. X \in Seq(EventSet)
    BY DEF Typed
  <1>5. \A type : Of(type, Append(X, e)) = Of(type, X) \o Piece(type, e)
    BY <1>2, OfMore
  <1>6. /\ Piece("call", e) = <<>> /\ Piece("progress", e) = <<>> /\ Piece("text", e) = <<>>
        /\ Piece("reasoning", e) = <<>>
    BY <1>1, PieceOf
  <1>7. /\ Of("progress", X) \o <<>> = Of("progress", X) /\ Of("text", X) \o <<>> = Of("text", X)
        /\ Of("reasoning", X) \o <<>> = Of("reasoning", X) /\ Of("call", X) \o <<>> = Of("call", X)
    BY ConcatEmpty DEF Typed
  <1> QED BY <1>1, <1>5, <1>6, <1>7

LEMMA CountIs ==
    /\ Count(0) = <<>>
    /\ \A m \in Nat : /\ Count(m) \in Seq(Nat) /\ Len(Count(m)) = m
                      /\ \A i \in 1..m : Count(m)[i] = IF i <= 2 THEN 0 ELSE i - 2
    /\ Append(Count(0), 0) = Count(1) /\ Append(Count(1), 0) = Count(2)
    /\ \A m \in Nat : m >= 2 => Append(Count(m), m - 1) = Count(m + 1)
  <1>1. Count(0) = <<>>
    BY DEF Count
  <1>2. ASSUME NEW m \in Nat
        PROVE  /\ Count(m) \in Seq(Nat) /\ Len(Count(m)) = m
               /\ \A i \in 1..m : Count(m)[i] = IF i <= 2 THEN 0 ELSE i - 2
    <2>1. \A i \in 1..m : (IF i <= 2 THEN 0 ELSE i - 2) \in Nat
      OBVIOUS
    <2> QED BY <2>1 DEF Count
  <1>3. ASSUME NEW m \in Nat, NEW x \in Nat, x = IF m + 1 <= 2 THEN 0 ELSE (m + 1) - 2
        PROVE  Append(Count(m), x) = Count(m + 1)
    <2>1. PICK s : s = Append(Count(m), x)
      OBVIOUS
    <2>2. s \in Seq(Nat) /\ Len(s) = m + 1 /\ s[m + 1] = x /\ \A i \in 1..m : s[i] = Count(m)[i]
      <3>1. PICK c : c = Count(m)
        OBVIOUS
      <3>2. c \in Seq(Nat) /\ Len(c) = m
        BY <1>2, <3>1
      <3>3. /\ Append(c, x) \in Seq(Nat) /\ Len(Append(c, x)) = m + 1 /\ Append(c, x)[m + 1] = x
            /\ \A i \in 1..m : Append(c, x)[i] = c[i]
        BY <3>2, AppendProperties
      <3> QED BY <2>1, <3>1, <3>3
    <2>3. PICK t : t = Count(m + 1)
      OBVIOUS
    <2>4. t \in Seq(Nat) /\ Len(t) = m + 1 /\ \A i \in 1..(m + 1) : t[i] = IF i <= 2 THEN 0 ELSE i - 2
      <3>1. PICK k \in Nat : k = m + 1
        OBVIOUS
      <3>2. Count(k) \in Seq(Nat) /\ Len(Count(k)) = k /\ \A i \in 1..k : Count(k)[i] = IF i <= 2 THEN 0 ELSE i - 2
        BY <1>2
      <3> QED BY <2>3, <3>1, <3>2
    <2>5. ASSUME NEW i \in 1..(m + 1) PROVE s[i] = t[i]
      <3>1. CASE i = m + 1
        BY <1>3, <2>2, <2>4, <3>1
      <3>2. CASE i # m + 1
        <4>1. i \in 1..m
          BY <3>2
        <4> QED BY <1>2, <2>2, <2>4, <4>1
      <3> QED BY <3>1, <3>2
    <2>6. s = t
      BY <2>2, <2>4, <2>5, SeqEqual
    <2> QED BY <2>1, <2>3, <2>6
  <1>4. Append(Count(0), 0) = Count(1) /\ Append(Count(1), 0) = Count(2)
    <2>1. /\ 0 \in Nat /\ 1 \in Nat /\ 0 + 1 = 1 /\ 1 + 1 = 2
          /\ 0 = (IF 0 + 1 <= 2 THEN 0 ELSE (0 + 1) - 2) /\ 0 = (IF 1 + 1 <= 2 THEN 0 ELSE (1 + 1) - 2)
      OBVIOUS
    <2>2. Append(Count(0), 0) = Count(0 + 1)
      BY <1>3, <2>1
    <2>3. Append(Count(1), 0) = Count(1 + 1)
      BY <1>3, <2>1
    <2> QED BY <2>1, <2>2, <2>3
  <1>5. ASSUME NEW m \in Nat, m >= 2 PROVE Append(Count(m), m - 1) = Count(m + 1)
    <2>1. m - 1 \in Nat /\ m - 1 = IF m + 1 <= 2 THEN 0 ELSE (m + 1) - 2
      BY <1>5
    <2> QED BY <1>3, <2>1
  <1> QED BY <1>1, <1>2, <1>4, <1>5

-----------------------------------------------------------------------------
(* What was sent, event by event.                                              *)

LEMMA CalmMore ==
    ASSUME NEW q, NEW X, Calm(q, X), NEW e \in EventSet, e.type \notin {"completed", "error"},
           NEW Y, Y = Append(X, e), Typed(Y),
           q.mode # "whole" =>
               /\ IsPrefix(Of("text", Y), EndOf(q.log).text)
               /\ IsPrefix(Of("reasoning", Y), EndOf(q.log).reasoning)
               /\ IsPrefix(Of("call", Y), EndOf(q.log).calls),
           q.mode = "native" => \E m \in Nat : Of("progress", Y) = Count(m)
    PROVE  Calm(q, Y)
  <1>1. X \in Seq(EventSet) /\ \A i \in 1..Len(X) : X[i].type \notin {"completed", "error"}
    BY DEF Calm, Typed
  <1>2. Len(Y) = Len(X) + 1 /\ Y[Len(X) + 1] = e /\ Len(X) \in Nat /\ \A i \in 1..Len(X) : Y[i] = X[i]
    BY <1>1, AppendProperties
  <1>3. ASSUME NEW i \in 1..Len(Y) PROVE Y[i].type \notin {"completed", "error"}
    <2>1. i = Len(X) + 1 \/ i \in 1..Len(X)
      BY <1>2
    <2> QED BY <1>1, <1>2, <2>1
  <1> QED BY <1>3 DEF Calm

LEMMA CalmProgress ==
    ASSUME NEW q, NEW X, Calm(q, X), NEW m \in Nat, NEW n \in Nat,
           Of("progress", X) = Count(m), Append(Count(m), n) = Count(m + 1)
    PROVE  Calm(q, Append(X, Progress(n)))
  <1>1. PICK Y : Y = Append(X, Progress(n))
    OBVIOUS
  <1>2. /\ Typed(Y) /\ Of("text", Y) = Of("text", X) /\ Of("reasoning", Y) = Of("reasoning", X)
        /\ Of("call", Y) = Of("call", X) /\ Of("progress", Y) = Append(Of("progress", X), n)
    BY <1>1, AddProgress DEF Calm
  <1>3. Progress(n) \in EventSet /\ Progress(n).type \notin {"completed", "error"}
    BY EventSetHas DEF Progress
  <1>4. m + 1 \in Nat /\ Of("progress", Y) = Count(m + 1)
    BY <1>2
  <1>5. q.mode # "whole" =>
           /\ IsPrefix(Of("text", Y), EndOf(q.log).text)
           /\ IsPrefix(Of("reasoning", Y), EndOf(q.log).reasoning)
           /\ IsPrefix(Of("call", Y), EndOf(q.log).calls)
    BY <1>2 DEF Calm
  <1>6. Calm(q, Y)
    BY <1>1, <1>2, <1>3, <1>4, <1>5, CalmMore
  <1> QED BY <1>1, <1>6

LEMMA CalmText ==
    ASSUME NEW q, NEW X, Calm(q, X), q.mode # "whole", NEW v \in Seq(Symbols),
           IsPrefix(Of("text", X) \o v, EndOf(q.log).text)
    PROVE  Calm(q, Append(X, Event("text", v)))
  <1>1. PICK Y : Y = Append(X, Event("text", v))
    OBVIOUS
  <1>2. /\ Typed(Y) /\ Of("text", Y) = Of("text", X) \o v /\ Of("reasoning", Y) = Of("reasoning", X)
        /\ Of("call", Y) = Of("call", X) /\ Of("progress", Y) = Of("progress", X)
    BY <1>1, AddText DEF Calm
  <1>3. Event("text", v) \in EventSet /\ Event("text", v).type \notin {"completed", "error"}
    BY EventSetHas DEF Event
  <1>4. q.mode = "native" => \E m \in Nat : Of("progress", Y) = Count(m)
    BY <1>2 DEF Calm
  <1>5. /\ IsPrefix(Of("text", Y), EndOf(q.log).text)
        /\ IsPrefix(Of("reasoning", Y), EndOf(q.log).reasoning)
        /\ IsPrefix(Of("call", Y), EndOf(q.log).calls)
    BY <1>2 DEF Calm
  <1>6. Calm(q, Y)
    BY <1>1, <1>2, <1>3, <1>4, <1>5, CalmMore
  <1> QED BY <1>1, <1>6

LEMMA CalmReasoning ==
    ASSUME NEW q, NEW X, Calm(q, X), q.mode # "whole", NEW v \in Seq(Symbols),
           IsPrefix(Of("reasoning", X) \o v, EndOf(q.log).reasoning)
    PROVE  Calm(q, Append(X, Event("reasoning", v)))
  <1>1. PICK Y : Y = Append(X, Event("reasoning", v))
    OBVIOUS
  <1>2. /\ Typed(Y) /\ Of("text", Y) = Of("text", X) /\ Of("reasoning", Y) = Of("reasoning", X) \o v
        /\ Of("call", Y) = Of("call", X) /\ Of("progress", Y) = Of("progress", X)
    BY <1>1, AddReasoning DEF Calm
  <1>3. Event("reasoning", v) \in EventSet /\ Event("reasoning", v).type \notin {"completed", "error"}
    BY EventSetHas DEF Event
  <1>4. q.mode = "native" => \E m \in Nat : Of("progress", Y) = Count(m)
    BY <1>2 DEF Calm
  <1>5. /\ IsPrefix(Of("text", Y), EndOf(q.log).text)
        /\ IsPrefix(Of("reasoning", Y), EndOf(q.log).reasoning)
        /\ IsPrefix(Of("call", Y), EndOf(q.log).calls)
    BY <1>2 DEF Calm
  <1>6. Calm(q, Y)
    BY <1>1, <1>2, <1>3, <1>4, <1>5, CalmMore
  <1> QED BY <1>1, <1>6

LEMMA CalmCall ==
    ASSUME NEW q, NEW X, Calm(q, X), q.mode # "whole", NEW v \in Valid,
           IsPrefix(Append(Of("call", X), v), EndOf(q.log).calls)
    PROVE  Calm(q, Append(X, Event("call", v)))
  <1>1. PICK Y : Y = Append(X, Event("call", v))
    OBVIOUS
  <1>2. /\ Typed(Y) /\ Of("text", Y) = Of("text", X) /\ Of("reasoning", Y) = Of("reasoning", X)
        /\ Of("call", Y) = Append(Of("call", X), v) /\ Of("progress", Y) = Of("progress", X)
    BY <1>1, AddCall DEF Calm
  <1>3. Event("call", v) \in EventSet /\ Event("call", v).type \notin {"completed", "error"}
    BY EventSetHas DEF Event
  <1>4. q.mode = "native" => \E m \in Nat : Of("progress", Y) = Count(m)
    BY <1>2 DEF Calm
  <1>5. /\ IsPrefix(Of("text", Y), EndOf(q.log).text)
        /\ IsPrefix(Of("reasoning", Y), EndOf(q.log).reasoning)
        /\ IsPrefix(Of("call", Y), EndOf(q.log).calls)
    BY <1>2 DEF Calm
  <1>6. Calm(q, Y)
    BY <1>1, <1>2, <1>3, <1>4, <1>5, CalmMore
  <1> QED BY <1>1, <1>6

LEMMA CalmEmpty ==
    ASSUME NEW q, ExactLog(q.log)
    PROVE  Calm(q, <<>>) /\ History(q, <<>>)
  <1>1. Typed(<<>>) /\ \A type : Of(type, <<>>) = <<>>
    BY TypedEmpty
  <1>2. /\ IsPrefix(<<>>, EndOf(q.log).text) /\ IsPrefix(<<>>, EndOf(q.log).reasoning)
        /\ IsPrefix(<<>>, EndOf(q.log).calls)
    BY LogIs, PrefixEmpty
  <1>3. 0 \in Nat /\ Count(0) = <<>>
    BY CountIs
  <1>4. Len(<<>>) = 0 /\ 1..0 = {}
    OBVIOUS
  <1>5. Calm(q, <<>>)
    BY <1>1, <1>2, <1>3, <1>4 DEF Calm
  <1>6. \A m \in 0..Len(<<>>) : ~(m < Len(<<>>))
    BY <1>4
  <1> QED BY <1>5, <1>6 DEF History, Calm, Typed

LEMMA HistoryGrows ==
    ASSUME NEW q, NEW X, History(q, X), Calm(q, X), NEW e \in EventSet,
           Calm(q, Append(X, e)) \/ Fits(q, X, e)
    PROVE  History(q, Append(X, e)) /\ (Fits(q, X, e) => Sealed(q, Append(X, e), e))
  <1>1. PICK Y : Y = Append(X, e)
    OBVIOUS
  <1>2. X \in Seq(EventSet)
    BY DEF History
  <1>3. /\ Y \in Seq(EventSet) /\ Len(Y) = Len(X) + 1 /\ Len(X) \in Nat
        /\ \A i \in 1..Len(X) : Y[i] = X[i]
    BY <1>1, <1>2, AppendProperties
  <1>4. Fits(q, X, e) => Sealed(q, Y, e)
    BY <1>1 DEF Sealed
  <1>5. ASSUME NEW m \in 0..Len(Y), m < Len(Y) PROVE Calm(q, SubSeq(Y, 1, m))
    <2>1. m \in 0..Len(X)
      BY <1>3, <1>5
    <2>2. SubSeq(Y, 1, m) = SubSeq(X, 1, m)
      <3>1. \A i \in 1..m : Y[i] = X[i]
        BY <1>3, <2>1
      <3>2. SubSeq(Y, 1, m) = [i \in 1..m |-> Y[i]] /\ SubSeq(X, 1, m) = [i \in 1..m |-> X[i]]
        <4>1. m \in Nat
          BY <1>3, <2>1
        <4>2. \A i \in 1..m : i \in 1..m /\ 1 + i - 1 = i
          BY <4>1
        <4> QED BY <1>2, <1>3, <4>1, <4>2
      <3> QED BY <3>1, <3>2
    <2>3. CASE m < Len(X)
      BY <2>1, <2>2, <2>3 DEF History
    <2>4. CASE ~(m < Len(X))
      <3>1. m = Len(X)
        BY <1>3, <2>1, <2>4
      <3>2. SubSeq(X, 1, Len(X)) = X
        BY <1>2
      <3> QED BY <2>2, <3>1, <3>2
    <2> QED BY <2>3, <2>4
  <1>6. History(q, Y)
    BY <1>1, <1>3, <1>4, <1>5 DEF History
  <1> QED BY <1>1, <1>4, <1>6

(* What was received of it. *)
LEMMA HistoryFront ==
    ASSUME NEW q, NEW g \in Seq(EventSet), NEW ch \in Seq(EventSet), History(q, g \o ch)
    PROVE  Calm(q, g) \/ \E e : Sealed(q, g, e)
  <1>1. PICK X : X = g \o ch
    OBVIOUS
  <1>2. X \in Seq(EventSet) /\ Len(X) = Len(g) + Len(ch) /\ \A i \in 1..Len(g) : X[i] = g[i]
    BY <1>1, ConcatProperties
  <1>3. Len(g) \in Nat /\ Len(ch) \in Nat
    OBVIOUS
  <1>4. CASE Len(ch) = 0
    <2>1. ch = <<>>
      BY <1>4
    <2>2. X = g
      BY <1>1, <2>1, ConcatEmpty
    <2> QED BY <1>1, <2>2 DEF History
  <1>5. CASE Len(ch) # 0
    <2>1. Len(g) \in 0..Len(X) /\ Len(g) < Len(X)
      BY <1>2, <1>3, <1>5
    <2>2. Calm(q, SubSeq(X, 1, Len(g)))
      BY <1>1, <2>1 DEF History
    <2>3. IsPrefix(g, X)
      BY <1>1, PrefixMore
    <2>4. SubSeq(X, 1, Len(g)) = SubSeq(g, 1, Len(g)) /\ SubSeq(g, 1, Len(g)) = g
      <3>1. SubSeq(g, 1, Len(g)) = g
        OBVIOUS
      <3> QED BY <2>3, <3>1 DEF IsPrefix
    <2> QED BY <2>2, <2>4
  <1> QED BY <1>4, <1>5

LEMMA Joining ==
    ASSUME NEW S, NEW s \in Seq(S), NEW t \in Seq(S), NEW X, X = s \o t
    PROVE  /\ X \in Seq(S) /\ Len(X) = Len(s) + Len(t)
           /\ \A i \in 1..(Len(s) + Len(t)) : X[i] = IF i <= Len(s) THEN s[i] ELSE t[i - Len(s)]
  BY ConcatProperties

LEMMA ReceiveOne ==
    ASSUME NEW g \in Seq(EventSet), NEW ch \in Seq(EventSet), ch # <<>>
    PROVE  /\ Append(g, Head(ch)) \o Tail(ch) = g \o ch
           /\ Append(g, Head(ch)) \in Seq(EventSet) /\ Tail(ch) \in Seq(EventSet)
           /\ Len(Tail(ch)) <= Len(ch)
  <1>1. Len(ch) \in Nat /\ Len(ch) > 0 /\ Len(g) \in Nat
    OBVIOUS
  <1>2. PICK h : h = Append(g, Head(ch))
    OBVIOUS
  <1>3. Head(ch) \in EventSet /\ Head(ch) = ch[1]
    BY <1>1
  <1>4. h \in Seq(EventSet) /\ Len(h) = Len(g) + 1 /\ h[Len(g) + 1] = ch[1] /\ \A i \in 1..Len(g) : h[i] = g[i]
    BY <1>2, <1>3, AppendProperties
  <1>5. PICK t : t = Tail(ch)
    OBVIOUS
  <1>6. t \in Seq(EventSet) /\ Len(t) = Len(ch) - 1 /\ \A i \in 1..(Len(ch) - 1) : t[i] = ch[i + 1]
    BY <1>1, <1>5, HeadTailProperties
  <1>7. PICK X : X = h \o t
    OBVIOUS
  <1>8. PICK Y : Y = g \o ch
    OBVIOUS
  <1>9. /\ X \in Seq(EventSet) /\ Len(X) = Len(h) + Len(t)
        /\ \A i \in 1..(Len(h) + Len(t)) : X[i] = IF i <= Len(h) THEN h[i] ELSE t[i - Len(h)]
    <2>1. h \in Seq(EventSet) /\ t \in Seq(EventSet)
      BY <1>4, <1>6
    <2> QED BY <1>7, <2>1, Joining
  <1>10. /\ Y \in Seq(EventSet) /\ Len(Y) = Len(g) + Len(ch)
         /\ \A i \in 1..(Len(g) + Len(ch)) : Y[i] = IF i <= Len(g) THEN g[i] ELSE ch[i - Len(g)]
    BY <1>8, ConcatProperties
  <1>11. Len(X) = Len(Y)
    BY <1>1, <1>4, <1>6, <1>9, <1>10
  <1>12. ASSUME NEW i \in 1..Len(X) PROVE X[i] = Y[i]
    <2>1. CASE i <= Len(g)
      <3>1. i \in 1..Len(g) /\ i <= Len(h) /\ i \in 1..(Len(h) + Len(t)) /\ i \in 1..(Len(g) + Len(ch))
        BY <1>1, <1>4, <1>6, <1>9, <2>1
      <3> QED BY <1>4, <1>9, <1>10, <3>1
    <2>2. CASE i = Len(g) + 1
      BY <1>1, <1>4, <1>6, <1>9, <1>10, <1>11, <2>2
    <2>3. CASE i > Len(g) + 1
      <3>1. i - Len(h) \in 1..(Len(ch) - 1) /\ (i - Len(h)) + 1 = i - Len(g) /\ ~(i <= Len(h)) /\ ~(i <= Len(g))
        BY <1>1, <1>4, <1>6, <1>9, <2>3
      <3>2. X[i] = t[i - Len(h)] /\ Y[i] = ch[i - Len(g)]
        BY <1>9, <1>10, <1>11, <3>1
      <3> QED BY <1>6, <3>1, <3>2
    <2> QED BY <1>1, <2>1, <2>2, <2>3
  <1>13. X = Y
    BY <1>9, <1>10, <1>11, <1>12, SeqEqual
  <1>14. Len(t) <= Len(ch)
    BY <1>1, <1>6
  <1>15. Append(g, Head(ch)) \o Tail(ch) = g \o ch
    BY <1>2, <1>5, <1>7, <1>8, <1>13
  <1> QED BY <1>2, <1>4, <1>5, <1>6, <1>14, <1>15

LEMMA SendOne ==
    ASSUME NEW g \in Seq(EventSet), NEW ch \in Seq(EventSet), NEW e \in EventSet
    PROVE  /\ g \o Append(ch, e) = Append(g \o ch, e)
           /\ Append(ch, e) \in Seq(EventSet) /\ Len(Append(ch, e)) = Len(ch) + 1
  <1>1. Len(ch) \in Nat /\ Len(g) \in Nat
    OBVIOUS
  <1>2. PICK c : c = Append(ch, e)
    OBVIOUS
  <1>3. c \in Seq(EventSet) /\ Len(c) = Len(ch) + 1 /\ c[Len(ch) + 1] = e /\ \A i \in 1..Len(ch) : c[i] = ch[i]
    BY <1>2, AppendProperties
  <1>4. PICK Y : Y = g \o ch
    OBVIOUS
  <1>5. /\ Y \in Seq(EventSet) /\ Len(Y) = Len(g) + Len(ch)
        /\ \A i \in 1..(Len(g) + Len(ch)) : Y[i] = IF i <= Len(g) THEN g[i] ELSE ch[i - Len(g)]
    BY <1>4, ConcatProperties
  <1>6. PICK Z : Z = Append(Y, e)
    OBVIOUS
  <1>7. Z \in Seq(EventSet) /\ Len(Z) = Len(Y) + 1 /\ Z[Len(Y) + 1] = e /\ \A i \in 1..Len(Y) : Z[i] = Y[i]
    BY <1>5, <1>6, AppendProperties
  <1>8. PICK X : X = g \o c
    OBVIOUS
  <1>9. /\ X \in Seq(EventSet) /\ Len(X) = Len(g) + Len(c)
        /\ \A i \in 1..(Len(g) + Len(c)) : X[i] = IF i <= Len(g) THEN g[i] ELSE c[i - Len(g)]
    <2>1. c \in Seq(EventSet)
      BY <1>3
    <2> QED BY <1>8, <2>1, Joining
  <1>10. Len(X) = Len(Z)
    BY <1>1, <1>3, <1>5, <1>7, <1>9
  <1>11. ASSUME NEW i \in 1..Len(X) PROVE X[i] = Z[i]
    <2>1. CASE i <= Len(g)
      <3>1. i \in 1..(Len(g) + Len(c)) /\ i \in 1..Len(Y) /\ i \in 1..(Len(g) + Len(ch))
        BY <1>1, <1>3, <1>5, <1>9, <2>1
      <3>2. X[i] = g[i] /\ Y[i] = g[i] /\ Z[i] = Y[i]
        BY <1>5, <1>7, <1>9, <2>1, <3>1
      <3> QED BY <3>2
    <2>2. CASE i > Len(g) /\ i <= Len(g) + Len(ch)
      <3>1. i - Len(g) \in 1..Len(ch) /\ i \in 1..Len(Y)
        BY <1>1, <1>5, <2>2
      <3> QED BY <1>1, <1>3, <1>5, <1>7, <1>9, <2>2, <3>1
    <2>3. CASE i > Len(g) + Len(ch)
      <3>1. i = Len(Y) + 1 /\ i - Len(g) = Len(ch) + 1 /\ ~(i <= Len(g))
        BY <1>1, <1>3, <1>5, <1>9, <2>3
      <3> QED BY <1>3, <1>7, <1>9, <3>1
    <2> QED BY <1>1, <2>1, <2>2, <2>3
  <1>12. X = Z
    BY <1>7, <1>9, <1>10, <1>11, SeqEqual
  <1> QED BY <1>2, <1>3, <1>4, <1>6, <1>8, <1>12

-----------------------------------------------------------------------------
(* The callbacks.                                                              *)

LEMMA TailIs ==
    ASSUME NEW S, NEW s \in Seq(S), NEW t \in Seq(S), Len(s) = Len(t) + 1, \A i \in 1..Len(t) : t[i] = s[i + 1]
    PROVE  Head(s) = s[1] /\ Tail(s) = t /\ s # <<>>
  <1>1. Len(t) \in Nat /\ Len(s) > 0 /\ s # <<>>
    OBVIOUS
  <1>2. PICK u : u = Tail(s)
    OBVIOUS
  <1>3. u \in Seq(S) /\ Len(u) = Len(s) - 1 /\ Head(s) = s[1] /\ \A i \in 1..Len(u) : u[i] = s[i + 1]
    BY <1>1, <1>2, HeadTailProperties
  <1>4. Len(u) = Len(t) /\ \A i \in 1..Len(u) : u[i] = t[i]
    BY <1>1, <1>3
  <1>5. u = t
    BY <1>3, <1>4, SeqEqual
  <1> QED BY <1>1, <1>2, <1>3, <1>5

Items == {[type |-> "segment", value |-> seg] : seg \in Segs}

LEMMA SegRestIs ==
    ASSUME NEW o \in Seq(Segs), NEW i \in 0..Len(o)
    PROVE  /\ SegRest(o, i) \in Seq(Items) /\ Len(SegRest(o, i)) = Len(o) - i
           /\ \A m \in 1..(Len(o) - i) : SegRest(o, i)[m] = [type |-> "segment", value |-> o[i + m]]
  <1>1. Len(o) - i \in Nat
    OBVIOUS
  <1>2. \A m \in 1..(Len(o) - i) : o[i + m] \in Segs
    OBVIOUS
  <1>3. \A m \in 1..(Len(o) - i) : [type |-> "segment", value |-> o[i + m]] \in Items
    BY <1>2 DEF Items
  <1> QED BY <1>1, <1>3 DEF SegRest

LEMMA SegRestNext ==
    ASSUME NEW o \in Seq(Segs), NEW i \in 0..Len(o)
    PROVE  /\ SegRest(o, i) = <<>> <=> i = Len(o)
           /\ i # Len(o) => /\ Head(SegRest(o, i)) = [type |-> "segment", value |-> o[i + 1]]
                            /\ Tail(SegRest(o, i)) = SegRest(o, i + 1) /\ o[i + 1] \in Segs
                            /\ i + 1 \in 0..Len(o) /\ i \in 0..(Len(o) - 1)
  <1>0. Len(o) \in Nat
    OBVIOUS
  <1>1. PICK s \in Seq(Items) : s = SegRest(o, i)
    BY SegRestIs
  <1>2. Len(s) = Len(o) - i /\ \A m \in 1..(Len(o) - i) : s[m] = [type |-> "segment", value |-> o[i + m]]
    BY <1>1, SegRestIs
  <1>3. s = <<>> <=> i = Len(o)
    BY <1>0, <1>2
  <1>4. ASSUME i # Len(o)
        PROVE  /\ Head(s) = [type |-> "segment", value |-> o[i + 1]] /\ Tail(s) = SegRest(o, i + 1)
               /\ o[i + 1] \in Segs /\ i + 1 \in 0..Len(o) /\ i \in 0..(Len(o) - 1)
    <2>1. i + 1 \in 0..Len(o) /\ i \in 0..(Len(o) - 1) /\ o[i + 1] \in Segs
      BY <1>0, <1>4
    <2>2. PICK t \in Seq(Items) : t = SegRest(o, i + 1)
      BY <2>1, SegRestIs
    <2>3. Len(t) = Len(o) - (i + 1) /\ \A m \in 1..(Len(o) - (i + 1)) : t[m] = [type |-> "segment", value |-> o[(i + 1) + m]]
      BY <2>1, <2>2, SegRestIs
    <2>4. Len(s) = Len(t) + 1
      BY <1>0, <1>2, <2>1, <2>3
    <2>5. ASSUME NEW m \in 1..Len(t) PROVE t[m] = s[m + 1]
      <3>1. m + 1 \in 1..(Len(o) - i) /\ i + (m + 1) = (i + 1) + m /\ m \in 1..(Len(o) - (i + 1))
        <4>1. Len(t) = Len(o) - (i + 1) /\ i \in Int /\ m \in Int /\ 1 <= m /\ m <= Len(t)
          BY <2>3
        <4> QED BY <1>0, <4>1
      <3> QED BY <1>2, <2>3, <3>1
    <2>6. Head(s) = s[1] /\ Tail(s) = t
      BY <2>4, <2>5, TailIs
    <2>7. s[1] = [type |-> "segment", value |-> o[i + 1]]
      <3>1. 1 \in 1..(Len(o) - i)
        BY <1>0, <2>1
      <3> QED BY <1>2, <3>1
    <2> QED BY <2>1, <2>2, <2>6, <2>7
  <1> QED BY <1>1, <1>3, <1>4

(* A segment is forwarded exactly when it adds to what was shown. *)
LEMMA SegmentShows ==
    ASSUME NEW rec \in Recs, NEW t \in Seq(Symbols), NEW seg \in Segs
    PROVE  /\ Forwards(rec, seg) =>
                \/ /\ seg.kind = "text" /\ Observe(rec, seg).emitted = rec.emitted \o seg.text
                   /\ Thinks(t, seg) = t
                \/ /\ seg.kind = "reasoning" /\ Observe(rec, seg).emitted = rec.emitted
                   /\ Thinks(t, seg) = t \o seg.text
           /\ ~Forwards(rec, seg) => Observe(rec, seg).emitted = rec.emitted /\ Thinks(t, seg) = t
           /\ seg.text \in Seq(Symbols)
  <1>1. seg.kind \in {"text", "reasoning", "tool"} /\ seg.text \in Seq(Symbols) /\ rec.emitted \in Seq(Symbols)
    BY DEF Segs, Recs
  <1>2. [rec EXCEPT !.withhold = TRUE].emitted = rec.emitted
    BY DEF Recs
  <1>3. \A u : [rec EXCEPT !.emitted = u].emitted = u
    BY DEF Recs
  <1>4. t \o <<>> = t /\ rec.emitted \o <<>> = rec.emitted
    BY <1>1, ConcatEmpty
  <1>5. CASE seg.kind = "tool"
    BY <1>1, <1>2, <1>5 DEF Observe, Thinks, Forwards
  <1>6. CASE seg.kind = "reasoning"
    BY <1>1, <1>4, <1>6 DEF Observe, Thinks, Forwards
  <1>7. CASE seg.kind = "text"
    <2>1. CASE rec.withhold
      BY <1>1, <1>7, <2>1 DEF Observe, Thinks, Forwards
    <2>2. CASE ~rec.withhold
      <3>1. Observe(rec, seg).emitted = rec.emitted \o seg.text /\ Thinks(t, seg) = t
        BY <1>3, <1>7, <2>2 DEF Observe, Thinks
      <3> QED BY <1>1, <1>4, <1>7, <2>2, <3>1 DEF Forwards
    <2> QED BY <2>1, <2>2
  <1> QED BY <1>1, <1>5, <1>6, <1>7

LEMMA CallSegment ==
    ASSUME NEW q, ExactLog(q.log), NEW cl \in BOOLEAN, NEW X, Calm(q, X), NEW rec, NEW todo,
           NEW k \in 1..Len(q.log), NEW m, ShowsAt(q, cl, X, rec, todo, k, m), todo # <<>>
    PROVE  \E seg \in Segs :
              /\ Head(todo) = [type |-> "segment", value |-> seg]
              /\ q.mode # "whole" /\ ~cl /\ Forwards(rec, seg) =>
                    /\ Event(seg.kind, seg.text) \in EventSet
                    /\ Calm(q, Append(X, Event(seg.kind, seg.text)))
                    /\ ShowsAt(q, cl, Append(X, Event(seg.kind, seg.text)), Observe(rec, seg), Tail(todo), k, m)
              /\ q.mode = "whole" \/ cl \/ ~Forwards(rec, seg) =>
                    ShowsAt(q, cl, X, Observe(rec, seg), Tail(todo), k, m)
  <1>1. PICK o : \E i \in 0..Len(o) : /\ Goes(q.log, k, o) /\ todo = SegRest(o, i)
                                      /\ Sent(q, cl, X, rec, At(q.log, k, o, i), m)
    BY DEF ShowsAt
  <1>2. PICK i \in 0..Len(o) : Goes(q.log, k, o) /\ todo = SegRest(o, i) /\ Sent(q, cl, X, rec, At(q.log, k, o, i), m)
    BY <1>1
  <1>3. o \in Seq(Segs)
    BY <1>2 DEF Goes
  <1>4. /\ Head(todo) = [type |-> "segment", value |-> o[i + 1]] /\ Tail(todo) = SegRest(o, i + 1)
        /\ o[i + 1] \in Segs /\ i + 1 \in 0..Len(o) /\ i \in 0..(Len(o) - 1)
    BY <1>2, <1>3, SegRestNext
  <1>5. PICK seg \in Segs : seg = o[i + 1]
    BY <1>4
  <1>6. PICK x : x = At(q.log, k, o, i)
    OBVIOUS
  <1>7. PICK y : y = At(q.log, k, o, i + 1)
    OBVIOUS
  <1>8. y.rec = Observe(x.rec, seg) /\ y.thought = Thinks(x.thought, seg)
    <2>1. y = [rec |-> Observe(x.rec, seg), thought |-> Thinks(x.thought, seg)]
      BY <1>2, <1>4, <1>5, <1>6, <1>7, AtFacts
    <2> QED BY <2>1
  <1>9. Reaches(q.log, x) /\ Reaches(q.log, y)
    BY <1>2, <1>4, <1>6, <1>7, AtFacts
  <1>10. x.rec \in Recs /\ x.thought \in Seq(Symbols) /\ rec = x.rec
    BY <1>2, <1>6, <1>9 DEF Reaches, Standing, Sent
  <1>11. /\ Forwards(rec, seg) =>
               \/ /\ seg.kind = "text" /\ y.rec.emitted = x.rec.emitted \o seg.text /\ y.thought = x.thought
               \/ /\ seg.kind = "reasoning" /\ y.rec.emitted = x.rec.emitted /\ y.thought = x.thought \o seg.text
         /\ ~Forwards(rec, seg) => y.rec.emitted = x.rec.emitted /\ y.thought = x.thought
         /\ seg.text \in Seq(Symbols)
    <2>1. PICK r \in Recs : r = x.rec
      BY <1>10
    <2>2. PICK t \in Seq(Symbols) : t = x.thought
      BY <1>10
    <2>3. y.rec = Observe(r, seg) /\ y.thought = Thinks(t, seg) /\ rec = r
      BY <1>8, <1>10, <2>1, <2>2
    <2>4. /\ Forwards(r, seg) =>
                \/ /\ seg.kind = "text" /\ Observe(r, seg).emitted = r.emitted \o seg.text
                   /\ Thinks(t, seg) = t
                \/ /\ seg.kind = "reasoning" /\ Observe(r, seg).emitted = r.emitted
                   /\ Thinks(t, seg) = t \o seg.text
          /\ ~Forwards(r, seg) => Observe(r, seg).emitted = r.emitted /\ Thinks(t, seg) = t
          /\ seg.text \in Seq(Symbols)
      BY SegmentShows
    <2> QED BY <2>1, <2>2, <2>3, <2>4
  <1>12. ASSUME NEW Y, Sent(q, cl, Y, Observe(rec, seg), y, m)
         PROVE  ShowsAt(q, cl, Y, Observe(rec, seg), Tail(todo), k, m)
    BY <1>2, <1>4, <1>7, <1>12 DEF ShowsAt
  <1>13. ASSUME q.mode = "whole" \/ cl \/ ~Forwards(rec, seg)
         PROVE  ShowsAt(q, cl, X, Observe(rec, seg), Tail(todo), k, m)
    <2>1. Observe(rec, seg) = y.rec
      BY <1>8, <1>10
    <2>2. Sent(q, cl, X, rec, x, m)
      BY <1>2, <1>6
    <2>3. Sent(q, cl, X, y.rec, y, m)
      BY <1>11, <1>13, <2>2 DEF Sent
    <2> QED BY <1>12, <2>1, <2>3
  <1>14. ASSUME q.mode # "whole", ~cl, Forwards(rec, seg)
         PROVE  /\ Event(seg.kind, seg.text) \in EventSet
                /\ Calm(q, Append(X, Event(seg.kind, seg.text)))
                /\ ShowsAt(q, cl, Append(X, Event(seg.kind, seg.text)), Observe(rec, seg), Tail(todo), k, m)
    <2>1. PICK Y : Y = Append(X, Event(seg.kind, seg.text))
      OBVIOUS
    <2>2. /\ Of("text", X) = x.rec.emitted /\ Of("reasoning", X) = x.thought /\ Of("call", X) = <<>>
          /\ q.mode = "native" => Of("progress", X) = Count(m)
      BY <1>2, <1>6, <1>14 DEF Sent
    <2>3. IsPrefix(y.rec.emitted, EndOf(q.log).text) /\ IsPrefix(y.thought, EndOf(q.log).reasoning)
      BY <1>9 DEF Reaches
    <2>4. Typed(X)
      BY DEF Calm
    <2>5. CASE seg.kind = "text"
      <3>1. y.rec.emitted = x.rec.emitted \o seg.text /\ y.thought = x.thought
        BY <1>11, <1>14, <2>5
      <3>2. /\ Of("text", Y) = y.rec.emitted /\ Of("reasoning", Y) = y.thought /\ Of("call", Y) = <<>>
            /\ Of("progress", Y) = Of("progress", X)
        BY <1>11, <2>1, <2>2, <2>4, <2>5, <3>1, AddText
      <3>3. Calm(q, Y)
        BY <1>11, <1>14, <2>1, <2>2, <2>3, <2>5, <3>1, CalmText
      <3>4. Event(seg.kind, seg.text) \in EventSet
        BY <1>11, <2>5, EventSetHas
      <3>5. Sent(q, cl, Y, Observe(rec, seg), y, m)
        BY <1>8, <1>10, <2>2, <3>2 DEF Sent
      <3> QED BY <1>12, <2>1, <3>3, <3>4, <3>5
    <2>6. CASE seg.kind = "reasoning"
      <3>1. y.rec.emitted = x.rec.emitted /\ y.thought = x.thought \o seg.text
        BY <1>11, <1>14, <2>6
      <3>2. /\ Of("text", Y) = y.rec.emitted /\ Of("reasoning", Y) = y.thought /\ Of("call", Y) = <<>>
            /\ Of("progress", Y) = Of("progress", X)
        BY <1>11, <2>1, <2>2, <2>4, <2>6, <3>1, AddReasoning
      <3>3. Calm(q, Y)
        BY <1>11, <1>14, <2>1, <2>2, <2>3, <2>6, <3>1, CalmReasoning
      <3>4. Event(seg.kind, seg.text) \in EventSet
        BY <1>11, <2>6, EventSetHas
      <3>5. Sent(q, cl, Y, Observe(rec, seg), y, m)
        BY <1>8, <1>10, <2>2, <3>2 DEF Sent
      <3> QED BY <1>12, <2>1, <3>3, <3>4, <3>5
    <2> QED BY <1>11, <1>14, <2>5, <2>6
  <1> QED BY <1>4, <1>5, <1>13, <1>14

LEMMA FrontOne ==
    ASSUME NEW S, NEW s \in Seq(S), NEW x
    PROVE  /\ Head(<<x>> \o s) = x /\ Tail(<<x>> \o s) = s /\ <<x>> \o s # <<>>
           /\ Len(<<x>> \o s) = Len(s) + 1 /\ <<x>> \o s \in Seq(S \cup {x})
  <1>1. <<x>> \in Seq(S \cup {x}) /\ Len(<<x>>) = 1 /\ <<x>>[1] = x /\ s \in Seq(S \cup {x}) /\ Len(s) \in Nat
    OBVIOUS
  <1>2. PICK u : u = <<x>>
    OBVIOUS
  <1>3. u \in Seq(S \cup {x}) /\ Len(u) = 1 /\ u[1] = x
    BY <1>1, <1>2
  <1>4. PICK X : X = u \o s
    OBVIOUS
  <1>5. /\ X \in Seq(S \cup {x}) /\ Len(X) = Len(u) + Len(s)
        /\ \A i \in 1..(Len(u) + Len(s)) : X[i] = IF i <= Len(u) THEN u[i] ELSE s[i - Len(u)]
    <2>1. u \in Seq(S \cup {x}) /\ s \in Seq(S \cup {x})
      BY <1>1, <1>3
    <2> QED BY <1>4, <2>1, Joining
  <1>6. X[1] = x
    <2>1. 1 \in 1..(Len(u) + Len(s)) /\ 1 <= Len(u)
      BY <1>1, <1>3
    <2> QED BY <1>3, <1>5, <2>1
  <1>7. ASSUME NEW i \in 1..Len(s) PROVE s[i] = X[i + 1]
    <2>1. i + 1 \in 1..(Len(u) + Len(s)) /\ ~(i + 1 <= Len(u)) /\ (i + 1) - Len(u) = i
      BY <1>1, <1>3
    <2> QED BY <1>5, <2>1
  <1>8. Len(X) = Len(s) + 1
    BY <1>1, <1>3, <1>5
  <1>9. Head(X) = X[1] /\ Tail(X) = s /\ X # <<>>
    BY <1>1, <1>5, <1>7, <1>8, TailIs
  <1> QED BY <1>2, <1>4, <1>5, <1>6, <1>8, <1>9

LEMMA SegmentsAre ==
    ASSUME NEW o \in Seq(Segs)
    PROVE  Segments(o) = SegRest(o, 0)
  <1>1. DOMAIN o = 1..(Len(o) - 0) /\ \A m \in 1..(Len(o) - 0) : o[0 + m] = o[m]
    OBVIOUS
  <1> QED BY <1>1 DEF Segments, SegRest

(* Progress is counted when it is sent. *)
LEMMA SentProgress ==
    ASSUME NEW q, NEW cl \in BOOLEAN, NEW X, Calm(q, X), NEW rec, NEW x, NEW m \in Nat, NEW n \in Nat,
           Sent(q, cl, X, rec, x, m), Append(Count(m), n) = Count(m + 1)
    PROVE  /\ Progress(n) \in EventSet
           /\ q.mode = "native" /\ ~cl =>
                 Calm(q, Append(X, Progress(n))) /\ Sent(q, cl, Append(X, Progress(n)), rec, x, m + 1)
           /\ q.mode # "native" \/ cl => Sent(q, cl, X, rec, x, m + 1)
  <1>1. Progress(n) \in EventSet
    BY EventSetHas
  <1>2. ASSUME q.mode = "native", ~cl
        PROVE  Calm(q, Append(X, Progress(n))) /\ Sent(q, cl, Append(X, Progress(n)), rec, x, m + 1)
    <2>1. Of("progress", X) = Count(m)
      BY <1>2 DEF Sent
    <2>2. Calm(q, Append(X, Progress(n)))
      BY <2>1, CalmProgress
    <2>3. PICK Y : Y = Append(X, Progress(n))
      OBVIOUS
    <2>4. /\ Of("text", Y) = Of("text", X) /\ Of("reasoning", Y) = Of("reasoning", X)
          /\ Of("call", Y) = Of("call", X) /\ Of("progress", Y) = Append(Of("progress", X), n)
      BY <2>3, AddProgress DEF Calm
    <2>5. Sent(q, cl, Y, rec, x, m + 1)
      BY <1>2, <2>1, <2>4 DEF Sent
    <2> QED BY <2>2, <2>3, <2>5
  <1>3. q.mode # "native" \/ cl => Sent(q, cl, X, rec, x, m + 1)
    BY DEF Sent
  <1> QED BY <1>1, <1>2, <1>3

(* What a callback leaves of the work. *)
Goes1(w, v) ==
    /\ v.phase = w.phase /\ v.at = w.at /\ v.todo = Tail(w.todo)
    /\ v.rec = IF Head(w.todo).type = "segment" THEN Observe(w.rec, Head(w.todo).value) ELSE w.rec

Called(q, cl, ca, X, w, v) ==
    \/ /\ Head(w.todo).type = "progress" /\ Head(w.todo) \in EventSet
       /\ q.mode = "native" /\ ~cl =>
              Calm(q, Append(X, Head(w.todo))) /\ RunOk(v, q, cl, ca, Append(X, Head(w.todo)))
       /\ q.mode # "native" \/ cl => RunOk(v, q, cl, ca, X)
    \/ \E seg \in Segs :
          /\ Head(w.todo) = [type |-> "segment", value |-> seg]
          /\ q.mode # "whole" /\ ~cl /\ Forwards(w.rec, seg) =>
                /\ Event(seg.kind, seg.text) \in EventSet
                /\ Calm(q, Append(X, Event(seg.kind, seg.text)))
                /\ RunOk(v, q, cl, ca, Append(X, Event(seg.kind, seg.text)))
          /\ q.mode = "whole" \/ cl \/ ~Forwards(w.rec, seg) => RunOk(v, q, cl, ca, X)

LEMMA BeginsCalls ==
    ASSUME NEW q, ExactLog(q.log), NEW cl \in BOOLEAN, NEW ca, NEW X, Calm(q, X), NEW w, NEW v,
           Begins(w, q, cl, X), w.todo # <<>>, Goes1(w, v)
    PROVE  Called(q, cl, ca, X, w, v)
  <1>1. PICK m \in 0..2 : w.todo = [i \in 1..m |-> Progress(0)] /\ Sent(q, cl, X, w.rec, Account(q.log)[0], 2 - m)
    BY DEF Begins
  <1>2. PICK p : p = Progress(0)
    OBVIOUS
  <1>3. p \in EventSet /\ p.type = "progress"
    BY <1>2, EventSetHas DEF Progress
  <1>4. m \in 1..2
    <2>1. m = 0 => w.todo = <<>>
      BY <1>1
    <2> QED BY <2>1
  <1>5. w.todo = [i \in 1..m |-> p]
    BY <1>1, <1>2
  <1>6. PICK t : t = [i \in 1..(m - 1) |-> p]
    OBVIOUS
  <1>7. Head(w.todo) = p /\ Tail(w.todo) = t
    <2>1. m - 1 \in Nat /\ m \in Nat
      BY <1>4
    <2>2. w.todo \in Seq({p}) /\ t \in Seq({p}) /\ Len(w.todo) = m /\ Len(t) = m - 1
      BY <1>5, <1>6, <2>1
    <2>3. \A i \in 1..Len(t) : t[i] = w.todo[i + 1]
      BY <1>5, <1>6, <2>1, <2>2
    <2>4. Head(w.todo) = w.todo[1] /\ Tail(w.todo) = t
      BY <2>1, <2>2, <2>3, TailIs
    <2> QED BY <1>4, <1>5, <2>4
  <1>8. Append(Count(2 - m), 0) = Count((2 - m) + 1) /\ 2 - m \in Nat /\ (2 - m) + 1 = 2 - (m - 1) /\ m - 1 \in 0..2
    <2>1. CASE m = 1
      BY <2>1, CountIs
    <2>2. CASE m = 2
      BY <2>2, CountIs
    <2> QED BY <1>4, <2>1, <2>2
  <1>9. v.phase = "decode" /\ v.at = 0 /\ v.todo = [i \in 1..(m - 1) |-> Progress(0)] /\ v.rec = w.rec
    BY <1>2, <1>3, <1>6, <1>7 DEF Goes1, Begins
  <1>10. ASSUME NEW Y, Sent(q, cl, Y, w.rec, Account(q.log)[0], (2 - m) + 1)
         PROVE  RunOk(v, q, cl, ca, Y)
    <2>1. Sent(q, cl, Y, v.rec, Account(q.log)[0], 2 - (m - 1))
      BY <1>8, <1>9, <1>10
    <2>2. Begins(v, q, cl, Y)
      BY <1>8, <1>9, <2>1 DEF Begins
    <2> QED BY <2>2 DEF RunOk
  <1>11. /\ q.mode = "native" /\ ~cl =>
               Calm(q, Append(X, p)) /\ Sent(q, cl, Append(X, p), w.rec, Account(q.log)[0], (2 - m) + 1)
         /\ q.mode # "native" \/ cl => Sent(q, cl, X, w.rec, Account(q.log)[0], (2 - m) + 1)
    <2>1. 0 \in Nat
      OBVIOUS
    <2> QED BY <1>1, <1>2, <1>8, <2>1, SentProgress
  <1> QED BY <1>3, <1>7, <1>10, <1>11 DEF Called

LEMMA CountsCalls ==
    ASSUME NEW q, ExactLog(q.log), NEW cl \in BOOLEAN, NEW ca, NEW X, Calm(q, X), NEW w, NEW v,
           Counts(w, q, cl, X), Goes1(w, v)
    PROVE  Called(q, cl, ca, X, w, v)
  <1>1. PICK o : /\ Goes(q.log, w.at, o) /\ w.todo = <<Progress(w.at)>> \o SegRest(o, 0)
                 /\ Sent(q, cl, X, w.rec, Account(q.log)[w.at - 1], w.at + 1)
    BY DEF Counts
  <1>2. Len(q.log) \in Nat
    BY LogIs
  <1>3. PICK k \in 1..(Len(q.log) - 1) : k = w.at
    BY DEF Counts
  <1>4. PICK p : p = Progress(k)
    OBVIOUS
  <1>5. p \in EventSet /\ p.type = "progress"
    BY <1>2, <1>4, EventSetHas DEF Progress
  <1>6. o \in Seq(Segs) /\ 0 \in 0..Len(o)
    BY <1>1 DEF Goes
  <1>7. Head(w.todo) = p /\ Tail(w.todo) = SegRest(o, 0)
    <2>1. SegRest(o, 0) \in Seq(Items)
      BY <1>6, SegRestIs
    <2> QED BY <1>1, <1>3, <1>4, <2>1, FrontOne
  <1>8. /\ Append(Count(k + 1), k) = Count((k + 1) + 1) /\ k + 1 \in Nat /\ (k + 1) + 1 = k + 2 /\ k \in Nat
        /\ k \in 1..Len(q.log)
    <2>1. k + 1 \in Nat /\ k + 1 >= 2 /\ (k + 1) - 1 = k /\ k \in Nat /\ k \in 1..Len(q.log)
      BY <1>2
    <2>2. Append(Count(k + 1), (k + 1) - 1) = Count((k + 1) + 1)
      BY <2>1, CountIs
    <2> QED BY <2>1, <2>2
  <1>9. v.phase = "decode" /\ v.at = k /\ v.todo = SegRest(o, 0) /\ v.rec = w.rec
    BY <1>3, <1>5, <1>7 DEF Goes1, Counts
  <1>10. At(q.log, k, o, 0) = Account(q.log)[k - 1]
    BY <1>1, <1>3, <1>8, AtFacts
  <1>11. ASSUME NEW Y, Sent(q, cl, Y, w.rec, Account(q.log)[k - 1], (k + 1) + 1)
         PROVE  RunOk(v, q, cl, ca, Y)
    <2>1. Sent(q, cl, Y, v.rec, At(q.log, k, o, 0), k + 2)
      BY <1>8, <1>9, <1>10, <1>11
    <2>2. ShowsAt(q, cl, Y, v.rec, v.todo, k, k + 2)
      BY <1>1, <1>3, <1>6, <1>9, <2>1 DEF ShowsAt
    <2>3. Shows(v, q, cl, Y)
      BY <1>9, <2>2 DEF Shows
    <2> QED BY <2>3 DEF RunOk
  <1>12. /\ q.mode = "native" /\ ~cl =>
               Calm(q, Append(X, p)) /\ Sent(q, cl, Append(X, p), w.rec, Account(q.log)[k - 1], (k + 1) + 1)
         /\ q.mode # "native" \/ cl => Sent(q, cl, X, w.rec, Account(q.log)[k - 1], (k + 1) + 1)
    BY <1>1, <1>3, <1>4, <1>8, SentProgress
  <1> QED BY <1>5, <1>7, <1>11, <1>12 DEF Called

LEMMA ShowsCalls ==
    ASSUME NEW q, ExactLog(q.log), NEW cl \in BOOLEAN, NEW ca, NEW X, Calm(q, X), NEW w, NEW v,
           Shows(w, q, cl, X) \/ Flushes(w, q, cl, X), w.todo # <<>>, Goes1(w, v)
    PROVE  Called(q, cl, ca, X, w, v)
  <1>1. PICK k, m : /\ k \in 1..Len(q.log) /\ ShowsAt(q, cl, X, w.rec, w.todo, k, m)
                    /\ \A Y, rec, todo : ShowsAt(q, cl, Y, rec, todo, k, m) /\ v.rec = rec /\ v.todo = todo
                                           => RunOk(v, q, cl, ca, Y)
    <2>1. Len(q.log) \in Nat /\ Len(q.log) > 0
      BY LogIs
    <2>2. CASE Shows(w, q, cl, X)
      <3>1. w.at \in 1..Len(q.log) /\ ShowsAt(q, cl, X, w.rec, w.todo, w.at, w.at + 2)
        BY <2>1, <2>2 DEF Shows
      <3>2. v.at = w.at /\ v.phase = "decode" /\ v.at \in 1..(Len(q.log) - 1)
        BY <2>2 DEF Shows, Goes1
      <3>3. ASSUME NEW Y, NEW rec, NEW todo, ShowsAt(q, cl, Y, rec, todo, w.at, w.at + 2), v.rec = rec, v.todo = todo
            PROVE  RunOk(v, q, cl, ca, Y)
        <4>1. Shows(v, q, cl, Y)
          BY <3>2, <3>3 DEF Shows
        <4> QED BY <4>1 DEF RunOk
      <3> QED BY <3>1, <3>3
    <2>3. CASE Flushes(w, q, cl, X)
      <3>1. Len(q.log) \in 1..Len(q.log) /\ ShowsAt(q, cl, X, w.rec, w.todo, Len(q.log), Len(q.log) + 1)
        BY <2>1, <2>3 DEF Flushes
      <3>2. v.at = w.at /\ v.phase = "flush" /\ v.at = Len(q.log) - 1
        BY <2>3 DEF Flushes, Goes1
      <3>3. ASSUME NEW Y, NEW rec, NEW todo, ShowsAt(q, cl, Y, rec, todo, Len(q.log), Len(q.log) + 1),
                   v.rec = rec, v.todo = todo
            PROVE  RunOk(v, q, cl, ca, Y)
        <4>1. Flushes(v, q, cl, Y)
          BY <3>2, <3>3 DEF Flushes
        <4> QED BY <4>1 DEF RunOk
      <3> QED BY <3>1, <3>3
    <2> QED BY <2>2, <2>3
  <1>2. PICK seg \in Segs :
              /\ Head(w.todo) = [type |-> "segment", value |-> seg]
              /\ q.mode # "whole" /\ ~cl /\ Forwards(w.rec, seg) =>
                    /\ Event(seg.kind, seg.text) \in EventSet
                    /\ Calm(q, Append(X, Event(seg.kind, seg.text)))
                    /\ ShowsAt(q, cl, Append(X, Event(seg.kind, seg.text)), Observe(w.rec, seg), Tail(w.todo), k, m)
              /\ q.mode = "whole" \/ cl \/ ~Forwards(w.rec, seg) =>
                    ShowsAt(q, cl, X, Observe(w.rec, seg), Tail(w.todo), k, m)
    BY <1>1, CallSegment
  <1>3. v.todo = Tail(w.todo) /\ v.rec = Observe(w.rec, seg)
    BY <1>2 DEF Goes1
  <1> QED BY <1>1, <1>2, <1>3 DEF Called

LEMMA RunCalls ==
    ASSUME NEW q, ExactLog(q.log), NEW cl \in BOOLEAN, NEW ca, NEW X, Calm(q, X), NEW w, NEW v,
           RunOk(w, q, cl, ca, X), w.phase \in {"decode", "flush"}, w.todo # <<>>, Goes1(w, v)
    PROVE  Called(q, cl, ca, X, w, v)
  <1>1. Begins(w, q, cl, X) \/ Counts(w, q, cl, X) \/ Shows(w, q, cl, X) \/ Flushes(w, q, cl, X)
    BY DEF RunOk, WasCut, Reports, Answers, Completes, Calling
  <1> QED BY <1>1, BeginsCalls, CountsCalls, ShowsCalls

-----------------------------------------------------------------------------
(* The loop.                                                                   *)

(* Between two tokens. *)
LEMMA Idle ==
    ASSUME NEW q, ExactLog(q.log), NEW cl \in BOOLEAN, NEW ca, NEW X, NEW w,
           RunOk(w, q, cl, ca, X), w.phase = "decode", w.todo = <<>>
    PROVE  w.at \in 0..(Len(q.log) - 1) /\ Sent(q, cl, X, w.rec, Account(q.log)[w.at], w.at + 2)
  <1>1. Len(q.log) \in Nat /\ Len(q.log) > 0
    BY LogIs
  <1>2. Begins(w, q, cl, X) \/ Counts(w, q, cl, X) \/ Shows(w, q, cl, X)
    BY DEF RunOk, WasCut, Reports, Answers, Completes, Calling, Flushes
  <1>3. CASE Begins(w, q, cl, X)
    <2>1. PICK m \in 0..2 : w.todo = [i \in 1..m |-> Progress(0)] /\ Sent(q, cl, X, w.rec, Account(q.log)[0], 2 - m)
      BY <1>3 DEF Begins
    <2>2. m = 0
      <3>1. Len(w.todo) = 0 /\ Len([i \in 1..m |-> Progress(0)]) = m
        OBVIOUS
      <3> QED BY <2>1, <3>1
    <2>3. w.at = 0 /\ 2 - 0 = 0 + 2
      BY <1>3 DEF Begins
    <2> QED BY <1>1, <2>1, <2>2, <2>3
  <1>4. CASE Counts(w, q, cl, X)
    <2>1. PICK o : Goes(q.log, w.at, o) /\ w.todo = <<Progress(w.at)>> \o SegRest(o, 0)
      BY <1>4 DEF Counts
    <2>2. o \in Seq(Segs) /\ 0 \in 0..Len(o)
      BY <2>1 DEF Goes
    <2>3. SegRest(o, 0) \in Seq(Items)
      BY <2>2, SegRestIs
    <2>4. w.todo # <<>>
      BY <2>1, <2>3, FrontOne
    <2> QED BY <2>4
  <1>5. CASE Shows(w, q, cl, X)
    <2>1. PICK k \in 1..(Len(q.log) - 1) : k = w.at /\ ShowsAt(q, cl, X, w.rec, w.todo, k, k + 2)
      BY <1>5 DEF Shows
    <2>2. PICK o : \E i \in 0..Len(o) : /\ Goes(q.log, k, o) /\ w.todo = SegRest(o, i)
                                        /\ Sent(q, cl, X, w.rec, At(q.log, k, o, i), k + 2)
      BY <2>1 DEF ShowsAt
    <2>3. PICK i \in 0..Len(o) : Goes(q.log, k, o) /\ w.todo = SegRest(o, i) /\ Sent(q, cl, X, w.rec, At(q.log, k, o, i), k + 2)
      BY <2>2
    <2>4. i = Len(o)
      <3>1. o \in Seq(Segs)
        BY <2>3 DEF Goes
      <3> QED BY <2>3, <3>1, SegRestNext
    <2>5. k \in 1..Len(q.log) /\ k \in 0..(Len(q.log) - 1)
      BY <1>1
    <2>6. At(q.log, k, o, Len(o)) = Account(q.log)[k]
      BY <2>3, <2>5, AtFacts
    <2> QED BY <2>1, <2>3, <2>4, <2>5, <2>6
  <1> QED BY <1>2, <1>3, <1>4, <1>5

LEMMA TokenBegins ==
    ASSUME NEW q, ExactLog(q.log), NEW cl \in BOOLEAN, NEW ca, NEW X, NEW w, NEW v,
           w.at \in 0..(Len(q.log) - 1), Sent(q, cl, X, w.rec, Account(q.log)[w.at], w.at + 2),
           w.at < Len(q.log) - 1, v.phase = "decode", v.at = w.at + 1, v.rec = w.rec,
           NEW out, out = q.log[w.at + 1].out,
           v.todo = <<Progress(w.at + 1)>> \o Segments(IF out = <<>> THEN <<Segment("text", <<>>)>> ELSE out)
    PROVE  RunOk(v, q, cl, ca, X)
  <1>1. Len(q.log) \in Nat
    BY LogIs
  <1>2. PICK k \in 1..(Len(q.log) - 1) : k = w.at + 1
    BY <1>1
  <1>3. k \in 1..Len(q.log) /\ k - 1 = w.at /\ k + 1 = w.at + 2 /\ v.at = k
    <2>1. PICK a \in 0..(Len(q.log) - 1) : a = w.at
      OBVIOUS
    <2>2. k = a + 1 /\ v.at = a + 1
      BY <1>2, <2>1
    <2>3. k \in 1..Len(q.log) /\ k - 1 = a /\ k + 1 = a + 2
      BY <1>1, <2>2
    <2> QED BY <2>1, <2>2, <2>3
  <1>4. PICK o : o = IF out = <<>> THEN <<Segment("text", <<>>)>> ELSE out
    OBVIOUS
  <1>5. Goes(q.log, k, o)
    <2>1. CASE out = <<>>
      BY <1>2, <1>3, <1>4, <2>1, GoesOnNothing
    <2>2. CASE out # <<>>
      BY <1>2, <1>3, <1>4, <2>2, AccountStep
    <2> QED BY <2>1, <2>2
  <1>6. Segments(o) = SegRest(o, 0)
    BY <1>5, SegmentsAre DEF Goes
  <1>7. v.todo = <<Progress(v.at)>> \o SegRest(o, 0)
    BY <1>2, <1>3, <1>4, <1>6
  <1>8. Sent(q, cl, X, v.rec, Account(q.log)[v.at - 1], v.at + 1)
    BY <1>3
  <1>9. Counts(v, q, cl, X)
    BY <1>3, <1>5, <1>7, <1>8 DEF Counts
  <1> QED BY <1>9 DEF RunOk

LEMMA FlushBegins ==
    ASSUME NEW q, ExactLog(q.log), NEW cl \in BOOLEAN, NEW ca, NEW X, NEW w, NEW v,
           Sent(q, cl, X, w.rec, Account(q.log)[w.at], w.at + 2),
           w.at = Len(q.log) - 1, v.phase = "flush", v.at = w.at, v.rec = w.rec,
           v.todo = Segments(q.log[Len(q.log)].out)
    PROVE  RunOk(v, q, cl, ca, X)
  <1>1. PICK n \in Nat : n = Len(q.log) /\ n > 0
    BY LogIs
  <1>2. n \in 1..Len(q.log) /\ w.at = n - 1 /\ w.at + 2 = n + 1
    BY <1>1
  <1>3. PICK o : o = q.log[n].out
    OBVIOUS
  <1>4. Goes(q.log, n, o)
    BY <1>2, <1>3, AccountStep
  <1>5. o \in Seq(Segs) /\ 0 \in 0..Len(o)
    BY <1>4 DEF Goes
  <1>6. v.todo = SegRest(o, 0)
    BY <1>1, <1>3, <1>5, SegmentsAre
  <1>7. At(q.log, n, o, 0) = Account(q.log)[n - 1]
    BY <1>2, <1>4, AtFacts
  <1>8. Sent(q, cl, X, v.rec, At(q.log, n, o, 0), n + 1)
    BY <1>2, <1>7
  <1>9. ShowsAt(q, cl, X, v.rec, v.todo, n, n + 1)
    BY <1>4, <1>5, <1>6, <1>8 DEF ShowsAt
  <1>10. Flushes(v, q, cl, X)
    BY <1>1, <1>2, <1>9 DEF Flushes
  <1> QED BY <1>10 DEF RunOk

LEMMA OneLess ==
    ASSUME NEW n \in Nat, n > 0, n # 1
    PROVE  n - 1 \in Nat /\ n - 1 >= 1
  OBVIOUS

(* When the flush was not cut short, everything was streamed. *)
LEMMA FlushEnds ==
    ASSUME NEW q, ExactLog(q.log), NEW cl \in BOOLEAN, NEW ca, NEW X, NEW w,
           RunOk(w, q, cl, ca, X), w.phase = "flush", w.todo = <<>>, ~Cancelled(q, cl, ca)
    PROVE  /\ w.at = Len(q.log) - 1
           /\ Numbered(q.log[Max({w.at, 1})].reply, w.at) = FullReply(q.log)
           /\ Sent(q, cl, X, w.rec, Account(q.log)[Len(q.log)], Len(q.log) + 1)
  <1>1. PICK n \in Nat : n = Len(q.log) /\ n > 0
    BY LogIs
  <1>2. Flushes(w, q, cl, X)
    BY DEF RunOk, WasCut, Reports, Answers, Completes, Calling, Begins, Counts, Shows
  <1>3. w.at = n - 1 /\ ShowsAt(q, cl, X, w.rec, w.todo, n, n + 1)
    BY <1>1, <1>2 DEF Flushes
  <1>4. PICK o : \E i \in 0..Len(o) : /\ Goes(q.log, n, o) /\ w.todo = SegRest(o, i)
                                      /\ Sent(q, cl, X, w.rec, At(q.log, n, o, i), n + 1)
    BY <1>3 DEF ShowsAt
  <1>5. PICK i \in 0..Len(o) : Goes(q.log, n, o) /\ w.todo = SegRest(o, i) /\ Sent(q, cl, X, w.rec, At(q.log, n, o, i), n + 1)
    BY <1>4
  <1>6. i = Len(o)
    <2>1. o \in Seq(Segs)
      BY <1>5 DEF Goes
    <2> QED BY <1>5, <2>1, SegRestNext
  <1>7. At(q.log, n, o, Len(o)) = Account(q.log)[n]
    <2>1. n \in 1..Len(q.log)
      BY <1>1
    <2> QED BY <1>5, <2>1, AtFacts
  <1>8. Sent(q, cl, X, w.rec, Account(q.log)[Len(q.log)], Len(q.log) + 1)
    BY <1>1, <1>5, <1>6, <1>7
  <1>9. Max({w.at, 1}) = IF n = 1 THEN 1 ELSE n - 1
    <2>1. CASE n = 1
      <3>1. {w.at, 1} \in SUBSET Nat /\ 1 \in {w.at, 1} /\ \A y \in {w.at, 1} : y <= 1
        BY <1>3, <2>1
      <3> QED BY <2>1, <3>1, MaxIs
    <2>2. CASE n # 1
      <3>1. PICK a \in Nat : a = w.at /\ a = n - 1 /\ a >= 1
        <4>1. n - 1 \in Nat /\ n - 1 >= 1
          BY <1>1, <2>2, OneLess
        <4> QED BY <1>3, <4>1
      <3>2. {a, 1} \in SUBSET Nat /\ a \in {a, 1} /\ \A y \in {a, 1} : y <= a
        BY <3>1
      <3>3. Max({a, 1}) = a
        BY <3>2, MaxIs
      <3> QED BY <2>2, <3>1, <3>3
    <2> QED BY <2>1, <2>2
  <1>10. q.log[Max({w.at, 1})].reply = EndOf(q.log)
    BY <1>1, <1>9 DEF ExactLog, EndOf
  <1> QED BY <1>1, <1>3, <1>8, <1>10 DEF FullReply

-----------------------------------------------------------------------------
(* The terminal events.                                                        *)

LEMMA CallRestIs ==
    ASSUME NEW L, ExactLog(L), NEW m \in 0..Len(EndOf(L).calls)
    PROVE  /\ CallRest(L, m) \in Seq(EventSet) /\ Len(CallRest(L, m)) = Len(EndOf(L).calls) - m + 1
           /\ \A i \in 1..(Len(EndOf(L).calls) - m + 1) :
                 CallRest(L, m)[i] = IF i = Len(EndOf(L).calls) - m + 1 THEN Event("completed", FullReply(L))
                                     ELSE Event("call", EndOf(L).calls[m + i])
  <1>1. PICK c \in Seq(Valid) : c = EndOf(L).calls
    BY LogIs
  <1>2. PICK n \in Nat : n = Len(c) - m + 1
    <2>1. m \in 0..Len(c) /\ Len(c) \in Nat
      BY <1>1
    <2>2. Len(c) - m + 1 \in Nat
      BY <2>1
    <2> QED BY <2>2
  <1>3. PICK e \in EventSet : e = Event("completed", FullReply(L))
    BY EventSetHas
  <1>4. ASSUME NEW i \in 1..n PROVE (IF i = n THEN e ELSE Event("call", c[m + i])) \in EventSet
    <2>1. CASE i = n
      BY <2>1
    <2>2. CASE i # n
      <3>1. m + i \in 1..Len(c)
        BY <1>1, <1>2, <2>2
      <3>2. c[m + i] \in Valid
        BY <3>1
      <3> QED BY <2>2, <3>2, EventSetHas
    <2> QED BY <2>1, <2>2
  <1>5. CallRest(L, m) = [i \in 1..n |-> IF i = n THEN e ELSE Event("call", c[m + i])]
    BY <1>1, <1>2, <1>3 DEF CallRest
  <1>6. CallRest(L, m) \in Seq(EventSet) /\ Len(CallRest(L, m)) = n
    BY <1>4, <1>5
  <1>7. \A i \in 1..n : CallRest(L, m)[i] = IF i = n THEN e ELSE Event("call", c[m + i])
    BY <1>5
  <1> QED BY <1>1, <1>2, <1>3, <1>6, <1>7

LEMMA CallRestNext ==
    ASSUME NEW L, ExactLog(L), NEW m \in 0..Len(EndOf(L).calls)
    PROVE  /\ CallRest(L, m) # <<>>
           /\ m = Len(EndOf(L).calls) => Len(CallRest(L, m)) = 1 /\ Head(CallRest(L, m)) = Event("completed", FullReply(L))
           /\ m # Len(EndOf(L).calls) =>
                 /\ Len(CallRest(L, m)) # 1 /\ m + 1 \in 0..Len(EndOf(L).calls)
                 /\ EndOf(L).calls[m + 1] \in Valid
                 /\ Head(CallRest(L, m)) = Event("call", EndOf(L).calls[m + 1])
                 /\ Tail(CallRest(L, m)) = CallRest(L, m + 1)
  <1>1. PICK c \in Seq(Valid) : c = EndOf(L).calls
    BY LogIs
  <1>2. PICK s \in Seq(EventSet) : s = CallRest(L, m)
    BY CallRestIs
  <1>3. PICK n \in Nat : n = Len(c) - m + 1 /\ n >= 1
    <2>1. m \in 0..Len(c) /\ Len(c) \in Nat
      BY <1>1
    <2>2. Len(c) - m + 1 \in Nat /\ Len(c) - m + 1 >= 1
      BY <2>1
    <2> QED BY <2>2
  <1>4. Len(s) = n
    BY <1>1, <1>2, <1>3, CallRestIs
  <1>5. \A i \in 1..n : s[i] = IF i = n THEN Event("completed", FullReply(L)) ELSE Event("call", c[m + i])
    BY <1>1, <1>2, <1>3, CallRestIs
  <1>6. Head(s) = s[1] /\ s # <<>> /\ 1 \in 1..n
    BY <1>3, <1>4
  <1>7. CASE m = Len(c)
    <2>1. n = 1
      BY <1>1, <1>3, <1>7
    <2> QED BY <1>1, <1>2, <1>4, <1>5, <1>6, <1>7, <2>1
  <1>8. CASE m # Len(c)
    <2>1. m + 1 \in 0..Len(c) /\ n # 1 /\ c[m + 1] \in Valid /\ m \in Int /\ Len(c) \in Nat
      BY <1>1, <1>3, <1>8
    <2>2. PICK t \in Seq(EventSet) : t = CallRest(L, m + 1)
      BY <1>1, <2>1, CallRestIs
    <2>3. Len(t) = Len(c) - (m + 1) + 1
      BY <1>1, <2>1, <2>2, CallRestIs
    <2>4. \A i \in 1..(Len(c) - (m + 1) + 1) :
              t[i] = IF i = Len(c) - (m + 1) + 1 THEN Event("completed", FullReply(L)) ELSE Event("call", c[(m + 1) + i])
      BY <1>1, <2>1, <2>2, CallRestIs
    <2>5. Len(t) + 1 = n /\ Len(c) - (m + 1) + 1 = n - 1
      BY <1>3, <2>1, <2>3
    <2>6. ASSUME NEW i \in 1..Len(t) PROVE t[i] = s[i + 1]
      <3>1. i + 1 \in 1..n /\ i \in 1..(n - 1) /\ (i = n - 1 <=> i + 1 = n) /\ (m + 1) + i = m + (i + 1)
        BY <1>3, <2>1, <2>5
      <3>2. t[i] = IF i = n - 1 THEN Event("completed", FullReply(L)) ELSE Event("call", c[(m + 1) + i])
        BY <2>4, <2>5, <3>1
      <3>3. s[i + 1] = IF i + 1 = n THEN Event("completed", FullReply(L)) ELSE Event("call", c[m + (i + 1)])
        BY <1>5, <3>1
      <3> QED BY <3>1, <3>2, <3>3
    <2>7. Tail(s) = t
      BY <1>4, <2>5, <2>6, TailIs
    <2>8. Head(s) = Event("call", c[m + 1])
      BY <1>5, <1>6, <2>1
    <2> QED BY <1>1, <1>2, <1>4, <1>6, <1>8, <2>1, <2>2, <2>7, <2>8
  <1> QED BY <1>1, <1>7, <1>8, <1>2, <1>6

(* What Terminal makes of a reply. *)
LEMMA TerminalIs ==
    ASSUME NEW L, ExactLog(L), NEW c, c = EndOf(L).calls
    PROVE  /\ [i \in DOMAIN c |-> Event("call", c[i])] \o <<Event("completed", FullReply(L))>> = CallRest(L, 0)
           /\ <<>> \o [i \in DOMAIN c |-> Event("call", c[i])] \o <<Event("completed", FullReply(L))>> = CallRest(L, 0)
           /\ \A x : <<x>> \o [i \in DOMAIN c |-> Event("call", c[i])] \o <<Event("completed", FullReply(L))>>
                       = <<x>> \o CallRest(L, 0)
  <1>1. PICK d \in Seq(Valid) : d = c
    BY LogIs
  <1>2. PICK n \in Nat : n = Len(d) /\ DOMAIN d = 1..n
    OBVIOUS
  <1>3. PICK e \in EventSet : e = Event("completed", FullReply(L))
    BY EventSetHas
  <1>4. PICK s : s = [i \in 1..n |-> Event("call", d[i])]
    OBVIOUS
  <1>5. s \in Seq(EventSet) /\ Len(s) = n /\ \A i \in 1..n : s[i] = Event("call", d[i])
    <2>1. \A i \in 1..n : d[i] \in Valid
      BY <1>2
    <2>2. \A i \in 1..n : Event("call", d[i]) \in EventSet
      BY <2>1, EventSetHas
    <2> QED BY <1>4, <2>2
  <1>6. s = [i \in DOMAIN c |-> Event("call", c[i])]
    BY <1>1, <1>2, <1>4
  <1>7. PICK t : t = <<e>>
    OBVIOUS
  <1>8. t \in Seq(EventSet) /\ Len(t) = 1 /\ t[1] = e
    BY <1>7
  <1>9. PICK X : X = s \o t
    OBVIOUS
  <1>10. /\ X \in Seq(EventSet) /\ Len(X) = Len(s) + Len(t)
         /\ \A i \in 1..(Len(s) + Len(t)) : X[i] = IF i <= Len(s) THEN s[i] ELSE t[i - Len(s)]
    <2>1. s \in Seq(EventSet) /\ t \in Seq(EventSet)
      BY <1>5, <1>8
    <2> QED BY <1>9, <2>1, Joining
  <1>11. PICK Y \in Seq(EventSet) : Y = CallRest(L, 0)
    <2>1. 0 \in 0..Len(EndOf(L).calls)
      BY LogIs
    <2> QED BY <2>1, CallRestIs
  <1>12. Len(Y) = n + 1 /\ \A i \in 1..(n + 1) : Y[i] = IF i = n + 1 THEN e ELSE Event("call", d[i])
    <2>1. 0 \in 0..Len(EndOf(L).calls) /\ Len(EndOf(L).calls) = n /\ n - 0 + 1 = n + 1
      BY <1>1, <1>2
    <2>2. /\ Len(Y) = Len(EndOf(L).calls) - 0 + 1
          /\ \A i \in 1..(Len(EndOf(L).calls) - 0 + 1) :
                Y[i] = IF i = Len(EndOf(L).calls) - 0 + 1 THEN Event("completed", FullReply(L))
                       ELSE Event("call", EndOf(L).calls[0 + i])
      BY <1>11, <2>1, CallRestIs
    <2>3. \A i \in 1..(n + 1) : 0 + i = i
      OBVIOUS
    <2> QED BY <1>1, <1>3, <2>1, <2>2, <2>3
  <1>13. ASSUME NEW i \in 1..(n + 1) PROVE X[i] = Y[i]
    <2>1. CASE i = n + 1
      <3>1. i \in 1..(Len(s) + Len(t)) /\ ~(i <= Len(s)) /\ i - Len(s) = 1
        BY <1>5, <1>8, <2>1
      <3> QED BY <1>8, <1>10, <1>12, <2>1, <3>1
    <2>2. CASE i # n + 1
      <3>1. i \in 1..(Len(s) + Len(t)) /\ i <= Len(s) /\ i \in 1..n
        BY <1>5, <1>8, <2>2
      <3> QED BY <1>5, <1>10, <1>12, <2>2, <3>1
    <2> QED BY <2>1, <2>2
  <1>14. X = Y
    <2>1. Len(X) = n + 1
      BY <1>5, <1>8, <1>10
    <2> QED BY <1>10, <1>12, <1>13, <2>1, SeqEqual
  <1>15. <<>> \o s = s
    BY <1>5, ConcatEmptySeq
  <1>16. ASSUME NEW x PROVE <<x>> \o s \o t = <<x>> \o X
    <2>1. <<x>> \in Seq(EventSet \cup {x}) /\ s \in Seq(EventSet \cup {x}) /\ t \in Seq(EventSet \cup {x})
      BY <1>5, <1>8
    <2>2. (<<x>> \o s) \o t = <<x>> \o (s \o t)
      BY <2>1, ConcatAssociative
    <2> QED BY <1>9, <2>2
  <1> QED BY <1>3, <1>6, <1>7, <1>9, <1>11, <1>14, <1>15, <1>16

(* A flush that was not cut short is followed by what is left of the reply. *)
LEMMA FinishBegins ==
    ASSUME NEW q, ExactLog(q.log), NEW cl \in BOOLEAN, NEW ca, NEW X, Calm(q, X), q.mode # "whole", ~cl,
           NEW rec, Sent(q, cl, X, rec, Account(q.log)[Len(q.log)], Len(q.log) + 1),
           NEW reply, reply = FullReply(q.log)
    PROVE  /\ IsReconciled(rec, reply.text)
           /\ \A v : /\ v.phase = "deliver"
                     /\ v.todo = (IF Suffix(rec, reply.text) = <<>> THEN <<>> ELSE <<Event("text", Suffix(rec, reply.text))>>)
                                 \o [i \in DOMAIN reply.calls |-> Event("call", reply.calls[i])]
                                 \o <<Event("completed", reply)>>
                     => RunOk(v, q, cl, ca, X)
  <1>0. Len(q.log) \in 0..Len(q.log)
    BY LogIs
  <1>1. PICK x : x = Account(q.log)[Len(q.log)]
    OBVIOUS
  <1>2. Reaches(q.log, x) /\ x.thought = EndOf(q.log).reasoning
    BY <1>0, <1>1, AccountReaches
  <1>3. PICK t \in Seq(Symbols) : t = EndOf(q.log).text
    BY LogIs
  <1>4. PICK u \in Seq(Symbols) : u = rec.emitted /\ u = x.rec.emitted
    BY <1>1, <1>2 DEF Reaches, Sent
  <1>5. IsPrefix(u, t)
    BY <1>2, <1>3, <1>4 DEF Reaches
  <1>6. reply.text = t /\ reply.calls = EndOf(q.log).calls
    BY <1>3 DEF FullReply, Numbered
  <1>7. IsReconciled(rec, reply.text)
    BY <1>4, <1>5, <1>6 DEF IsReconciled
  <1>8. PICK rest \in Seq(Symbols) : rest = From(t, Len(u) + 1) /\ u \o rest = t
    BY <1>5, PrefixRest
  <1>9. Suffix(rec, reply.text) = rest
    BY <1>4, <1>6, <1>8 DEF Suffix
  <1>10. Of("text", X) = u /\ Settled(q, X) /\ Of("call", X) = <<>>
    BY <1>1, <1>2, <1>4 DEF Sent, Settled
  <1>11. ASSUME NEW v, v.phase = "deliver",
                v.todo = (IF rest = <<>> THEN <<>> ELSE <<Event("text", rest)>>)
                         \o [i \in DOMAIN reply.calls |-> Event("call", reply.calls[i])]
                         \o <<Event("completed", reply)>>
         PROVE  RunOk(v, q, cl, ca, X)
    <2>1. CASE rest = <<>>
      <3>1. v.todo = CallRest(q.log, 0)
        BY <1>6, <1>11, <2>1, TerminalIs
      <3>2. u = t
        BY <1>8, <2>1, ConcatEmpty
      <3>3. 0 \in 0..Len(EndOf(q.log).calls) /\ SubSeq(EndOf(q.log).calls, 1, 0) = <<>>
        BY LogIs
      <3>4. Calling(v, q, cl, X)
        BY <1>3, <1>10, <1>11, <3>1, <3>2, <3>3 DEF Calling
      <3> QED BY <3>4 DEF RunOk
    <2>2. CASE rest # <<>>
      <3>1. v.todo = <<Event("text", rest)>> \o CallRest(q.log, 0)
        <4>1. PICK c : c = EndOf(q.log).calls
          OBVIOUS
        <4>2. PICK first : first = Event("text", rest)
          OBVIOUS
        <4>3. v.todo = <<first>> \o [i \in DOMAIN c |-> Event("call", c[i])] \o <<Event("completed", FullReply(q.log))>>
          BY <1>6, <1>11, <2>2, <4>1, <4>2
        <4>4. v.todo = <<first>> \o CallRest(q.log, 0)
          <5>1. \A y : <<y>> \o [i \in DOMAIN c |-> Event("call", c[i])] \o <<Event("completed", FullReply(q.log))>>
                         = <<y>> \o CallRest(q.log, 0)
            BY <4>1, TerminalIs
          <5>2. <<first>> \o [i \in DOMAIN c |-> Event("call", c[i])] \o <<Event("completed", FullReply(q.log))>>
                  = <<first>> \o CallRest(q.log, 0)
            BY <5>1
          <5> QED BY <4>3, <5>2
        <4> QED BY <4>2, <4>4
      <3>2. Completes(v, q, cl, X)
        BY <1>3, <1>8, <1>10, <1>11, <3>1 DEF Completes
      <3> QED BY <3>2 DEF RunOk
    <2> QED BY <2>1, <2>2
  <1> QED BY <1>7, <1>9, <1>11

(* Each delivery. *)
LEMMA RunDelivers ==
    ASSUME NEW q, ExactLog(q.log), NEW ca, NEW X, Calm(q, X), NEW w,
           RunOk(w, q, FALSE, ca, X), w.phase = "deliver"
    PROVE  /\ Head(w.todo) \in EventSet
           /\ Len(w.todo) = 1 => /\ Fits(q, X, Head(w.todo))
                                 /\ Head(w.todo) = Event("error", "cancelled") => Cancelled(q, FALSE, ca)
           /\ Len(w.todo) # 1 =>
                 /\ Calm(q, Append(X, Head(w.todo)))
                 /\ \A v : v.phase = "deliver" /\ v.todo = Tail(w.todo) =>
                              RunOk(v, q, FALSE, ca, Append(X, Head(w.todo)))
  <1>0. Event("error", "failed") # Event("error", "cancelled")
        /\ \A v : Event("completed", v) # Event("error", "cancelled")
    <2>1. /\ Event("error", "failed").value = "failed" /\ Event("error", "cancelled").value = "cancelled"
          /\ Event("error", "cancelled").type = "error" /\ \A v : Event("completed", v).type = "completed"
      BY DEF Event
    <2> QED BY <2>1
  <1>1. Reports(w, q, FALSE, ca) \/ Answers(w, q) \/ Completes(w, q, FALSE, X) \/ Calling(w, q, FALSE, X)
    BY DEF RunOk, WasCut, Begins, Counts, Shows, Flushes
  <1>2. \A e : Len(<<e>>) = 1 /\ Head(<<e>>) = e
    OBVIOUS
  <1>3. CASE Reports(w, q, FALSE, ca)
    <2>1. CASE w.todo = <<Event("error", "failed")>>
      BY <1>0, <1>2, <2>1, EventSetHas DEF Fits
    <2>2. CASE w.todo = <<Event("error", "cancelled")>> /\ Cancelled(q, FALSE, ca)
      BY <1>2, <2>2, EventSetHas DEF Fits
    <2> QED BY <1>3, <2>1, <2>2 DEF Reports
  <1>4. CASE Answers(w, q)
    <2>1. w.todo = <<Event("completed", FullReply(q.log))>> /\ q.mode = "whole"
      BY <1>4 DEF Answers
    <2>2. Fits(q, X, Event("completed", FullReply(q.log)))
      BY <2>1 DEF Fits
    <2> QED BY <1>0, <1>2, <2>1, <2>2, EventSetHas
  <1>5. CASE Completes(w, q, FALSE, X)
    <2>1. PICK rest \in Seq(Symbols) :
              /\ w.todo = <<Event("text", rest)>> \o CallRest(q.log, 0)
              /\ Settled(q, X) /\ Of("call", X) = <<>> /\ Of("text", X) \o rest = EndOf(q.log).text
      BY <1>5 DEF Completes
    <2>2. q.mode # "whole"
      BY <1>5 DEF Completes
    <2>3. 0 \in 0..Len(EndOf(q.log).calls) /\ SubSeq(EndOf(q.log).calls, 1, 0) = <<>>
      BY LogIs
    <2>4. CallRest(q.log, 0) \in Seq(EventSet) /\ CallRest(q.log, 0) # <<>>
      BY <2>3, CallRestIs, CallRestNext
    <2>5. PICK e \in EventSet : e = Event("text", rest)
      BY EventSetHas
    <2>6. Head(w.todo) = e /\ Tail(w.todo) = CallRest(q.log, 0) /\ Len(w.todo) # 1
      <3>1. PICK s \in Seq(EventSet) : s = CallRest(q.log, 0) /\ s # <<>>
        BY <2>4
      <3>2. Len(s) \in Nat /\ Len(s) # 0
        BY <3>1
      <3>3. Head(<<e>> \o s) = e /\ Tail(<<e>> \o s) = s /\ Len(<<e>> \o s) = Len(s) + 1
        BY FrontOne
      <3> QED BY <2>1, <2>5, <3>1, <3>2, <3>3
    <2>7. Calm(q, Append(X, e))
      <3>1. IsPrefix(EndOf(q.log).text, EndOf(q.log).text)
        BY LogIs, PrefixRefl
      <3> QED BY <2>1, <2>2, <2>5, <3>1, CalmText
    <2>8. ASSUME NEW v, v.phase = "deliver", v.todo = CallRest(q.log, 0) PROVE RunOk(v, q, FALSE, ca, Append(X, e))
      <3>1. PICK Y : Y = Append(X, e)
        OBVIOUS
      <3>2. /\ Of("text", Y) = Of("text", X) \o rest /\ Of("reasoning", Y) = Of("reasoning", X)
            /\ Of("call", Y) = Of("call", X) /\ Of("progress", Y) = Of("progress", X)
        BY <2>5, <3>1, AddText DEF Calm
      <3>3. Settled(q, Y)
        BY <2>1, <3>2 DEF Settled
      <3>4. Calling(v, q, FALSE, Y)
        BY <2>1, <2>2, <2>3, <2>8, <3>2, <3>3 DEF Calling
      <3> QED BY <3>1, <3>4 DEF RunOk
    <2> QED BY <2>6, <2>7, <2>8
  <1>6. CASE Calling(w, q, FALSE, X)
    <2>1. PICK c \in Seq(Valid) : c = EndOf(q.log).calls
      BY LogIs
    <2>2. PICK m \in 0..Len(c) :
              /\ w.todo = CallRest(q.log, m) /\ Settled(q, X) /\ Of("text", X) = EndOf(q.log).text
              /\ Of("call", X) = SubSeq(c, 1, m)
      BY <1>6, <2>1 DEF Calling
    <2>3. q.mode # "whole"
      BY <1>6 DEF Calling
    <2>4. CASE m = Len(c)
      <3>1. Len(w.todo) = 1 /\ Head(w.todo) = Event("completed", FullReply(q.log))
        BY <2>1, <2>2, <2>4, CallRestNext
      <3>2. SubSeq(c, 1, Len(c)) = c
        OBVIOUS
      <3>3. Fits(q, X, Event("completed", FullReply(q.log)))
        BY <2>1, <2>2, <2>4, <3>2 DEF Fits, Settled
      <3> QED BY <1>0, <3>1, <3>3, EventSetHas
    <2>5. CASE m # Len(c)
      <3>1. /\ Len(w.todo) # 1 /\ m + 1 \in 0..Len(c) /\ c[m + 1] \in Valid
            /\ Head(w.todo) = Event("call", c[m + 1]) /\ Tail(w.todo) = CallRest(q.log, m + 1)
        BY <2>1, <2>2, <2>5, CallRestNext
      <3>2. PICK x \in Valid : x = c[m + 1]
        BY <3>1
      <3>3. PICK e \in EventSet : e = Event("call", x)
        BY EventSetHas
      <3>4. Append(SubSeq(c, 1, m), x) = SubSeq(c, 1, m + 1)
        BY <3>1, <3>2
      <3>5. IsPrefix(SubSeq(c, 1, m + 1), c)
        <4>1. \A i \in 1..(m + 1) : c[i] \in Valid
          BY <3>1
        <4>2. PICK d : d = SubSeq(c, 1, m + 1)
          OBVIOUS
        <4>3. d \in Seq(Valid)
          BY <3>1, <4>1, <4>2, SubSeqProperties
        <4>4. Len(d) = m + 1 /\ \A i \in 1..(m + 1) : d[i] = c[i]
          BY <3>1, <4>2
        <4>5. Len(d) <= Len(c)
          BY <3>1, <4>4
        <4> QED BY <4>2, <4>3, <4>4, <4>5, PrefixIs
      <3>6. Calm(q, Append(X, e))
        BY <2>1, <2>2, <2>3, <3>3, <3>4, <3>5, CalmCall
      <3>7. ASSUME NEW v, v.phase = "deliver", v.todo = CallRest(q.log, m + 1) PROVE RunOk(v, q, FALSE, ca, Append(X, e))
        <4>1. PICK Y : Y = Append(X, e)
          OBVIOUS
        <4>2. /\ Of("text", Y) = Of("text", X) /\ Of("reasoning", Y) = Of("reasoning", X)
              /\ Of("call", Y) = Append(Of("call", X), x) /\ Of("progress", Y) = Of("progress", X)
          BY <3>3, <4>1, AddCall DEF Calm
        <4>3. Settled(q, Y)
          BY <2>2, <4>2 DEF Settled
        <4>4. Of("call", Y) = SubSeq(c, 1, m + 1) /\ Of("text", Y) = EndOf(q.log).text
          BY <2>2, <3>4, <4>2
        <4>5. Calling(v, q, FALSE, Y)
          BY <2>1, <2>3, <3>1, <3>7, <4>3, <4>4 DEF Calling
        <4> QED BY <4>1, <4>5 DEF RunOk
      <3> QED BY <3>1, <3>2, <3>3, <3>6, <3>7
    <2> QED BY <2>4, <2>5
  <1> QED BY <1>1, <1>3, <1>4, <1>5, <1>6

-----------------------------------------------------------------------------
(* One job.                                                                    *)

LEMMA EmptyIs ==
    <<>> \in Seq(EventSet) /\ Len(<<>>) = 0 /\ Len(<<>>) <= Cap /\ <<>> \o <<>> = <<>>
  <1>1. Cap \in Nat
    BY StreamsConstants
  <1> QED BY <1>1

LEMMA JobIdle ==
    ASSUME NEW q, NEW st \in {"idle", "refused"}
    PROVE  JobOk(q, st, <<>>, FALSE, FALSE, "none", <<>>)
  BY EmptyIs DEF JobOk, Stopping

LEMMA JobSubmitted ==
    ASSUME NEW q, ExactLog(q.log), q.mode \in {"native", "rig", "whole"}
    PROVE  JobOk(q, "queued", <<>>, FALSE, FALSE, "reading", <<>>)
  BY EmptyIs, CalmEmpty DEF JobOk, Stopping

LEMMA JobReceives ==
    ASSUME NEW q, NEW st, NEW ch, NEW cl, NEW ca, NEW us, NEW g, JobOk(q, st, ch, cl, ca, us, g), ch # <<>>
    PROVE  /\ JobOk(q, st, Tail(ch), cl, ca, us, Append(g, Head(ch)))
           /\ Append(g, Head(ch)) \o Tail(ch) = g \o ch
  <1>1. ch \in Seq(EventSet) /\ g \in Seq(EventSet) /\ Len(ch) <= Cap
    BY DEF JobOk
  <1>2. PICK c : c = Tail(ch)
    OBVIOUS
  <1>3. PICK h : h = Append(g, Head(ch))
    OBVIOUS
  <1>4. h \o c = g \o ch /\ h \in Seq(EventSet) /\ c \in Seq(EventSet) /\ Len(c) <= Cap
    <2>1. h \o c = g \o ch /\ h \in Seq(EventSet) /\ c \in Seq(EventSet) /\ Len(c) <= Len(ch)
      BY <1>1, <1>2, <1>3, ReceiveOne
    <2>2. Len(c) \in Nat /\ Len(ch) \in Nat /\ Cap \in Nat
      BY <1>1, <2>1, StreamsConstants
    <2> QED BY <1>1, <2>1, <2>2
  <1>5. st \notin {"idle", "refused", "queued"}
    BY DEF JobOk
  <1>6. JobOk(q, st, c, cl, ca, us, h)
    BY <1>4, <1>5 DEF JobOk
  <1> QED BY <1>2, <1>3, <1>4, <1>6

LEMMA JobLeft ==
    ASSUME NEW q, NEW st, NEW ch, NEW cl, NEW ca, NEW us, NEW g, JobOk(q, st, ch, cl, ca, us, g), us # "none",
           NEW h \in {"waiting", "over"}
    PROVE  JobOk(q, st, <<>>, cl, ca, h, <<>>)
  <1>1. st \notin {"idle", "refused"}
    BY DEF JobOk
  <1>2. ExactLog(q.log)
    BY <1>1 DEF JobOk
  <1>3. Calm(q, <<>>) /\ History(q, <<>>)
    BY <1>2, CalmEmpty
  <1> QED BY <1>1, <1>3, EmptyIs DEF JobOk, Stopping

LEMMA JobLeaves ==
    ASSUME NEW q, NEW st, NEW ch, NEW cl, NEW ca, NEW g, JobOk(q, st, ch, cl, ca, "reading", g),
           NEW how \in Stopping, NEW nc \in BOOLEAN, nc <=> q.mode # "rig"
    PROVE  JobOk(q, st, ch, cl, nc, how, g)
  <1>1. st \notin {"idle", "refused"} /\ ~cl
    BY DEF JobOk
  <1>2. how # "none" /\ how # "reading"
    BY DEF Stopping
  <1> QED BY <1>1, <1>2 DEF JobOk

LEMMA JobCloses ==
    ASSUME NEW q, NEW st, NEW ch, NEW cl, NEW ca, NEW us \in Stopping, NEW g, JobOk(q, st, ch, cl, ca, us, g)
    PROVE  /\ JobOk(q, st, ch, TRUE, ca, "cancelled", g)
           /\ \A h \in {"waiting", "over"} : JobOk(q, st, <<>>, TRUE, ca, h, <<>>)
  <1>1. us # "none" /\ us # "reading"
    BY DEF Stopping
  <1>2. st \notin {"idle", "refused"} /\ (q.mode # "rig" => ca)
    BY <1>1 DEF JobOk
  <1>3. JobOk(q, st, ch, TRUE, ca, "cancelled", g)
    BY <1>2 DEF JobOk, Stopping
  <1>4. \A h \in {"waiting", "over"} : JobOk(q, st, <<>>, TRUE, ca, h, <<>>)
    BY <1>3, JobLeft
  <1> QED BY <1>3, <1>4

LEMMA JobWaited ==
    ASSUME NEW q, NEW st, NEW ch, NEW cl, NEW ca, NEW g, JobOk(q, st, ch, cl, ca, "waiting", g)
    PROVE  JobOk(q, st, ch, cl, ca, "over", g)
  BY DEF JobOk, Stopping

LEMMA JobTaken ==
    ASSUME NEW q, NEW ch, NEW cl, NEW ca, NEW us, NEW g, JobOk(q, "queued", ch, cl, ca, us, g)
    PROVE  /\ JobOk(q, "running", ch, cl, ca, us, g)
           /\ cl \/ ca => JobOk(q, "ended", ch, cl, ca, us, g)
  BY DEF JobOk

LEMMA JobSends ==
    ASSUME NEW q, NEW ch, NEW cl, NEW ca, NEW us, NEW g, JobOk(q, "running", ch, cl, ca, us, g),
           NEW e \in EventSet, Calm(q, Append(g \o ch, e)), Len(ch) < Cap
    PROVE  JobOk(q, "running", Append(ch, e), cl, ca, us, g) /\ g \o Append(ch, e) = Append(g \o ch, e)
  <1>1. ch \in Seq(EventSet) /\ g \in Seq(EventSet) /\ Calm(q, g \o ch) /\ History(q, g \o ch)
    BY DEF JobOk
  <1>2. PICK c : c = Append(ch, e)
    OBVIOUS
  <1>3. g \o c = Append(g \o ch, e) /\ c \in Seq(EventSet) /\ Len(c) <= Cap
    <2>1. g \o c = Append(g \o ch, e) /\ c \in Seq(EventSet) /\ Len(c) = Len(ch) + 1
      BY <1>1, <1>2, SendOne
    <2>2. Len(ch) \in Nat /\ Cap \in Nat
      BY <1>1, StreamsConstants
    <2> QED BY <2>1, <2>2
  <1>4. History(q, g \o c) /\ Calm(q, g \o c)
    BY <1>1, <1>3, HistoryGrows
  <1>5. JobOk(q, "running", c, cl, ca, us, g)
    BY <1>3, <1>4 DEF JobOk
  <1> QED BY <1>2, <1>3, <1>5

LEMMA JobEnds ==
    ASSUME NEW q, NEW ch, NEW cl, NEW ca, NEW us, NEW g, JobOk(q, "running", ch, cl, ca, us, g)
    PROVE  /\ cl => JobOk(q, "ended", ch, cl, ca, us, g)
           /\ \A e \in EventSet :
                 /\ Fits(q, g \o ch, e) /\ Len(ch) < Cap
                 /\ e = Event("error", "cancelled") => Cancelled(q, cl, ca)
                 => JobOk(q, "ended", Append(ch, e), cl, ca, us, g)
  <1>1. ASSUME cl PROVE JobOk(q, "ended", ch, cl, ca, us, g)
    BY <1>1 DEF JobOk
  <1>2. ASSUME NEW e \in EventSet, Fits(q, g \o ch, e), Len(ch) < Cap,
               e = Event("error", "cancelled") => Cancelled(q, cl, ca)
        PROVE  JobOk(q, "ended", Append(ch, e), cl, ca, us, g)
    <2>1. ch \in Seq(EventSet) /\ g \in Seq(EventSet) /\ Calm(q, g \o ch) /\ History(q, g \o ch)
      BY DEF JobOk
    <2>2. PICK c : c = Append(ch, e)
      OBVIOUS
    <2>3. g \o c = Append(g \o ch, e) /\ c \in Seq(EventSet) /\ Len(c) <= Cap
      <3>1. g \o c = Append(g \o ch, e) /\ c \in Seq(EventSet) /\ Len(c) = Len(ch) + 1
        BY <2>1, <2>2, SendOne
      <3>2. Len(ch) \in Nat /\ Cap \in Nat
        BY <2>1, StreamsConstants
      <3> QED BY <1>2, <3>1, <3>2
    <2>4. History(q, g \o c) /\ Sealed(q, g \o c, e)
      BY <1>2, <2>1, <2>3, HistoryGrows
    <2>5. us = "reading" => e # Event("error", "cancelled")
      BY <1>2 DEF JobOk, Cancelled
    <2>6. JobOk(q, "ended", c, cl, ca, us, g)
      BY <2>3, <2>4, <2>5 DEF JobOk
    <2> QED BY <2>2, <2>6
  <1> QED BY <1>1, <1>2

(* The environment of the work. *)
LEMMA RunCancels ==
    ASSUME NEW w, NEW q, NEW cl, NEW ca, NEW X, RunOk(w, q, cl, ca, X), NEW nc, ca => nc
    PROVE  RunOk(w, q, cl, nc, X)
  <1>1. Cancelled(q, cl, ca) => Cancelled(q, cl, nc)
    BY DEF Cancelled
  <1>2. WasCut(w, q, cl, ca) => WasCut(w, q, cl, nc)
    BY <1>1 DEF WasCut
  <1>3. Reports(w, q, cl, ca) => Reports(w, q, cl, nc)
    BY <1>1 DEF Reports
  <1> QED BY <1>2, <1>3 DEF RunOk

LEMMA RunCloses ==
    ASSUME NEW w, NEW q, NEW cl, NEW ca, NEW X, RunOk(w, q, cl, ca, X), cl \in BOOLEAN, NEW Y
    PROVE  RunOk(w, q, TRUE, ca, Y)
  <1>1. Cancelled(q, cl, ca) => Cancelled(q, TRUE, ca)
    BY DEF Cancelled
  <1>2. WasCut(w, q, cl, ca) => WasCut(w, q, TRUE, ca)
    BY <1>1 DEF WasCut
  <1>3. Reports(w, q, cl, ca) => Reports(w, q, TRUE, ca)
    BY <1>1 DEF Reports
  <1>4. \A rec, x, m : Sent(q, cl, X, rec, x, m) => Sent(q, TRUE, Y, rec, x, m)
    BY DEF Sent
  <1>5. Begins(w, q, cl, X) => Begins(w, q, TRUE, Y)
    BY <1>4 DEF Begins
  <1>6. Counts(w, q, cl, X) => Counts(w, q, TRUE, Y)
    BY <1>4 DEF Counts
  <1>7. \A rec, todo, k, m : ShowsAt(q, cl, X, rec, todo, k, m) => ShowsAt(q, TRUE, Y, rec, todo, k, m)
    BY <1>4 DEF ShowsAt
  <1>8. Shows(w, q, cl, X) => Shows(w, q, TRUE, Y)
    BY <1>7 DEF Shows
  <1>9. Flushes(w, q, cl, X) => Flushes(w, q, TRUE, Y)
    BY <1>7 DEF Flushes
  <1>10. Completes(w, q, cl, X) => Completes(w, q, TRUE, Y)
    BY DEF Completes
  <1>11. Calling(w, q, cl, X) => Calling(w, q, TRUE, Y)
    BY DEF Calling
  <1> QED BY <1>2, <1>3, <1>5, <1>6, <1>8, <1>9, <1>10, <1>11 DEF RunOk

LEMMA RunStarts ==
    ASSUME NEW q, ExactLog(q.log), NEW cl, NEW ca, NEW w, w.phase = "decode", w.at = 0, w.rec = Reconciler,
           w.todo = <<Progress(0), Progress(0)>>
    PROVE  RunOk(w, q, cl, ca, <<>>)
  <1>1. w.todo = [i \in 1..2 |-> Progress(0)]
    <2>1. PICK p : p = Progress(0)
      OBVIOUS
    <2>2. <<p, p>> = [i \in 1..2 |-> p]
      OBVIOUS
    <2> QED BY <2>1, <2>2
  <1>2. Account(q.log)[0] = [rec |-> Reconciler, thought |-> <<>>]
    BY AccountGrowsOn
  <1>3. \A type : Of(type, <<>>) = <<>>
    BY TypedEmpty
  <1>4. Reconciler.emitted = <<>>
    BY DEF Reconciler
  <1>5. PICK x : x = Account(q.log)[0]
    OBVIOUS
  <1>6. x.rec = Reconciler /\ x.thought = <<>>
    BY <1>2, <1>5
  <1>7. Sent(q, cl, <<>>, w.rec, x, 2 - 2)
    <2>1. 2 - 2 = 0 /\ Count(0) = <<>>
      BY CountIs
    <2> QED BY <1>3, <1>4, <1>6, <2>1 DEF Sent
  <1>8. 2 \in 0..2
    OBVIOUS
  <1>9. Begins(w, q, cl, <<>>)
    BY <1>1, <1>5, <1>7, <1>8 DEF Begins
  <1> QED BY <1>9 DEF RunOk

-----------------------------------------------------------------------------
(* The steps.                                                                  *)

LEMMA WorkKept ==
    ASSUME WorkOk, UNCHANGED work,
           work # NoWork =>
               /\ request'[work.job] = request[work.job] /\ state'[work.job] = state[work.job]
               /\ RunOk(work, request[work.job], closed'[work.job], cancelled'[work.job],
                        got'[work.job] \o channel'[work.job])
    PROVE  WorkOk'
  BY DEF WorkOk

LEMMA OthersKept ==
    ASSUME NEW j \in Jobs, JobsOk,
           \A i \in Jobs : i # j =>
              /\ request'[i] = request[i] /\ state'[i] = state[i] /\ channel'[i] = channel[i]
              /\ closed'[i] = closed[i] /\ cancelled'[i] = cancelled[i] /\ user'[i] = user[i] /\ got'[i] = got[i],
           JobOk(request'[j], state'[j], channel'[j], closed'[j], cancelled'[j], user'[j], got'[j])
    PROVE  JobsOk'
  <1>1. ASSUME NEW i \in Jobs
        PROVE  JobOk(request'[i], state'[i], channel'[i], closed'[i], cancelled'[i], user'[i], got'[i])
    <2>1. JobOk(request[i], state[i], channel[i], closed[i], cancelled[i], user[i], got[i])
      BY DEF JobsOk
    <2>2. CASE i = j
      BY <2>2
    <2>3. CASE i # j
      BY <2>1, <2>3
    <2> QED BY <2>2, <2>3
  <1> QED BY <1>1 DEF JobsOk

LEMMA InitHolds ==
    ASSUME Init
    PROVE  StreamsInv
  <1>1. Shapes
    <2>1. <<>> \in Seq(Jobs) /\ Len(<<>>) = 0 /\ QueueSize \in Nat /\ MaxFaults \in Nat
      BY StreamsConstants
    <2> QED BY <2>1 DEF Init, Shapes
  <1>2. JobsOk
    <2>1. ASSUME NEW j \in Jobs
          PROVE  JobOk(request[j], state[j], channel[j], closed[j], cancelled[j], user[j], got[j])
      <3>1. /\ state[j] = "idle" /\ channel[j] = <<>> /\ closed[j] = FALSE /\ cancelled[j] = FALSE
            /\ user[j] = "none" /\ got[j] = <<>>
        BY DEF Init
      <3> QED BY <3>1, JobIdle
    <2> QED BY <2>1 DEF JobsOk
  <1>3. QueueOk
    <2>1. queue = <<>> /\ Len(<<>>) = 0 /\ 1..0 = {}
      BY DEF Init
    <2> QED BY <2>1 DEF QueueOk
  <1>4. WorkOk
    BY DEF Init, WorkOk
  <1> QED BY <1>1, <1>2, <1>3, <1>4 DEF StreamsInv

LEMMA SubmitHolds ==
    ASSUME StreamsInv, RequestsAreExact, NEW j \in Jobs, NEW r \in Requests[j], Submit(j, r)
    PROVE  StreamsInv'
  <1>0. Shapes /\ JobsOk /\ QueueOk /\ WorkOk
    BY DEF StreamsInv
  <1>1. PICK q : q = [mode |-> r.mode, log |-> Log(r)]
    OBVIOUS
  <1>2. q.mode \in {"native", "rig", "whole"} /\ q.log = Log(r) /\ DOMAIN q = {"mode", "log"}
    BY <1>1, StreamsConstants
  <1>3. ExactLog(q.log)
    <2>1. ReplyIsExact(r) /\ r.tokens \in Seq(Seq(Symbols))
      BY StreamsConstants DEF RequestsAreExact
    <2> QED BY <1>2, <2>1, LogIsExact
  <1>4. /\ state[j] = "idle" /\ request' = [request EXCEPT ![j] = q]
        /\ UNCHANGED <<open, thread, work, channel, closed, cancelled, got, faults>>
    BY <1>1 DEF Submit
  <1>5. channel[j] = <<>> /\ got[j] = <<>> /\ closed[j] = FALSE /\ cancelled[j] = FALSE /\ user[j] = "none"
    <2>1. closed[j] \in BOOLEAN /\ cancelled[j] \in BOOLEAN
      BY <1>0 DEF Shapes
    <2> QED BY <1>0, <1>4, <2>1 DEF JobsOk, JobOk
  <1>6. request'[j] = q /\ (\A i \in Jobs : i # j => request'[i] = request[i]) /\ DOMAIN request' = Jobs
    BY <1>0, <1>4 DEF Shapes
  <1>7. work # NoWork => work.job \in Jobs /\ work.job # j
    BY <1>0, <1>4 DEF WorkOk
  <1>8. CASE Len(queue) < QueueSize
    <2>1. /\ queue' = Append(queue, j) /\ state' = [state EXCEPT ![j] = "queued"]
          /\ user' = [user EXCEPT ![j] = "reading"]
      BY <1>8 DEF Submit
    <2>2. /\ state'[j] = "queued" /\ user'[j] = "reading"
          /\ \A i \in Jobs : i # j => state'[i] = state[i] /\ user'[i] = user[i]
      BY <1>0, <2>1 DEF Shapes
    <2>3. JobsOk'
      <3>1. JobOk(request'[j], state'[j], channel'[j], closed'[j], cancelled'[j], user'[j], got'[j])
        BY <1>2, <1>3, <1>4, <1>5, <1>6, <2>2, JobSubmitted
      <3> QED BY <1>0, <1>4, <1>6, <2>2, <3>1, OthersKept
    <2>4. /\ queue' \in Seq(Jobs) /\ Len(queue') = Len(queue) + 1 /\ Len(queue) \in Nat
          /\ queue'[Len(queue) + 1] = j /\ \A i \in 1..Len(queue) : queue'[i] = queue[i]
      BY <1>0, <2>1, AppendProperties DEF Shapes
    <2>5. Shapes'
      <3>1. Len(queue') <= QueueSize
        BY <1>8, <2>4, StreamsConstants
      <3>2. state' \in [Jobs -> {"idle", "refused", "queued", "running", "ended"}]
        BY <1>0, <2>1 DEF Shapes
      <3>3. user' \in [Jobs -> {"none", "reading", "cancelled", "waiting", "over"} \cup Leaves]
        BY <1>0, <2>1 DEF Shapes
      <3>4. \A i \in Jobs : DOMAIN request'[i] = {"mode", "log"} /\ request'[i].mode \in {"none", "native", "rig", "whole"}
        BY <1>0, <1>2, <1>6 DEF Shapes
      <3> QED BY <1>0, <1>4, <1>6, <2>4, <3>1, <3>2, <3>3, <3>4 DEF Shapes
    <2>6. QueueOk'
      <3>1. \A i \in 1..Len(queue) : queue[i] \in Jobs /\ state[queue[i]] = "queued" /\ queue[i] # j
        BY <1>0, <1>4 DEF QueueOk, Shapes
      <3>2. \A i \in 1..Len(queue') : i \in 1..Len(queue) \/ i = Len(queue) + 1
        BY <2>4
      <3>3. \A i \in 1..Len(queue') : state'[queue'[i]] = "queued"
        BY <2>2, <2>4, <3>1, <3>2
      <3>4. ASSUME NEW i \in 1..Len(queue'), NEW k \in 1..Len(queue'), queue'[i] = queue'[k] PROVE i = k
        <4>1. CASE i \in 1..Len(queue) /\ k \in 1..Len(queue)
          BY <1>0, <2>4, <3>4, <4>1 DEF QueueOk
        <4>2. CASE i = Len(queue) + 1 /\ k \in 1..Len(queue)
          BY <2>4, <3>1, <3>4, <4>2
        <4>3. CASE i \in 1..Len(queue) /\ k = Len(queue) + 1
          BY <2>4, <3>1, <3>4, <4>3
        <4> QED BY <3>2, <4>1, <4>2, <4>3
      <3> QED BY <3>3, <3>4 DEF QueueOk
    <2>7. WorkOk'
      BY <1>0, <1>4, <1>6, <1>7, <2>2, WorkKept DEF WorkOk
    <2> QED BY <2>3, <2>5, <2>6, <2>7 DEF StreamsInv
  <1>9. CASE ~(Len(queue) < QueueSize)
    <2>1. state' = [state EXCEPT ![j] = "refused"] /\ UNCHANGED <<queue, user>>
      BY <1>9 DEF Submit
    <2>2. state'[j] = "refused" /\ \A i \in Jobs : i # j => state'[i] = state[i]
      BY <1>0, <2>1 DEF Shapes
    <2>3. JobsOk'
      <3>1. JobOk(request'[j], state'[j], channel'[j], closed'[j], cancelled'[j], user'[j], got'[j])
        BY <1>4, <1>5, <2>1, <2>2, JobIdle
      <3> QED BY <1>0, <1>4, <1>6, <2>1, <2>2, <3>1, OthersKept
    <2>5. Shapes'
      <3>2. state' \in [Jobs -> {"idle", "refused", "queued", "running", "ended"}]
        BY <1>0, <2>1 DEF Shapes
      <3>4. \A i \in Jobs : DOMAIN request'[i] = {"mode", "log"} /\ request'[i].mode \in {"none", "native", "rig", "whole"}
        BY <1>0, <1>2, <1>6 DEF Shapes
      <3> QED BY <1>0, <1>4, <1>6, <2>1, <3>2, <3>4 DEF Shapes
    <2>6. QueueOk'
      <3>1. \A i \in 1..Len(queue) : queue[i] \in Jobs /\ state[queue[i]] = "queued" /\ queue[i] # j
        BY <1>0, <1>4 DEF QueueOk, Shapes
      <3> QED BY <1>0, <2>1, <2>2, <3>1 DEF QueueOk
    <2>7. WorkOk'
      BY <1>0, <1>4, <1>6, <1>7, <2>2, WorkKept DEF WorkOk
    <2> QED BY <2>3, <2>5, <2>6, <2>7 DEF StreamsInv
  <1> QED BY <1>8, <1>9

(* A caller's step leaves the queue, the states and the work alone. *)
LEMMA CallerHolds ==
    ASSUME StreamsInv, NEW j \in Jobs,
           UNCHANGED <<queue, thread, request, state, work, faults>>, open' = open,
           DOMAIN channel' = Jobs, DOMAIN got' = Jobs,
           closed' \in [Jobs -> BOOLEAN], cancelled' \in [Jobs -> BOOLEAN],
           user' \in [Jobs -> {"none", "reading", "cancelled", "waiting", "over"} \cup Leaves],
           \A i \in Jobs : i # j =>
              /\ channel'[i] = channel[i] /\ closed'[i] = closed[i] /\ cancelled'[i] = cancelled[i]
              /\ user'[i] = user[i] /\ got'[i] = got[i],
           JobOk(request[j], state[j], channel'[j], closed'[j], cancelled'[j], user'[j], got'[j]),
           \A w : /\ state[j] = "running"
                  /\ RunOk(w, request[j], closed[j], cancelled[j], got[j] \o channel[j])
                  => RunOk(w, request[j], closed'[j], cancelled'[j], got'[j] \o channel'[j])
    PROVE  StreamsInv'
  <1>0. Shapes /\ JobsOk /\ QueueOk /\ WorkOk
    BY DEF StreamsInv
  <1>1. Shapes'
    BY <1>0 DEF Shapes
  <1>2. JobsOk'
    BY <1>0, OthersKept
  <1>3. QueueOk'
    BY <1>0 DEF QueueOk
  <1>4. WorkOk'
    <2>1. ASSUME work # NoWork
          PROVE  RunOk(work, request[work.job], closed'[work.job], cancelled'[work.job], got'[work.job] \o channel'[work.job])
      <3>1. /\ work.job \in Jobs /\ state[work.job] = "running"
            /\ RunOk(work, request[work.job], closed[work.job], cancelled[work.job], got[work.job] \o channel[work.job])
        BY <1>0, <2>1 DEF WorkOk
      <3>2. CASE work.job = j
        BY <3>1, <3>2
      <3>3. CASE work.job # j
        BY <3>1, <3>3
      <3> QED BY <3>2, <3>3
    <2> QED BY <1>0, <2>1, WorkKept
  <1> QED BY <1>1, <1>2, <1>3, <1>4 DEF StreamsInv

LEMMA DropClientsHolds ==
    ASSUME StreamsInv, DropClients
    PROVE  StreamsInv'
  <1>1. open' \in BOOLEAN /\ UNCHANGED <<queue, thread, request, state, work, channel, faults, closed, cancelled, user, got>>
    BY DEF DropClients, callers
  <1>2. Shapes' /\ JobsOk' /\ QueueOk' /\ WorkOk'
    BY <1>1 DEF StreamsInv, Shapes, JobsOk, QueueOk, WorkOk
  <1> QED BY <1>2 DEF StreamsInv

LEMMA ReceiveHolds ==
    ASSUME StreamsInv, NEW j \in Jobs, Receive(j)
    PROVE  StreamsInv'
  <1>0. Shapes /\ JobsOk
    BY DEF StreamsInv
  <1>1. /\ channel[j] # <<>> /\ got' = [got EXCEPT ![j] = Append(got[j], Head(channel[j]))]
        /\ channel' = [channel EXCEPT ![j] = Tail(channel[j])]
        /\ UNCHANGED <<open, queue, thread, request, state, work, closed, cancelled, user, faults>>
    BY DEF Receive
  <1>2. /\ got'[j] = Append(got[j], Head(channel[j])) /\ channel'[j] = Tail(channel[j])
        /\ DOMAIN channel' = Jobs /\ DOMAIN got' = Jobs
        /\ \A i \in Jobs : i # j => channel'[i] = channel[i] /\ got'[i] = got[i]
    BY <1>0, <1>1 DEF Shapes
  <1>3. JobOk(request[j], state[j], channel[j], closed[j], cancelled[j], user[j], got[j])
    BY <1>0 DEF JobsOk
  <1>4. /\ JobOk(request[j], state[j], channel'[j], closed[j], cancelled[j], user[j], got'[j])
        /\ got'[j] \o channel'[j] = got[j] \o channel[j]
    BY <1>1, <1>2, <1>3, JobReceives
  <1>5. /\ closed' \in [Jobs -> BOOLEAN] /\ cancelled' \in [Jobs -> BOOLEAN]
        /\ user' \in [Jobs -> {"none", "reading", "cancelled", "waiting", "over"} \cup Leaves]
    BY <1>0, <1>1 DEF Shapes
  <1> QED BY <1>1, <1>2, <1>4, <1>5, CallerHolds

LEMMA ReceiveEndHolds ==
    ASSUME StreamsInv, NEW j \in Jobs, ReceiveEnd(j)
    PROVE  StreamsInv'
  <1>0. Shapes /\ JobsOk
    BY DEF StreamsInv
  <1>1. /\ user[j] # "none" /\ channel[j] = <<>> /\ (state[j] = "ended" \/ closed[j])
        /\ user' = [user EXCEPT ![j] = "over"] /\ got' = [got EXCEPT ![j] = <<>>]
        /\ UNCHANGED <<open, queue, thread, request, state, work, channel, closed, cancelled, faults>>
    BY DEF ReceiveEnd
  <1>2. /\ got'[j] = <<>> /\ user'[j] = "over" /\ DOMAIN channel' = Jobs /\ DOMAIN got' = Jobs
        /\ \A i \in Jobs : i # j => user'[i] = user[i] /\ got'[i] = got[i]
    BY <1>0, <1>1 DEF Shapes
  <1>3. JobOk(request[j], state[j], channel[j], closed[j], cancelled[j], user[j], got[j])
    BY <1>0 DEF JobsOk
  <1>4. JobOk(request[j], state[j], channel'[j], closed[j], cancelled[j], user'[j], got'[j])
    BY <1>1, <1>2, <1>3, JobLeft
  <1>5. /\ closed' \in [Jobs -> BOOLEAN] /\ cancelled' \in [Jobs -> BOOLEAN] /\ closed[j] \in BOOLEAN
    BY <1>0, <1>1 DEF Shapes
  <1>6. user' \in [Jobs -> {"none", "reading", "cancelled", "waiting", "over"} \cup Leaves]
    BY <1>0, <1>1 DEF Shapes
  <1>7. ASSUME NEW w, state[j] = "running", RunOk(w, request[j], closed[j], cancelled[j], got[j] \o channel[j])
        PROVE  RunOk(w, request[j], closed'[j], cancelled'[j], got'[j] \o channel'[j])
    <2>1. closed[j] = TRUE
      BY <1>1, <1>5, <1>7
    <2>2. RunOk(w, request[j], TRUE, cancelled[j], got'[j] \o channel'[j])
      BY <1>5, <1>7, RunCloses
    <2> QED BY <1>1, <2>1, <2>2
  <1> QED BY <1>1, <1>2, <1>4, <1>5, <1>6, <1>7, CallerHolds

LEMMA LeaveHolds ==
    ASSUME StreamsInv, NEW j \in Jobs, NEW how \in Leaves, Leave(j, how)
    PROVE  StreamsInv'
  <1>0. Shapes /\ JobsOk
    BY DEF StreamsInv
  <1>1. /\ user[j] = "reading" /\ user' = [user EXCEPT ![j] = how]
        /\ cancelled' = [cancelled EXCEPT ![j] = request[j].mode # "rig"]
        /\ UNCHANGED <<open, queue, thread, request, state, work, channel, closed, got, faults>>
    BY DEF Leave
  <1>2. PICK nc \in BOOLEAN : nc = (request[j].mode # "rig")
    OBVIOUS
  <1>3. /\ user'[j] = how /\ cancelled'[j] = nc /\ DOMAIN channel' = Jobs /\ DOMAIN got' = Jobs
        /\ \A i \in Jobs : i # j => user'[i] = user[i] /\ cancelled'[i] = cancelled[i]
    BY <1>0, <1>1, <1>2 DEF Shapes
  <1>4. JobOk(request[j], state[j], channel[j], closed[j], cancelled[j], "reading", got[j])
    BY <1>0, <1>1 DEF JobsOk
  <1>5. how \in Stopping
    BY StreamsConstants DEF Stopping
  <1>6. JobOk(request[j], state[j], channel'[j], closed'[j], cancelled'[j], user'[j], got'[j])
    <2>1. JobOk(request[j], state[j], channel[j], closed[j], nc, how, got[j])
      BY <1>2, <1>4, <1>5, JobLeaves
    <2> QED BY <1>1, <1>3, <2>1
  <1>7. closed' \in [Jobs -> BOOLEAN] /\ cancelled' \in [Jobs -> BOOLEAN]
    <2>1. cancelled' = [cancelled EXCEPT ![j] = nc]
      BY <1>1, <1>2
    <2> QED BY <1>0, <1>1, <2>1 DEF Shapes
  <1>8. user' \in [Jobs -> {"none", "reading", "cancelled", "waiting", "over"} \cup Leaves]
    BY <1>0, <1>1 DEF Shapes
  <1>9. ~cancelled[j]
    BY <1>4 DEF JobOk
  <1>10. ASSUME NEW w, RunOk(w, request[j], closed[j], cancelled[j], got[j] \o channel[j])
         PROVE  RunOk(w, request[j], closed'[j], cancelled'[j], got'[j] \o channel'[j])
    BY <1>1, <1>9, <1>10, RunCancels
  <1> QED BY <1>1, <1>3, <1>6, <1>7, <1>8, <1>10, CallerHolds

LEMMA CloseHolds ==
    ASSUME StreamsInv, NEW j \in Jobs, Close(j)
    PROVE  StreamsInv'
  <1>0. Shapes /\ JobsOk
    BY DEF StreamsInv
  <1>1. PICK us \in Stopping : us = user[j]
    BY StreamsConstants DEF Close, Stopping
  <1>2. PICK to \in {"cancelled", "waiting", "over"} :
            /\ user' = [user EXCEPT ![j] = to]
            /\ us = "cancel" => to = "cancelled" /\ channel' = channel /\ got' = got
            /\ us # "cancel" => /\ to \in {"waiting", "over"}
                                /\ channel' = [channel EXCEPT ![j] = <<>>] /\ got' = [got EXCEPT ![j] = <<>>]
    <2>1. CASE us = "cancel"
      BY <1>1, <2>1 DEF Close
    <2>2. CASE us = "wait"
      BY <1>1, <2>2 DEF Close
    <2>3. CASE us = "drop"
      BY <1>1, <2>3 DEF Close
    <2> QED BY <2>1, <2>2, <2>3 DEF Stopping
  <1>3. /\ closed' = [closed EXCEPT ![j] = TRUE]
        /\ UNCHANGED <<open, queue, thread, request, state, work, cancelled, faults>>
    BY DEF Close
  <1>4. /\ user'[j] = to /\ closed'[j] = TRUE
        /\ \A i \in Jobs : i # j => user'[i] = user[i] /\ closed'[i] = closed[i]
    BY <1>0, <1>2, <1>3 DEF Shapes
  <1>5. /\ DOMAIN channel' = Jobs /\ DOMAIN got' = Jobs
        /\ \A i \in Jobs : i # j => channel'[i] = channel[i] /\ got'[i] = got[i]
        /\ us = "cancel" => channel'[j] = channel[j] /\ got'[j] = got[j]
        /\ us # "cancel" => channel'[j] = <<>> /\ got'[j] = <<>>
    BY <1>0, <1>2 DEF Shapes
  <1>6. JobOk(request[j], state[j], channel[j], closed[j], cancelled[j], us, got[j])
    BY <1>0, <1>1 DEF JobsOk
  <1>7. JobOk(request[j], state[j], channel'[j], closed'[j], cancelled'[j], user'[j], got'[j])
    <2>1. /\ JobOk(request[j], state[j], channel[j], TRUE, cancelled[j], "cancelled", got[j])
          /\ \A h \in {"waiting", "over"} : JobOk(request[j], state[j], <<>>, TRUE, cancelled[j], h, <<>>)
      BY <1>6, JobCloses
    <2> QED BY <1>2, <1>3, <1>4, <1>5, <2>1
  <1>8. closed' \in [Jobs -> BOOLEAN] /\ cancelled' \in [Jobs -> BOOLEAN] /\ closed[j] \in BOOLEAN
    BY <1>0, <1>3 DEF Shapes
  <1>9. user' \in [Jobs -> {"none", "reading", "cancelled", "waiting", "over"} \cup Leaves]
    BY <1>0, <1>2 DEF Shapes
  <1>10. ASSUME NEW w, RunOk(w, request[j], closed[j], cancelled[j], got[j] \o channel[j])
         PROVE  RunOk(w, request[j], closed'[j], cancelled'[j], got'[j] \o channel'[j])
    <2>1. cancelled'[j] = cancelled[j]
      BY <1>3
    <2> QED BY <1>4, <1>8, <1>10, <2>1, RunCloses
  <1> QED BY <1>3, <1>4, <1>5, <1>7, <1>8, <1>9, <1>10, CallerHolds

LEMMA WaitReturnsHolds ==
    ASSUME StreamsInv, NEW j \in Jobs, WaitReturns(j)
    PROVE  StreamsInv'
  <1>0. Shapes /\ JobsOk
    BY DEF StreamsInv
  <1>1. /\ user[j] = "waiting" /\ user' = [user EXCEPT ![j] = "over"]
        /\ UNCHANGED <<open, queue, thread, request, state, work, channel, closed, cancelled, got, faults>>
    BY DEF WaitReturns
  <1>2. user'[j] = "over" /\ \A i \in Jobs : i # j => user'[i] = user[i]
    BY <1>0, <1>1 DEF Shapes
  <1>3. JobOk(request[j], state[j], channel[j], closed[j], cancelled[j], "waiting", got[j])
    BY <1>0, <1>1 DEF JobsOk
  <1>4. JobOk(request[j], state[j], channel'[j], closed'[j], cancelled'[j], user'[j], got'[j])
    BY <1>1, <1>2, <1>3, JobWaited
  <1>5. /\ closed' \in [Jobs -> BOOLEAN] /\ cancelled' \in [Jobs -> BOOLEAN]
        /\ DOMAIN channel' = Jobs /\ DOMAIN got' = Jobs
    BY <1>0, <1>1 DEF Shapes
  <1>6. user' \in [Jobs -> {"none", "reading", "cancelled", "waiting", "over"} \cup Leaves]
    BY <1>0, <1>1 DEF Shapes
  <1> QED BY <1>1, <1>2, <1>4, <1>5, <1>6, CallerHolds

(* The thread goes on with its job, with or without an event. *)
LEMMA WorkHolds ==
    ASSUME StreamsInv, work # NoWork, NEW j \in Jobs, j = work.job,
           DOMAIN work' = Works, work'.job = j, faults' \in 0..MaxFaults,
           UNCHANGED <<open, queue, thread, request, state, closed, cancelled, user, got>>,
           DOMAIN channel' = Jobs, \A i \in Jobs : i # j => channel'[i] = channel[i],
           JobOk(request[j], "running", channel'[j], closed[j], cancelled[j], user[j], got[j]),
           RunOk(work', request[j], closed[j], cancelled[j], got[j] \o channel'[j])
    PROVE  StreamsInv'
  <1>0. Shapes /\ JobsOk /\ QueueOk /\ WorkOk
    BY DEF StreamsInv
  <1>1. state[j] = "running"
    BY <1>0 DEF WorkOk
  <1>2. Shapes'
    BY <1>0 DEF Shapes
  <1>3. JobsOk'
    BY <1>0, <1>1, OthersKept
  <1>4. QueueOk'
    BY <1>0 DEF QueueOk
  <1>5. WorkOk'
    BY <1>1 DEF WorkOk
  <1> QED BY <1>2, <1>3, <1>4, <1>5 DEF StreamsInv

LEMMA OnlyWorkHolds ==
    ASSUME StreamsInv, work # NoWork,
           DOMAIN work' = Works, work'.job = work.job, faults' \in 0..MaxFaults,
           UNCHANGED <<open, queue, thread, request, state, channel, closed, cancelled, user, got>>,
           RunOk(work', request[work.job], closed[work.job], cancelled[work.job], got[work.job] \o channel[work.job])
    PROVE  StreamsInv'
  <1>0. Shapes /\ JobsOk /\ QueueOk /\ WorkOk
    BY DEF StreamsInv
  <1>1. PICK j \in Jobs : j = work.job /\ state[j] = "running"
    BY <1>0 DEF WorkOk
  <1>2. JobOk(request[j], "running", channel'[j], closed[j], cancelled[j], user[j], got[j])
    BY <1>0, <1>1 DEF JobsOk
  <1>3. DOMAIN channel' = Jobs
    BY <1>0 DEF Shapes
  <1> QED BY <1>1, <1>2, <1>3, WorkHolds

LEMMA EndHolds ==
    ASSUME StreamsInv, work # NoWork, NEW j \in Jobs, j = work.job, Ended(j),
           UNCHANGED <<open, queue, thread, request, faults, closed, cancelled, user, got>>,
           DOMAIN channel' = Jobs, \A i \in Jobs : i # j => channel'[i] = channel[i],
           JobOk(request[j], "ended", channel'[j], closed[j], cancelled[j], user[j], got[j])
    PROVE  StreamsInv'
  <1>0. Shapes /\ JobsOk /\ QueueOk /\ WorkOk
    BY DEF StreamsInv
  <1>1. state[j] = "running"
    BY <1>0 DEF WorkOk
  <1>2. work' = NoWork /\ state' = [state EXCEPT ![j] = "ended"]
    BY DEF Ended
  <1>3. state'[j] = "ended" /\ \A i \in Jobs : i # j => state'[i] = state[i]
    BY <1>0, <1>2 DEF Shapes
  <1>4. Shapes'
    <2>1. state' \in [Jobs -> {"idle", "refused", "queued", "running", "ended"}]
      BY <1>0, <1>2 DEF Shapes
    <2> QED BY <1>0, <2>1 DEF Shapes
  <1>5. JobsOk'
    BY <1>0, <1>3, OthersKept
  <1>6. QueueOk'
    <2>1. \A i \in 1..Len(queue) : queue[i] \in Jobs /\ state[queue[i]] = "queued" /\ queue[i] # j
      BY <1>0, <1>1 DEF QueueOk, Shapes
    <2> QED BY <1>0, <1>3, <2>1 DEF QueueOk
  <1>7. WorkOk'
    BY <1>2 DEF WorkOk
  <1> QED BY <1>4, <1>5, <1>6, <1>7 DEF StreamsInv

(* What is known of the job that is run. *)
LEMMA Running ==
    ASSUME StreamsInv, work # NoWork
    PROVE  /\ work.job \in Jobs /\ DOMAIN work = Works /\ closed[work.job] \in BOOLEAN /\ faults \in 0..MaxFaults
           /\ JobOk(request[work.job], "running", channel[work.job], closed[work.job], cancelled[work.job],
                    user[work.job], got[work.job])
           /\ ExactLog(request[work.job].log) /\ request[work.job].mode \in {"native", "rig", "whole"}
           /\ Calm(request[work.job], got[work.job] \o channel[work.job])
           /\ RunOk(work, request[work.job], closed[work.job], cancelled[work.job], got[work.job] \o channel[work.job])
  <1>0. Shapes /\ JobsOk /\ QueueOk /\ WorkOk
    BY DEF StreamsInv
  <1>1. PICK j \in Jobs : j = work.job /\ state[j] = "running"
    BY <1>0 DEF WorkOk
  <1>2. JobOk(request[j], "running", channel[j], closed[j], cancelled[j], user[j], got[j])
    BY <1>0, <1>1 DEF JobsOk
  <1>3. /\ ExactLog(request[j].log) /\ request[j].mode \in {"native", "rig", "whole"}
        /\ Calm(request[j], got[j] \o channel[j])
    BY <1>2 DEF JobOk
  <1>4. closed[j] \in BOOLEAN /\ faults \in 0..MaxFaults
    BY <1>0 DEF Shapes
  <1>5. DOMAIN work = Works /\ RunOk(work, request[j], closed[j], cancelled[j], got[j] \o channel[j])
    BY <1>0, <1>1 DEF WorkOk
  <1> QED BY <1>1, <1>2, <1>3, <1>4, <1>5

LEMMA TakeJobHolds ==
    ASSUME StreamsInv, TakeJob
    PROVE  StreamsInv'
  <1>0. Shapes /\ JobsOk /\ QueueOk /\ WorkOk
    BY DEF StreamsInv
  <1>1. queue \in Seq(Jobs) /\ queue # <<>> /\ Len(queue) \in Nat /\ Len(queue) > 0 /\ Len(queue) <= QueueSize
    BY <1>0 DEF TakeJob, Shapes
  <1>2. PICK j : j = Head(queue)
    OBVIOUS
  <1>3. j \in Jobs /\ j = queue[1] /\ state[j] = "queued"
    <2>1. j = queue[1] /\ 1 \in 1..Len(queue)
      BY <1>1, <1>2
    <2>2. queue[1] \in Jobs /\ state[queue[1]] = "queued"
      BY <1>0, <1>1, <2>1 DEF QueueOk
    <2> QED BY <2>1, <2>2
  <1>4. /\ queue' \in Seq(Jobs) /\ Len(queue') = Len(queue) - 1 /\ \A i \in 1..(Len(queue) - 1) : queue'[i] = queue[i + 1]
    <2>1. queue' = Tail(queue)
      BY DEF TakeJob
    <2> QED BY <1>1, <2>1, HeadTailProperties
  <1>5. UNCHANGED <<open, thread, request, channel, faults, closed, cancelled, user, got>>
    BY DEF TakeJob, callers
  <1>6. ASSUME NEW i \in 1..Len(queue')
        PROVE  i + 1 \in 1..Len(queue) /\ queue'[i] = queue[i + 1] /\ queue'[i] \in Jobs /\ queue'[i] # j
    <2>1. i + 1 \in 1..Len(queue) /\ i \in 1..(Len(queue) - 1) /\ i + 1 # 1 /\ 1 \in 1..Len(queue)
      BY <1>1, <1>4
    <2>2. queue'[i] = queue[i + 1]
      BY <1>4, <2>1
    <2>3. queue[i + 1] \in Jobs /\ queue[i + 1] # queue[1]
      BY <1>0, <1>1, <2>1 DEF QueueOk
    <2> QED BY <1>3, <2>1, <2>2, <2>3
  <1>7. PICK to \in {"ended", "running"} :
            /\ state' = [state EXCEPT ![j] = to]
            /\ to = "ended" => IsStale(j) /\ work' = NoWork
            /\ to = "running" => work' = Started(j)
    <2>1. CASE IsStale(j)
      BY <1>2, <2>1 DEF TakeJob
    <2>2. CASE ~IsStale(j)
      BY <1>2, <2>2 DEF TakeJob
    <2> QED BY <2>1, <2>2
  <1>8. state'[j] = to /\ \A i \in Jobs : i # j => state'[i] = state[i]
    BY <1>0, <1>3, <1>7 DEF Shapes
  <1>9. JobOk(request[j], "queued", channel[j], closed[j], cancelled[j], user[j], got[j])
    BY <1>0, <1>3 DEF JobsOk
  <1>10. Shapes'
    <2>1. state' \in [Jobs -> {"idle", "refused", "queued", "running", "ended"}]
      BY <1>0, <1>7 DEF Shapes
    <2>2. Len(queue') <= QueueSize
      BY <1>1, <1>4, StreamsConstants
    <2> QED BY <1>0, <1>4, <1>5, <2>1, <2>2 DEF Shapes
  <1>11. JobsOk'
    <2>1. JobOk(request[j], to, channel[j], closed[j], cancelled[j], user[j], got[j])
      <3>1. IsStale(j) => closed[j] \/ cancelled[j]
        BY DEF IsStale
      <3>2. CASE to = "running"
        BY <1>9, <3>2, JobTaken
      <3>3. CASE to = "ended"
        BY <1>7, <1>9, <3>1, <3>3, JobTaken
      <3> QED BY <3>2, <3>3
    <2> QED BY <1>0, <1>3, <1>5, <1>8, <2>1, OthersKept
  <1>12. QueueOk'
    <2>1. \A i \in 1..Len(queue') : state'[queue'[i]] = "queued"
      BY <1>0, <1>6, <1>8 DEF QueueOk
    <2>2. ASSUME NEW i \in 1..Len(queue'), NEW k \in 1..Len(queue'), queue'[i] = queue'[k] PROVE i = k
      <3>1. i + 1 = k + 1
        BY <1>0, <1>6, <2>2 DEF QueueOk
      <3> QED BY <3>1
    <2> QED BY <2>1, <2>2 DEF QueueOk
  <1>13. WorkOk'
    <2>1. CASE to = "ended"
      BY <1>7, <2>1 DEF WorkOk
    <2>2. CASE to = "running"
      <3>1. PICK w : w = Started(j)
        OBVIOUS
      <3>2. /\ DOMAIN w = Works /\ w.job = j /\ w.phase = "decode" /\ w.at = 0 /\ w.rec = Reconciler
            /\ w.todo = <<Progress(0), Progress(0)>>
        BY <3>1 DEF Started, Works
      <3>3. ExactLog(request[j].log) /\ got[j] = <<>> /\ channel[j] = <<>>
        BY <1>9 DEF JobOk
      <3>4. got[j] \o channel[j] = <<>>
        BY <3>3, EmptyIs
      <3>5. RunOk(w, request[j], closed[j], cancelled[j], got[j] \o channel[j])
        BY <3>2, <3>3, <3>4, RunStarts
      <3>6. work' = w
        BY <1>7, <2>2, <3>1
      <3> QED BY <1>3, <1>5, <1>8, <2>2, <3>2, <3>5, <3>6 DEF WorkOk
    <2> QED BY <2>1, <2>2
  <1> QED BY <1>10, <1>11, <1>12, <1>13 DEF StreamsInv

LEMMA ExitHolds ==
    ASSUME StreamsInv, Exit
    PROVE  StreamsInv'
  <1>1. thread' \in BOOLEAN /\ UNCHANGED <<open, queue, request, state, work, channel, faults, closed, cancelled, user, got>>
    BY DEF Exit, callers
  <1>2. Shapes' /\ JobsOk' /\ QueueOk' /\ WorkOk'
    BY <1>1 DEF StreamsInv, Shapes, JobsOk, QueueOk, WorkOk
  <1> QED BY <1>2 DEF StreamsInv

LEMMA CallbackHolds ==
    ASSUME StreamsInv, Callback
    PROVE  StreamsInv'
  <1>0. work # NoWork /\ work.phase \in {"decode", "flush"} /\ work.todo # <<>>
    BY DEF Callback
  <1>1. PICK j \in Jobs : j = work.job
    BY <1>0, Running
  <1>2. PICK q : q = request[j]
    OBVIOUS
  <1>3. PICK X : X = got[j] \o channel[j]
    OBVIOUS
  <1>4. /\ DOMAIN work = Works /\ closed[j] \in BOOLEAN /\ faults \in 0..MaxFaults
        /\ JobOk(q, "running", channel[j], closed[j], cancelled[j], user[j], got[j])
        /\ ExactLog(q.log) /\ q.mode \in {"native", "rig", "whole"} /\ Calm(q, X)
        /\ RunOk(work, q, closed[j], cancelled[j], X)
    BY <1>0, <1>1, <1>2, <1>3, Running
  <1>5. PICK item : item = Head(work.todo)
    OBVIOUS
  <1>6. UNCHANGED <<open, queue, thread, request, state, faults, closed, cancelled, user, got>>
    BY DEF Callback, callers
  <1>7. DOMAIN channel = Jobs
    BY DEF StreamsInv, Shapes
  <1>8. CASE Refuses(j, item)
    <2>1. work' = [work EXCEPT !.phase = "flush", !.todo = <<>>] /\ channel' = channel
      BY <1>1, <1>5, <1>8 DEF Callback
    <2>2. DOMAIN work' = Works /\ work'.job = work.job /\ work'.phase = "flush" /\ work'.todo = <<>>
      BY <1>4, <2>1 DEF Works
    <2>3. Cancelled(q, closed[j], cancelled[j])
      BY <1>2, <1>4, <1>8 DEF Refuses, Cancelled
    <2>4. RunOk(work', q, closed[j], cancelled[j], X)
      BY <2>2, <2>3 DEF RunOk, WasCut
    <2> QED BY <1>0, <1>1, <1>2, <1>3, <1>4, <1>6, <2>1, <2>2, <2>4, OnlyWorkHolds
  <1>9. CASE ~Refuses(j, item)
    <2>1. /\ IF IsSent(j, item)
             THEN Send(j, IF item.type = "progress" THEN item ELSE Event(item.value.kind, item.value.text))
             ELSE channel' = channel
          /\ work' = [work EXCEPT !.todo = Tail(work.todo),
                        !.rec = IF item.type = "segment" THEN Observe(work.rec, item.value) ELSE work.rec]
      BY <1>1, <1>5, <1>9 DEF Callback
    <2>2. DOMAIN work' = Works /\ work'.job = j /\ Goes1(work, work')
      BY <1>1, <1>4, <1>5, <2>1 DEF Works, Goes1
    <2>3. Called(q, closed[j], cancelled[j], X, work, work')
      BY <1>0, <1>4, <2>2, RunCalls
    <2>4. ASSUME channel' = channel, RunOk(work', q, closed[j], cancelled[j], X)
          PROVE  StreamsInv'
      BY <1>0, <1>1, <1>2, <1>3, <1>4, <1>6, <2>2, <2>4, OnlyWorkHolds
    <2>5. ASSUME NEW e \in EventSet, Send(j, e), Calm(q, Append(X, e)),
                 RunOk(work', q, closed[j], cancelled[j], Append(X, e))
          PROVE  StreamsInv'
      <3>1. Len(channel[j]) < Cap /\ channel' = [channel EXCEPT ![j] = Append(channel[j], e)]
        BY <2>5 DEF Send
      <3>2. /\ channel'[j] = Append(channel[j], e) /\ DOMAIN channel' = Jobs
            /\ \A i \in Jobs : i # j => channel'[i] = channel[i]
        BY <1>7, <3>1
      <3>3. /\ JobOk(q, "running", channel'[j], closed[j], cancelled[j], user[j], got[j])
            /\ got[j] \o channel'[j] = Append(X, e)
        <4>1. /\ JobOk(q, "running", channel[j], closed[j], cancelled[j], user[j], got[j])
              /\ e \in EventSet /\ Calm(q, Append(got[j] \o channel[j], e)) /\ Len(channel[j]) < Cap
          BY <1>3, <1>4, <2>5, <3>1
        <4>2. JobOk(q, "running", Append(channel[j], e), closed[j], cancelled[j], user[j], got[j])
          BY <4>1, JobSends, Zenon
        <4>3. got[j] \in Seq(EventSet) /\ channel[j] \in Seq(EventSet)
          BY <4>1 DEF JobOk
        <4>4. got[j] \o Append(channel[j], e) = Append(got[j] \o channel[j], e)
          BY <4>1, <4>3, SendOne
        <4> QED BY <1>3, <4>2, <4>4, <3>2
      <3>4. RunOk(work', q, closed[j], cancelled[j], got[j] \o channel'[j])
        BY <2>5, <3>3
      <3> QED BY <1>0, <1>1, <1>2, <1>4, <1>6, <2>2, <3>2, <3>3, <3>4, WorkHolds
    <2>6. CASE /\ item.type = "progress" /\ item \in EventSet
               /\ q.mode = "native" /\ ~closed[j] =>
                      Calm(q, Append(X, item)) /\ RunOk(work', q, closed[j], cancelled[j], Append(X, item))
               /\ q.mode # "native" \/ closed[j] => RunOk(work', q, closed[j], cancelled[j], X)
      <3>1. IsSent(j, item) <=> q.mode = "native"
        BY <1>2, <2>6 DEF IsSent
      <3>2. CASE q.mode = "native"
        <4>1. ~closed[j]
          BY <1>2, <1>9, <3>2 DEF Refuses
        <4>2. Send(j, item)
          BY <2>1, <2>6, <3>1, <3>2
        <4> QED BY <2>5, <2>6, <3>2, <4>1, <4>2
      <3>3. CASE q.mode # "native"
        <4>1. channel' = channel
          BY <2>1, <3>1, <3>3
        <4> QED BY <2>4, <2>6, <3>3, <4>1
      <3> QED BY <3>2, <3>3
    <2>7. ASSUME NEW seg \in Segs,
                 item = [type |-> "segment", value |-> seg],
                 q.mode # "whole" /\ ~closed[j] /\ Forwards(work.rec, seg) =>
                    /\ Event(seg.kind, seg.text) \in EventSet
                    /\ Calm(q, Append(X, Event(seg.kind, seg.text)))
                    /\ RunOk(work', q, closed[j], cancelled[j], Append(X, Event(seg.kind, seg.text))),
                 q.mode = "whole" \/ closed[j] \/ ~Forwards(work.rec, seg) =>
                    RunOk(work', q, closed[j], cancelled[j], X)
          PROVE  StreamsInv'
      <3>1. item.type = "segment" /\ item.value = seg
        BY <2>7
      <3>2. IsSent(j, item) <=> q.mode # "whole" /\ Forwards(work.rec, seg)
        BY <1>2, <3>1 DEF IsSent
      <3>3. q.mode # "whole" => ~closed[j]
        BY <1>2, <1>4, <1>9, <3>1 DEF Refuses
      <3>4. CASE q.mode # "whole" /\ Forwards(work.rec, seg)
        <4>1. Send(j, Event(seg.kind, seg.text))
          BY <2>1, <3>1, <3>2, <3>4
        <4> QED BY <2>5, <2>7, <3>3, <3>4, <4>1
      <3>5. CASE ~(q.mode # "whole" /\ Forwards(work.rec, seg))
        <4>1. channel' = channel
          BY <2>1, <3>2, <3>5
        <4> QED BY <2>4, <2>7, <3>5, <4>1
      <3> QED BY <3>4, <3>5
    <2> QED BY <1>5, <2>3, <2>6, <2>7 DEF Called
  <1> QED BY <1>8, <1>9

(* The error ends the job. *)
LEMMA FailsHolds ==
    ASSUME StreamsInv, work # NoWork, NEW why \in {"failed", "cancelled"}, Fails(why),
           why = "cancelled" => IsCancelled(work.job), faults' \in 0..MaxFaults,
           UNCHANGED <<open, queue, thread, request, state, channel, closed, cancelled, user, got>>
    PROVE  StreamsInv'
  <1>1. DOMAIN work = Works
    BY Running
  <1>2. work' = [work EXCEPT !.phase = "deliver", !.todo = <<Event("error", why)>>]
    BY DEF Fails
  <1>3. DOMAIN work' = Works /\ work'.job = work.job /\ work'.phase = "deliver" /\ work'.todo = <<Event("error", why)>>
    BY <1>1, <1>2 DEF Works
  <1>4. why = "cancelled" => Cancelled(request[work.job], closed[work.job], cancelled[work.job])
    BY DEF IsCancelled, Cancelled
  <1>5. Reports(work', request[work.job], closed[work.job], cancelled[work.job])
    BY <1>3, <1>4 DEF Reports
  <1>6. RunOk(work', request[work.job], closed[work.job], cancelled[work.job], got[work.job] \o channel[work.job])
    BY <1>5 DEF RunOk
  <1> QED BY <1>3, <1>6, OnlyWorkHolds

LEMMA CheckpointHolds ==
    ASSUME StreamsInv, Checkpoint
    PROVE  StreamsInv'
  <1>1. /\ work # NoWork /\ IsCancelled(work.job) /\ Fails("cancelled")
        /\ UNCHANGED <<open, queue, thread, request, state, channel, faults, closed, cancelled, user, got>>
    BY DEF Checkpoint, Decodes, others, callers
  <1>2. faults' \in 0..MaxFaults
    BY <1>1, Running
  <1> QED BY <1>1, <1>2, FailsHolds

LEMMA NextTokenHolds ==
    ASSUME StreamsInv, NextToken
    PROVE  StreamsInv'
  <1>0. work # NoWork /\ work.phase = "decode" /\ work.todo = <<>>
    BY DEF NextToken, Decodes
  <1>1. PICK j \in Jobs : j = work.job
    BY <1>0, Running
  <1>2. PICK q : q = request[j]
    OBVIOUS
  <1>3. PICK X : X = got[j] \o channel[j]
    OBVIOUS
  <1>4. /\ DOMAIN work = Works /\ closed[j] \in BOOLEAN /\ faults \in 0..MaxFaults
        /\ ExactLog(q.log) /\ RunOk(work, q, closed[j], cancelled[j], X)
    BY <1>0, <1>1, <1>2, <1>3, Running
  <1>5. work.at \in 0..(Len(q.log) - 1) /\ Sent(q, closed[j], X, work.rec, Account(q.log)[work.at], work.at + 2)
    BY <1>0, <1>4, Idle
  <1>6. /\ work.at < Len(q.log) - 1
        /\ work' = [work EXCEPT !.at = work.at + 1, !.todo = Emitted(q.log[work.at + 1].out)]
        /\ UNCHANGED <<open, queue, thread, request, state, channel, faults, closed, cancelled, user, got>>
    BY <1>1, <1>2 DEF NextToken, Tokens, others, callers
  <1>7. PICK out : out = q.log[work.at + 1].out
    OBVIOUS
  <1>8. /\ DOMAIN work' = Works /\ work'.job = work.job /\ work'.phase = "decode" /\ work'.at = work.at + 1
        /\ work'.rec = work.rec /\ work'.todo = Emitted(out)
    BY <1>0, <1>4, <1>6, <1>7 DEF Works
  <1>9. work'.todo = <<Progress(work.at + 1)>> \o Segments(IF out = <<>> THEN <<Segment("text", <<>>)>> ELSE out)
    BY <1>8 DEF Emitted
  <1>10. RunOk(work', q, closed[j], cancelled[j], X)
    BY <1>4, <1>5, <1>6, <1>7, <1>8, <1>9, TokenBegins
  <1> QED BY <1>0, <1>1, <1>2, <1>3, <1>4, <1>6, <1>8, <1>10, OnlyWorkHolds

LEMMA FlushHolds ==
    ASSUME StreamsInv, Flush
    PROVE  StreamsInv'
  <1>0. work # NoWork /\ work.phase = "decode" /\ work.todo = <<>>
    BY DEF Flush, Decodes
  <1>1. PICK j \in Jobs : j = work.job
    BY <1>0, Running
  <1>2. PICK q : q = request[j]
    OBVIOUS
  <1>3. PICK X : X = got[j] \o channel[j]
    OBVIOUS
  <1>4. /\ DOMAIN work = Works /\ closed[j] \in BOOLEAN /\ faults \in 0..MaxFaults
        /\ ExactLog(q.log) /\ RunOk(work, q, closed[j], cancelled[j], X)
    BY <1>0, <1>1, <1>2, <1>3, Running
  <1>5. work.at \in 0..(Len(q.log) - 1) /\ Sent(q, closed[j], X, work.rec, Account(q.log)[work.at], work.at + 2)
    BY <1>0, <1>4, Idle
  <1>6. /\ work.at = Len(q.log) - 1
        /\ work' = [work EXCEPT !.phase = "flush", !.todo = Segments(q.log[Len(q.log)].out)]
        /\ UNCHANGED <<open, queue, thread, request, state, channel, faults, closed, cancelled, user, got>>
    BY <1>1, <1>2 DEF Flush, Tokens, Last, others, callers
  <1>7. /\ DOMAIN work' = Works /\ work'.job = work.job /\ work'.phase = "flush" /\ work'.at = work.at
        /\ work'.rec = work.rec /\ work'.todo = Segments(q.log[Len(q.log)].out)
    BY <1>4, <1>6 DEF Works
  <1>8. RunOk(work', q, closed[j], cancelled[j], X)
    BY <1>4, <1>5, <1>6, <1>7, FlushBegins
  <1> QED BY <1>0, <1>1, <1>2, <1>3, <1>4, <1>6, <1>7, <1>8, OnlyWorkHolds

LEMMA FinishHolds ==
    ASSUME StreamsInv, Finish
    PROVE  StreamsInv'
  <1>0. work # NoWork /\ work.phase = "flush" /\ work.todo = <<>>
    BY DEF Finish
  <1>1. PICK j \in Jobs : j = work.job
    BY <1>0, Running
  <1>2. PICK q : q = request[j]
    OBVIOUS
  <1>3. PICK X : X = got[j] \o channel[j]
    OBVIOUS
  <1>4. /\ DOMAIN work = Works /\ closed[j] \in BOOLEAN /\ faults \in 0..MaxFaults
        /\ ExactLog(q.log) /\ Calm(q, X) /\ RunOk(work, q, closed[j], cancelled[j], X)
    BY <1>0, <1>1, <1>2, <1>3, Running
  <1>5. UNCHANGED <<open, queue, thread, request, state, channel, faults, closed, cancelled, user, got>>
    BY DEF Finish, others, callers
  <1>6. PICK reply : reply = Numbered(q.log[Max({work.at, 1})].reply, work.at)
    OBVIOUS
  <1>7. IF IsCancelled(work.job) THEN Fails("cancelled")
        ELSE IF q.mode = "whole"
        THEN work' = [work EXCEPT !.phase = "deliver", !.todo = <<Event("completed", reply)>>]
        ELSE IF ~IsReconciled(work.rec, reply.text) THEN Fails("protocol")
        ELSE work' = [work EXCEPT !.phase = "deliver", !.todo = Terminal(reply)]
    BY <1>1, <1>2, <1>6 DEF Finish
  <1>8. CASE IsCancelled(work.job)
    <2>1. Fails("cancelled") /\ faults' \in 0..MaxFaults
      BY <1>4, <1>5, <1>7, <1>8
    <2> QED BY <1>0, <1>5, <1>8, <2>1, FailsHolds
  <1>9. CASE ~IsCancelled(work.job)
    <2>1. ~Cancelled(q, closed[j], cancelled[j])
      BY <1>1, <1>2, <1>9 DEF IsCancelled, Cancelled
    <2>2. reply = FullReply(q.log) /\ Sent(q, closed[j], X, work.rec, Account(q.log)[Len(q.log)], Len(q.log) + 1)
      BY <1>0, <1>4, <1>6, <2>1, FlushEnds
    <2>3. CASE q.mode = "whole"
      <3>1. work' = [work EXCEPT !.phase = "deliver", !.todo = <<Event("completed", reply)>>]
        BY <1>7, <1>9, <2>3
      <3>2. /\ DOMAIN work' = Works /\ work'.job = work.job /\ work'.phase = "deliver"
            /\ work'.todo = <<Event("completed", reply)>>
        BY <1>4, <3>1 DEF Works
      <3>3. RunOk(work', q, closed[j], cancelled[j], X)
        BY <2>2, <2>3, <3>2 DEF RunOk, Answers
      <3> QED BY <1>0, <1>1, <1>2, <1>3, <1>4, <1>5, <3>2, <3>3, OnlyWorkHolds
    <2>4. CASE q.mode # "whole"
      <3>1. ~closed[j]
        BY <2>1, <2>4 DEF Cancelled
      <3>2. /\ IsReconciled(work.rec, reply.text)
            /\ \A v : /\ v.phase = "deliver"
                      /\ v.todo = (IF Suffix(work.rec, reply.text) = <<>> THEN <<>> ELSE <<Event("text", Suffix(work.rec, reply.text))>>)
                                  \o [i \in DOMAIN reply.calls |-> Event("call", reply.calls[i])]
                                  \o <<Event("completed", reply)>>
                      => RunOk(v, q, closed[j], cancelled[j], X)
        BY <1>4, <2>2, <2>4, <3>1, FinishBegins
      <3>3. work' = [work EXCEPT !.phase = "deliver", !.todo = Terminal(reply)]
        BY <1>7, <1>9, <2>4, <3>2
      <3>4. /\ DOMAIN work' = Works /\ work'.job = work.job /\ work'.phase = "deliver"
            /\ work'.todo = Terminal(reply)
        BY <1>4, <3>3 DEF Works
      <3>5. RunOk(work', q, closed[j], cancelled[j], X)
        BY <3>2, <3>4 DEF Terminal
      <3> QED BY <1>0, <1>1, <1>2, <1>3, <1>4, <1>5, <3>4, <3>5, OnlyWorkHolds
    <2> QED BY <2>3, <2>4
  <1> QED BY <1>8, <1>9

LEMMA DeliverHolds ==
    ASSUME StreamsInv, Deliver
    PROVE  StreamsInv'
  <1>0. work # NoWork /\ work.phase = "deliver"
    BY DEF Deliver
  <1>1. PICK j \in Jobs : j = work.job
    BY <1>0, Running
  <1>2. PICK q : q = request[j]
    OBVIOUS
  <1>3. PICK X : X = got[j] \o channel[j]
    OBVIOUS
  <1>4. /\ DOMAIN work = Works /\ closed[j] \in BOOLEAN /\ faults \in 0..MaxFaults
        /\ JobOk(q, "running", channel[j], closed[j], cancelled[j], user[j], got[j])
        /\ ExactLog(q.log) /\ Calm(q, X) /\ RunOk(work, q, closed[j], cancelled[j], X)
    BY <1>0, <1>1, <1>2, <1>3, Running
  <1>5. UNCHANGED <<open, queue, thread, request, faults, closed, cancelled, user, got>>
    BY DEF Deliver, callers
  <1>6. DOMAIN channel = Jobs
    BY DEF StreamsInv, Shapes
  <1>7. CASE closed[j]
    <2>1. Ended(j) /\ channel' = channel
      BY <1>1, <1>7 DEF Deliver
    <2>2. JobOk(q, "ended", channel'[j], closed[j], cancelled[j], user[j], got[j])
      BY <1>4, <1>7, <2>1, JobEnds
    <2> QED BY <1>0, <1>1, <1>2, <1>5, <1>6, <2>1, <2>2, EndHolds
  <1>8. CASE ~closed[j]
    <2>1. PICK e : e = Head(work.todo)
      OBVIOUS
    <2>2. /\ Send(j, e)
          /\ IF Len(work.todo) = 1 THEN Ended(j)
             ELSE work' = [work EXCEPT !.todo = Tail(work.todo)] /\ UNCHANGED state
      BY <1>1, <1>8, <2>1 DEF Deliver
    <2>3. closed[j] = FALSE
      BY <1>4, <1>8
    <2>4. /\ e \in EventSet
          /\ Len(work.todo) = 1 => /\ Fits(q, X, e)
                                   /\ e = Event("error", "cancelled") => Cancelled(q, closed[j], cancelled[j])
          /\ Len(work.todo) # 1 =>
                /\ Calm(q, Append(X, e))
                /\ \A v : v.phase = "deliver" /\ v.todo = Tail(work.todo) =>
                             RunOk(v, q, closed[j], cancelled[j], Append(X, e))
      <3>1. RunOk(work, q, FALSE, cancelled[j], X)
        BY <1>4, <2>3
      <3>2. /\ e \in EventSet
            /\ Len(work.todo) = 1 => /\ Fits(q, X, e)
                                     /\ e = Event("error", "cancelled") => Cancelled(q, FALSE, cancelled[j])
            /\ Len(work.todo) # 1 =>
                  /\ Calm(q, Append(X, e))
                  /\ \A v : v.phase = "deliver" /\ v.todo = Tail(work.todo) =>
                               RunOk(v, q, FALSE, cancelled[j], Append(X, e))
        BY <1>0, <1>4, <2>1, <3>1, RunDelivers
      <3> QED BY <2>3, <3>2
    <2>5. Len(channel[j]) < Cap /\ channel' = [channel EXCEPT ![j] = Append(channel[j], e)]
      BY <2>2 DEF Send
    <2>6. /\ channel'[j] = Append(channel[j], e) /\ DOMAIN channel' = Jobs
          /\ \A i \in Jobs : i # j => channel'[i] = channel[i]
      BY <1>6, <2>5
    <2>7. CASE Len(work.todo) = 1
      <3>1. JobOk(q, "ended", channel'[j], closed[j], cancelled[j], user[j], got[j])
        BY <1>3, <1>4, <2>4, <2>5, <2>6, <2>7, JobEnds
      <3>2. Ended(j)
        BY <2>2, <2>7
      <3> QED BY <1>0, <1>1, <1>2, <1>5, <2>6, <3>1, <3>2, EndHolds
    <2>8. CASE Len(work.todo) # 1
      <3>1. work' = [work EXCEPT !.todo = Tail(work.todo)] /\ UNCHANGED state
        BY <2>2, <2>8
      <3>2. DOMAIN work' = Works /\ work'.job = j /\ work'.phase = "deliver" /\ work'.todo = Tail(work.todo)
        BY <1>0, <1>1, <1>4, <3>1 DEF Works
      <3>3. /\ JobOk(q, "running", channel'[j], closed[j], cancelled[j], user[j], got[j])
            /\ got[j] \o channel'[j] = Append(X, e)
        <4>1. /\ JobOk(q, "running", channel[j], closed[j], cancelled[j], user[j], got[j])
              /\ e \in EventSet /\ Calm(q, Append(got[j] \o channel[j], e)) /\ Len(channel[j]) < Cap
          BY <1>3, <1>4, <2>4, <2>5, <2>8
        <4>2. JobOk(q, "running", Append(channel[j], e), closed[j], cancelled[j], user[j], got[j])
          BY <4>1, JobSends, Zenon
        <4>3. got[j] \in Seq(EventSet) /\ channel[j] \in Seq(EventSet)
          BY <4>1 DEF JobOk
        <4>4. got[j] \o Append(channel[j], e) = Append(got[j] \o channel[j], e)
          BY <4>1, <4>3, SendOne
        <4> QED BY <1>3, <4>2, <4>4, <2>6
      <3>4. RunOk(work', q, closed[j], cancelled[j], got[j] \o channel'[j])
        BY <2>4, <2>8, <3>2, <3>3
      <3>5. faults' \in 0..MaxFaults
        BY <1>4, <1>5
      <3> QED BY <1>0, <1>1, <1>2, <1>5, <2>6, <3>1, <3>2, <3>3, <3>4, <3>5, WorkHolds
    <2> QED BY <2>7, <2>8
  <1> QED BY <1>7, <1>8

LEMMA FaultHolds ==
    ASSUME StreamsInv, Fault
    PROVE  StreamsInv'
  <1>1. /\ work # NoWork /\ Fails("failed") /\ faults < MaxFaults /\ faults' = faults + 1
        /\ UNCHANGED <<open, queue, thread, request, state, channel, closed, cancelled, user, got>>
    BY DEF Fault, callers
  <1>2. faults' \in 0..MaxFaults
    BY <1>1, Running, StreamsConstants
  <1> QED BY <1>1, <1>2, FailsHolds

LEMMA NextHolds ==
    ASSUME StreamsInv, RequestsAreExact, [Next]_vars
    PROVE  StreamsInv'
  <1>1. CASE UNCHANGED vars
    <2>1. UNCHANGED <<open, queue, thread, request, state, work, channel, closed, cancelled, user, got, faults>>
      BY <1>1 DEF vars
    <2>2. Shapes' /\ JobsOk' /\ QueueOk' /\ WorkOk'
      BY <2>1 DEF StreamsInv, Shapes, JobsOk, QueueOk, WorkOk
    <2> QED BY <2>2 DEF StreamsInv
  <1>2. CASE \E j \in Jobs : \E r \in Requests[j] : Submit(j, r)
    BY <1>2, SubmitHolds
  <1>3. CASE DropClients
    BY <1>3, DropClientsHolds
  <1>4. CASE \E j \in Jobs, how \in Leaves : Leave(j, how)
    BY <1>4, LeaveHolds
  <1>5. CASE \E j \in Jobs : Caller(j)
    BY <1>5, ReceiveHolds, ReceiveEndHolds, CloseHolds, WaitReturnsHolds DEF Caller
  <1>6. CASE Worker
    BY <1>6, TakeJobHolds, ExitHolds, CallbackHolds, CheckpointHolds, NextTokenHolds, FlushHolds, FinishHolds,
       DeliverHolds DEF Worker, Generate
  <1>7. CASE Fault
    BY <1>7, FaultHolds
  <1> QED BY <1>1, <1>2, <1>3, <1>4, <1>5, <1>6, <1>7 DEF Next

-----------------------------------------------------------------------------
(* What the readers see.                                                       *)

(* Before the terminal event nothing is terminal.                              *)
LEMMA CalmReads ==
    ASSUME NEW q, NEW g, Calm(q, g), g # <<>>
    PROVE  /\ Len(g) \in 1..Len(g) /\ DOMAIN g = 1..Len(g)
           /\ Last(g) = g[Len(g)] /\ Last(g).type # "completed"
           /\ \A i \in DOMAIN g : g[i].type # "completed" /\ g[i] # Event("error", "protocol")
  <1>1. g \in Seq(EventSet) /\ \A i \in 1..Len(g) : g[i].type \notin {"completed", "error"}
    BY DEF Calm, Typed
  <1>2. Len(g) \in 1..Len(g) /\ DOMAIN g = 1..Len(g)
    BY <1>1
  <1>3. Event("error", "protocol").type = "error"
    BY DEF Event
  <1>4. \A i \in 1..Len(g) : g[i] # Event("error", "protocol")
    BY <1>1, <1>3
  <1> QED BY <1>1, <1>2, <1>4 DEF Last

(* The terminal event is the last one and takes nothing back.                  *)
LEMMA SealedReads ==
    ASSUME NEW q, ExactLog(q.log), NEW g \in Seq(EventSet), NEW e, Sealed(q, g, e)
    PROVE  /\ g # <<>> /\ Last(g) = e /\ e.type \in {"completed", "error"}
           /\ e.type = "completed" => e.value = FullReply(q.log)
           /\ q.mode # "whole" =>
                 /\ IsPrefix(Of("text", g), EndOf(q.log).text)
                 /\ IsPrefix(Of("reasoning", g), EndOf(q.log).reasoning)
                 /\ IsPrefix(Of("call", g), EndOf(q.log).calls)
           /\ q.mode # "whole" /\ e.type = "completed" =>
                 /\ Of("text", g) = EndOf(q.log).text
                 /\ Of("reasoning", g) = EndOf(q.log).reasoning
                 /\ Of("call", g) = EndOf(q.log).calls
           /\ q.mode = "native" => \E m \in Nat : Of("progress", g) = Count(m)
           /\ q.mode = "native" /\ e.type = "completed" => Of("progress", g) = Count(Len(q.log) + 1)
           /\ \A i \in DOMAIN g : /\ g[i].type = "completed" => i = Len(g)
                                  /\ g[i] # Event("error", "protocol")
  <1>1. PICK B : g = Append(B, e) /\ Calm(q, B) /\ Fits(q, B, e)
    BY DEF Sealed
  <1>2. Typed(B) /\ B \in Seq(EventSet)
    BY <1>1 DEF Calm, Typed
  <1>3. PICK last \in {"completed", "error"} : \E v : e = Event(last, v)
    BY <1>1 DEF Fits
  <1>4. PICK v : e = Event(last, v)
    BY <1>3
  <1>5. e.type = last /\ e.value = v
    BY <1>4 DEF Event
  <1>6. e \in EventSet
    <2>1. /\ Event("error", "cancelled") \in EventSet /\ Event("error", "failed") \in EventSet
          /\ Event("completed", FullReply(q.log)) \in EventSet
      BY EventSetHas
    <2> QED BY <1>1, <2>1 DEF Fits
  <1>7. /\ Of("text", g) = Of("text", B) /\ Of("reasoning", g) = Of("reasoning", B)
        /\ Of("call", g) = Of("call", B) /\ Of("progress", g) = Of("progress", B)
    BY <1>1, <1>2, <1>4, <1>6, AddEnd
  <1>8. /\ Len(g) = Len(B) + 1 /\ DOMAIN g = 1..Len(g) /\ Len(B) \in Nat /\ g[Len(g)] = e
        /\ \A i \in 1..Len(B) : g[i] = B[i]
    BY <1>1, <1>2, <1>6, AppendProperties
  <1>9. g # <<>> /\ Last(g) = e
    BY <1>8 DEF Last
  <1>10. /\ Event("error", "cancelled").type = "error" /\ Event("error", "failed").type = "error"
         /\ Event("completed", FullReply(q.log)).value = FullReply(q.log)
         /\ Event("error", "protocol").type = "error" /\ Event("error", "protocol").value = "protocol"
         /\ Event("error", "cancelled").value = "cancelled" /\ Event("error", "failed").value = "failed"
         /\ Event("completed", FullReply(q.log)).type = "completed"
    BY DEF Event
  <1>11. /\ e.type = "completed" => e.value = FullReply(q.log)
         /\ e.type = "completed" => e = Event("completed", FullReply(q.log))
         /\ e # Event("error", "protocol")
    BY <1>1, <1>10 DEF Fits
  <1>12. /\ q.mode # "whole" =>
               /\ IsPrefix(Of("text", B), EndOf(q.log).text)
               /\ IsPrefix(Of("reasoning", B), EndOf(q.log).reasoning)
               /\ IsPrefix(Of("call", B), EndOf(q.log).calls)
         /\ q.mode = "native" => \E m \in Nat : Of("progress", B) = Count(m)
         /\ \A i \in 1..Len(B) : B[i].type \notin {"completed", "error"}
    BY <1>1 DEF Calm
  <1>13. e.type = "completed" =>
             /\ q.mode # "whole" =>
                   /\ Of("text", B) = EndOf(q.log).text
                   /\ Of("reasoning", B) = EndOf(q.log).reasoning
                   /\ Of("call", B) = EndOf(q.log).calls
             /\ q.mode = "native" => Of("progress", B) = Count(Len(q.log) + 1)
    BY <1>1, <1>10 DEF Fits
  <1>14. \A i \in DOMAIN g : /\ g[i].type = "completed" => i = Len(g)
                             /\ g[i] # Event("error", "protocol")
    <2>1. TAKE i \in DOMAIN g
    <2>2. i \in 1..Len(B) \/ i = Len(g)
      BY <1>8
    <2>3. CASE i \in 1..Len(B)
      BY <1>8, <1>10, <1>12, <2>3
    <2>4. CASE i = Len(g)
      BY <1>8, <1>11, <2>4
    <2> QED BY <2>2, <2>3, <2>4
  <1>15. e.type \in {"completed", "error"}
    BY <1>3, <1>5
  <1>16. /\ q.mode # "whole" =>
               /\ IsPrefix(Of("text", g), EndOf(q.log).text)
               /\ IsPrefix(Of("reasoning", g), EndOf(q.log).reasoning)
               /\ IsPrefix(Of("call", g), EndOf(q.log).calls)
         /\ q.mode = "native" => \E m \in Nat : Of("progress", g) = Count(m)
    BY <1>7, <1>12
  <1>17. e.type = "completed" =>
             /\ q.mode # "whole" =>
                   /\ Of("text", g) = EndOf(q.log).text
                   /\ Of("reasoning", g) = EndOf(q.log).reasoning
                   /\ Of("call", g) = EndOf(q.log).calls
             /\ q.mode = "native" => Of("progress", g) = Count(Len(q.log) + 1)
    BY <1>7, <1>13
  <1> QED BY <1>9, <1>11, <1>14, <1>15, <1>16, <1>17

(* A job that was received from is no idle one, and what was received is a     *)
(* beginning of its history.                                                   *)
LEMMA ReceivedIs ==
    ASSUME StreamsInv, NEW j \in Jobs, got[j] # <<>>
    PROVE  /\ ExactLog(request[j].log) /\ got[j] \in Seq(EventSet)
           /\ Calm(request[j], got[j]) \/ \E e : Sealed(request[j], got[j], e)
  <1>1. JobOk(request[j], state[j], channel[j], closed[j], cancelled[j], user[j], got[j])
    BY DEF StreamsInv, JobsOk
  <1>2. PICK q, st, ch, g : q = request[j] /\ st = state[j] /\ ch = channel[j] /\ g = got[j]
    OBVIOUS
  <1>3. JobOk(q, st, ch, closed[j], cancelled[j], user[j], g) /\ g # <<>>
    BY <1>1, <1>2
  <1>4. ch \in Seq(EventSet) /\ g \in Seq(EventSet) /\ ExactLog(q.log) /\ History(q, g \o ch)
    BY <1>3 DEF JobOk
  <1>5. Calm(q, g) \/ \E e : Sealed(q, g, e)
    BY <1>4, HistoryFront
  <1> QED BY <1>2, <1>4, <1>5

LEMMA LastOfLog ==
    ASSUME NEW q, ExactLog(q.log)
    PROVE  Last(q.log).reply = EndOf(q.log)
  BY DEF Last, EndOf

LEMMA DeliveredHolds ==
    ASSUME StreamsInv
    PROVE  DeliveredIsExact
  <1>1. SUFFICES ASSUME NEW j \in Jobs, got[j] # <<>>
                 PROVE  LET g == got[j]
                            a == Last(request[j].log).reply
                            ended == Last(g).type = "completed"
                            exact(part, all) == IF ended THEN part = all ELSE IsPrefix(part, all)
                        IN /\ request[j].mode = "whole" \/
                                  /\ exact(Of("text", g), a.text)
                                  /\ exact(Of("reasoning", g), a.reasoning)
                                  /\ exact(Of("call", g), a.calls)
                           /\ (ended => Last(g).value = Numbered(a, Tokens(j)))
                           /\ \A i \in DOMAIN g :
                                  /\ (g[i].type = "completed" => i = Len(g))
                                  /\ g[i] # Event("error", "protocol")
    BY DEF DeliveredIsExact
  <1>2. PICK q, g : q = request[j] /\ g = got[j]
    OBVIOUS
  <1>3. /\ ExactLog(q.log) /\ g \in Seq(EventSet) /\ g # <<>>
        /\ Calm(q, g) \/ \E e : Sealed(q, g, e)
    BY <1>1, <1>2, ReceivedIs
  <1>4. Last(q.log).reply = EndOf(q.log)
    BY <1>3, LastOfLog
  <1>5. FullReply(q.log) = Numbered(EndOf(q.log), Tokens(j))
    BY <1>2 DEF FullReply, Tokens
  <1>6. CASE Calm(q, g)
    <2>1. /\ Last(g).type # "completed"
          /\ \A i \in DOMAIN g : g[i].type # "completed" /\ g[i] # Event("error", "protocol")
      BY <1>3, <1>6, CalmReads
    <2>2. q.mode # "whole" =>
              /\ IsPrefix(Of("text", g), EndOf(q.log).text)
              /\ IsPrefix(Of("reasoning", g), EndOf(q.log).reasoning)
              /\ IsPrefix(Of("call", g), EndOf(q.log).calls)
      BY <1>6 DEF Calm
    <2> QED BY <1>2, <1>4, <2>1, <2>2, Zenon
  <1>7. CASE \E e : Sealed(q, g, e)
    <2>1. PICK e : Sealed(q, g, e)
      BY <1>7
    <2>2. /\ Last(g) = e
          /\ e.type = "completed" => e.value = FullReply(q.log)
          /\ q.mode # "whole" =>
                /\ IsPrefix(Of("text", g), EndOf(q.log).text)
                /\ IsPrefix(Of("reasoning", g), EndOf(q.log).reasoning)
                /\ IsPrefix(Of("call", g), EndOf(q.log).calls)
          /\ q.mode # "whole" /\ e.type = "completed" =>
                /\ Of("text", g) = EndOf(q.log).text
                /\ Of("reasoning", g) = EndOf(q.log).reasoning
                /\ Of("call", g) = EndOf(q.log).calls
          /\ \A i \in DOMAIN g : /\ g[i].type = "completed" => i = Len(g)
                                 /\ g[i] # Event("error", "protocol")
      BY <1>3, <2>1, SealedReads
    <2>3. CASE Last(g).type = "completed"
      <3>1. Last(g).value = Numbered(EndOf(q.log), Tokens(j))
        BY <1>5, <2>2, <2>3
      <3> QED BY <1>2, <1>4, <2>2, <2>3, <3>1, Zenon
    <2>4. CASE Last(g).type # "completed"
      BY <1>2, <1>4, <2>2, <2>4, Zenon
    <2> QED BY <2>3, <2>4
  <1> QED BY <1>3, <1>6, <1>7

LEMMA ProgressHolds ==
    ASSUME StreamsInv
    PROVE  ProgressIsExact
  <1>1. SUFFICES ASSUME NEW j \in Jobs, got[j] # <<>>, request[j].mode = "native"
                 PROVE  LET q == Of("progress", got[j])
                        IN /\ \A i \in DOMAIN q : q[i] = IF i <= 2 THEN 0 ELSE i - 2
                           /\ (Last(got[j]).type = "completed" => Last(got[j]).value.n = Last(q))
    BY DEF ProgressIsExact
  <1>2. PICK q, g, p : q = request[j] /\ g = got[j] /\ p = Of("progress", got[j])
    OBVIOUS
  <1>3. /\ ExactLog(q.log) /\ g \in Seq(EventSet) /\ g # <<>>
        /\ Calm(q, g) \/ \E e : Sealed(q, g, e)
    BY <1>1, <1>2, ReceivedIs
  <1>4. ASSUME NEW m \in Nat, p = Count(m)
        PROVE  \A i \in DOMAIN p : p[i] = IF i <= 2 THEN 0 ELSE i - 2
    BY <1>4 DEF Count
  <1>5. CASE Calm(q, g)
    <2>1. Last(g).type # "completed"
      BY <1>3, <1>5, CalmReads
    <2>2. PICK m \in Nat : p = Count(m)
      BY <1>1, <1>2, <1>5 DEF Calm
    <2> QED BY <1>2, <1>4, <2>1, <2>2
  <1>6. CASE \E e : Sealed(q, g, e)
    <2>1. PICK e : Sealed(q, g, e)
      BY <1>6
    <2>2. /\ Last(g) = e
          /\ e.type = "completed" => e.value = FullReply(q.log)
          /\ \E m \in Nat : p = Count(m)
          /\ e.type = "completed" => p = Count(Len(q.log) + 1)
      BY <1>1, <1>2, <1>3, <2>1, SealedReads
    <2>3. PICK m \in Nat : p = Count(m)
      BY <2>2
    <2>4. ASSUME e.type = "completed"
          PROVE  e.value.n = Last(p)
      <3>1. Len(q.log) \in Nat /\ Len(q.log) > 0
        BY <1>3, LogIs
      <3>2. PICK n \in Nat : n = Len(q.log) + 1
        BY <3>1
      <3>3. p = Count(n) /\ Len(p) = n /\ n \in 1..n
        <4>1. p = Count(n)
          BY <2>2, <2>4, <3>2
        <4>2. Len(Count(n)) = n
          BY CountIs
        <4>3. n \in 1..n
          BY <3>1, <3>2
        <4> QED BY <4>1, <4>2, <4>3
      <3>4. p[n] = Len(q.log) - 1
        BY <3>1, <3>2, <3>3 DEF Count
      <3>5. e.value.n = Len(q.log) - 1
        BY <2>2, <2>4 DEF FullReply, Numbered
      <3> QED BY <3>3, <3>4, <3>5 DEF Last
    <2> QED BY <1>2, <1>4, <2>2, <2>3, <2>4
  <1> QED BY <1>3, <1>5, <1>6

LEMMA TypesHold ==
    ASSUME StreamsInv
    PROVE  TypeOK
  <1>1. Shapes /\ JobsOk /\ WorkOk
    BY DEF StreamsInv
  <1>2. \A j \in Jobs : Len(channel[j]) <= Cap
    BY <1>1 DEF JobsOk, JobOk
  <1>3. \A j \in Jobs :
            /\ state[j] \in {"idle", "refused", "queued", "running", "ended"}
            /\ user[j] \in {"none", "reading", "cancelled", "waiting", "over"} \cup Leaves
            /\ closed[j] \in BOOLEAN /\ cancelled[j] \in BOOLEAN
    BY <1>1 DEF Shapes
  <1>4. work = NoWork \/ (work.job \in Jobs /\ work.phase \in {"decode", "flush", "deliver"})
    <2>1. SUFFICES ASSUME work # NoWork
                   PROVE  work.job \in Jobs /\ work.phase \in {"decode", "flush", "deliver"}
      OBVIOUS
    <2>2. PICK q, cl, ca, X : work.job \in Jobs /\ RunOk(work, q, cl, ca, X)
      BY <1>1, <2>1 DEF WorkOk
    <2> QED BY <2>2 DEF RunOk, Begins, Counts, Shows, Flushes, WasCut, Reports, Answers, Completes, Calling
  <1> QED BY <1>1, <1>2, <1>3, <1>4 DEF TypeOK, Shapes

(* The invariant is kept.                                                      *)
THEOREM StreamsInvHolds ==
    ASSUME RequestsAreExact
    PROVE  Spec => []StreamsInv
  <1>1. Init => StreamsInv
    BY InitHolds
  <1>2. StreamsInv /\ [Next]_vars => StreamsInv'
    BY NextHolds
  <1> QED BY <1>1, <1>2, PTL DEF Spec

(* Whatever is cancelled, dropped or fails, and whenever, a reader has the     *)
(* beginning of the reply, all of it when the stream completes, and progress   *)
(* that counts the tokens one by one; no loop that was cut short is completed  *)
(* and the reconciliation of text with reply never fails (the callbacks, the   *)
(* reconciler and the terminal events of the inference thread).                *)
THEOREM ReadersAreToldTheReply ==
    ASSUME RequestsAreExact
    PROVE  Spec => []ReadersSeeTheReply
  <1>1. StreamsInv => ReadersSeeTheReply
    BY TypesHold, DeliveredHolds, ProgressHolds DEF ReadersSeeTheReply
  <1>2. Spec => []StreamsInv
    BY StreamsInvHolds
  <1> QED BY <1>1, <1>2, PTL

(* One step that ends the reading of a stream.                                 *)
LEMMA EndReads ==
    ASSUME StreamsInv, Next, NEW j \in Jobs, user[j] = "reading", user'[j] = "over"
    PROVE  ReceiveEnd(j)
  <1>1. /\ user \in [Jobs -> {"none", "reading", "cancelled", "waiting", "over"} \cup Leaves]
        /\ Leaves \subseteq {"cancel", "wait", "drop"}
    BY StreamsConstants DEF StreamsInv, Shapes
  <1>2. user' # user
    OBVIOUS
  <1>3. ASSUME NEW i \in Jobs, NEW r \in Requests[i], Submit(i, r)
        PROVE  FALSE
    <2>1. user' = [user EXCEPT ![i] = "reading"]
      BY <1>2, <1>3 DEF Submit
    <2> QED BY <1>1, <2>1
  <1>4. ~DropClients
    BY <1>2 DEF DropClients, callers
  <1>5. ASSUME NEW i \in Jobs, NEW how \in Leaves, Leave(i, how)
        PROVE  FALSE
    <2>1. user' = [user EXCEPT ![i] = how] /\ how # "over"
      BY <1>1, <1>5 DEF Leave
    <2> QED BY <1>1, <2>1
  <1>6. ASSUME NEW i \in Jobs, Caller(i)
        PROVE  ReceiveEnd(j)
    <2>1. ~Receive(i)
      BY <1>2 DEF Receive
    <2>2. CASE ReceiveEnd(i)
      <3>1. user' = [user EXCEPT ![i] = "over"]
        BY <2>2 DEF ReceiveEnd
      <3>2. i = j
        BY <1>1, <3>1
      <3> QED BY <2>2, <3>2
    <2>3. CASE Close(i)
      <3>1. user[i] # "reading" /\ \E u : user' = [user EXCEPT ![i] = u]
        BY <1>1, <2>3 DEF Close
      <3>2. i # j
        BY <3>1
      <3> QED BY <1>1, <3>1, <3>2
    <2>4. CASE WaitReturns(i)
      <3>1. user[i] = "waiting" /\ user' = [user EXCEPT ![i] = "over"]
        BY <2>4 DEF WaitReturns
      <3> QED BY <1>1, <3>1
    <2> QED BY <1>6, <2>1, <2>2, <2>3, <2>4 DEF Caller
  <1>7. ~Worker
    BY <1>2 DEF Worker, TakeJob, Exit, Callback, Generate, Checkpoint, NextToken, Flush, Finish,
                Deliver, callers, others
  <1>8. ~Fault
    BY <1>2 DEF Fault, callers
  <1> QED BY <1>3, <1>4, <1>5, <1>6, <1>7, <1>8 DEF Next

LEMMA EndIsSaid ==
    ASSUME StreamsInv, [Next]_vars, NEW j \in Jobs, user[j] = "reading", user'[j] = "over"
    PROVE  /\ got[j] # <<>> /\ Last(got[j]).type \in {"completed", "error"}
           /\ Last(got[j]) # Event("error", "cancelled")
  <1>1. Next
    BY DEF vars
  <1>2. ReceiveEnd(j)
    BY <1>1, EndReads
  <1>3. JobOk(request[j], state[j], channel[j], closed[j], cancelled[j], user[j], got[j])
    BY DEF StreamsInv, JobsOk
  <1>4. channel[j] = <<>> /\ (state[j] = "ended" \/ closed[j])
    BY <1>2 DEF ReceiveEnd
  <1>5. PICK q, g, ch : q = request[j] /\ g = got[j] /\ ch = channel[j]
    OBVIOUS
  <1>6. /\ ~closed[j] /\ g \in Seq(EventSet)
        /\ state[j] = "ended" => /\ \E e : Sealed(q, g \o ch, e) /\ e # Event("error", "cancelled")
                                 /\ ExactLog(q.log)
    BY <1>3, <1>5 DEF JobOk
  <1>7. g \o ch = g
    BY <1>4, <1>5, <1>6
  <1>8. PICK e : Sealed(q, g, e) /\ e # Event("error", "cancelled")
    BY <1>4, <1>6, <1>7
  <1>9. ExactLog(q.log)
    BY <1>4, <1>6
  <1>10. g # <<>> /\ Last(g) = e /\ e.type \in {"completed", "error"}
    BY <1>6, <1>8, <1>9, SealedReads
  <1> QED BY <1>5, <1>8, <1>10

(* A reader that did not leave is told how its stream ended: the last event it *)
(* received is the whole reply or an error, and never the cancellation of a    *)
(* request that nobody cancelled (recv returns None only after the sender sent *)
(* its terminal event).                                                        *)
THEOREM StreamsEndInWords ==
    ASSUME RequestsAreExact
    PROVE  Spec => EndIsAnnounced
  <1>1. StreamsInv /\ [Next]_vars =>
            [\A j \in Jobs :
                user[j] = "reading" /\ user'[j] = "over" =>
                    /\ got[j] # <<>> /\ Last(got[j]).type \in {"completed", "error"}
                    /\ Last(got[j]) # Event("error", "cancelled")]_vars
    BY EndIsSaid
  <1>2. Spec => []StreamsInv
    BY StreamsInvHolds
  <1> QED BY <1>1, <1>2, PTL DEF Spec, EndIsAnnounced
====
