-------------------------------- MODULE Decode --------------------------------
(* Generation on the loaded model: one call of generate_cached at a time (the *)
(* session lives on one inference thread) looks its prompt up in the prompt   *)
(* cache, prefills the rest in chunks, decodes in rounds that are target-only *)
(* or speculative, and stores what the caches hold for later calls.           *)
(*                                                                            *)
(* Arrays are symbolic.  A cache is the sequence of what was fed to it, a     *)
(* hidden row or a distribution is the sequence it was computed from, an MTP  *)
(* pair is the token and the hidden row it was fused with.  The draws of the  *)
(* sampler, the drafts and the number of accepted drafts are arbitrary.       *)
EXTENDS Naturals, Sequences, SequencesExt, FiniteSets, FiniteSetsExt

CONSTANTS
    Prompts,        \* what calls may ask: records [text, edges]; edges are the
                    \* places where the conversation boundary may lie
    Images,         \* elements of a text that are attachments
    Placeholder,    \* the token every attachment is rendered to
    Tokens,         \* tokens the model may draw, Eos among them
    Eos,
    Closes,         \* encodings of the close marker the tokenizer may return
    MaxTokens,      \* max_tokens of a call
    Depth,          \* speculative_tokens
    Budgets,        \* reasoning_budget_tokens of a call that opens a span; 0: no budget
    Chunk,          \* PREFILL_CHUNK_TOKENS
    MaxEntries, MaxTotal, MinCacheable,     \* PromptCacheConfig
    Hybrids,        \* may a model have recurrent layers?
    Windows, Slack, \* sliding windows (0 = none) and KV_GROWTH_STEP
    Faults,         \* which operations may fail
    MaxFaults,      \* bound on failures of a behaviour
    MaxCalls        \* bound on the calls of a behaviour

ASSUME DecodeConstants ==
    /\ Eos \in Tokens /\ Placeholder \notin Images /\ Eos # Placeholder
    /\ MaxTokens \in Nat \ {0} /\ Depth \in Nat \ {0} /\ Chunk \in Nat \ {0}
    /\ Budgets \subseteq Nat /\ MaxEntries \in Nat /\ MaxTotal \in Nat
    /\ MinCacheable \in Nat /\ Slack \in Nat
    /\ Hybrids \subseteq BOOLEAN /\ Windows \subseteq Nat
    /\ MaxFaults \in Nat /\ MaxCalls \in Nat

VARIABLES
    model,  \* the loaded checkpoint: has it recurrent layers, its window
    pool,   \* PromptCachePool.entries
    clock,  \* Instant::now(), as a counter of the pool's operations
    pc,     \* where the inference thread is
    call,   \* the request it serves
    w,      \* what the call works on: caches, ledgers, next token
    r,      \* what a round keeps between its phases
    left,   \* failures still to come
    calls   \* calls begun

vars == <<model, pool, clock, pc, call, w, r, left, calls>>

-----------------------------------------------------------------------------
(* Caches of the target model.  attn is what the attention layers were fed,  *)
(* up to their offset; start is the first position a window still retains;   *)
(* recur is what the recurrent state has folded in.                          *)

NewCaches == [attn |-> <<>>, start |-> 0, recur |-> <<>>]

Least(m, n) == IF m < n THEN m ELSE n

(* trim_to_window: what is retained once `added` positions more are due. *)
Trimmed(win, retained, added) ==
    IF win = 0 \/ retained + added <= win + Slack
    THEN retained
    ELSE Least(IF win > added THEN win - added ELSE 0, retained)

WouldTrim(tc, added) ==
    /\ model.window # 0
    /\ Len(tc.attn) - tc.start + added > model.window + Slack

(* update_and_fetch trims before the append and again after it. *)
Feed(tc, s) ==
    LET kept == Trimmed(model.window, Len(tc.attn) - tc.start, Len(s))
        held == Trimmed(model.window, kept + Len(s), 0)
    IN [attn  |-> tc.attn \o s,
        start |-> Len(tc.attn) + Len(s) - held,
        recur |-> IF model.hybrid THEN tc.recur \o s ELSE <<>>]

(* What the next forward pass computes on: garbage unless every layer is at  *)
(* the same point.                                                           *)
Garbage == <<"garbage">>
View(tc) == IF model.hybrid /\ tc.recur # tc.attn THEN Garbage ELSE tc.attn

(* The rows of a feed: row i has seen the caches and the first i tokens. *)
Rows(tc, s) == [i \in 1..Len(s) |-> View(tc) \o SubSeq(s, 1, i)]

(* truncate_to refuses what a window dropped and what was never fed. *)
CanTruncate(tc, n) == tc.start <= n /\ n <= Len(tc.attn)
Truncate(tc, n) == [tc EXCEPT !.attn = SubSeq(@, 1, n)]

(* rollback_state keeps offsets of attention layers and the recurrent state. *)
Capture(tc) == [pos |-> Len(tc.attn), recur |-> tc.recur]
Restore(tc, snap) == [Truncate(tc, snap.pos) EXCEPT !.recur = snap.recur]

-----------------------------------------------------------------------------
(* The pool. *)

Ids(text) == [i \in DOMAIN text |->
                 IF text[i] \in Images THEN Placeholder ELSE text[i]]
Media(text) == SelectSeq(text, LAMBDA c : c \in Images)

NoMtp == [alive |-> FALSE, pairs |-> <<>>, front |-> <<>>]

EvictExpired(entries, t) == SelectSeq(entries, LAMBDA e : e.used >= t)

Recent(entries, m) ==
    SelectSeq(entries, LAMBDA e :
        Cardinality({j \in DOMAIN entries : entries[j].used < e.used}) >= m)

TotalTokens(entries) ==
    FoldSeq(LAMBDA e, n : n + Len(e.ids), 0, entries)

Fits(entries) == Len(entries) <= MaxEntries /\ TotalTokens(entries) <= MaxTotal

(* evict_lru_if_over_capacity: as few of the oldest as make the rest fit. *)
EvictLru(entries) ==
    LET m == CHOOSE n \in 0..Len(entries) :
                /\ Fits(Recent(entries, n))
                /\ \A k \in 0..(n - 1) : ~Fits(Recent(entries, k))
    IN Recent(entries, m)

(* find_longest_compatible_prefix: the first of the longest matches. *)
Matches(entries, ids, requireMtp) ==
    {i \in DOMAIN entries :
        /\ entries[i].ids # <<>> /\ IsPrefix(entries[i].ids, ids)
        /\ (requireMtp => entries[i].mtp.alive)}

Longest(entries, S) ==
    CHOOSE i \in S : \A j \in S :
        \/ Len(entries[j].ids) < Len(entries[i].ids)
        \/ Len(entries[j].ids) = Len(entries[i].ids) /\ i <= j

(* aligned_mtp: a snapshot that does not fit the ids is not stored. *)
AlignedMtp(ids, mtp) ==
    IF mtp.alive /\ Len(mtp.pairs) + 1 # Len(ids) THEN NoMtp ELSE mtp

(* insert_or_update: the first entry that is a prefix is extended in place. *)
InsertOrUpdate(entries, e) ==
    LET olds == {i \in DOMAIN entries : IsPrefix(entries[i].ids, e.ids)}
        new  == [e EXCEPT !.mtp = AlignedMtp(e.ids, e.mtp)]
    IN IF olds = {}
       THEN IF Len(e.ids) < MinCacheable
            THEN entries
            ELSE EvictLru(Append(entries, new))
       ELSE EvictLru([entries EXCEPT ![Min(olds)] = new])

-----------------------------------------------------------------------------
(* Calls. *)

Idle == [text |-> <<>>, edge |-> 0, spec |-> FALSE, cached |-> FALSE]

SpecRequested == call.spec /\ Media(call.text) = <<>>

(* fed: prompt positions served so far; images: attachments among them.      *)
(* out: the emitted ledger, each token with what it was computed from.       *)
(* done: committed_len.  used: tokens counted against max_tokens.            *)
(* budget: reasoning tokens until the span is closed by force (0: no span).  *)
Fresh == [tc |-> NewCaches, mtp |-> NoMtp, fed |-> 0, images |-> 0, goal |-> 0,
          snap |-> NewCaches, snapMtp |-> NoMtp, snapLen |-> 0,
          out |-> <<>>, done |-> 0, used |-> 0, budget |-> 0,
          tok |-> Eos, of |-> <<>>, aborted |-> FALSE, end |-> "none"]

NoRound == [x |-> Eos, mode |-> "dead", draw |-> TRUE, k |-> 0, drafts |-> <<>>,
            pos |-> 0, pairs |-> 0, snap |-> Capture(NewCaches),
            front |-> <<>>, post |-> Capture(NewCaches), rows |-> <<>>,
            accepted |-> 0, kept |-> 0, event |-> "none",
            seq |-> <<>>, close |-> <<>>, status |-> "all"]

Init ==
    /\ model \in [hybrid : Hybrids, window : Windows]
    /\ pool = <<>> /\ clock = 0 /\ pc = "idle" /\ call = Idle
    /\ w = Fresh /\ r = NoRound /\ left = MaxFaults /\ calls = 0

(* The call returns; its caches are dropped with it. *)
Return ==
    /\ pc' = "idle" /\ call' = Idle /\ w' = Fresh /\ r' = NoRound

MayFail(f) == f \in Faults /\ left > 0
Spend == left' = left - 1

(* generate_cached_inner up to the lookup.  The span is open from the first  *)
(* token when the prompt opened it.                                          *)
StartCall ==
    /\ pc = "idle" /\ calls < MaxCalls
    /\ \E p \in Prompts, spec \in BOOLEAN, cached \in BOOLEAN, b \in Budgets :
       \E edge \in p.edges :
          /\ call' = [text |-> p.text, edge |-> edge, spec |-> spec,
                      cached |-> cached]
          /\ w' = [Fresh EXCEPT !.budget = b]
    /\ pc' = "lookup" /\ calls' = calls + 1
    /\ UNCHANGED <<model, pool, clock, r, left>>

(* Entries past their age go first; a hit is refreshed.  An entry covering   *)
(* the whole prompt leaves nothing to feed and counts as a miss.             *)
Lookup ==
    /\ pc = "lookup"
    /\ IF ~call.cached
       THEN UNCHANGED <<pool, clock, w>>
       ELSE \E t \in 0..clock :
            LET live == EvictExpired(pool, t)
                hits == Matches(live, Ids(call.text), SpecRequested)
                i    == Longest(live, hits)
                e    == live[i]
            IN /\ clock' = clock + 1
               /\ pool' = IF hits = {} THEN live
                          ELSE [live EXCEPT ![i].used = clock + 1]
               /\ w' = IF hits = {} \/ Len(e.ids) >= Len(call.text) THEN w
                       ELSE [w EXCEPT !.tc = e.tc, !.fed = Len(e.ids),
                                !.images = e.images,
                                !.mtp = IF SpecRequested THEN e.mtp ELSE NoMtp]
    /\ pc' = "boundary"
    /\ UNCHANGED <<model, call, r, left, calls>>

(* A text prompt is fed up to the conversation boundary first. *)
FindBoundary ==
    /\ pc = "boundary" /\ pc' = "prefill"
    /\ w' = [w EXCEPT !.goal =
                IF /\ call.cached /\ Media(call.text) = <<>>
                   /\ w.fed < call.edge /\ call.edge < Len(call.text)
                THEN call.edge ELSE Len(call.text)]
    /\ UNCHANGED <<model, pool, clock, call, r, left, calls>>

(* The pairs of a chunk: the first token of the first chunk has none, the    *)
(* first of a later one is fused with the frontier the last chunk left.      *)
Primed(mtp, s, rows) ==
    LET prev(i) == IF i = 1 THEN mtp.front ELSE rows[i - 1]
        pairs   == [i \in 1..Len(s) |-> <<s[i], prev(i)>>]
    IN [alive |-> TRUE,
        pairs |-> mtp.pairs \o (IF mtp.alive THEN pairs ELSE Tail(pairs)),
        front |-> rows[Len(s)]]

(* The next chunk of the prompt, attachments spliced in at placeholders. *)
NextChunk ==
    LET n     == Least(Chunk, w.goal - w.fed)
        ids   == SubSeq(Ids(call.text), w.fed + 1, w.fed + n)
        holes(i) == Cardinality({j \in 1..i : ids[j] = Placeholder})
    IN [i \in 1..n |-> IF ids[i] = Placeholder
                       THEN Media(call.text)[w.images + holes(i)]
                       ELSE ids[i]]

Prefill ==
    /\ pc = "prefill" /\ w.fed < w.goal
    /\ LET s == NextChunk
       IN w' = [w EXCEPT !.tc = Feed(@, s), !.fed = @ + Len(s),
                   !.images = @ + Len(Media(s)),
                   !.mtp = IF SpecRequested THEN Primed(@, s, Rows(w.tc, s))
                           ELSE @]
    /\ UNCHANGED <<model, pool, clock, pc, call, r, left, calls>>

(* Mutant: the rest of the prompt is not made the next goal. *)
TakeSnapshotAgain ==
    /\ pc = "prefill" /\ w.fed = w.goal /\ w.goal < Len(call.text)
    /\ w' = [w EXCEPT !.snap = w.tc, !.snapMtp = w.mtp, !.snapLen = w.goal]
    /\ UNCHANGED <<model, pool, clock, pc, call, r, left, calls>>

(* At the boundary the caches are cloned for the pool. *)
TakeSnapshot ==
    /\ pc = "prefill" /\ w.fed = w.goal /\ w.goal < Len(call.text)
    /\ w' = [w EXCEPT !.snap = w.tc, !.snapMtp = w.mtp, !.snapLen = w.goal,
                !.goal = Len(call.text)]
    /\ UNCHANGED <<model, pool, clock, pc, call, r, left, calls>>

(* The first token is drawn from the last row of the prompt. *)
SampleFirst ==
    /\ pc = "prefill" /\ w.fed = Len(call.text)
    /\ \E t \in Tokens : w' = [w EXCEPT !.tok = t, !.of = View(w.tc)]
    /\ pc' = "round"
    /\ UNCHANGED <<model, pool, clock, call, r, left, calls>>

(* A cancellation checkpoint, a failed forward pass, or a failed priming     *)
(* before decoding, and the checkpoint after it: nothing is pooled.          *)
CallAborts ==
    /\ pc \in {"lookup", "boundary", "prefill", "finish"}
    /\ MayFail("cancel") /\ Spend
    /\ Return
    /\ UNCHANGED <<model, pool, clock, calls>>

-----------------------------------------------------------------------------
(* Rounds (RoundDriver).  x is sampled, not fed and not emitted on entry.    *)

Forced == <<"forced">>
Emitted(s, t, of) ==
    [s EXCEPT !.out = Append(@, [tok |-> t, of |-> of]), !.used = @ + 1]

(* ReasoningBudget::observe: it fires once, at the last token of the budget, *)
(* unless the model closed the span itself.                                  *)
Fires(b, shut) == b = 1 /\ ~shut
Observed(b, shut) == IF b = 0 \/ shut THEN 0 ELSE b - 1

Ends(s, how) ==
    /\ w' = [s EXCEPT !.end = how] /\ pc' = "finish" /\ r' = NoRound
FailsAt(s, why) ==
    /\ w' = [s EXCEPT !.end = why] /\ pc' = "failed" /\ r' = NoRound
Continues(s, of) ==
    /\ w' = [s EXCEPT !.of = of] /\ pc' = "draw" /\ r' = NoRound

Fed(s, tc, n) == [s EXCEPT !.tc = tc, !.done = @ + n]
Discarded(s) == [s EXCEPT !.mtp = NoMtp]

(* mtp_truncate to the pairs of the round's entry, then mtp_commit. *)
Committed(s, keep, ids, prevs, front) ==
    [s EXCEPT !.mtp.pairs = SubSeq(@, 1, keep) \o
                            [i \in 1..Len(ids) |-> <<ids[i], prevs[i]>>],
              !.mtp.front = front]

(* MTP work that may fail: it is discarded and the target goes on alone. *)
MtpOutcome(s, t) ==
    \/ w.mtp.alive /\ MayFail("mtp") /\ Spend /\ t = Discarded(s)
    \/ UNCHANGED left /\ t = s

(* The outcomes of feeding the target: "invalid" is a forward pass that      *)
(* failed midway, "salvage" and "bare" are failures after it, with and       *)
(* without a distribution left, "unfed" is the failure to build the input.   *)
FeedOutcomes == {"invalid", "salvage", "bare", "unfed"}
Outcome(f) == f \in FeedOutcomes /\ MayFail(f) /\ Spend
AfterFeed(f, tc, s) == IF f = "unfed" THEN tc ELSE Feed(tc, s)

DepthNow(used) == Least(Depth, MaxTokens - used)

(* run_round up to the choice of the round's kind. *)
EmitX ==
    /\ pc = "round"
    /\ \/ MayFail("emit") /\ Spend /\ FailsAt(w, "exact")
       \/ /\ UNCHANGED left
          /\ \E goes \in BOOLEAN, shut \in BOOLEAN :
             LET e == [Emitted(w, w.tok, w.of) EXCEPT !.aborted = ~goes]
                 s == [e EXCEPT !.budget = Observed(@, shut)]
                 k == DepthNow(e.used)
                 kind == IF Fires(e.budget, shut) THEN "closeX"
                         ELSE IF e.used >= MaxTokens THEN "final"
                         ELSE IF w.mtp.alive /\ ~WouldTrim(w.tc, k + 1)
                              THEN "draft" ELSE "feedX"
             IN IF w.tok = Eos THEN Ends(e, "eos")
                ELSE IF ~goes THEN Ends(e, "abort")
                ELSE /\ w' = s /\ pc' = kind
                     /\ r' = [NoRound EXCEPT !.x = w.tok, !.k = k,
                                 !.mode = IF w.mtp.alive THEN "commit" ELSE "dead",
                                 !.pairs = Len(w.mtp.pairs)]
    /\ UNCHANGED <<model, pool, clock, call, calls>>

(* The successor is drawn last, when the caches are settled. *)
Draw ==
    /\ pc = "draw"
    /\ \/ MayFail("draw") /\ Spend /\ FailsAt(w, "exact")
       \/ /\ UNCHANGED <<left, r>> /\ pc' = "round"
          /\ \E t \in Tokens : w' = [w EXCEPT !.tok = t]
    /\ UNCHANGED <<model, pool, clock, call, calls>>

(* feed_x_target_only: x alone, with the pair that keeps MTP aligned. *)
FeedX ==
    /\ pc = "feedX"
    /\ LET s    == <<r.x>>
           rows == Rows(w.tc, s)
           ok   == Fed(w, Feed(w.tc, s), 1)
           pair == IF r.mode = "dead" \/ ~w.mtp.alive THEN ok
                   ELSE Committed(ok, r.pairs, s, <<w.mtp.front>>, rows[1])
       IN \/ \E t \in {pair, Discarded(ok)} :
                /\ MtpOutcome(pair, t)
                /\ IF r.draw THEN Continues(t, rows[1]) ELSE Ends(t, "budget")
          \/ \E f \in FeedOutcomes :
                /\ Outcome(f) /\ (f = "salvage" => w.mtp.alive)
                /\ LET t == Discarded(Fed(w, AfterFeed(f, w.tc, s), 1))
                   IN IF f = "invalid" THEN FailsAt(w, "invalid")
                      ELSE IF ~r.draw THEN Ends(t, "budget")
                      ELSE IF f = "salvage" THEN Continues(t, rows[1])
                      ELSE FailsAt(t, "exact")
    /\ UNCHANGED <<model, pool, clock, call, calls>>

(* final_slot: x is fed and committed, nothing is drawn. *)
FinalSlot ==
    /\ pc = "final"
    /\ LET s    == <<r.x>>
           rows == Rows(w.tc, s)
           ok   == Fed(w, Feed(w.tc, s), 1)
           pair == IF ~w.mtp.alive THEN ok
                   ELSE Committed(ok, r.pairs, s, <<w.mtp.front>>, rows[1])
       IN \/ \E t \in {pair, Discarded(ok)} : MtpOutcome(pair, t) /\ Ends(t, "budget")
          \/ \E f \in {"invalid", "bare", "unfed"} :
                /\ Outcome(f) /\ (f = "bare" => w.mtp.alive)
                /\ IF f = "invalid" THEN FailsAt(w, "invalid")
                   ELSE Ends(Discarded(Fed(w, AfterFeed(f, w.tc, s), 1)), "budget")
    /\ UNCHANGED <<model, pool, clock, call, calls>>

(* forced_close_at_x. *)
CloseAtX ==
    /\ pc = "closeX"
    /\ \/ MayFail("encode") /\ Spend /\ FailsAt(w, "exact")
       \/ /\ UNCHANGED <<left, w>>
          /\ \E c \in Closes :
                IF c = <<>>
                THEN pc' = "feedX" /\ r' = [r EXCEPT !.draw = w.used < MaxTokens]
                ELSE /\ pc' = "closing"
                     /\ r' = [r EXCEPT !.seq = <<r.x>>, !.close = c,
                                       !.snap = Capture(w.tc)]
    /\ UNCHANGED <<model, pool, clock, call, calls>>

(* emit_close_prefix: the callbacks come first and pin the accepted prefix.  *)
(* A refused token is emitted and not accepted, a failed one is neither.     *)
EmitClose ==
    /\ pc = "closing" /\ pc' = "replay"
    /\ \E j \in 0..Len(r.close), st \in {"all", "cancel", "error"} :
          /\ (st = "all") <=> (j = Len(r.close))
          /\ IF st = "error" THEN MayFail("emit") /\ Spend ELSE UNCHANGED left
          /\ LET n == IF st = "cancel" THEN j + 1 ELSE j
             IN w' = [w EXCEPT !.aborted = @ \/ st = "cancel",
                         !.out = @ \o [i \in 1..n |->
                                         [tok |-> r.close[i], of |-> Forced]]]
          /\ r' = [r EXCEPT !.seq = @ \o SubSeq(r.close, 1, j), !.status = st]
    /\ UNCHANGED <<model, pool, clock, call, calls>>

(* close_replay: one feed of the trigger and the accepted close from entry. *)
CloseReplay ==
    /\ pc = "replay"
    /\ LET s    == r.seq
           n    == Len(s)
           tc   == Restore(w.tc, r.snap)
           rows == Rows(tc, s)
           over == w.used >= MaxTokens
           ok   == Fed(w, Feed(tc, s), n)
           pair == IF ~w.mtp.alive THEN ok
                   ELSE Committed(ok, r.pairs, s,
                            <<w.mtp.front>> \o SubSeq(rows, 1, n - 1), rows[n])
       IN IF ~CanTruncate(w.tc, r.snap.pos)
          THEN FailsAt(w, "tripwire") /\ UNCHANGED left
          ELSE
          \/ r.status = "error" /\ UNCHANGED left /\ FailsAt(Discarded(ok), "exact")
          \/ /\ r.status # "error"
             /\ \E t \in {pair, Discarded(ok)} :
                   /\ MtpOutcome(pair, t)
                   /\ IF r.status = "cancel" THEN Ends(t, "abort")
                      ELSE IF over THEN Ends(t, "budget")
                      ELSE Continues(t, rows[n])
          \/ \E f \in FeedOutcomes :
                /\ Outcome(f) /\ (f = "salvage" => w.mtp.alive)
                /\ LET t == Discarded(Fed(w, AfterFeed(f, tc, s), n))
                   IN IF f = "invalid" THEN FailsAt(w, "invalid")
                      ELSE IF r.status = "error" THEN FailsAt(t, "exact")
                      ELSE IF r.status = "cancel" THEN Ends(t, "abort")
                      ELSE IF over THEN Ends(t, "budget")
                      ELSE IF f = "salvage" THEN Continues(t, rows[n])
                      ELSE FailsAt(t, "exact")
    /\ UNCHANGED <<model, pool, clock, call, calls>>

-----------------------------------------------------------------------------
(* The speculative round. *)

(* draft: k recursive MTP steps; only the first pair has a target hidden.    *)
(* A host failure between them leaves j of the pairs behind.                 *)
Recycled == <<"recycled">>
Drafted(ids) ==
    w.mtp.pairs \o [i \in 1..Len(ids) |->
        <<ids[i], IF i = 1 THEN w.mtp.front ELSE Recycled>>]

Draft ==
    /\ pc = "draft"
    /\ \E d \in [1..r.k -> Tokens] :
       LET fed == <<r.x>> \o SubSeq(d, 1, r.k - 1)
       IN \/ /\ UNCHANGED left /\ pc' = "verify"
             /\ w' = [w EXCEPT !.mtp.pairs = Drafted(fed)]
             /\ r' = [r EXCEPT !.drafts = d, !.pos = Len(w.tc.attn),
                         !.snap = Capture(w.tc), !.front = w.mtp.front]
          \/ \E j \in 0..r.k :
                /\ MayFail("host") /\ Spend /\ pc' = "feedX"
                /\ w' = [w EXCEPT !.mtp.pairs = Drafted(SubSeq(fed, 1, j))]
                /\ r' = [r EXCEPT !.mode = "resume"]
          \/ /\ MayFail("mtp") /\ Spend /\ pc' = "feedX"
             /\ w' = Discarded(w)
             /\ r' = [r EXCEPT !.mode = "dead"]
    /\ UNCHANGED <<model, pool, clock, call, calls>>

(* verify_host_recovery: back to x, without MTP. *)
VerifyRecovery(tc, salvaged, row) ==
    IF ~CanTruncate(tc, r.pos + 1)
    THEN FailsAt(w, "tripwire")
    ELSE LET t == Discarded(Fed(w, Truncate(tc, r.pos + 1), 1))
         IN IF salvaged THEN Continues(t, row) ELSE FailsAt(t, "exact")

(* verify: attention layers alone take x and the drafts in one feed; with    *)
(* recurrent layers x goes first and a snapshot is taken behind it.          *)
Verify ==
    /\ pc = "verify"
    /\ LET s    == IF model.hybrid THEN <<r.x>> ELSE <<r.x>> \o r.drafts
           rows == Rows(w.tc, s)
           tc   == Feed(w.tc, s)
       IN \/ /\ UNCHANGED left
             /\ w' = [w EXCEPT !.tc = tc]
             /\ r' = [r EXCEPT !.rows = rows, !.post = Capture(tc)]
             /\ pc' = IF model.hybrid THEN "verify2" ELSE "decide"
          \/ \E f \in FeedOutcomes :
                /\ Outcome(f)
                /\ IF f = "invalid" THEN FailsAt(w, "invalid")
                   ELSE VerifyRecovery(AfterFeed(f, w.tc, s), f = "salvage", rows[1])
    /\ UNCHANGED <<model, pool, clock, call, calls>>

VerifyDrafts ==
    /\ pc = "verify2"
    /\ \/ /\ UNCHANGED left
          /\ w' = [w EXCEPT !.tc = Feed(@, r.drafts)]
          /\ r' = [r EXCEPT !.rows = @ \o Rows(w.tc, r.drafts)]
          /\ pc' = "decide"
       \/ \E f \in FeedOutcomes \ {"salvage"} :
             /\ Outcome(f)
             /\ LET tc == AfterFeed(f, w.tc, r.drafts)
                IN IF f = "invalid" THEN FailsAt(w, "invalid")
                   ELSE IF ~CanTruncate(tc, r.post.pos) THEN FailsAt(w, "tripwire")
                   ELSE VerifyRecovery(Restore(tc, r.post), TRUE, r.rows[1])
    /\ UNCHANGED <<model, pool, clock, call, calls>>

BackToX == IF model.hybrid THEN Restore(w.tc, r.post) ELSE Truncate(w.tc, r.pos + 1)

(* decide, and invariant_err_recovery when the verdict cannot be computed. *)
Decide ==
    /\ pc = "decide"
    /\ \/ /\ UNCHANGED <<left, w>> /\ pc' = "drafts"
          /\ \E a \in 0..r.k : r' = [r EXCEPT !.accepted = a]
       \/ /\ MayFail("verdict") /\ Spend
          /\ IF ~CanTruncate(w.tc, r.pos + 1)
             THEN FailsAt(w, "tripwire")
             ELSE Continues(Committed(Fed(w, BackToX, 1), r.pairs, <<r.x>>,
                                      <<r.front>>, r.rows[1]), r.rows[1])
    /\ UNCHANGED <<model, pool, clock, call, calls>>

(* emit_drafts: the accepted drafts one by one; draft i was checked against  *)
(* row i.  kept counts those that stay in the caches.                        *)
EmitDraft ==
    /\ pc = "drafts" /\ r.kept < r.accepted
    /\ LET i == r.kept + 1
       IN \/ /\ MayFail("emit") /\ Spend
             /\ r' = [r EXCEPT !.event = "error"] /\ pc' = "settle"
             /\ UNCHANGED w
          \/ /\ UNCHANGED left
             /\ \E goes \in BOOLEAN, shut \in BOOLEAN :
                LET e == [Emitted(w, r.drafts[i], r.rows[i])
                             EXCEPT !.aborted = ~goes]
                    stop == IF r.drafts[i] = Eos THEN "eos"
                            ELSE IF goes THEN "none" ELSE "abort"
                IN IF stop # "none"
                   THEN /\ w' = e /\ pc' = "settle"
                        /\ r' = [r EXCEPT !.event = stop]
                   ELSE /\ w' = [e EXCEPT !.budget = Observed(@, shut)]
                        /\ pc' = IF Fires(e.budget, shut) THEN "closeD"
                                 ELSE IF e.used >= MaxTokens THEN "settle"
                                 ELSE "drafts"
                        /\ r' = [r EXCEPT !.kept = i,
                                    !.event = IF pc' = "settle" THEN "budget" ELSE @]
    /\ UNCHANGED <<model, pool, clock, call, calls>>

AllEmitted ==
    /\ pc = "drafts" /\ r.kept = r.accepted /\ pc' = "settle"
    /\ UNCHANGED <<model, pool, clock, call, w, r, left, calls>>

(* forced_close_at_draft: an empty encoding settles like a full output. *)
CloseAtDraft ==
    /\ pc = "closeD" /\ UNCHANGED w
    /\ \/ /\ MayFail("encode") /\ Spend /\ pc' = "settle"
          /\ r' = [r EXCEPT !.event = "error"]
       \/ /\ UNCHANGED left
          /\ \E c \in Closes :
                IF c = <<>>
                THEN /\ pc' = "settle"
                     /\ r' = [r EXCEPT !.event =
                                 IF w.used >= MaxTokens THEN "budget" ELSE "empty"]
                ELSE /\ pc' = "closing"
                     /\ r' = [r EXCEPT !.close = c,
                                 !.seq = <<r.x>> \o SubSeq(r.drafts, 1, r.kept)]
    /\ UNCHANGED <<model, pool, clock, call, calls>>

(* reconcile: the target is brought to x and the kept drafts.  Recurrent     *)
(* state cannot be cut, so it is put back behind x and fed again.            *)
ReplaysDrafts == model.hybrid /\ r.kept > 0 /\ r.kept < r.k
(* Mutant: recurrent state is not put back. *)
ReconciledAttention == Truncate(w.tc, r.pos + 1 + r.kept)

(* Mutant: the position of x is forgotten. *)
ReconciledShort ==
    IF ~model.hybrid THEN Truncate(w.tc, r.pos + r.kept)
    ELSE IF r.kept = r.k THEN w.tc
    ELSE Restore(w.tc, r.post)

Reconciled ==
    IF ~model.hybrid THEN Truncate(w.tc, r.pos + 1 + r.kept)
    ELSE IF r.kept = r.k THEN w.tc
    ELSE Restore(w.tc, r.post)

(* reconcile_and_commit and reconcile_and_discard, then what the event asks. *)
Settle ==
    /\ pc = "settle"
    /\ LET kept == SubSeq(r.drafts, 1, r.kept)
           back == Reconciled
           tc   == IF ReplaysDrafts THEN Feed(back, kept) ELSE back
           rows == IF ReplaysDrafts THEN <<r.rows[1]>> \o Rows(back, kept) ELSE r.rows
           ok   == Fed(w, tc, 1 + r.kept)
           pair == Committed(ok, r.pairs, <<r.x>> \o kept,
                       <<r.front>> \o SubSeq(rows, 1, r.kept), rows[r.kept + 1])
           Proceeds(t) ==
               IF r.event \in {"none", "empty"} THEN Continues(t, r.rows[r.kept + 1])
               ELSE IF r.event = "error" THEN FailsAt(Discarded(t), "exact")
               ELSE Ends(t, r.event)
       IN IF ~CanTruncate(w.tc, r.pos + 1)
          THEN FailsAt(w, "tripwire") /\ UNCHANGED left
          ELSE \/ \E t \in {pair, Discarded(ok)} : MtpOutcome(pair, t) /\ Proceeds(t)
               \/ \E f \in {"invalid", "bare", "unfed"} :
                     /\ ReplaysDrafts /\ Outcome(f)
                     /\ IF f = "invalid" THEN FailsAt(w, "invalid")
                        ELSE Proceeds(Discarded(
                                 Fed(w, AfterFeed(f, back, kept), 1 + r.kept)))
    /\ UNCHANGED <<model, pool, clock, call, calls>>

-----------------------------------------------------------------------------
(* The end of a call. *)

Toks(out) == [i \in DOMAIN out |-> out[i].tok]

(* Mutant: the whole emitted ledger is pooled. *)
EntryEmitted(mtp) ==
    IF w.snapLen > 0
    THEN [ids |-> SubSeq(Ids(call.text), 1, w.snapLen), tc |-> w.snap,
          images |-> 0, mtp |-> w.snapMtp, used |-> clock + 1]
    ELSE [ids |-> Ids(call.text) \o Toks(w.out), tc |-> w.tc,
          images |-> Len(Media(call.text)), mtp |-> mtp, used |-> clock + 1]

(* The pool gets the boundary snapshot, or the prompt and the committed      *)
(* ledger with the caches as they are.                                       *)
Entry(mtp) ==
    IF w.snapLen > 0
    THEN [ids |-> SubSeq(Ids(call.text), 1, w.snapLen), tc |-> w.snap,
          images |-> 0, mtp |-> w.snapMtp, used |-> clock + 1]
    ELSE [ids |-> Ids(call.text) \o Toks(SubSeq(w.out, 1, w.done)), tc |-> w.tc,
          images |-> Len(Media(call.text)), mtp |-> mtp, used |-> clock + 1]

(* classify_finish, for a reply without tool calls. *)
FinishReason ==
    IF w.out # <<>> /\ Last(w.out).tok = Eos THEN "stop"
    ELSE IF w.aborted THEN "aborted" ELSE "length"

Finish ==
    /\ pc = "finish"
    /\ \E mtp \in {w.mtp, NoMtp} :
          /\ MtpOutcome(w, [w EXCEPT !.mtp = mtp])
          /\ IF ~call.cached THEN UNCHANGED <<pool, clock>>
             ELSE /\ clock' = clock + 1
                  /\ \E t \in 0..clock :
                       pool' = InsertOrUpdate(EvictExpired(pool, t), Entry(mtp))
    /\ Return
    /\ UNCHANGED <<model, calls>>

CallFails ==
    /\ pc = "failed" /\ Return
    /\ UNCHANGED <<model, pool, clock, left, calls>>

Rest ==
    /\ pc = "idle" /\ calls = MaxCalls
    /\ UNCHANGED vars

Step ==
    \/ Lookup \/ FindBoundary \/ Prefill \/ TakeSnapshot \/ SampleFirst
    \/ EmitX \/ Draw \/ FeedX \/ FinalSlot \/ CloseAtX \/ EmitClose \/ CloseReplay
    \/ Draft \/ Verify \/ VerifyDrafts \/ Decide \/ EmitDraft \/ AllEmitted
    \/ CloseAtDraft \/ Settle \/ Finish \/ CallFails

Next == StartCall \/ Step \/ CallAborts \/ Rest

Spec == Init /\ [][Next]_vars

(* The inference thread runs its job to the end. *)
FairSpec == Spec /\ WF_vars(Step)
-----------------------------------------------------------------------------
(* Properties. *)

Holds(tc, s) == View(tc) = s
Aligned(mtp, s) ==
    /\ Len(mtp.pairs) + 1 = Len(s) /\ mtp.front = s
    /\ \A i \in DOMAIN mtp.pairs : mtp.pairs[i] = <<s[i + 1], SubSeq(s, 1, i)>>

CommittedText == call.text \o Toks(SubSeq(w.out, 1, w.done))

(* What the thread works on has the shape the code gives it. *)
TypeOK ==
    /\ pc \in {"idle", "lookup", "boundary", "prefill", "round", "draw", "feedX",
               "final", "closeX", "closing", "replay", "draft", "verify",
               "verify2", "decide", "drafts", "closeD", "settle", "finish", "failed"}
    /\ w.done <= Len(w.out) /\ w.used <= Len(w.out)
    /\ r.kept <= r.accepted /\ r.accepted <= r.k /\ r.k <= Depth
    /\ left \in 0..MaxFaults /\ calls \in 0..MaxCalls
    /\ clock \in 0..(2 * MaxCalls) /\ Len(pool) <= MaxEntries

(* The round-entry invariant: when a round begins every layer holds exactly  *)
(* the prompt of THIS call and what was emitted, everything emitted is       *)
(* committed, the pending token was drawn from that very text, and a live    *)
(* MTP module is one pair behind it - whatever prefix the pool served, and   *)
(* however the last round accepted, rejected, closed or recovered.           *)
RoundStartsClean ==
    pc = "round" =>
        /\ Holds(w.tc, CommittedText) /\ w.done = Len(w.out)
        /\ w.of = CommittedText
        /\ (w.mtp.alive => Aligned(w.mtp, CommittedText))

(* Speculation is invisible: every token the caller sees was drawn from, or  *)
(* checked against, the target's own row for the text in front of it, or is  *)
(* part of a forced close.                                                   *)
TokensAreTheTargets ==
    \A i \in DOMAIN w.out :
        w.out[i].of \in {Forced, call.text \o Toks(SubSeq(w.out, 1, i - 1))}

(* What the pool keeps is true: the caches of an entry hold the tokens of    *)
(* its ids and nothing else, and its MTP snapshot is aligned to them - also  *)
(* after cancellations, forced closes at the last slot and failed rounds.    *)
PoolIsTrue ==
    \A i \in DOMAIN pool :
        /\ Ids(View(pool[i].tc)) = pool[i].ids
        /\ pool[i].images = Len(Media(pool[i].tc.attn))
        /\ (pool[i].mtp.alive => Aligned(pool[i].mtp, pool[i].tc.attn))

(* No entry is a prefix of a later one: a lineage that is extended in place  *)
(* never leaves a second entry that could only ever repeat it.               *)
LineagesAreDistinct ==
    \A i, j \in DOMAIN pool : i < j => ~IsPrefix(pool[i].ids, pool[j].ids)

(* Exact-prefix exit: a call that fails on the host side leaves the caches   *)
(* at the committed prefix, and no rollback ever meets a position that a     *)
(* window dropped or that was not fed.                                       *)
ExitsAreExact ==
    /\ w.end # "tripwire"
    /\ (pc = "failed" /\ w.end = "exact") => Holds(w.tc, CommittedText)

(* The reason a reply reports is the true one: "length" exactly when the     *)
(* output budget is used up, "stop" exactly when the model ended the text,   *)
(* "aborted" otherwise, and the budget is never exceeded except by the       *)
(* tokens of one forced close.                                               *)
FinishIsHonest ==
    pc = "finish" =>
        /\ (FinishReason = "length") <=> (w.end = "budget")
        /\ (w.end = "budget" => w.used = MaxTokens)
        /\ (FinishReason = "stop") <=> (w.end = "eos")
        /\ Cardinality({i \in DOMAIN w.out : w.out[i].of # Forced}) <= MaxTokens

(* Every call ends: no combination of rejections, recoveries and forced      *)
(* closes keeps the inference thread in the decode loop.                     *)
CallsEnd == (pc # "idle") ~> (pc = "idle")

(* The caches never drift from the committed text, in rounds that succeed  *)
(* and in those that fail.                                                 *)
CachesAreExact == TypeOK /\ RoundStartsClean /\ ExitsAreExact

(* What the caller is given is what plain decoding would have given, with  *)
(* the true reason why it ends.                                            *)
RepliesAreTrue == TokensAreTheTargets /\ FinishIsHonest

(* What a later call may start from is true and is kept once.              *)
PoolIsSound == PoolIsTrue /\ LineagesAreDistinct
=============================================================================
