------------------------------- MODULE Markers -------------------------------
(* The text of a reply.  While tokens arrive, the emitter decodes them,       *)
(* filters one repeated close marker after a forced close, and a classifier   *)
(* sorts the text into answer, reasoning and tool spans without showing the   *)
(* markers.  When the reply is complete, the whole text is split and parsed   *)
(* once more, and that result is the one that counts.                         *)
(*                                                                            *)
(* A text is a sequence of symbols, a token is the text it decodes to.        *)
EXTENDS Naturals, Sequences, SequencesExt, FiniteSets, FiniteSetsExt

CONSTANTS
    Blank,          \* the white-space symbol
    MarkerPairs,    \* MARKER_PAIRS: records [open, close]
    ToolOpen, ToolClose,    \* of the model's tool format; <<>> when it has none
    Valid,          \* trimmed payloads that are calls of an advertised tool
    Special,        \* tokens that the display decode leaves out
    EosText,        \* the raw text of the stop token
    MaxPrefixSpace, \* MAX_PREFIX_WHITESPACE_BYTES
    MaxCloseSpace,  \* MAX_FORCED_CLOSE_WHITESPACE_BYTES
    MaxCalls        \* MAX_TOOL_CALLS

ASSUME MarkersConstants ==
    /\ \A p \in MarkerPairs : p.open # <<>> /\ p.close # <<>>
    /\ (ToolOpen = <<>>) <=> (ToolClose = <<>>)
    /\ MaxPrefixSpace \in Nat /\ MaxCloseSpace \in Nat /\ MaxCalls \in Nat

-----------------------------------------------------------------------------
(* Text. *)

Leading(s) == IF \A i \in DOMAIN s : s[i] = Blank THEN Len(s)
              ELSE Min({i \in DOMAIN s : s[i] # Blank}) - 1
From(s, i) == SubSeq(s, i, Len(s))
TrimStart(s) == From(s, Leading(s) + 1)
Trimmed(s) == Reverse(TrimStart(Reverse(TrimStart(s))))
IsBlank(s) == Leading(s) = Len(s)

(* The first place of m in s, 0 when there is none. *)
Find(s, m) ==
    LET hits == {i \in 1..(Len(s) - Len(m) + 1) : SubSeq(s, i, i + Len(m) - 1) = m}
    IN IF Len(m) > Len(s) \/ hits = {} THEN 0 ELSE Min(hits)

EndsWith(s, t) == Len(t) <= Len(s) /\ From(s, Len(s) - Len(t) + 1) = t

(* prefix_candidate: is the leading white space within its bound? *)
HasCandidate(s) == Leading(s) <= MaxPrefixSpace

-----------------------------------------------------------------------------
(* The complete reply. *)

(* strip_immediate_forced_close *)
StripRepeatedClose(s, close) ==
    IF Leading(s) <= MaxCloseSpace /\ IsPrefix(close, TrimStart(s))
    THEN From(TrimStart(s), Len(close) + 1)
    ELSE s

(* split_reasoning and split_reasoning_after_forced_close *)
SplitReasoning(s, forced) ==
    LET opens == {p \in MarkerPairs : IsPrefix(p.open, TrimStart(s))}
    IN IF ~HasCandidate(s) \/ opens = {}
       THEN [reasoning |-> <<>>, text |-> s]
       ELSE LET p    == CHOOSE q \in opens : TRUE
                body == From(TrimStart(s), Len(p.open) + 1)
                at   == Find(body, p.close)
                rest == From(body, at + Len(p.close))
            IN IF at = 0
               THEN [reasoning |-> body, text |-> <<>>]
               ELSE [reasoning |-> SubSeq(body, 1, at - 1),
                     text |-> IF forced THEN StripRepeatedClose(rest, p.close)
                              ELSE rest]

(* parse_hermes: closed spans from left to right.  Only the spans of valid   *)
(* calls are cut; everything else stays visible.  s.at is where the search   *)
(* goes on, s.kept the text kept so far, up to s.from.                       *)
NextSpan(s, text) ==
    LET open == Find(From(text, s.at), ToolOpen)
        body == From(text, s.at + open - 1 + Len(ToolOpen))
        shut == Find(body, ToolClose)
        past == s.at + open - 1 + Len(ToolOpen) + shut - 1 + Len(ToolClose)
        call == Trimmed(SubSeq(body, 1, shut - 1))
    IN IF open = 0 \/ shut = 0 \/ Len(s.calls) = MaxCalls
       THEN [s EXCEPT !.more = FALSE]
       ELSE IF call \in Valid
       THEN [s EXCEPT !.at = past, !.from = past, !.calls = Append(@, call),
                      !.kept = @ \o SubSeq(text, s.from, s.at + open - 2)]
       ELSE [s EXCEPT !.at = past]

(* parse_and_strip_tool_calls *)
StripToolCalls(text) ==
    LET start == [at |-> 1, from |-> 1, kept |-> <<>>, calls |-> <<>>, more |-> TRUE]
        end   == FoldLeft(LAMBDA s, i : IF s.more THEN NextSpan(s, text) ELSE s,
                          start, text)
    IN IF ToolOpen = <<>> THEN [text |-> text, calls |-> <<>>]
       ELSE [text |-> end.kept \o From(text, end.from), calls |-> end.calls]

(* The reply of generate_cached_inner: the marker that the prompt opened is  *)
(* put back in front before the text is split.                               *)
Reply(raw, seed, forced) ==
    LET split == SplitReasoning(seed \o raw, forced)
        tools == StripToolCalls(split.text)
    IN [reasoning |-> split.reasoning, text |-> tools.text, calls |-> tools.calls]

-----------------------------------------------------------------------------
(* StreamClassifier.  raw and shown are the pending text before and after    *)
(* the display decode; out are the segments it has produced.                 *)

Classifier(seed) ==
    LET open == {p \in MarkerPairs : p.open = seed}
    IN [kind   |-> IF open = {} THEN "text" ELSE "reasoning",
        close  |-> IF open = {} THEN <<>> ELSE (CHOOSE p \in open : TRUE).close,
        prefix |-> open = {}, raw |-> <<>>, shown |-> <<>>, out |-> <<>>]

Segment(kind, text) == [kind |-> kind, text |-> text]

(* push_nonempty *)
PushNonempty(out, kind, text) ==
    IF text = <<>> THEN out
    ELSE IF out # <<>> /\ Last(out).kind = kind
    THEN [out EXCEPT ![Len(out)].text = @ \o text]
    ELSE Append(out, Segment(kind, text))

(* find_boundary: the earliest marker that ends or begins a span here. *)
Boundaries(c) ==
    LET opens == IF c.kind = "text" /\ c.prefix /\ HasCandidate(c.raw)
                 THEN {[at |-> Leading(c.raw) + 1, marker |-> p.open,
                        to |-> "reasoning", close |-> p.close] :
                       p \in {q \in MarkerPairs : IsPrefix(q.open, TrimStart(c.raw))}}
                 ELSE {}
        ends(marker, to, close) ==
                 IF marker = <<>> \/ Find(c.raw, marker) = 0 THEN {}
                 ELSE {[at |-> Find(c.raw, marker), marker |-> marker,
                        to |-> to, close |-> close]}
    IN CASE c.kind = "text"      -> opens \cup ends(ToolOpen, "tool", <<>>)
         [] c.kind = "reasoning" -> ends(c.close, "text", <<>>)
         [] c.kind = "tool"      -> ends(ToolClose, "text", <<>>)

Earliest(S) == CHOOSE b \in S : \A d \in S : b.at <= d.at

(* split_display_at_marker: where the marker is in what is shown. *)
SplitAtMarker(raw, shown, at, marker) ==
    LET i    == Find(shown, marker)
        pre  == SubSeq(raw, 1, at - 1)
        rest == IF IsPrefix(pre, shown) THEN From(shown, at) ELSE shown
        cut  == {n \in 1..Len(marker) :
                    n <= Len(rest) /\ EndsWith(marker, SubSeq(rest, 1, n))}
    IN IF raw = shown
       THEN [before |-> pre, after |-> From(raw, at + Len(marker))]
       ELSE IF i > 0
       THEN [before |-> SubSeq(shown, 1, i - 1), after |-> From(shown, i + Len(marker))]
       ELSE [before |-> IF IsPrefix(pre, shown) THEN pre ELSE <<>>,
             after  |-> From(rest, IF cut = {} THEN 1 ELSE Max(cut) + 1)]

(* One boundary: what is in front of it is shown, except white space in      *)
(* front of a reasoning span; a tool span leaves a signal.                   *)
CrossBoundary(c) ==
    LET b == Earliest(Boundaries(c))
        s == SplitAtMarker(c.raw, c.shown, b.at, b.marker)
        o == IF b.to = "reasoning" THEN c.out ELSE PushNonempty(c.out, c.kind, s.before)
    IN [kind |-> b.to, close |-> b.close, prefix |-> FALSE,
        raw |-> From(c.raw, b.at + Len(b.marker)), shown |-> s.after,
        out |-> IF b.to = "tool" THEN Append(o, Segment("tool", <<>>)) ELSE o]

(* Mutant: the last partial marker is not kept back. *)
SuffixLenShort(s, marker) ==
    LET ns == {n \in 1..(Len(marker) - 2) : EndsWith(s, SubSeq(marker, 1, n))}
    IN IF marker = <<>> \/ ns = {} THEN 0 ELSE Max(ns)

(* marker_suffix_len and partial_marker_suffix_len: what may be the begin of *)
(* a marker is kept back.                                                    *)
SuffixLen(s, marker) ==
    LET ns == {n \in 1..(Len(marker) - 1) : EndsWith(s, SubSeq(marker, 1, n))}
    IN IF marker = <<>> \/ ns = {} THEN 0 ELSE Max(ns)

Retained(c) ==
    LET lead == TrimStart(c.raw)
    IN CASE c.kind = "reasoning" -> SuffixLen(c.raw, c.close)
         [] c.kind = "tool"      -> SuffixLen(c.raw, ToolClose)
         [] c.kind = "text"      ->
              IF /\ c.prefix /\ HasCandidate(c.raw)
                 /\ (lead = <<>> \/ \E p \in MarkerPairs : IsPrefix(lead, p.open))
              THEN Len(c.raw)
              ELSE SuffixLen(c.raw, ToolOpen)

(* split_display_for_safe_prefix *)
SplitSafe(raw, shown, safe) ==
    LET head == SubSeq(raw, 1, safe)
        tail == From(raw, safe + 1)
    IN IF raw # shown /\ safe = Len(raw) THEN [visible |-> shown, rest |-> <<>>]
       ELSE IF IsPrefix(head, shown)
       THEN [visible |-> head, rest |-> From(shown, safe + 1)]
       ELSE IF EndsWith(shown, tail)
       THEN [visible |-> SubSeq(shown, 1, Len(shown) - Len(tail)), rest |-> tail]
       ELSE [visible |-> shown, rest |-> <<>>]

FlushSafe(c) ==
    LET safe == Len(c.raw) - Retained(c)
        s    == SplitSafe(c.raw, c.shown, safe)
    IN IF safe = 0 THEN c
       ELSE [c EXCEPT !.raw = From(@, safe + 1), !.shown = s.rest,
                !.out = PushNonempty(@, c.kind, s.visible),
                !.prefix = @ /\ ~(c.kind = "text" /\ ~IsBlank(SubSeq(c.raw, 1, safe)))]

(* push: every boundary that has arrived, then what cannot be a marker.      *)
(* Every boundary takes a symbol at least.                                   *)
Push(c, raw, shown) ==
    LET all == [c EXCEPT !.raw = @ \o raw, !.shown = @ \o shown, !.out = <<>>]
    IN FlushSafe(FoldLeft(
           LAMBDA s, i : IF Boundaries(s) = {} THEN s ELSE CrossBoundary(s),
           all, all.raw))

(* finish: a partial marker at the end is text. *)
FinishClassifier(c) ==
    [c EXCEPT !.out = PushNonempty(<<>>, c.kind, c.shown), !.raw = <<>>, !.shown = <<>>]

-----------------------------------------------------------------------------
(* TokenEmitter.  raw is all that was emitted; filter is the close marker    *)
(* whose repetition is being waited for (<<>>: none) with what was withheld. *)

Emitter(seed) ==
    [raw |-> <<>>, cls |-> Classifier(seed), filter |-> <<>>,
     held |-> <<>>, heldShown |-> <<>>, forced |-> FALSE]

Display(token) == IF token \in Special THEN <<>> ELSE token

(* display_after_forced_close *)
AfterRepeatedClose(raw, shown, at, close) ==
    LET pre     == SubSeq(raw, 1, at - 1)
        visible == IF IsPrefix(pre, shown) THEN From(shown, at) ELSE shown
    IN IF raw = shown THEN From(shown, at + Len(close))
       ELSE IF visible = From(raw, at + Len(close)) THEN visible
       ELSE IF IsPrefix(close, visible) THEN From(visible, Len(close) + 1)
       ELSE visible

(* filter_post_budget_closes: the new emitter and what is shown. *)
Filtered(e, raw, shown) ==
    LET r     == e.held \o raw
        d     == e.heldShown \o shown
        lead  == TrimStart(r)
        room  == Leading(r) <= MaxCloseSpace
        open  == [e EXCEPT !.filter = <<>>, !.held = <<>>, !.heldShown = <<>>]
    IN IF e.filter = <<>> THEN [emitter |-> e, shown |-> shown]
       ELSE IF room /\ IsPrefix(e.filter, lead)
       THEN [emitter |-> open,
             shown |-> AfterRepeatedClose(r, d, Leading(r) + 1, e.filter)]
       ELSE IF room /\ IsPrefix(lead, e.filter)
       THEN [emitter |-> [e EXCEPT !.held = r, !.heldShown = d], shown |-> <<>>]
       ELSE [emitter |-> open, shown |-> d]

(* emit: decode, filter, classify.  The segments are in cls.out. *)
EmitToken(e, token) ==
    LET f == Filtered(e, token, Display(token))
    IN [f.emitter EXCEPT !.raw = @ \o token, !.cls = Push(@, token, f.shown)]

(* A stop token has text of its own, which is neither shown nor kept. *)
EmitEos(e) ==
    LET f == Filtered(e, EosText, <<>>)
    IN [f.emitter EXCEPT !.cls = Push(@, EosText, f.shown)]

(* emit_forced for the tokens of a close marker (here the whole marker), and *)
(* arm_close_filters when all were accepted.                                 *)
ForceClose(e, close) ==
    [e EXCEPT !.raw = @ \o close, !.cls = Push(@, close, Display(close)),
              !.filter = close, !.forced = TRUE]

(* flush_terminal: what the filter withheld, then what the classifier did. *)
FlushTerminal(e) ==
    LET c == IF e.filter = <<>> THEN [e.cls EXCEPT !.out = <<>>]
             ELSE Push(e.cls, e.held, e.heldShown)
        d == FinishClassifier(c)
    IN [e EXCEPT !.filter = <<>>, !.cls = [d EXCEPT !.out = c.out \o @]]

-----------------------------------------------------------------------------
(* ReasoningBudget finds the span in the raw text on its own.  fires is the  *)
(* close marker to be forced after the last token, <<>> for none.            *)

BudgetOf(n, seed) ==
    LET open == {p \in MarkerPairs : p.open = seed}
    IN [limit |-> n, text |-> <<>>, closed |-> FALSE, count |-> 0, fires |-> <<>>,
        close |-> IF open = {} THEN <<>> ELSE (CHOOSE p \in open : TRUE).close]

SearchPrefix(b, text) ==
    LET lead  == TrimStart(text)
        opens == {p \in MarkerPairs : IsPrefix(p.open, lead)}
        p     == CHOOSE q \in opens : TRUE
        rest  == From(lead, Len(p.open) + 1)
    IN IF ~HasCandidate(text) THEN [b EXCEPT !.closed = TRUE]
       ELSE IF opens # {}
       THEN [b EXCEPT !.close = p.close, !.text = rest, !.closed = Find(rest, p.close) > 0]
       ELSE IF lead = <<>> \/ \E q \in MarkerPairs : IsPrefix(lead, q.open)
       THEN [b EXCEPT !.text = text]
       ELSE [b EXCEPT !.closed = TRUE]

(* observe *)
BudgetObserves(budget, piece) ==
    LET b    == [budget EXCEPT !.fires = <<>>]
        text == b.text \o piece
    IN IF b.closed THEN b
       ELSE IF b.close = <<>> THEN SearchPrefix(b, text)
       ELSE IF Find(text, b.close) > 0 THEN [b EXCEPT !.closed = TRUE]
       ELSE IF b.count + 1 >= b.limit
       THEN [b EXCEPT !.closed = TRUE, !.fires = b.close]
       ELSE [b EXCEPT !.count = @ + 1, !.text = text]

-----------------------------------------------------------------------------
(* StreamTextReconciler. *)

Reconciler == [emitted |-> <<>>, withhold |-> FALSE]

(* observe_tool_span and push_text, for one segment. *)
Observe(rec, seg) ==
    IF seg.kind = "tool" THEN [rec EXCEPT !.withhold = TRUE]
    ELSE IF seg.kind = "text" /\ ~rec.withhold
    THEN [rec EXCEPT !.emitted = @ \o seg.text]
    ELSE rec

(* The event a segment becomes; none when it is empty or withheld. *)
Forwards(rec, seg) ==
    /\ seg.text # <<>> /\ seg.kind # "tool"
    /\ ~(seg.kind = "text" /\ rec.withhold)

(* terminal_suffix: an error when what was emitted is not a prefix. *)
IsReconciled(rec, text) == IsPrefix(rec.emitted, text)
Suffix(rec, text) == From(text, Len(rec.emitted) + 1)

-----------------------------------------------------------------------------
(* A whole reply: every token is emitted and counted, the span is closed by  *)
(* force when the budget is spent, and the end flushes.  log has, for every  *)
(* token and for the flush, its segments and the reply as it is then.        *)

Start(seed, budget) ==
    [e |-> Emitter(seed), b |-> BudgetOf(budget, seed), rec |-> Reconciler,
     thought |-> <<>>, seed |-> seed, log |-> <<>>]

(* The reasoning that a segment adds. *)
Thinks(t, seg) == IF seg.kind = "reasoning" THEN t \o seg.text ELSE t

Collect(s, e) ==
    [s EXCEPT !.e = e,
        !.log = Append(@, [out |-> e.cls.out, reply |-> Reply(e.raw, s.seed, e.forced)]),
        !.rec = FoldLeft(Observe, s.rec, e.cls.out),
        !.thought = FoldLeft(Thinks, s.thought, e.cls.out)]

Forced(s) ==
    IF s.b.fires = <<>> THEN s ELSE Collect(s, ForceClose(s.e, s.b.fires))

TakeToken(s, token) ==
    Forced([Collect(s, EmitToken(s.e, token)) EXCEPT !.b = BudgetObserves(@, token)])

Stopped(s, stops) == IF stops THEN Collect(s, EmitEos(s.e)) ELSE s

Flushed(s) == Collect(s, FlushTerminal(s.e))

Streamed(tokens, seed, budget, stops) ==
    Flushed(Stopped(FoldLeft(TakeToken, Start(seed, budget), tokens), stops))

(* However a reply is cut into tokens, what was streamed is the beginning of *)
(* the final answer, and all of it when no tool span was opened; the         *)
(* reasoning that was streamed is the reasoning that is reported; and a      *)
(* close marker that was forced is never part of the answer.                 *)
IsExact(s) ==
    LET r == Reply(s.e.raw, s.seed, s.e.forced)
    IN /\ IsReconciled(s.rec, r.text)
       /\ (~s.rec.withhold => s.rec.emitted = r.text)
       /\ s.thought = r.reasoning
       /\ (s.e.forced => s.e.cls.kind # "reasoning")

StreamIsExact(tokens, seed, budget, stops) == IsExact(Streamed(tokens, seed, budget, stops))
=============================================================================
