------------------------------ MODULE MCStreams ------------------------------
EXTENDS Streams, TLC

CONSTANTS j1, j2

MCJobs == {j1, j2}

(* Markers of two and three symbols that share their first symbol. *)
ThinkOpen == <<"<", "t">>
ThinkClose == <<"<", "/", "t">>
MCPairs == {[open |-> ThinkOpen, close |-> ThinkClose]}
MCToolOpen == <<"<", "c">>
MCToolClose == <<"<", "/", "c">>
MCEos == <<"<", "e">>
MCValid == {<<"a">>}
MCSeeds == {<<>>, ThinkOpen}
MCVocabulary ==
    {<<"a">>, <<" ">>, <<"<">>, <<"/">>, <<"t">>, <<"<", "t">>, <<"/", "t">>,
     <<"<", "/", "t">>, <<"<", "c">>, <<"<", "/", "c", "a">>}

Ask(mode, tokens, seed, budget, stops) ==
    [mode |-> mode, tokens |-> tokens, seed |-> seed, budget |-> budget, stops |-> stops]

(* One request has its reasoning closed by force; the other has a call       *)
(* between two parts of the answer.                                          *)
MCRequests ==
    (j1 :> {Ask("native", <<<<"a">>>>, ThinkOpen, 1, TRUE)}) @@
    (j2 :> {Ask(mode, <<<<"a", "<", "c">>, <<"a", "<", "/", "c", "a">>>>, <<>>, 9, FALSE) :
            mode \in {"native", "rig", "whole"}})
=============================================================================
