------------------------------ MODULE MCDecode ------------------------------
(* Instances of Decode for TLC.                                             *)
EXTENDS Decode

(* A turn, the turn that follows it when the model answered "a", and a turn *)
(* with an attachment.  Edge 0 means that no boundary was found.            *)
Turn     == [text |-> <<"s", "u">>, edges |-> {0, 1}]
NextTurn == [text |-> <<"s", "u", "a", "v">>, edges |-> {3}]
Picture  == [text |-> <<"s", "img">>, edges |-> {0}]
Turns    == {Turn, NextTurn, Picture}
CloseEncodings == {<<>>, <<"c", "n">>}
=============================================================================
