----------------------------- MODULE MCMultiTurn -----------------------------
(* Two ranks, one with two dialogues and one with one, for TLC.            *)
EXTENDS MultiTurn

OneAndTwo == << <<"a", "b">>, <<"c">> >>
Short == {[len |-> 2, finish |-> "stop"], [len |-> 0, finish |-> "stop"],
          [len |-> 1, finish |-> "length"]}
AllLoops == {"server", "colocate"}
AllSchedulers == {"tips", "tools", "chat", "plain"}
==============================================================================
