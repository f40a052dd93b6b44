--------------------------- MODULE MCReproVerifier ---------------------------
(* One verifier.  On hosts with a usual layout and one turned inside out    *)
(* builds have impurities, sources are edited, and it is called with all    *)
(* outputs, as boot-check.sh does, with the image alone, and with a map     *)
(* that its build contract does not name.  On one host the sources change   *)
(* back and forth.  On quiet hosts the directories lie in a small tree in   *)
(* every way.                                                               *)
EXTENDS ReproVerifier

Host(workspace, cargo_home, user_home, temporary) ==
  [workspace |-> workspace, cargo_home |-> cargo_home, user_home |-> user_home,
   temporary |-> temporary]

Usual == Host(<<"h", "w">>, <<"h", "c">>, <<"h">>, <<"h", "w", "t">>)
Inverted == Host(<<"c", "w">>, <<"c">>, <<"c", "w", "h">>, <<"c", "w", "h">>)

Tree == {<<>>, <<"h">>, <<"h", "w">>, <<"h", "w", "c">>, <<"c">>}

Setup(layout, impurities, edit_bound, wanted, map) ==
  [layout |-> layout, impurities |-> impurities, edits |-> edit_bound, wanted |-> wanted,
   map |-> map]

All == {"loader", "kernel", "map"}

MCSetups ==
  {Setup(Usual, {"timestamp", "target", "user_home"}, 1, All, TRUE),
   Setup(Usual, {}, 3, All, TRUE),
   Setup(Inverted, {"target", "cargo_home"}, 0, {}, TRUE),
   Setup(Inverted, {"timestamp"}, 1, {"map"}, FALSE)}
    \union {Setup(Host(w, c, h, t), {}, 0, {"kernel"}, TRUE) :
              w \in Tree \ {<<>>}, c \in Tree, h \in Tree, t \in Tree}
=============================================================================
