-------------------------- MODULE MCIncrementalGraph --------------------------
(* The files of IncrementalGraph's runs: a few that change, and as many       *)
(* others as it takes for a closure to stay below 30%.                       *)
EXTENDS IncrementalGraph

Bare == [rev |-> 0, defs |-> {}, imports |-> <<>>, calls |-> {}, extends |-> <<>>,
         owns |-> {}, seen |-> {}]

(* 1 calls x, which it imports from 2 or, if that is not there, 3, and y,     *)
(* which it does not import; 2 and 3 change what they define, 2 goes and      *)
(* comes; an indexer sees a call from 1 to 3, and one from 3 to 2.            *)
CallFiles ==
    [f \in 1 .. 10 |->
        IF f = 1
        THEN {[Bare EXCEPT !.defs = {"m"}, !.imports = [x |-> <<2, 3>>],
                           !.calls = {<<"m", "x">>, <<"m", "y">>},
                           !.seen = {<<"m", <<3, "x">>>>}]}
        ELSE IF f = 2 THEN {Deleted, [Bare EXCEPT !.defs = {"x"}], [Bare EXCEPT !.defs = {"y"}]}
        ELSE IF f = 3
        THEN {[Bare EXCEPT !.defs = {"x", "z"}, !.seen = {<<"z", <<2, "x">>>>}],
              [Bare EXCEPT !.defs = {"y", "z"}, !.calls = {<<"z", "m">>}]}
        ELSE {Bare}]

(* 1 declares a class, 2 and 3 extend it; each redeclares the method.         *)
ClassFiles ==
    [f \in 1 .. 7 |->
        IF f = 1 THEN {[Bare EXCEPT !.defs = {"A"}, !.owns = {"A"}]}
        ELSE IF f = 2
        THEN {[Bare EXCEPT !.rev = r, !.defs = {"B"}, !.extends = [B |-> "A"], !.owns = {"B"}] :
                 r \in {0, 1}}
        ELSE IF f = 3
        THEN {[Bare EXCEPT !.defs = {"C"}, !.extends = [C |-> "A"], !.owns = {"C"}]}
        ELSE {Bare}]
=============================================================================
