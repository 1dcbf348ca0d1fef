--------------------------- MODULE MCDefaultPhases ---------------------------
(* The lists of phases the runs of DefaultPhases start from: the default     *)
(* pipeline, and small lists in which every defect can occur.                *)
EXTENDS DefaultPhases

DefaultOnly == {DEFAULT_PHASES}

(* deps of up to two of the names in S. *)
UpToTwo(S) == {<<>>} \cup {<<n>> : n \in S} \cup (S \X S)

(* Three phases in any order, duplicate names included; "tools" is missing,  *)
(* and a dependency may be listed twice.                                     *)
Three ==
    LET S == {"mro", "orm", "scan"}
        D == {<<>>, <<"tools">>} \cup UpToTwo(S)
    IN {<<Phase("mro", d), Phase("orm", e), Phase(n, f)>> :
            d \in D, e \in D, n \in {"scan", "mro"}, f \in D}
       \cup {<<Phase("scan", d), Phase("orm", e), Phase("mro", f)>> :
                d \in UpToTwo(S), e \in UpToTwo(S), f \in UpToTwo(S)}

(* Four phases, each with up to two distinct dependencies.                   *)
Four ==
    LET S == {"mro", "orm", "scan", "tools"}
        D == {<<>>, <<"mro">>, <<"orm">>, <<"scan">>, <<"tools">>,
              <<"mro", "orm">>, <<"scan", "mro">>, <<"orm", "tools">>, <<"tools", "scan">>}
    IN {<<Phase("tools", d), Phase("mro", e), Phase("scan", f), Phase("orm", g)>> :
            d \in D, e \in D, f \in D, g \in D}

AllPipelines == DefaultOnly \cup {<<>>} \cup Three \cup Four
=============================================================================
