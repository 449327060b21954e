------------------------------ MODULE MCStream ------------------------------
EXTENDS StreamSession

MCHypotheses == { <<>>, <<"a", "b">>, <<"a", " ", "b">>, <<"a", "b", " ", "b">>,
                  <<"a", " ", "b", " ", "a">>, <<"a", " ", "b", " ", "a", " ", "b">> }
MCTexts == UNION {[1..n -> {"a", "b", " "}] : n \in 0..3} \cup UNION {[1..n -> {"a", " "}] : n \in 4..5}
MCSnapshots == { [before |-> <<"x">>, after |-> <<"y">>],
                 [before |-> <<"x", " ">>, after |-> <<>>] }
=============================================================================
