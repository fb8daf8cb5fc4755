---------------------------- MODULE MCProcessors ----------------------------
(* Short words, two page tables of four sections, and places for each of    *)
(* three regions, for TLC.                                                  *)
EXTENDS Processors

MCRegisters == {8, LR}

MCFew == {0, 1, 128, 255}
MCMore == {0, 1, 3, 6, 60, 127, 128, 200, 255}
MCSome == {0, 1, 3, 77, 128, 130, 255}

MCL1 == {[type |-> "none"], [type |-> "section", frame |-> 0, apx |-> 1, xn |-> FALSE],
         [type |-> "super", frame |-> 0, apx |-> 5, xn |-> TRUE], [type |-> "table"]}
MCL2 == {[type |-> "none"], [type |-> "small", frame |-> 2, apx |-> 3, xn |-> TRUE],
         [type |-> "large", frame |-> 4, apx |-> 7, xn |-> TRUE]}
MCAtStart == [t \in L1Tables |-> [k \in 0..3 |->
    CHOOSE e \in MCL1 : e.type = (IF t = "A" THEN <<"table", "none", "super", "super">>
                                  ELSE <<"section", "table", "none", "section">>)[k + 1]]]

MCPlaces ==
    LET place(a, n) == [base |-> a, size |-> n]
    IN [i \in 0..2 |-> CASE i = 0 -> {place(0, 6)}
                        [] i = 1 -> {place(0, 4), place(2, 6)}
                        [] i = 2 -> {place(6, 2)}]
=============================================================================
