--------------------------- MODULE MCMockCounter ---------------------------
(* TLC instances of MockCounter; the other values are in the .cfg files. *)
EXTENDS MockCounter

(* The shape of the timeline in the code, shortened: empty, one, two, empty. *)
ShortTimeline == <<[length |-> 1, people |-> 0], [length |-> 2, people |-> 1],
                   [length |-> 1, people |-> 2], [length |-> 1, people |-> 0]>>
=============================================================================
