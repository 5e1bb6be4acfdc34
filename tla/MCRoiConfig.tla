---------------------------- MODULE MCRoiConfig ----------------------------
(* TLC instances of RoiConfig. *)
EXTENDS RoiConfig

Settings == [lo |-> 2, hi |-> 5]

(* Two ROIs without a common bound, whose mixtures differ from both and may be
   empty, and an empty one.  The second shares a bound with the settings. *)
Payloads == {[lo |-> 1, hi |-> 3], [lo |-> 4, hi |-> 5], [lo |-> 4, hi |-> 4]}
=============================================================================
