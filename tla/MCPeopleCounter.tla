-------------------------- MODULE MCPeopleCounter --------------------------
(* TLC instances of PeopleCounter; the values of the constants are in the .cfg
   files. *)
EXTENDS PeopleCounter
=============================================================================
