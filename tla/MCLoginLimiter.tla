--------------------------- MODULE MCLoginLimiter --------------------------
(* TLC instances of LoginLimiter; the values of the constants are in the .cfg
   files. *)
EXTENDS LoginLimiter
=============================================================================
