-------------------------- MODULE MCResponseStream --------------------------
(* Instances of ResponseStream, and of the InteractionWork it follows, for *)
(* TLC: the values are in the .cfg files.                                  *)
EXTENDS ResponseStream

=============================================================================
