---------------------------- MODULE MCPageCopies ----------------------------
(* Instances of PageCopies.                                                 *)
EXTENDS PageCopies

=============================================================================
