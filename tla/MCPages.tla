------------------------------ MODULE MCPages -------------------------------
(* The small instances of MCLedger, with pages read beside the requests. *)
EXTENDS MCLedger, Pages

=============================================================================
