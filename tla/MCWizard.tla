------------------------------ MODULE MCWizard ------------------------------
(* A small instance of Wizard: three ways to fill in the finish form. *)
EXTENDS Wizard

MCEdit ==
  {[stones |-> "shown", komi |-> "shown", swap |-> FALSE, winner |-> "black"],
   [stones |-> "more", komi |-> "cleared", swap |-> TRUE, winner |-> "white"],
   [stones |-> "shown", komi |-> "up", swap |-> TRUE, winner |-> "black"]}
=============================================================================
