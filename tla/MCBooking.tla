----------------------------- MODULE MCBooking -----------------------------
(***************************************************************************)
(* Booking on a small instance.                                            *)
(***************************************************************************)
EXTENDS Booking

\* The whole day, or its second half: two rules whose slots are not aligned.
MCRules == {[from |-> 0, to |-> Horizon], [from |-> 1, to |-> Horizon]}

\* A closure at the end of the day.
MCBlocks == {[from |-> Horizon - 1, to |-> Horizon]}

=============================================================================
