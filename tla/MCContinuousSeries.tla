------------------------- MODULE MCContinuousSeries -------------------------
(* Three contracts.  The first one's month ends on a holiday (day 4), so it
   expires on day 3; the others expire on the last day of their month. *)
EXTENDS ContinuousSeries

EndOfMonth == <<4, 8, 12>>
OpenDays == (1 .. 12) \ {4}
BarDays == <<{2, 3}, {2, 3, 8}, {3, 8}>>
=============================================================================
