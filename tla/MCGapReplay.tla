---------------------------- MODULE MCGapReplay ----------------------------
(* Instances of GapReplay: two workers whose guards pass over one stream. *)
EXTENDS GapReplay

=============================================================================
