---------------------------- MODULE MCTextLines ----------------------------
(* TextLines and ShowRuns on one or two short texts.                       *)
EXTENDS ShowRuns
=============================================================================
