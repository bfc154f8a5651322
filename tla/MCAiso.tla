------------------------------- MODULE MCAiso -------------------------------
(* Aiso with a few runs of three sizes.                                    *)
EXTENDS Aiso
=============================================================================
