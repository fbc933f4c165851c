---------------------------- MODULE MCProjection ----------------------------
(***************************************************************************)
(* Two tasks for TLC, one of them a proof fixture, and one value for what  *)
(* activeForm shows besides the status.                                    *)
(***************************************************************************)
EXTENDS Projection

CONSTANTS operational, fixture, x

=============================================================================
