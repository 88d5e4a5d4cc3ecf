---------------------------- MODULE MCEngineApp ----------------------------
(***************************************************************************)
(* Constants for checking EngineApp.                                       *)
(***************************************************************************)
EXTENDS EngineApp

\* The second address has the most power, so that the sorted set is not the
\* order of the addresses. It is a quorum alone: the other may fall behind,
\* and no value is decided that the second does not hold.
PowerOfTwo == <<1, 3>>
=============================================================================
