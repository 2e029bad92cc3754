----------------------------- MODULE MCNodeNetwork -----------------------------
(***************************************************************************)
(* Settings of NodeNetwork for TLC.                                        *)
(***************************************************************************)
EXTENDS NodeNetwork

MCSettings == Setting
===============================================================================
