---------------------------- MODULE MCRouteTable ----------------------------
(***************************************************************************)
(* Two routes (ids are never reused, so a table of two sees additions,     *)
(* deletions and both orders), two mixer inputs, two profiles, and gains   *)
(* at the limit, beyond it and NaN.                                        *)
(***************************************************************************)
EXTENDS RouteTable
==============================================================================
