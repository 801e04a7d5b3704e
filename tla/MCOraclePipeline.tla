-------------------------- MODULE MCOraclePipeline --------------------------
(***************************************************************************)
(* OraclePipeline for model checking; its configurations give the values   *)
(* of all constants, with the requests as model values.                    *)
(***************************************************************************)
EXTENDS OraclePipeline
=============================================================================
