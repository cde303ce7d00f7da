---------------------------- MODULE MCRuleTables ----------------------------
(* RuleTables for TLC: two changes of the machine's rules, and messages     *)
(* enough for two reloads with a revert and other texts between them.       *)
EXTENDS RuleTables
=============================================================================
