---------------------------- MODULE MCOnboarding ----------------------------
(***************************************************************************)
(* A server and a command, four keys for two files, key info and info, and *)
(* chain variables that are missing, repeated, unknown or of another type. *)
(***************************************************************************)
EXTENDS Onboarding, TLC

MCHeight == [g1 |-> 7, g2 |-> 9]

MCSymmetry == Permutations(Keys)

MCInfoLists ==
  {<<"name", "key", "onboarding">>, <<"key", "gateway", "onboarding">>}

MCVar(name, type, value) == [name |-> name, type |-> type, valid |-> TRUE, value |-> value]

MCReplies ==
  {<<>>,
   <<MCVar("txn_fees", "atom", FALSE), MCVar("txn_fee_multiplier", "int", 2)>>,
   <<MCVar("txn_fee_multiplier", "int", 7), MCVar("staking_fee_txn_add_gateway_v1", "int", 300),
     MCVar("poc_version", "int", 10), MCVar("txn_fee_multiplier", "int", 3)>>,
   <<MCVar("staking_fee_txn_add_light_gateway_v1", "string", 5)>>}
=============================================================================
