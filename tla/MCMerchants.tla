---------------------------- MODULE MCMerchants ----------------------------
(* Instance of Merchants for model checking: the name "Acme 2" is derived  *)
(* to what the second "Acme" gets.                                         *)
EXTENDS Merchants, TLC

MCBases == {<<"acme">>, <<"acme", 2>>}
=============================================================================
