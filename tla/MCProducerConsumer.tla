------------------------- MODULE MCProducerConsumer -------------------------
(* Instances of ProducerConsumer for TLC.                                  *)
EXTENDS ProducerConsumer

(* The five children of main, with smaller shares of five letters.  *)
CountFive == <<2, 3, 2, 2, 1>>
=============================================================================
