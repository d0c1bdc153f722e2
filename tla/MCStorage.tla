------------------------------ MODULE MCStorage ------------------------------
(* Constants for model checking Storage: values of no byte, one byte and    *)
(* two bytes, so that a store may be cut short and a shorter value may      *)
(* follow a longer one.                                                     *)
EXTENDS Storage

MCSize == [v \in Values |-> CASE v = "empty" -> 0 [] v = "short" -> 1
                              [] v = "long" -> 2]
===============================================================================
