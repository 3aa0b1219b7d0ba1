------------------------------ MODULE MCWaiting ------------------------------
(***************************************************************************)
(* Instance of Waiting for TLC, in seconds, with the code's own limits; the *)
(* load and the ready budget are short enough to run out in every way.     *)
(***************************************************************************)
EXTENDS Waiting

SomeProbes ==
  << [kind |-> "exec", timeout |-> 8,  interval |-> 0],
     [kind |-> "http", timeout |-> 0,  interval |-> 7],
     [kind |-> "tcp",  timeout |-> 20, interval |-> 3] >>
=============================================================================
