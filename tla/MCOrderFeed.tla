---------------------------- MODULE MCOrderFeed ----------------------------
(* Instances of OrderFeed. *)
EXTENDS OrderFeed

\* The second event is of a shape monokulo can't read.
OneUnreadable == {2}
=============================================================================
