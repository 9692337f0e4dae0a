------------------------------ MODULE MCFetch ------------------------------
(* Instances of Fetch. *)
EXTENDS Fetch

\* A timeout is slept off for longer each time, a lost connection is not.
MCbackoff == [exc \in Retriable |-> [n \in 0 .. RETRIES - 1 |->
                IF exc = "timeout" THEN 4 * (n + 1) ELSE 1]]
=============================================================================
