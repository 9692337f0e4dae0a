---------------------------- MODULE MCCollector ----------------------------
(* Instances of Collector: which bodies decode to what, what the transforms
   make of each text, and how often each check is fetched.                *)
EXTENDS Collector

CONSTANTS c1, c2, x, y, doc, doc2, bodyX, bodyY, bodyEmpty

MCdecode == [b \in Bodies |-> CASE b = bodyX -> x
                                [] b = bodyY -> y
                                [] OTHER -> BLANK]

\* Both texts hold a document, and they differ.
MCextract == [t \in Contents |-> CASE t = x -> doc
                                   [] t = y -> doc2
                                   [] OTHER -> BLANK]

MCMaxPolls == [c \in Checks |-> IF c = c1 THEN 3 ELSE 1]
=============================================================================
