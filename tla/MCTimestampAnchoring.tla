------------------------ MODULE MCTimestampAnchoring ------------------------
(* TimestampAnchoring on small instances.                                  *)
EXTENDS TimestampAnchoring

CONSTANTS t1, o1, n1, n2, r1

\* The tenant is served by one instance, the operator by the other.
MCHome == [x \in {t1, o1} |-> IF x = o1 THEN n2 ELSE n1]

\* The operator asks about one of the references.
MCAbout == [x \in {o1} |-> r1]
=============================================================================
