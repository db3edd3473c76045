--------------------------- MODULE MCSessionTask ---------------------------
EXTENDS SessionTask

Small == [columns |-> 80, rows |-> 24]
Large == [columns |-> 132, rows |-> 43]
BothSizes == {Small, Large}
=============================================================================
