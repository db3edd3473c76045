--------------------------- MODULE MCLocalSession --------------------------
EXTENDS LocalSession

Small == [columns |-> 80, rows |-> 24]
Large == [columns |-> 132, rows |-> 43]
BothSizes == {Small, Large}
=============================================================================
