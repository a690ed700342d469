------------------------------ MODULE MCJournal ------------------------------
\* Instances of Journal.  The producers are interchangeable; the cells are not, as
\* one of them stands for the content of an unused slot.
EXTENDS Journal, TLC

Symmetry == Permutations(Producers)

=============================================================================
