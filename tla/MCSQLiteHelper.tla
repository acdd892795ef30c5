--------------------------- MODULE MCSQLiteHelper ---------------------------
\* SQLiteHelper for TLC when only safety is checked: the threads are alike.
EXTENDS SQLiteHelper, TLC

Symmetry == Permutations(Threads)
=============================================================================
