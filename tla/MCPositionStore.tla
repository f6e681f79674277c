--------------------------- MODULE MCPositionStore ---------------------------
EXTENDS PositionStore

\* Model values are set in the .cfg files.
=============================================================================
