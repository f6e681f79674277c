---------------------------- MODULE MCCommandLink ----------------------------
EXTENDS CommandLink

\* The bounds are set in MCCommandLink.cfg.
=============================================================================
