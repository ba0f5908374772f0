--------------------------- MODULE MC_ConsoleForms ---------------------------
EXTENDS ConsoleForms

MC_AllPages == Page
=============================================================================
