--------------------------- MODULE MCWriteBehind ---------------------------
(* The model values of the small instances are in their cfg files.          *)
EXTENDS WriteBehind

\* Not so: every entry in the stream can still be delivered or taken over.
\* (MCWriteBehindLate.cfg shows how it fails.)
NoneStranded == Stranded = {}
=============================================================================
