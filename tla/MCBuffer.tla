------------------------------ MODULE MCBuffer ------------------------------
(* A small buffer that is still filled, moved, grown and spilled over.       *)
EXTENDS Buffer

=============================================================================
