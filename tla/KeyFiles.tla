------------------------------- MODULE KeyFiles -----------------------------
(***************************************************************************)
(* The contents of a key file: the encoding of a key, what an interrupted  *)
(* write left, or nothing, the file not being there.                       *)
(***************************************************************************)
CONSTANTS
    Keys,    \* the RSA keys openssl may draw
    Broken,  \* a file that parses as no key
    None     \* no file

ASSUME KeyAssumption ==
    /\ Keys # {}
    /\ None \notin Keys /\ Broken \notin Keys /\ None # Broken

Contents == Keys \cup {Broken, None}
=============================================================================
