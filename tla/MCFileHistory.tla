---------------------------- MODULE MCFileHistory ---------------------------
(* One file with two regions: hunks can be undone and kept one by one.      *)
EXTENDS FileHistory

\* No file, a file in which both regions have a line, and an empty file.
MCInputs ==
    {NoFile, [text |-> [r \in Regions |-> 1], exists |-> TRUE],
     [text |-> Blank, exists |-> TRUE]}
=============================================================================
