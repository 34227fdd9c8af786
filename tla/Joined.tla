------------------------------- MODULE Joined -------------------------------
(***************************************************************************)
(* What a reader of numbered files gets.  The journal's Query and the      *)
(* verify_chain of the provenance log both list a directory, sort the      *)
(* names and read one file after the other; the names sort as the numbers  *)
(* in them do.                                                             *)
(***************************************************************************)
EXTENDS Naturals, Sequences

\* The contents of the files with numbers up to n, in the order of the numbers.
Joined(files, n) ==
    LET upTo[i \in 0 .. n] ==
            IF i = 0 THEN <<>>
            ELSE IF i \in DOMAIN files THEN upTo[i - 1] \o files[i] ELSE upTo[i - 1]
    IN  upTo[n]
=============================================================================
