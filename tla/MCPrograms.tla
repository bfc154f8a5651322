----------------------------- MODULE MCPrograms -----------------------------
(* Programs on two tests; limits at the edges of what is computed.         *)
EXTENDS Programs

Edges == {0, 1, 1023, 1024, 131071, 131072, 2 ^ 20, 2 ^ 21 - 1, 2 ^ 21, 2 ^ 22 + 2048}
Some == {{0, 9, 12, 59, 158, 231}, {0, 2, 9, 12, 59, 158, 231}}
=============================================================================
