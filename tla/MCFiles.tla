------------------------------- MODULE MCFiles ------------------------------
(***************************************************************************)
(* Two processes on a disk of NBLOCKS blocks; what each scenario reaches.  *)
(***************************************************************************)
EXTENDS Files, TLC

W(d, n) == <<"write", d, n>>
R(d, n) == <<"read", d, n>>
O(i, mode) == <<"open", i, mode>>
D(name, d) == <<name, d, 0>>

MCPrograms == {
  \* a write past the largest file, and one that just fills it
  (1 :> <<W(0, 10), W(0, 28), W(0, 2), W(0, 1)>>) @@ (2 :> <<O(1, "rdonly"), R(1, -1)>>),
  \* the two share the offset, and read it from another one
  (1 :> <<W(0, 5), O(1, "rdonly"), R(1, 5), R(1, 8), R(1, -1)>>) @@ (2 :> <<W(0, 11), R(0, -1), D("fstat", 0), W(0, 3)>>),
  \* one truncates the file that the other writes and reuses its blocks
  (1 :> <<W(0, 14), W(0, 2)>>) @@ (2 :> <<O(1, "trunc"), O(2, "wronly"), W(2, 10), R(1, 3)>>),
  \* the disk becomes full
  (1 :> <<W(0, 37)>>) @@ (2 :> <<O(2, "rdwr"), W(1, 6)>>),
  \* descriptors and files run out
  (1 :> <<D("pipe", 0), D("close", 0), D("pipe", 0), W(1, 1), D("dup", 7), D("close", 1)>>)
    @@ (2 :> <<D("dup", 0), D("close", 0), O(1, "rdonly"), D("dup", 1), W(0, 1), D("close", 2), D("close", 2), D("pipe", 0)>>) }
=============================================================================
