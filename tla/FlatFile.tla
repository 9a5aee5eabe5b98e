------------------------------ MODULE FlatFile ------------------------------
(***************************************************************************)
(* What files promise (kernel/fs.c, kernel/file.c): a file is a sequence   *)
(* of words, an open file has an offset in it; read() and write() take     *)
(* place at the offset and move it on, whoever shares it.                  *)
(***************************************************************************)
EXTENDS Integers, Sequences

CONSTANTS
  Inodes, Files,  \* files and open files
  Sources,        \* processes that write
  Source(_, _),   \* the word a process has at an index of its buffer
  MaxSize,        \* words of the largest file
  MaxStep, MaxBuf \* bounds on the words of a step and of a buffer

VARIABLES
  flat,  \* the contents of a file
  off,   \* the offset of an open file
  of     \* the file of an open file

fvars == <<flat, off, of>>

Init ==
  /\ flat = [i \in Inodes |-> <<>>]
  /\ off = [f \in Files |-> 0]
  /\ of \in [Files -> Inodes]

\* Words k+1..k+n of process p's buffer replace what is at offset o, and more.
Spliced(s, o, p, k, n) ==
  [j \in 1..(IF o + n > Len(s) THEN o + n ELSE Len(s)) |->
     IF j > o /\ j <= o + n THEN Source(p, k + j - o) ELSE s[j]]

Write(f, p, k, n) ==
  /\ off[f] <= Len(flat[of[f]]) /\ off[f] + n <= MaxSize
  /\ off' = [off EXCEPT ![f] = @ + n] /\ UNCHANGED of
  /\ flat' = [flat EXCEPT ![of[f]] = Spliced(@, off[f], p, k, n)]

\* A write() that fails in the middle of a word's block leaves some of its
\* words in the file, but only in place of others.
Smear(f, p, k, n) ==
  LET s == flat[of[f]] IN
  /\ off[f] <= Len(s) /\ UNCHANGED <<off, of>>
  /\ flat' = [flat EXCEPT ![of[f]] = SubSeq(Spliced(s, off[f], p, k, n), 1, Len(s))]

Read(f, n) ==
  /\ off[f] + n <= Len(flat[of[f]])
  /\ off' = [off EXCEPT ![f] = @ + n]
  /\ UNCHANGED <<flat, of>>

Open(f, i) ==
  /\ of' = [of EXCEPT ![f] = i] /\ off' = [off EXCEPT ![f] = 0]
  /\ UNCHANGED flat

OpenTrunc(f, i) ==
  /\ of' = [of EXCEPT ![f] = i] /\ off' = [off EXCEPT ![f] = 0]
  /\ flat' = [flat EXCEPT ![i] = <<>>]

Next == \E f \in Files :
  \/ \E p \in Sources, k \in 0..MaxBuf, n \in 1..MaxStep : Write(f, p, k, n) \/ Smear(f, p, k, n)
  \/ \E n \in 1..MaxSize : Read(f, n)
  \/ \E i \in Inodes : Open(f, i) \/ OpenTrunc(f, i)

Spec == Init /\ [][Next]_fvars
=============================================================================
