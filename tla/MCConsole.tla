----------------------------- MODULE MCConsole ------------------------------
(* A small instance of Console for TLC. *)
EXTENDS Console

\* Somebody types and edits while a process reads; two processes write, and the
\* list of ^P gets in between; one writes while printf() and the echo do; and the
\* other keys, with ^P and printf() after the same lock.
SmallLoads ==
  {[keys |-> {"a", "nl", "eof", "kill", "bs"}, callers |-> TtyReaders, prints |-> 0],
   [keys |-> {"ps"}, callers |-> TtyWriters, prints |-> 0],
   [keys |-> {"a"}, callers |-> {CHOOSE w \in TtyWriters : TRUE}, prints |-> 1],
   [keys |-> {"cr", "nul", "ps"}, callers |-> {}, prints |-> 2]}
=============================================================================
