-------------------------------- MODULE Tty ---------------------------------
(***************************************************************************)
(* What the console promises (kernel/console.c, kernel/uart.c): a line that *)
(* can be edited until it is finished; finished lines that are read in the  *)
(* order in which they were typed, every character by one read(), and no    *)
(* read() goes past the end of a line; and characters of write() that are   *)
(* sent in the order in which they were accepted, none lost and none twice. *)
(***************************************************************************)
EXTENDS Naturals, Sequences, SequencesExt

CONSTANTS
  INPUT_BUF,  \* characters the console keeps
  Readers,    \* processes that read
  Chars,      \* ordinary keys
  MaxRead,    \* bound on the length of a read()
  Written     \* characters of write()

VARIABLES
  done,  \* the characters of finished lines, oldest first
  edit,  \* the line that is being typed
  got,   \* what the current read() of a process has received
  out    \* characters of write() not yet sent, oldest first

tvars == <<done, edit, got, out>>

Init == done = <<>> /\ edit = <<>> /\ got = [p \in Readers |-> <<>>] /\ out = <<>>

Room == Len(done) + Len(edit) < INPUT_BUF
Finish(line) == done' = done \o line /\ edit' = <<>>

\* An ordinary key; the line is finished when nothing more fits.
Key(c) ==
  /\ Room
  /\ IF Len(done) + Len(edit) + 1 = INPUT_BUF THEN Finish(Append(edit, c))
     ELSE edit' = Append(edit, c) /\ UNCHANGED done
  /\ UNCHANGED <<got, out>>
EndLine(c) == Room /\ Finish(Append(edit, c)) /\ UNCHANGED <<got, out>>
Erase == edit # <<>> /\ edit' = Front(edit) /\ UNCHANGED <<done, got, out>>
KillLine == edit' = <<>> /\ UNCHANGED <<done, got, out>>

\* A read() starts; it takes a character; it takes an end of file, only as the
\* first thing; a character is lost because the reader's buffer is bad.
Call(p) == got' = [got EXCEPT ![p] = <<>>] /\ UNCHANGED <<done, edit, out>>
Take(p) ==
  /\ done # <<>> /\ Head(done) # "eof" /\ Len(got[p]) < MaxRead
  /\ ~ Contains(got[p], "nl") /\ ~ Contains(got[p], "eof")
  /\ got' = [got EXCEPT ![p] = Append(@, Head(done))] /\ done' = Tail(done)
  /\ UNCHANGED <<edit, out>>
TakeEof(p) ==
  /\ done # <<>> /\ Head(done) = "eof" /\ got[p] = <<>>
  /\ got' = [got EXCEPT ![p] = <<"eof">>] /\ done' = Tail(done)
  /\ UNCHANGED <<edit, out>>
Lose == done # <<>> /\ Head(done) # "eof" /\ done' = Tail(done) /\ UNCHANGED <<edit, got, out>>

Put(v) == out' = Append(out, v) /\ UNCHANGED <<done, edit, got>>
Send == out # <<>> /\ out' = Tail(out) /\ UNCHANGED <<done, edit, got>>

Next ==
  \/ \E c \in Chars : Key(c)
  \/ \E c \in {"nl", "eof"} : EndLine(c)
  \/ Erase \/ KillLine \/ Lose \/ Send
  \/ \E p \in Readers : Call(p) \/ Take(p) \/ TakeEof(p)
  \/ \E v \in Written : Put(v)

Spec == Init /\ [][Next]_tvars
=============================================================================
