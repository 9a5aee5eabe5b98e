------------------------------- MODULE MCTrap -------------------------------
(* A small instance of Trap for TLC. *)
EXTENDS Trap

\* What the two programs do: one runs an alarm and the other only computes;
\* one sleeps for 2 ticks, which is also -1 ticks, and the other may kill it;
\* one makes calls that end badly.
SmallPrograms ==
  { << {<<"sigalarm", 2>>, <<"sigreturn", 0>>}, {} >>,
    << {<<"sleep", 2>>}, {<<"work", 0>>} >>,
    << {<<"sigalarm", 0>>, <<"bad", 0>>, <<"exit", 0>>, Fault}, {} >> }

\* A program that has the result -1 of a call in a0 when its alarm goes off.
AlarmPrograms == { << {<<"sigalarm", 2>>, <<"bad", 0>>, <<"sigreturn", 0>>} >> }
=============================================================================
