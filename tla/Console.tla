------------------------------ MODULE Console -------------------------------
(***************************************************************************)
(* The console (kernel/console.c), the serial port's driver (kernel/uart.c) *)
(* and the interrupt controller (kernel/plic.c) with its part of devintr(). *)
(*                                                                          *)
(* The interrupt handler is an actor of its own: the PLIC gives a device's  *)
(* interrupt to one hart until it is completed, and a hart that holds one   *)
(* of the locks takes no interrupt (module Trap).  sleep() and wakeup() are *)
(* those of module Proc.  printf() is called on any hart, by kernel code    *)
(* that is otherwise not in this module; panic(), which prints without      *)
(* pr.lock, is not.  The 16550 has a transmit FIFO, is idle when it is      *)
(* empty, and interrupts when it becomes empty and when a character comes.  *)
(* A slot of a ring that is free again is reset, which only keeps the       *)
(* number of states down.                                                   *)
(***************************************************************************)
EXTENDS Integers, Sequences, FiniteSets, SequencesExt

CONSTANTS
  INPUT_BUF,         \* size of cons.buf
  UART_TX_BUF_SIZE,  \* size of uart_tx_buf
  FifoDepth,         \* size of the 16550's transmit FIFO
  TtyReaders, TtyWriters, \* processes that read and that write the console
  Printers,          \* kernel code on the harts that calls printf()
  MaxRead,           \* the n of a read()
  MaxWrite,          \* the n of a write()
  Loads,             \* the keys that are pressed, the processes that call read(),
                     \* again and again, or write(), once, and how many characters
                     \* printf() prints
  Nobody

Procs == TtyReaders \cup TtyWriters
Intr == "uartintr"
CMod == 2 * INPUT_BUF          \* where uint wraps, a multiple of the size
TMod == 2 * UART_TX_BUF_SIZE   \* where uint64 wraps

\* The keys: ordinary, newline, return, ^D, ^U, ^H or delete, ^P, 0.
Keys == {"a", "nl", "cr", "eof", "kill", "bs", "ps", "nul"}
Written == TtyWriters \X (1..MaxWrite)

ASSUME ConsoleAssumption ==
  /\ {INPUT_BUF, UART_TX_BUF_SIZE, MaxRead, MaxWrite} \subseteq Nat \ {0}
  /\ FifoDepth \in Nat \ {0, 1, 2}     \* 16 in the 16550
  /\ \A l \in Loads : l.keys \subseteq Keys /\ l.callers \subseteq Procs /\ l.prints \in Nat
  /\ TtyReaders \cap TtyWriters = {} /\ Intr \notin Procs \cup Printers
  /\ Printers \cap Procs = {} /\ Nobody \notin Procs \cup Printers \cup {Intr}

VARIABLES
  cons,    \* cons.buf, r, w and e
  conslock,\* the holder of cons.lock
  tx,      \* uart_tx_buf, uart_tx_r and uart_tx_w
  txlock,  \* the holder of uart_tx_lock
  prlock,  \* the holder of pr.lock
  dev,     \* characters received and to be sent in the UART
  pending, \* the PLIC has an interrupt of the UART to deliver
  at,      \* where every process, the handler and the callers of printf() are
  ch,      \* c of uartstart(), or the key consoleintr() handles
  echo,    \* what consoleintr() still has to echo
  call,    \* the system call of a process
  keys,    \* the keys that may be pressed
  prints   \* the characters printf() has still to print

\* What consoleread(), consolewrite() and the handler of the UART work on.
ttyVars == <<cons, conslock, tx, txlock, dev, pending, at, ch, echo, call, keys>>
printVars == <<prlock, prints>>
consoleVars == <<ttyVars, printVars>>

\* consoleinit(), uartinit(), plicinit().
ConsoleInit ==
  /\ cons = [buf |-> [k \in 0..(INPUT_BUF - 1) |-> "nul"], r |-> 0, w |-> 0, e |-> 0]
  /\ conslock = Nobody /\ txlock = Nobody /\ prlock = Nobody
  /\ tx = [buf |-> [k \in 0..(UART_TX_BUF_SIZE - 1) |-> Nobody], r |-> 0, w |-> 0]
  /\ dev = [rx |-> <<>>, fifo |-> <<>>]
  /\ pending = FALSE
  /\ at = [a \in Procs \cup {Intr} \cup Printers |-> IF a \in Procs THEN "user" ELSE "off"]
  /\ ch = [a \in Procs \cup {Intr} |-> Nobody]
  /\ echo = <<>>
  /\ \E l \in Loads :
       /\ keys = l.keys /\ prints = l.prints
       /\ call = [p \in Procs |->
            [n |-> 0, got |-> <<>>, i |-> 0, killed |-> FALSE,
             left |-> IF p \in l.callers THEN 1 ELSE 0]]

Jump(a, l) == at' = [at EXCEPT ![a] = l]

\* wakeup(): the processes asleep at l can run, and go on at m.
Wakeup(f, l, m) == [p \in DOMAIN f |-> IF f[p] = l THEN m ELSE f[p]]

-----------------------------------------------------------------------------
(* The serial port and the interrupt controller *)

Idle == dev.fifo = <<>>   \* LSR_TX_IDLE

\* WriteReg(THR, c).
WriteThr(c) == dev' = [dev EXCEPT !.fifo = Append(@, c)]

\* A key is pressed.
Type(c) ==
  /\ c \in keys /\ dev.rx = <<>>
  /\ dev' = [dev EXCEPT !.rx = <<c>>]
  /\ pending' = TRUE
  /\ UNCHANGED <<cons, conslock, tx, txlock, at, ch, echo, call, keys, printVars>>

\* The UART has sent a character.
Transmit ==
  /\ dev.fifo # <<>>
  /\ dev' = [dev EXCEPT !.fifo = Tail(@)]
  /\ pending' = (pending \/ Len(dev.fifo) = 1)
  /\ UNCHANGED <<cons, conslock, tx, txlock, at, ch, echo, call, keys, printVars>>

\* devintr(): plic_claim() returns UART0_IRQ; the PLIC gives it to nobody else
\* until it is completed.
Claim ==
  /\ at[Intr] = "off" /\ pending
  /\ pending' = FALSE
  /\ Jump(Intr, "rx")
  /\ UNCHANGED <<cons, conslock, tx, txlock, dev, ch, echo, call, keys, printVars>>

\* devintr(): plic_complete(UART0_IRQ).
Complete ==
  /\ at[Intr] = "complete"
  /\ Jump(Intr, "off")
  /\ UNCHANGED <<cons, conslock, tx, txlock, dev, pending, ch, echo, call, keys, printVars>>

-----------------------------------------------------------------------------
(* uart.c: the transmit ring *)

TxFull == tx.w = (tx.r + UART_TX_BUF_SIZE) % TMod

\* uartputc(): under uart_tx_lock, wait for room or add the character.
Uartputc(p) ==
  /\ at[p] = "put" \/ (at[p] = "wr" /\ call[p].i < call[p].n)
  /\ txlock = Nobody
  /\ \/ TxFull /\ Jump(p, "wr_asleep") /\ UNCHANGED <<tx, txlock>>
     \/ /\ ~ TxFull
        /\ tx' = [tx EXCEPT !.buf[tx.w % UART_TX_BUF_SIZE] = <<p, call[p].i + 1>>,
                            !.w = (@ + 1) % TMod]
        /\ txlock' = p
        /\ Jump(p, "start")
  /\ UNCHANGED <<cons, conslock, dev, pending, ch, echo, call, keys, printVars>>

\* Mutant: uartstart() does not wake the writers.
StartWakeupNone(f) == f

\* wakeup(&uart_tx_r).
StartWakeup(f) == Wakeup(f, "wr_asleep", "put")

\* Mutant: consolewrite() does not step to the next character.
NextCharSame(i) == i

\* i++ of consolewrite().
NextChar(i) == i + 1

\* Mutant: uartstart() does not look whether the UART can take a character.
StartStopsEmpty == tx.w = tx.r

\* uartstart() returns: nothing to send, or the UART is busy.
StartStops == tx.w = tx.r \/ ~ Idle

\* uartstart(), one turn of its loop up to WriteReg(): the caller holds
\* uart_tx_lock and releases it when uartstart() returns.
UartstartTurn(a) ==
  /\ at[a] = "start"
  /\ \/ /\ StartStops
        /\ txlock' = Nobody
        /\ Jump(a, IF a = Intr THEN "complete" ELSE "wr")
        /\ call' = IF a = Intr THEN call ELSE [call EXCEPT ![a].i = NextChar(@)]
        /\ UNCHANGED <<tx, ch>>
     \/ /\ ~ StartStops
        /\ ch' = [ch EXCEPT ![a] = tx.buf[tx.r % UART_TX_BUF_SIZE]]
        /\ tx' = [tx EXCEPT !.r = (@ + 1) % TMod, !.buf[tx.r % UART_TX_BUF_SIZE] = Nobody]
        /\ at' = [StartWakeup(at) EXCEPT ![a] = "thr"]
        /\ UNCHANGED <<txlock, call>>
  /\ UNCHANGED <<cons, conslock, dev, pending, echo, keys, printVars>>

UartstartWrite(a) ==
  /\ at[a] = "thr"
  /\ WriteThr(ch[a])
  /\ ch' = [ch EXCEPT ![a] = Nobody]
  /\ Jump(a, "start")
  /\ UNCHANGED <<cons, conslock, tx, txlock, pending, echo, call, keys, printVars>>

-----------------------------------------------------------------------------
(* uartintr() and consoleintr() *)

\* consputc(): a backspace is three characters.
Consputc(c) == IF c = "bs" THEN << <<Intr, "bs">>, <<Intr, "sp">>, <<Intr, "bs">> >>
               ELSE << <<Intr, c>> >>

EditLen == (cons.e - cons.w) % CMod
Used == (cons.e - cons.r) % CMod
Slot(k) == (k % CMod) % INPUT_BUF

\* Characters ^U erases: those after w, or after a newline.
Erased == Cardinality({k \in 1..EditLen : \A j \in 1..k : cons.buf[Slot(cons.e - j)] # "nl"})

\* cons.e - cons.r < INPUT_BUF.
HasRoom == Used < INPUT_BUF

Stored(c) == IF c = "cr" THEN "nl" ELSE c

\* What consoleintr() echoes for a key, procdump()'s list being one character.
Echo(c) ==
  CASE c = "ps" -> << <<Intr, "dump">> >>
    [] c = "kill" -> FlattenSeq([k \in 1..Erased |-> Consputc("bs")])
    [] c = "bs" /\ EditLen > 0 -> Consputc("bs")
    [] c \in {"a", "nl", "cr", "eof"} /\ HasRoom -> Consputc(Stored(c))
    [] OTHER -> <<>>

\* uartintr(): uartgetc() has a character, consoleintr() takes cons.lock.
UartintrGetc ==
  /\ at[Intr] = "rx" /\ dev.rx # <<>> /\ conslock = Nobody
  /\ conslock' = Intr
  /\ dev' = [dev EXCEPT !.rx = Tail(@)]
  /\ ch' = [ch EXCEPT ![Intr] = Head(dev.rx)]
  /\ echo' = Echo(Head(dev.rx))
  /\ Jump(Intr, "echo")
  /\ UNCHANGED <<cons, tx, txlock, pending, call, keys, printVars>>

\* uartintr(): no more characters.
UartintrNoMore ==
  /\ at[Intr] = "rx" /\ dev.rx = <<>>
  /\ Jump(Intr, "tx")
  /\ UNCHANGED <<cons, conslock, tx, txlock, dev, pending, ch, echo, call, keys, printVars>>

UartintrTx ==
  /\ at[Intr] = "tx" /\ txlock = Nobody
  /\ txlock' = Intr
  /\ Jump(Intr, "start")
  /\ UNCHANGED <<cons, conslock, tx, dev, pending, ch, echo, call, keys, printVars>>

\* The handler prints the list of ^P by printf(), which takes pr.lock.
InPrintf == echo # <<>> /\ Head(echo) = <<Intr, "dump">>

\* uartputc_sync(), to echo: it spins until the UART is idle, and then writes; it
\* does not hold uart_tx_lock.
SyncWait ==
  /\ at[Intr] = "echo" /\ echo # <<>> /\ Idle
  /\ IF InPrintf THEN prlock = Nobody /\ prlock' = Intr ELSE UNCHANGED prlock
  /\ Jump(Intr, "echo_thr")
  /\ UNCHANGED <<cons, conslock, tx, txlock, dev, pending, ch, echo, call, keys, prints>>

SyncWrite ==
  /\ at[Intr] = "echo_thr"
  /\ WriteThr(Head(echo))
  /\ prlock' = IF InPrintf THEN Nobody ELSE prlock
  /\ echo' = Tail(echo)
  /\ Jump(Intr, "echo")
  /\ UNCHANGED <<cons, conslock, tx, txlock, pending, ch, call, keys, prints>>

\* A whole line, an end of file, or the buffer is full.
Commits(c, e) == c \in {"nl", "eof"} \/ e = (cons.r + INPUT_BUF) % CMod

\* consoleintr() stores the key c.
Store(c) ==
  LET e == (cons.e + 1) % CMod IN
  /\ cons' = [cons EXCEPT !.buf[Slot(cons.e)] = c, !.e = e,
                          !.w = IF Commits(c, e) THEN e ELSE @]
  /\ at' = [(IF Commits(c, e) THEN Wakeup(at, "rd_asleep", "rd") ELSE at) EXCEPT ![Intr] = "rx"]

\* cons.e goes back by k.
Unput(k) ==
  [cons EXCEPT !.e = (@ - k) % CMod,
               !.buf = [j \in DOMAIN @ |->
                          IF \E i \in 1..k : j = Slot(cons.e - i) THEN "nul" ELSE @[j]]]

\* consoleintr(): the key takes effect when it has been echoed; release().
Consoleintr ==
  LET c == ch[Intr] IN
  /\ at[Intr] = "echo" /\ echo = <<>>
  /\ \/ c = "ps" /\ Jump(Intr, "rx") /\ UNCHANGED cons
     \/ /\ c = "kill"
        /\ cons' = Unput(Erased)
        /\ Jump(Intr, "rx")
     \/ /\ c = "bs"
        /\ cons' = Unput(IF cons.e # cons.w THEN 1 ELSE 0)
        /\ Jump(Intr, "rx")
     \/ /\ c \notin {"ps", "kill", "bs"}
        /\ IF c # "nul" /\ HasRoom THEN Store(Stored(c))
           ELSE Jump(Intr, "rx") /\ UNCHANGED cons
  /\ conslock' = Nobody
  /\ ch' = [ch EXCEPT ![Intr] = Nobody]
  /\ UNCHANGED <<tx, txlock, dev, pending, echo, call, keys, printVars>>

-----------------------------------------------------------------------------
(* printf.c *)

\* printf() takes pr.lock.
PrintfStart(k) ==
  /\ at[k] = "off" /\ prints > 0 /\ prlock = Nobody
  /\ prlock' = k
  /\ Jump(k, "print")
  /\ UNCHANGED <<cons, conslock, tx, txlock, dev, pending, ch, echo, call, keys, prints>>

\* uartputc_sync(), for a character of printf().
PrintfWait(k) ==
  /\ at[k] = "print" /\ Idle
  /\ Jump(k, "print_thr")
  /\ UNCHANGED <<cons, conslock, tx, txlock, dev, pending, ch, echo, call, keys, printVars>>

\* It is written; another one follows, or printf() releases pr.lock.
PrintfWrite(k) ==
  /\ at[k] = "print_thr"
  /\ WriteThr(<<k, "c">>)
  /\ prints' = prints - 1
  /\ \/ prints > 1 /\ Jump(k, "print") /\ UNCHANGED prlock
     \/ Jump(k, "off") /\ prlock' = Nobody
  /\ UNCHANGED <<cons, conslock, tx, txlock, pending, ch, echo, call, keys>>

-----------------------------------------------------------------------------
(* consoleread() and consolewrite() *)

\* The system call returns, with g read; a killed process exits and another
\* takes its place.
Return(p, g) ==
  /\ Jump(p, "user")
  /\ call' = [call EXCEPT ![p].n = 0, ![p].i = 0, ![p].killed = FALSE, ![p].got = g]

Read(p) ==
  /\ at[p] = "user" /\ p \in TtyReaders /\ call[p].left > 0
  /\ call' = [call EXCEPT ![p].n = MaxRead, ![p].got = <<>>]
  /\ Jump(p, "rd")
  /\ UNCHANGED <<cons, conslock, tx, txlock, dev, pending, ch, echo, keys, printVars>>

\* consoleread() is at the top of its loop and has, or can take, cons.lock.
InRead(p) == at[p] = "rd_loop" \/ (at[p] = "rd" /\ conslock = Nobody)

\* Mutant: an end of file in the middle of a read() is not kept for the next.
EofKeptNot(p) == FALSE

\* n < target: something has been read before the end of file.
EofKept(p) == call[p].got # <<>>

\* consoleread() takes a character.
ReadTake(p) ==
  LET c == cons.buf[Slot(cons.r)]
      took == [cons EXCEPT !.r = (@ + 1) % CMod, !.buf[Slot(cons.r)] = "nul"] IN
  /\ InRead(p) /\ cons.r # cons.w
  /\ \/ /\ c = "eof"
        /\ cons' = IF EofKept(p) THEN cons ELSE took
        /\ conslock' = Nobody
        /\ Return(p, IF EofKept(p) THEN call[p].got ELSE <<"eof">>)
     \/ /\ c # "eof"            \* either_copyout() fails
        /\ cons' = took
        /\ conslock' = Nobody
        /\ Return(p, call[p].got)
     \/ /\ c # "eof"
        /\ cons' = took
        /\ IF c = "nl" \/ call[p].n = 1
           THEN conslock' = Nobody /\ Return(p, Append(call[p].got, c))
           ELSE /\ call' = [call EXCEPT ![p].n = @ - 1, ![p].got = Append(@, c)]
                /\ conslock' = p
                /\ Jump(p, "rd_loop")
  /\ UNCHANGED <<tx, txlock, dev, pending, ch, echo, keys, printVars>>

\* consoleread(): nothing to read, and the process has been killed or sleeps.
ReadKilled(p) ==
  /\ InRead(p) /\ cons.r = cons.w /\ call[p].killed
  /\ conslock' = Nobody
  /\ Return(p, call[p].got)
  /\ UNCHANGED <<cons, tx, txlock, dev, pending, ch, echo, keys, printVars>>

ReadSleep(p) ==
  /\ \/ /\ InRead(p) /\ cons.r = cons.w /\ ~ call[p].killed
        /\ Jump(p, "rd_sleep") /\ conslock' = p
     \/ /\ at[p] = "rd_sleep"
        /\ Jump(p, "rd_asleep") /\ conslock' = Nobody
  /\ UNCHANGED <<cons, tx, txlock, dev, pending, ch, echo, call, keys, printVars>>

Write(p) ==
  /\ at[p] = "user" /\ p \in TtyWriters /\ call[p].left > 0
  /\ call' = [call EXCEPT ![p].n = MaxWrite, ![p].left = @ - 1]
  /\ Jump(p, "wr")
  /\ UNCHANGED <<cons, conslock, tx, txlock, dev, pending, ch, echo, keys, printVars>>

\* consolewrite(): i = n, or either_copyin() fails.
WriteReturn(p) ==
  /\ at[p] = "wr"
  /\ Return(p, call[p].got)
  /\ UNCHANGED <<cons, conslock, tx, txlock, dev, pending, ch, echo, keys, printVars>>

\* kill(): a sleeping process can run.
ConsoleKill(p) ==
  /\ at[p] # "user" /\ ~ call[p].killed
  /\ call' = [call EXCEPT ![p].killed = TRUE]
  /\ at' = [at EXCEPT ![p] = CASE @ = "rd_asleep" -> "rd" [] @ = "wr_asleep" -> "put" [] OTHER -> @]
  /\ UNCHANGED <<cons, conslock, tx, txlock, dev, pending, ch, echo, keys, printVars>>

-----------------------------------------------------------------------------
ProcStep(p) ==
  \/ Uartputc(p) \/ UartstartTurn(p) \/ UartstartWrite(p) \/ WriteReturn(p)
  \/ ReadTake(p) \/ ReadKilled(p) \/ ReadSleep(p)

IntrStep ==
  \/ Claim \/ Complete \/ UartintrGetc \/ UartintrNoMore \/ UartintrTx
  \/ SyncWait \/ SyncWrite \/ Consoleintr
  \/ UartstartTurn(Intr) \/ UartstartWrite(Intr)

PrintfStep(k) == PrintfStart(k) \/ PrintfWait(k) \/ PrintfWrite(k)

Progress ==
  \/ Transmit \/ IntrStep
  \/ \E p \in Procs : ProcStep(p)
  \/ \E k \in Printers : PrintfStep(k)

ConsoleNext ==
  \/ \E c \in Keys : Type(c)
  \/ Progress
  \/ \E p \in Procs : Read(p) \/ Write(p) \/ ConsoleKill(p)

ConsoleSpec == ConsoleInit /\ [][ConsoleNext]_consoleVars

\* The UART sends what it is given, harts run the handler of a pending
\* interrupt and the scheduler runs processes: not every one, but while one of
\* all these can take a step, some step is taken.
Fairness == WF_consoleVars(Progress)

FairSpec == ConsoleSpec /\ Fairness

-----------------------------------------------------------------------------
Stretch(from, len) == [k \in 1..len |-> cons.buf[Slot(from + k - 1)]]

\* write()'s characters on their way out, oldest first.
InTransit ==
  LET ofWrite(s) == SelectSeq(s, LAMBDA x : x[1] \in Procs)
      local == {a \in Procs \cup {Intr} : at[a] = "thr"} IN
  ofWrite(dev.fifo)
    \o (IF local = {} THEN <<>> ELSE <<ch[CHOOSE a \in local : TRUE]>>)
    \o [k \in 1..((tx.w - tx.r) % TMod) |-> tx.buf[(tx.r + k - 1) % UART_TX_BUF_SIZE]]

Line == INSTANCE Tty WITH
  Readers <- TtyReaders,
  done <- Stretch(cons.r, (cons.w - cons.r) % CMod), edit <- Stretch(cons.w, EditLen),
  got <- [p \in TtyReaders |-> call[p].got], out <- InTransit, Chars <- {"a"}

\* The two rings, whose counters wrap around, are a line discipline: with any
\* mix of keys, readers, writers and kills, typed lines are read as they were
\* edited, once and in order, and characters written are sent once and in order.
LineSpec == Line!Spec

\* The UART's transmit FIFO is never given a character it has no room for,
\* although uartstart(), the echo and printf() look at LSR_TX_IDLE and write THR
\* under three different locks: all three may find the UART idle at once.
NoOverrun == Len(dev.fifo) <= FifoDepth

\* A reader sleeps only while no finished line is there, a writer only while
\* the ring is full; and what waits in a ring or in the UART's receiver has an
\* interrupt, or a holder of uart_tx_lock, coming that will take it further.
SleepJustified ==
  /\ \A p \in Procs : at[p] = "rd_asleep" => cons.r = cons.w
  /\ \A p \in Procs : at[p] = "wr_asleep" => TxFull
  /\ dev.rx # <<>> => pending \/ at[Intr] \in {"rx", "echo", "echo_thr"}
  /\ tx.r # tx.w => \/ dev.fifo # <<>> \/ pending \/ txlock # Nobody
                    \/ at[Intr] \in {"rx", "echo", "echo_thr", "tx"}

\* Unless keys keep coming, every write() ends: nobody waits for room in the
\* ring that no interrupt will make.
WriteEnds == \A p \in TtyWriters :
  (at[p] # "user" ~> at[p] = "user") \/ []<>(dev.rx # <<>>)
=============================================================================
