------------------------------ MODULE Console ------------------------------
(***************************************************************************)
(* The input of the shell: the interrupt of the serial port puts what it   *)
(* receives into the software fifo of serial.c, overwriting the oldest     *)
(* bytes when it is full, and releases the semaphore of the shell, which   *)
(* reads byte by byte and takes the semaphore when there is none.  A byte  *)
(* is modelled by its number in the order of arrival.                      *)
(***************************************************************************)
EXTENDS Naturals, Sequences

CONSTANTS BufSz,     \* config.bufsz
          MaxTokens, \* RT_SEM_VALUE_MAX
          MaxBytes   \* bound: bytes that arrive

ASSUME ConsoleAssumption == /\ BufSz \in Nat /\ BufSz >= 2
                            /\ MaxTokens \in Nat /\ MaxTokens >= 1
                            /\ MaxBytes \in Nat

VARIABLES buffer, put_index, get_index, is_full,
          rx_sem,    \* value of shell->rx_sem
          shell,        \* the shell: "read", "take" or, blocked, "wait"
          arrived,   \* history: bytes that arrived
          got       \* history: the byte that the shell read last

fifo == <<buffer, put_index, get_index, is_full>>
consoleVars == <<fifo, rx_sem, shell, arrived, got>>

Cells == 0 .. BufSz - 1
\* Mutant: the index goes back to 0 one byte too late.
AfterLate(i) == IF i + 1 > BufSz THEN 0 ELSE i + 1

After(i) == IF i + 1 >= BufSz THEN 0 ELSE i + 1

ConsoleTyped ==
  /\ buffer \in [Cells -> 0 .. MaxBytes]
  /\ put_index \in Cells /\ get_index \in Cells /\ is_full \in BOOLEAN
  /\ rx_sem \in 0 .. MaxTokens
  /\ shell \in {"read", "take", "wait"}
  /\ arrived \in 0 .. MaxBytes /\ got \in 0 .. arrived

\* rt_serial_open by finsh_set_device
ConsoleInit ==
  /\ buffer = [i \in Cells |-> 0]
  /\ put_index = 0 /\ get_index = 0 /\ is_full = FALSE
  /\ rx_sem = 0 /\ shell = "read"
  /\ arrived = 0 /\ got = 0

-----------------------------------------------------------------------------
\* The fifo after one more byte: the oldest is given up when there is no room.
PutByte(f, byte) ==
  LET put == After(f.put)
      over == put = f.get
  IN  [buffer |-> [f.buffer EXCEPT ![f.put] = byte],
       put |-> put,
       get |-> IF over THEN After(f.get) ELSE f.get,
       full |-> f.full \/ over]

\* The fifo after n bytes were put into it.
Put[n \in 0 .. MaxBytes] ==
  IF n = 0 THEN [buffer |-> buffer, put |-> put_index, get |-> get_index, full |-> is_full]
  ELSE PutByte(Put[n - 1], arrived + n)

\* Mutant: what is in the fifo from get_index to the end of the buffer is not seen.
LengthToEnd(f) == IF f.put >= f.get THEN f.put - f.get ELSE 0

rx_length(f) == IF f.put >= f.get THEN f.put - f.get ELSE BufSz - (f.get - f.put)

\* rt_hw_serial_isr reads all the port has, then finsh_rx_ind releases the
\* semaphore: to the shell if it waits.
rt_hw_serial_isr(n) ==
  /\ arrived' = arrived + n
  /\ buffer' = Put[n].buffer /\ put_index' = Put[n].put
  /\ get_index' = Put[n].get /\ is_full' = Put[n].full
  /\ IF rx_length(Put[n]) = 0 THEN UNCHANGED <<rx_sem, shell>>
     ELSE IF shell = "wait" THEN shell' = "read" /\ UNCHANGED rx_sem
     ELSE /\ rx_sem' = IF rx_sem < MaxTokens THEN rx_sem + 1 ELSE rx_sem
          /\ UNCHANGED shell
  /\ UNCHANGED got

-----------------------------------------------------------------------------
\* _serial_int_rx for the one byte that finsh_getchar asks for
ReadByte ==
  /\ shell = "read" /\ ~(get_index = put_index /\ ~is_full)
  /\ got' = buffer[get_index]
  /\ get_index' = After(get_index)
  /\ is_full' = FALSE
  /\ UNCHANGED <<buffer, put_index, rx_sem, shell, arrived>>

ReadNothing ==
  /\ shell = "read" /\ get_index = put_index /\ ~is_full
  /\ shell' = "take"
  /\ UNCHANGED <<fifo, rx_sem, arrived, got>>

\* rt_sem_take
Take ==
  /\ shell = "take"
  /\ IF rx_sem > 0 THEN rx_sem' = rx_sem - 1 /\ shell' = "read"
                   ELSE shell' = "wait" /\ UNCHANGED rx_sem
  /\ UNCHANGED <<fifo, arrived, got>>

finsh_getchar == ReadByte \/ ReadNothing \/ Take

ConsoleNext ==
  \/ \E n \in 1 .. BufSz + 1 : arrived + n <= MaxBytes /\ rt_hw_serial_isr(n)
  \/ finsh_getchar

ConsoleSpec == ConsoleInit /\ [][ConsoleNext]_consoleVars

-----------------------------------------------------------------------------
\* Where the i-th cell from the start of the buffer is.
Place(i) == IF i < BufSz THEN i ELSE i - BufSz

\* The fifo holds the newest bytes that arrived, in order, and no byte between
\* the last one read and these is missing unless the fifo overflowed since;
\* and the shell is not left waiting for a byte that is there, whatever bytes
\* arrive between its last look and its wait.
InputServed ==
  LET n == rx_length([put |-> put_index, get |-> get_index]) IN
  /\ \A i \in 1 .. n : buffer[Place(get_index + i - 1)] = arrived - n + i
  /\ arrived - n >= got
  /\ arrived - n = got \/ (n = BufSz - 1 /\ is_full)
  /\ shell = "wait" => n = 0
=============================================================================
