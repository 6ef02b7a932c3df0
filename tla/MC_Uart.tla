------------------------------ MODULE MC_Uart -------------------------------
(* Instances of Uart for TLC.                                              *)
EXTENDS Uart

CONSTANTS cam, hello, nsh, nsh2, a, b

String(h, c) == [t \in Writers |-> IF t = hello THEN h ELSE c]
Reads(n, m)  == [t \in Readers |-> IF t = nsh THEN n ELSE m]

\* The console, two tasks writing, one of them a newline; the console, a byte
\* typed while output is blocked; ttyS1, the camera's command and its polling;
\* the console, two readers.
Workloads ==
  {[strings |-> String(<<a, b, NL>>, <<b, b>>), arrivals |-> 0, reads |-> Reads(0, 0),
    flushes |-> Reads(0, 0), nonblock |-> FALSE, onlcr |-> TRUE],
   [strings |-> String(<<a, a, b>>, <<>>), arrivals |-> 2, reads |-> Reads(2, 0),
    flushes |-> Reads(0, 0), nonblock |-> FALSE, onlcr |-> FALSE],
   [strings |-> String(<<a, b, a>>, <<>>), arrivals |-> 4, reads |-> Reads(3, 0),
    flushes |-> Reads(1, 0), nonblock |-> TRUE, onlcr |-> FALSE],
   [strings |-> String(<<>>, <<>>), arrivals |-> 3, reads |-> Reads(2, 2),
    flushes |-> Reads(0, 0), nonblock |-> FALSE, onlcr |-> FALSE]}

\* The condition of UartProofs on the workloads.
ASSUME OneFlusher == FlushesAlone
=============================================================================
