------------------------------- MODULE TcpSend -------------------------------
(***************************************************************************)
(* AsciiProtocol and TCPClient: the threads that report to a server write  *)
(* each line into the next buffer of a small ring, then copy it from there *)
(* into the ring of bytes the client's service thread sends from.          *)
(***************************************************************************)
EXTENDS Integers, Sequences

CONSTANTS Thread,   \* threads that send
          Slots,    \* buffers of AsciiProtocol (10)
          Cap,      \* bytes crcsnd_ has room for
          LineLen,  \* bytes of a line
          MaxLines

VARIABLES ibuf,   \* next buffer
          buff,   \* the line in every buffer, 0 for none
          held,   \* the line a thread has composed and the buffer it got, or << >>
          lines,  \* lines composed
          crcsnd, \* bytes not sent yet
          flight, \* writes of the socket that have not returned, with their bytes
          wire,   \* bytes sent
          taken,  \* history: the bytes Write has taken, as they were composed
          broken

sdVars == <<ibuf, buff, held, lines, crcsnd, flight, wire, taken, broken>>

Bytes(line, n) == [k \in 1 .. n |-> <<line, k>>]

SDInit == /\ ibuf = 1 /\ buff = [i \in 1 .. Slots |-> 0]
          /\ held = [t \in Thread |-> << >>]
          /\ lines = 0
          /\ crcsnd = << >> /\ flight = << >> /\ wire = << >> /\ taken = << >>
          /\ broken = FALSE

\* output_compacted, under its mutex.  No thread keeps a line until Slots others are
\* composed.
output_compacted(t) ==
    /\ held[t] = << >> /\ lines < MaxLines
    /\ \A u \in Thread : held[u] # << >> => held[u].slot # ibuf
    /\ lines' = lines + 1
    /\ buff' = [buff EXCEPT ![ibuf] = lines']
    /\ held' = [held EXCEPT ![t] = [line |-> lines', slot |-> ibuf]]
    /\ ibuf' = 1 + (ibuf % Slots)
    /\ UNCHANGED <<crcsnd, flight, wire, taken, broken>>

\* Mutant: every Write starts a write of the socket.
Starts_Always(ring, n) == n > 0
\* A write of the socket starts when the ring was empty.
Starts(ring, n) == ring = << >> /\ n > 0

\* TCPClient::Write takes what there is room for.
Write(t) ==
    /\ held[t] # << >>
    /\ LET n == IF Cap - Len(crcsnd) < LineLen THEN Cap - Len(crcsnd) ELSE LineLen
       IN  /\ crcsnd' = crcsnd \o Bytes(buff[held[t].slot], n)
           /\ taken' = taken \o Bytes(held[t].line, n)
           /\ flight' = IF Starts(crcsnd, n) THEN Append(flight, crcsnd') ELSE flight
    /\ held' = [held EXCEPT ![t] = << >>]
    /\ UNCHANGED <<ibuf, buff, lines, wire, broken>>

\* The socket has sent some of the bytes, all that remain are written next; after an
\* error nothing is.
handle_write ==
    /\ flight # << >>
    /\ \/ /\ ~broken
          /\ \E n \in 1 .. Len(flight[1]) :
               /\ wire' = wire \o SubSeq(flight[1], 1, n)
               /\ crcsnd' = SubSeq(crcsnd, n + 1, Len(crcsnd))
          /\ flight' = Tail(flight) \o IF crcsnd' = << >> THEN << >> ELSE <<crcsnd'>>
          /\ UNCHANGED broken
       \/ broken' = TRUE /\ flight' = Tail(flight) /\ UNCHANGED <<wire, crcsnd>>
    /\ UNCHANGED <<ibuf, buff, held, lines, taken>>

SDNext == \/ \E t \in Thread : output_compacted(t) \/ Write(t)
          \/ handle_write

SDSpec == SDInit /\ [][SDNext]_sdVars

\* The server gets what the threads composed, in the order they wrote it: of the bytes
\* Write took none is lost before the connection breaks, none is sent twice, and no
\* line is mixed with one composed later, however slowly the socket takes them.
WireHoldsLines ==
    /\ wire \o crcsnd = taken
    /\ crcsnd # << >> /\ ~broken => Len(flight) = 1
=============================================================================
