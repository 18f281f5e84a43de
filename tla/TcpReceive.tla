----------------------------- MODULE TcpReceive -----------------------------
(***************************************************************************)
(* The receiving half of one TCPClient, the connection with the file       *)
(* server: asio reads into bufrcv_, the service thread (handle_read) moves *)
(* the bytes to the ring crcrcv_ and posts a message, the message thread   *)
(* (on_receive_fileserver) looks up and reads one line after another.      *)
(*                                                                         *)
(* When the ring has no room for a packet the reading pauses, and Read     *)
(* starts it again.  The connection is used before UseBuffer has made the  *)
(* ring: the main thread calls it after Connect, the message thread calls  *)
(* it for the message of an AsyncConnect.                                  *)
(*                                                                         *)
(* A byte is its position in the stream; what the protocol makes of a line *)
(* is left open: Resolve accepts or refuses it.                            *)
(***************************************************************************)
EXTENDS Integers, Sequences

CONSTANTS NumBytes,  \* bound: how many bytes the server sends
          Pack,      \* TCP_PACK_SIZE
          Cap,       \* the capacity UseBuffer gives the ring, 100 packets
          BoxSize    \* how many messages the queue holds, 1024

ASSUME BytesAssumption == NumBytes \in Nat
ASSUME SizeAssumption == /\ Pack \in Nat \ {0} /\ Cap \in Nat /\ 2 * Pack <= Cap
                         /\ BoxSize \in Nat \ {0}

VARIABLES
  stream,  \* what the server sends: stream[i] says whether byte i is a '\n'
  taken,   \* how many bytes asio has received
  reads,   \* how many async_read_some are outstanding
  buf,     \* bufrcv_
  done,    \* the completed reads not handled yet: their n, 0 for an error
  plain,   \* bytercv_
  usebuf,  \* usebuf_
  room,    \* the capacity of crcrcv_
  ring,    \* crcrcv_
  paused,  \* pause_rcv_
  pc,      \* the next step of each thread
  ec,      \* the error handle_read was called with
  box,     \* the messages posted for this connection
  mode,    \* Lookup's reading of usebuf_
  n,       \* Lookup's n
  pos,     \* what Lookup returned
  got,     \* the bytes Read has copied out (history)
  open,    \* the socket is open
  broken,  \* the peer has ended the connection
  noticed, \* MSG_CLOSE_FILESERVER was handled (history)
  calm     \* every byte that came before UseBuffer was read in time, and Read
           \* started no read while handle_read went on to its test (history)

net == <<stream, taken, reads, buf, done, broken>>
client == <<plain, usebuf, room, ring, paused>>
lookup == <<mode, n, pos>>
vars == <<net, client, pc, ec, box, lookup, got, open, noticed, calm>>

At(t, p) == pc[t] = p
Goto(t, p) == pc' = [pc EXCEPT ![t] = p]

\* Connect has called start_read and the main thread goes on to UseBuffer; or
\* handle_connect has posted its message and called start_read.
Init == /\ stream \in [1 .. NumBytes -> BOOLEAN] /\ taken = 0 /\ reads = 1 /\ buf = <<>> /\ done = <<>>
        /\ plain = 0 /\ usebuf = FALSE /\ room = 0 /\ ring = <<>> /\ paused = FALSE
        /\ \/ pc = [main |-> "flag", message |-> "idle", service |-> "idle"] /\ box = <<>>
           \/ pc = [main |-> "done", message |-> "idle", service |-> "idle"]
              /\ box = <<"connect">>
        /\ ec = FALSE
        /\ mode = FALSE /\ n = 0 /\ pos = 0
        /\ got = <<>>
        /\ open = TRUE /\ broken = FALSE /\ noticed = FALSE /\ calm = TRUE
-----------------------------------------------------------------------------
(***************************************************************************)
(* The network and asio.  The bytes come in portions of any size and as    *)
(* late as they like.                                                      *)
(***************************************************************************)
Break == /\ ~broken /\ broken' = TRUE
         /\ UNCHANGED <<stream, taken, reads, buf, done, client, pc, ec, box, lookup, got,
                        open, noticed, calm>>

\* A read ends with k bytes, which asio writes over the beginning of bufrcv_.
Overwrite(k) == [i \in 1 .. (IF k > Len(buf) THEN k ELSE Len(buf)) |->
                   IF i <= k THEN taken + i ELSE buf[i]]

Complete == /\ open /\ reads > 0
            /\ \E k \in 1 .. Pack : /\ taken + k <= NumBytes
                                    /\ buf' = Overwrite(k)
                                    /\ done' = Append(done, k)
                                    /\ taken' = taken + k
            /\ reads' = reads - 1
            /\ calm' = (calm /\ plain = 0)
            /\ UNCHANGED <<stream, broken, client, pc, ec, box, lookup, got, open, noticed>>

\* A read ends with an error when the peer has gone or Close has been called.
Abort == /\ reads > 0 /\ (broken \/ ~open)
         /\ done' = Append(done, 0)
         /\ reads' = reads - 1
         /\ UNCHANGED <<stream, taken, buf, broken, client, pc, ec, box, lookup, got,
                        open, noticed, calm>>
-----------------------------------------------------------------------------
(***************************************************************************)
(* UseBuffer, in the main thread after Connect or in the message thread    *)
(* for MSG_CONNECT_FILESERVER.                                             *)
(***************************************************************************)
UseFlag(t) == /\ At(t, "flag")
              /\ usebuf' = TRUE
              /\ calm' = (calm /\ plain = 0)
              /\ Goto(t, "room")
              /\ UNCHANGED <<net, plain, room, ring, paused, ec, box, lookup, got, open,
                             noticed>>

UseRoom(t) == /\ At(t, "room")
              /\ room' = Cap
              /\ Goto(t, IF t = "main" THEN "done" ELSE "idle")
              /\ UNCHANGED <<net, plain, usebuf, ring, paused, ec, box, lookup, got, open,
                             noticed, calm>>
-----------------------------------------------------------------------------
(***************************************************************************)
(* The service thread: handle_read.                                        *)
(***************************************************************************)
\* A circular_buffer that is full drops its oldest byte for a new one.
Last(s, k) == IF Len(s) > k THEN SubSeq(s, Len(s) - k + 1, Len(s)) ELSE s

\* Mutant: the pause begins when the ring is full.
Full_Late(r) == Len(r) >= room

\* No room for another packet.
Full(r) == room - Len(r) < Pack

\* Under mtxrcv_, unless the read failed.
Handle == /\ At("service", "idle") /\ done # <<>>
          /\ done' = Tail(done)
          /\ ec' = (Head(done) = 0)
          /\ IF Head(done) = 0 THEN UNCHANGED <<ring, paused, plain, calm>>
             ELSE /\ calm' = (calm /\ (usebuf => room > 0))
                  /\ IF usebuf
                     THEN /\ ring' = Last(ring \o SubSeq(buf, 1, Head(done)), room)
                          /\ paused' = Full(ring')
                          /\ UNCHANGED plain
                     ELSE plain' = Head(done) /\ UNCHANGED <<ring, paused>>
          /\ Goto("service", "call")
          /\ UNCHANGED <<stream, taken, reads, buf, broken, usebuf, room, box, lookup, got,
                         open, noticed>>

\* Mutant: a full queue does not hold the service thread back.
Call_NoWait == /\ At("service", "call")
               /\ box' = Append(box, IF ec THEN "close" ELSE "receive")
               /\ Goto("service", "test")
               /\ UNCHANGED <<net, client, ec, lookup, got, open, noticed, calm>>

\* The callback received_server_fileserver posts a message; PostMessage blocks
\* while the queue is full.
Call == /\ At("service", "call")
        /\ Len(box) < BoxSize
        /\ box' = Append(box, IF ec THEN "close" ELSE "receive")
        /\ Goto("service", "test")
        /\ UNCHANGED <<net, client, ec, lookup, got, open, noticed, calm>>

\* start_read does nothing when the socket is closed.
StartRead == reads' = IF open THEN reads + 1 ELSE reads

\* if (!(ec || pause_rcv_)) start_read(), with no lock
Again == /\ At("service", "test")
         /\ IF ec \/ paused THEN UNCHANGED reads ELSE StartRead
         /\ Goto("service", "idle") /\ ec' = FALSE
         /\ UNCHANGED <<stream, taken, buf, done, broken, client, box, lookup, got,
                        open, noticed, calm>>
-----------------------------------------------------------------------------
(***************************************************************************)
(* The message thread.                                                     *)
(***************************************************************************)
\* It takes a message and begins to handle it.
Take == /\ At("message", "idle") /\ box # <<>>
        /\ box' = Tail(box)
        /\ Goto("message", CASE Head(box) = "connect" -> "flag"
                             [] Head(box) = "receive" -> "size"
                             [] Head(box) = "close" -> "idle")
        /\ noticed' = (noticed \/ Head(box) = "close")
        /\ UNCHANGED <<net, client, ec, lookup, got, open, calm>>

\* IsOpen, then Lookup reads usebuf_ and the number of bytes with no lock.
Size == /\ At("message", "size")
        /\ IF open
           THEN /\ mode' = usebuf
                /\ n' = (IF usebuf THEN Len(ring) ELSE plain) - 1
                /\ Goto("message", "scan")
           ELSE UNCHANGED <<mode, n>> /\ Goto("message", "idle")
        /\ UNCHANGED <<net, client, ec, box, pos, got, open, noticed, calm>>

\* The positions of the terminator among the first n + 1 bytes.
Hits == {p \in 0 .. n : stream[IF mode THEN ring[p + 1] ELSE buf[p + 1]]}

Found(p) == pos' = p /\ Goto("message", IF p + 1 > Pack THEN "close" ELSE "read")
Nothing == pos' = 0 /\ Goto("message", "idle")

\* Mutant: Lookup finds the last terminator.
Scan_Last == /\ At("message", "scan")
             /\ IF Hits # {} THEN Found(CHOOSE p \in Hits : \A q \in Hits : q <= p)
                ELSE IF n < Pack THEN Nothing ELSE Found(n)
             /\ mode' = FALSE /\ n' = 0
             /\ UNCHANGED <<net, client, ec, box, got, open, noticed, calm>>

\* Lookup returns the first terminator; without one -1, or n when a packet or
\* more is waiting.
Scan == /\ At("message", "scan")
        /\ IF Hits # {} THEN Found(CHOOSE p \in Hits : \A q \in Hits : p <= q)
           ELSE IF n < Pack THEN Nothing
           ELSE Found(n)
        /\ mode' = FALSE /\ n' = 0
        /\ UNCHANGED <<net, client, ec, box, got, open, noticed, calm>>

\* Too long a message, or one that Resolve refuses.
Close == /\ At("message", "close")
         /\ open' = FALSE
         /\ Goto("message", "size")
         /\ UNCHANGED <<net, client, ec, box, lookup, got, noticed, calm>>

Least(a, b) == IF a < b THEN a ELSE b

\* Mutant: Read does not start the reading again.
Drain_Paused ==
  LET k == Least(pos + 1, Len(ring)) IN
  /\ At("message", "read") /\ usebuf
  /\ got' = got \o SubSeq(ring, 1, k)
  /\ ring' = SubSeq(ring, k + 1, Len(ring))
  /\ paused' = (paused /\ Full(ring'))
  /\ Goto("message", "resolve")
  /\ UNCHANGED <<net, plain, usebuf, room, ec, box, lookup, open, noticed, calm>>

\* Read from the ring, under mtxrcv_.
Drain ==
  LET k == Least(pos + 1, Len(ring)) IN
  /\ At("message", "read") /\ usebuf
  /\ got' = got \o SubSeq(ring, 1, k)
  /\ ring' = SubSeq(ring, k + 1, Len(ring))
  /\ IF k > 0 /\ paused /\ ~ Full(ring')
     THEN /\ paused' = FALSE
          /\ StartRead
          /\ calm' = (calm /\ (ec \/ At("service", "idle")))
     ELSE UNCHANGED <<paused, reads, calm>>
  /\ Goto("message", "resolve")
  /\ UNCHANGED <<stream, taken, buf, done, broken, plain, usebuf, room, ec, box, lookup, open,
                 noticed>>

\* Read before UseBuffer: the bytes are counted down and stay where they are.
Copy ==
  LET k == Least(pos + 1, plain) IN
  /\ At("message", "read") /\ ~usebuf
  /\ got' = got \o SubSeq(buf, 1, k)
  /\ plain' = plain - k
  /\ calm' = (calm /\ plain' = 0)
  /\ Goto("message", "resolve")
  /\ UNCHANGED <<net, usebuf, room, ring, paused, ec, box, lookup, open, noticed>>

\* Mutant: one line is handled for each message.
Resolve_One == /\ At("message", "resolve")
               /\ \E next \in {"idle", "close"} : Goto("message", next)
               /\ UNCHANGED <<net, client, ec, box, lookup, got, open, noticed, calm>>

\* A refused line closes the connection; otherwise the loop goes on.
Resolve == /\ At("message", "resolve")
           /\ \E next \in {"size", "close"} : Goto("message", next)
           /\ UNCHANGED <<net, client, ec, box, lookup, got, open, noticed, calm>>
-----------------------------------------------------------------------------
Asio == Complete \/ Abort

Service == Handle \/ Call \/ Again

Message == \/ UseFlag("message") \/ UseRoom("message")
           \/ Take \/ Size \/ Scan \/ Close \/ Drain \/ Copy \/ Resolve

Main == UseFlag("main") \/ UseRoom("main")

Next == Break \/ Asio \/ Service \/ Message \/ Main

Spec == Init /\ [][Next]_vars

\* A connection is followed until its reads collide.
CalmNext == calm /\ Next
CalmSpec == Init /\ [][CalmNext]_vars

\* The scheduler runs the threads, and a read that has failed ends; the next byte
\* may never come.
CalmFairSpec == /\ CalmSpec
                /\ WF_vars(calm /\ Abort) /\ WF_vars(calm /\ Service)
                /\ WF_vars(calm /\ Message) /\ WF_vars(calm /\ Main)
-----------------------------------------------------------------------------
TypeOK == /\ stream \in [1 .. NumBytes -> BOOLEAN]
          /\ taken \in 0 .. NumBytes
          /\ reads \in Nat
          /\ buf \in Seq(1 .. taken) /\ Len(buf) <= Pack
          /\ done \in Seq(0 .. Pack)
          /\ plain \in 0 .. Len(buf)
          /\ usebuf \in BOOLEAN
          /\ room \in {0, Cap}
          /\ ring \in Seq(1 .. taken) /\ Len(ring) <= room
          /\ paused \in BOOLEAN
          /\ pc \in [main : {"flag", "room", "done"},
                     message : {"idle", "flag", "room", "size", "scan", "close", "read", "resolve"},
                     service : {"idle", "call", "test"}]
          /\ ec \in BOOLEAN
          /\ box \in Seq({"connect", "receive", "close"}) /\ Len(box) <= BoxSize
          /\ mode \in BOOLEAN
          /\ n \in -1 .. Cap
          /\ pos \in 0 .. Cap
          /\ got \in Seq(1 .. taken)
          /\ {open, broken, noticed, calm} \subseteq BOOLEAN

Pending == IF done = <<>> THEN <<>> ELSE SubSeq(buf, 1, Head(done))

\* No byte is lost, doubled or overtaken on its way from the network through
\* bufrcv_ and the ring to the protocol, across all pauses, as long as
\* its reads do not collide.
BytesKept ==
  calm => got \o ring \o SubSeq(buf, 1, plain) \o Pending = [i \in 1 .. taken |-> i]

\* The pause never sticks: when all threads wait and the connection lives, a
\* read is outstanding, so the next byte wakes them.
Listening ==
  /\ calm /\ open /\ ~broken /\ box = <<>> /\ done = <<>>
  /\ pc["message"] = "idle" /\ pc["service"] = "idle"
  => reads > 0

\* What Resolve is given is one whole line.
WholeLine ==
  calm /\ pc["message"] = "resolve" =>
    /\ Len(got) > pos /\ stream[got[Len(got)]]
    /\ \A i \in Len(got) - pos .. Len(got) - 1 : ~ stream[got[i]]

\* bufrcv_ is the buffer of a single receive (tcpasio.h): no read is under way
\* into it, and no other is done, while one waits to be handled.
OneRead == reads + Len(done) <= 1

\* tcpasio.cpp:72 has UseBuffer called once, before the connection is made, so that no
\* byte comes before there is a ring for it.  connect_server_fileserver connects first:
\* a byte that comes between the two statements of UseBuffer finds a ring that holds
\* nothing and is dropped, and one that came before them is written over by the next
\* read unless Read was faster.
KeptBeforeRing ==
  room = 0 => got \o ring \o SubSeq(buf, 1, plain) \o Pending = [i \in 1 .. taken |-> i]

\* A line the server sent is handled, or the message thread closed the connection, or
\* the server broke it and MSG_CLOSE_FILESERVER, which starts the reconnection, was
\* handled: neither lines nor a break are overlooked while the reading pauses.
EveryLineRead ==
  \A i \in 1 .. NumBytes :
    (i <= taken /\ stream[i]) ~>
      (~calm \/ noticed \/ ~open \/ \E k \in 1 .. Len(got) : got[k] = i)
=============================================================================
