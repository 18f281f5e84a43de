------------------------------- MODULE TcpLink -------------------------------
(***************************************************************************)
(* DoProcess and MessageQueue: how the connection with a server is kept.   *)
(* The client's service thread posts messages, the message thread handles  *)
(* them one after the other, and a thread that is made when the connection *)
(* breaks takes a new client once a minute until one is connected.  The    *)
(* general-control server and the file server each have such a link, with  *)
(* the same code.                                                          *)
(***************************************************************************)
EXTENDS Integers, Sequences, FiniteSets

CONSTANTS MaxQueue,   \* messages the queue holds (1024)
          MaxThreads, \* threads made
          Prompt      \* the minute is never over between a connection and its handling

VARIABLES proc,    \* "up", "quitting": Stop has returned, or "stopped"
          up,      \* the server answers
          client,  \* the client: "connecting", "open", "failed" or "closed"
          queue,   \* messages not handled yet
          joining, \* the message thread waits for the interrupted thread
          handle,  \* the thread thrd_reconn points to, 0 for none
          threads, \* reconnection threads that run
          intr,    \* those that were interrupted
          made     \* threads made

lkVars == <<proc, up, client, queue, joining, handle, threads, intr, made>>

LKInit == /\ proc = "up" /\ up = TRUE
          /\ client = "open" /\ queue = << >> /\ joining = FALSE
          /\ handle = 0 /\ threads = {} /\ intr = {} /\ made = 0

\* PostMessage blocks while the queue is full, and does nothing once it is gone.
Post(msg) ==
    IF proc = "up" THEN Len(queue) < MaxQueue /\ queue' = Append(queue, msg)
    ELSE UNCHANGED queue

ServerTurns == /\ up' = ~up
               /\ UNCHANGED <<proc, client, queue, joining, handle, threads, intr, made>>

\* handle_connect and connected_server_gc: a connection that fails posts nothing.
handle_connect ==
    /\ client = "connecting"
    /\ \/ up /\ client' = "open" /\ Post("connect")
       \/ ~up /\ client' = "failed" /\ UNCHANGED queue
    /\ UNCHANGED <<proc, up, joining, handle, threads, intr, made>>

\* handle_read with an error, and received_server_gc.
Broken == /\ client = "open" /\ client' = "closed" /\ Post("close")
          /\ UNCHANGED <<proc, up, joining, handle, threads, intr, made>>

\* thread_reconnect_gc after its minute: the old client is destroyed, with whatever it
\* was doing, and a new one starts to connect.
Retry(t) == /\ t \in threads \ intr
            /\ Prompt => client # "open"
            /\ client' = "connecting"
            /\ UNCHANGED <<proc, up, queue, joining, handle, threads, intr, made>>

\* An interrupted thread ends where it sleeps.
ThreadEnds(t) == /\ t \in threads \cap intr
                 /\ threads' = threads \ {t}
                 /\ UNCHANGED <<proc, up, client, queue, joining, handle, intr, made>>

Handle(msg) == /\ proc = "up" /\ ~joining /\ queue # << >> /\ Head(queue) = msg
               /\ queue' = Tail(queue)

\* Mutant: the reconnection thread is left running.
on_connect_Alone == /\ Handle("connect")
                    /\ UNCHANGED <<proc, up, client, joining, handle, threads, intr, made>>

\* on_connect_gc, up to the join of interrupt_thread.
on_connect == /\ Handle("connect")
              /\ joining' = (handle # 0)
              /\ intr' = IF handle = 0 THEN intr ELSE intr \cup {handle}
              /\ UNCHANGED <<proc, up, client, handle, threads, made>>

Joined == /\ joining /\ handle \notin threads
          /\ joining' = FALSE /\ handle' = 0
          /\ proc' = IF proc = "quitting" THEN "stopped" ELSE proc
          /\ UNCHANGED <<up, client, queue, threads, intr, made>>

\* on_close_gc: reset lets go of the thread the handle held, if any.
on_close == /\ Handle("close")
            /\ made < MaxThreads /\ made' = made + 1
            /\ handle' = made' /\ threads' = threads \cup {made'}
            /\ UNCHANGED <<proc, up, client, joining, intr>>

\* StopService: the quit message overtakes the others, the message thread ends, the
\* queue is removed, and the reconnection thread is interrupted and joined.
StopService == /\ proc = "up" /\ ~joining
               /\ queue' = << >>
               /\ IF handle = 0
                  THEN proc' = "stopped" /\ UNCHANGED <<joining, intr>>
                  ELSE proc' = "quitting" /\ joining' = TRUE /\ intr' = intr \cup {handle}
               /\ UNCHANGED <<up, client, handle, threads, made>>

LKNext == \/ ServerTurns \/ handle_connect \/ Broken
          \/ \E t \in threads : Retry(t) \/ ThreadEnds(t)
          \/ on_connect \/ Joined \/ on_close \/ StopService

LKSpec == LKInit /\ [][LKNext]_lkVars

\* A broken link is tended by exactly one thread: no reconnection thread runs that the
\* handle does not point to, which nobody could end, and as soon as no message is on
\* its way a link that is down has its thread.
LinkIsTended ==
    /\ threads \subseteq {handle}
    /\ (proc = "up" /\ client \in {"closed", "failed"} /\ queue = << >> /\ ~joining)
         => threads # {}
    /\ proc = "stopped" => threads = {}
=============================================================================
