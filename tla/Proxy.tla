------------------------------- MODULE Proxy -------------------------------
(***************************************************************************)
(* The threaded HTTP proxy of src/Proxy/proxy.c.  main accepts connections *)
(* for ever, each into a freshly malloc'd int, and starts a detached       *)
(* handle_client thread on it.  A thread reads the request line and the    *)
(* headers, builds the request it forwards (f_header), connects to the     *)
(* server, writes the request and copies the response back line by line,   *)
(* then closes both descriptors.                                           *)
(*                                                                         *)
(* Strings are abstracted to what the code tests of them: a request line   *)
(* is one of the outcomes of the read, the parse and the GET test; a       *)
(* header line is its kind ("crlf" is the empty line "\r\n"), and f_header *)
(* is the sequence of the lines it holds.  The peers are the environment:  *)
(* a client may hang up at any time, a server may be unreachable.  The    *)
(* csapp wrappers (Open_clientfd, Rio_writen) end the whole process        *)
(* through unix_error when the call fails; alive is FALSE from then on.    *)
(***************************************************************************)
EXTENDS Integers, Sequences, FiniteSets

CONSTANTS
    Clients,        \* the clients that connect, one connection each
    None,           \* no descriptor, a freed cell
    LineKinds,      \* the header lines a client may send
    MaxHeaders,     \* bound on the header lines a client sends
    MaxResponse,    \* bound on the response lines a server sends
    ConnectResults  \* the outcomes of Open_clientfd: TRUE connected

\* one handler thread per accepted connection, numbered in accept order
Threads == 1..Cardinality(Clients)

VARIABLES
    waiting,    \* clients whose connection main has not accepted yet
    nthreads,   \* threads main has created
    cell,       \* the malloc'd ints: cell -> client descriptor, None when free
    arg,        \* thread -> the cell passed to Pthread_create
    accepted,   \* thread -> the client main accepted for it (history)
    tpc,        \* thread -> the statement it is at
    clientfd,   \* thread -> its local clientfd
    serverfd,   \* thread -> "none" (-1), "open" or "closed"
    fhdr,       \* thread -> f_header, the request it forwards
    check,      \* thread -> the flag "the client gave a Host line"
    nhdr,       \* thread -> header lines read
    nresp,      \* thread -> response lines copied
    sent,       \* thread -> the request written to its server
    hungup,     \* clients that have closed their end
    closed,     \* client connections the proxy has closed
    alive       \* the proxy process runs

vars == <<waiting, nthreads, cell, arg, accepted, tpc, clientfd, serverfd,
          fhdr, check, nhdr, nresp, sent, hungup, closed, alive>>

\* main: Signal(SIGPIPE, SIG_IGN), Open_listenfd; no thread yet
Init ==
    /\ waiting = Clients
    /\ nthreads = 0
    /\ cell = [t \in Threads |-> None]
    /\ arg = [t \in Threads |-> 0]
    /\ accepted = [t \in Threads |-> None]
    /\ tpc = [t \in Threads |-> "none"]
    /\ clientfd = [t \in Threads |-> None]
    /\ serverfd = [t \in Threads |-> "none"]
    /\ fhdr = [t \in Threads |-> <<>>]
    /\ check = [t \in Threads |-> FALSE]
    /\ nhdr = [t \in Threads |-> 0]
    /\ nresp = [t \in Threads |-> 0]
    /\ sent = [t \in Threads |-> <<>>]
    /\ hungup = {}
    /\ closed = {}
    /\ alive = TRUE

Goto(t, from, to) == tpc[t] = from /\ tpc' = [tpc EXCEPT ![t] = to]

--------------------------------------------------------------------------
(* main's loop, lines 59-65.                                              *)

\* mutant: one static int for every connection, Pthread_create(..., &connfd)
Accept_static_cell(c) ==
    LET n == nthreads + 1 IN
    /\ alive /\ c \in waiting
    /\ waiting' = waiting \ {c}
    /\ nthreads' = n
    /\ cell' = [cell EXCEPT ![1] = c]
    /\ arg' = [arg EXCEPT ![n] = 1]
    /\ accepted' = [accepted EXCEPT ![n] = c]
    /\ tpc' = [tpc EXCEPT ![n] = "start"]
    /\ UNCHANGED <<clientfd, serverfd, fhdr, check, nhdr, nresp, sent, hungup, closed, alive>>

\* connfdp = Malloc(sizeof(int)); *connfdp = Accept(...); Pthread_create
Accept(c) ==
    LET n == nthreads + 1 IN
    /\ alive /\ c \in waiting
    /\ waiting' = waiting \ {c}
    /\ nthreads' = n
    /\ cell' = [cell EXCEPT ![n] = c]
    /\ arg' = [arg EXCEPT ![n] = n]
    /\ accepted' = [accepted EXCEPT ![n] = c]
    /\ tpc' = [tpc EXCEPT ![n] = "start"]
    /\ UNCHANGED <<clientfd, serverfd, fhdr, check, nhdr, nresp, sent, hungup, closed, alive>>

--------------------------------------------------------------------------
(* handle_client and request_from_server, lines 75-184.                    *)

\* close_files (244-251): close each descriptor that is > 0
CloseFiles(t) ==
    /\ closed' = closed \cup {clientfd[t]}
    /\ serverfd' = [serverfd EXCEPT ![t] = IF @ = "open" THEN "closed" ELSE @]

\* mutant: the clientfd is read from the cell after Free(connfdp)
Start_free_first(t) ==
    /\ Goto(t, "start", "readreq")
    /\ cell' = [cell EXCEPT ![arg[t]] = None]
    /\ clientfd' = [clientfd EXCEPT ![t] = cell'[arg[t]]]
    /\ UNCHANGED <<serverfd, fhdr, check, nhdr, nresp, sent, closed>>

\* clientfd = *connfdp; Free(connfdp); Pthread_detach
Start(t) ==
    /\ Goto(t, "start", "readreq")
    /\ clientfd' = [clientfd EXCEPT ![t] = cell[arg[t]]]
    /\ cell' = [cell EXCEPT ![arg[t]] = None]
    /\ UNCHANGED <<serverfd, fhdr, check, nhdr, nresp, sent, closed>>

\* f_header after lines 136-150: the request line "GET path HTTP/1.0",
\* then user_agent_hdr, conn_header and proxy_header
RequestPrefix == <<"reqline", "ua", "conn", "pconn">>

\* the outcomes of the first Rio_readlineb (122), of parse_request (127,
\* 189-214: url, method or version empty) and of the GET test (131)
RequestOutcomes == {"eof", "invalid", "notget", "get"}

\* mutant: the error return at 89-92 exits the thread without close_files
RequestFailed_no_close(t) ==
    /\ Goto(t, "readreq", "done")
    /\ UNCHANGED <<serverfd, closed>>

\* serverrequest == -1: close_files, Pthread_exit (89-92)
RequestFailed(t) ==
    /\ Goto(t, "readreq", "done")
    /\ CloseFiles(t)

\* read and parse the request line; a GET starts f_header
ReadRequest(t) ==
    /\ \E r \in RequestOutcomes :
         IF r = "get"
         THEN /\ Goto(t, "readreq", "headers")
              /\ fhdr' = [fhdr EXCEPT ![t] = RequestPrefix]
              /\ UNCHANGED <<serverfd, closed>>
         ELSE RequestFailed(t) /\ UNCHANGED fhdr
    /\ UNCHANGED <<cell, clientfd, check, nhdr, nresp, sent>>

\* strstr(line, key) on a line of that kind: "Proxy-Connection:"
\* contains "Connection:"
Matches(line, key) == line = key \/ (line = "pconn" /\ key = "conn")

\* one iteration of the header loop (152-169) on a line read: a line
\* other than "\r\n" breaks the loop; the empty line goes down the
\* strstr chain and, matching none, is strcpy'd over f_header
HeaderLine(t) ==
    /\ tpc[t] = "headers"
    /\ nhdr[t] < MaxHeaders
    /\ nhdr' = [nhdr EXCEPT ![t] = @ + 1]
    /\ \E line \in LineKinds :
         IF line # "crlf"
         THEN Goto(t, "headers", "endheaders") /\ UNCHANGED <<fhdr, check>>
         ELSE /\ UNCHANGED tpc
              /\ IF \E k \in {"ua", "conn", "pconn"} : Matches(line, k)
                 THEN UNCHANGED <<fhdr, check>>
                 ELSE /\ fhdr' = [fhdr EXCEPT ![t] = <<line>>]
                      /\ check' = IF Matches(line, "host")
                                  THEN [check EXCEPT ![t] = TRUE] ELSE check
    /\ UNCHANGED <<cell, clientfd, serverfd, nresp, sent, closed>>

\* Rio_readlineb returns 0: the client has closed its end
HeadersEOF(t) ==
    /\ clientfd[t] \in hungup
    /\ Goto(t, "headers", "endheaders")
    /\ UNCHANGED <<cell, clientfd, serverfd, fhdr, check, nhdr, nresp, sent, closed>>

\* 171-175: the Host line unless the client gave one, then "\r\n"
EndHeaders(t) ==
    /\ Goto(t, "endheaders", "connect")
    /\ fhdr' = [fhdr EXCEPT ![t] =
                  @ \o (IF check[t] THEN <<>> ELSE <<"host">>) \o <<"crlf">>]
    /\ UNCHANGED <<cell, clientfd, serverfd, check, nhdr, nresp, sent, closed>>

\* 179-183: Open_clientfd, whose failure ends the process in unix_error
\* (the test for -1 never sees one), then Rio_writen of f_header
Connect(t) ==
    /\ tpc[t] = "connect"
    /\ \E ok \in ConnectResults :
         IF ok
         THEN /\ Goto(t, "connect", "firstline")
              /\ serverfd' = [serverfd EXCEPT ![t] = "open"]
              /\ sent' = [sent EXCEPT ![t] = fhdr[t]]
              /\ UNCHANGED alive
         ELSE alive' = FALSE /\ UNCHANGED <<tpc, serverfd, sent>>
    /\ UNCHANGED <<cell, clientfd, fhdr, check, nhdr, nresp, closed>>

--------------------------------------------------------------------------
(* returned_from_server, lines 221-240, and the end of handle_client.      *)

\* Rio_writen(clientfd, ...) of a line: once the client has hung up the
\* write may fail with EPIPE (SIGPIPE is ignored), and the wrapper's
\* unix_error ends the process; it may also still succeed, before the
\* client's reset has come back
WriteClient(t) ==
    \/ alive' = TRUE
    \/ clientfd[t] \in hungup /\ alive' = FALSE

\* 230-234: the first line is read and written without looking at what
\* Rio_readlineb returned.  When the server closed without a line, buffer
\* is uninitialised and strlen of it may be 0 (nothing written) or not;
\* no later read returns a line
FirstLine(t) ==
    /\ Goto(t, "firstline", "response")
    /\ \E got \in IF nresp[t] < MaxResponse THEN BOOLEAN ELSE {FALSE} :
         IF got
         THEN nresp' = [nresp EXCEPT ![t] = @ + 1] /\ WriteClient(t)
         ELSE /\ nresp' = [nresp EXCEPT ![t] = MaxResponse]
              /\ WriteClient(t) \/ UNCHANGED alive
    /\ UNCHANGED <<cell, clientfd, serverfd, fhdr, check, nhdr, sent, closed>>

\* 235-237: while Rio_readlineb returns a line, write it to the client
ResponseLine(t) ==
    /\ tpc[t] = "response"
    /\ nresp[t] < MaxResponse
    /\ nresp' = [nresp EXCEPT ![t] = @ + 1]
    /\ WriteClient(t)
    /\ UNCHANGED <<cell, tpc, clientfd, serverfd, fhdr, check, nhdr, sent, closed>>

\* Rio_readlineb returns 0: return 0, close_files, Pthread_exit (93-99)
ResponseEnd(t) ==
    /\ Goto(t, "response", "done")
    /\ CloseFiles(t)
    /\ UNCHANGED <<cell, clientfd, fhdr, check, nhdr, nresp, sent, alive>>

\* a client closes its end of the connection
ClientHangup(c) ==
    /\ alive
    /\ c \notin waiting \cup hungup \cup closed
    /\ hungup' = hungup \cup {c}
    /\ UNCHANGED <<waiting, nthreads, cell, arg, accepted, tpc, clientfd,
                   serverfd, fhdr, check, nhdr, nresp, sent, closed, alive>>

\* thread t waits in Rio_readlineb (152) on a client that has sent its
\* whole request: a line in the header loop is always the empty line that
\* ends it, since any other line breaks the loop; a further line comes
\* only if the client sends one
Blocked(t) == tpc[t] = "headers" /\ nhdr[t] > 0 /\ clientfd[t] \notin hungup

\* a step of thread t while the process runs
ThreadStep(t) ==
    /\ alive
    /\ \/ Start(t) /\ UNCHANGED alive
       \/ ReadRequest(t) /\ UNCHANGED alive
       \/ HeaderLine(t) /\ UNCHANGED alive
       \/ HeadersEOF(t) /\ UNCHANGED alive
       \/ EndHeaders(t) /\ UNCHANGED alive
       \/ Connect(t)
       \/ FirstLine(t)
       \/ ResponseLine(t)
       \/ ResponseEnd(t)
    /\ UNCHANGED <<waiting, nthreads, arg, accepted, hungup>>

Next ==
    \/ \E c \in Clients : Accept(c) \/ ClientHangup(c)
    \/ \E t \in Threads : ThreadStep(t)

Spec == Init /\ [][Next]_vars

\* the detached threads are scheduled by the OS, and main returns to
\* Accept while connections are pending.  A client sends its request up to
\* the empty line that ends it and a server its response; nothing obliges
\* a client to send more, or to hang up, so a thread that is Blocked is
\* not bound to move (a read has no timeout)
FairSpec == /\ Spec
            /\ WF_vars(\E c \in Clients : Accept(c))
            /\ \A t \in Threads : WF_vars(ThreadStep(t) /\ ~Blocked(t))

--------------------------------------------------------------------------
(* Properties.                                                             *)

Labels == {"none", "start", "readreq", "headers", "endheaders", "connect",
           "firstline", "response", "done"}

Parts == {"reqline", "ua", "conn", "pconn", "host", "crlf"} \cup LineKinds

\* The types; a thread past its start holds a client descriptor, read
\* from its cell before the cell was freed.
TypeOK ==
    /\ waiting \subseteq Clients /\ hungup \subseteq Clients /\ closed \subseteq Clients
    /\ nthreads \in 0..Cardinality(Clients)
    /\ cell \in [Threads -> Clients \cup {None}]
    /\ arg \in [Threads -> 0..Cardinality(Clients)]
    /\ tpc \in [Threads -> Labels]
    /\ \A t \in Threads : tpc[t] \notin {"none", "start"} => clientfd[t] \in Clients
    /\ serverfd \in [Threads -> {"none", "open", "closed"}]
    /\ fhdr \in [Threads -> Seq(Parts)] /\ sent \in [Threads -> Seq(Parts)]
    /\ check \in [Threads -> BOOLEAN]
    /\ nhdr \in [Threads -> 0..MaxHeaders] /\ nresp \in [Threads -> 0..MaxResponse]
    /\ alive \in BOOLEAN

\* Each handler thread serves the connection main accepted for it: main
\* hands every thread its own malloc'd cell (61-63), so a later Accept
\* cannot overwrite the descriptor before the thread has read it (77).
ThreadPerClient ==
    \A t \in Threads : clientfd[t] # None => clientfd[t] = accepted[t]

\* the connections of thread t are closed
Served(t) == accepted[t] \in closed /\ serverfd[t] # "open"

\* Every accepted connection is closed in the end, its server connection
\* too, on every path through handle_client (89-92 and 98), unless the
\* process has ended or the thread waits in the header loop for a client
\* that has sent its whole request (ConnectionsServed below).
ConnectionsClosed ==
    \A t \in Threads : tpc[t] # "none" ~> (~alive \/ Served(t) \/ Blocked(t))

\* Every accepted connection is closed in the end unless the process has
\* ended: a request with no header lines ("GET ... HTTP/1.0", then the
\* empty line) is complete, and the proxy should answer it.
ConnectionsServed ==
    \A t \in Threads : tpc[t] # "none" ~> (~alive \/ Served(t))

\* The proxy keeps running whatever its clients do: SIGPIPE is ignored
\* "rather than terminate the process" (46-47) when a client hangs up.
ProxyStaysUp == alive

\* The request written to the server starts with the client's request
\* line (141-145), as request_from_server forwards the parsed request
\* (104-106).
RequestLineForwarded ==
    \A t \in Threads : sent[t] # <<>> => Head(sent[t]) = "reqline"

====
