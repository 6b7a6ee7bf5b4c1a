-------------------------------- MODULE Server ------------------------------
(***************************************************************************)
(* The event loop of a RACS server and its replicas (src/src/server.c).    *)
(* Clients write length-prefixed requests to a connection; libevent hands  *)
(* over whatever part of them has arrived and calls the read callback,     *)
(* which takes at most one request out of the buffer, forwards it to the   *)
(* replicas, executes it and queues the reply.  A replica is a server too: *)
(* the forwarded requests go through the same callback there.              *)
(*                                                                         *)
(* Bytes are counted in units; a prefix is Prefix units.  A request is its *)
(* length, its effect on the process (module Exec has the rest) and its    *)
(* sender's number for it.                                                 *)
(***************************************************************************)
EXTENDS Naturals, Sequences, SequencesExt

CONSTANTS
    Clients,   \* connections of clients
    Slaves,    \* config->slaves: the slave nodes of the configuration, in their order
    Requests,  \* per client, the requests it sends: length, and whether they end
               \* the process ("exit") or not ("run")
    Window,    \* per client, how many requests it sends without a reply
    Prefix,    \* units of a length prefix
    MaxSlaves, \* RACS_MAX_SLAVES
    MaxSends   \* bound: requests of a client

ASSUME ServerAssumption ==
    /\ Prefix \in Nat \ {0} /\ MaxSlaves \in Nat
    /\ Len(Slaves) \in 0 .. MaxSlaves /\ DOMAIN Slaves = 1 .. Len(Slaves)
    /\ Clients \cap DOMAIN Slaves = {}
ASSUME RequestsAssumption ==
    \A c \in Clients : \A r \in Requests[c] : r.len \in Nat /\ r.effect \in {"run", "exit"}

\* A link, a connection to a slave, is made for every entry of the configuration.
Links == DOMAIN Slaves
Conns == Clients \cup Links

\* racs_slaves_init_addrs: the node that a link is connected to.  The address of
\* link i is read from config->slaves, the first entry, whatever i is.
NodeOf(l) == Slaves[1]

VARIABLES
    alive,    \* the process of the server runs
    conn,     \* per connection: "new", "open", "closed"; "unset" for a link never made
    sent,     \* requests that the peer wrote to the socket
    got,      \* units of them that libevent has read
    pos,      \* units drained from the input buffer
    out,      \* output buffer: replies to a client, requests to a slave
    handled,  \* history: requests executed for the connection
    replies,  \* history: replies that the client has read
    done,     \* history: requests the server executed, of all clients
    executed  \* history: per slave node, the requests it executed, of all links to it

vars == <<alive, conn, sent, got, pos, out, handled, replies, done, executed>>

-----------------------------------------------------------------------------
(* Requests in a stream of bytes *)

\* Where request n of a connection starts.
StartOf(c, n) ==
    LET start[i \in 1 .. n] ==
            IF i = 1 THEN 0 ELSE start[i - 1] + Prefix + sent[c][i - 1].len
    IN  start[n]

\* The request that starts at the read position.
AtPos(c) == {n \in DOMAIN sent[c] : StartOf(c, n) = pos[c]}
Request(c) == sent[c][CHOOSE n \in AtPos(c) : TRUE]

\* Mutant: one unit more than the request has is waited for.
LengthPrefixLate(c, avail) ==
    IF avail < Prefix \/ avail <= Prefix + Request(c).len THEN 0 ELSE Request(c).len

\* racs_length_prefix: 0 for a request that has not arrived in full, and for a
\* request of length 0.  A length is that of a request some client really sends,
\* so 8 + len does not wrap.
LengthPrefix(c, avail) ==
    IF avail < Prefix \/ avail < Prefix + Request(c).len THEN 0 ELSE Request(c).len

\* Mutant: the request is forwarded as soon as its length is known.
ForwardedEarly(c, avail) == IF avail >= Prefix THEN <<Request(c)>> ELSE <<>>
\* racs_handle_slaves
Forwarded(c, avail) == IF LengthPrefix(c, avail) > 0 THEN <<Request(c)>> ELSE <<>>

\* Mutant: the prefix stays in the buffer.
DrainedBody(c, avail) == LengthPrefix(c, avail)
\* evbuffer_drain and evbuffer_remove
Drained(c, avail) ==
    IF LengthPrefix(c, avail) > 0 THEN Prefix + LengthPrefix(c, avail) ELSE 0

\* Mutant: a reply is queued in any case.
RepliedAlways(c, avail) == <<Request(c).id>>
\* The reply; a request that ends the process gets none.
Reply(c, avail) ==
    IF LengthPrefix(c, avail) > 0 /\ Request(c).effect = "run" THEN <<Request(c).id>> ELSE <<>>

\* racs_broadcast_to_slaves: every slave that was connected when the server
\* started.  To write to one whose connection was freed is undefined.
Receivers == {l \in Links : conn[l] = "open"}
Dangling == {l \in Links : conn[l] = "closed"}

-----------------------------------------------------------------------------
(* Clients *)

\* racs_accept_callback
Accept(c) ==
    /\ alive /\ c \in Clients /\ conn[c] = "new"
    /\ conn' = [conn EXCEPT ![c] = "open"]
    /\ UNCHANGED <<alive, sent, got, pos, out, handled, replies, done, executed>>

Send(c, r) ==
    /\ conn[c] = "open"
    /\ Len(sent[c]) < MaxSends /\ Len(sent[c]) - Len(replies[c]) < Window[c]
    /\ sent' = [sent EXCEPT ![c] =
                   Append(@, [len |-> r.len, effect |-> r.effect, id |-> <<c, Len(@) + 1>>])]
    /\ UNCHANGED <<alive, conn, got, pos, out, handled, replies, done, executed>>

\* racs_event_callback: the peer is gone, or there was an error; the buffers are
\* freed.  For a slave, connected stays set.
Disconnect(c) ==
    /\ alive /\ conn[c] = "open"
    /\ conn' = [conn EXCEPT ![c] = "closed"]
    /\ out' = [out EXCEPT ![c] = <<>>]
    /\ UNCHANGED <<alive, sent, got, pos, handled, replies, done, executed>>

-----------------------------------------------------------------------------
(* The event loop *)

\* k more units have arrived on a connection of a client, and the read callback
\* runs, once.
ClientReadable(c, k) ==
    /\ alive /\ conn[c] = "open" /\ got[c] + k <= StartOf(c, Len(sent[c]) + 1)
    /\ got' = [got EXCEPT ![c] = @ + k]
    /\ LET avail == got[c] + k - pos[c]
           whole == LengthPrefix(c, avail) > 0
           fwd == Forwarded(c, avail)
       IN  /\ pos' = [pos EXCEPT ![c] = @ + Drained(c, avail)]
           /\ out' = [x \in Conns |->
                        IF x \in Receivers THEN out[x] \o fwd
                        ELSE IF x = c THEN out[x] \o Reply(c, avail) ELSE out[x]]
           /\ handled' = IF whole THEN [handled EXCEPT ![c] = Append(@, Request(c).id)]
                         ELSE handled
           /\ done' = IF whole THEN Append(done, Request(c).id) ELSE done
           /\ alive' = ~ (whole /\ Request(c).effect = "exit")
    /\ UNCHANGED <<conn, sent, replies, executed>>

\* The write to a freed buffer ends the process.
BroadcastFault(c, k) ==
    /\ alive /\ conn[c] = "open" /\ got[c] + k <= StartOf(c, Len(sent[c]) + 1)
    /\ Dangling # {} /\ LengthPrefix(c, got[c] + k - pos[c]) > 0
    /\ alive' = FALSE
    /\ UNCHANGED <<conn, sent, got, pos, out, handled, replies, done, executed>>

\* libevent writes an output buffer to the socket.
Flush(c) ==
    /\ alive /\ conn[c] = "open" /\ out[c] # <<>>
    /\ out' = [out EXCEPT ![c] = <<>>]
    /\ replies' = IF c \in Clients THEN [replies EXCEPT ![c] = @ \o out[c]] ELSE replies
    /\ sent' = IF c \in Links THEN [sent EXCEPT ![c] = @ \o out[c]] ELSE sent
    /\ UNCHANGED <<alive, conn, got, pos, handled, done, executed>>

\* The same callback on a replica, which has no slaves.  What is in the socket
\* arrives also when the server has ended.  Its replies are never read
\* (EV_READ is not enabled on a link).
SlaveReadable(l, k) ==
    /\ conn[l] = "open" /\ got[l] + k <= StartOf(l, Len(sent[l]) + 1)
    /\ got' = [got EXCEPT ![l] = @ + k]
    /\ LET avail == got[l] + k - pos[l]
           whole == LengthPrefix(l, avail) > 0
       IN  /\ pos' = [pos EXCEPT ![l] = @ + Drained(l, avail)]
           /\ handled' = IF whole THEN [handled EXCEPT ![l] = Append(@, Request(l).id)]
                         ELSE handled
           /\ executed' = IF whole
                          THEN [executed EXCEPT ![NodeOf(l)] = Append(@, Request(l).id)]
                          ELSE executed
    /\ UNCHANGED <<alive, conn, sent, out, replies, done>>

-----------------------------------------------------------------------------

\* racs_slaves_init_addrs and racs_slaves_init_sockets: a link is made, or the
\* connect fails at once and the slave is left out.
Init ==
    /\ alive = TRUE
    /\ conn \in {f \in [Conns -> {"new", "open", "unset"}] :
                   /\ \A c \in Clients : f[c] = "new"
                   /\ \A l \in Links : f[l] # "new"}
    /\ sent = [c \in Conns |-> <<>>] /\ got = [c \in Conns |-> 0]
    /\ pos = [c \in Conns |-> 0] /\ out = [c \in Conns |-> <<>>]
    /\ handled = [c \in Conns |-> <<>>] /\ replies = [c \in Clients |-> <<>>]
    /\ done = <<>> /\ executed = [s \in Range(Slaves) |-> <<>>]

\* What may arrive at once: anything from one unit to all that is in the socket.
Arrivals(c) == 1 .. StartOf(c, Len(sent[c]) + 1) - got[c]

Readable(c) ==
    \E k \in Arrivals(c) : IF c \in Clients THEN ClientReadable(c, k) \/ BroadcastFault(c, k)
                           ELSE SlaveReadable(c, k)

Next ==
    \/ \E c \in Clients :
        \/ Accept(c)
        \/ \E r \in Requests[c] : Send(c, r)
    \/ \E c \in Conns : Readable(c) \/ Flush(c) \/ Disconnect(c)

\* The loop polls all sockets; it never starves one.
Fairness == \A c \in Conns : WF_vars(Readable(c)) /\ WF_vars(Flush(c))

Spec == Init /\ [][Next]_vars /\ Fairness

-----------------------------------------------------------------------------
(* Properties *)

\* The read position of every connection is at the start of a request, the one
\* behind the last that was executed, whatever pieces the requests arrived in
\* (racs_length_prefix, evbuffer_drain, evbuffer_remove).
FramesAligned ==
    \A c \in Conns : /\ pos[c] <= got[c]
                     /\ pos[c] = StartOf(c, Len(handled[c]) + 1)

\* A client reads the replies to its own requests, in their order, one for each.
RepliesInOrder ==
    \A c \in Clients : \A n \in DOMAIN replies[c] : replies[c][n] = <<c, n>>

\* No other link leads to the same node.
SoleLink(l) == \A k \in Links : NodeOf(k) = NodeOf(l) => k = l

\* What is executed for a link is a prefix of what the server executed, the
\* requests of all clients in the same order, also when the link broke or the
\* server ended (the copy is queued in the callback that executes the request).
\* The node at its end has executed just that when no other link leads to it, as
\* with a single configured slave.
ReplicaPrefix ==
    \A l \in Links : /\ IsPrefix(handled[l], done)
                     /\ SoleLink(l) => IsPrefix(executed[NodeOf(l)], done)

\* A client that waits for every reply before its next request, and sends no
\* empty request, is answered, however its requests are cut into pieces and
\* whatever the other clients do, unless it leaves or the process ends.
Patient == {c \in Clients : Window[c] = 1 /\ \A r \in Requests[c] : r.len > 0}
Answered ==
    \A c \in Patient :
        Len(replies[c]) < Len(sent[c]) ~>
            Len(replies[c]) = Len(sent[c]) \/ ~ alive \/ conn[c] = "closed"
=============================================================================
