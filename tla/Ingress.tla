------------------------------- MODULE Ingress -------------------------------
(***************************************************************************)
(* The ways in, and the way out: the UDP and TCP syslog listeners           *)
(* (internal/syslog), the channel between them and the consumer, the HTTP   *)
(* server as far as starting and stopping it goes, and main, which waits    *)
(* for all of them once the context is cancelled.                           *)
(***************************************************************************)
EXTENDS Integers, Sequences, SequencesExt, Lists

CONSTANTS Conns,     \* the TCP connections
          Udp,       \* the UDP socket
          Script,    \* what arrives at each, in order: "line", "blank" or, at the
                     \* end of a connection, "part": a line without its newline
          ChanSize   \* capacity of the incoming channel

Readers == Conns \cup {Udp}    \* a goroutine for each
Servers == {"udp", "tcp", "api"}

ASSUME IngressAssumption ==
    /\ Udp \notin Conns /\ ChanSize \in Nat \ {0}
    /\ \A r \in Readers : Script[r] \in Seq({"line", "blank", "part"})
    /\ \A c \in Conns : \A i \in DOMAIN Script[c] :
          Script[c][i] = "part" => i = Len(Script[c])
    /\ \A i \in DOMAIN Script[Udp] : Script[Udp][i] = "line"

VARIABLES
    cancelled,  \* ctx is done
    exited,     \* main has returned
    server,     \* where each server's goroutine stands
    shut,       \* the servers whose socket has been closed
    reader,     \* where each reader stands
    sent,       \* external: how much of its script each peer has sent
    reset,      \* external: the connections that were reset
    inbox,      \* external: what the kernel holds for each reader
    arrived,    \* history: what the kernel ever held for it
    held,       \* the message each reader is handing over, <<>> for none
    incoming,   \* the channel
    consumer,   \* where the consumer stands
    work,       \* the message it is processing, <<>> for none
    handled     \* history: the messages processed, in order

mainVars == <<cancelled, exited>>
peerVars == <<sent, reset, arrived>>
consVars == <<consumer, work, handled>>
vars == <<mainVars, server, shut, reader, peerVars, inbox, held, incoming, consVars>>

\* A message is one element of a script: where it came in, and its index.
MessagesOf(r) == {<<r, i>> : i \in DOMAIN Script[r]}
Messages == UNION {MessagesOf(r) : r \in Readers}
KindOf(m) == Script[m[1]][m[2]]
LineMessages == {m \in Messages : KindOf(m) = "line"}
From(r, s) == Only(s, MessagesOf(r))
Lines(s)   == Only(s, LineMessages)

Init ==
    /\ cancelled = FALSE /\ exited = FALSE
    /\ server = [s \in Servers |-> "starting"] /\ shut = {}
    /\ reader = [r \in Readers |-> "none"]
    /\ sent = [r \in Readers |-> 0] /\ reset = {}
    /\ inbox = [r \in Readers |-> <<>>] /\ arrived = [r \in Readers |-> <<>>]
    /\ held = [r \in Readers |-> <<>>]
    /\ incoming = <<>>
    /\ consumer = "idle" /\ work = <<>> /\ handled = <<>>

-----------------------------------------------------------------------------
(* The peers and the network.                                               *)

Connect(c) ==
    /\ reader[c] = "none" /\ server["tcp"] = "serving" /\ "tcp" \notin shut
    /\ reader' = [reader EXCEPT ![c] = "backlog"]
    /\ UNCHANGED <<mainVars, server, shut, peerVars, inbox, held, incoming, consVars>>

Reaches(r) == IF r = Udp THEN server["udp"] = "serving" /\ "udp" \notin shut
                         ELSE reader[r] \notin {"none", "done"} /\ r \notin reset

\* The network, or a full socket, may lose a datagram.
Send(r) ==
    /\ sent[r] < Len(Script[r]) /\ Reaches(r)
    /\ sent' = [sent EXCEPT ![r] = @ + 1]
    /\ \/ /\ inbox' = [inbox EXCEPT ![r] = Append(@, <<r, sent[r] + 1>>)]
          /\ arrived' = [arrived EXCEPT ![r] = Append(@, <<r, sent[r] + 1>>)]
       \/ r = Udp /\ UNCHANGED <<inbox, arrived>>
    /\ UNCHANGED <<mainVars, server, shut, reader, reset, held, incoming, consVars>>

Reset(c) ==
    /\ reader[c] \notin {"none", "done"} /\ c \notin reset
    /\ reset' = reset \cup {c}
    /\ UNCHANGED <<mainVars, server, shut, reader, sent, arrived, inbox, held, incoming, consVars>>

-----------------------------------------------------------------------------
(* The readers: RunUDPServer's loop, and handleTCPConn for each connection. *)

Accept(c) ==
    /\ reader[c] = "backlog" /\ server["tcp"] = "serving" /\ "tcp" \notin shut
    /\ reader' = [reader EXCEPT ![c] = "check"]
    /\ UNCHANGED <<mainVars, server, shut, peerVars, inbox, held, incoming, consVars>>

\* The top of the loop; the UDP loop has no check there.
Check(c) ==
    /\ reader[c] = "check"
    /\ reader' = [reader EXCEPT ![c] = IF cancelled THEN "done" ELSE "reading"]
    /\ UNCHANGED <<mainVars, server, shut, peerVars, inbox, held, incoming, consVars>>

Again(r) == IF r = Udp THEN "reading" ELSE "check"

\* Mutant: a blank line ends the connection.
MutRead(r) ==
    /\ reader[r] = "reading" /\ inbox[r] # <<>> /\ (r = Udp => "udp" \notin shut)
    /\ LET m == Head(inbox[r])
       IN  \/ /\ KindOf(m) = "line"
              /\ reader' = [reader EXCEPT ![r] = "offering"] /\ held' = [held EXCEPT ![r] = m]
           \/ /\ KindOf(m) = "blank"
              /\ reader' = [reader EXCEPT ![r] = "done"] /\ UNCHANGED held
    /\ inbox' = [inbox EXCEPT ![r] = Tail(@)]
    /\ UNCHANGED <<mainVars, server, shut, peerVars, incoming, consVars>>

\* A datagram or a whole line; what is blank is skipped.
Read(r) ==
    /\ reader[r] = "reading" /\ inbox[r] # <<>> /\ (r = Udp => "udp" \notin shut)
    /\ LET m == Head(inbox[r])
       IN  \/ /\ KindOf(m) = "line"
              /\ reader' = [reader EXCEPT ![r] = "offering"] /\ held' = [held EXCEPT ![r] = m]
           \/ /\ KindOf(m) = "blank"
              /\ reader' = [reader EXCEPT ![r] = Again(r)] /\ UNCHANGED held
    /\ inbox' = [inbox EXCEPT ![r] = Tail(@)]
    /\ UNCHANGED <<mainVars, server, shut, peerVars, incoming, consVars>>

\* The end of the stream, with what is left of a line, or a read error.
ReadFails(c) ==
    /\ reader[c] = "reading"
    /\ \/ c \in reset
       \/ sent[c] = Len(Script[c]) /\ \A i \in DOMAIN inbox[c] : KindOf(inbox[c][i]) = "part"
    /\ reader' = [reader EXCEPT ![c] = "done"]
    /\ UNCHANGED <<mainVars, server, shut, peerVars, inbox, held, incoming, consVars>>

\* The closed socket ends RunUDPServer.
UdpClosed ==
    /\ reader[Udp] = "reading" /\ "udp" \in shut
    /\ reader' = [reader EXCEPT ![Udp] = "done"] /\ server' = [server EXCEPT !["udp"] = "done"]
    /\ UNCHANGED <<mainVars, shut, peerVars, inbox, held, incoming, consVars>>

\* Mutants: the send does not look at the channel's capacity; a full channel
\* loses the message.
MutOfferWide(r) ==
    /\ reader[r] = "offering" /\ Len(incoming) <= ChanSize
    /\ incoming' = Append(incoming, held[r]) /\ held' = [held EXCEPT ![r] = <<>>]
    /\ reader' = [reader EXCEPT ![r] = Again(r)]
    /\ UNCHANGED <<mainVars, server, shut, peerVars, inbox, consVars>>

MutOfferDrops(r) ==
    /\ reader[r] = "offering"
    /\ incoming' = IF Len(incoming) < ChanSize THEN Append(incoming, held[r]) ELSE incoming
    /\ held' = [held EXCEPT ![r] = <<>>]
    /\ reader' = [reader EXCEPT ![r] = Again(r)]
    /\ UNCHANGED <<mainVars, server, shut, peerVars, inbox, consVars>>

Offer(r) ==
    /\ reader[r] = "offering" /\ Len(incoming) < ChanSize
    /\ incoming' = Append(incoming, held[r]) /\ held' = [held EXCEPT ![r] = <<>>]
    /\ reader' = [reader EXCEPT ![r] = Again(r)]
    /\ UNCHANGED <<mainVars, server, shut, peerVars, inbox, consVars>>

\* Mutant: only a connection's send gives up on the context.
MutGiveUp(r) ==
    /\ reader[r] = "offering" /\ cancelled /\ r # Udp
    /\ reader' = [reader EXCEPT ![r] = "done"] /\ held' = [held EXCEPT ![r] = <<>>]
    /\ UNCHANGED <<server, mainVars, shut, peerVars, inbox, incoming, consVars>>

\* The other branch of the select: the message is lost.
GiveUp(r) ==
    /\ reader[r] = "offering" /\ cancelled
    /\ reader' = [reader EXCEPT ![r] = "done"] /\ held' = [held EXCEPT ![r] = <<>>]
    /\ server' = IF r = Udp THEN [server EXCEPT !["udp"] = "done"] ELSE server
    /\ UNCHANGED <<mainVars, shut, peerVars, inbox, incoming, consVars>>

ReaderStep(r) ==
    \/ Read(r) \/ Offer(r) \/ GiveUp(r)
    \/ r = Udp /\ UdpClosed
    \/ r \in Conns /\ (Accept(r) \/ Check(r) \/ ReadFails(r))

-----------------------------------------------------------------------------
(* The consumer, the servers' life, and main.                               *)

Take ==
    /\ consumer = "idle" /\ incoming # <<>>
    /\ work' = Head(incoming) /\ incoming' = Tail(incoming) /\ consumer' = "busy"
    /\ UNCHANGED <<mainVars, server, shut, reader, peerVars, inbox, held, handled>>

\* ProcessRaw: see Ingest.
Process ==
    /\ consumer = "busy"
    /\ handled' = Append(handled, work) /\ work' = <<>> /\ consumer' = "idle"
    /\ UNCHANGED <<mainVars, server, shut, reader, peerVars, inbox, held, incoming>>

ConsumerStops ==
    /\ consumer = "idle" /\ cancelled
    /\ consumer' = "done"
    /\ UNCHANGED <<mainVars, server, shut, reader, peerVars, inbox, held, incoming, work, handled>>

Consumer == Take \/ Process \/ ConsumerStops

Listen(s) ==
    /\ server[s] = "starting"
    /\ server' = [server EXCEPT ![s] = "serving"]
    /\ reader' = IF s = "udp" THEN [reader EXCEPT ![Udp] = "reading"] ELSE reader
    /\ UNCHANGED <<mainVars, shut, peerVars, inbox, held, incoming, consVars>>

\* The address is taken: main logs it and cancels the context.
ListenFails(s) ==
    /\ server[s] = "starting"
    /\ server' = [server EXCEPT ![s] = "done"] /\ cancelled' = TRUE
    /\ UNCHANGED <<exited, shut, reader, peerVars, inbox, held, incoming, consVars>>

\* The goroutine beside each server that waits for the context: it closes the
\* socket, or calls Shutdown.
Shut(s) ==
    /\ cancelled /\ server[s] = "serving" /\ s \notin shut
    /\ shut' = shut \cup {s}
    /\ UNCHANGED <<mainVars, server, reader, peerVars, inbox, held, incoming, consVars>>

\* Accept, or Serve, returns; Serve does so before its requests are answered.
StopServing(s) ==
    /\ s \in {"tcp", "api"} /\ s \in shut /\ server[s] = "serving"
    /\ server' = [server EXCEPT ![s] = "done"]
    /\ UNCHANGED <<mainVars, shut, reader, peerVars, inbox, held, incoming, consVars>>

ServerStep(s) == Listen(s) \/ ListenFails(s) \/ Shut(s) \/ StopServing(s)

Signal ==
    /\ ~cancelled /\ cancelled' = TRUE
    /\ UNCHANGED <<exited, server, shut, reader, peerVars, inbox, held, incoming, consVars>>

\* wg.Wait: the three servers and the consumer, not the connections.
Exit ==
    /\ cancelled /\ consumer = "done" /\ \A s \in Servers : server[s] = "done"
    /\ exited' = TRUE
    /\ UNCHANGED <<cancelled, server, shut, reader, peerVars, inbox, held, incoming, consVars>>

Next ==
    /\ ~exited
    /\ \/ \E r \in Readers : ReaderStep(r) \/ Send(r)
       \/ \E c \in Conns : Connect(c) \/ Reset(c)
       \/ \E s \in Servers : ServerStep(s)
       \/ Consumer \/ Signal \/ Exit

\* Every goroutine that can step does; the peers need not, and nobody has to
\* send a signal.
Fairness ==
    /\ \A r \in Readers : WF_vars(~exited /\ ReaderStep(r))
    /\ \A s \in Servers : WF_vars(~exited /\ ServerStep(s))
    /\ WF_vars(~exited /\ Consumer) /\ WF_vars(~exited /\ Exit)

Spec == Init /\ [][Next]_vars
FairSpec == Spec /\ Fairness

-----------------------------------------------------------------------------

TypeOK ==
    /\ {cancelled, exited} \subseteq BOOLEAN
    /\ server \in [Servers -> {"starting", "serving", "done"}] /\ shut \subseteq Servers
    /\ reader \in [Readers -> {"none", "backlog", "check", "reading", "offering", "done"}]
    /\ reset \subseteq Conns /\ \A r \in Readers : sent[r] \in 0..Len(Script[r])
    /\ \A r \in Readers : {inbox[r], arrived[r]} \subseteq Seq(Messages)
    /\ \A r \in Readers : held[r] \in (IF reader[r] = "offering" THEN Messages ELSE {<<>>})
    /\ incoming \in Seq(Messages) /\ Len(incoming) <= ChanSize
    /\ consumer \in {"idle", "busy", "done"} /\ handled \in Seq(Messages)
    /\ work \in (IF consumer = "busy" THEN Messages ELSE {<<>>})

\* A message as a sequence of one, or of none.
Singly(m) == IF m = <<>> THEN <<>> ELSE <<m>>

\* What has passed a reader: processed, in work or in the channel.
Passed(r) == From(r, handled \o Singly(work) \o incoming)

\* The lines of each connection, and the datagrams of the socket, are processed
\* in the order they arrived, once each, and none is left out, however many
\* readers share the channel; the shutdown cuts the sequence off but leaves no
\* gap in it.  Until its reader ends nothing that arrived is lost (tcp.go
\* 44-79, udp.go 24-50, main.go 699-716).
KeptInOrder ==
    \A r \in Readers :
        /\ IsPrefix(Passed(r), Lines(arrived[r]))
        /\ reader[r] # "done" => Passed(r) \o Singly(held[r]) \o Lines(inbox[r]) = Lines(arrived[r])

\* A cancelled context ends the process: no goroutine that main waits for stays
\* in a read, in a send to a full channel, or in a server (main.go 698-765).
ShutdownEnds == cancelled ~> exited

\* A line, or a datagram, that has arrived is processed, even when the channel
\* is full at the time, unless the process shuts down or the connection breaks.
LinesHandled ==
    \A r \in Readers : \A i \in DOMAIN Script[r] :
        (<<r, i>> \in ToSet(arrived[r]) /\ Script[r][i] = "line")
            ~> (<<r, i>> \in ToSet(handled) \/ cancelled \/ r \in reset)
=============================================================================
