----------------------------- MODULE IngressProofs -----------------------------
(***************************************************************************)
(* TLAPS proofs about the ways in: types, and that what arrives at each      *)
(* reader is processed in its order, once each and without a gap, for every  *)
(* number of connections, every script and every capacity of the channel.    *)
(***************************************************************************)
EXTENDS Ingress, ListTheorems

-----------------------------------------------------------------------------
(* Messages, and lists of them.                                              *)

LEMMA MessageFacts ==
  /\ <<>> \notin Messages
  /\ \A r \in Readers : MessagesOf(r) \subseteq Messages
  /\ \A r, q \in Readers : r # q => \A m \in MessagesOf(r) : m \notin MessagesOf(q)
  /\ LineMessages \subseteq Messages
<1>1. \A r : \A m \in MessagesOf(r) : m # <<>> /\ m[1] = r
  BY DEF MessagesOf
<1> QED
  BY <1>1 DEF Messages, LineMessages

LEMMA Regroup ==
  \A x, y, z \in Seq(Messages) : (x \o y) \o z = x \o (y \o z)
<1> TAKE x, y, z \in Seq(Messages)
<1> QED
  BY ConcatAssociative

LEMMA SinglyIs ==
  ASSUME NEW m \in Messages \cup {<<>>} PROVE Singly(m) \in Seq(Messages)
BY DEF Singly

LEMMA LinesType ==
  ASSUME NEW s \in Seq(Messages) PROVE Lines(s) \in Seq(Messages)
<1>1. PICK M : M = Messages \cap LineMessages
  OBVIOUS
<1>2. Only(s, LineMessages) \in Seq(M) /\ M \subseteq Messages
  BY <1>1, OnlyType
<1> QED
  BY <1>2, SeqMonotonic DEF Lines

LEMMA FromType ==
  ASSUME NEW s \in Seq(Messages), NEW r PROVE From(r, s) \in Seq(Messages)
<1>1. PICK M : M = Messages \cap MessagesOf(r)
  OBVIOUS
<1>2. Only(s, MessagesOf(r)) \in Seq(M) /\ M \subseteq Messages
  BY <1>1, OnlyType
<1> QED
  BY <1>2, SeqMonotonic DEF From

\* A prefix of a list is one of any longer list.
LEMMA PrefixOf ==
  ASSUME NEW T, NEW s \in Seq(T), NEW t \in Seq(T)
  PROVE  IsPrefix(s, s \o t)
<1>1. Len(s) <= Len(s \o t)
  BY ConcatProperties, LenProperties
<1>2. SubSeq(s, 1, Len(s)) = s
  BY SubSeqFull
<1>3. SubSeq(s \o t, 1, Len(s)) = s
  <2>1. CASE s = <<>>
    BY <2>1, SubSeqEmpty
  <2>2. CASE s # <<>>
    <3>1. 1 \in 1 .. Len(s) /\ Len(s) \in 1 .. Len(s)
      BY <2>2, LenProperties, EmptySeq
    <3> QED
      BY <1>2, <3>1, SubSeqOfConcat1
  <2> QED
    BY <2>1, <2>2
<1> QED
  BY <1>1, <1>2, <1>3 DEF IsPrefix

LEMMA PrefixExtends ==
  ASSUME NEW T, NEW s \in Seq(T), NEW t \in Seq(T), NEW u \in Seq(T), IsPrefix(s, t)
  PROVE  IsPrefix(s, t \o u)
<1>1. PICK m \in Nat, n \in Nat : m = Len(s) /\ n = Len(t) /\ m <= n
  BY LenProperties DEF IsPrefix
<1>2. CASE m = 0
  <2>1. s = <<>>
    <3>1. Len(s) = 0
      BY <1>1, <1>2
    <3> QED
      BY <3>1, EmptySeq
  <2>2. <<>> \o (t \o u) = t \o u /\ t \o u \in Seq(T) /\ s \in Seq(T)
    BY ConcatProperties, ConcatEmptySeq
  <2>3. IsPrefix(s, s \o (t \o u))
    BY <2>2, PrefixOf
  <2> QED
    BY <2>1, <2>2, <2>3
<1>3. CASE m # 0
  <2>1. 1 \in 1 .. n /\ m \in 1 .. n
    BY <1>1, <1>3
  <2>2. SubSeq(t \o u, 1, m) = SubSeq(t, 1, m)
    BY <1>1, <2>1, SubSeqOfConcat1
  <2>3. Len(t \o u) = Len(t) + Len(u) /\ Len(u) \in Nat
    BY ConcatProperties, LenProperties
  <2> QED
    BY <1>1, <2>2, <2>3 DEF IsPrefix
<1> QED
  BY <1>2, <1>3

-----------------------------------------------------------------------------
(* One reader: what has passed it is p, it holds h, its inbox is i and all   *)
(* that arrived there is a.                                                  *)

Kept(done, p, h, i, a) ==
    IF done THEN IsPrefix(p, Lines(a)) ELSE (p \o Singly(h)) \o Lines(i) = Lines(a)

LEMMA KeptEnds ==
  ASSUME NEW p \in Seq(Messages), NEW h \in Messages \cup {<<>>},
         NEW i \in Seq(Messages), NEW a \in Seq(Messages), Kept(FALSE, p, h, i, a)
  PROVE  IsPrefix(p, Lines(a))
<1>1. PICK s \in Seq(Messages), t \in Seq(Messages) : s = Singly(h) /\ t = Lines(i)
  BY SinglyIs, LinesType
<1>2. IsPrefix(p, p \o s) /\ p \o s \in Seq(Messages)
  BY PrefixOf, ConcatProperties
<1>3. IsPrefix(p, (p \o s) \o t)
  <2>1. PICK u \in Seq(Messages) : u = p \o s
    BY <1>2
  <2>2. IsPrefix(p, u \o t)
    BY <1>2, <2>1, PrefixExtends
  <2> QED
    BY <2>1, <2>2
<1> QED
  BY <1>1, <1>3 DEF Kept

\* The reader takes the first message: a line is held, anything else skipped.
LEMMA KeptReads ==
  ASSUME NEW p \in Seq(Messages), NEW i \in Seq(Messages), NEW a \in Seq(Messages),
         i # <<>>, Kept(FALSE, p, <<>>, i, a)
  PROVE  Kept(FALSE, p, IF KindOf(Head(i)) = "line" THEN Head(i) ELSE <<>>, Tail(i), a)
<1>1. /\ Head(i) \in Messages /\ Tail(i) \in Seq(Messages)
      /\ Head(i) \in LineMessages <=> KindOf(Head(i)) = "line"
  BY HeadTailProperties DEF LineMessages
<1> DEFINE h == IF KindOf(Head(i)) = "line" THEN Head(i) ELSE <<>>
<1>2. Lines(i) = Singly(h) \o Lines(Tail(i))
  <2>1. Lines(i) = (IF Head(i) \in LineMessages THEN <<Head(i)>> ELSE <<>>) \o Lines(Tail(i))
    BY OnlyHead DEF Lines
  <2>2. Singly(h) = IF Head(i) \in LineMessages THEN <<Head(i)>> ELSE <<>>
    BY <1>1, MessageFacts DEF Singly
  <2> QED
    BY <2>1, <2>2
<1>3. PICK s \in Seq(Messages), t \in Seq(Messages) : s = Singly(h) /\ t = Lines(Tail(i))
  <2>1. h \in Messages \cup {<<>>}
    BY <1>1
  <2> HIDE DEF h
  <2>2. Singly(h) \in Seq(Messages) /\ Lines(Tail(i)) \in Seq(Messages)
    BY <1>1, <2>1, SinglyIs, LinesType
  <2> QED
    BY <2>2
<1>4. (p \o s) \o t = p \o (s \o t)
  BY ConcatAssociative
<1>5. (p \o Singly(<<>>)) \o Lines(i) = Lines(a) /\ Singly(<<>>) = <<>> /\ p \o <<>> = p
  BY ConcatEmptySeq DEF Kept, Singly
<1> HIDE DEF h
<1>6. (p \o Singly(h)) \o Lines(Tail(i)) = Lines(a)
  BY <1>2, <1>3, <1>4, <1>5
<1> QED
  BY <1>6 DEF Kept, h

\* What it held passes it.
LEMMA KeptOffers ==
  ASSUME NEW p \in Seq(Messages), NEW h \in Messages, NEW i, NEW a, Kept(FALSE, p, h, i, a)
  PROVE  Kept(FALSE, Append(p, h), <<>>, i, a)
<1>1. Singly(h) = <<h>> /\ Singly(<<>>) = <<>>
  BY MessageFacts DEF Singly
<1>2. Append(p, h) = p \o <<h>> /\ Append(p, h) \in Seq(Messages)
  BY AppendIsConcat, AppendProperties
<1>3. Append(p, h) \o <<>> = Append(p, h)
  BY <1>2, ConcatEmptySeq
<1> QED
  BY <1>1, <1>2, <1>3 DEF Kept

\* A message arrives.
LineOf(m) == IF m \in LineMessages THEN <<m>> ELSE <<>>

LEMMA LinesAppend ==
  ASSUME NEW s \in Seq(Messages), NEW m \in Messages
  PROVE  LineOf(m) \in Seq(Messages) /\ Lines(Append(s, m)) = Lines(s) \o LineOf(m)
<1>1. Lines(Append(s, m)) = IF m \in LineMessages THEN Append(Lines(s), m) ELSE Lines(s)
  BY OnlyAppend DEF Lines
<1>2. PICK u \in Seq(Messages) : u = Lines(s)
  BY LinesType
<1>3. Append(u, m) = u \o <<m>> /\ u \o <<>> = u
  BY AppendIsConcat, ConcatEmptySeq
<1>4. <<m>> \in Seq(Messages) /\ <<>> \in Seq(Messages)
  OBVIOUS
<1> QED
  BY <1>1, <1>2, <1>3, <1>4 DEF LineOf

LEMMA KeptArrives ==
  ASSUME NEW d \in BOOLEAN, NEW p \in Seq(Messages), NEW h \in Messages \cup {<<>>},
         NEW i \in Seq(Messages), NEW a \in Seq(Messages), NEW m \in Messages, Kept(d, p, h, i, a)
  PROVE  Kept(d, p, h, Append(i, m), Append(a, m))
<1>1. PICK t \in Seq(Messages) : t = LineOf(m)
  BY LinesAppend
<1>0. Lines(Append(i, m)) = Lines(i) \o t /\ Lines(Append(a, m)) = Lines(a) \o t
  BY <1>1, LinesAppend
<1>2. PICK s \in Seq(Messages), u \in Seq(Messages), v \in Seq(Messages) :
         s = Singly(h) /\ u = Lines(i) /\ v = Lines(a)
  BY SinglyIs, LinesType
<1>3. CASE d
  <2>1. IsPrefix(p, v)
    BY <1>2, <1>3 DEF Kept
  <2>2. IsPrefix(p, v \o t)
    BY <2>1, PrefixExtends
  <2> QED
    BY <1>0, <1>2, <1>3, <2>2 DEF Kept
<1>4. CASE ~d
  <2>1. PICK w \in Seq(Messages) : w = p \o s
    BY ConcatProperties
  <2>2. w \o u = v
    BY <1>2, <1>4, <2>1 DEF Kept
  <2>3. (w \o u) \o t = w \o (u \o t)
    BY Regroup
  <2> QED
    BY <1>0, <1>2, <1>4, <2>1, <2>2, <2>3 DEF Kept
<1> QED
  BY <1>3, <1>4

-----------------------------------------------------------------------------
(* The inductive invariant.                                                  *)

HeldOf(r) == IF reader[r] = "offering" THEN MessagesOf(r) ELSE {<<>>}

TypeInv ==
    /\ cancelled \in BOOLEAN /\ exited \in BOOLEAN
    /\ server \in [Servers -> {"starting", "serving", "done"}] /\ shut \subseteq Servers
    /\ reader \in [Readers -> {"none", "backlog", "check", "reading", "offering", "done"}]
    /\ reset \subseteq Conns
    /\ sent \in [Readers -> Nat] /\ \A r \in Readers : sent[r] <= Len(Script[r])
    /\ inbox \in [Readers -> Seq(Messages)] /\ \A r \in Readers : inbox[r] \in Seq(MessagesOf(r))
    /\ arrived \in [Readers -> Seq(Messages)]
    /\ held \in [Readers -> Messages \cup {<<>>}] /\ \A r \in Readers : held[r] \in HeldOf(r)
    /\ incoming \in Seq(Messages) /\ Len(incoming) <= ChanSize
    /\ consumer \in {"idle", "busy", "done"} /\ handled \in Seq(Messages)
    /\ work \in (IF consumer = "busy" THEN Messages ELSE {<<>>})
    /\ server["udp"] = "starting" => reader[Udp] = "none"

\* All that the readers have handed over, in its order.
Stream == handled \o Singly(work) \o incoming

OrderInv ==
    \A r \in Readers :
        Kept(reader[r] = "done", From(r, Stream), held[r], inbox[r], arrived[r])

IInv == TypeInv /\ OrderInv

LEMMA Constants ==
  /\ Udp \in Readers /\ Udp \notin Conns /\ ChanSize \in Nat \ {0}
  /\ \A r \in Readers : /\ Len(Script[r]) \in Nat
                        /\ \A n \in Nat : n < Len(Script[r]) => <<r, n + 1>> \in MessagesOf(r)
<1>1. ASSUME NEW r \in Readers
      PROVE  /\ Len(Script[r]) \in Nat
             /\ \A n \in Nat : n < Len(Script[r]) => <<r, n + 1>> \in MessagesOf(r)
  <2>1. PICK s \in Seq({"line", "blank", "part"}) : s = Script[r]
    BY IngressAssumption
  <2>2. Len(s) \in Nat /\ DOMAIN s = 1 .. Len(s)
    BY LenProperties
  <2> QED
    BY <2>1, <2>2 DEF MessagesOf
<1> QED
  BY <1>1, IngressAssumption DEF Readers

LEMMA StreamType == TypeInv => Stream \in Seq(Messages)
<1> SUFFICES ASSUME TypeInv PROVE Stream \in Seq(Messages)
  OBVIOUS
<1>1. handled \in Seq(Messages) /\ Singly(work) \in Seq(Messages) /\ incoming \in Seq(Messages)
  BY SinglyIs DEF TypeInv
<1> QED
  BY <1>1, ConcatProperties DEF Stream

LEMMA InitIInv == Init => IInv
<1> SUFFICES ASSUME Init PROVE IInv
  OBVIOUS
<1>1. \A S : <<>> \in Seq(S)
  BY EmptySeq
<1>2. Len(<<>>) <= ChanSize
  BY IngressAssumption
<1>3. TypeInv
  <2>1. cancelled \in BOOLEAN /\ exited \in BOOLEAN /\ shut \subseteq Servers /\ reset \subseteq Conns
    BY DEF Init
  <2>2. /\ server \in [Servers -> {"starting", "serving", "done"}]
        /\ reader \in [Readers -> {"none", "backlog", "check", "reading", "offering", "done"}]
    BY DEF Init
  <2>3. sent \in [Readers -> Nat] /\ \A r \in Readers : sent[r] <= Len(Script[r])
    BY Constants DEF Init
  <2>4. /\ inbox \in [Readers -> Seq(Messages)] /\ \A r \in Readers : inbox[r] \in Seq(MessagesOf(r))
        /\ arrived \in [Readers -> Seq(Messages)]
    BY <1>1 DEF Init
  <2>5. /\ held \in [Readers -> Messages \cup {<<>>}] /\ \A r \in Readers : held[r] \in HeldOf(r)
    BY DEF Init, HeldOf
  <2>6. /\ incoming \in Seq(Messages) /\ Len(incoming) <= ChanSize /\ handled \in Seq(Messages)
        /\ consumer \in {"idle", "busy", "done"}
        /\ work \in (IF consumer = "busy" THEN Messages ELSE {<<>>})
    BY <1>1, <1>2 DEF Init
  <2>7. reader[Udp] = "none"
    BY Constants DEF Init
  <2> QED
    BY <2>1, <2>2, <2>3, <2>4, <2>5, <2>6, <2>7 DEF TypeInv
<1>4. Stream = <<>>
  BY DEF Init, Stream, Singly
<1>5. ASSUME NEW r \in Readers
      PROVE  Kept(reader[r] = "done", From(r, Stream), held[r], inbox[r], arrived[r])
  <2>1. /\ reader[r] # "done" /\ held[r] = <<>> /\ inbox[r] = <<>> /\ arrived[r] = <<>>
    BY DEF Init
  <2>2. From(r, Stream) = <<>> /\ Lines(<<>>) = <<>> /\ Singly(<<>>) = <<>>
    BY <1>4, OnlyEmpty DEF From, Lines, Singly
  <2>3. (<<>> \o <<>>) \o <<>> = <<>>
    OBVIOUS
  <2> QED
    BY <2>1, <2>2, <2>3 DEF Kept
<1> QED
  BY <1>3, <1>5 DEF IInv, OrderInv

\* A step that hands over no message, and takes none from the network, leaves
\* the order alone; a reader that ends may drop what it held.
LEMMA OrderFrame ==
  ASSUME IInv, Stream' = Stream, inbox' = inbox, arrived' = arrived,
         \A r \in Readers : reader[r] = "done" => reader'[r] = "done",
         \A r \in Readers : reader'[r] # "done" => held'[r] = held[r]
  PROVE  OrderInv'
<1> SUFFICES ASSUME NEW r \in Readers
             PROVE  Kept(reader'[r] = "done", From(r, Stream), held'[r], inbox[r], arrived[r])
  BY DEF OrderInv, From
<1>1. Kept(reader[r] = "done", From(r, Stream), held[r], inbox[r], arrived[r])
  BY DEF IInv, OrderInv
<1>2. CASE reader'[r] # "done"
  BY <1>1, <1>2 DEF Kept
<1>3. CASE reader'[r] = "done" /\ reader[r] = "done"
  BY <1>1, <1>3 DEF Kept
<1>4. CASE reader'[r] = "done" /\ reader[r] # "done"
  <2>1. Kept(FALSE, From(r, Stream), held[r], inbox[r], arrived[r])
    BY <1>1, <1>4 DEF Kept
  <2>2. /\ From(r, Stream) \in Seq(Messages) /\ held[r] \in Messages \cup {<<>>}
        /\ inbox[r] \in Seq(Messages) /\ arrived[r] \in Seq(Messages)
    BY StreamType, FromType DEF IInv, TypeInv
  <2>3. IsPrefix(From(r, Stream), Lines(arrived[r]))
    BY <2>1, <2>2, KeptEnds
  <2> QED
    BY <1>4, <2>3 DEF Kept
<1> QED
  BY <1>2, <1>3, <1>4

-----------------------------------------------------------------------------
(* The steps.                                                                *)

\* Steps that touch neither the messages nor the consumer.
LEMMA ControlSteps ==
  ASSUME IInv, UNCHANGED <<sent, arrived, inbox, held, incoming, consVars>>,
         cancelled' \in BOOLEAN, exited' \in BOOLEAN, reset' \subseteq Conns,
         shut' \subseteq Servers, server' \in [Servers -> {"starting", "serving", "done"}],
         reader' \in [Readers -> {"none", "backlog", "check", "reading", "offering", "done"}],
         \A r \in Readers : reader[r] = "done" => reader'[r] = "done",
         \A r \in Readers : (reader[r] = "offering") <=> (reader'[r] = "offering"),
         server'["udp"] = "starting" => server["udp"] = "starting" /\ reader'[Udp] = reader[Udp]
  PROVE  IInv'
<1>1. \A r \in Readers : HeldOf(r)' = HeldOf(r)
  BY DEF HeldOf
<1>2. TypeInv'
  BY <1>1 DEF IInv, TypeInv, consVars
<1>3. Stream' = Stream
  BY DEF Stream, consVars
<1>4. OrderInv'
  BY <1>3, OrderFrame
<1> QED
  BY <1>2, <1>4 DEF IInv

LEMMA ConnSteps ==
  ASSUME IInv, NEW c \in Conns, Connect(c) \/ Reset(c) \/ Accept(c) \/ Check(c) \/ ReadFails(c)
  PROVE  IInv'
<1>1. c \in Readers /\ c # Udp /\ Udp \in Readers
  BY Constants DEF Readers
<1> USE DEF mainVars, peerVars
<1>2. CASE Reset(c)
  <2>1. /\ reset' = reset \cup {c}
        /\ UNCHANGED <<mainVars, server, shut, reader, sent, arrived, inbox, held, incoming, consVars>>
    BY <1>2 DEF Reset
  <2> QED
    BY <2>1, ControlSteps DEF IInv, TypeInv
<1>3. CASE Connect(c) \/ Accept(c) \/ Check(c) \/ ReadFails(c)
  <2>1. PICK x \in {"backlog", "check", "reading", "done"} :
           /\ reader[c] \in {"none", "backlog", "check", "reading"}
           /\ reader' = [reader EXCEPT ![c] = x]
           /\ UNCHANGED <<mainVars, server, shut, peerVars, inbox, held, incoming, consVars>>
    BY <1>3 DEF Connect, Accept, Check, ReadFails
  <2>2. /\ reader' \in [Readers -> {"none", "backlog", "check", "reading", "offering", "done"}]
        /\ \A r \in Readers : r # c => reader'[r] = reader[r]
        /\ reader'[c] = x
    BY <1>1, <2>1 DEF IInv, TypeInv
  <2>3. /\ \A r \in Readers : reader[r] = "done" => reader'[r] = "done"
        /\ \A r \in Readers : (reader[r] = "offering") <=> (reader'[r] = "offering")
        /\ reader'[Udp] = reader[Udp]
    BY <1>1, <2>1, <2>2
  <2> QED
    BY <2>1, <2>2, <2>3, ControlSteps DEF IInv, TypeInv
<1> QED
  BY <1>2, <1>3

LEMMA ServerSteps ==
  ASSUME IInv, (\E s \in Servers : ServerStep(s)) \/ UdpClosed \/ Signal \/ Exit
  PROVE  IInv'
<1> USE DEF mainVars, peerVars
<1>1. Udp \in Readers /\ "udp" \in Servers
  BY Constants DEF Servers
<1>2. ASSUME NEW s \in Servers, Listen(s) PROVE IInv'
  <2>1. /\ server[s] = "starting" /\ server' = [server EXCEPT ![s] = "serving"]
        /\ reader' = IF s = "udp" THEN [reader EXCEPT ![Udp] = "reading"] ELSE reader
        /\ UNCHANGED <<mainVars, shut, peerVars, inbox, held, incoming, consVars>>
    BY <1>2 DEF Listen
  <2>2. /\ server' \in [Servers -> {"starting", "serving", "done"}]
        /\ server'["udp"] = "starting" => s # "udp" /\ server["udp"] = "starting"
    BY <1>1, <2>1 DEF IInv, TypeInv
  <2>3. /\ reader' \in [Readers -> {"none", "backlog", "check", "reading", "offering", "done"}]
        /\ \A r \in Readers : reader'[r] = IF s = "udp" /\ r = Udp THEN "reading" ELSE reader[r]
    BY <1>1, <2>1 DEF IInv, TypeInv
  <2>4. s = "udp" => reader[Udp] = "none"
    BY <2>1 DEF IInv, TypeInv
  <2>5. /\ \A r \in Readers : reader[r] = "done" => reader'[r] = "done"
        /\ \A r \in Readers : (reader[r] = "offering") <=> (reader'[r] = "offering")
        /\ server'["udp"] = "starting" => server["udp"] = "starting" /\ reader'[Udp] = reader[Udp]
    BY <1>1, <2>2, <2>3, <2>4
  <2> QED
    BY <2>1, <2>2, <2>3, <2>5, ControlSteps DEF IInv, TypeInv
<1>3. ASSUME NEW s \in Servers, ListenFails(s) \/ StopServing(s) PROVE IInv'
  <2>1. /\ server' = [server EXCEPT ![s] = "done"] /\ exited' = exited
        /\ cancelled' = cancelled \/ cancelled' = TRUE
        /\ UNCHANGED <<shut, reader, peerVars, inbox, held, incoming, consVars>>
    BY <1>3 DEF ListenFails, StopServing
  <2>2. /\ server' \in [Servers -> {"starting", "serving", "done"}]
        /\ server'["udp"] = "starting" => server["udp"] = "starting"
    BY <1>1, <2>1 DEF IInv, TypeInv
  <2>3. cancelled' \in BOOLEAN
    BY <2>1 DEF IInv, TypeInv
  <2> QED
    BY <2>1, <2>2, <2>3, ControlSteps DEF IInv, TypeInv
<1>4. ASSUME NEW s \in Servers, Shut(s) PROVE IInv'
  BY <1>4, ControlSteps DEF Shut, IInv, TypeInv
<1>5. CASE Signal \/ Exit
  <2>1. /\ (cancelled' = TRUE /\ exited' = exited) \/ (exited' = TRUE /\ cancelled' = cancelled)
        /\ UNCHANGED <<server, shut, reader, peerVars, inbox, held, incoming, consVars>>
    BY <1>5 DEF Signal, Exit
  <2>2. cancelled' \in BOOLEAN /\ exited' \in BOOLEAN
    BY <2>1 DEF IInv, TypeInv
  <2> QED
    BY <2>1, <2>2, ControlSteps DEF IInv, TypeInv
<1>6. CASE UdpClosed
  <2>1. /\ reader[Udp] = "reading"
        /\ reader' = [reader EXCEPT ![Udp] = "done"] /\ server' = [server EXCEPT !["udp"] = "done"]
        /\ UNCHANGED <<mainVars, shut, peerVars, inbox, held, incoming, consVars>>
    BY <1>6 DEF UdpClosed
  <2>2. /\ server' \in [Servers -> {"starting", "serving", "done"}] /\ server'["udp"] = "done"
        /\ reader' \in [Readers -> {"none", "backlog", "check", "reading", "offering", "done"}]
        /\ reader'[Udp] = "done" /\ \A r \in Readers : r # Udp => reader'[r] = reader[r]
    BY <1>1, <2>1 DEF IInv, TypeInv
  <2>3. /\ \A r \in Readers : reader[r] = "done" => reader'[r] = "done"
        /\ \A r \in Readers : (reader[r] = "offering") <=> (reader'[r] = "offering")
    BY <2>1, <2>2
  <2> QED
    BY <2>1, <2>2, <2>3, ControlSteps DEF IInv, TypeInv
<1> QED
  BY <1>2, <1>3, <1>4, <1>5, <1>6 DEF ServerStep

\* The consumer moves a message along the stream.
LEMMA ConsumerSteps == ASSUME IInv, Consumer PROVE IInv'
<1> USE DEF mainVars, peerVars
<1>0. TypeInv
  BY DEF IInv
<1>1. UNCHANGED <<mainVars, server, shut, reader, peerVars, inbox, held>>
  BY DEF Consumer, Take, Process, ConsumerStops
<1>2. \A r \in Readers : HeldOf(r)' = HeldOf(r)
  BY <1>1 DEF HeldOf
<1>3. /\ incoming' \in Seq(Messages) /\ Len(incoming') <= ChanSize
      /\ consumer' \in {"idle", "busy", "done"} /\ handled' \in Seq(Messages)
      /\ work' \in (IF consumer' = "busy" THEN Messages ELSE {<<>>})
      /\ Stream' = Stream
  <2>1. CASE Take
    <3>1. PICK s \in Seq(Messages), m \in Messages, t \in Seq(Messages) :
             /\ s = incoming /\ m = Head(s) /\ t = Tail(s) /\ s # <<>> /\ Len(t) = Len(s) - 1
      BY <1>0, <2>1, HeadTailProperties DEF Take, TypeInv
    <3>2. /\ consumer = "idle" /\ work' = m /\ incoming' = t /\ consumer' = "busy"
          /\ handled' = handled
      BY <2>1, <3>1 DEF Take
    <3>3. Len(s) \in Nat /\ Len(s) <= ChanSize /\ ChanSize \in Nat
      BY <1>0, <3>1, LenProperties, Constants DEF TypeInv
    <3>4. Len(t) <= ChanSize
      BY <3>1, <3>3
    <3>5. work = <<>> /\ Singly(<<>>) = <<>> /\ Singly(m) = <<m>>
      BY <1>0, <3>2, MessageFacts DEF TypeInv, Singly
    <3>6. s = <<m>> \o t
      BY <3>1
    <3>7. PICK h \in Seq(Messages), x \in Seq(Messages) : h = handled /\ x = <<m>>
      <4>1. handled \in Seq(Messages) /\ <<m>> \in Seq(Messages)
        BY <1>0, <3>1 DEF TypeInv
      <4> QED
        BY <4>1
    <3>8. h \o <<>> = h /\ (h \o x) \o t = h \o (x \o t)
      BY Regroup, ConcatEmptySeq
    <3>9. Stream = h \o s /\ Stream' = (h \o x) \o t
      BY <3>1, <3>2, <3>5, <3>7, <3>8 DEF Stream
    <3> QED
      BY <1>0, <3>1, <3>2, <3>4, <3>6, <3>7, <3>8, <3>9 DEF TypeInv
  <2>2. CASE Process
    <3>1. PICK h \in Seq(Messages), m \in Messages : h = handled /\ m = work
      BY <1>0, <2>2 DEF Process, TypeInv
    <3>2. handled' = Append(h, m) /\ work' = <<>> /\ consumer' = "idle" /\ incoming' = incoming
      BY <2>2, <3>1 DEF Process
    <3>3. Singly(<<>>) = <<>> /\ Singly(m) = <<m>>
      BY MessageFacts DEF Singly
    <3>4. Append(h, m) = h \o <<m>> /\ Append(h, m) \in Seq(Messages)
      BY AppendIsConcat, AppendProperties
    <3>5. (h \o <<m>>) \o <<>> = h \o <<m>>
      BY <3>4, ConcatEmptySeq
    <3>6. Stream' = Stream
      BY <3>1, <3>2, <3>3, <3>4, <3>5 DEF Stream
    <3> QED
      BY <1>0, <3>2, <3>4, <3>6 DEF TypeInv
  <2>3. CASE ConsumerStops
    <3>1. consumer = "idle" /\ consumer' = "done" /\ UNCHANGED <<incoming, work, handled>>
      BY <2>3 DEF ConsumerStops
    <3>2. Stream' = Stream
      BY <3>1 DEF Stream
    <3> QED
      BY <1>0, <3>1, <3>2 DEF TypeInv
  <2> QED
    BY <2>1, <2>2, <2>3 DEF Consumer
<1>4. TypeInv'
  BY <1>0, <1>1, <1>2, <1>3 DEF TypeInv
<1>5. OrderInv'
  BY <1>1, <1>3, OrderFrame
<1> QED
  BY <1>4, <1>5 DEF IInv

LEMMA GiveUpStep == ASSUME IInv, NEW r \in Readers, GiveUp(r) PROVE IInv'
<1>0. TypeInv
  BY DEF IInv
<1>1. /\ reader[r] = "offering"
      /\ reader' = [reader EXCEPT ![r] = "done"] /\ held' = [held EXCEPT ![r] = <<>>]
      /\ server' = IF r = Udp THEN [server EXCEPT !["udp"] = "done"] ELSE server
      /\ UNCHANGED <<mainVars, shut, peerVars, inbox, incoming, consVars>>
  BY DEF GiveUp
<1>2. /\ reader' \in [Readers -> {"none", "backlog", "check", "reading", "offering", "done"}]
      /\ reader'[r] = "done" /\ \A q \in Readers : q # r => reader'[q] = reader[q]
      /\ held' \in [Readers -> Messages \cup {<<>>}]
      /\ held'[r] = <<>> /\ \A q \in Readers : q # r => held'[q] = held[q]
  BY <1>0, <1>1 DEF TypeInv
<1>3. \A q \in Readers : held'[q] \in HeldOf(q)'
  BY <1>0, <1>2 DEF TypeInv, HeldOf
<1>4. /\ server' \in [Servers -> {"starting", "serving", "done"}]
      /\ server'["udp"] = "starting" => server["udp"] = "starting" /\ r # Udp
  BY <1>0, <1>1 DEF TypeInv, Servers
<1>5. server'["udp"] = "starting" => reader'[Udp] = "none"
  BY <1>0, <1>2, <1>4, Constants DEF TypeInv
<1>6. TypeInv'
  BY <1>0, <1>1, <1>2, <1>3, <1>4, <1>5 DEF TypeInv, mainVars, peerVars, consVars
<1>7. Stream' = Stream
  BY <1>1 DEF Stream, consVars
<1>8. OrderInv'
  BY <1>1, <1>2, <1>7, OrderFrame DEF peerVars
<1> QED
  BY <1>6, <1>8 DEF IInv

\* What arrives is at the end of both lists; a datagram that is lost, of neither.
LEMMA SendStep == ASSUME IInv, NEW r \in Readers, Send(r) PROVE IInv'
<1>0. TypeInv
  BY DEF IInv
<1> DEFINE m == <<r, sent[r] + 1>>
<1>1. /\ sent[r] < Len(Script[r]) /\ sent' = [sent EXCEPT ![r] = @ + 1]
      /\ \/ inbox' = [inbox EXCEPT ![r] = Append(@, m)] /\ arrived' = [arrived EXCEPT ![r] = Append(@, m)]
         \/ UNCHANGED <<inbox, arrived>>
      /\ UNCHANGED <<mainVars, server, shut, reader, reset, held, incoming, consVars>>
  BY DEF Send
<1>2. m \in MessagesOf(r) /\ m \in Messages
  BY <1>0, <1>1, Constants, MessageFacts DEF TypeInv
<1> HIDE DEF m
<1>3. sent' \in [Readers -> Nat] /\ \A q \in Readers : sent'[q] <= Len(Script[q])
  <2>1. sent[r] \in Nat /\ Len(Script[r]) \in Nat /\ sent[r] + 1 <= Len(Script[r]) /\ sent[r] + 1 \in Nat
    BY <1>0, <1>1, Constants DEF TypeInv
  <2> QED
    BY <1>0, <1>1, <2>1 DEF TypeInv
<1>4. \A q \in Readers : HeldOf(q)' = HeldOf(q)
  BY <1>1 DEF HeldOf
<1>5. Stream' = Stream
  BY <1>1 DEF Stream, consVars
<1>6. CASE UNCHANGED <<inbox, arrived>>
  <2>1. TypeInv'
    BY <1>0, <1>1, <1>3, <1>4, <1>6 DEF TypeInv, mainVars, consVars
  <2>2. OrderInv'
    BY <1>1, <1>5, <1>6, OrderFrame
  <2> QED
    BY <2>1, <2>2 DEF IInv
<1>7. CASE /\ inbox' = [inbox EXCEPT ![r] = Append(@, m)]
           /\ arrived' = [arrived EXCEPT ![r] = Append(@, m)]
  <2>1. /\ Append(inbox[r], m) \in Seq(Messages) /\ Append(inbox[r], m) \in Seq(MessagesOf(r))
        /\ Append(arrived[r], m) \in Seq(Messages)
    BY <1>0, <1>2, AppendProperties DEF TypeInv
  <2>2. /\ inbox' \in [Readers -> Seq(Messages)] /\ arrived' \in [Readers -> Seq(Messages)]
        /\ inbox'[r] = Append(inbox[r], m) /\ arrived'[r] = Append(arrived[r], m)
        /\ \A q \in Readers : q # r => inbox'[q] = inbox[q] /\ arrived'[q] = arrived[q]
    BY <1>0, <1>7, <2>1 DEF TypeInv
  <2>3. \A q \in Readers : inbox'[q] \in Seq(MessagesOf(q))
    BY <1>0, <2>1, <2>2 DEF TypeInv
  <2>4. TypeInv'
    BY <1>0, <1>1, <1>3, <1>4, <2>2, <2>3 DEF TypeInv, mainVars, consVars
  <2>5. ASSUME NEW q \in Readers
        PROVE  Kept(reader[q] = "done", From(q, Stream), held[q], inbox'[q], arrived'[q])
    <3>1. Kept(reader[q] = "done", From(q, Stream), held[q], inbox[q], arrived[q])
      BY DEF IInv, OrderInv
    <3>2. CASE q # r
      BY <2>2, <3>1, <3>2
    <3>3. CASE q = r
      <4>1. /\ From(r, Stream) \in Seq(Messages) /\ held[r] \in Messages \cup {<<>>}
            /\ inbox[r] \in Seq(Messages) /\ arrived[r] \in Seq(Messages)
        BY <1>0, StreamType, FromType DEF TypeInv
      <4>2. PICK d \in BOOLEAN : d = (reader[r] = "done")
        OBVIOUS
      <4>3. Kept(d, From(r, Stream), held[r], Append(inbox[r], m), Append(arrived[r], m))
        BY <1>2, <3>1, <3>3, <4>1, <4>2, KeptArrives
      <4> QED
        BY <2>2, <3>3, <4>2, <4>3
    <3> QED
      BY <3>2, <3>3
  <2>6. OrderInv'
    BY <1>1, <1>5, <2>5 DEF OrderInv, From
  <2> QED
    BY <2>4, <2>6 DEF IInv
<1> QED
  BY <1>1, <1>6, <1>7

\* A line is held, a blank is skipped.
LEMMA ReadStep == ASSUME IInv, NEW r \in Readers, Read(r) PROVE IInv'
<1>0. TypeInv
  BY DEF IInv
<1>1. PICK i \in Seq(Messages), m \in Messages :
         /\ i = inbox[r] /\ m = Head(i) /\ i # <<>> /\ Tail(i) \in Seq(Messages)
         /\ m \in MessagesOf(r) /\ Tail(i) \in Seq(MessagesOf(r))
  <2>1. /\ inbox[r] \in Seq(Messages) /\ inbox[r] \in Seq(MessagesOf(r)) /\ inbox[r] # <<>>
    BY <1>0 DEF Read, TypeInv
  <2>2. /\ Head(inbox[r]) \in Messages /\ Tail(inbox[r]) \in Seq(Messages)
        /\ Head(inbox[r]) \in MessagesOf(r) /\ Tail(inbox[r]) \in Seq(MessagesOf(r))
    BY <2>1, HeadTailProperties
  <2> QED
    BY <2>1, <2>2
<1> DEFINE h == IF KindOf(m) = "line" THEN m ELSE <<>>
           x == IF KindOf(m) = "line" THEN "offering" ELSE Again(r)
<1>2. /\ reader[r] = "reading" /\ reader' = [reader EXCEPT ![r] = x]
      /\ \/ KindOf(m) = "line" /\ held' = [held EXCEPT ![r] = m]
         \/ KindOf(m) # "line" /\ held' = held
      /\ inbox' = [inbox EXCEPT ![r] = Tail(i)]
      /\ UNCHANGED <<mainVars, server, shut, peerVars, incoming, consVars>>
  BY <1>1 DEF Read
<1>3. held[r] = <<>>
  BY <1>0, <1>2 DEF TypeInv, HeldOf
<1>4. /\ held' \in [Readers -> Messages \cup {<<>>}] /\ held'[r] = h
      /\ \A q \in Readers : q # r => held'[q] = held[q]
  BY <1>0, <1>1, <1>2, <1>3 DEF TypeInv
<1>5. x \in {"check", "reading", "offering"} /\ (x = "offering" <=> KindOf(m) = "line")
  BY DEF Again
<1>6. /\ reader' \in [Readers -> {"none", "backlog", "check", "reading", "offering", "done"}]
      /\ reader'[r] = x /\ \A q \in Readers : q # r => reader'[q] = reader[q]
  BY <1>0, <1>2, <1>5 DEF TypeInv
<1>7. \A q \in Readers : held'[q] \in HeldOf(q)'
  BY <1>0, <1>1, <1>4, <1>5, <1>6 DEF TypeInv, HeldOf
<1>8. /\ inbox' \in [Readers -> Seq(Messages)] /\ inbox'[r] = Tail(i)
      /\ \A q \in Readers : q # r => inbox'[q] = inbox[q]
  BY <1>0, <1>1, <1>2 DEF TypeInv
<1>9. \A q \in Readers : inbox'[q] \in Seq(MessagesOf(q))
  BY <1>0, <1>1, <1>8 DEF TypeInv
<1>10. server["udp"] = "starting" => reader'[Udp] = "none"
  BY <1>0, <1>2, <1>6, Constants DEF TypeInv
<1>11. TypeInv'
  BY <1>0, <1>2, <1>4, <1>6, <1>7, <1>8, <1>9, <1>10 DEF TypeInv, mainVars, peerVars, consVars
<1>12. Stream' = Stream
  BY <1>2 DEF Stream, consVars
<1>13. ASSUME NEW q \in Readers
       PROVE  Kept(reader'[q] = "done", From(q, Stream), held'[q], inbox'[q], arrived[q])
  <2>1. Kept(reader[q] = "done", From(q, Stream), held[q], inbox[q], arrived[q])
    BY DEF IInv, OrderInv
  <2>2. CASE q # r
    BY <1>4, <1>6, <1>8, <2>1, <2>2
  <2>3. CASE q = r
    <3>1. PICK p \in Seq(Messages), a \in Seq(Messages) : p = From(r, Stream) /\ a = arrived[r]
      BY <1>0, StreamType, FromType DEF TypeInv
    <3>2. Kept(FALSE, p, <<>>, i, a)
      BY <1>1, <1>2, <1>3, <2>1, <2>3, <3>1 DEF Kept
    <3>3. Kept(FALSE, p, IF KindOf(Head(i)) = "line" THEN Head(i) ELSE <<>>, Tail(i), a)
      BY <1>1, <3>2, KeptReads
    <3>4. reader'[r] # "done"
      BY <1>5, <1>6
    <3> QED
      BY <1>1, <1>4, <1>8, <2>3, <3>1, <3>3, <3>4 DEF Kept
  <2> QED
    BY <2>2, <2>3
<1>14. OrderInv'
  BY <1>2, <1>12, <1>13 DEF OrderInv, From, peerVars
<1> QED
  BY <1>11, <1>14 DEF IInv

\* A message handed over is at the end of the stream.
LEMMA OfferStep == ASSUME IInv, NEW r \in Readers, Offer(r) PROVE IInv'
<1>0. TypeInv
  BY DEF IInv
<1>1. PICK m \in Messages : m = held[r] /\ m \in MessagesOf(r)
  BY <1>0, MessageFacts DEF Offer, TypeInv, HeldOf
<1>2. /\ reader[r] = "offering" /\ Len(incoming) < ChanSize
      /\ incoming' = Append(incoming, m) /\ held' = [held EXCEPT ![r] = <<>>]
      /\ reader' = [reader EXCEPT ![r] = Again(r)]
      /\ UNCHANGED <<mainVars, server, shut, peerVars, inbox, consVars>>
  BY <1>1 DEF Offer
<1>3. /\ reader' \in [Readers -> {"none", "backlog", "check", "reading", "offering", "done"}]
      /\ reader'[r] \in {"check", "reading"} /\ \A q \in Readers : q # r => reader'[q] = reader[q]
  BY <1>0, <1>2 DEF TypeInv, Again
<1>4. /\ held' \in [Readers -> Messages \cup {<<>>}] /\ held'[r] = <<>>
      /\ \A q \in Readers : q # r => held'[q] = held[q]
  BY <1>0, <1>2 DEF TypeInv
<1>5. \A q \in Readers : held'[q] \in HeldOf(q)'
  BY <1>0, <1>3, <1>4 DEF TypeInv, HeldOf
<1>6. incoming' \in Seq(Messages) /\ Len(incoming') <= ChanSize
  <2>1. PICK s \in Seq(Messages) : s = incoming
    BY <1>0 DEF TypeInv
  <2>2. Append(s, m) \in Seq(Messages) /\ Len(Append(s, m)) = Len(s) + 1
    BY AppendProperties
  <2>3. Len(s) \in Nat /\ ChanSize \in Nat /\ Len(s) < ChanSize
    BY <1>2, <2>1, LenProperties, Constants
  <2>4. Len(s) + 1 <= ChanSize
    BY <2>3
  <2> QED
    BY <1>2, <2>1, <2>2, <2>4
<1>7. server["udp"] = "starting" => reader'[Udp] = "none"
  BY <1>0, <1>2, <1>3, Constants DEF TypeInv
<1>8. TypeInv'
  BY <1>0, <1>2, <1>3, <1>4, <1>5, <1>6, <1>7 DEF TypeInv, mainVars, peerVars, consVars
<1>9. PICK z \in Seq(Messages) : z = Stream
  BY <1>0, StreamType
<1>10. Stream' = Append(z, m)
  <2>1. PICK g \in Seq(Messages), s \in Seq(Messages) : g = handled \o Singly(work) /\ s = incoming
    <3>1. handled \in Seq(Messages) /\ Singly(work) \in Seq(Messages) /\ incoming \in Seq(Messages)
      BY <1>0, SinglyIs DEF TypeInv
    <3>2. handled \o Singly(work) \in Seq(Messages)
      BY <3>1, ConcatProperties
    <3> QED
      BY <3>1, <3>2
  <2>2. Stream = g \o s /\ Stream' = g \o Append(s, m)
    BY <1>2, <2>1 DEF Stream, consVars
  <2>3. <<m>> \in Seq(Messages) /\ g \o s \in Seq(Messages)
    BY ConcatProperties
  <2>4. Append(s, m) = s \o <<m>> /\ Append(g \o s, m) = (g \o s) \o <<m>>
    BY <2>3, AppendIsConcat
  <2>5. (g \o s) \o <<m>> = g \o (s \o <<m>>)
    BY <2>3, Regroup
  <2> QED
    BY <1>9, <2>2, <2>4, <2>5
<1>11. \A q \in Readers : From(q, Append(z, m)) = IF q = r THEN Append(From(q, z), m) ELSE From(q, z)
  <2> TAKE q \in Readers
  <2>1. Only(Append(z, m), MessagesOf(q)) = IF m \in MessagesOf(q)
                                            THEN Append(Only(z, MessagesOf(q)), m)
                                            ELSE Only(z, MessagesOf(q))
    BY OnlyAppend
  <2>2. m \in MessagesOf(q) <=> q = r
    BY <1>1, MessageFacts
  <2> QED
    BY <2>1, <2>2 DEF From
<1>12. ASSUME NEW q \in Readers
       PROVE  Kept(reader'[q] = "done", From(q, Append(z, m)), held'[q], inbox[q], arrived[q])
  <2>1. Kept(reader[q] = "done", From(q, z), held[q], inbox[q], arrived[q])
    BY <1>9 DEF IInv, OrderInv
  <2>2. CASE q # r
    BY <1>3, <1>4, <1>11, <2>1, <2>2
  <2>3. CASE q = r
    <3>1. PICK p \in Seq(Messages) : p = From(r, z)
      BY FromType
    <3>2. PICK i : i = inbox[r]
      OBVIOUS
    <3>3. PICK a : a = arrived[r]
      OBVIOUS
    <3>4. Kept(FALSE, p, m, i, a)
      BY <1>1, <1>2, <2>1, <2>3, <3>1, <3>2, <3>3 DEF Kept
    <3>5. Kept(FALSE, Append(p, m), <<>>, i, a)
      BY <3>4, KeptOffers
    <3> QED
      BY <1>3, <1>4, <1>11, <2>3, <3>1, <3>5, <3>2, <3>3 DEF Kept
  <2> QED
    BY <2>2, <2>3
<1>13. OrderInv'
  BY <1>2, <1>10, <1>12 DEF OrderInv, From, peerVars
<1> QED
  BY <1>8, <1>13 DEF IInv

LEMMA StepIInv == IInv /\ [Next]_vars => IInv'
<1> SUFFICES ASSUME IInv, [Next]_vars PROVE IInv'
  OBVIOUS
<1>1. ASSUME NEW r \in Readers, ReaderStep(r) \/ Send(r) PROVE IInv'
  BY <1>1, ReadStep, OfferStep, GiveUpStep, ServerSteps, ConnSteps, SendStep DEF ReaderStep
<1>2. ASSUME NEW c \in Conns, Connect(c) \/ Reset(c) PROVE IInv'
  BY <1>2, ConnSteps
<1>3. CASE UNCHANGED vars
  <2>1. UNCHANGED <<mainVars, server, shut, reader, sent, reset, arrived, inbox, held, incoming, consVars>>
    BY <1>3 DEF vars, peerVars
  <2> QED
    BY <2>1, ControlSteps DEF IInv, TypeInv, mainVars
<1> QED
  BY <1>1, <1>2, <1>3, ServerSteps, ConsumerSteps DEF Next

-----------------------------------------------------------------------------
(* The theorems.                                                             *)

THEOREM IInvHolds == Spec => []IInv
<1> QED
  BY InitIInv, StepIInv, PTL DEF Spec

\* Every goroutine, queue and message has its type, the channel is within its
\* capacity, and a reader holds a message exactly while it offers one.
THEOREM TypeCorrect == Spec => []TypeOK
<1>1. IInv => TypeOK
  <2> SUFFICES ASSUME TypeInv PROVE TypeOK
    BY DEF IInv
  <2>1. {cancelled, exited} \subseteq BOOLEAN
    BY DEF TypeInv
  <2>2. \A r \in Readers : sent[r] \in 0 .. Len(Script[r])
    BY Constants DEF TypeInv
  <2>3. \A r \in Readers : {inbox[r], arrived[r]} \subseteq Seq(Messages)
    BY DEF TypeInv
  <2>4. \A r \in Readers : held[r] \in (IF reader[r] = "offering" THEN Messages ELSE {<<>>})
    BY MessageFacts DEF TypeInv, HeldOf
  <2> QED
    BY <2>1, <2>2, <2>3, <2>4 DEF TypeInv, TypeOK
<1> QED
  BY <1>1, IInvHolds, PTL

\* What has passed a reader is a prefix of the lines that arrived there, with no
\* gap and nothing twice; until the reader ends, the rest is in its hands.
THEOREM OrderIsKept == Spec => []KeptInOrder
<1>1. IInv => KeptInOrder
  <2> SUFFICES ASSUME IInv, NEW r \in Readers
               PROVE  /\ IsPrefix(Passed(r), Lines(arrived[r]))
                      /\ reader[r] # "done" =>
                            (Passed(r) \o Singly(held[r])) \o Lines(inbox[r]) = Lines(arrived[r])
    BY DEF KeptInOrder
  <2>1. Passed(r) = From(r, Stream)
    BY DEF Passed, Stream
  <2>2. Kept(reader[r] = "done", From(r, Stream), held[r], inbox[r], arrived[r])
    BY DEF IInv, OrderInv
  <2>3. /\ From(r, Stream) \in Seq(Messages) /\ held[r] \in Messages \cup {<<>>}
        /\ inbox[r] \in Seq(Messages) /\ arrived[r] \in Seq(Messages)
    BY StreamType, FromType DEF IInv, TypeInv
  <2>4. CASE reader[r] = "done"
    BY <2>1, <2>2, <2>4 DEF Kept
  <2>5. CASE reader[r] # "done"
    <3>1. Kept(FALSE, From(r, Stream), held[r], inbox[r], arrived[r])
      BY <2>2, <2>5 DEF Kept
    <3>2. IsPrefix(From(r, Stream), Lines(arrived[r]))
      BY <2>3, <3>1, KeptEnds
    <3> QED
      BY <2>1, <3>1, <3>2 DEF Kept
  <2> QED
    BY <2>4, <2>5
<1> QED
  BY <1>1, IInvHolds, PTL
=======================
