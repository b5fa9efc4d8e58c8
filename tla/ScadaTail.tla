------------------------------ MODULE ScadaTail ------------------------------
(***************************************************************************)
(* The SCADA log forwarder (deploy/scada_log_forwarder.py): it follows a log *)
(* file through rotation and truncation, picks the lines it can classify,    *)
(* suppresses repeats within a window, and sends the rest to the collector.  *)
(* One of its paths; several share only the window.                          *)
(***************************************************************************)
EXTENDS Integers, Sequences, FiniteSets

CONSTANTS Texts,        \* what a line can say
          Classified,   \* <<text, part>>: what classify_line recognises, part being
                        \* "whole", or the "head" or "tail" of a line read in two
          Window,       \* the de-duplication window, in ticks
          TailFromEnd,  \* SCADA_TAIL_FROM_END
          MaxLines,     \* bound: lines the SCADA server logs
          MaxUpsets,    \* bound: rotations, truncations, read errors, restarts
          LastTick      \* bound: the clock stops here

Parts == {"whole", "head", "tail"}

ASSUME TailAssumption ==
    /\ Classified \subseteq Texts \X Parts /\ TailFromEnd \in BOOLEAN
    /\ {Window, MaxUpsets, LastTick} \subseteq Nat /\ MaxLines \in Nat \ {0}

None  == 0      \* no file
Never == -1     \* no entry in Deduper.seen

VARIABLES
    clock,
    content,    \* external: the files there have been, oldest first, each a
                \* sequence of pieces; an open file outlives its name
    named,      \* external: the file at the path, None while there is none
    lines,      \* external: the text of each line logged so far
    torn,       \* external: the last line's tail is still to be written
    upsets,     \* history: how often the file or the forwarder was disturbed
    pc,         \* where the forwarder's loop stands
    statted,    \* the file stat found to be opened, while pc is "open"
    fh, inode,  \* the open file, and the one its state says is open
    position,   \* tell(): pieces of it consumed
    buffer,     \* pieces read from it and not yet consumed
    initialized,
    seen,       \* Deduper.seen: when each key was last let through
    boot,       \* history: how often the forwarder was started again
    opened,     \* history: the number of openings
    tried,      \* history: the events it built and tried to send, in order
    taken       \* history: the lines read whole

world   == <<content, named, lines, torn>>
state   == <<fh, inode, position, buffer, initialized>>
history == <<boot, opened, tried, taken>>
vars == <<clock, world, upsets, pc, statted, state, seen, history>>

\* A piece is what one write added: a line, or a part of one.
Piece(n, p) == [line |-> n, part |-> p]
EndsLine(piece) == piece.part # "head"
Pieces == [line : 1 .. MaxLines, part : Parts]
Files  == 1 .. MaxUpsets + 1

Init ==
    /\ clock = 0
    /\ lines \in UNION {[1 .. n -> Texts] : n \in 0 .. 1}
    /\ content = << [i \in DOMAIN lines |-> Piece(i, "whole")] >> /\ named = 1
    /\ torn = FALSE /\ upsets = 0
    /\ pc = "stat" /\ statted = None
    /\ fh = None /\ inode = None /\ position = 0 /\ buffer = <<>> /\ initialized = FALSE
    /\ seen = [k \in Classified |-> Never]
    /\ boot = 0 /\ opened = 0 /\ tried = <<>> /\ taken = {}

-----------------------------------------------------------------------------
(* The SCADA server, its log rotation, and time.                            *)

Tick ==
    /\ clock < LastTick /\ clock' = clock + 1
    /\ UNCHANGED <<world, upsets, pc, statted, state, seen, history>>

Added(piece) == content' = [content EXCEPT ![named] = Append(@, piece)]

\* A line is added by one write, or by two.
Log(t, part) ==
    /\ named # None /\ ~torn /\ Len(lines) < MaxLines /\ part # "tail"
    /\ lines' = Append(lines, t)
    /\ Added(Piece(Len(lines'), part)) /\ torn' = (part = "head")
    /\ UNCHANGED <<clock, named, upsets, pc, statted, state, seen, history>>

LogRest ==
    /\ named # None /\ torn
    /\ Added(Piece(Len(lines), "tail")) /\ torn' = FALSE
    /\ UNCHANGED <<clock, named, lines, upsets, pc, statted, state, seen, history>>

Upset == upsets < MaxUpsets /\ upsets' = upsets + 1

MoveAway ==
    /\ named # None /\ ~torn /\ Upset /\ named' = None
    /\ UNCHANGED <<clock, content, lines, torn, pc, statted, state, seen, history>>

Create ==
    /\ named = None
    /\ content' = Append(content, <<>>) /\ named' = Len(content')
    /\ UNCHANGED <<clock, lines, torn, upsets, pc, statted, state, seen, history>>

Truncate ==
    /\ named # None /\ content[named] # <<>> /\ ~torn /\ Upset
    /\ content' = [content EXCEPT ![named] = <<>>]
    /\ UNCHANGED <<clock, named, lines, torn, pc, statted, state, seen, history>>

World == Tick \/ LogRest \/ MoveAway \/ Create \/ Truncate
         \/ \E t \in Texts : Log(t, "whole") \/ Log(t, "head")

-----------------------------------------------------------------------------
(* The forwarder.                                                           *)

\* _close_state
Closed ==
    /\ fh' = None /\ inode' = None /\ position' = 0 /\ buffer' = <<>>
    /\ UNCHANGED initialized

\* Mutants: a file that was cut is not noticed; one that has not grown is taken
\* for a new one.
MutTruncated(size) == FALSE
MutTruncatedEqual(size) == fh # None /\ size <= position

IsTruncated(size) == fh # None /\ size < position

\* Mutant: a replaced file is not noticed.
MutNeedsOpen(size) == fh = None \/ ~initialized \/ IsTruncated(size)

NeedsOpen(size) == fh = None \/ ~initialized \/ inode # named \/ IsTruncated(size)

Stat ==
    /\ pc = "stat"
    /\ \/ named = None /\ Closed /\ UNCHANGED <<pc, statted>>
       \/ /\ named # None /\ NeedsOpen(Len(content[named]))
          /\ pc' = "open" /\ statted' = named /\ Closed
       \/ /\ named # None /\ ~NeedsOpen(Len(content[named]))
          /\ pc' = "drain" /\ UNCHANGED <<statted, state>>
    /\ UNCHANGED <<clock, world, upsets, seen, history>>

\* Mutant: every opening starts at the end of the file.
MutStart(file) == Len(content[file])

\* Where an opening starts to read.
Start(file) == IF TailFromEnd /\ ~initialized THEN Len(content[file]) ELSE 0

\* The name may mean another file by now, and the state keeps what stat said.
Open ==
    /\ pc = "open" /\ statted' = None
    /\ \/ /\ named = None /\ pc' = "stat" /\ Closed /\ UNCHANGED opened
       \/ /\ named # None /\ pc' = "drain"
          /\ fh' = named /\ inode' = statted
          /\ position' = Start(named) /\ buffer' = <<>> /\ initialized' = TRUE
          /\ opened' = opened + 1
    /\ UNCHANGED <<clock, world, upsets, seen, boot, tried, taken>>

\* What is read ahead, filled from the file when it holds no whole line.
Filled == IF \E i \in DOMAIN buffer : EndsLine(buffer[i]) THEN buffer
          ELSE buffer \o SubSeq(content[fh], position + Len(buffer) + 1, Len(content[fh]))

\* Where readline stops: after a newline, or where the file ends for now.
UnitEnd(b) == {n \in DOMAIN b : /\ EndsLine(b[n]) \/ n = Len(b)
                               /\ \A i \in 1 .. n - 1 : ~EndsLine(b[i])}

\* What readline returned: a line, or a part of one.  When the file was cut and
\* grew back behind a part read ahead, that part has the wrong end, and the line
\* reads as one of its pieces.
Units(ps) == IF Len(ps) = 2 /\ ps[1].line = ps[2].line THEN {Piece(ps[1].line, "whole")}
             ELSE {ps[i] : i \in DOMAIN ps}
Key(u)   == <<lines[u.line], u.part>>

\* Deduper.allow, after _prune.
Pruned == [k \in DOMAIN seen |-> IF clock - seen[k] >= Window THEN Never ELSE seen[k]]

\* Mutants: the window ends a tick early; and once seen, a key stays suppressed.
MutLetThrough(k) == Pruned[k] = Never \/ clock - Pruned[k] = Window - 1
MutLetThroughOnce(k) == seen[k] = Never

LetThrough(k) == Pruned[k] = Never

\* classify, de-duplicate, send: the key is recorded before the send, and a send
\* that fails leaves what one that succeeds leaves.
Handle(u) ==
    \/ /\ Key(u) \notin Classified
       /\ UNCHANGED <<seen, tried>>
    \/ /\ Key(u) \in Classified /\ ~LetThrough(Key(u))
       /\ seen' = Pruned /\ UNCHANGED tried
    \/ /\ Key(u) \in Classified /\ LetThrough(Key(u))
       /\ seen' = [Pruned EXCEPT ![Key(u)] = clock]
       /\ tried' = Append(tried, [unit |-> u, at |-> clock, boot |-> boot, opening |-> opened])

\* A turn of _drain_available's loop.
ReadLine ==
    /\ pc = "drain"
    /\ IF Filled = <<>>
       THEN pc' = "stat" /\ UNCHANGED <<state, seen, tried, taken>>
       ELSE /\ \E n \in UnitEnd(Filled) :
                  /\ position' = position + n
                  /\ buffer' = SubSeq(Filled, n + 1, Len(Filled))
                  /\ \E u \in Units(SubSeq(Filled, 1, n)) :
                        /\ Handle(u)
                        /\ taken' = IF u.part = "whole" THEN taken \cup {u.line} ELSE taken
            /\ UNCHANGED <<pc, fh, inode, initialized>>
    /\ UNCHANGED <<clock, world, upsets, statted, boot, opened>>

\* Mutant: the loop goes on with the file closed.
MutReadError ==
    /\ pc = "drain" /\ Upset /\ UNCHANGED pc /\ Closed
    /\ UNCHANGED <<clock, world, statted, seen, history>>

ReadError ==
    /\ pc = "drain" /\ Upset /\ pc' = "stat" /\ Closed
    /\ UNCHANGED <<clock, world, statted, seen, history>>

\* The process ends and is started again: all it knew is gone.
Restart ==
    /\ initialized /\ Upset /\ pc' = "stat"
    /\ fh' = None /\ inode' = None /\ position' = 0 /\ buffer' = <<>> /\ initialized' = FALSE
    /\ seen' = [k \in Classified |-> Never]
    /\ statted' = None /\ boot' = boot + 1
    /\ UNCHANGED <<clock, world, opened, tried, taken>>

Forwarder == Stat \/ Open \/ ReadLine

Next == World \/ Forwarder \/ ReadError \/ Restart

\* The forwarder keeps looping; nobody has to log, rotate or repair anything.
Spec == Init /\ [][Next]_vars
FairSpec == Spec /\ WF_vars(Forwarder)

-----------------------------------------------------------------------------

Indexes == DOMAIN tried
TypeOK ==
    /\ clock \in 0 .. LastTick /\ upsets \in 0 .. MaxUpsets /\ boot \in 0 .. upsets
    /\ lines \in Seq(Texts) /\ Len(lines) <= MaxLines /\ torn \in BOOLEAN
    /\ DOMAIN content \subseteq Files /\ \A f \in DOMAIN content : content[f] \in Seq(Pieces)
    /\ {named, fh, inode, statted} \subseteq DOMAIN content \cup {None}
    /\ {position, opened} \subseteq Nat
    /\ buffer \in Seq(Pieces) /\ initialized \in BOOLEAN
    /\ pc \in {"stat", "open", "drain"} /\ (pc = "drain" => fh # None /\ initialized)
    /\ seen \in [Classified -> Never .. clock]
    /\ taken \subseteq DOMAIN lines
    /\ tried \in Seq([unit : Pieces, at : Nat, boot : Nat, opening : Nat])

\* Deduper.allow: one run of the forwarder never tries to send the same line
\* twice within the window, whatever was pruned, reopened or read again.
DedupWindow ==
    \A i, j \in Indexes :
        i < j /\ tried[i].boot = tried[j].boot /\ Key(tried[i].unit) = Key(tried[j].unit)
            => tried[j].at - tried[i].at >= Window

\* ... and it suppresses nothing else: a line it can classify is, when it is
\* read, tried, or the same line was tried within the window (the try may have
\* failed: the window opens before the sending).
SkipsAreRepeats ==
    [][\A n \in taken' \ taken : Key(Piece(n, "whole")) \in Classified =>
          \E i \in DOMAIN tried' :
              /\ tried'[i].boot = boot /\ Key(tried'[i].unit) = Key(Piece(n, "whole"))
              /\ i > Len(tried) \/ clock - tried'[i].at < Window]_vars

\* The window suppresses the repeats within it, and nothing else.
DedupExact == []DedupWindow /\ SkipsAreRepeats

\* Within one opening the lines are tried in the order of the file, and a line is
\* read again only where the file or the forwarder was disturbed, once for each
\* time: neither a quiet file, nor one that grows, is taken for a new one.
Before(u, v) == \/ u.line < v.line
                \/ u.line = v.line /\ u.part = "head" /\ v.part = "tail"
RereadHasCause ==
    /\ \A i, j \in Indexes :
          i < j /\ tried[i].opening = tried[j].opening => Before(tried[i].unit, tried[j].unit)
    /\ opened <= 1 + upsets
    /\ \A i \in Indexes :
          Cardinality({j \in Indexes : tried[j].unit = tried[i].unit}) <= 1 + upsets

\* A line at the path, written whole, that the forwarder has still to come to:
\* it lies ahead in the open file, or in a file still to be opened and read from
\* its start; or the open file was cut and is shorter than what was read of it.
\* (A line right behind a part read ahead is not its rest: the file was cut.)
At(n) == {i \in IF named = None THEN {} ELSE DOMAIN content[named] :
             content[named][i] = Piece(n, "whole")}
ReadTo == position + Len(buffer)
          + IF buffer # <<>> /\ ~EndsLine(buffer[Len(buffer)]) THEN 1 ELSE 0
Ahead(n) == At(n) # {} /\ IF fh = named
                          THEN \/ \E i \in At(n) : i > ReadTo
                               \/ \E i \in DOMAIN buffer : buffer[i] = Piece(n, "whole")
                          ELSE initialized \/ ~TailFromEnd
InCut(n) == At(n) # {} /\ fh = named /\ Len(content[named]) < position

\* _open_if_needed and _drain_available: such a line is read, read error or not,
\* unless its file is moved or cut or the forwarder restarted before; one in a cut
\* file, unless the file grows back over it before the forwarder looks.
LinesReach ==
    \A n \in 1 .. MaxLines :
        /\ Ahead(n) ~> (n \in taken \/ At(n) = {} \/ ~initialized)
        /\ InCut(n) ~> (n \in taken \/ At(n) = {} \/ ~initialized
                           \/ position \in 1 .. Len(content[named]))
==============================================================================
