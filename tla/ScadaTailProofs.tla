---------------------------- MODULE ScadaTailProofs ----------------------------
(***************************************************************************)
(* TLAPS proofs about the SCADA log forwarder: types, that its window       *)
(* suppresses the repeats within it and nothing else, and that a line is    *)
(* sent again only for a cause, for any number of lines, rotations,         *)
(* truncations, read errors and restarts, and any window.                   *)
(***************************************************************************)
EXTENDS ScadaTail, FiniteSetTheorems, TLAPS

-----------------------------------------------------------------------------
(* The inductive invariant.                                                 *)

\* A piece, or a line read, is of a line logged; while a line is half written
\* nothing but its head is anywhere.
Fresh(u) == u.line \in 1 .. Len(lines) /\ (torn /\ u.line = Len(lines) => u.part = "head")

\* Each file but the first was created after one was moved away, and the name is
\* the newest file's.
FilesInv ==
    /\ content \in Seq(Seq(Pieces)) /\ named \in {None, Len(content)}
    /\ Len(content) <= 1 + upsets /\ (named = None => Len(content) <= upsets)
    /\ torn => Len(lines) > 0

\* What the loop keeps while a file is open, and while none is.
LoopInv ==
    /\ fh # None => initialized /\ opened >= 1 /\ inode # None /\ inode <= fh
    /\ fh = None => buffer = <<>>
    /\ pc = "open" => fh = None /\ statted # None

FreshInv ==
    /\ \A f \in DOMAIN content : \A i \in DOMAIN content[f] : Fresh(content[f][i])
    /\ \A i \in DOMAIN buffer : Fresh(buffer[i])
    /\ \A k \in Indexes : Fresh(tried[k].unit)

\* The window remembers the last try of each key, or that try is out of it; and
\* it remembers nothing that was not tried.
SeenInv ==
    /\ \A k \in Indexes :
          /\ tried[k].boot <= boot /\ tried[k].at <= clock /\ Key(tried[k].unit) \in Classified
          /\ tried[k].boot = boot => \/ tried[k].at <= seen[Key(tried[k].unit)]
                                     \/ clock - tried[k].at >= Window
    /\ \A key \in Classified : seen[key] # Never =>
          \E k \in Indexes : /\ tried[k].boot = boot /\ tried[k].at = seen[key]
                             /\ Key(tried[k].unit) = key
    /\ DedupWindow

\* The openings still to come if nothing is disturbed any more.
Behind  == fh # None /\ inode = named /\ position + Len(buffer) <= Len(content[named])
Pending == IF pc = "open" THEN IF statted = named THEN 1 ELSE 2
           ELSE IF Behind THEN 0 ELSE 1

\* Each is paid for by an upset, but for the first.
OpenInv ==
    /\ opened + Pending <= 1 + upsets
    /\ \A k \in Indexes : tried[k].opening \in 1 .. opened

Sorted(ps) == \A i, j \in DOMAIN ps : i < j => Before(ps[i], ps[j])

\* What lies ahead of the reader in the open file, and is not yet read from it.
Unread(j) == j \in DOMAIN content[fh] /\ j > position + Len(buffer)

\* The tries of one opening, what is read ahead, and what is still to be read
\* are in the order of the file, one after the other.
OrderInv ==
    /\ \A f \in DOMAIN content : Sorted(content[f])
    /\ Sorted(buffer)
    /\ fh # None =>
          /\ \A i \in DOMAIN buffer : \A j \in DOMAIN content[fh] :
                Unread(j) => Before(buffer[i], content[fh][j])
          /\ \A k \in Indexes : tried[k].opening = opened =>
                /\ \A i \in DOMAIN buffer : Before(tried[k].unit, buffer[i])
                /\ \A j \in DOMAIN content[fh] :
                      Unread(j) => Before(tried[k].unit, content[fh][j])
    /\ \A i, j \in Indexes :
          i < j /\ tried[i].opening = tried[j].opening => Before(tried[i].unit, tried[j].unit)

TailInv == TypeOK /\ FilesInv /\ LoopInv /\ FreshInv
IInv == TailInv /\ SeenInv /\ OpenInv /\ OrderInv

-----------------------------------------------------------------------------
(* What a turn of the drain loop reads.                                     *)

LEMMA Bounds == /\ Window \in Nat /\ MaxUpsets \in Nat /\ LastTick \in Nat
                /\ MaxLines \in Nat /\ MaxLines >= 1 /\ Classified \subseteq Texts \X Parts
BY TailAssumption

LEMMA PieceType ==
  ASSUME NEW n \in 1 .. MaxLines, NEW p \in Parts
  PROVE  Piece(n, p) \in Pieces /\ Piece(n, p).line = n /\ Piece(n, p).part = p
BY DEF Piece, Pieces

LEMMA TriesAre ==
  ASSUME TypeOK
  PROVE  /\ Len(tried) \in Nat /\ Indexes = 1 .. Len(tried)
         /\ \A k \in Indexes : /\ tried[k].unit \in Pieces /\ tried[k].at \in Nat
                                /\ tried[k].boot \in Nat /\ tried[k].opening \in Nat
<1> DEFINE Try == [unit : Pieces, at : Nat, boot : Nat, opening : Nat]
<1>1. tried \in Seq(Try)
  BY DEF TypeOK
<1>2. \A t \in Try : t.unit \in Pieces /\ t.at \in Nat /\ t.boot \in Nat /\ t.opening \in Nat
  OBVIOUS
<1> HIDE DEF Try
<1>3. Len(tried) \in Nat /\ Indexes = 1 .. Len(tried) /\ \A k \in Indexes : tried[k] \in Try
  BY <1>1 DEF Indexes
<1> QED
  BY <1>2, <1>3

\* Pieces are ordered by Before, strictly.
LEMMA BeforeTransitive ==
  ASSUME NEW u \in Pieces, NEW v \in Pieces, NEW w \in Pieces, Before(u, v), Before(v, w)
  PROVE  Before(u, w)
<1>1. u.line \in Int /\ v.line \in Int /\ w.line \in Int
  BY TailAssumption DEF Pieces
<1> QED
  BY <1>1 DEF Before

LEMMA BeforeIrreflexive ==
  ASSUME NEW u \in Pieces
  PROVE  ~Before(u, u)
<1>1. u.line \in Int
  BY TailAssumption DEF Pieces
<1> QED
  BY <1>1 DEF Before

LEMMA ConcatIs ==
  ASSUME NEW S, NEW s \in Seq(S), NEW t \in Seq(S)
  PROVE  /\ s \o t \in Seq(S) /\ Len(s \o t) = Len(s) + Len(t)
         /\ \A i \in 1 .. Len(s) : (s \o t)[i] = s[i]
         /\ \A i \in Len(s) + 1 .. Len(s) + Len(t) : (s \o t)[i] = t[i - Len(s)]
OBVIOUS

\* What is read ahead starts with the buffer, and what follows is the next of
\* the file, to its end.
LEMMA FilledIs ==
  ASSUME TypeOK, FilesInv, pc = "drain"
  PROVE  /\ Filled \in Seq(Pieces) /\ Len(buffer) <= Len(Filled)
         /\ \A i \in DOMAIN buffer : Filled[i] = buffer[i]
         /\ \A i \in Len(buffer) + 1 .. Len(Filled) :
               position + i \in DOMAIN content[fh] /\ Filled[i] = content[fh][position + i]
         /\ Len(Filled) = Len(buffer) \/ position + Len(Filled) = Len(content[fh])
<1>1. /\ buffer \in Seq(Pieces) /\ position \in Nat
      /\ fh \in DOMAIN content /\ content[fh] \in Seq(Pieces)
  BY DEF TypeOK, None
<1> DEFINE file == content[fh]
           from == position + Len(buffer) + 1
           rest == SubSeq(file, from, Len(file))
<1>2. CASE \E i \in DOMAIN buffer : EndsLine(buffer[i])
  BY <1>1, <1>2 DEF Filled
<1>3. CASE ~\E i \in DOMAIN buffer : EndsLine(buffer[i])
  <2>1. Filled = buffer \o rest
    BY <1>3 DEF Filled
  <2>2. from \in 1 .. Len(file) + 1 \/ from > Len(file) + 1
    BY <1>1
  <2>3. /\ rest \in Seq(Pieces)
        /\ Len(rest) = IF from <= Len(file) THEN Len(file) - from + 1 ELSE 0
        /\ \A i \in 1 .. Len(rest) : rest[i] = file[from + i - 1]
    <3> HIDE DEF file, from
    <3>1. file \in Seq(Pieces) /\ from \in Nat \ {0} /\ Len(file) \in Nat
      BY <1>1 DEF file, from
    <3> QED
      BY <3>1
  <2> HIDE DEF rest
  <2>4. /\ Filled \in Seq(Pieces) /\ Len(Filled) = Len(buffer) + Len(rest)
        /\ \A i \in 1 .. Len(buffer) : Filled[i] = buffer[i]
        /\ \A i \in Len(buffer) + 1 .. Len(Filled) : Filled[i] = rest[i - Len(buffer)]
    <3>1. buffer \in Seq(Pieces) /\ rest \in Seq(Pieces)
      BY <2>3, <1>1
    <3>2. /\ buffer \o rest \in Seq(Pieces) /\ Len(buffer \o rest) = Len(buffer) + Len(rest)
          /\ \A i \in 1 .. Len(buffer) : (buffer \o rest)[i] = buffer[i]
          /\ \A i \in Len(buffer) + 1 .. Len(buffer) + Len(rest) :
                (buffer \o rest)[i] = rest[i - Len(buffer)]
      BY <3>1, ConcatIs
    <3> QED
      BY <2>1, <3>2
  <2>5. \A i \in Len(buffer) + 1 .. Len(Filled) :
           position + i \in DOMAIN file /\ Filled[i] = file[position + i]
    <3> SUFFICES ASSUME NEW i \in Len(buffer) + 1 .. Len(Filled)
                 PROVE  position + i \in DOMAIN file /\ Filled[i] = file[position + i]
      OBVIOUS
    <3>1. i - Len(buffer) \in 1 .. Len(rest) /\ from + (i - Len(buffer)) - 1 = position + i
      BY <1>1, <2>3, <2>4
    <3>2. Filled[i] = file[position + i]
      BY <2>3, <2>4, <3>1
    <3>3. position + i \in 1 .. Len(file)
      BY <1>1, <2>3, <3>1
    <3> QED
      BY <1>1, <3>2, <3>3
  <2>6. Len(Filled) = Len(buffer) \/ position + Len(Filled) = Len(file)
    BY <1>1, <2>3, <2>4
  <2> QED
    BY <1>1, <2>4, <2>5, <2>6
<1> QED
  BY <1>2, <1>3

\* readline's unit is the first pieces of what is read ahead, and reads as its
\* line, or as one of them.
LEMMA UnitIs ==
  ASSUME NEW ps \in Seq(Pieces), NEW n \in UnitEnd(ps), NEW u \in Units(SubSeq(ps, 1, n)),
         Sorted(ps)
  PROVE  /\ n \in 1 .. Len(ps) /\ u \in Pieces
         /\ \/ \E i \in 1 .. n : u = ps[i]
            \/ /\ n = 2 /\ u = Piece(ps[1].line, "whole") /\ ps[1].line = ps[2].line
               /\ ps[1].part = "head" /\ ps[2].part = "tail"
<1> DEFINE line == SubSeq(ps, 1, n)
<1>1. n \in 1 .. Len(ps)
  BY DEF UnitEnd
<1>2. line \in Seq(Pieces) /\ Len(line) = n /\ \A i \in 1 .. n : line[i] = ps[i] /\ ps[i] \in Pieces
  BY <1>1
<1> HIDE DEF line
<1>3. CASE Len(line) = 2 /\ line[1].line = line[2].line
  <2>1. u = Piece(ps[1].line, "whole") /\ n = 2 /\ ps[1].line = ps[2].line
    BY <1>1, <1>2, <1>3 DEF Units, line
  <2>2. ps[1] \in Pieces /\ ps[2] \in Pieces /\ Before(ps[1], ps[2])
    BY <1>1, <1>2, <2>1 DEF Sorted
  <2>3. ps[1].line \in 1 .. MaxLines /\ ps[1].line \in Int /\ "whole" \in Parts
    BY <2>2, TailAssumption DEF Pieces, Parts
  <2>4. ps[1].part = "head" /\ ps[2].part = "tail"
    BY <2>1, <2>2, <2>3 DEF Before
  <2>5. u \in Pieces
    BY <2>1, <2>3, PieceType
  <2> QED
    BY <1>1, <2>1, <2>4, <2>5
<1>4. CASE ~(Len(line) = 2 /\ line[1].line = line[2].line)
  <2>1. u \in {line[i] : i \in DOMAIN line}
    BY <1>4 DEF Units, line
  <2> QED
    BY <1>1, <1>2, <2>1
<1> QED
  BY <1>3, <1>4

-----------------------------------------------------------------------------
(* Types, and where pieces come from.                                       *)

LEMMA InitTail == Init => TailInv
<1> SUFFICES ASSUME Init PROVE TailInv
  OBVIOUS
<1> DEFINE first == [i \in DOMAIN lines |-> Piece(i, "whole")]
<1>0. /\ clock = 0 /\ upsets = 0 /\ boot = 0 /\ opened = 0 /\ position = 0
      /\ torn = FALSE /\ initialized = FALSE /\ pc = "stat"
      /\ buffer = <<>> /\ tried = <<>> /\ taken = {}
  BY DEF Init
<1>1. PICK n \in 0 .. 1 : lines \in [1 .. n -> Texts]
  BY DEF Init
<1>2. lines \in Seq(Texts) /\ Len(lines) = n /\ Len(lines) <= MaxLines /\ DOMAIN lines = 1 .. n
  BY <1>1, TailAssumption
<1>3. \A i \in 1 .. n : Piece(i, "whole") \in Pieces /\ Piece(i, "whole").line = i
  BY <1>2, PieceType, TailAssumption DEF Parts
<1>4. first \in Seq(Pieces) /\ DOMAIN first = 1 .. n /\ \A i \in 1 .. n : first[i].line = i
  BY <1>2, <1>3
<1> HIDE DEF first
<1>5. content = << first >> /\ DOMAIN content = {1} /\ content[1] = first /\ Len(content) = 1
  BY DEF Init, first
<1>6. TypeOK
  <2>1. DOMAIN content \subseteq Files /\ \A f \in DOMAIN content : content[f] \in Seq(Pieces)
    BY <1>4, <1>5, TailAssumption DEF Files
  <2>2. {named, fh, inode, statted} \subseteq DOMAIN content \cup {None}
    BY <1>5 DEF Init
  <2>3. seen \in [Classified -> Never .. clock]
    BY DEF Init, Never
  <2>4. /\ clock \in 0 .. LastTick /\ upsets \in 0 .. MaxUpsets /\ boot \in 0 .. upsets
        /\ position \in Nat /\ opened \in Nat
    BY <1>0, Bounds
  <2>5. /\ buffer \in Seq(Pieces) /\ initialized \in BOOLEAN /\ torn \in BOOLEAN /\ pc = "stat"
        /\ taken \subseteq DOMAIN lines
        /\ tried \in Seq([unit : Pieces, at : Nat, boot : Nat, opening : Nat])
    <3>1. buffer \in Seq(Pieces)
      BY <1>0
    <3>2. initialized \in BOOLEAN /\ torn \in BOOLEAN /\ pc = "stat"
      BY <1>0
    <3>3. taken \subseteq DOMAIN lines
      BY <1>0
    <3>4. tried \in Seq([unit : Pieces, at : Nat, boot : Nat, opening : Nat])
      BY <1>0
    <3> QED
      BY <3>1, <3>2, <3>3, <3>4
  <2> QED
    BY <1>2, <2>1, <2>2, <2>3, <2>4, <2>5 DEF TypeOK
<1>7. FilesInv /\ LoopInv
  BY <1>4, <1>5, TailAssumption DEF Init, FilesInv, LoopInv, None
<1>8. FreshInv
  BY <1>2, <1>4, <1>5 DEF Init, FreshInv, Fresh, Indexes
<1> QED
  BY <1>6, <1>7, <1>8 DEF TailInv

\* The piece that is added to the file at the path, and nothing else, changes.
LEMMA AddedIs ==
  ASSUME FilesInv, named # None, NEW p \in Pieces, Added(p)
  PROVE  /\ named \in DOMAIN content /\ content' \in Seq(Seq(Pieces))
         /\ Len(content') = Len(content) /\ DOMAIN content' = DOMAIN content
         /\ \A f \in DOMAIN content : f # named => content'[f] = content[f]
         /\ DOMAIN content'[named] = 1 .. Len(content[named]) + 1
         /\ Len(content'[named]) = Len(content[named]) + 1
         /\ \A i \in DOMAIN content[named] : content'[named][i] = content[named][i]
         /\ content'[named][Len(content[named]) + 1] = p
<1>1. content \in Seq(Seq(Pieces)) /\ named \in DOMAIN content
  BY DEF FilesInv, None
<1> DEFINE file == content[named]
<1>2. file \in Seq(Pieces)
  BY <1>1
<1>3. /\ Append(file, p) \in Seq(Pieces) /\ Len(Append(file, p)) = Len(file) + 1
      /\ \A i \in 1 .. Len(file) : Append(file, p)[i] = file[i]
      /\ Append(file, p)[Len(file) + 1] = p
  <2> HIDE DEF file
  <2> QED
    BY <1>2
<1>4. content' = [content EXCEPT ![named] = Append(file, p)]
  BY DEF Added
<1>5. content'[named] = Append(file, p) /\ \A f \in DOMAIN content : f # named => content'[f] = content[f]
  BY <1>1, <1>4
<1>6. content' \in Seq(Seq(Pieces)) /\ Len(content') = Len(content) /\ DOMAIN content' = DOMAIN content
  <2> HIDE DEF file
  <2> QED
    BY <1>1, <1>3, <1>4
<1> QED
  BY <1>1, <1>2, <1>3, <1>5, <1>6

-----------------------------------------------------------------------------
(* What the SCADA server and its log rotation do to the files.              *)

\* Fresh, after the step.
FreshNext(u) == u.line \in 1 .. Len(lines') /\ (torn' /\ u.line = Len(lines') => u.part = "head")

\* A piece was added to the file at the path, behind all there are.
Grew(f) ==
    /\ f \in DOMAIN content /\ Len(content'[f]) = Len(content[f]) + 1
    /\ \A i \in DOMAIN content[f] : content'[f][i] = content[f][i]
    /\ FreshNext(content'[f][Len(content'[f])])
    /\ \A q \in Pieces : Fresh(q) => Before(q, content'[f][Len(content'[f])])

Effect ==
    /\ lines' \in Seq(Texts) /\ Len(lines) <= Len(lines') /\ Len(lines') <= MaxLines
    /\ \A i \in DOMAIN lines : lines'[i] = lines[i]
    /\ torn' \in BOOLEAN /\ (torn' => Len(lines') > 0)
    /\ \A q \in Pieces : Fresh(q) => FreshNext(q)
    /\ clock' \in clock .. LastTick /\ upsets' \in upsets .. MaxUpsets
    /\ content' \in Seq(Seq(Pieces)) /\ DOMAIN content \subseteq DOMAIN content'
    /\ \A f \in DOMAIN content' :
          \/ f \in DOMAIN content /\ content'[f] = content[f]
          \/ content'[f] = <<>>
          \/ Grew(f)

LEMMA LogEffect ==
  ASSUME TailInv, NEW p \in Pieces, Added(p), named # None,
         lines' \in Seq(Texts), Len(lines) <= Len(lines'), Len(lines') <= MaxLines,
         \A i \in DOMAIN lines : lines'[i] = lines[i],
         torn' \in BOOLEAN, Len(lines') > 0, UNCHANGED <<clock, upsets>>,
         FreshNext(p), \A q \in Pieces : Fresh(q) => FreshNext(q) /\ Before(q, p)
  PROVE  Effect
<1>1. FilesInv /\ clock \in 0 .. LastTick /\ upsets \in 0 .. MaxUpsets
  BY DEF TailInv, TypeOK
<1>2. /\ named \in DOMAIN content /\ content' \in Seq(Seq(Pieces))
      /\ Len(content') = Len(content) /\ DOMAIN content' = DOMAIN content
      /\ \A f \in DOMAIN content : f # named => content'[f] = content[f]
      /\ Len(content'[named]) = Len(content[named]) + 1
      /\ \A i \in DOMAIN content[named] : content'[named][i] = content[named][i]
      /\ content'[named][Len(content[named]) + 1] = p
  BY <1>1, AddedIs
<1>3. Grew(named)
  BY <1>2 DEF Grew
<1>4. clock' \in clock .. LastTick /\ upsets' \in upsets .. MaxUpsets
  BY <1>1, Bounds
<1> QED
  BY <1>2, <1>3, <1>4 DEF Effect

LEMMA WorldEffect ==
  ASSUME TailInv, World
  PROVE  Effect
<1>1. /\ clock \in 0 .. LastTick /\ upsets \in 0 .. MaxUpsets
      /\ lines \in Seq(Texts) /\ Len(lines) <= MaxLines /\ torn \in BOOLEAN
      /\ content \in Seq(Seq(Pieces)) /\ (torn => Len(lines) > 0)
      /\ (named # None => named \in DOMAIN content)
  BY DEF TailInv, TypeOK, FilesInv, None
<1>2. Len(lines) \in Nat /\ \A q \in Pieces : q.line \in Nat
  BY <1>1, Bounds DEF Pieces
<1> DEFINE Still == lines' = lines /\ torn' = torn
<1>3. ASSUME Still PROVE /\ lines' \in Seq(Texts) /\ Len(lines) <= Len(lines')
                         /\ Len(lines') <= MaxLines /\ \A i \in DOMAIN lines : lines'[i] = lines[i]
                         /\ torn' \in BOOLEAN /\ (torn' => Len(lines') > 0)
                         /\ \A q \in Pieces : Fresh(q) => FreshNext(q)
  BY <1>1, <1>2, <1>3 DEF Fresh, FreshNext
<1>4. CASE Tick
  <2>1. Still /\ clock' \in clock .. LastTick /\ upsets' = upsets /\ content' = content
    BY <1>1, <1>4, Bounds DEF Tick, world
  <2> QED
    BY <1>1, <1>3, <2>1, Bounds DEF Effect
<1>5. ASSUME NEW t \in Texts, NEW part \in {"whole", "head"}, Log(t, part) PROVE Effect
  <2>1. /\ named # None /\ ~torn /\ Len(lines) < MaxLines /\ lines' = Append(lines, t)
        /\ Added(Piece(Len(lines'), part)) /\ torn' = (part = "head")
        /\ UNCHANGED <<clock, upsets>>
    BY <1>5 DEF Log
  <2>2. /\ lines' \in Seq(Texts) /\ Len(lines') = Len(lines) + 1
        /\ \A i \in DOMAIN lines : lines'[i] = lines[i]
    BY <1>1, <2>1
  <2>3. Len(lines') \in 1 .. MaxLines /\ part \in Parts
    BY <1>1, <1>2, <2>1, <2>2, Bounds DEF Parts
  <2>4. PICK p \in Pieces : p = Piece(Len(lines'), part) /\ p.line = Len(lines') /\ p.part = part
    BY <2>3, PieceType
  <2>5. FreshNext(p)
    <3>1. p.line \in 1 .. Len(lines')
      BY <2>3, <2>4
    <3>2. torn' => p.part = "head"
      BY <2>1, <2>4, Zenon
    <3> QED
      BY <3>1, <3>2 DEF FreshNext
  <2>6. \A q \in Pieces : Fresh(q) => FreshNext(q) /\ Before(q, p)
    BY <1>2, <2>2, <2>4 DEF Fresh, FreshNext, Before
  <2>7. torn' \in BOOLEAN /\ Added(p) /\ Len(lines') > 0 /\ Len(lines) <= Len(lines')
        /\ Len(lines') <= MaxLines
    BY <1>2, <2>1, <2>2, <2>3, <2>4
  <2> QED
    BY <2>1, <2>2, <2>5, <2>6, <2>7, LogEffect
<1>6. CASE LogRest
  <2>1. /\ named # None /\ torn /\ lines' = lines /\ ~torn' /\ torn' \in BOOLEAN
        /\ Added(Piece(Len(lines), "tail")) /\ UNCHANGED <<clock, upsets>>
    BY <1>6 DEF LogRest
  <2>2. Len(lines) \in 1 .. MaxLines /\ "tail" \in Parts
    BY <1>1, <1>2, <2>1, Bounds DEF Parts
  <2>3. PICK p \in Pieces : p = Piece(Len(lines), "tail") /\ p.line = Len(lines) /\ p.part = "tail"
    BY <2>2, PieceType
  <2>4. FreshNext(p)
    BY <2>1, <2>2, <2>3 DEF FreshNext
  <2>5. \A q \in Pieces : Fresh(q) => FreshNext(q) /\ Before(q, p)
    BY <1>2, <2>1, <2>3 DEF Fresh, FreshNext, Before
  <2>6. Added(p) /\ Len(lines') > 0 /\ Len(lines) <= Len(lines') /\ Len(lines') <= MaxLines
    BY <1>1, <1>2, <2>1, <2>2, <2>3
  <2>7. lines' \in Seq(Texts) /\ \A i \in DOMAIN lines : lines'[i] = lines[i]
    BY <1>1, <2>1
  <2> QED
    BY <2>1, <2>4, <2>5, <2>6, <2>7, LogEffect
<1>7. CASE MoveAway
  <2>1. Still /\ clock' = clock /\ upsets' \in upsets .. MaxUpsets /\ content' = content
    BY <1>1, <1>7, Bounds DEF MoveAway, Upset
  <2> QED
    BY <1>1, <1>3, <2>1, Bounds DEF Effect
<1>8. CASE Create
  <2>1. Still /\ clock' = clock /\ upsets' = upsets /\ content' = Append(content, <<>>)
    BY <1>8 DEF Create
  <2>2. /\ content' \in Seq(Seq(Pieces)) /\ DOMAIN content' = DOMAIN content \cup {Len(content) + 1}
        /\ \A f \in DOMAIN content : content'[f] = content[f]
        /\ content'[Len(content) + 1] = <<>>
    BY <1>1, <2>1
  <2> QED
    BY <1>1, <1>3, <2>1, <2>2, Bounds DEF Effect
<1>9. CASE Truncate
  <2>1. Still /\ clock' = clock /\ upsets' \in upsets .. MaxUpsets
        /\ content' = [content EXCEPT ![named] = <<>>] /\ named # None
    BY <1>1, <1>9, Bounds DEF Truncate, Upset
  <2>2. /\ content' \in Seq(Seq(Pieces)) /\ DOMAIN content' = DOMAIN content
        /\ \A f \in DOMAIN content : content'[f] = content[f] \/ content'[f] = <<>>
    BY <1>1, <2>1
  <2> QED
    BY <1>1, <1>3, <2>1, <2>2, Bounds DEF Effect
<1> QED
  BY <1>4, <1>5, <1>6, <1>7, <1>8, <1>9 DEF World

LEMMA WorldFrame ==
  ASSUME World
  PROVE  UNCHANGED <<pc, statted, state, seen, history>>
BY DEF World, Tick, Log, LogRest, MoveAway, Create, Truncate

LEMMA WorldTail ==
  ASSUME TailInv, World
  PROVE  TailInv'
<1>1. Effect
  BY WorldEffect
<1>2. /\ pc' = pc /\ statted' = statted /\ fh' = fh /\ inode' = inode /\ position' = position
      /\ buffer' = buffer /\ initialized' = initialized /\ seen' = seen
      /\ boot' = boot /\ opened' = opened /\ tried' = tried /\ taken' = taken
  BY WorldFrame DEF state, history
<1>3. /\ TypeOK /\ FilesInv /\ LoopInv /\ FreshInv
  BY DEF TailInv
<1>4. FilesInv'
  <2>1. named' \in {None, Len(content')}
    BY <1>3 DEF World, Tick, Log, LogRest, MoveAway, Create, Truncate, world, Added, FilesInv
  <2>2. Len(content') <= 1 + upsets' /\ (named' = None => Len(content') <= upsets')
    <3>1. Len(content) \in Nat /\ upsets \in Nat
      BY <1>3 DEF TypeOK, FilesInv
    <3>2. CASE Tick
      BY <1>3, <3>2 DEF Tick, world, FilesInv
    <3>3. ASSUME \/ LogRest \/ \E t \in Texts : Log(t, "whole") \/ Log(t, "head")
          PROVE  Len(content') = Len(content) /\ upsets' = upsets /\ named' = named /\ named # None
      BY <1>3, <3>3 DEF Log, LogRest, Added, FilesInv
    <3>4. CASE MoveAway
      BY <1>3, <3>1, <3>4 DEF MoveAway, Upset, FilesInv
    <3>5. CASE Create
      BY <1>3, <3>1, <3>5 DEF Create, FilesInv, None
    <3>6. CASE Truncate
      BY <1>3, <3>1, <3>6 DEF Truncate, Upset, FilesInv
    <3> QED
      BY <1>3, <3>2, <3>3, <3>4, <3>5, <3>6 DEF World, FilesInv
  <2> QED
    BY <1>1, <2>1, <2>2 DEF FilesInv, Effect
<1>5. TypeOK'
  <2>1. clock' \in 0 .. LastTick /\ upsets' \in 0 .. MaxUpsets /\ boot' \in 0 .. upsets'
    BY <1>1, <1>2, <1>3, Bounds DEF TypeOK, Effect
  <2>2. DOMAIN content' \subseteq Files /\ \A f \in DOMAIN content' : content'[f] \in Seq(Pieces)
    <3>1. /\ content' \in Seq(Seq(Pieces)) /\ Len(content') <= 1 + upsets'
          /\ upsets' <= MaxUpsets /\ upsets' \in Int
      BY <1>1, <1>4, <2>1 DEF Effect, FilesInv
    <3> QED
      BY <3>1, Bounds DEF Files
  <2>3. {named', fh', inode', statted'} \subseteq DOMAIN content' \cup {None}
    <3>1. named' \in DOMAIN content' \cup {None}
      BY <1>1, <1>4 DEF FilesInv, Effect, None
    <3> QED
      BY <1>1, <1>2, <1>3, <3>1 DEF TypeOK, Effect
  <2>4. seen' \in [Classified -> Never .. clock']
    <3>1. Never .. clock \subseteq Never .. clock'
      BY <1>1, <1>3 DEF TypeOK, Effect, Never
    <3> QED
      BY <1>2, <1>3, <3>1 DEF TypeOK
  <2>5. taken' \subseteq DOMAIN lines'
    BY <1>1, <1>2, <1>3 DEF TypeOK, Effect
  <2>6. /\ position' \in Nat /\ opened' \in Nat /\ buffer' \in Seq(Pieces)
        /\ initialized' \in BOOLEAN /\ pc' \in {"stat", "open", "drain"}
        /\ (pc' = "drain" => fh' # None /\ initialized')
        /\ tried' \in Seq([unit : Pieces, at : Nat, boot : Nat, opening : Nat])
    BY <1>2, <1>3 DEF TypeOK
  <2>7. lines' \in Seq(Texts) /\ Len(lines') <= MaxLines /\ torn' \in BOOLEAN
    BY <1>1 DEF Effect
  <2> QED
    BY <2>1, <2>2, <2>3, <2>4, <2>5, <2>6, <2>7 DEF TypeOK
<1>6. LoopInv'
  BY <1>2, <1>3 DEF LoopInv
<1>7. FreshInv'
  <2>1. \A q \in Pieces : Fresh(q) => FreshNext(q)
    BY <1>1 DEF Effect
  <2>2. ASSUME NEW f \in DOMAIN content', NEW i \in DOMAIN content'[f]
        PROVE  FreshNext(content'[f][i])
    <3>1. CASE f \in DOMAIN content /\ content'[f] = content[f]
      <4>1. content[f][i] \in Pieces /\ Fresh(content[f][i])
        BY <1>3, <2>2, <3>1 DEF FreshInv, FilesInv
      <4> QED
        BY <2>1, <3>1, <4>1
    <3>2. CASE content'[f] = <<>>
      BY <2>2, <3>2
    <3>3. CASE Grew(f)
      <4>1. content'[f] \in Seq(Pieces) /\ content[f] \in Seq(Pieces)
        BY <1>1, <1>3, <2>2, <3>3 DEF Effect, FilesInv, Grew
      <4>2. i \in DOMAIN content[f] \/ i = Len(content'[f])
        BY <2>2, <3>3, <4>1 DEF Grew
      <4>3. CASE i \in DOMAIN content[f]
        <5>1. content[f][i] \in Pieces /\ Fresh(content[f][i])
          BY <1>3, <3>3, <4>1, <4>3 DEF FreshInv, Grew
        <5> QED
          BY <2>1, <3>3, <4>3, <5>1 DEF Grew
      <4> QED
        BY <3>3, <4>2, <4>3 DEF Grew
    <3> QED
      BY <1>1, <2>2, <3>1, <3>2, <3>3 DEF Effect
  <2>3. \A i \in DOMAIN buffer : FreshNext(buffer[i])
    <3>1. \A i \in DOMAIN buffer : buffer[i] \in Pieces /\ Fresh(buffer[i])
      BY <1>3 DEF TypeOK, FreshInv
    <3> QED
      BY <2>1, <3>1
  <2>4. \A k \in Indexes : FreshNext(tried[k].unit)
    <3>1. \A k \in Indexes : tried[k].unit \in Pieces /\ Fresh(tried[k].unit)
      BY <1>3, TriesAre DEF FreshInv
    <3> QED
      BY <2>1, <3>1
  <2> QED
    BY <1>2, <2>2, <2>3, <2>4 DEF FreshInv, Fresh, FreshNext, Indexes
<1> QED
  BY <1>4, <1>5, <1>6, <1>7 DEF TailInv

-----------------------------------------------------------------------------
(* A turn of the drain loop.                                                *)

\* Two sequences in order, the first before the end of the second: so is the first
\* with that end.
LEMMA JoinedInOrder ==
  ASSUME NEW b \in Nat, NEW n \in Nat, NEW pos \in Nat, NEW len \in Nat,
         NEW buf, NEW file, NEW ahead, b <= n,
         \A i \in 1 .. b : ahead[i] = buf[i],
         \A i \in b + 1 .. n : pos + i \in 1 .. len /\ ahead[i] = file[pos + i],
         \A i, j \in 1 .. b : i < j => Before(buf[i], buf[j]),
         \A i, j \in 1 .. len : i < j => Before(file[i], file[j]),
         \A i \in 1 .. b : \A j \in 1 .. len : j > pos + b => Before(buf[i], file[j])
  PROVE  /\ \A i, j \in 1 .. n : i < j => Before(ahead[i], ahead[j])
         /\ \A i \in 1 .. n : \A j \in 1 .. len : j > pos + n => Before(ahead[i], file[j])
<1>1. ASSUME NEW i \in 1 .. n, NEW j \in 1 .. n, i < j
      PROVE  Before(ahead[i], ahead[j])
  <2>1. CASE j <= b
    <3>1. i \in 1 .. b /\ j \in 1 .. b
      BY <1>1, <2>1
    <3> QED
      BY <1>1, <3>1
  <2>2. CASE i <= b /\ b < j
    <3>1. i \in 1 .. b /\ j \in b + 1 .. n /\ pos + j > pos + b
      BY <1>1, <2>2
    <3> QED
      BY <1>1, <3>1
  <2>3. CASE b < i
    <3>1. i \in b + 1 .. n /\ j \in b + 1 .. n /\ pos + i < pos + j
      BY <1>1, <2>3
    <3> QED
      BY <1>1, <3>1
  <2> QED
    BY <1>1, <2>1, <2>2, <2>3
<1>2. ASSUME NEW i \in 1 .. n, NEW j \in 1 .. len, j > pos + n
      PROVE  Before(ahead[i], file[j])
  <2>1. CASE i <= b
    <3>1. i \in 1 .. b /\ j > pos + b
      BY <1>2, <2>1
    <3> QED
      BY <1>2, <3>1
  <2>2. CASE b < i
    <3>1. i \in b + 1 .. n /\ pos + i < j
      BY <1>2, <2>2
    <3> QED
      BY <1>2, <3>1
  <2> QED
    BY <1>2, <2>1, <2>2
<1> QED
  BY <1>1, <1>2

\* Filled is in order, behind the tries of this opening and before the rest of
\* the file.
LEMMA FilledInOrder ==
  ASSUME TailInv, OrderInv, pc = "drain"
  PROVE  /\ Filled \in Seq(Pieces) /\ Len(Filled) \in Nat /\ Sorted(Filled)
         /\ \A i \in DOMAIN Filled :
               /\ Fresh(Filled[i])
               /\ \A j \in DOMAIN content[fh] :
                     j > position + Len(Filled) => Before(Filled[i], content[fh][j])
               /\ \A k \in Indexes :
                     tried[k].opening = opened => Before(tried[k].unit, Filled[i])
<1>1. TypeOK /\ FilesInv /\ FreshInv
  BY DEF TailInv
<1>2. /\ buffer \in Seq(Pieces) /\ position \in Nat
      /\ fh # None /\ fh \in DOMAIN content /\ content[fh] \in Seq(Pieces)
  BY <1>1 DEF TypeOK, None
<1>3. PICK file : file = content[fh]
  OBVIOUS
<1>4. PICK b \in Nat, n \in Nat, len \in Nat : b = Len(buffer) /\ n = Len(Filled) /\ len = Len(file)
  BY <1>1, <1>2, <1>3, FilledIs
<1>5. DOMAIN buffer = 1 .. b /\ DOMAIN Filled = 1 .. n /\ DOMAIN file = 1 .. len
  BY <1>1, <1>2, <1>3, <1>4, FilledIs
<1>6. /\ b <= n /\ \A i \in 1 .. b : Filled[i] = buffer[i]
      /\ \A i \in b + 1 .. n : position + i \in 1 .. len /\ Filled[i] = file[position + i]
  BY <1>1, <1>2, <1>3, <1>4, <1>5, FilledIs
<1>7. \A j \in 1 .. len : j > position + b => Unread(j)
  BY <1>3, <1>4, <1>5 DEF Unread
<1>8. /\ \A i, j \in 1 .. b : i < j => Before(buffer[i], buffer[j])
      /\ \A i, j \in 1 .. len : i < j => Before(file[i], file[j])
      /\ \A i \in 1 .. b : \A j \in 1 .. len : j > position + b => Before(buffer[i], file[j])
      /\ \A k \in Indexes : tried[k].opening = opened =>
            /\ \A i \in 1 .. b : Before(tried[k].unit, buffer[i])
            /\ \A j \in 1 .. len : j > position + b => Before(tried[k].unit, file[j])
  BY <1>2, <1>3, <1>5, <1>7 DEF OrderInv, Sorted
<1>9. /\ \A i \in 1 .. b : Fresh(buffer[i])
      /\ \A j \in 1 .. len : Fresh(file[j])
  BY <1>1, <1>2, <1>3, <1>5 DEF FreshInv
<1>10. /\ \A i, j \in 1 .. n : i < j => Before(Filled[i], Filled[j])
       /\ \A i \in 1 .. n : \A j \in 1 .. len : j > position + n => Before(Filled[i], file[j])
  BY <1>2, <1>6, <1>8, JoinedInOrder
<1>11. ASSUME NEW i \in 1 .. n
       PROVE  /\ Fresh(Filled[i])
              /\ \A k \in Indexes : tried[k].opening = opened => Before(tried[k].unit, Filled[i])
  <2>1. CASE i <= b
    <3>1. i \in 1 .. b /\ Filled[i] = buffer[i]
      BY <1>6, <2>1
    <3> QED
      BY <1>8, <1>9, <3>1
  <2>2. CASE b < i
    <3>1. i \in b + 1 .. n /\ position + i > position + b
      BY <1>2, <2>2
    <3>2. position + i \in 1 .. len /\ Filled[i] = file[position + i]
      BY <1>6, <3>1
    <3> QED
      BY <1>8, <1>9, <3>1, <3>2
  <2> QED
    BY <2>1, <2>2
<1>12. Filled \in Seq(Pieces)
  BY <1>1, FilledIs
<1> QED
  BY <1>3, <1>4, <1>5, <1>10, <1>11, <1>12 DEF Sorted

LEMMA ReadIs ==
  ASSUME TailInv, OrderInv, ReadLine, Filled # <<>>
  PROVE  \E n \in 1 .. Len(Filled), u \in Pieces :
            /\ position' = position + n
            /\ buffer' \in Seq(Pieces) /\ Len(buffer') = Len(Filled) - n
            /\ \A i \in 1 .. Len(buffer') : buffer'[i] = Filled[n + i]
            /\ Handle(u) /\ Fresh(u)
            /\ taken' = IF u.part = "whole" THEN taken \cup {u.line} ELSE taken
            /\ \A q \in Pieces : (\A i \in 1 .. n : Before(q, Filled[i])) => Before(q, u)
            /\ \A q \in Pieces : (\A i \in 1 .. n : Before(Filled[i], q)) => Before(u, q)
<1>1. /\ Filled \in Seq(Pieces) /\ Len(Filled) \in Nat /\ Sorted(Filled)
      /\ \A i \in 1 .. Len(Filled) : Fresh(Filled[i]) /\ Filled[i] \in Pieces
  BY FilledInOrder DEF ReadLine
<1>2. PICK n \in UnitEnd(Filled) :
        /\ position' = position + n
        /\ buffer' = SubSeq(Filled, n + 1, Len(Filled))
        /\ \E u \in Units(SubSeq(Filled, 1, n)) :
              /\ Handle(u)
              /\ taken' = IF u.part = "whole" THEN taken \cup {u.line} ELSE taken
  BY DEF ReadLine
<1>3. PICK u \in Units(SubSeq(Filled, 1, n)) :
        /\ Handle(u)
        /\ taken' = IF u.part = "whole" THEN taken \cup {u.line} ELSE taken
  BY <1>2
<1>4. /\ n \in 1 .. Len(Filled) /\ u \in Pieces
      /\ \/ \E i \in 1 .. n : u = Filled[i]
         \/ /\ n = 2 /\ u = Piece(Filled[1].line, "whole") /\ Filled[1].line = Filled[2].line
            /\ Filled[1].part = "head" /\ Filled[2].part = "tail"
  <2> HIDE DEF Filled
  <2> QED
    BY <1>1, UnitIs
<1>5. /\ buffer' \in Seq(Pieces) /\ Len(buffer') = Len(Filled) - n
      /\ \A i \in 1 .. Len(buffer') : buffer'[i] = Filled[n + i]
  BY <1>1, <1>2, <1>4
<1>6. ASSUME n = 2, u = Piece(Filled[1].line, "whole"), Filled[1].line = Filled[2].line,
             Filled[1].part = "head", Filled[2].part = "tail"
      PROVE  /\ Fresh(u)
             /\ \A q \in Pieces : Before(q, Filled[1]) => Before(q, u)
             /\ \A q \in Pieces : Before(Filled[2], q) => Before(u, q)
  <2>1. u.line = Filled[1].line /\ u.line = Filled[2].line /\ Fresh(Filled[2])
    BY <1>1, <1>4, <1>6 DEF Piece
  <2>2. u.line \in Int /\ \A q \in Pieces : q.line \in Int
    BY <1>4, Bounds DEF Pieces
  <2> QED
    BY <1>6, <2>1, <2>2 DEF Before, Fresh
<1>7. /\ Fresh(u)
      /\ \A q \in Pieces : (\A i \in 1 .. n : Before(q, Filled[i])) => Before(q, u)
      /\ \A q \in Pieces : (\A i \in 1 .. n : Before(Filled[i], q)) => Before(u, q)
  BY <1>1, <1>4, <1>6
<1> QED
  BY <1>2, <1>3, <1>4, <1>5, <1>7

\* A line is tried, behind all that were, or nothing is.
TriedNow(u) == [unit |-> u, at |-> clock, boot |-> boot, opening |-> opened]
Tried(u) ==
    /\ Key(u) \in Classified /\ LetThrough(Key(u))
    /\ seen' = [Pruned EXCEPT ![Key(u)] = clock]
    /\ Len(tried') = Len(tried) + 1 /\ DOMAIN tried' = 1 .. Len(tried) + 1
    /\ \A k \in Indexes : tried'[k] = tried[k]
    /\ tried'[Len(tried) + 1] = TriedNow(u)

LEMMA PrunedType ==
  ASSUME TypeOK
  PROVE  /\ Pruned \in [Classified -> Never .. clock]
         /\ \A k \in Classified : Pruned[k] = IF clock - seen[k] >= Window THEN Never ELSE seen[k]
BY DEF TypeOK, Pruned, Never

LEMMA HandleIs ==
  ASSUME TypeOK, NEW u \in Pieces, Handle(u)
  PROVE  /\ seen' \in [Classified -> Never .. clock]
         /\ tried' \in Seq([unit : Pieces, at : Nat, boot : Nat, opening : Nat])
         /\ \/ tried' = tried /\ Key(u) \notin Classified /\ seen' = seen
            \/ tried' = tried /\ Key(u) \in Classified /\ ~LetThrough(Key(u)) /\ seen' = Pruned
            \/ Tried(u)
<1> DEFINE Try == [unit : Pieces, at : Nat, boot : Nat, opening : Nat]
<1>1. /\ tried \in Seq(Try) /\ clock \in Nat /\ boot \in Nat /\ opened \in Nat
      /\ seen \in [Classified -> Never .. clock]
  BY DEF TypeOK
<1>2. TriedNow(u) \in Try
  BY <1>1 DEF TriedNow
<1>3. Pruned \in [Classified -> Never .. clock] /\ clock \in Never .. clock
  BY <1>1, PrunedType DEF Never
<1> HIDE DEF Try
<1>4. CASE tried' = tried /\ Key(u) \notin Classified /\ seen' = seen
  BY <1>1, <1>4 DEF Try
<1>5. CASE tried' = tried /\ Key(u) \in Classified /\ ~LetThrough(Key(u)) /\ seen' = Pruned
  BY <1>1, <1>3, <1>5 DEF Try
<1>6. CASE /\ Key(u) \in Classified /\ LetThrough(Key(u))
           /\ seen' = [Pruned EXCEPT ![Key(u)] = clock] /\ tried' = Append(tried, TriedNow(u))
  <2>1. /\ tried' \in Seq(Try) /\ Len(tried') = Len(tried) + 1 /\ DOMAIN tried' = 1 .. Len(tried) + 1
        /\ \A k \in 1 .. Len(tried) : tried'[k] = tried[k]
        /\ tried'[Len(tried) + 1] = TriedNow(u)
    BY <1>1, <1>2, <1>6
  <2>2. seen' \in [Classified -> Never .. clock]
    BY <1>3, <1>6
  <2>3. Indexes = 1 .. Len(tried)
    BY <1>1 DEF Indexes
  <2>4. Tried(u)
    BY <1>6, <2>1, <2>3 DEF Tried
  <2> QED
    BY <2>1, <2>2, <2>4 DEF Try
<1> QED
  BY <1>4, <1>5, <1>6 DEF Handle, TriedNow

LEMMA ReadTail ==
  ASSUME TailInv, OrderInv, ReadLine
  PROVE  TailInv'
<1>1. TypeOK /\ FilesInv /\ LoopInv /\ FreshInv /\ pc = "drain"
  BY DEF TailInv, ReadLine
<1>2. /\ clock' = clock /\ content' = content /\ named' = named /\ lines' = lines /\ torn' = torn
      /\ upsets' = upsets /\ statted' = statted /\ boot' = boot /\ opened' = opened
      /\ fh' = fh /\ inode' = inode /\ initialized' = initialized
  BY DEF ReadLine, world, state
<1>3. CASE Filled = <<>>
  <2>1. pc' = "stat" /\ position' = position /\ buffer' = buffer
        /\ seen' = seen /\ tried' = tried /\ taken' = taken
    BY <1>3 DEF ReadLine, state
  <2> QED
    BY <1>1, <1>2, <2>1 DEF TailInv, TypeOK, FilesInv, LoopInv, FreshInv, Fresh, Indexes
<1>4. CASE Filled # <<>>
  <2>1. pc' = "drain"
    BY <1>1, <1>4 DEF ReadLine
  <2>2. PICK n \in 1 .. Len(Filled), u \in Pieces :
            /\ position' = position + n
            /\ buffer' \in Seq(Pieces) /\ Len(buffer') = Len(Filled) - n
            /\ \A i \in 1 .. Len(buffer') : buffer'[i] = Filled[n + i]
            /\ Handle(u) /\ Fresh(u)
            /\ taken' = IF u.part = "whole" THEN taken \cup {u.line} ELSE taken
    BY <1>4, ReadIs
  <2>3. /\ seen' \in [Classified -> Never .. clock]
        /\ tried' \in Seq([unit : Pieces, at : Nat, boot : Nat, opening : Nat])
        /\ tried' = tried \/ Tried(u)
    BY <1>1, <2>2, HandleIs
  <2>4. taken' \subseteq DOMAIN lines
    <3>1. u.line \in 1 .. Len(lines) /\ taken \subseteq DOMAIN lines /\ lines \in Seq(Texts)
      BY <1>1, <2>2 DEF Fresh, TypeOK
    <3> QED
      BY <2>2, <3>1
  <2>5. position' \in Nat
    BY <1>1, <2>2 DEF TypeOK
  <2>6. TypeOK'
    <3>1. /\ clock' \in 0 .. LastTick /\ upsets' \in 0 .. MaxUpsets /\ boot' \in 0 .. upsets'
          /\ lines' \in Seq(Texts) /\ Len(lines') <= MaxLines /\ torn' \in BOOLEAN
          /\ DOMAIN content' \subseteq Files /\ \A f \in DOMAIN content' : content'[f] \in Seq(Pieces)
          /\ {named', fh', inode', statted'} \subseteq DOMAIN content' \cup {None}
          /\ opened' \in Nat /\ initialized' \in BOOLEAN /\ fh' # None /\ initialized'
      BY <1>1, <1>2 DEF TypeOK
    <3> QED
      BY <1>2, <2>1, <2>2, <2>3, <2>4, <2>5, <3>1 DEF TypeOK
  <2>7. FilesInv'
    BY <1>1, <1>2 DEF FilesInv
  <2>8. LoopInv'
    <3>1. fh # None
      BY <1>1 DEF TypeOK
    <3> QED
      BY <1>1, <1>2, <2>1, <3>1 DEF LoopInv
  <2>9. FreshInv'
    <3>1. \A i \in DOMAIN buffer' : Fresh(buffer'[i])
      <4>1. /\ Len(Filled) \in Nat /\ DOMAIN Filled = 1 .. Len(Filled)
            /\ \A i \in DOMAIN Filled : Fresh(Filled[i])
        BY <1>1, FilledInOrder
      <4>2. \A i \in DOMAIN buffer' : n + i \in 1 .. Len(Filled)
        BY <2>2, <4>1
      <4> QED
        BY <2>2, <4>1, <4>2
    <3>2. \A k \in DOMAIN tried' : Fresh(tried'[k].unit)
      <4>1. CASE tried' = tried
        BY <1>1, <4>1 DEF FreshInv, Indexes
      <4>2. CASE Tried(u)
        <5>1. Indexes = 1 .. Len(tried) /\ Len(tried) \in Nat
          BY <1>1, TriesAre
        <5>2. \A k \in DOMAIN tried' : k \in Indexes \/ k = Len(tried) + 1
          BY <4>2, <5>1 DEF Tried
        <5> QED
          BY <1>1, <2>2, <4>2, <5>2 DEF Tried, TriedNow, FreshInv
      <4> QED
        BY <2>3, <4>1, <4>2
    <3>3. \A f \in DOMAIN content : \A i \in DOMAIN content[f] : Fresh(content[f][i])
      BY <1>1 DEF FreshInv
    <3> QED
      BY <1>2, <3>1, <3>2, <3>3 DEF FreshInv, Fresh, Indexes
  <2> QED
    BY <2>6, <2>7, <2>8, <2>9 DEF TailInv
<1> QED
  BY <1>3, <1>4

LEMMA LoopTail ==
  ASSUME TailInv, Stat \/ Open \/ ReadError \/ Restart
  PROVE  TailInv'
<1>1. TypeOK /\ FilesInv /\ LoopInv /\ FreshInv
  BY DEF TailInv
<1>2. /\ clock' = clock /\ content' = content /\ named' = named /\ lines' = lines /\ torn' = torn
      /\ tried' = tried /\ taken' = taken /\ upsets' \in upsets .. MaxUpsets
      /\ opened' \in {opened, opened + 1}
  BY <1>1, Bounds DEF Stat, Open, ReadError, Restart, Upset, TypeOK, world, history
<1>3. FilesInv'
  BY <1>1, <1>2 DEF FilesInv, TypeOK
<1>4. /\ seen' \in [Classified -> Never .. clock] /\ boot' \in 0 .. upsets' /\ opened' \in Nat
  <2>1. CASE Stat
    BY <1>1, <2>1 DEF Stat, TypeOK, history
  <2>2. CASE Open
    BY <1>1, <2>2 DEF Open, TypeOK
  <2>3. CASE ReadError
    BY <1>1, <2>3 DEF ReadError, Upset, TypeOK, history
  <2>4. CASE Restart
    BY <1>1, <2>4 DEF Restart, Upset, TypeOK, Never
  <2> QED
    BY <2>1, <2>2, <2>3, <2>4
<1>5. /\ pc' \in {"stat", "open", "drain"} /\ {named', fh', inode', statted'} \subseteq DOMAIN content \cup {None}
      /\ position' \in Nat /\ buffer' \in Seq(Pieces) /\ initialized' \in BOOLEAN
      /\ (pc' = "drain" => fh' # None /\ initialized')
      /\ (buffer' = buffer \/ buffer' = <<>>) /\ LoopInv'
  <2>1. CASE Stat
    <3>1. CASE named = None /\ Closed /\ UNCHANGED <<pc, statted>>
      BY <1>1, <1>2, <2>1, <3>1 DEF Stat, Closed, TypeOK, LoopInv, history
    <3>2. CASE named # None /\ pc' = "open" /\ statted' = named /\ Closed
      BY <1>1, <1>2, <2>1, <3>2 DEF Stat, Closed, TypeOK, LoopInv, history
    <3>3. CASE /\ named # None /\ ~NeedsOpen(Len(content[named]))
               /\ pc' = "drain" /\ UNCHANGED <<statted, state>>
      <4>1. fh # None /\ initialized
        BY <3>3 DEF NeedsOpen
      <4> QED
        BY <1>1, <1>2, <2>1, <3>3, <4>1 DEF Stat, TypeOK, LoopInv, state, history
    <3> QED
      BY <2>1, <3>1, <3>2, <3>3 DEF Stat
  <2>2. CASE Open
    <3>1. CASE named = None /\ pc' = "stat" /\ Closed /\ UNCHANGED opened
      BY <1>1, <1>2, <2>2, <3>1 DEF Open, Closed, TypeOK, LoopInv
    <3>2. CASE /\ named # None /\ pc' = "drain" /\ fh' = named /\ inode' = statted
               /\ position' = Start(named) /\ buffer' = <<>> /\ initialized' = TRUE
               /\ opened' = opened + 1
      <4>1. named \in DOMAIN content /\ content[named] \in Seq(Pieces) /\ named = Len(content)
        BY <1>1, <3>2 DEF FilesInv, None
      <4>2. Start(named) \in Nat
        BY <4>1 DEF Start
      <4>3. statted \in DOMAIN content /\ content \in Seq(Seq(Pieces)) /\ statted' = None
        BY <1>1, <2>2 DEF TypeOK, LoopInv, FilesInv, Open
      <4>4. statted <= named /\ opened + 1 >= 1 /\ statted # None
        BY <1>1, <4>1, <4>3 DEF TypeOK, None
      <4>5. LoopInv'
        BY <3>2, <4>1, <4>4 DEF LoopInv
      <4> QED
        BY <1>2, <3>2, <4>1, <4>2, <4>3, <4>5
    <3> QED
      BY <2>2, <3>1, <3>2 DEF Open
  <2>3. CASE ReadError
    BY <1>1, <1>2, <2>3 DEF ReadError, Closed, TypeOK, LoopInv, history
  <2>4. CASE Restart
    <3>1. /\ pc' = "stat" /\ fh' = None /\ inode' = None /\ position' = 0 /\ buffer' = <<>>
          /\ initialized' = FALSE /\ statted' = None
      BY <2>4 DEF Restart
    <3>2. named' \in DOMAIN content \cup {None} /\ initialized' \in BOOLEAN
      BY <1>1, <1>2, <3>1 DEF TypeOK
    <3>3. LoopInv'
      BY <3>1 DEF LoopInv
    <3> QED
      BY <3>1, <3>2, <3>3
  <2> QED
    BY <2>1, <2>2, <2>3, <2>4
<1>6. FreshInv'
  <2>1. \A i \in DOMAIN buffer' : Fresh(buffer'[i])
    BY <1>1, <1>5 DEF FreshInv
  <2> QED
    BY <1>1, <1>2, <2>1 DEF FreshInv, Fresh, Indexes
<1>7. TypeOK'
  <2>1. upsets' \in 0 .. MaxUpsets
    BY <1>1, <1>2, Bounds DEF TypeOK
  <2>2. /\ clock' \in 0 .. LastTick /\ lines' \in Seq(Texts) /\ Len(lines') <= MaxLines
        /\ torn' \in BOOLEAN /\ DOMAIN content' \subseteq Files
        /\ \A f \in DOMAIN content' : content'[f] \in Seq(Pieces)
        /\ taken' \subseteq DOMAIN lines'
        /\ tried' \in Seq([unit : Pieces, at : Nat, boot : Nat, opening : Nat])
    BY <1>1, <1>2 DEF TypeOK
  <2>3. /\ seen' \in [Classified -> Never .. clock']
        /\ {named', fh', inode', statted'} \subseteq DOMAIN content' \cup {None}
    BY <1>2, <1>4, <1>5
  <2> QED
    BY <1>4, <1>5, <2>1, <2>2, <2>3 DEF TypeOK
<1> QED
  BY <1>3, <1>5, <1>6, <1>7 DEF TailInv

-----------------------------------------------------------------------------
(* Openings are paid for.                                                   *)

LEMMA PendingIs == Pending \in 0 .. 2 /\ (pc # "open" => Pending \in 0 .. 1)
BY DEF Pending

LEMMA OpenFacts ==
  ASSUME TailInv
  PROVE  /\ opened \in Nat /\ upsets \in Nat /\ position \in Nat /\ Len(buffer) \in Nat
         /\ content \in Seq(Seq(Pieces)) /\ Len(content) \in Nat
         /\ named \in {None, Len(content)}
         /\ named # None => content[named] \in Seq(Pieces) /\ Len(content[named]) \in Nat
         /\ fh # None => inode \in 1 .. Len(content) /\ fh \in 1 .. Len(content) /\ inode <= fh
         /\ pc = "open" => statted \in 1 .. Len(content)
<1>1. TypeOK /\ FilesInv /\ LoopInv
  BY DEF TailInv
<1>2. /\ content \in Seq(Seq(Pieces)) /\ Len(content) \in Nat /\ DOMAIN content = 1 .. Len(content)
      /\ named \in {None, Len(content)} /\ named \in DOMAIN content \cup {None}
  BY <1>1 DEF FilesInv, TypeOK
<1> QED
  BY <1>1, <1>2 DEF TypeOK, LoopInv

LEMMA OpenStep ==
  ASSUME TailInv, OrderInv, OpenInv, Next
  PROVE  OpenInv'
<1>1. /\ opened \in Nat /\ upsets \in Nat /\ position \in Nat /\ Len(buffer) \in Nat
      /\ content \in Seq(Seq(Pieces)) /\ Len(content) \in Nat
      /\ named \in {None, Len(content)} /\ None = 0
      /\ named # None => content[named] \in Seq(Pieces) /\ Len(content[named]) \in Nat
      /\ fh # None => inode \in 1 .. Len(content) /\ fh \in 1 .. Len(content) /\ inode <= fh
      /\ pc = "open" => statted \in 1 .. Len(content)
  BY OpenFacts DEF None
<1>0. PICK p \in 0 .. 2, q \in 0 .. 2 :
        /\ p = Pending /\ (pc # "open" => p <= 1) /\ opened + p <= 1 + upsets
        /\ q = Pending' /\ (pc' # "open" => q <= 1)
  <2>1. Pending' \in 0 .. 2 /\ (pc' # "open" => Pending' \in 0 .. 1)
    BY DEF Pending
  <2> QED
    BY <2>1, PendingIs DEF OpenInv
<1>a. opened \in Nat /\ upsets \in Nat /\ p \in Nat /\ q \in Nat /\ opened + p <= 1 + upsets
  BY <1>0, <1>1
<1> DEFINE Kept == opened' = opened /\ tried' = tried
<1>2. ASSUME Kept, \/ upsets' = upsets /\ q <= p
                   \/ upsets' = upsets + 1 /\ q <= p + 1
      PROVE  OpenInv'
  <2>1. opened' + q <= 1 + upsets'
    BY <1>0, <1>1, <1>2
  <2> QED
    BY <1>0, <1>2, <2>1 DEF OpenInv, Indexes
<1>3. CASE Tick
  <2>1. Kept /\ upsets' = upsets /\ q = p
    BY <1>0, <1>3 DEF Tick, Pending, Behind, state, world, history
  <2> QED
    BY <1>0, <1>1, <1>2, <2>1
<1>4. ASSUME \/ LogRest \/ \E t \in Texts : Log(t, "whole") \/ Log(t, "head")
      PROVE  OpenInv'
  <2>1. PICK piece : Added(piece) /\ named # None
    BY <1>4 DEF Log, LogRest
  <2>2. Len(content'[named]) = Len(content[named]) + 1
    BY <1>0, <1>1, <2>1 DEF Added
  <2>3. Kept /\ upsets' = upsets /\ UNCHANGED <<named, pc, statted, state>>
    BY <1>4 DEF Log, LogRest, history
  <2>4. Behind => Behind'
    BY <1>0, <1>1, <2>2, <2>3 DEF Behind, state
  <2>5. q <= p
    BY <1>0, <2>3, <2>4 DEF Pending, state
  <2> QED
    BY <1>0, <1>1, <1>2, <2>3, <2>5
<1>5. CASE MoveAway
  <2>1. Kept /\ upsets' = upsets + 1 /\ pc' = pc
    BY <1>5 DEF MoveAway, Upset, history
  <2>2. q <= p + 1
    BY <1>0, <1>1, <2>1 DEF Pending
  <2> QED
    BY <1>0, <1>1, <1>2, <2>1, <2>2
<1>6. CASE Create
  <2>1. /\ Kept /\ upsets' = upsets /\ named = None /\ named' = Len(content) + 1
        /\ UNCHANGED <<pc, statted, state>>
    BY <1>0, <1>1, <1>6 DEF Create, history
  <2>2. p >= 1 /\ (pc = "open" => p = 2)
    BY <1>0, <1>1, <2>1 DEF Pending, Behind
  <2>3. q <= p
    BY <1>0, <1>1, <2>1, <2>2
  <2> QED
    BY <1>0, <1>1, <1>2, <2>1, <2>3
<1>7. CASE Truncate
  <2>1. Kept /\ upsets' = upsets + 1 /\ pc' = pc
    BY <1>7 DEF Truncate, Upset, history
  <2>2. q <= p + 1
    BY <1>0, <1>1, <1>7, <2>1 DEF Pending, Truncate
  <2> QED
    BY <1>0, <1>1, <1>2, <2>1, <2>2
<1>8. CASE Stat
  <2>1. Kept /\ upsets' = upsets /\ pc = "stat" /\ named' = named /\ content' = content
    BY <1>8 DEF Stat, world, history
  <2>2. CASE named = None /\ Closed /\ UNCHANGED <<pc, statted>>
    <3>1. p = 1 /\ q <= 1
      BY <1>0, <1>1, <2>1, <2>2 DEF Pending, Behind
    <3> QED
      BY <1>0, <1>2, <2>1, <3>1
  <2>3. CASE named # None /\ NeedsOpen(Len(content[named])) /\ pc' = "open" /\ statted' = named
    <3>1. ~Behind
      BY <1>0, <1>1, <2>3 DEF NeedsOpen, IsTruncated, Behind, TailInv, LoopInv
    <3>2. p = 1 /\ q = 1
      BY <1>0, <2>1, <2>3, <3>1 DEF Pending
    <3> QED
      BY <1>0, <1>2, <2>1, <3>2
  <2>4. CASE pc' = "drain" /\ UNCHANGED <<statted, state>>
    <3>1. q = p
      BY <1>0, <2>1, <2>4 DEF Pending, Behind, state
    <3> QED
      BY <1>0, <1>1, <1>2, <2>1, <3>1
  <2> QED
    BY <1>8, <2>2, <2>3, <2>4 DEF Stat
<1>9. CASE Open
  <2>1. /\ pc = "open" /\ tried' = tried /\ upsets' = upsets /\ named' = named /\ content' = content
    BY <1>9 DEF Open, world
  <2>2. CASE named = None /\ pc' = "stat" /\ UNCHANGED opened
    <3>1. p = 2
      BY <1>0, <1>1, <2>1, <2>2 DEF Pending
    <3> QED
      BY <1>0, <1>1, <1>2, <2>1, <2>2, <3>1
  <2>3. CASE /\ named # None /\ pc' = "drain" /\ fh' = named /\ inode' = statted
             /\ position' = Start(named) /\ buffer' = <<>> /\ opened' = opened + 1
    <3>1. Start(named) \in Nat /\ Start(named) <= Len(content[named])
      BY <1>0, <1>1, <2>3 DEF Start
    <3>2. ASSUME statted = named PROVE p = 1 /\ q = 0
      <4>1. Behind'
        BY <1>0, <1>1, <2>1, <2>3, <3>1, <3>2 DEF Behind
      <4> QED
        BY <1>0, <2>1, <2>3, <3>2, <4>1 DEF Pending
    <3>3. ASSUME statted # named PROVE p = 2 /\ q <= 1
      BY <1>0, <1>1, <2>1, <2>3, <3>3 DEF Pending
    <3>4. opened' + q <= 1 + upsets'
      <4>1. opened' = opened + 1 /\ upsets' = upsets
        BY <2>1, <2>3
      <4>2. q <= p - 1
        BY <1>0, <3>2, <3>3
      <4>3. (opened + 1) + q <= 1 + upsets
        BY <1>a, <4>2
      <4> QED
        BY <4>1, <4>3
    <3>5. \A k \in Indexes : tried[k].opening \in 1 .. opened'
      BY <1>0, <1>1, <2>3 DEF OpenInv
    <3> QED
      BY <1>0, <2>1, <3>4, <3>5 DEF OpenInv, Indexes
  <2> QED
    BY <1>9, <2>2, <2>3 DEF Open
<1>10. CASE ReadLine
  <2>1. /\ TypeOK /\ FilesInv /\ pc = "drain" /\ opened' = opened /\ upsets' = upsets
        /\ named' = named /\ content' = content /\ fh' = fh /\ inode' = inode
    BY <1>0, <1>10 DEF ReadLine, TailInv, world, state
  <2>2. CASE Filled = <<>>
    <3>1. Kept /\ pc' = "stat" /\ UNCHANGED state
      BY <1>0, <1>10, <2>1, <2>2 DEF ReadLine
    <3>2. q = p
      BY <1>0, <2>1, <3>1 DEF Pending, Behind, state
    <3> QED
      BY <1>0, <1>1, <1>2, <2>1, <3>1, <3>2
  <2>3. CASE Filled # <<>>
    <3>1. PICK n \in 1 .. Len(Filled), u \in Pieces :
             /\ position' = position + n /\ Len(buffer') = Len(Filled) - n /\ Handle(u)
      BY <1>0, <1>10, <2>3, ReadIs
    <3>2. /\ Len(Filled) \in Nat
          /\ Len(Filled) = Len(buffer) \/ position + Len(Filled) = Len(content[fh])
      BY <1>0, <2>1, FilledIs
    <3>3. pc' = "drain" /\ position' + Len(buffer') = position + Len(Filled)
      BY <1>0, <1>1, <1>10, <2>1, <2>3, <3>1, <3>2 DEF ReadLine
    <3>4. ASSUME Behind PROVE Behind'
      <4>1. fh = named
        BY <1>0, <1>1, <3>4 DEF Behind
      <4> QED
        BY <1>0, <1>1, <2>1, <3>2, <3>3, <3>4, <4>1 DEF Behind
    <3>5. q <= p
      BY <1>0, <2>1, <3>3, <3>4 DEF Pending
    <3>6. opened' + q <= 1 + upsets'
      <4>1. opened + q <= 1 + upsets
        BY <1>a, <3>5
      <4> QED
        BY <2>1, <4>1
    <3>7. \A k \in DOMAIN tried' : tried'[k].opening \in 1 .. opened
      <4>1. CASE tried' = tried
        BY <4>1 DEF OpenInv, Indexes
      <4>2. CASE Tried(u)
        <5>1. Indexes = 1 .. Len(tried) /\ Len(tried) \in Nat
          BY <1>0, <2>1, TriesAre
        <5>2. \A k \in DOMAIN tried' : k \in Indexes \/ k = Len(tried) + 1
          BY <4>2, <5>1 DEF Tried
        <5>3. opened \in 1 .. opened
          BY <1>0, <1>1, <2>1 DEF TypeOK, TailInv, LoopInv
        <5> QED
          BY <4>2, <5>2, <5>3 DEF Tried, TriedNow, OpenInv
      <4> QED
        BY <1>0, <2>1, <3>1, <4>1, <4>2, HandleIs
    <3> QED
      BY <1>0, <2>1, <3>6, <3>7 DEF OpenInv, Indexes
  <2> QED
    BY <1>0, <2>2, <2>3
<1>11. CASE ReadError
  <2>1. Kept /\ upsets' = upsets + 1 /\ pc' = "stat"
    BY <1>0, <1>11 DEF ReadError, Upset, history
  <2> QED
    BY <1>0, <1>1, <1>2, <2>1
<1>12. CASE Restart
  <2>1. Kept /\ upsets' = upsets + 1 /\ pc' = "stat"
    BY <1>0, <1>12 DEF Restart, Upset
  <2> QED
    BY <1>0, <1>1, <1>2, <2>1
<1> QED
  BY <1>3, <1>4, <1>5, <1>6, <1>7, <1>8, <1>9, <1>10, <1>11, <1>12 DEF Next, World, Forwarder

-----------------------------------------------------------------------------
(* What was read, what is read ahead and what is to be read are in order.   *)

LEMMA OrderWorld ==
  ASSUME TailInv, OrderInv, World
  PROVE  OrderInv'
<1>1. Effect /\ TypeOK /\ FilesInv /\ FreshInv
  BY WorldEffect DEF TailInv
<1>2. /\ fh' = fh /\ position' = position /\ buffer' = buffer /\ opened' = opened /\ tried' = tried
  BY WorldFrame DEF state, history
<1>3. ASSUME NEW f \in DOMAIN content', Grew(f)
      PROVE  /\ f \in DOMAIN content
             /\ DOMAIN content'[f] = 1 .. Len(content[f]) + 1 /\ Len(content[f]) \in Nat
             /\ \A i \in 1 .. Len(content[f]) :
                   /\ content'[f][i] = content[f][i] /\ i \in DOMAIN content[f]
                   /\ content[f][i] \in Pieces /\ Fresh(content[f][i])
             /\ \A q \in Pieces : Fresh(q) => Before(q, content'[f][Len(content[f]) + 1])
  <2>1. f \in DOMAIN content /\ content[f] \in Seq(Pieces) /\ content'[f] \in Seq(Pieces)
    BY <1>1, <1>3 DEF Effect, FilesInv, Grew
  <2>2. Len(content'[f]) = Len(content[f]) + 1 /\ DOMAIN content'[f] = 1 .. Len(content[f]) + 1
    BY <1>3, <2>1 DEF Grew
  <2>3. \A i \in DOMAIN content[f] : content[f][i] \in Pieces /\ Fresh(content[f][i])
    BY <1>1, <2>1 DEF FreshInv
  <2> QED
    BY <1>3, <2>1, <2>2, <2>3 DEF Grew
<1>4. ASSUME NEW f \in DOMAIN content'
      PROVE  Sorted(content'[f])
  <2>1. CASE f \in DOMAIN content /\ content'[f] = content[f]
    BY <2>1 DEF OrderInv
  <2>2. CASE content'[f] = <<>>
    BY <2>2 DEF Sorted
  <2>3. CASE Grew(f)
    <3> SUFFICES ASSUME NEW i \in DOMAIN content'[f], NEW j \in DOMAIN content'[f], i < j
                 PROVE  Before(content'[f][i], content'[f][j])
      BY DEF Sorted
    <3>1. i \in 1 .. Len(content[f])
      BY <1>3, <2>3
    <3>2. CASE j \in 1 .. Len(content[f])
      BY <1>3, <2>3, <3>1, <3>2 DEF OrderInv, Sorted
    <3>3. CASE j = Len(content[f]) + 1
      BY <1>3, <2>3, <3>1, <3>3
    <3> QED
      BY <1>3, <2>3, <3>2, <3>3
  <2> QED
    BY <1>1, <2>1, <2>2, <2>3 DEF Effect
<1>5. \A i \in DOMAIN buffer : buffer[i] \in Pieces /\ Fresh(buffer[i])
  BY <1>1 DEF TypeOK, FreshInv
<1>6. \A k \in Indexes : tried[k].unit \in Pieces /\ Fresh(tried[k].unit)
  BY <1>1, TriesAre DEF FreshInv
<1>7. ASSUME fh # None, NEW j \in DOMAIN content'[fh], j > position + Len(buffer)
      PROVE  /\ \A i \in DOMAIN buffer : Before(buffer[i], content'[fh][j])
             /\ \A k \in Indexes :
                   tried[k].opening = opened => Before(tried[k].unit, content'[fh][j])
  <2>1. fh \in DOMAIN content /\ fh \in DOMAIN content'
    BY <1>1, <1>7 DEF TypeOK, Effect
  <2>2. ASSUME j \in DOMAIN content[fh], content'[fh][j] = content[fh][j]
        PROVE  /\ \A i \in DOMAIN buffer : Before(buffer[i], content'[fh][j])
               /\ \A k \in Indexes :
                     tried[k].opening = opened => Before(tried[k].unit, content'[fh][j])
    <3>1. Unread(j)
      BY <1>7, <2>2 DEF Unread
    <3> QED
      BY <1>7, <2>2, <3>1 DEF OrderInv
  <2>3. CASE content'[fh] = <<>>
    BY <1>7, <2>3
  <2>4. CASE Grew(fh)
    <3>1. CASE j \in 1 .. Len(content[fh])
      BY <1>3, <2>1, <2>2, <2>4, <3>1
    <3>2. CASE j = Len(content[fh]) + 1
      BY <1>3, <1>5, <1>6, <2>1, <2>4, <3>2
    <3> QED
      BY <1>3, <1>7, <2>1, <2>4, <3>1, <3>2
  <2> QED
    BY <1>1, <1>7, <2>1, <2>2, <2>3, <2>4 DEF Effect
<1>8. \A k \in Indexes : tried[k].opening = opened /\ fh # None =>
         \A i \in DOMAIN buffer : Before(tried[k].unit, buffer[i])
  BY DEF OrderInv
<1>9. /\ Sorted(buffer)
      /\ \A i, j \in Indexes :
            i < j /\ tried[i].opening = tried[j].opening => Before(tried[i].unit, tried[j].unit)
  BY DEF OrderInv
<1> QED
  BY <1>2, <1>4, <1>7, <1>8, <1>9 DEF OrderInv, Unread, Indexes

LEMMA OrderLoop ==
  ASSUME TailInv, OpenInv, OrderInv, Stat \/ Open \/ ReadError \/ Restart
  PROVE  OrderInv'
<1>1. content' = content /\ tried' = tried
  BY DEF Stat, Open, ReadError, Restart, world, history
<1>2. /\ \A f \in DOMAIN content' : Sorted(content'[f])
      /\ \A i, j \in DOMAIN tried' : i < j /\ tried'[i].opening = tried'[j].opening
            => Before(tried'[i].unit, tried'[j].unit)
  BY <1>1 DEF OrderInv, Indexes
<1>3. CASE fh' = None /\ buffer' = <<>>
  <2>1. Sorted(buffer')
    BY <1>3 DEF Sorted
  <2> QED
    BY <1>2, <1>3, <2>1 DEF OrderInv, Indexes
<1>4. CASE UNCHANGED state /\ opened' = opened
  BY <1>1, <1>4 DEF OrderInv, Unread, Sorted, state, Indexes
<1>5. CASE Open /\ opened' = opened + 1 /\ buffer' = <<>>
  <2>1. \A k \in DOMAIN tried' : tried'[k].opening # opened'
    BY <1>1, <1>5, OpenFacts DEF OpenInv, Indexes
  <2>2. Sorted(buffer') /\ DOMAIN buffer' = {}
    BY <1>5 DEF Sorted
  <2> QED
    BY <1>2, <2>1, <2>2 DEF OrderInv, Indexes
<1>6. CASE Stat
  BY <1>3, <1>4, <1>6 DEF Stat, Closed, history
<1>7. CASE Open
  BY <1>3, <1>5, <1>7 DEF Open, Closed
<1>8. CASE ReadError \/ Restart
  BY <1>3, <1>8 DEF ReadError, Restart, Closed
<1> QED
  BY <1>6, <1>7, <1>8

LEMMA OrderRead ==
  ASSUME TailInv, OrderInv, ReadLine
  PROVE  OrderInv'
<1>1. /\ TypeOK /\ pc = "drain" /\ fh # None /\ position \in Nat
      /\ content[fh] \in Seq(Pieces)
  BY DEF ReadLine, TailInv, TypeOK, None
<1>2. content' = content /\ fh' = fh /\ opened' = opened
  BY DEF ReadLine, world, state
<1>3. CASE Filled = <<>>
  <2>1. tried' = tried /\ position' = position /\ buffer' = buffer
    BY <1>3 DEF ReadLine, state
  <2> QED
    BY <1>2, <2>1 DEF OrderInv, Unread, Sorted, Indexes
<1>4. CASE Filled # <<>>
  <2>1. PICK n \in 1 .. Len(Filled), u \in Pieces :
            /\ position' = position + n
            /\ buffer' \in Seq(Pieces) /\ Len(buffer') = Len(Filled) - n
            /\ \A i \in 1 .. Len(buffer') : buffer'[i] = Filled[n + i]
            /\ Handle(u)
            /\ \A q \in Pieces : (\A i \in 1 .. n : Before(q, Filled[i])) => Before(q, u)
            /\ \A q \in Pieces : (\A i \in 1 .. n : Before(Filled[i], q)) => Before(u, q)
    BY <1>4, ReadIs
  <2>2. /\ Filled \in Seq(Pieces) /\ Len(Filled) \in Nat /\ DOMAIN Filled = 1 .. Len(Filled)
        /\ \A i, j \in 1 .. Len(Filled) : i < j => Before(Filled[i], Filled[j])
        /\ \A i \in 1 .. Len(Filled) :
              /\ \A j \in DOMAIN content[fh] :
                    j > position + Len(Filled) => Before(Filled[i], content[fh][j])
              /\ \A k \in Indexes :
                    tried[k].opening = opened => Before(tried[k].unit, Filled[i])
    BY <1>1, FilledInOrder DEF Sorted
  <2>3. /\ DOMAIN buffer' = 1 .. Len(buffer') /\ Len(buffer') \in Nat
        /\ position' + Len(buffer') = position + Len(Filled)
        /\ \A i \in 1 .. Len(buffer') :
              n + i \in 1 .. Len(Filled) /\ buffer'[i] = Filled[n + i] /\ Filled[n + i] \in Pieces
    BY <1>1, <2>1, <2>2
  <2>4. \A k \in Indexes : tried[k].opening = opened =>
           \A j \in DOMAIN content[fh] :
              j > position + Len(Filled) => Before(tried[k].unit, content[fh][j])
    <3>1. Len(buffer) \in Nat /\ Len(buffer) <= Len(Filled)
      BY <1>1, FilledIs DEF TailInv, TypeOK
    <3>2. \A j \in DOMAIN content[fh] : j > position + Len(Filled) => Unread(j)
      <4>1. \A j \in DOMAIN content[fh] : j \in Int
        BY <1>1
      <4> QED
        BY <1>1, <2>2, <3>1, <4>1 DEF Unread
    <3> QED
      BY <1>1, <3>2 DEF OrderInv
  <2>5. Sorted(buffer')
    <3> SUFFICES ASSUME NEW i \in 1 .. Len(buffer'), NEW j \in 1 .. Len(buffer'), i < j
                 PROVE  Before(buffer'[i], buffer'[j])
      BY <2>3 DEF Sorted
    <3>1. n + i < n + j
      BY <2>1
    <3> QED
      BY <2>2, <2>3, <3>1
  <2>6. /\ \A i \in 1 .. Len(buffer') : Before(u, buffer'[i])
        /\ \A j \in DOMAIN content[fh] : j > position + Len(Filled) => Before(u, content[fh][j])
    <3>1. ASSUME NEW i \in 1 .. Len(buffer') PROVE Before(u, buffer'[i])
      <4>1. \A m \in 1 .. n : m \in 1 .. Len(Filled) /\ m < n + i
        BY <2>1, <2>2
      <4> QED
        BY <2>1, <2>2, <2>3, <4>1
    <3>2. ASSUME NEW j \in DOMAIN content[fh], j > position + Len(Filled)
          PROVE  Before(u, content[fh][j])
      <4>1. \A m \in 1 .. n : m \in 1 .. Len(Filled)
        BY <2>1, <2>2
      <4>2. content[fh][j] \in Pieces
        BY <1>1
      <4> QED
        BY <2>1, <2>2, <3>2, <4>1, <4>2
    <3> QED
      BY <3>1, <3>2
  <2>7. \A k \in Indexes : tried[k].opening = opened => Before(tried[k].unit, u)
    <3>1. \A k \in Indexes : tried[k].unit \in Pieces
      BY <1>1, TriesAre
    <3>2. \A m \in 1 .. n : m \in 1 .. Len(Filled)
      BY <2>1, <2>2
    <3> QED
      BY <2>1, <2>2, <3>1, <3>2
  <2>8. /\ Indexes = 1 .. Len(tried) /\ Len(tried) \in Nat
        /\ \/ tried' = tried
           \/ /\ DOMAIN tried' = 1 .. Len(tried) + 1 /\ tried'[Len(tried) + 1] = TriedNow(u)
              /\ \A k \in Indexes : tried'[k] = tried[k]
    BY <1>1, <2>1, TriesAre, HandleIs DEF Tried
  <2>9. ASSUME NEW k \in DOMAIN tried', tried'[k].opening = opened
        PROVE  /\ \A i \in 1 .. Len(buffer') : Before(tried'[k].unit, buffer'[i])
               /\ \A j \in DOMAIN content[fh] :
                     j > position + Len(Filled) => Before(tried'[k].unit, content[fh][j])
    <3>1. CASE k \in Indexes /\ tried'[k] = tried[k]
      BY <2>2, <2>3, <2>4, <2>9, <3>1
    <3>2. CASE tried'[k] = TriedNow(u)
      BY <2>6, <3>2 DEF TriedNow
    <3> QED
      BY <2>8, <3>1, <3>2 DEF Indexes
  <2>10. ASSUME NEW i \in DOMAIN tried', NEW j \in DOMAIN tried', i < j,
                tried'[i].opening = tried'[j].opening
         PROVE  Before(tried'[i].unit, tried'[j].unit)
    <3>1. i \in Indexes /\ tried'[i] = tried[i]
      BY <2>8, <2>10
    <3>2. CASE j \in Indexes /\ tried'[j] = tried[j]
      BY <2>10, <3>1, <3>2 DEF OrderInv
    <3>3. CASE tried'[j] = TriedNow(u)
      BY <2>7, <2>10, <3>1, <3>3 DEF TriedNow
    <3> QED
      BY <2>8, <3>2, <3>3 DEF Indexes
  <2>11. \A f \in DOMAIN content : Sorted(content[f])
    BY DEF OrderInv
  <2>12. ASSUME NEW i \in 1 .. Len(buffer'), NEW j \in DOMAIN content[fh],
                j > position + Len(Filled)
         PROVE  Before(buffer'[i], content[fh][j])
    BY <2>2, <2>3, <2>12
  <2> QED
    BY <1>2, <2>3, <2>5, <2>9, <2>10, <2>11, <2>12 DEF OrderInv, Unread, Indexes
<1> QED
  BY <1>3, <1>4

-----------------------------------------------------------------------------
(* The window.                                                              *)

LEMMA SeenFacts ==
  ASSUME TypeOK
  PROVE  /\ clock \in Nat /\ Window \in Nat /\ boot \in Nat
         /\ \A k \in Classified : seen[k] \in Int /\ seen[k] >= Never /\ seen[k] <= clock
         /\ \A k \in Classified : Pruned[k] = IF clock - seen[k] >= Window THEN Never ELSE seen[k]
BY PrunedType, Bounds DEF TypeOK, Never

LEMMA SeenWorld ==
  ASSUME TailInv, SeenInv, World
  PROVE  SeenInv'
<1>1. Effect /\ TypeOK /\ FreshInv
  BY WorldEffect DEF TailInv
<1>2. tried' = tried /\ seen' = seen /\ boot' = boot
  BY WorldFrame DEF history
<1>3. clock' \in Int /\ clock \in Int /\ clock <= clock' /\ Window \in Int
  BY <1>1, Bounds DEF Effect, TypeOK
<1>4. \A k \in Indexes : /\ tried[k].at \in Int
                         /\ <<lines'[tried[k].unit.line], tried[k].unit.part>> = Key(tried[k].unit)
  <2>1. \A k \in Indexes : tried[k].unit.line \in DOMAIN lines
    <3>1. lines \in Seq(Texts) /\ \A k \in Indexes : tried[k].unit.line \in 1 .. Len(lines)
      BY <1>1 DEF FreshInv, Fresh, TypeOK
    <3> QED
      BY <3>1
  <2> QED
    BY <1>1, <2>1, TriesAre DEF Effect, Key
<1>5. ASSUME NEW k \in Indexes
      PROVE  /\ tried[k].boot <= boot /\ tried[k].at <= clock' /\ Key(tried[k].unit) \in Classified
             /\ tried[k].boot = boot => \/ tried[k].at <= seen[Key(tried[k].unit)]
                                        \/ clock' - tried[k].at >= Window
  BY <1>3, <1>4 DEF SeenInv
<1>6. /\ \A key \in Classified : seen[key] # Never =>
            \E k \in Indexes : /\ tried[k].boot = boot /\ tried[k].at = seen[key]
                               /\ Key(tried[k].unit) = key
      /\ DedupWindow
  BY DEF SeenInv
<1> QED
  BY <1>2, <1>4, <1>5, <1>6 DEF SeenInv, DedupWindow, Key, Indexes

LEMMA SeenLoop ==
  ASSUME TailInv, SeenInv, Stat \/ Open \/ ReadError \/ Restart
  PROVE  SeenInv'
<1>1. clock' = clock /\ tried' = tried /\ lines' = lines
  BY DEF Stat, Open, ReadError, Restart, world, history
<1>2. CASE seen' = seen /\ boot' = boot
  BY <1>1, <1>2 DEF SeenInv, DedupWindow, Key, Indexes
<1>3. CASE seen' = [k \in Classified |-> Never] /\ boot' = boot + 1
  <2>1. boot \in Nat /\ \A k \in Indexes : tried[k].boot \in Nat
    BY TriesAre, SeenFacts DEF TailInv
  <2>2. \A k \in Indexes : tried[k].boot <= boot' /\ tried[k].boot # boot'
    BY <1>3, <2>1 DEF SeenInv
  <2>3. \A key \in Classified : seen'[key] = Never
    BY <1>3
  <2> QED
    BY <1>1, <2>2, <2>3 DEF SeenInv, DedupWindow, Key, Indexes
<1> QED
  BY <1>2, <1>3 DEF Stat, Open, ReadError, Restart, history

LEMMA SeenRead ==
  ASSUME TailInv, OrderInv, SeenInv, ReadLine
  PROVE  SeenInv'
<1>1. TypeOK
  BY DEF TailInv
<1>2. clock' = clock /\ lines' = lines /\ boot' = boot
  BY DEF ReadLine, world
<1>3. CASE tried' = tried /\ seen' = seen
  BY <1>2, <1>3 DEF SeenInv, DedupWindow, Key, Indexes
<1>4. ASSUME Filled # <<>>, ~(tried' = tried /\ seen' = seen)
      PROVE  SeenInv'
  <2>1. PICK u \in Pieces : Handle(u)
    BY <1>4, ReadIs
  <2>2. /\ clock \in Nat /\ Window \in Nat /\ boot \in Nat /\ Never = -1
        /\ \A k \in Classified : seen[k] \in Int /\ seen[k] >= Never /\ seen[k] <= clock
        /\ \A k \in Classified : Pruned[k] = IF clock - seen[k] >= Window THEN Never ELSE seen[k]
    BY <1>1, SeenFacts DEF Never
  <2>3. /\ Indexes = 1 .. Len(tried) /\ Len(tried) \in Nat
        /\ \A k \in Indexes : tried[k].at \in Nat /\ tried[k].boot \in Nat
    BY <1>1, TriesAre
  <2>4. /\ \A k \in Indexes :
              /\ tried[k].boot <= boot /\ tried[k].at <= clock /\ Key(tried[k].unit) \in Classified
              /\ tried[k].boot = boot => \/ tried[k].at <= seen[Key(tried[k].unit)]
                                         \/ clock - tried[k].at >= Window
        /\ \A key \in Classified : seen[key] # Never =>
              \E k \in Indexes : /\ tried[k].boot = boot /\ tried[k].at = seen[key]
                                 /\ Key(tried[k].unit) = key
        /\ DedupWindow
    BY DEF SeenInv
  <2>5. \A k \in Indexes : tried[k].boot = boot =>
           \/ tried[k].at <= Pruned[Key(tried[k].unit)]
           \/ clock - tried[k].at >= Window
    <3> SUFFICES ASSUME NEW k \in Indexes, tried[k].boot = boot,
                        tried[k].at <= seen[Key(tried[k].unit)]
                 PROVE  \/ tried[k].at <= Pruned[Key(tried[k].unit)]
                        \/ clock - tried[k].at >= Window
      BY <2>4
    <3> DEFINE s == seen[Key(tried[k].unit)]
    <3>1. s \in Int /\ tried[k].at \in Int /\ Pruned[Key(tried[k].unit)]
             = IF clock - s >= Window THEN Never ELSE s
      BY <2>2, <2>3, <2>4
    <3> HIDE DEF s
    <3>2. tried[k].at <= s
      BY DEF s
    <3> QED
      BY <2>2, <3>1, <3>2
  <2>6. \A key \in Classified : Pruned[key] # Never => Pruned[key] = seen[key] /\ seen[key] # Never
    BY <2>2
  <2>7. CASE tried' = tried /\ seen' = Pruned
    <3>1. \A key \in Classified : seen'[key] # Never =>
            \E k \in Indexes : /\ tried[k].boot = boot /\ tried[k].at = seen'[key]
                               /\ Key(tried[k].unit) = key
      BY <2>4, <2>6, <2>7
    <3>2. \A k \in Indexes : tried[k].boot = boot =>
             tried[k].at <= seen'[Key(tried[k].unit)] \/ clock - tried[k].at >= Window
      BY <2>5, <2>7
    <3> QED
      BY <1>2, <2>4, <2>7, <3>1, <3>2 DEF SeenInv, DedupWindow, Key, Indexes
  <2>8. CASE Tried(u)
    <3> DEFINE last == Len(tried) + 1
    <3>1. /\ DOMAIN tried' = 1 .. last /\ tried'[last] = TriedNow(u)
          /\ \A k \in Indexes : tried'[k] = tried[k]
          /\ Key(u) \in Classified /\ LetThrough(Key(u))
          /\ seen' = [Pruned EXCEPT ![Key(u)] = clock]
      BY <2>8 DEF Tried
    <3>2. /\ tried'[last].unit = u /\ tried'[last].at = clock /\ tried'[last].boot = boot
      BY <3>1 DEF TriedNow
    <3>3. /\ seen'[Key(u)] = clock
          /\ \A key \in Classified : key # Key(u) => seen'[key] = Pruned[key]
      BY <1>1, <3>1, PrunedType
    <3> HIDE DEF last
    <3>4. last \in 1 .. last /\ \A k \in 1 .. last : k \in Indexes \/ k = last
      BY <2>3 DEF last
    <3>4a. \A k \in Indexes : k \in 1 .. last /\ k < last
      BY <2>3 DEF last
    <3>5. \A k \in Indexes : tried[k].boot = boot =>
             tried[k].at <= seen'[Key(tried[k].unit)] \/ clock - tried[k].at >= Window
      <4> SUFFICES ASSUME NEW k \in Indexes, tried[k].boot = boot
                   PROVE  tried[k].at <= seen'[Key(tried[k].unit)] \/ clock - tried[k].at >= Window
        OBVIOUS
      <4>1. CASE Key(tried[k].unit) = Key(u)
        BY <2>4, <3>3, <4>1
      <4>2. CASE Key(tried[k].unit) # Key(u)
        BY <2>4, <2>5, <3>3, <4>2
      <4> QED
        BY <4>1, <4>2
    <3>6. ASSUME NEW key \in Classified, seen'[key] # Never
          PROVE  \E k \in 1 .. last : /\ tried'[k].boot = boot /\ tried'[k].at = seen'[key]
                                      /\ Key(tried'[k].unit) = key
      <4>1. CASE key = Key(u)
        BY <3>2, <3>3, <3>4, <4>1
      <4>2. CASE key # Key(u)
        BY <2>4, <2>6, <3>1, <3>3, <3>4a, <3>6, <4>2
      <4> QED
        BY <4>1, <4>2
    <3>7. \A k \in Indexes : tried[k].boot = boot /\ Key(tried[k].unit) = Key(u)
             => clock - tried[k].at >= Window
      <4> SUFFICES ASSUME NEW k \in Indexes, tried[k].boot = boot, Key(tried[k].unit) = Key(u)
                   PROVE  clock - tried[k].at >= Window
        OBVIOUS
      <4>1. Pruned[Key(u)] = Never
        BY <3>1 DEF LetThrough
      <4>2. tried[k].at \in Nat
        BY <2>3
      <4>3. ~(tried[k].at <= Pruned[Key(tried[k].unit)])
        BY <2>2, <4>1, <4>2
      <4> QED
        BY <2>5, <4>3
    <3>8. ASSUME NEW i \in 1 .. last, NEW j \in 1 .. last, i < j, tried'[i].boot = tried'[j].boot,
                 Key(tried'[i].unit) = Key(tried'[j].unit)
          PROVE  tried'[j].at - tried'[i].at >= Window
      <4>1. i \in Indexes /\ tried'[i] = tried[i]
        BY <2>3, <3>1, <3>8 DEF last
      <4>2. CASE j \in Indexes
        BY <2>4, <3>1, <3>8, <4>1, <4>2 DEF DedupWindow
      <4>3. CASE j = last
        BY <3>2, <3>7, <3>8, <4>1, <4>3
      <4> QED
        BY <3>4, <4>2, <4>3
    <3>9. ASSUME NEW k \in 1 .. last
          PROVE  /\ tried'[k].boot <= boot /\ tried'[k].at <= clock /\ Key(tried'[k].unit) \in Classified
                 /\ tried'[k].boot = boot => \/ tried'[k].at <= seen'[Key(tried'[k].unit)]
                                             \/ clock - tried'[k].at >= Window
      <4>1. CASE k \in Indexes
        BY <2>4, <3>1, <3>5, <4>1
      <4>2. CASE k = last
        BY <2>2, <3>1, <3>2, <3>3, <4>2
      <4> QED
        BY <3>4, <4>1, <4>2
    <3>10. DOMAIN tried' = 1 .. last
      BY <3>1 DEF last
    <3> QED
      BY <1>2, <3>6, <3>8, <3>9, <3>10 DEF SeenInv, DedupWindow, Key, Indexes
  <2> QED
    BY <1>1, <1>4, <2>1, <2>7, <2>8, HandleIs
<1>5. CASE Filled = <<>>
  BY <1>3, <1>5 DEF ReadLine
<1> QED
  BY <1>3, <1>4, <1>5

LEMMA SkipStep ==
  ASSUME TailInv, OrderInv, SeenInv, Next
  PROVE  \A n \in taken' \ taken : Key(Piece(n, "whole")) \in Classified =>
            \E i \in DOMAIN tried' :
               /\ tried'[i].boot = boot /\ Key(tried'[i].unit) = Key(Piece(n, "whole"))
               /\ i > Len(tried) \/ clock - tried'[i].at < Window
<1> SUFFICES ASSUME NEW n \in taken' \ taken, Key(Piece(n, "whole")) \in Classified
             PROVE  \E i \in DOMAIN tried' :
                       /\ tried'[i].boot = boot /\ Key(tried'[i].unit) = Key(Piece(n, "whole"))
                       /\ i > Len(tried) \/ clock - tried'[i].at < Window
  OBVIOUS
<1>1. TypeOK /\ ReadLine /\ Filled # <<>>
  <2>1. World => taken' = taken
    BY WorldFrame DEF history
  <2>2. Stat \/ Open \/ ReadError \/ Restart => taken' = taken
    BY DEF Stat, Open, ReadError, Restart, history
  <2>3. ReadLine /\ Filled = <<>> => taken' = taken
    BY DEF ReadLine
  <2> QED
    BY <2>1, <2>2, <2>3 DEF Next, Forwarder, TailInv
<1>2. PICK u \in Pieces :
        Handle(u) /\ taken' = IF u.part = "whole" THEN taken \cup {u.line} ELSE taken
  BY <1>1, ReadIs
<1>3. u.part = "whole" /\ n = u.line
  BY <1>2
<1>4. Key(Piece(n, "whole")) = Key(u)
  BY <1>3 DEF Key, Piece
<1>5. CASE Tried(u)
  <2>1. Len(tried) \in Nat
    BY <1>1, TriesAre
  <2>2. /\ Len(tried) + 1 \in DOMAIN tried' /\ Len(tried) + 1 > Len(tried)
        /\ tried'[Len(tried) + 1] = TriedNow(u)
    BY <1>5, <2>1 DEF Tried
  <2> QED
    BY <1>4, <2>2 DEF TriedNow
<1>6. CASE tried' = tried /\ ~LetThrough(Key(u))
  <2>1. Pruned[Key(u)] # Never
    BY <1>6 DEF LetThrough
  <2>2. ~(clock - seen[Key(u)] >= Window) /\ seen[Key(u)] # Never
    BY <1>1, <1>4, <2>1, SeenFacts
  <2>3. PICK k \in Indexes : /\ tried[k].boot = boot /\ tried[k].at = seen[Key(u)]
                             /\ Key(tried[k].unit) = Key(u)
    BY <1>4, <2>2 DEF SeenInv
  <2>4. clock - tried[k].at < Window
    BY <1>1, <1>4, <2>2, <2>3, SeenFacts
  <2> QED
    BY <1>4, <1>6, <2>3, <2>4 DEF Indexes
<1> QED
  BY <1>1, <1>2, <1>4, <1>5, <1>6, HandleIs

-----------------------------------------------------------------------------

LEMMA InitInv == Init => IInv
<1> SUFFICES ASSUME Init PROVE IInv
  OBVIOUS
<1>1. TailInv
  BY InitTail
<1>2. /\ tried = <<>> /\ Indexes = {} /\ buffer = <<>> /\ fh = None /\ opened = 0 /\ upsets = 0
      /\ pc = "stat" /\ \A k \in Classified : seen[k] = Never
  BY DEF Init, Indexes
<1>3. SeenInv
  BY <1>2 DEF SeenInv, DedupWindow
<1>4. OpenInv
  BY <1>2 DEF OpenInv, Pending, Behind
<1>5. OrderInv
  <2>1. content[1] = [i \in DOMAIN lines |-> Piece(i, "whole")] /\ DOMAIN content = {1}
    BY DEF Init
  <2>2. content[1] \in Seq(Pieces)
    BY <1>1, <2>1 DEF TailInv, TypeOK
  <2>3. Sorted(content[1])
    BY <2>1, <2>2 DEF Sorted, Before, Piece
  <2> QED
    BY <1>2, <2>1, <2>3 DEF OrderInv, Sorted
<1> QED
  BY <1>1, <1>3, <1>4, <1>5 DEF IInv

LEMMA NextInv == IInv /\ [Next]_vars => IInv'
<1> SUFFICES ASSUME IInv, [Next]_vars PROVE IInv'
  OBVIOUS
<1>1. TailInv /\ SeenInv /\ OpenInv /\ OrderInv
  BY DEF IInv
<1>2. CASE World
  <2>1. Next
    BY <1>2 DEF Next
  <2> QED
    BY <1>1, <1>2, <2>1, WorldTail, SeenWorld, OpenStep, OrderWorld DEF IInv
<1>3. CASE Stat \/ Open \/ ReadError \/ Restart
  <2>1. Next
    BY <1>3 DEF Next, Forwarder
  <2> QED
    BY <1>1, <1>3, <2>1, LoopTail, SeenLoop, OpenStep, OrderLoop DEF IInv
<1>4. CASE ReadLine
  <2>1. Next
    BY <1>4 DEF Next, Forwarder
  <2> QED
    BY <1>1, <1>4, <2>1, ReadTail, SeenRead, OpenStep, OrderRead DEF IInv
<1>5. CASE UNCHANGED vars
  <2>1. /\ UNCHANGED <<clock, content, named, lines, torn, upsets, pc, statted>>
        /\ UNCHANGED <<fh, inode, position, buffer, initialized>>
        /\ UNCHANGED <<seen, boot, opened, tried, taken>>
    BY <1>5 DEF vars, world, state, history
  <2>2. TailInv'
    BY <1>1, <2>1 DEF TailInv, TypeOK, FilesInv, LoopInv, FreshInv, Fresh, Indexes
  <2>3. SeenInv'
    BY <1>1, <2>1 DEF SeenInv, DedupWindow, Key, Indexes
  <2>4. OpenInv'
    BY <1>1, <2>1 DEF OpenInv, Pending, Behind, Indexes
  <2>5. OrderInv'
    BY <1>1, <2>1 DEF OrderInv, Sorted, Unread, Indexes
  <2> QED
    BY <2>2, <2>3, <2>4, <2>5 DEF IInv
<1> QED
  BY <1>2, <1>3, <1>4, <1>5 DEF Next, Forwarder

LEMMA Invariance == Spec => []IInv
BY InitInv, NextInv, PTL DEF Spec

\* The types of the forwarder's state, and of the files it follows.
THEOREM TypeCorrect == Spec => []TypeOK
<1>1. IInv => TypeOK
  BY DEF IInv, TailInv
<1> QED
  BY <1>1, Invariance, PTL

\* One run of the forwarder never tries to send a line twice within the window,
\* and it leaves out no line it can classify but for such a repeat.
THEOREM WindowIsExact == Spec => DedupExact
<1>1. IInv => DedupWindow
  BY DEF IInv, SeenInv
<1>2. IInv /\ [Next]_vars =>
        [\A n \in taken' \ taken : Key(Piece(n, "whole")) \in Classified =>
            \E i \in DOMAIN tried' :
              /\ tried'[i].boot = boot /\ Key(tried'[i].unit) = Key(Piece(n, "whole"))
              /\ i > Len(tried) \/ clock - tried'[i].at < Window]_vars
  BY SkipStep DEF IInv
<1> QED
  BY <1>1, <1>2, Invariance, PTL DEF Spec, DedupExact, SkipsAreRepeats

LEMMA Reread == IInv => RereadHasCause
<1> SUFFICES ASSUME IInv PROVE RereadHasCause
  OBVIOUS
<1>1. TailInv /\ OpenInv /\ OrderInv /\ TypeOK
  BY DEF IInv, TailInv
<1>2. \A i, j \in Indexes :
         i < j /\ tried[i].opening = tried[j].opening => Before(tried[i].unit, tried[j].unit)
  BY <1>1 DEF OrderInv
<1>3. opened \in Nat /\ upsets \in Nat /\ opened <= 1 + upsets
  <2>1. PICK p \in 0 .. 2 : opened + p <= 1 + upsets
    BY <1>1, PendingIs DEF OpenInv
  <2>2. opened \in Nat /\ upsets \in Nat
    BY <1>1, OpenFacts
  <2> QED
    BY <2>1, <2>2
<1>4. ASSUME NEW i \in Indexes
      PROVE  Cardinality({j \in Indexes : tried[j].unit = tried[i].unit}) <= 1 + upsets
  <2> DEFINE J == {j \in Indexes : tried[j].unit = tried[i].unit}
             f == [j \in J |-> tried[j].opening]
  <2>1. /\ Indexes \subseteq Nat
        /\ \A j \in Indexes : tried[j].unit \in Pieces /\ tried[j].opening \in 1 .. opened
    BY <1>1, TriesAre DEF OpenInv
  <2>2. \A j, k \in J : j < k => tried[j].opening # tried[k].opening
    BY <1>2, <2>1, BeforeIrreflexive
  <2>3. f \in [J -> 1 .. opened] /\ \A j, k \in J : f[j] = f[k] => j = k
    <3>1. \A j, k \in J : j \in Nat /\ k \in Nat /\ (j # k => j < k \/ k < j)
      BY <2>1
    <3>2. \A j, k \in J : tried[j].opening = tried[k].opening => j = k
      BY <2>2, <3>1
    <3>3. \A j \in J : f[j] = tried[j].opening /\ f[j] \in 1 .. opened
      BY <2>1
    <3> QED
      BY <3>2, <3>3
  <2>4. IsFiniteSet(1 .. opened) /\ Cardinality(1 .. opened) = opened
    BY <1>3, FS_Interval
  <2>5. IsFiniteSet(J)
    <3>1. Indexes = 1 .. Len(tried) /\ Len(tried) \in Nat /\ J \subseteq Indexes
      BY <1>1, TriesAre
    <3>2. IsFiniteSet(1 .. Len(tried))
      BY <3>1, FS_Interval
    <3> QED
      BY <3>1, <3>2, FS_Subset
  <2> HIDE DEF J, f
  <2>6. ~(opened < Cardinality(J))
    <3> SUFFICES ASSUME opened < Cardinality(J) PROVE FALSE
      OBVIOUS
    <3>1. PICK j, k \in J : j # k /\ f[j] = f[k]
      BY <2>3, <2>4, <2>5, FS_PigeonHole
    <3> QED
      BY <2>3, <3>1
  <2>7. Cardinality(J) \in Nat
    BY <2>5, FS_CardinalityType
  <2>8. Cardinality(J) <= 1 + upsets
    BY <1>3, <2>6, <2>7
  <2> QED
    BY <2>8 DEF J
<1> QED
  BY <1>2, <1>3, <1>4 DEF RereadHasCause

\* A line is sent again only where the file or the forwarder was disturbed, once
\* for each time, and within one opening in the order of the file.
THEOREM ResendsHaveCause == Spec => []RereadHasCause
BY Reread, Invariance, PTL
=============================================================================
