--------------------------- MODULE JSONLStoreProofs ---------------------------
(***************************************************************************)
(* TLAPS proofs about the event file: types, what a query finds, how many   *)
(* acknowledged events torn writes may cost, and that Repair loses none,    *)
(* for any events, any files found at the start, any limits of queries, and *)
(* any number of short writes, failures and crashes.                        *)
(***************************************************************************)
EXTENDS JSONLStore, FiniteSetTheorems, ListTheorems

-----------------------------------------------------------------------------
(* Lines, and what a reader makes of them.                                  *)

Pieces == Events \cup {Torn, Nul}

LEMMA LineIs ==
  ASSUME NEW p \in Seq(Pieces), NEW b \in BOOLEAN
  PROVE  Line(p, b) \in Lines /\ Line(p, b).pieces = p /\ Line(p, b).ended = b
BY DEF Line, Lines, Pieces

LEMMA ParsedIs ==
  ASSUME NEW l \in Lines, Parses(l)
  PROVE  /\ Parsed(l) \in Events /\ Trimmed(l) = <<Parsed(l)>>
         /\ Parsed(l) \in ToSet(l.pieces)
<1>1. PICK e \in Events : Trimmed(l) = <<e>>
  BY DEF Parses
<1>2. Parsed(l) = e
  BY <1>1 DEF Parsed
<1>3. PICK p \in Seq(Pieces) : p = l.pieces
  BY DEF Lines, Pieces
<1>4. Only(p, Events \cup {Torn}) \in Seq({p[i] : i \in DOMAIN p} \cap (Events \cup {Torn}))
  BY OnlyItems
<1>5. e \in {p[i] : i \in DOMAIN p}
  <2> DEFINE K == {p[i] : i \in DOMAIN p} \cap (Events \cup {Torn})
  <2>1. <<e>> \in Seq(K)
    BY <1>1, <1>3, <1>4 DEF Trimmed
  <2>2. e \in K
    <3> HIDE DEF K
    <3>1. Len(<<e>>) = 1 /\ <<e>>[1] = e
      OBVIOUS
    <3> QED
      BY <2>1, <3>1
  <2> QED
    BY <2>2
<1> QED
  BY <1>1, <1>2, <1>3, <1>5 DEF ToSet

LEMMA WholeIs == Whole \subseteq Lines /\ \A l \in Lines : l \in Whole <=> Parses(l)
BY DEF Whole

Found(w) == [i \in DOMAIN w |-> Parsed(w[i])]

LEMMA FoundAppend ==
  ASSUME NEW w \in Seq(Whole), NEW l \in Whole
  PROVE  Found(w) \in Seq(Events) /\ Found(Append(w, l)) = Append(Found(w), Parsed(l))
<1>1. \A k \in Whole : Parsed(k) \in Events
  BY WholeIs, ParsedIs
<1>2. \A v \in Seq(Whole) : Found(v) \in Seq(Events) /\ Len(Found(v)) = Len(v)
                            /\ \A i \in 1 .. Len(v) : Found(v)[i] = Parsed(v[i])
  <2> TAKE v \in Seq(Whole)
  <2>1. Found(v) = [i \in DOMAIN v |-> Found(v)[i]] /\ \A i \in DOMAIN v : Found(v)[i] \in Events
    BY <1>1 DEF Found
  <2>2. Found(v) \in Seq(Events)
    BY <2>1, MappedList
  <2> QED
    BY <2>2 DEF Found
<1>3. PICK v \in Seq(Whole) : v = Append(w, l)
  <2>1. Append(w, l) \in Seq(Whole)
    OBVIOUS
  <2> QED
    BY <2>1
<1>4. PICK a \in Seq(Events), b \in Seq(Events), e \in Events :
         a = Found(w) /\ b = Found(v) /\ e = Parsed(l)
  BY <1>1, <1>2
<1>5. Len(b) = Len(a) + 1 /\ b[Len(a) + 1] = e /\ \A i \in 1 .. Len(a) : b[i] = a[i]
  <2>1. Len(v) = Len(w) + 1 /\ v[Len(w) + 1] = l /\ \A i \in 1 .. Len(w) : v[i] = w[i]
    BY <1>3
  <2> QED
    BY <1>2, <1>4, <2>1
<1>6. b = Append(a, e)
  BY <1>5
<1> QED
  BY <1>3, <1>4, <1>6

LEMMA ReadableIs ==
  ASSUME NEW f \in Seq(Lines)
  PROVE  /\ Readable(f) = Found(Only(f, Whole)) /\ Only(f, Whole) \in Seq(Whole)
         /\ Readable(f) \in Seq(Events)
<1>1. Only(f, Whole) \in Seq(Lines \cap Whole) /\ Lines \cap Whole = Whole
  BY OnlyType, WholeIs
<1>2. PICK w \in Seq(Whole) : w = Only(f, Whole)
  BY <1>1
<1>3. \A l \in Whole : Parsed(l) \in Events
  BY WholeIs, ParsedIs
<1>4. Found(w) = [i \in DOMAIN w |-> Found(w)[i]] /\ \A i \in DOMAIN w : Found(w)[i] \in Events
  BY <1>3 DEF Found
<1>5. Found(w) \in Seq(Events)
  BY <1>4, MappedList
<1> QED
  BY <1>2, <1>5 DEF Readable, Found

\* A reader of one more line finds its event, if it is a whole one.
LEMMA ReadableAppend ==
  ASSUME NEW f \in Seq(Lines), NEW l \in Lines
  PROVE  Readable(Append(f, l)) = IF Parses(l) THEN Append(Readable(f), Parsed(l)) ELSE Readable(f)
<1>1. Only(Append(f, l), Whole) = IF l \in Whole THEN Append(Only(f, Whole), l) ELSE Only(f, Whole)
  BY OnlyAppend
<1>2. PICK w \in Seq(Whole) : w = Only(f, Whole) /\ Readable(f) = Found(w)
  BY ReadableIs
<1>3. Append(f, l) \in Seq(Lines)
  OBVIOUS
<1>4. Readable(Append(f, l)) = Found(Only(Append(f, l), Whole))
  BY <1>3, ReadableIs
<1>5. l \in Whole => Found(Append(w, l)) = Append(Found(w), Parsed(l))
  BY FoundAppend
<1> QED
  BY <1>1, <1>2, <1>4, <1>5, WholeIs

LEMMA ReadableEmpty == Readable(<<>>) = <<>>
<1>1. <<>> \in Seq(Lines) /\ Only(<<>>, Whole) = <<>>
  BY OnlyEmpty
<1>2. PICK s \in Seq(Events) : s = Readable(<<>>)
  BY <1>1, ReadableIs
<1>3. DOMAIN s = {}
  <2>1. DOMAIN s = DOMAIN <<>>
    BY <1>1, <1>2, ReadableIs DEF Found
  <2> QED
    BY <2>1
<1> QED
  BY <1>2, <1>3

-----------------------------------------------------------------------------
(* What a write does to a file: it ends in a line of what was left of a line *)
(* without a newline, if there was one, and of what is written.              *)

LEMMA WrittenIs ==
  ASSUME NEW f \in Seq(Lines), NEW p \in Seq(Pieces), NEW b \in BOOLEAN
  PROVE  \E g \in Seq(Lines), old \in Seq(Pieces) :
           /\ Written(f, p, b) = Append(g, Line(old \o p, b))
           /\ \/ ~Open(f) /\ g = f /\ old = <<>>
              \/ Open(f) /\ f = Append(g, Line(old, FALSE)) /\ old = Last(f).pieces
<1>1. CASE ~Open(f)
  <2>1. <<>> \in Seq(Pieces) /\ <<>> \o p = p
    BY EmptySeq
  <2>2. Written(f, p, b) = Append(f, Line(p, b))
    BY <1>1 DEF Written
  <2> QED
    BY <1>1, <2>1, <2>2
<1>2. CASE Open(f)
  <2>1. f # <<>> /\ Last(f) = f[Len(f)] /\ ~Last(f).ended
    BY <1>2 DEF Open, Last
  <2>2. PICK l \in Lines : l = Last(f)
    <3>1. f[Len(f)] \in Lines
      BY <2>1
    <3> QED
      BY <2>1, <3>1
  <2>3. PICK g \in Seq(Lines) : g = Front(f) /\ f = Append(g, l)
    <3>1. /\ Front(f) = SubSeq(f, 1, Len(f) - 1) /\ SubSeq(f, 1, Len(f) - 1) \in Seq(Lines)
          /\ f = Append(SubSeq(f, 1, Len(f) - 1), f[Len(f)])
      BY <2>1 DEF Front
    <3> QED
      BY <2>1, <2>2, <3>1
  <2>4. l.pieces \in Seq(Pieces) /\ l = Line(l.pieces, FALSE)
    <3>1. PICK q \in Seq(Pieces), e \in BOOLEAN : l = [pieces |-> q, ended |-> e]
      BY DEF Lines, Pieces
    <3>2. e = FALSE
      BY <2>1, <2>2, <3>1
    <3> QED
      BY <3>1, <3>2 DEF Line
  <2>5. Written(f, p, b) = Append(g, Line(l.pieces \o p, b))
    BY <1>2, <2>2, <2>3 DEF Written
  <2> QED
    BY <1>2, <2>2, <2>3, <2>4, <2>5
<1> QED
  BY <1>1, <1>2

\* A reader finds one more event; or the same, the file being open or the piece
\* torn; or no longer the event that stood in a line without its newline.
LEMMA WriteReads ==
  ASSUME NEW f \in Seq(Lines), NEW p \in Events \cup {Torn}, NEW b \in BOOLEAN, NEW W,
         W = Written(f, <<p>>, b)
  PROVE  \/ p \in Events /\ Readable(W) = Append(Readable(f), p)
         \/ (p = Torn \/ Open(f)) /\ Readable(W) = Readable(f)
         \/ Open(f) /\ \E x \in Events : /\ x \in ToSet(Last(f).pieces)
                                         /\ Readable(f) = Append(Readable(W), x)
<1> DEFINE K == Events \cup {Torn}
<1>1. <<p>> \in Seq(Pieces) /\ p \in Pieces /\ K \subseteq Pieces
  BY DEF Pieces
<1>2. PICK q \in Seq(Pieces) : q = <<p>>
  BY <1>1
<1>3. W = Written(f, q, b)
  BY <1>2
<1>4. PICK g \in Seq(Lines), old \in Seq(Pieces) :
         /\ Written(f, q, b) = Append(g, Line(old \o q, b))
         /\ \/ ~Open(f) /\ g = f /\ old = <<>>
            \/ Open(f) /\ f = Append(g, Line(old, FALSE)) /\ old = Last(f).pieces
  BY WrittenIs
<1>5. PICK l \in Lines : l = Line(old \o q, b) /\ l.pieces = Append(old, p)
  <2>1. old \o q = Append(old, p) /\ Append(old, p) \in Seq(Pieces)
    BY <1>1, <1>2
  <2> QED
    BY <2>1, LineIs
<1>6. PICK o \in Lines : o = Line(old, FALSE) /\ o.pieces = old
  BY LineIs
<1> HIDE DEF K
<1>7. PICK t \in Seq(Pieces \cap K) : t = Only(old, K)
  BY OnlyType
<1>8. Trimmed(l) = Append(t, p) /\ Trimmed(o) = t
  <2>1. Only(Append(old, p), K) = Append(t, p)
    <3>1. p \in K
      BY DEF K
    <3>2. p \in Pieces /\ Only(old, K) = t
      BY <1>1, <1>7
    <3>3. Only(Append(old, p), K) = IF p \in K THEN Append(Only(old, K), p) ELSE Only(old, K)
      BY <3>2, OnlyAppend
    <3> QED
      BY <3>1, <3>2, <3>3
  <2> QED
    BY <1>5, <1>6, <1>7, <2>1 DEF Trimmed, K
<1>9. PICK r \in Seq(Events) : r = Readable(g)
  BY ReadableIs
<1>10. /\ Readable(W) = IF Parses(l) THEN Append(r, Parsed(l)) ELSE r
      /\ Readable(Append(g, o)) = IF Parses(o) THEN Append(r, Parsed(o)) ELSE r
  BY <1>3, <1>4, <1>5, <1>9, ReadableAppend
<1>11. CASE t = <<>>
  <2>1. Trimmed(l) = <<p>> /\ Trimmed(o) = <<>>
    BY <1>8, <1>11
  <2>2. ~Parses(o)
    BY <2>1 DEF Parses
  <2>3. Readable(f) = r
    BY <1>4, <1>6, <1>9, <1>10, <2>2
  <2>4. Parses(l) <=> p \in Events
    BY <2>1 DEF Parses
  <2>5. Parsed(l) = p
    BY <2>1 DEF Parsed
  <2>6. p \notin Events => p = Torn
    OBVIOUS
  <2> QED
    BY <1>10, <2>3, <2>4, <2>5, <2>6
<1>12. CASE t # <<>>
  <2>1. Open(f) /\ f = Append(g, o) /\ old = Last(f).pieces
    <3>1. old # <<>>
      BY <1>7, <1>12, OnlyEmpty
    <3> QED
      BY <1>4, <1>6, <3>1
  <2>2. ~Parses(l)
    <3>1. PICK n \in Nat : n = Len(t) /\ n # 0
      BY <1>12
    <3>2. p \in Pieces \cap K
      BY <1>1 DEF K
    <3>3. Len(Append(t, p)) = n + 1
      BY <3>1, <3>2
    <3>4. ASSUME NEW e, Append(t, p) = <<e>> PROVE FALSE
      <4>1. Len(<<e>>) = 1
        OBVIOUS
      <4>2. n + 1 = 1
        BY <3>3, <3>4, <4>1
      <4> QED
        BY <3>1, <4>2
    <3> QED
      BY <1>8, <3>4 DEF Parses
  <2>3. Readable(W) = r
    BY <1>10, <2>2
  <2>4. CASE Parses(o)
    <3>1. Parsed(o) \in Events /\ Parsed(o) \in ToSet(old)
      BY <1>6, <2>4, ParsedIs
    <3> QED
      BY <1>10, <2>1, <2>3, <2>4, <3>1
  <2>5. CASE ~Parses(o)
    BY <1>10, <2>1, <2>3, <2>5
  <2> QED
    BY <2>4, <2>5
<1> QED
  BY <1>11, <1>12

\* The pieces of a file.
Mentioned(f) == UNION {ToSet(f[i].pieces) : i \in DOMAIN f}
Closed(f)    == \A i \in 1 .. Len(f) - 1 : f[i].ended

LEMMA WrittenType ==
  ASSUME NEW f \in Seq(Lines), Closed(f), NEW p \in Seq(Pieces), NEW b \in BOOLEAN, NEW W,
         W = Written(f, p, b)
  PROVE  /\ W \in Seq(Lines) /\ Closed(W) /\ (Open(W) <=> ~b)
         /\ Mentioned(W) \subseteq Mentioned(f) \cup ToSet(p)
         /\ ToSet(Last(W).pieces)
              \subseteq ToSet(p) \cup (IF Open(f) THEN ToSet(Last(f).pieces) ELSE {})
<1>1. PICK g \in Seq(Lines), old \in Seq(Pieces) :
         /\ Written(f, p, b) = Append(g, Line(old \o p, b))
         /\ \/ ~Open(f) /\ g = f /\ old = <<>>
            \/ Open(f) /\ f = Append(g, Line(old, FALSE)) /\ old = Last(f).pieces
  BY WrittenIs
<1>2. PICK l \in Lines : l = Line(old \o p, b) /\ l.pieces = old \o p /\ l.ended = b
  <2>1. old \o p \in Seq(Pieces)
    BY ConcatProperties
  <2> QED
    BY <2>1, LineIs
<1>3. W = Append(g, l) /\ W \in Seq(Lines)
  BY <1>1, <1>2
<1>4. PICK n \in Nat : n = Len(g) /\ Len(W) = n + 1 /\ W[n + 1] = l
                       /\ \A i \in 1 .. n : W[i] = g[i]
  BY <1>3
<1>5. \A i \in 1 .. n : g[i].ended
  <2>1. CASE ~Open(f) /\ g = f
    <3>1. n = 0 \/ f[n].ended
      BY <1>4, <2>1 DEF Open, Last
    <3> QED
      BY <1>4, <2>1, <3>1 DEF Closed
  <2>2. CASE Open(f) /\ f = Append(g, Line(old, FALSE))
    <3>1. PICK o \in Lines : o = Line(old, FALSE)
      BY LineIs
    <3>2. Len(f) = n + 1 /\ \A i \in 1 .. n : f[i] = g[i]
      BY <1>4, <2>2, <3>1
    <3> QED
      BY <3>2 DEF Closed
  <2> QED
    BY <1>1, <2>1, <2>2
<1>6. Closed(W)
  BY <1>4, <1>5 DEF Closed
<1>7. Last(W) = l /\ (Open(W) <=> ~b)
  <2>1. W # <<>> /\ Last(W) = l
    BY <1>3, <1>4 DEF Last
  <2>2. Open(W) <=> ~l.ended
    BY <2>1 DEF Open
  <2> QED
    BY <1>2, <2>1, <2>2
<1>8. ToSet(l.pieces) \subseteq ToSet(old) \cup ToSet(p)
  <2> SUFFICES ASSUME NEW i \in DOMAIN (old \o p)
               PROVE  (old \o p)[i] \in ToSet(old) \cup ToSet(p)
    BY <1>2 DEF ToSet
  <2>1. CASE i \in 1 .. Len(old)
    <3>1. (old \o p)[i] = old[i]
      BY <2>1
    <3> QED
      BY <2>1, <3>1 DEF ToSet
  <2>2. CASE i \notin 1 .. Len(old)
    <3>1. (old \o p)[i] = p[i - Len(old)] /\ i - Len(old) \in DOMAIN p
      BY <2>2
    <3> QED
      BY <3>1 DEF ToSet
  <2> QED
    BY <2>1, <2>2
<1>9. ToSet(old) = IF Open(f) THEN ToSet(Last(f).pieces) ELSE {}
  <2>1. ToSet(<<>>) = {}
    BY DEF ToSet
  <2> QED
    BY <1>1, <2>1
<1>10. ToSet(old) \subseteq Mentioned(f) /\ \A i \in 1 .. n : ToSet(g[i].pieces) \subseteq Mentioned(f)
  <2>1. CASE ~Open(f) /\ g = f
    BY <1>4, <1>9, <2>1 DEF Mentioned
  <2>2. CASE Open(f) /\ f = Append(g, Line(old, FALSE))
    <3>1. PICK o \in Lines : o = Line(old, FALSE) /\ o.pieces = old
      BY LineIs
    <3>2. f = Append(g, o)
      BY <2>2, <3>1
    <3>3. Len(f) = n + 1 /\ f[n + 1] = o /\ \A i \in 1 .. n : f[i] = g[i]
      BY <1>4, <3>2
    <3>4. n + 1 \in DOMAIN f /\ \A i \in 1 .. n : i \in DOMAIN f
      BY <3>3
    <3> QED
      BY <3>1, <3>3, <3>4 DEF Mentioned
  <2> QED
    BY <1>1, <2>1, <2>2
<1>11. Mentioned(W) \subseteq Mentioned(f) \cup ToSet(p)
  <2> SUFFICES ASSUME NEW i \in DOMAIN W PROVE ToSet(W[i].pieces) \subseteq Mentioned(f) \cup ToSet(p)
    BY DEF Mentioned
  <2>1. CASE i = n + 1
    BY <1>4, <1>8, <1>10, <2>1
  <2>2. CASE i \in 1 .. n
    BY <1>4, <1>10, <2>2
  <2> QED
    BY <1>3, <1>4, <2>1, <2>2
<1> QED
  BY <1>3, <1>6, <1>7, <1>8, <1>9, <1>11

\* A reader finds only what is in the file.
LEMMA ReadableItems ==
  ASSUME NEW f \in Seq(Lines)
  PROVE  ToSet(Readable(f)) \subseteq Mentioned(f) \cap Events
<1>1. Only(f, Whole) \in Seq({f[i] : i \in DOMAIN f} \cap Whole)
  BY OnlyItems
<1>2. PICK T : T = {f[i] : i \in DOMAIN f} \cap Whole
  OBVIOUS
<1>3. PICK w \in Seq(T) : w = Only(f, Whole) /\ Readable(f) = Found(w)
  BY <1>1, <1>2, ReadableIs
<1> SUFFICES ASSUME NEW i \in DOMAIN w PROVE Parsed(w[i]) \in Mentioned(f) \cap Events
  BY <1>3 DEF ToSet, Found
<1>4. w[i] \in T
  OBVIOUS
<1>5. PICK k \in DOMAIN f : w[i] = f[k] /\ f[k] \in Whole
  BY <1>2, <1>4
<1>6. Parsed(f[k]) \in Events /\ Parsed(f[k]) \in ToSet(f[k].pieces)
  BY <1>5, WholeIs, ParsedIs
<1> QED
  BY <1>5, <1>6 DEF Mentioned

-----------------------------------------------------------------------------
(* The order of what is read, and of what was acknowledged.                 *)

InOrder(r, a) == Only(r, ToSet(a)) = Only(a, ToSet(r))

LEMMA ToSetAppend ==
  ASSUME NEW T, NEW s \in Seq(T), NEW x \in T
  PROVE  ToSet(Append(s, x)) = ToSet(s) \cup {x}
<1>1. PICK n \in Nat : n = Len(s)
  OBVIOUS
<1>2. PICK t : t = Append(s, x) /\ DOMAIN t = 1 .. n + 1 /\ t[n + 1] = x
               /\ \A i \in 1 .. n : t[i] = s[i]
  <2>1. PICK t \in Seq(T) : t = Append(s, x)
    <3>1. Append(s, x) \in Seq(T)
      OBVIOUS
    <3> QED
      BY <3>1
  <2>2. DOMAIN t = 1 .. n + 1 /\ t[n + 1] = x
    BY <1>1, <2>1
  <2>3. \A i \in 1 .. n : t[i] = s[i]
    BY <1>1, <2>1
  <2> QED
    BY <2>1, <2>2, <2>3
<1>3. 1 .. n + 1 = (1 .. n) \cup {n + 1} /\ DOMAIN s = 1 .. n
  BY <1>1
<1> QED
  BY <1>2, <1>3 DEF ToSet

LEMMA ToSetIs == ASSUME NEW T, NEW s \in Seq(T) PROVE ToSet(s) \subseteq T
BY DEF ToSet

\* An event that was not acknowledged makes no difference where it is read.
LEMMA OrderSkips ==
  ASSUME NEW r \in Seq(Events), NEW a \in Seq(Events), NEW x \in Events, x \notin ToSet(a)
  PROVE  InOrder(Append(r, x), a) <=> InOrder(r, a)
<1>1. Only(Append(r, x), ToSet(a)) = Only(r, ToSet(a))
  BY OnlyAppend
<1>2. ToSet(Append(r, x)) = ToSet(r) \cup {x}
  BY ToSetAppend
<1>3. \A i \in DOMAIN a : a[i] \in ToSet(r) \cup {x} <=> a[i] \in ToSet(r)
  BY DEF ToSet
<1>4. Only(a, ToSet(r) \cup {x}) = Only(a, ToSet(r))
  BY <1>3, OnlySame
<1> QED
  BY <1>1, <1>2, <1>4 DEF InOrder

\* An event that is new is acknowledged last, and read last if at all.
LEMMA OrderGrows ==
  ASSUME NEW r \in Seq(Events), NEW a \in Seq(Events), NEW e \in Events,
         e \notin ToSet(a), e \notin ToSet(r), InOrder(r, a)
  PROVE  InOrder(r, Append(a, e)) /\ InOrder(Append(r, e), Append(a, e))
<1>1. /\ ToSet(Append(r, e)) = ToSet(r) \cup {e}
      /\ ToSet(Append(a, e)) = ToSet(a) \cup {e}
  BY ToSetAppend
<1>2. \A i \in DOMAIN r : r[i] \in ToSet(a) \cup {e} <=> r[i] \in ToSet(a)
  BY DEF ToSet
<1>3. \A i \in DOMAIN a : a[i] \in ToSet(r) \cup {e} <=> a[i] \in ToSet(r)
  BY DEF ToSet
<1>4. /\ Only(r, ToSet(a) \cup {e}) = Only(r, ToSet(a))
      /\ Only(a, ToSet(r) \cup {e}) = Only(a, ToSet(r))
  BY <1>2, <1>3, OnlySame
<1>5. Only(Append(a, e), ToSet(r)) = Only(a, ToSet(r))
  BY OnlyAppend
<1>6. ASSUME NEW s \in Seq(Events), NEW S, e \in S
      PROVE  Only(Append(s, e), S) = Append(Only(s, S), e)
  BY <1>6, OnlyAppend
<1>7. /\ Only(Append(r, e), ToSet(a) \cup {e}) = Append(Only(r, ToSet(a) \cup {e}), e)
      /\ Only(Append(a, e), ToSet(r) \cup {e}) = Append(Only(a, ToSet(r) \cup {e}), e)
  BY <1>6
<1> QED
  BY <1>1, <1>4, <1>5, <1>7 DEF InOrder

-----------------------------------------------------------------------------
(* The inductive invariant.                                                 *)

\* What is in the file, and what was acknowledged, was offered; a line that has
\* no newline is of no acknowledged event.
HeldInv ==
    /\ Mentioned(file) \cap Events \subseteq offered /\ ToSet(acked) \subseteq offered
    /\ Open(file) => ToSet(Last(file).pieces) \cap ToSet(acked) = {}

\* Each acknowledged event that is lost was lost to a torn line, and one that is
\* still at the end of the file may cost one more.
Lost == ToSet(acked) \ ToSet(Readable(file))
LossInv ==
    /\ IsFiniteSet(ToSet(acked))
    /\ Cardinality(Lost) + (IF Open(file) THEN 1 ELSE 0) <= tears

ReadInv == HeldInv /\ LossInv /\ InOrder(Readable(file), acked)

\* Repair's copy has what a reader finds in the lines that it has read.
CopyInv ==
    IF repair = "copying"
    THEN /\ \A i \in DOMAIN tmp : \E e \in offered : tmp[i] = Line(<<e>>, TRUE)
         /\ Readable(tmp) = Readable(SubSeq(file, 1, next - 1))
    ELSE next = 1

IInv == TypeOK /\ ReadInv /\ CopyInv

LEMMA LostIs == TypeOK /\ LossInv => IsFiniteSet(Lost) /\ Cardinality(Lost) \in Nat
BY FS_Subset, FS_CardinalityType DEF Lost, LossInv

\* A write that is acknowledged.
LEMMA AckReads ==
  ASSUME TypeOK, ReadInv, NEW e \in Events, e \notin offered, NEW W, W = Written(file, <<e>>, TRUE)
  PROVE  /\ InOrder(Readable(W), Append(acked, e))
         /\ ToSet(Append(acked, e)) \ ToSet(Readable(W))
              \subseteq Lost \cup (IF Open(file) THEN {e} ELSE {})
<1>1. /\ file \in Seq(Lines) /\ acked \in Seq(Events) /\ Closed(file)
      /\ <<e>> \in Seq(Pieces) /\ e # Torn
  BY StoreAssumption DEF TypeOK, Closed, Pieces
<1>2. W \in Seq(Lines)
  <2>1. PICK q \in Seq(Pieces) : q = <<e>>
    BY <1>1
  <2>2. W = Written(file, q, TRUE)
    BY <2>1
  <2> QED
    BY <1>1, <2>2, WrittenType
<1>3. PICK r \in Seq(Events), v \in Seq(Events), a \in Seq(Events) :
         r = Readable(file) /\ v = Readable(W) /\ a = acked
  BY <1>1, <1>2, ReadableIs
<1>4. e \notin ToSet(a) /\ e \notin ToSet(r) /\ InOrder(r, a)
  BY <1>1, <1>3, ReadableItems DEF ReadInv, HeldInv
<1>5. ToSet(Append(a, e)) = ToSet(a) \cup {e} /\ Lost = ToSet(a) \ ToSet(r)
  BY <1>3, ToSetAppend DEF Lost
<1>6. \/ v = Append(r, e)
      \/ Open(file) /\ v = r
      \/ Open(file) /\ \E x \in Events : x \in ToSet(Last(file).pieces) /\ r = Append(v, x)
  BY <1>1, <1>3, WriteReads
<1>7. CASE v = Append(r, e)
  <2>1. ToSet(v) = ToSet(r) \cup {e}
    BY <1>7, ToSetAppend
  <2>2. InOrder(v, Append(a, e))
    BY <1>4, <1>7, OrderGrows
  <2> QED
    BY <1>3, <1>5, <2>1, <2>2
<1>8. CASE Open(file) /\ v = r
  <2>1. InOrder(v, Append(a, e))
    BY <1>4, <1>8, OrderGrows
  <2> QED
    BY <1>3, <1>5, <1>8, <2>1
<1>9. ASSUME Open(file), NEW x \in Events, x \in ToSet(Last(file).pieces), r = Append(v, x)
      PROVE  /\ InOrder(v, Append(a, e))
             /\ ToSet(Append(a, e)) \ ToSet(v) \subseteq Lost \cup {e}
  <2>1. x \notin ToSet(a)
    BY <1>3, <1>9 DEF ReadInv, HeldInv
  <2>2. ToSet(r) = ToSet(v) \cup {x}
    BY <1>9, ToSetAppend
  <2>3. InOrder(v, a)
    BY <1>4, <1>9, <2>1, OrderSkips
  <2>4. InOrder(v, Append(a, e))
    BY <1>4, <2>2, <2>3, OrderGrows
  <2> QED
    BY <1>5, <2>1, <2>2, <2>4
<1> QED
  BY <1>3, <1>6, <1>7, <1>8, <1>9

\* A write that fails.
LEMMA BreakReads ==
  ASSUME TypeOK, ReadInv, NEW e \in Events, e \notin offered, NEW p \in {e, Torn}, NEW W,
         W = Written(file, <<p>>, FALSE)
  PROVE  InOrder(Readable(W), acked) /\ ToSet(acked) \ ToSet(Readable(W)) \subseteq Lost
<1>1. /\ file \in Seq(Lines) /\ acked \in Seq(Events) /\ Closed(file)
      /\ <<p>> \in Seq(Pieces) /\ p \in Events \cup {Torn}
  BY DEF TypeOK, Closed, Pieces
<1>2. W \in Seq(Lines)
  <2>1. PICK q \in Seq(Pieces) : q = <<p>>
    BY <1>1
  <2>2. W = Written(file, q, FALSE)
    BY <2>1
  <2> QED
    BY <1>1, <2>2, WrittenType
<1>3. PICK r \in Seq(Events), v \in Seq(Events), a \in Seq(Events) :
         r = Readable(file) /\ v = Readable(W) /\ a = acked
  BY <1>1, <1>2, ReadableIs
<1>4. e \notin ToSet(a) /\ InOrder(r, a) /\ Lost = ToSet(a) \ ToSet(r)
  BY <1>3 DEF ReadInv, HeldInv, Lost
<1>5. \/ p \in Events /\ v = Append(r, p)
      \/ v = r
      \/ Open(file) /\ \E x \in Events : x \in ToSet(Last(file).pieces) /\ r = Append(v, x)
  BY <1>1, <1>3, WriteReads
<1>6. CASE p \in Events /\ v = Append(r, p)
  <2>1. p = e
    BY <1>6, StoreAssumption
  <2>2. ToSet(v) = ToSet(r) \cup {e} /\ InOrder(v, a)
    BY <1>4, <1>6, <2>1, ToSetAppend, OrderSkips
  <2> QED
    BY <1>3, <1>4, <2>2
<1>7. CASE v = r
  BY <1>3, <1>4, <1>7
<1>8. ASSUME Open(file), NEW x \in Events, x \in ToSet(Last(file).pieces), r = Append(v, x)
      PROVE  InOrder(v, a) /\ ToSet(a) \ ToSet(v) \subseteq Lost
  <2>1. x \notin ToSet(a)
    BY <1>3, <1>8 DEF ReadInv, HeldInv
  <2>2. ToSet(r) = ToSet(v) \cup {x}
    BY <1>8, ToSetAppend
  <2>3. InOrder(v, a)
    BY <1>4, <1>8, <2>1, OrderSkips
  <2> QED
    BY <1>4, <2>1, <2>2, <2>3
<1> QED
  BY <1>3, <1>5, <1>6, <1>7, <1>8

-----------------------------------------------------------------------------
(* The steps of Append.                                                     *)

LEMMA WriteTypes ==
  ASSUME TypeOK, ReadInv, NEW x \in Pieces, NEW b \in BOOLEAN, NEW f \in {file, tmp}, NEW W,
         W = Written(f, <<x>>, b)
  PROVE  /\ W \in Seq(Lines) /\ Closed(W) /\ (Open(W) <=> ~b)
         /\ Mentioned(W) \subseteq Mentioned(f) \cup {x}
         /\ ToSet(Last(W).pieces) \subseteq {x} \cup (IF Open(f) THEN ToSet(Last(f).pieces) ELSE {})
<1>1. PICK q \in Seq(Pieces) : q = <<x>>
  <2>1. <<x>> \in Seq(Pieces)
    OBVIOUS
  <2> QED
    BY <2>1
<1>2. W = Written(f, q, b)
  BY <1>1
<1>3. ToSet(q) = {x}
  BY <1>1 DEF ToSet
<1>4. f \in Seq(Lines) /\ Closed(f)
  BY DEF TypeOK, Closed
<1>5. /\ W \in Seq(Lines) /\ Closed(W) /\ (Open(W) <=> ~b)
      /\ Mentioned(W) \subseteq Mentioned(f) \cup ToSet(q)
      /\ ToSet(Last(W).pieces)
           \subseteq ToSet(q) \cup (IF Open(f) THEN ToSet(Last(f).pieces) ELSE {})
  BY <1>2, <1>4, WrittenType
<1> QED
  BY <1>3, <1>5

LEMMA AppendOKStep == ASSUME IInv, NEW e \in Events, AppendOK(e) PROVE IInv'
<1>1. TypeOK /\ ReadInv /\ repair = "idle" /\ next = 1 /\ e \notin offered
  BY DEF IInv, CopyInv, AppendOK, CanAppend
<1>2. /\ file' = Written(file, <<e>>, TRUE) /\ e \in Pieces
      /\ offered' = offered \cup {e} /\ acked' = Append(acked, e)
      /\ UNCHANGED <<tmp, repair, next, up, tears, breaks>>
  BY DEF AppendOK, Pieces
<1>3. /\ file' \in Seq(Lines) /\ Closed(file') /\ ~Open(file')
      /\ Mentioned(file') \subseteq Mentioned(file) \cup {e}
  BY <1>1, <1>2, WriteTypes
<1>4. ToSet(acked') = ToSet(acked) \cup {e} /\ acked' \in Seq(Events)
  <2>1. acked \in Seq(Events)
    BY <1>1 DEF TypeOK
  <2> QED
    BY <1>2, <2>1, ToSetAppend
<1>5. TypeOK'
  <2>1. next' \in 1 .. Len(file') + 1
    <3>1. PICK n \in Nat : n = Len(file')
      BY <1>3
    <3>2. next' = 1 /\ 1 \in 1 .. n + 1
      BY <1>1, <1>2
    <3> QED
      BY <3>1, <3>2
  <2> QED
    BY <1>1, <1>2, <1>3, <1>4, <2>1 DEF TypeOK, Closed
<1>6. HeldInv'
  BY <1>1, <1>2, <1>3, <1>4 DEF ReadInv, HeldInv
<1>7. InOrder(Readable(file'), acked') /\ Lost' \subseteq Lost \cup (IF Open(file) THEN {e} ELSE {})
  BY <1>1, <1>2, AckReads DEF Lost
<1>8. LossInv'
  <2>1. IsFiniteSet(Lost) /\ Cardinality(Lost) \in Nat /\ IsFiniteSet(ToSet(acked))
    BY <1>1, LostIs DEF ReadInv, LossInv
  <2>2. IsFiniteSet(ToSet(acked'))
    BY <1>4, <2>1, FS_AddElement
  <2>3. PICK K : K = Lost'
    OBVIOUS
  <2>4. CASE Open(file)
    <3>1. IsFiniteSet(Lost \cup {e}) /\ Cardinality(Lost \cup {e}) <= Cardinality(Lost) + 1
      BY <2>1, FS_AddElement
    <3>2. K \in SUBSET (Lost \cup {e})
      BY <1>7, <2>3, <2>4
    <3>3. IsFiniteSet(K) /\ Cardinality(K) <= Cardinality(Lost \cup {e})
      BY <3>1, <3>2, FS_Subset
    <3>4. Cardinality(K) \in Nat /\ Cardinality(Lost \cup {e}) \in Nat
      BY <3>1, <3>3, FS_CardinalityType
    <3>5. Cardinality(Lost) + 1 <= tears /\ tears \in Nat
      BY <1>1, <2>4 DEF ReadInv, LossInv, TypeOK
    <3>6. Cardinality(K) <= tears
      BY <2>1, <3>1, <3>3, <3>4, <3>5
    <3> QED
      BY <1>2, <1>3, <2>2, <2>3, <3>4, <3>6 DEF LossInv
  <2>5. CASE ~Open(file)
    <3>1. K \in SUBSET Lost
      BY <1>7, <2>3, <2>5
    <3>2. Cardinality(K) <= Cardinality(Lost) /\ Cardinality(K) \in Nat
      BY <2>1, <3>1, FS_Subset, FS_CardinalityType
    <3>3. Cardinality(Lost) <= tears /\ tears \in Nat
      BY <1>1, <2>1, <2>5 DEF ReadInv, LossInv, TypeOK
    <3>4. Cardinality(K) <= tears
      BY <2>1, <3>2, <3>3
    <3> QED
      BY <1>2, <1>3, <2>2, <2>3, <3>2, <3>4 DEF LossInv
  <2> QED
    BY <2>4, <2>5
<1>9. CopyInv'
  BY <1>1, <1>2 DEF CopyInv
<1> QED
  BY <1>5, <1>6, <1>7, <1>8, <1>9 DEF IInv, ReadInv

LEMMA AppendBreaksStep ==
  ASSUME IInv, NEW e \in Events, NEW pieces \in CutShort(e), NEW dies \in BOOLEAN,
         AppendBreaks(e, pieces, dies)
  PROVE  IInv'
<1>1. TypeOK /\ ReadInv /\ repair = "idle" /\ next = 1 /\ e \notin offered
  BY DEF IInv, CopyInv, AppendBreaks, CanAppend
<1>2. /\ offered' = offered \cup {e} /\ up' \in BOOLEAN /\ breaks' \in 0 .. MaxBreaks
      /\ UNCHANGED <<tmp, repair, next, acked>>
  <2>1. breaks \in 0 .. MaxBreaks /\ breaks < MaxBreaks /\ MaxBreaks \in Nat
    BY <1>1, StoreAssumption DEF AppendBreaks, TypeOK
  <2>2. breaks' = breaks + 1 /\ up' = ~dies
    BY DEF AppendBreaks
  <2>3. breaks' \in 0 .. MaxBreaks
    BY <2>1, <2>2
  <2>4. up' \in BOOLEAN
    BY <2>2
  <2> QED
    BY <2>3, <2>4 DEF AppendBreaks
<1>3. CopyInv'
  BY <1>1, <1>2 DEF CopyInv
<1>4. CASE pieces = <<>>
  <2>1. UNCHANGED <<file, tears>>
    BY <1>4 DEF AppendBreaks
  <2>2. TypeOK'
    BY <1>1, <1>2, <2>1 DEF TypeOK
  <2>3. ReadInv'
    BY <1>1, <1>2, <2>1 DEF ReadInv, HeldInv, LossInv, Lost
  <2> QED
    BY <1>3, <2>2, <2>3 DEF IInv
<1>5. ASSUME NEW p \in {e, Torn}, pieces = <<p>> PROVE IInv'
  <2>1. file' = Written(file, <<p>>, FALSE) /\ tears' = tears + 1 /\ p \in Pieces
    <3>1. pieces # <<>>
      BY <1>5
    <3> QED
      BY <1>5, <3>1 DEF AppendBreaks, Pieces
  <2>2. /\ file' \in Seq(Lines) /\ Closed(file') /\ Open(file')
        /\ Mentioned(file') \subseteq Mentioned(file) \cup {p}
        /\ ToSet(Last(file').pieces)
             \subseteq {p} \cup (IF Open(file) THEN ToSet(Last(file).pieces) ELSE {})
    BY <1>1, <2>1, WriteTypes
  <2>3. TypeOK'
    <3>1. next' \in 1 .. Len(file') + 1
      <4>1. PICK n \in Nat : n = Len(file')
        BY <2>2
      <4>2. next' = 1 /\ 1 \in 1 .. n + 1
        BY <1>1, <1>2
      <4> QED
        BY <4>1, <4>2
    <3>2. file' \in Seq(Lines) /\ tmp' \in Seq(Lines)
      BY <1>1, <1>2, <2>2 DEF TypeOK
    <3>3. \A f \in {file', tmp'} : \A i \in 1 .. Len(f) - 1 : f[i].ended
      BY <1>1, <1>2, <2>2 DEF TypeOK, Closed
    <3>4. repair' \in {"idle", "copying"} /\ acked' \in Seq(Events) /\ tears' \in Nat
      BY <1>1, <1>2, <2>1 DEF TypeOK
    <3>5. offered' \subseteq Events
      BY <1>1, <1>2 DEF TypeOK
    <3> QED
      BY <1>2, <3>1, <3>2, <3>3, <3>4, <3>5 DEF TypeOK
  <2>4. HeldInv'
    <3>1. p \notin ToSet(acked) /\ (p \in Events => p \in offered')
      <4>1. acked \in Seq(Events) /\ ToSet(acked) \subseteq offered
        BY <1>1 DEF TypeOK, ReadInv, HeldInv
      <4>2. ToSet(acked) \subseteq Events
        BY <4>1, ToSetIs
      <4> QED
        BY <1>1, <1>2, <4>1, <4>2, StoreAssumption
    <3>2. Mentioned(file') \cap Events \subseteq offered' /\ ToSet(acked') \subseteq offered'
      BY <1>1, <1>2, <2>2, <3>1 DEF ReadInv, HeldInv
    <3>3. ToSet(Last(file').pieces) \cap ToSet(acked') = {}
      <4>1. acked' = acked /\ p \notin ToSet(acked)
        BY <1>2, <3>1
      <4>2. Open(file) => ToSet(Last(file).pieces) \cap ToSet(acked) = {}
        BY <1>1 DEF ReadInv, HeldInv
      <4>3. CASE Open(file)
        BY <2>2, <4>1, <4>2, <4>3
      <4>4. CASE ~Open(file)
        BY <2>2, <4>1, <4>4
      <4> QED
        BY <4>3, <4>4
    <3> QED
      BY <3>2, <3>3 DEF HeldInv
  <2>5. InOrder(Readable(file'), acked') /\ Lost' \subseteq Lost
    BY <1>1, <1>2, <2>1, BreakReads DEF Lost
  <2>6. LossInv'
    <3>1. IsFiniteSet(Lost) /\ Cardinality(Lost) \in Nat /\ IsFiniteSet(ToSet(acked))
      BY <1>1, LostIs DEF ReadInv, LossInv
    <3>2. PICK K : K = Lost' /\ K \in SUBSET Lost
      BY <2>5
    <3>3. Cardinality(K) <= Cardinality(Lost) /\ Cardinality(K) \in Nat
      BY <3>1, <3>2, FS_Subset, FS_CardinalityType
    <3>4. Cardinality(Lost) <= tears /\ tears \in Nat
      <4>1. CASE Open(file)
        BY <1>1, <3>1, <4>1 DEF ReadInv, LossInv, TypeOK
      <4>2. CASE ~Open(file)
        BY <1>1, <3>1, <4>2 DEF ReadInv, LossInv, TypeOK
      <4> QED
        BY <4>1, <4>2
    <3>5. Cardinality(K) + 1 <= tears + 1
      BY <3>1, <3>3, <3>4
    <3> QED
      BY <1>2, <2>1, <2>2, <3>1, <3>2, <3>5 DEF LossInv
  <2> QED
    BY <1>3, <2>3, <2>4, <2>5, <2>6 DEF IInv, ReadInv
<1> QED
  BY <1>4, <1>5 DEF CutShort

-----------------------------------------------------------------------------
(* The steps of Repair, and of the process.                                 *)

\* A step that leaves the file and the history alone.
LEMMA FileFrame ==
  ASSUME ReadInv, UNCHANGED <<file, offered, acked, tears>> PROVE ReadInv'
BY DEF ReadInv, HeldInv, LossInv, Lost

LEMMA RepairBeginStep == ASSUME IInv, RepairBegin PROVE IInv'
<1>1. /\ TypeOK /\ ReadInv /\ repair' = "copying" /\ next' = 1 /\ tmp' = <<>>
      /\ UNCHANGED <<file, up, offered, acked, tears, breaks>>
  BY DEF IInv, RepairBegin
<1>2. file \in Seq(Lines) /\ <<>> \in Seq(Lines) /\ \A i \in 1 .. Len(<<>>) - 1 : FALSE
  BY <1>1 DEF TypeOK
<1>3. TypeOK'
  <2>1. 1 \in 1 .. Len(file) + 1
    BY <1>2
  <2> QED
    BY <1>1, <1>2, <2>1 DEF TypeOK
<1>4. CopyInv'
  <2>1. SubSeq(file, 1, 1 - 1) = <<>> /\ DOMAIN <<>> = {}
    BY <1>2
  <2> QED
    BY <1>1, <2>1 DEF CopyInv
<1> QED
  BY <1>1, <1>3, <1>4, FileFrame DEF IInv

\* The copy gets what a reader of the line finds.
LEMMA CopyReads ==
  ASSUME IInv, RepairLine
  PROVE  /\ tmp' \in Seq(Lines) /\ \A i \in DOMAIN tmp' : \E e \in offered : tmp'[i] = Line(<<e>>, TRUE)
         /\ Readable(tmp') = Readable(SubSeq(file, 1, next))
<1>1. /\ TypeOK /\ ReadInv /\ next <= Len(file) /\ repair = "copying"
      /\ tmp' = IF Parses(file[next]) THEN Written(tmp, <<Parsed(file[next])>>, TRUE) ELSE tmp
  BY DEF IInv, RepairLine
<1>2. /\ \A i \in DOMAIN tmp : \E e \in offered : tmp[i] = Line(<<e>>, TRUE)
      /\ Readable(tmp) = Readable(SubSeq(file, 1, next - 1))
  BY <1>1 DEF IInv, CopyInv
<1>3. PICK f \in Seq(Lines), t \in Seq(Lines), n \in Nat : f = file /\ t = tmp /\ n = next
                                                      /\ n \in 1 .. Len(f)
  <2>1. file \in Seq(Lines) /\ tmp \in Seq(Lines) /\ next \in 1 .. Len(file) + 1
    BY <1>1 DEF TypeOK
  <2>2. next \in Nat /\ next \in 1 .. Len(file)
    BY <1>1, <2>1
  <2> QED
    BY <2>1, <2>2
<1>4. PICK l \in Lines, h \in Seq(Lines) : l = f[n] /\ h = SubSeq(f, 1, n - 1) /\ SubSeq(f, 1, n) = Append(h, l)
  <2>1. f[n] \in Lines /\ SubSeq(f, 1, n - 1) \in Seq(Lines)
    BY <1>3
  <2>2. SubSeq(f, 1, n) = Append(SubSeq(f, 1, n - 1), f[n])
    BY <1>3
  <2> QED
    BY <2>1, <2>2
<1>5. /\ Readable(t) = Readable(h)
      /\ Readable(Append(h, l)) = IF Parses(l) THEN Append(Readable(h), Parsed(l)) ELSE Readable(h)
  BY <1>2, <1>3, <1>4, ReadableAppend
<1>6. CASE ~Parses(l)
  BY <1>1, <1>2, <1>3, <1>4, <1>5, <1>6
<1>7. CASE Parses(l)
  <2>1. PICK x \in Events : x = Parsed(l) /\ x \in ToSet(l.pieces)
    BY <1>7, ParsedIs
  <2>2. x \in offered
    BY <1>1, <1>3, <1>4, <2>1 DEF ReadInv, HeldInv, Mentioned
  <2>3. PICK c \in Lines : c = Line(<<x>>, TRUE) /\ c.pieces = <<x>> /\ c.ended = TRUE
    <3>1. <<x>> \in Seq(Pieces)
      BY DEF Pieces
    <3> QED
      BY <3>1, LineIs
  <2>4. ~Open(t)
    <3> SUFFICES ASSUME t # <<>> PROVE Last(t).ended
      BY DEF Open
    <3>1. Len(t) \in DOMAIN t /\ Last(t) = t[Len(t)]
      BY DEF Last
    <3>2. PICK e \in offered : t[Len(t)] = Line(<<e>>, TRUE)
      BY <1>2, <1>3, <3>1
    <3> QED
      BY <3>1, <3>2 DEF Line
  <2>5. tmp' = Append(t, c)
    BY <1>1, <1>3, <1>4, <1>7, <2>1, <2>3, <2>4 DEF Written
  <2>6. Parses(c) /\ Parsed(c) = x
    <3>1. Only(<<x>>, Events \cup {Torn}) = <<x>>
      <4>1. <<x>> \in Seq(Events) /\ \A i \in DOMAIN <<x>> : <<x>>[i] \in Events \cup {Torn}
        OBVIOUS
      <4> QED
        BY <4>1, OnlyAll
    <3>2. Trimmed(c) = <<x>>
      BY <2>3, <3>1 DEF Trimmed
    <3> QED
      BY <3>2 DEF Parses, Parsed
  <2>7. Readable(Append(t, c)) = Append(Readable(t), x)
    BY <2>6, ReadableAppend
  <2>8. PICK u \in Seq(Lines), k \in Nat :
           /\ u = Append(t, c) /\ DOMAIN t = 1 .. k /\ DOMAIN u = 1 .. k + 1
           /\ u[k + 1] = c /\ \A i \in 1 .. k : u[i] = t[i]
    <3>1. PICK u \in Seq(Lines) : u = Append(t, c)
      <4>1. Append(t, c) \in Seq(Lines)
        OBVIOUS
      <4> QED
        BY <4>1
    <3>2. PICK k \in Nat : k = Len(t) /\ DOMAIN t = 1 .. k
      OBVIOUS
    <3>3. DOMAIN u = 1 .. k + 1 /\ u[k + 1] = c
      BY <3>1, <3>2
    <3>4. \A i \in 1 .. k : u[i] = t[i]
      BY <3>1, <3>2
    <3> QED
      BY <3>1, <3>2, <3>3, <3>4
  <2>9. ASSUME NEW i \in DOMAIN u PROVE \E e \in offered : u[i] = Line(<<e>>, TRUE)
    <3>1. CASE i = k + 1
      BY <2>2, <2>3, <2>8, <3>1
    <3>2. CASE i \in 1 .. k
      <4>1. i \in DOMAIN tmp /\ u[i] = tmp[i]
        BY <1>3, <2>8, <3>2
      <4> QED
        BY <1>2, <4>1
    <3>3. i \in 1 .. k + 1
      BY <2>8
    <3>4. i = k + 1 \/ i \in 1 .. k
      BY <3>3
    <3> QED
      BY <3>1, <3>2, <3>4
  <2> QED
    BY <1>3, <1>4, <1>5, <1>7, <2>1, <2>5, <2>7, <2>8, <2>9
<1> QED
  BY <1>6, <1>7

LEMMA RepairLineStep == ASSUME IInv, RepairLine PROVE IInv'
<1>1. /\ TypeOK /\ ReadInv /\ repair = "copying" /\ next <= Len(file) /\ next' = next + 1
      /\ UNCHANGED <<file, repair, up, offered, acked, tears, breaks>>
  BY DEF IInv, RepairLine
<1>2. next' \in 1 .. Len(file') + 1 /\ next' - 1 = next
  <2>1. next \in 1 .. Len(file) + 1 /\ Len(file) \in Nat
    BY <1>1 DEF TypeOK
  <2> QED
    BY <1>1, <2>1
<1>3. /\ tmp' \in Seq(Lines) /\ \A i \in DOMAIN tmp' : \E e \in offered : tmp'[i] = Line(<<e>>, TRUE)
      /\ Readable(tmp') = Readable(SubSeq(file, 1, next))
  BY CopyReads
<1>4. \A i \in DOMAIN tmp' : tmp'[i].ended
  BY <1>3 DEF Line
<1>5. \A i \in 1 .. Len(tmp') - 1 : tmp'[i].ended
  BY <1>3, <1>4
<1>6. TypeOK'
  BY <1>1, <1>2, <1>3, <1>5 DEF TypeOK
<1>7. CopyInv'
  BY <1>1, <1>2, <1>3 DEF CopyInv
<1> QED
  BY <1>1, <1>6, <1>7, FileFrame DEF IInv

\* What the rename puts in place of the file: whole lines only, in which a
\* reader finds what it found.
LEMMA RenameReads ==
  ASSUME IInv, RepairRename
  PROVE  /\ file' \in Seq(Lines) /\ Readable(file') = Readable(file)
         /\ \A i \in DOMAIN file' : \E e \in offered : file'[i] = Line(<<e>>, TRUE)
<1>1. TypeOK /\ repair = "copying" /\ next > Len(file) /\ file' = tmp
  BY DEF IInv, RepairRename
<1>2. /\ \A i \in DOMAIN tmp : \E e \in offered : tmp[i] = Line(<<e>>, TRUE)
      /\ Readable(tmp) = Readable(SubSeq(file, 1, next - 1))
  BY <1>1 DEF IInv, CopyInv
<1>3. file \in Seq(Lines) /\ tmp \in Seq(Lines) /\ next \in 1 .. Len(file) + 1
  BY <1>1 DEF TypeOK
<1>4. SubSeq(file, 1, next - 1) = file
  <2>1. next - 1 = Len(file)
    BY <1>1, <1>3
  <2>2. SubSeq(file, 1, Len(file)) = file
    BY <1>3
  <2> QED
    BY <2>1, <2>2
<1> QED
  BY <1>1, <1>2, <1>3, <1>4

LEMMA RepairRenameStep == ASSUME IInv, RepairRename PROVE IInv'
<1>1. /\ TypeOK /\ ReadInv /\ file' = tmp /\ tmp' = <<>> /\ repair' = "idle" /\ next' = 1
      /\ UNCHANGED <<up, offered, acked, tears, breaks>>
  BY DEF IInv, RepairRename
<1>2. /\ file' \in Seq(Lines) /\ Readable(file') = Readable(file)
      /\ \A i \in DOMAIN file' : \E e \in offered : file'[i] = Line(<<e>>, TRUE)
  BY RenameReads
<1>3. \A i \in DOMAIN file' : file'[i].ended
  BY <1>2 DEF Line
<1>4. ~Open(file')
  <2> SUFFICES ASSUME file' # <<>> PROVE Last(file').ended
    BY DEF Open
  <2>1. Len(file') \in DOMAIN file' /\ Last(file') = file'[Len(file')]
    BY <1>2 DEF Last
  <2> QED
    BY <1>3, <2>1
<1>5. Mentioned(file') \subseteq offered
  <2> SUFFICES ASSUME NEW i \in DOMAIN file' PROVE ToSet(file'[i].pieces) \subseteq offered
    BY DEF Mentioned
  <2>1. PICK e \in offered : file'[i] = Line(<<e>>, TRUE)
    BY <1>2
  <2>2. ToSet(<<e>>) = {e} /\ Line(<<e>>, TRUE).pieces = <<e>>
    BY DEF ToSet, Line
  <2> QED
    BY <2>1, <2>2
<1>6. TypeOK'
  <2>1. 1 \in 1 .. Len(file') + 1 /\ \A i \in 1 .. Len(file') - 1 : file'[i].ended
    BY <1>2, <1>3
  <2>2. <<>> \in Seq(Lines) /\ \A i \in 1 .. Len(<<>>) - 1 : FALSE
    OBVIOUS
  <2> QED
    BY <1>1, <1>2, <2>1, <2>2 DEF TypeOK
<1>7. HeldInv'
  BY <1>1, <1>4, <1>5 DEF ReadInv, HeldInv
<1>8. Lost' = Lost /\ InOrder(Readable(file'), acked')
  BY <1>1, <1>2 DEF Lost, ReadInv
<1>9. LossInv'
  <2>1. IsFiniteSet(ToSet(acked)) /\ Cardinality(Lost) \in Nat
    BY <1>1, LostIs DEF ReadInv, LossInv
  <2>2. Cardinality(Lost) <= tears
    <3>1. tears \in Nat
      BY <1>1 DEF TypeOK
    <3>2. CASE Open(file)
      BY <1>1, <2>1, <3>1, <3>2 DEF ReadInv, LossInv
    <3>3. CASE ~Open(file)
      BY <1>1, <2>1, <3>1, <3>3 DEF ReadInv, LossInv
    <3> QED
      BY <3>2, <3>3
  <2> QED
    BY <1>1, <1>4, <1>8, <2>1, <2>2 DEF LossInv
<1>10. CopyInv'
  BY <1>1 DEF CopyInv
<1> QED
  BY <1>6, <1>7, <1>8, <1>9, <1>10 DEF IInv, ReadInv

\* Repair gives up, or the process ends or starts: the file is not touched.
LEMMA BreakStep ==
  ASSUME IInv,
         \/ \E pieces \in {<<>>, <<Torn>>} : RepairFails(pieces)
         \/ Crash \/ Restart
  PROVE  IInv'
<1>1. TypeOK /\ ReadInv /\ UNCHANGED <<file, offered, acked, tears>>
  BY DEF IInv, RepairFails, Crash, Restart
<1>2. /\ breaks' \in 0 .. MaxBreaks /\ up' \in BOOLEAN
      /\ \/ repair' = "idle" /\ next' = 1
         \/ UNCHANGED <<repair, next, tmp>>
  <2>1. (breaks' = breaks + 1 /\ breaks < MaxBreaks) \/ breaks' = breaks
    BY DEF RepairFails, Crash, Restart
  <2>2. breaks \in 0 .. MaxBreaks /\ MaxBreaks \in Nat /\ up \in BOOLEAN
    BY <1>1, StoreAssumption DEF TypeOK
  <2>3. breaks' \in 0 .. MaxBreaks
    BY <2>1, <2>2
  <2>4. up' = up \/ up' = TRUE \/ up' = FALSE
    BY DEF RepairFails, Crash, Restart
  <2> QED
    BY <2>2, <2>3, <2>4 DEF RepairFails, Crash, Restart
<1>3. tmp' \in Seq(Lines) /\ \A i \in 1 .. Len(tmp') - 1 : tmp'[i].ended
  <2>1. CASE tmp' = tmp
    BY <1>1, <2>1 DEF TypeOK
  <2>2. CASE tmp' = Written(tmp, <<Torn>>, FALSE)
    <3>1. Torn \in Pieces
      BY DEF Pieces
    <3> QED
      BY <1>1, <2>2, <3>1, WriteTypes DEF Closed
  <2>3. tmp' = tmp \/ tmp' = Written(tmp, <<Torn>>, FALSE)
    BY DEF RepairFails, Crash, Restart
  <2> QED
    BY <2>1, <2>2, <2>3
<1>4. TypeOK'
  <2>1. next' \in 1 .. Len(file') + 1
    <3>1. file' \in Seq(Lines) /\ next \in 1 .. Len(file') + 1
      BY <1>1 DEF TypeOK
    <3> QED
      BY <1>2, <3>1
  <2>2. repair' \in {"idle", "copying"}
    BY <1>1, <1>2 DEF TypeOK
  <2> QED
    BY <1>1, <1>2, <1>3, <2>1, <2>2 DEF TypeOK
<1>5. CopyInv'
  BY <1>1, <1>2 DEF IInv, CopyInv
<1> QED
  BY <1>1, <1>4, <1>5, FileFrame DEF IInv

LEMMA StepIInv == IInv /\ [Next]_vars => IInv'
<1> SUFFICES ASSUME IInv, [Next]_vars PROVE IInv'
  OBVIOUS
<1>1. CASE UNCHANGED vars
  <2>1. UNCHANGED <<file, tmp, repair, next, up, offered, acked, tears, breaks>>
    BY <1>1 DEF vars
  <2>2. TypeOK' /\ CopyInv'
    BY <2>1 DEF IInv, TypeOK, CopyInv
  <2> QED
    BY <2>1, <2>2, FileFrame DEF IInv
<1> QED
  BY <1>1, AppendOKStep, AppendBreaksStep, RepairBeginStep, RepairLineStep, RepairRenameStep,
     BreakStep DEF Next

LEMMA InitIInv == Init => IInv
<1> SUFFICES ASSUME Init PROVE IInv
  OBVIOUS
<1>1. /\ file \in Seq(Lines) /\ Closed(file) /\ tmp = <<>> /\ repair = "idle" /\ next = 1
      /\ up = TRUE /\ acked = <<>> /\ breaks = 0
      /\ offered = {e \in Events : \E i \in DOMAIN file : e \in ToSet(file[i].pieces)}
      /\ tears = IF Open(file) THEN 1 ELSE 0
  BY StoreAssumption DEF Init, Closed
<1>2. TypeOK
  <2>1. next \in 1 .. Len(file) + 1 /\ breaks \in 0 .. MaxBreaks /\ tears \in Nat
    BY <1>1, StoreAssumption
  <2>2. <<>> \in Seq(Lines) /\ <<>> \in Seq(Events) /\ \A i \in 1 .. Len(<<>>) - 1 : FALSE
    OBVIOUS
  <2> QED
    BY <1>1, <2>1, <2>2 DEF TypeOK, Closed
<1>3. ToSet(acked) = {}
  BY <1>1 DEF ToSet
<1>4. HeldInv
  BY <1>1, <1>3 DEF HeldInv, Mentioned
<1>5. LossInv
  <2>1. Lost = {} /\ IsFiniteSet({}) /\ Cardinality({}) = 0
    BY <1>3, FS_EmptySet DEF Lost
  <2>2. Cardinality(Lost) = 0 /\ IsFiniteSet(ToSet(acked))
    BY <1>3, <2>1
  <2>3. 0 + (IF Open(file) THEN 1 ELSE 0) <= tears
    BY <1>1
  <2> QED
    BY <2>2, <2>3 DEF LossInv
<1>6. InOrder(Readable(file), acked)
  <2>1. PICK r \in Seq(Events) : r = Readable(file)
    BY <1>1, ReadableIs
  <2>2. Only(r, {}) \in Seq(Events \cap {}) /\ Events \cap {} = {}
    BY OnlyType
  <2>3. PICK s \in Seq({}) : s = Only(r, {})
    BY <2>2
  <2>4. s = <<>>
    <3>1. s # <<>> => s[1] \in {}
      OBVIOUS
    <3> QED
      BY <3>1
  <2> QED
    BY <1>1, <1>3, <2>1, <2>3, <2>4, OnlyEmpty DEF InOrder
<1>7. CopyInv
  BY <1>1 DEF CopyInv
<1> QED
  BY <1>2, <1>4, <1>5, <1>6, <1>7 DEF IInv, ReadInv

THEOREM IInvHolds == Spec => []IInv
BY InitIInv, StepIInv, PTL DEF Spec

-----------------------------------------------------------------------------
(* A query's answer.                                                        *)

\* The last of a list, up to limit.
LastOf(all, limit) ==
    IF Len(all) <= limit THEN all ELSE SubSeq(all, Len(all) - limit + 1, Len(all))

\* One more event, and the oldest gone if they were too many, are the last of
\* one more.
LEMMA KeepLast ==
  ASSUME NEW all \in Seq(Events), NEW x \in Events, NEW limit \in Nat \ {0}
  PROVE  Keep(LastOf(all, limit), x, limit) = LastOf(Append(all, x), limit)
<1>1. PICK n \in Nat : n = Len(all)
  OBVIOUS
<1>2. PICK b \in Seq(Events) : b = Append(all, x) /\ Len(b) = n + 1
  <2>1. Append(all, x) \in Seq(Events) /\ Len(Append(all, x)) = n + 1
    BY <1>1
  <2> QED
    BY <2>1
<1>3. b[n + 1] = x /\ \A i \in 1 .. n : b[i] = all[i]
  BY <1>1, <1>2
<1>4. CASE n < limit
  <2>1. LastOf(all, limit) = all /\ LastOf(b, limit) = b
    BY <1>1, <1>2, <1>4 DEF LastOf
  <2>2. ~(Len(b) > limit)
    BY <1>2, <1>4
  <2> QED
    BY <1>2, <2>1, <2>2 DEF Keep
<1>5. CASE n >= limit
  <2>1. PICK s \in Seq(Events) : /\ s = LastOf(all, limit) /\ Len(s) = limit
                                 /\ \A i \in 1 .. limit : s[i] = all[i + (n - limit)]
    <3>1. CASE n = limit
      <4>1. LastOf(all, limit) = all /\ \A i \in 1 .. limit : i + (n - limit) = i
        BY <1>1, <3>1 DEF LastOf
      <4> QED
        BY <1>1, <3>1, <4>1
    <3>2. CASE n > limit
      <4>1. LastOf(all, limit) = SubSeq(all, n - limit + 1, n)
        BY <1>1, <3>2 DEF LastOf
      <4>2. PICK s \in Seq(Events) : s = SubSeq(all, n - limit + 1, n)
        <5>1. n - limit + 1 \in 1 .. n
          BY <3>2
        <5>2. SubSeq(all, n - limit + 1, n) \in Seq(Events)
          BY <1>1, <5>1
        <5> QED
          BY <5>2
      <4>3. Len(s) = limit
        BY <1>1, <3>2, <4>2
      <4>4. ASSUME NEW i \in 1 .. limit PROVE s[i] = all[i + (n - limit)]
        <5>1. s[i] = all[(n - limit + 1) + i - 1]
          BY <1>1, <3>2, <4>2
        <5>2. (n - limit + 1) + i - 1 = i + (n - limit)
          BY <3>2
        <5> QED
          BY <5>1, <5>2
      <4> QED
        BY <4>1, <4>2, <4>3, <4>4
    <3> QED
      BY <1>5, <3>1, <3>2
  <2>2. PICK m \in Seq(Events) : /\ m = Append(s, x) /\ Len(m) = limit + 1 /\ m[limit + 1] = x
                                 /\ \A i \in 1 .. limit : m[i] = s[i]
    <3>1. PICK m \in Seq(Events) : m = Append(s, x)
      <4>1. Append(s, x) \in Seq(Events)
        OBVIOUS
      <4> QED
        BY <4>1
    <3>2. Len(m) = limit + 1 /\ m[limit + 1] = x
      BY <2>1, <3>1
    <3>3. \A i \in 1 .. limit : m[i] = s[i]
      BY <2>1, <3>1
    <3> QED
      BY <3>1, <3>2, <3>3
  <2>3. Keep(s, x, limit) = Tail(m)
    BY <2>2 DEF Keep
  <2>4. PICK t \in Seq(Events) : /\ t = Tail(m) /\ Len(t) = limit
                                 /\ \A i \in 1 .. limit : t[i] = m[i + 1]
    <3>1. m # <<>> /\ Tail(m) \in Seq(Events) /\ Len(Tail(m)) = limit
      BY <2>2
    <3>2. \A i \in 1 .. limit : Tail(m)[i] = m[i + 1]
      BY <2>2
    <3> QED
      BY <3>1, <3>2
  <2>5. PICK u \in Seq(Events) : /\ u = LastOf(b, limit) /\ Len(u) = limit
                                 /\ \A i \in 1 .. limit : u[i] = b[i + (n + 1 - limit)]
    <3>1. LastOf(b, limit) = SubSeq(b, n + 1 - limit + 1, n + 1)
      <4>1. Len(b) = n + 1 /\ ~(Len(b) <= limit)
        BY <1>2, <1>5
      <4>2. LastOf(b, limit) = SubSeq(b, Len(b) - limit + 1, Len(b))
        BY <4>1 DEF LastOf
      <4> QED
        BY <4>1, <4>2
    <3>2. PICK u \in Seq(Events) : u = SubSeq(b, n + 1 - limit + 1, n + 1)
      <4>1. n + 1 - limit + 1 \in 1 .. n + 1
        BY <1>5
      <4>2. SubSeq(b, n + 1 - limit + 1, n + 1) \in Seq(Events)
        BY <1>2, <4>1
      <4> QED
        BY <4>2
    <3>3. Len(u) = limit
      BY <1>2, <1>5, <3>2
    <3>4. ASSUME NEW i \in 1 .. limit PROVE u[i] = b[i + (n + 1 - limit)]
      <4>1. u[i] = b[(n + 1 - limit + 1) + i - 1]
        <5>1. PICK lo \in 1 .. n + 1 : lo = n + 1 - limit + 1
          BY <1>5
        <5>2. u = SubSeq(b, lo, n + 1) /\ i \in 1 .. (n + 1) - lo + 1
          BY <3>2, <5>1
        <5>3. u[i] = b[lo + i - 1]
          BY <1>2, <5>2
        <5> QED
          BY <5>1, <5>3
      <4>2. (n + 1 - limit + 1) + i - 1 = i + (n + 1 - limit)
        BY <1>5
      <4> QED
        BY <4>1, <4>2
    <3> QED
      BY <3>1, <3>2, <3>3, <3>4
  <2>6. ASSUME NEW i \in 1 .. limit PROVE t[i] = u[i]
    <3>1. t[i] = m[i + 1] /\ u[i] = b[i + (n + 1 - limit)]
      BY <2>4, <2>5
    <3>2. CASE i = limit
      <4>1. i + (n + 1 - limit) = n + 1
        BY <3>2
      <4> QED
        BY <1>3, <2>2, <3>1, <3>2, <4>1
    <3>3. CASE i < limit
      <4>1. i + 1 \in 1 .. limit /\ i + (n + 1 - limit) = (i + 1) + (n - limit)
            /\ (i + 1) + (n - limit) \in 1 .. n
        BY <1>5, <3>3
      <4>2. m[i + 1] = all[(i + 1) + (n - limit)]
        BY <2>1, <2>2, <4>1
      <4> QED
        BY <1>3, <3>1, <4>1, <4>2
    <3> QED
      BY <3>2, <3>3
  <2>7. t = u
    BY <2>4, <2>5, <2>6
  <2> QED
    BY <1>2, <2>1, <2>3, <2>4, <2>5, <2>7
<1> QED
  BY <1>1, <1>4, <1>5

\* h is the read loop's result after each of the first m lines of f.
Reads(h, f, matching, limit, m) ==
    h = [n \in 0 .. m |->
            IF n = 0 THEN <<>>
            ELSE IF Parses(f[n]) /\ MatchesQuery(Parsed(f[n]), matching)
                 THEN Keep(h[n - 1], Parsed(f[n]), limit) ELSE h[n - 1]]

\* The recursion that defines it is well founded.
LEMMA ReadsExist ==
  ASSUME NEW f, NEW matching, NEW limit, NEW m \in Nat
  PROVE  \E h : Reads(h, f, matching, limit, m)
<1> DEFINE D == {k \in 0 .. m : \E h : Reads(h, f, matching, limit, k)}
<1>1. 0 \in D
  <2> DEFINE h == [n \in 0 .. 0 |-> <<>>]
  <2>1. Reads(h, f, matching, limit, 0)
    BY DEF Reads
  <2> QED
    BY <2>1
<1>2. ASSUME NEW k \in 0 .. m - 1, k \in D PROVE k + 1 \in D
  <2>1. PICK h : Reads(h, f, matching, limit, k)
    BY <1>2
  <2> DEFINE Turn(q, n) == IF Parses(f[n]) /\ MatchesQuery(Parsed(f[n]), matching)
                           THEN Keep(q[n - 1], Parsed(f[n]), limit) ELSE q[n - 1]
             g == [n \in 0 .. k + 1 |-> IF n = k + 1 THEN Turn(h, n) ELSE h[n]]
  <2>2. ASSUME NEW n \in 0 .. k + 1 PROVE g[n] = IF n = 0 THEN <<>> ELSE Turn(g, n)
    <3>1. CASE n = 0
      <4>1. g[n] = h[n] /\ n \in 0 .. k
        BY <1>2, <3>1
      <4> QED
        BY <2>1, <3>1, <4>1 DEF Reads
    <3>2. CASE n \in 1 .. k
      <4>1. g[n] = h[n] /\ n \in 0 .. k /\ g[n - 1] = h[n - 1]
        BY <1>2, <3>2
      <4> QED
        BY <2>1, <3>2, <4>1 DEF Reads
    <3>3. CASE n = k + 1
      <4>1. g[n] = Turn(h, n) /\ g[n - 1] = h[n - 1]
        BY <1>2, <3>3
      <4> QED
        BY <1>2, <3>3, <4>1
    <3> QED
      BY <1>2, <3>1, <3>2, <3>3
  <2>3. Reads(g, f, matching, limit, k + 1)
    <3>1. g = [n \in 0 .. k + 1 |-> g[n]]
      OBVIOUS
    <3> QED
      BY <2>2, <3>1 DEF Reads
  <2> QED
    BY <1>2, <2>3
<1> HIDE DEF D
<1>3. m \in D
  BY <1>1, <1>2, UpTo
<1> QED
  BY <1>3 DEF D

\* The read loop's answer is the last of the events that match.
LEMMA ReadIs ==
  ASSUME NEW f \in Seq(Lines), NEW matching \in SUBSET Events, NEW limit \in Nat \ {0}
  PROVE  Read(f, matching, limit) = LastOf(Only(Readable(f), matching), limit)
<1>1. PICK n \in Nat : n = Len(f)
  OBVIOUS
<1> DEFINE h == CHOOSE q : Reads(q, f, matching, limit, Len(f))
<1>2. Reads(h, f, matching, limit, n) /\ Read(f, matching, limit) = h[n]
  BY <1>1, ReadsExist DEF Read, Reads
<1> HIDE DEF h
<1>3. h[0] = <<>>
  <2>1. 0 \in 0 .. n
    OBVIOUS
  <2> QED
    BY <1>2, <2>1 DEF Reads
<1>4. ASSUME NEW k \in 0 .. n - 1
      PROVE  h[k + 1] = IF Parses(f[k + 1]) /\ Parsed(f[k + 1]) \in matching
                        THEN Keep(h[k], Parsed(f[k + 1]), limit) ELSE h[k]
  <2>1. k + 1 \in 0 .. n /\ k + 1 # 0 /\ (k + 1) - 1 = k
    OBVIOUS
  <2> QED
    BY <1>2, <2>1 DEF Reads, MatchesQuery
<1> DEFINE Matched(k) == Only(Readable(SubSeq(f, 1, k)), matching)
           D == {k \in 0 .. n : h[k] = LastOf(Matched(k), limit)}
<1>5. 0 \in D
  <2>1. SubSeq(f, 1, 0) = <<>>
    OBVIOUS
  <2>2. Matched(0) = <<>>
    BY <2>1, ReadableEmpty, OnlyEmpty
  <2>3. LastOf(<<>>, limit) = <<>>
    BY DEF LastOf
  <2> QED
    BY <1>3, <2>2, <2>3
<1>6. ASSUME NEW k \in 0 .. n - 1, k \in D PROVE k + 1 \in D
  <2>1. PICK g \in Seq(Lines), l \in Lines : /\ g = SubSeq(f, 1, k) /\ l = f[k + 1]
                                             /\ SubSeq(f, 1, k + 1) = Append(g, l)
    <3>1. SubSeq(f, 1, k) \in Seq(Lines) /\ f[k + 1] \in Lines
      BY <1>1
    <3>2. SubSeq(f, 1, k + 1) = Append(SubSeq(f, 1, k), f[k + 1])
      BY <1>1
    <3> QED
      BY <3>1, <3>2
  <2>2. PICK r \in Seq(Events) : r = Readable(g)
    BY ReadableIs
  <2>3. Readable(SubSeq(f, 1, k + 1)) = IF Parses(l) THEN Append(r, Parsed(l)) ELSE r
    BY <2>1, <2>2, ReadableAppend
  <2>4. PICK all \in Seq(Events) : all = Only(r, matching)
    <3>1. Only(r, matching) \in Seq(Events \cap matching) /\ Events \cap matching \subseteq Events
      BY OnlyType
    <3>2. Only(r, matching) \in Seq(Events)
      BY <3>1, SeqMonotonic
    <3> QED
      BY <3>2
  <2>5. h[k] = LastOf(all, limit)
    BY <1>6, <2>1, <2>2, <2>4
  <2>6. k + 1 \in 0 .. n
    OBVIOUS
  <2>7. CASE Parses(l)
    <3>1. PICK x \in Events : x = Parsed(l)
      BY <2>7, ParsedIs
    <3>2. Matched(k + 1) = IF x \in matching THEN Append(all, x) ELSE all
      <4>1. Only(Append(r, x), matching) = IF x \in matching THEN Append(all, x) ELSE all
        BY <2>4, OnlyAppend
      <4> QED
        BY <2>3, <2>7, <3>1, <4>1
    <3>3. Keep(LastOf(all, limit), x, limit) = LastOf(Append(all, x), limit)
      BY KeepLast
    <3>4. h[k + 1] = IF x \in matching THEN Keep(h[k], x, limit) ELSE h[k]
      BY <1>4, <2>1, <2>7, <3>1
    <3> HIDE DEF Matched
    <3> QED
      BY <2>5, <2>6, <3>2, <3>3, <3>4
  <2>8. CASE ~Parses(l)
    <3>1. Matched(k + 1) = all
      BY <2>3, <2>4, <2>8
    <3>2. h[k + 1] = h[k]
      BY <1>4, <2>1, <2>8
    <3> HIDE DEF Matched
    <3> QED
      BY <2>5, <2>6, <3>1, <3>2
  <2> QED
    BY <2>7, <2>8
<1> HIDE DEF D, Matched
<1>7. n \in D
  BY <1>5, <1>6, UpTo
<1>8. Read(f, matching, limit) = LastOf(Matched(n), limit)
  BY <1>2, <1>7 DEF D
<1>9. SubSeq(f, 1, n) = f
  BY <1>1
<1> QED
  BY <1>8, <1>9 DEF Matched

-----------------------------------------------------------------------------
(* The theorems.                                                            *)

\* Every state of the file and of Repair's copy is well typed, and at most the
\* last line of either lacks its newline.
THEOREM TypeCorrect == Spec => []TypeOK
<1>1. IInv => TypeOK
  BY DEF IInv
<1> QED
  BY <1>1, IInvHolds, PTL

\* Of the acknowledged events no more are lost to readers than there were torn
\* writes, through any number of short writes, crashes and repairs.
THEOREM LossIsBounded == Spec => []LossBounded
<1>1. IInv => LossBounded
  <2> SUFFICES ASSUME IInv PROVE Cardinality(Lost) <= tears
    BY DEF LossBounded, Lost
  <2>1. Cardinality(Lost) \in Nat /\ tears \in Nat
    BY LostIs DEF IInv, ReadInv, TypeOK
  <2>2. CASE Open(file)
    BY <2>1, <2>2 DEF IInv, ReadInv, LossInv
  <2>3. CASE ~Open(file)
    BY <2>1, <2>3 DEF IInv, ReadInv, LossInv
  <2> QED
    BY <2>2, <2>3
<1> QED
  BY <1>1, IInvHolds, PTL

\* A query finds the acknowledged events in the order of their acknowledgement,
\* each once, and answers with the last of those that match, up to its limit.
THEOREM ReadsAreExact == Spec => []ReadsExact
<1>1. IInv => ReadInOrder
  BY DEF IInv, ReadInv, InOrder, ReadInOrder
<1>2. IInv => ReadIsLastMatching
  <2> SUFFICES ASSUME IInv, NEW matching \in SUBSET Events, NEW limit \in Limits
               PROVE  Read(file, matching, limit) = LastOf(Only(Readable(file), matching), limit)
    BY DEF ReadIsLastMatching, LastOf
  <2>1. file \in Seq(Lines) /\ limit \in Nat \ {0}
    BY StoreAssumption DEF IInv, TypeOK
  <2> QED
    BY <2>1, ReadIs
<1> QED
  BY <1>1, <1>2, IInvHolds, PTL DEF ReadsExact

\* Repair, finished, failed or cut off by a crash anywhere, changes nothing that
\* a reader finds; finished, it leaves whole lines only.
THEOREM RepairIsSound == Spec => RepairSound
<1> DEFINE Preserves == offered' = offered => Readable(file') = Readable(file)
           Cleans == RepairRename => \A i \in DOMAIN file' :
                        file'[i].ended /\ Len(file'[i].pieces) = 1 /\ Parses(file'[i])
<1>1. IInv /\ [Next]_vars => [Preserves]_vars
  <2> SUFFICES ASSUME IInv, Next, offered' = offered PROVE Readable(file') = Readable(file)
    OBVIOUS
  <2>1. ASSUME NEW e \in Events, CanAppend(e), offered' = offered \cup {e} PROVE FALSE
    BY <2>1 DEF CanAppend
  <2>2. CASE RepairRename
    BY <2>2, RenameReads
  <2>3. CASE file' = file
    BY <2>3
  <2> QED
    BY <2>1, <2>2, <2>3
       DEF Next, AppendOK, AppendBreaks, RepairBegin, RepairLine, RepairFails, Crash, Restart
<1>2. IInv /\ [Next]_vars => [Cleans]_vars
  <2> SUFFICES ASSUME IInv, RepairRename, NEW i \in DOMAIN file'
               PROVE  file'[i].ended /\ Len(file'[i].pieces) = 1 /\ Parses(file'[i])
    OBVIOUS
  <2>1. PICK e \in offered : file'[i] = Line(<<e>>, TRUE)
    BY RenameReads
  <2>2. PICK l : l = file'[i] /\ l.pieces = <<e>> /\ l.ended = TRUE /\ e \in Events
    BY <2>1 DEF Line, IInv, TypeOK
  <2>3. Only(<<e>>, Events \cup {Torn}) = <<e>>
    <3>1. <<e>> \in Seq(Events) /\ \A j \in DOMAIN <<e>> : <<e>>[j] \in Events \cup {Torn}
      BY <2>2
    <3> QED
      BY <3>1, OnlyAll
  <2>4. Trimmed(l) = <<e>> /\ Len(<<e>>) = 1
    BY <2>2, <2>3 DEF Trimmed
  <2> QED
    BY <2>2, <2>4 DEF Parses
<1> QED
  BY <1>1, <1>2, IInvHolds, PTL DEF Spec, RepairSound, RepairPreserves, RepairCleans
===============================================================================
