----------------------------- MODULE JSONLStore -----------------------------
(***************************************************************************)
(* The event file (internal/storage/jsonl.go): appends, reads and Repair    *)
(* under one mutex, short writes and crashes.  A line is the pieces written *)
(* between two newlines: whole records, torn ones, runs of NUL bytes.  The  *)
(* mutex makes an Append or a read one step; Repair, which copies the file  *)
(* and renames the copy, is several, so that a crash may come between.      *)
(***************************************************************************)
EXTENDS Lists, FiniteSets, SequencesExt

CONSTANTS Events,      \* the events; each is appended at most once
          InitFiles,   \* the files found at the first start
          Torn, Nul,   \* a piece that is part of a record; a run of NUL bytes
          Limits,      \* the limits that queries have; a limit of 0 is replaced
          MaxBreaks    \* bound: short writes, failures and crashes

Lines == [pieces : Seq(Events \cup {Torn, Nul}), ended : BOOLEAN]

ASSUME StoreAssumption ==
    /\ Torn \notin Events /\ Nul \notin Events /\ Torn # Nul
    /\ InitFiles \subseteq Seq(Lines)
    /\ \A f \in InitFiles : \A i \in 1 .. Len(f) - 1 : f[i].ended
    /\ Limits \subseteq Nat \ {0} /\ MaxBreaks \in Nat

VARIABLES file,     \* the lines of the file; only the last may lack its newline
          tmp,      \* the lines of the .repair.tmp file
          repair,   \* where Repair stands
          next,     \* the line Repair reads next
          up,       \* the process is running
          offered,  \* history: events given to Append
          acked,    \* history: events whose Append returned nil, in order
          tears,    \* history: writes that left the last line without its newline
          breaks    \* history: failures and crashes so far

vars == <<file, tmp, repair, next, up, offered, acked, tears, breaks>>

Line(pieces, ended) == [pieces |-> pieces, ended |-> ended]
Open(f) == f # <<>> /\ ~Last(f).ended

\* O_APPEND: what is written continues a last line that has no newline.
Written(f, pieces, ended) ==
    IF Open(f) THEN Append(Front(f), Line(Last(f).pieces \o pieces, ended))
               ELSE Append(f, Line(pieces, ended))

Init ==
    /\ file \in InitFiles /\ tmp = <<>> /\ repair = "idle" /\ next = 1 /\ up = TRUE
    /\ offered = {e \in Events : \E i \in DOMAIN file : e \in ToSet(file[i].pieces)}
    /\ acked = <<>> /\ breaks = 0
    /\ tears = IF Open(file) THEN 1 ELSE 0

-----------------------------------------------------------------------------
(* parseLine and ReadFiltered.                                              *)

\* sanitizeJSONLLine trims NUL bytes at both ends; what is left decodes when it
\* is one whole record.  (NUL bytes between two pieces are not trimmed, but two
\* pieces do not decode without them either.)
Trimmed(line) == Only(line.pieces, Events \cup {Torn})
Parses(line) == \E e \in Events : Trimmed(line) = <<e>>
Parsed(line) == Trimmed(line)[1]

\* The lines that decode, and the events that a reader finds in a file.
Whole == {line \in Lines : Parses(line)}
Readable(f) == LET whole == Only(f, Whole) IN [i \in DOMAIN whole |-> Parsed(whole[i])]

\* A query is the set of events that pass its tests.
MatchesQuery(e, matching) == e \in matching

\* Mutant: the first limit events are kept, and not the last.
MutKeep(kept, e, limit) == IF Len(kept) < limit THEN Append(kept, e) ELSE kept

\* One more event that matches: the oldest goes when there are more than limit.
Keep(kept, e, limit) ==
    LET more == Append(kept, e) IN IF Len(more) > limit THEN Tail(more) ELSE more

\* The read loop.
Read(f, matching, limit) ==
    LET kept[n \in 0 .. Len(f)] ==
            IF n = 0 THEN <<>>
            ELSE IF Parses(f[n]) /\ MatchesQuery(Parsed(f[n]), matching)
                 THEN Keep(kept[n - 1], Parsed(f[n]), limit) ELSE kept[n - 1]
    IN  kept[Len(f)]

-----------------------------------------------------------------------------
(* Append, while no Repair holds the mutex.                                 *)

CanAppend(e) == up /\ repair = "idle" /\ e \notin offered

AppendOK(e) ==
    /\ CanAppend(e)
    /\ file' = Written(file, <<e>>, TRUE)
    /\ offered' = offered \cup {e} /\ acked' = Append(acked, e)
    /\ UNCHANGED <<tmp, repair, next, up, tears, breaks>>

\* What a write that was cut short leaves behind: nothing, part of the record,
\* or the record without its newline.
CutShort(e) == {<<>>, <<Torn>>, <<e>>}

\* The write fails, and Append returns the error; or the process dies in it.
AppendBreaks(e, pieces, dies) ==
    /\ CanAppend(e) /\ breaks < MaxBreaks
    /\ pieces \in CutShort(e)
    /\ file' = IF pieces = <<>> THEN file ELSE Written(file, pieces, FALSE)
    /\ tears' = IF pieces = <<>> THEN tears ELSE tears + 1
    /\ offered' = offered \cup {e}
    /\ up' = ~dies /\ breaks' = breaks + 1
    /\ UNCHANGED <<tmp, repair, next, acked>>

-----------------------------------------------------------------------------
(* Repair                                                                   *)

\* Mutant: the copy is opened without O_TRUNC, over what a failed one left.
MutRepairBegin ==
    /\ up /\ repair = "idle"
    /\ repair' = "copying" /\ next' = 1
    /\ UNCHANGED <<file, tmp, up, offered, acked, tears, breaks>>

RepairBegin ==
    /\ up /\ repair = "idle"
    /\ repair' = "copying" /\ next' = 1 /\ tmp' = <<>>
    /\ UNCHANGED <<file, up, offered, acked, tears, breaks>>

\* Mutant: a line is dropped unless it is clean as it stands.
MutRepairLine ==
    /\ up /\ repair = "copying" /\ next <= Len(file)
    /\ tmp' = IF Parses(file[next]) /\ Len(file[next].pieces) = 1
              THEN Written(tmp, file[next].pieces, TRUE) ELSE tmp
    /\ next' = next + 1
    /\ UNCHANGED <<file, repair, up, offered, acked, tears, breaks>>

\* Mutant: the line is copied as it was read, and not as it was sanitized.
MutRepairRaw ==
    /\ up /\ repair = "copying" /\ next <= Len(file)
    /\ tmp' = IF Parses(file[next]) THEN Written(tmp, file[next].pieces, TRUE) ELSE tmp
    /\ next' = next + 1
    /\ UNCHANGED <<file, repair, up, offered, acked, tears, breaks>>

RepairLine ==
    /\ up /\ repair = "copying" /\ next <= Len(file)
    /\ tmp' = IF Parses(file[next]) THEN Written(tmp, <<Parsed(file[next])>>, TRUE)
                                    ELSE tmp
    /\ next' = next + 1
    /\ UNCHANGED <<file, repair, up, offered, acked, tears, breaks>>

\* Mutant: the copy is renamed before the buffered writer is flushed.
MutRepairRename ==
    /\ up /\ repair = "copying" /\ next > Len(file)
    /\ file' = (IF tmp = <<>> THEN <<>> ELSE Front(tmp)) /\ tmp' = <<>>
    /\ repair' = "idle" /\ next' = 1
    /\ UNCHANGED <<up, offered, acked, tears, breaks>>

\* Mutant: the reader's position outlives the file it was a position in.
MutRepairStays ==
    /\ up /\ repair = "copying" /\ next > Len(file)
    /\ file' = tmp /\ tmp' = <<>> /\ repair' = "idle"
    /\ UNCHANGED <<next, up, offered, acked, tears, breaks>>

RepairRename ==
    /\ up /\ repair = "copying" /\ next > Len(file)
    /\ file' = tmp /\ tmp' = <<>>
    /\ repair' = "idle" /\ next' = 1
    /\ UNCHANGED <<up, offered, acked, tears, breaks>>

\* A read, write, close or rename fails: Repair returns, the copy is left.
RepairFails(pieces) ==
    /\ up /\ repair = "copying" /\ breaks < MaxBreaks
    /\ pieces \in {<<>>, <<Torn>>}
    /\ tmp' = IF pieces = <<>> THEN tmp ELSE Written(tmp, pieces, FALSE)
    /\ repair' = "idle" /\ next' = 1 /\ breaks' = breaks + 1
    /\ UNCHANGED <<file, up, offered, acked, tears>>

-----------------------------------------------------------------------------

Crash ==
    /\ up /\ breaks < MaxBreaks
    /\ up' = FALSE /\ breaks' = breaks + 1 /\ repair' = "idle" /\ next' = 1
    /\ UNCHANGED <<file, tmp, offered, acked, tears>>

\* NewJSONLStore looks at neither file.
Restart ==
    /\ ~up
    /\ up' = TRUE
    /\ UNCHANGED <<file, tmp, repair, next, offered, acked, tears, breaks>>

Next ==
    \/ \E e \in Events :
          \/ AppendOK(e)
          \/ \E pieces \in CutShort(e), dies \in BOOLEAN : AppendBreaks(e, pieces, dies)
    \/ RepairBegin \/ RepairLine \/ RepairRename
    \/ \E pieces \in {<<>>, <<Torn>>} : RepairFails(pieces)
    \/ Crash \/ Restart

Spec == Init /\ [][Next]_vars

-----------------------------------------------------------------------------

TypeOK ==
    /\ file \in Seq(Lines) /\ tmp \in Seq(Lines)
    /\ \A f \in {file, tmp} : \A i \in 1 .. Len(f) - 1 : f[i].ended
    /\ repair \in {"idle", "copying"} /\ next \in 1 .. Len(file) + 1
    /\ up \in BOOLEAN /\ offered \subseteq Events /\ acked \in Seq(Events)
    /\ tears \in Nat /\ breaks \in 0 .. MaxBreaks

\* An acknowledged event is lost only to a torn write right before it: there
\* are never more acknowledged events that no reader finds than there were
\* torn writes, through any number of crashes and repairs.
LossBounded ==
    Cardinality(ToSet(acked) \ ToSet(Readable(file))) <= tears

\* Acknowledged events are read in the order they were acknowledged, each once.
ReadInOrder ==
    LET readable == ToSet(Readable(file))
    IN  Only(Readable(file), ToSet(acked)) = Only(acked, readable)

\* Repair, finished, failed or cut off by a crash at any point, changes nothing
\* a reader sees; and no step but an append changes it.
RepairPreserves ==
    [][offered' = offered => Readable(file') = Readable(file)]_vars

\* After a Repair that succeeded every line is one whole record.
RepairCleans ==
    [][RepairRename => \A i \in DOMAIN file' :
          file'[i].ended /\ Len(file'[i].pieces) = 1 /\ Parses(file'[i])]_vars

\* A read returns the last limit matching events, in file order.
ReadIsLastMatching ==
    \A matching \in SUBSET Events, limit \in Limits :
        LET all == Only(Readable(file), matching)
            n   == Len(all)
        IN  Read(file, matching, limit)
              = IF n <= limit THEN all ELSE SubSeq(all, n - limit + 1, n)

\* What a query answers is the acknowledged events, in their order, up to its
\* limit.
ReadsExact == ReadInOrder /\ ReadIsLastMatching

\* Repair cleans the file and loses nothing a reader could find.
RepairSound == RepairPreserves /\ RepairCleans
=============================================================================
