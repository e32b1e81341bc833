------------------------------ MODULE KConfig ------------------------------
(***************************************************************************)
(* The layers of kioslaverc (src/src/sys/linux/kde.rs and the entries of   *)
(* kioslaverc.rs): the file of the user and those of the system, read from *)
(* the least specific to the most specific, with the locks of KConfig.     *)
(*                                                                         *)
(* One key of `[Proxy Settings]` is followed.  A line is a header or an    *)
(* entry of that key.  A header opens the group, perhaps locking it        *)
(* (`group`), or another group, locks the file (`file`, which names no     *)
(* group), or is broken.  An entry carries the flags $i and $d, of which   *)
(* what comes after $d is not read: `di` is `d`.                           *)
(***************************************************************************)
EXTENDS Naturals, Sequences, SequencesExt

Headers == {"proxy", "locked", "other", "file", "broken"}
Flags == {"none", "i", "d", "id", "di"}
Lines == [header : Headers, flags : {"none"}] \cup [header : {"entry"}, flags : Flags]

Missing == [state |-> "missing", lines |-> <<>>]
Unreadable == [state |-> "failed", lines |-> <<>>]

\* The value of an entry is its place, <<layer, line>>; <<>> is none.
NoEntry == [value |-> <<>>, immutable |-> FALSE]
Deletes(flags) == flags \in {"d", "id", "di"}
Freezes(flags) == flags \in {"i", "id"}

\* apply that forgets what was frozen.
ApplyOver(entry, line, place, locked) ==
    [value |-> IF Deletes(line.flags) THEN <<>> ELSE place,
     immutable |-> locked \/ Freezes(line.flags)]

\* KioslavercSettings::apply.  A deletion leaves a tombstone, which freezes as
\* an entry does.
apply(entry, line, place, locked) ==
    IF entry.immutable THEN entry
    ELSE [value |-> IF Deletes(line.flags) THEN <<>> ELSE place,
          immutable |-> locked \/ Freezes(line.flags)]

\* apply_proxy_settings, its loop: one line of a layer.  `in` is
\* in_proxy_settings, `lock` current_group_immutable, `pending`
\* pending_group_immutable.
ScanLine(scan, line, place) ==
    LET file == scan.file \/ line.header = "file"
        in == line.header \in {"proxy", "locked"}
        lock == in /\ (file \/ line.header = "locked") IN
    CASE line.header = "entry" ->
            IF scan.in /\ ~scan.was
            THEN [scan EXCEPT !.entry = apply(@, line, place, scan.lock)] ELSE scan
      [] line.header = "broken" -> [scan EXCEPT !.lock = scan.in /\ scan.file]
      [] line.header \notin {"entry", "broken"} ->
            [scan EXCEPT !.file = file, !.in = in, !.lock = lock,
                         !.pending = @ \/ lock, !.found = @ \/ in]

\* The group's lock holds from the next file on.
ScanBegins(read) ==
    [entry |-> read.entry, found |-> read.found, was |-> read.group,
     in |-> FALSE, lock |-> FALSE, pending |-> FALSE, file |-> FALSE]

ScanFile(read, lines, layer) ==
    LET end == FoldLeftDomain(LAMBDA s, i : ScanLine(s, lines[i], <<layer, i>>),
                              ScanBegins(read), lines)
    IN
    [read EXCEPT !.entry = end.entry, !.found = end.found,
                 !.group = @ \/ end.pending, !.done = end.file, !.any = TRUE]

\* read_kioslaverc: a missing layer is passed over, a layer that cannot be read
\* ends in an error, and a locked file is the last.
ReadLayer(r, layer, n) ==
    CASE r.done \/ r.failed \/ layer.state = "missing" -> r
      [] ~r.done /\ ~r.failed /\ layer.state = "failed" -> [r EXCEPT !.failed = TRUE]
      [] ~r.done /\ ~r.failed /\ layer.state = "read" -> ScanFile(r, layer.lines, n)

ReadBegins ==
    [entry |-> NoEntry, found |-> FALSE, group |-> FALSE, done |-> FALSE,
     failed |-> FALSE, any |-> FALSE]

read_kioslaverc(layers) ==
    FoldLeftDomain(LAMBDA r, n : ReadLayer(r, layers[n], n), ReadBegins, layers)

\* read_store, of the key ProxyType.
KdeReading(layers) ==
    LET read == read_kioslaverc(layers) IN
    CASE read.failed -> <<"failed">>
      [] ~read.failed /\ ~read.any -> <<"absent">>
      [] ~read.failed /\ read.any /\ read.entry.value = <<>> -> <<"unset">>
      [] ~read.failed /\ read.any /\ read.entry.value # <<>> ->
            <<"configured", read.entry.value>>

-----------------------------------------------------------------------------
(* What KConfig means by the layers, said of all their lines at once.      *)

\* The layers there are, up to the first that is locked as a file.
ReadLayers(layers) ==
    {n \in 1 .. Len(layers) :
        /\ layers[n].state # "missing"
        /\ \A m \in 1 .. n - 1 :
               /\ layers[m].state # "failed"
               /\ \A i \in 1 .. Len(layers[m].lines) :
                      layers[m].lines[i].header # "file"}

\* The last line before i that is one of these headers; 0 if there is none.
LastOf(lines, i, headers) ==
    LET before == {j \in 1 .. i - 1 : lines[j].header \in headers} IN
    IF before = {} THEN 0 ELSE CHOOSE j \in before : \A k \in before : k <= j

InGroup(lines, i) ==
    LET last == LastOf(lines, i, Headers \ {"broken"}) IN
    last # 0 /\ lines[last].header \in {"proxy", "locked"}

\* A lock of the file covers what follows the next header of the group; that of
\* the group what follows its own header, up to the next line in brackets.
Locked(lines, i) ==
    LET last == LastOf(lines, i, Headers) IN
    /\ InGroup(lines, i)
    /\ \/ lines[last].header = "locked"
       \/ \E j \in 1 .. last : lines[j].header = "file"

\* Whether a layer locks the group for those that are more specific.
LocksGroup(lines) ==
    \E i \in 1 .. Len(lines) :
        \/ lines[i].header = "locked"
        \/ /\ lines[i].header = "proxy"
           /\ \E j \in 1 .. i : lines[j].header = "file"

\* The entries that count, in the order of the layers and of their lines.
Entries(layers) ==
    {p \in UNION {{n} \X (1 .. Len(layers[n].lines)) : n \in ReadLayers(layers)} :
        LET lines == layers[p[1]].lines IN
        /\ lines[p[2]].header = "entry"
        /\ InGroup(lines, p[2])
        /\ \A m \in ReadLayers(layers) :
               m < p[1] => ~LocksGroup(layers[m].lines)}

Precedes(p, q) == p[1] < q[1] \/ (p[1] = q[1] /\ p[2] < q[2])

\* The most specific entry wins, unless one before it is immutable: then the
\* first of those does.
KdeMeans(layers) ==
    LET entries == Entries(layers)
        line(p) == layers[p[1]].lines[p[2]]
        frozen == {p \in entries :
                      \/ Locked(layers[p[1]].lines, p[2])
                      \/ line(p).flags \in {"i", "id"}}
        winner == IF frozen # {}
                  THEN CHOOSE p \in frozen : \A q \in frozen : p = q \/ Precedes(p, q)
                  ELSE CHOOSE p \in entries : \A q \in entries : p = q \/ Precedes(q, p)
    IN
    IF \E n \in ReadLayers(layers) : layers[n].state = "failed" THEN <<"failed">>
    ELSE IF ReadLayers(layers) = {} THEN <<"absent">>
    ELSE IF entries = {} \/ Deletes(line(winner).flags) THEN <<"unset">>
    ELSE <<"configured", winner>>
=============================================================================
