------------------------------ MODULE LineScan ------------------------------
(***************************************************************************)
(* The literal search of one file                                          *)
(* (local_tools/search.rs: LineScanState, scan_file).  The file arrives in *)
(* the chunks the reader happens to buffer; a line may spread over many of *)
(* them and is never held whole.  What is kept of a line is a bounded      *)
(* prefix to show and the last |literal| - 1 bytes, so that a literal cut  *)
(* by a chunk boundary is still found.                                     *)
(***************************************************************************)
EXTENDS Naturals, Sequences, FiniteSets, SequencesExt

CONSTANTS
  Byte,        \* the bytes of the instance
  NL, NUL,     \* newline and zero, two of them
  MaxFile,     \* longest file
  MaxLiteral,  \* longest literal
  MaxPrefix,   \* MAX_VISIBLE_LINE_BYTES
  MaxMatches,  \* MAX_SEARCH_MATCHES
  MaxOutput    \* MAX_OUTPUT_BYTES

ASSUME LineScanAssumption ==
  /\ {NL, NUL} \subseteq Byte /\ NL # NUL
  /\ {MaxFile, MaxLiteral, MaxPrefix, MaxMatches, MaxOutput} \subseteq Nat \ {0}

VARIABLES
  literal, rest,  \* what is searched for, what the reader has not delivered yet
  read,           \* history: the bytes delivered so far
  line,           \* LineScanState of the line being read
  found,          \* the records put out: line number and the bytes shown
  verdict         \* "idle", "scanning", "completed", "limit"

lineScanVars == <<literal, rest, read, line, found, verdict>>

Fresh(number) ==
  [number |-> number, prefix |-> <<>>, overlap |-> <<>>,
   matched |-> FALSE, nul |-> FALSE, data |-> FALSE]

LineScanInit ==
  /\ literal = <<>> /\ rest = <<>> /\ read = <<>>
  /\ line = Fresh(1)
  /\ found = <<>>
  /\ verdict = "idle"

\* search_repository opens a file of any content.  An empty literal and one with a
\* zero byte are refused there, and the parser lets no control character through.
Open ==
  /\ verdict = "idle"
  /\ literal' \in UNION {[1 .. n -> Byte \ {NL, NUL}] : n \in 1 .. MaxLiteral}
  /\ rest' \in UNION {[1 .. n -> Byte] : n \in 0 .. MaxFile}
  /\ verdict' = "scanning"
  /\ UNCHANGED <<read, line, found>>

Low(a, b) == IF a <= b THEN a ELSE b

FirstOf(s, n) == SubSeq(s, 1, Low(n, Len(s)))
LastOf(s, n) == SubSeq(s, Len(s) - n + 1, Len(s))

Holds(s, t) == \E i \in 0 .. Len(s) - Len(t) : SubSeq(s, i + 1, i + Len(t)) = t

\* LineScanState::push
Push_NoOverlap(l, bytes) ==
  [l EXCEPT !.data = @ \/ bytes # <<>>,
            !.nul = @ \/ NUL \in ToSet(bytes),
            !.prefix = @ \o FirstOf(bytes, MaxPrefix - Len(@)),
            !.matched = @ \/ Holds(bytes, literal)]

Push(l, bytes) ==
  LET window == l.overlap \o bytes
      seen   == [l EXCEPT !.data = @ \/ bytes # <<>>,
                          !.nul = @ \/ NUL \in ToSet(bytes),
                          !.prefix = @ \o FirstOf(bytes, MaxPrefix - Len(@))]
  IN  IF l.matched THEN seen
      ELSE [seen EXCEPT !.matched = Holds(window, literal),
                        !.overlap = LastOf(window, Low(Len(literal) - 1, Len(window)))]

Bytes(out) == FoldSeq(LAMBDA record, sum : sum + Len(record.shown) + 1, 0, out)

\* LineScanState::finish: the record of a matching line, unless the output is full;
\* the scan stops at a full output and at the last match it may report.
Emit(l, out) ==
  LET record == [number |-> l.number, shown |-> l.prefix]
  IN  IF ~l.matched \/ l.nul THEN [found |-> out, stop |-> FALSE]
      ELSE IF Bytes(Append(out, record)) > MaxOutput THEN [found |-> out, stop |-> TRUE]
      ELSE [found |-> Append(out, record), stop |-> Len(out) + 1 >= MaxMatches]

\* One turn of the loop over a buffer: up to the next newline, or all that is left.
TakeLine(scan) ==
  LET ends == {i \in 1 .. Len(scan.left) : scan.left[i] = NL}
      i    == CHOOSE i \in ends : \A j \in ends : i <= j
      put  == Emit(Push(scan.line, SubSeq(scan.left, 1, i - 1)), scan.found)
  IN  IF ends = {} THEN [scan EXCEPT !.left = <<>>, !.line = Push(@, scan.left)]
      ELSE [left |-> SubSeq(scan.left, i + 1, Len(scan.left)),
            line |-> Fresh(scan.line.number + 1), found |-> put.found, stop |-> put.stop]

\* The loop over one buffer.  It returns inside of it at the record that reaches the limit.
Scan(chunk, l, out) ==
  LET after[n \in 0 .. Len(chunk)] ==
        IF n = 0 THEN [left |-> chunk, line |-> l, found |-> out, stop |-> FALSE]
        ELSE LET last == after[n - 1]
             IN  IF last.stop \/ last.left = <<>> THEN last ELSE TakeLine(last)
  IN  after[Len(chunk)]

\* One fill_buf: the reader delivers any non-empty part of what is left.
Chunk ==
  /\ verdict = "scanning"
  /\ \E n \in 1 .. Len(rest) :
       LET chunk == SubSeq(rest, 1, n)
           after == Scan(chunk, line, found)
       IN  /\ read' = read \o chunk
           /\ rest' = SubSeq(rest, n + 1, Len(rest))
           /\ line' = after.line
           /\ found' = after.found
           /\ verdict' = IF after.stop THEN "limit" ELSE verdict
  /\ UNCHANGED literal

\* End of file: a last line without a newline counts when it has data.
Eof ==
  /\ verdict = "scanning" /\ rest = <<>>
  /\ LET put == IF line.data THEN Emit(line, found) ELSE [found |-> found, stop |-> FALSE]
     IN  /\ found' = put.found
         /\ verdict' = IF put.stop THEN "limit" ELSE "completed"
  /\ line' = IF line.data THEN Fresh(line.number + 1) ELSE line
  /\ UNCHANGED <<literal, rest, read>>

LineScanNext == Open \/ Chunk \/ Eof

LineScanSpec == LineScanInit /\ [][LineScanNext]_lineScanVars

-----------------------------------------------------------------------------
(* The reference: lines of the whole file, each searched at once           *)

\* The lines of s: its maximal runs without a newline, an empty last one left out.
LineStarts(s) == {1} \cup {i + 1 : i \in {j \in 1 .. Len(s) : s[j] = NL}}
LineEnd(s, a) == CHOOSE b \in a - 1 .. Len(s) : /\ b = Len(s) \/ s[b + 1] = NL
                                              /\ \A j \in a .. b : s[j] # NL
LineAt(s, a) == SubSeq(s, a, LineEnd(s, a))
NumberOf(s, a) == Cardinality({j \in 1 .. a - 1 : s[j] = NL}) + 1

HitLines(s) ==
  {a \in LineStarts(s) : /\ a <= Len(s)
                         /\ Holds(LineAt(s, a), literal)
                         /\ NUL \notin ToSet(LineAt(s, a))}
HitAt(s, a) == [number |-> NumberOf(s, a), shown |-> FirstOf(LineAt(s, a), MaxPrefix)]
Hits(s) == {HitAt(s, a) : a \in HitLines(s)}

\* search.rs:177: whatever the chunks, a finished scan reports exactly the lines that
\* hold the literal, in order, each once, with the start of the line that holds it;
\* a scan that stopped at a limit reports the first of them.
ScanExact ==
  /\ verdict = "completed" => ToSet(found) = Hits(read) /\ Len(found) = Cardinality(Hits(read))
  /\ verdict = "limit" => /\ ToSet(found) \subseteq Hits(read)
                          /\ \A h \in Hits(read) \ ToSet(found) :
                               \A f \in ToSet(found) : f.number < h.number
  /\ \A i \in 1 .. Len(found) - 1 : found[i].number < found[i + 1].number
=============================================================================
