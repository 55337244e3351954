-------------------------- MODULE OutputSanitizer --------------------------
(* The redaction of one model output while it is streamed: one search per      *)
(* credential (Knuth, Morris and Pratt), their occurrences merged by a heap,   *)
(* the rest emitted in batches that are kept only while they fit.              *)
EXTENDS Naturals, Sequences, SequencesExt

CONSTANTS
    Width,         \* bytes of each character
    MaxText, MaxPattern, MaxPatterns,
    Batch,         \* bytes of a batch
    Limit,         \* bytes of an output that may be retained
    MarkerWidth    \* bytes of "[REDACTED]"

Characters == DOMAIN Width

ConstantsAreLegal ==
    /\ Width \in [Characters -> Nat \ {0}]
    /\ {MaxText, MaxPattern, MaxPatterns, Batch, MarkerWidth} \subseteq Nat \ {0} /\ Limit \in Nat

-----------------------------------------------------------------------------
(* Bytes are pairs of a character and a position within it.                    *)
BytesOf(c) == [i \in 1 .. Width[c] |-> <<c, i>>]
Utf8(s) == FlattenSeq([i \in DOMAIN s |-> BytesOf(s[i])])
Marker == [i \in 1 .. MarkerWidth |-> <<"redacted", i>>]

Credentials == BoundedSeq(Characters, MaxPattern) \ {<<>>}

(* Longest in bytes first; the ties are broken by some fixed order.            *)
Compilations ==
    { p \in BoundedSeq(Credentials, MaxPatterns) :
        \A i, j \in DOMAIN p : i < j => p[i] # p[j] /\ Len(Utf8(p[i])) >= Len(Utf8(p[j])) }

-----------------------------------------------------------------------------
(* One search: how much of the pattern is matched before the character at an   *)
(* offset, and the first occurrence that ends at that offset or later.         *)

(* What is matched when the next character is c.                              *)
Fallback(pattern, borders, matched, c) ==
    LET f[m \in 0 .. matched] ==
          IF pattern[m + 1] = c THEN m + 1 ELSE IF m = 0 THEN 0 ELSE f[borders[m]]
    IN  f[matched]

PrefixLengths(pattern) ==
    LET borders[i \in 1 .. Len(pattern)] ==
          IF i = 1 THEN 0 ELSE Fallback(pattern, borders, borders[i - 1], pattern[i])
    IN  borders

(* Variant: after an occurrence the search starts over.                        *)
ResumeAtNothing(pattern, matched) == IF matched = Len(pattern) THEN 0 ELSE matched

Resume(pattern, matched) ==
    IF matched = Len(pattern) THEN PrefixLengths(pattern)[matched] ELSE matched

Exhausted == [at |-> 0, offset |-> 0, matched |-> 0]

(* next(iterator): from an offset and a match on.                              *)
NextOccurrence(string, pattern, from, match) ==
    LET matched[o \in from - 1 .. Len(string)] ==
          IF o < from THEN match
          ELSE Fallback(pattern, PrefixLengths(pattern), Resume(pattern, matched[o - 1]), string[o])
        ends == { o \in from .. Len(string) : matched[o] = Len(pattern) }
    IN  IF ends = {} THEN Exhausted
        ELSE [at |-> Min(ends) - Len(pattern), offset |-> Min(ends) + 1, matched |-> Len(pattern)]

VARIABLES
    value, patterns,
    occurrences,   \* the heap: for each pattern its next occurrence, or Exhausted
    sourceIndex, count,
    buffer, byteLength,
    retained,      \* the set of the bytes kept so far; empty once they are dropped
    pc             \* "merging" or "done"

vars == <<value, patterns, occurrences, sourceIndex, count, buffer, byteLength, retained, pc>>

Init ==
    /\ value \in BoundedSeq(Characters, MaxText) \ {<<>>}
    /\ patterns \in Compilations
    /\ occurrences = [i \in DOMAIN patterns |-> NextOccurrence(value, patterns[i], 1, 0)]
    /\ sourceIndex = 0 /\ count = 0
    /\ buffer = <<>> /\ byteLength = 0 /\ retained = {<<>>}
    /\ pc = "merging"

-----------------------------------------------------------------------------
(* Emission: whole batches leave the buffer; a batch that no longer fits drops *)
(* all that was retained, and nothing is retained after it.                    *)

Stream == [buffer |-> buffer, length |-> byteLength, retained |-> retained]

Recorded(s, chunk) ==
    LET length == s.length + Len(chunk)
    IN  [s EXCEPT !.length = length,
                  !.retained = IF length > Limit THEN {} ELSE { bytes \o chunk : bytes \in @ }]

Flushed(s) ==
    IF s.buffer = <<>> THEN s ELSE [Recorded(s, s.buffer) EXCEPT !.buffer = <<>>]

Put(s, byte) ==
    LET t == [s EXCEPT !.buffer = Append(@, byte)]
    IN  IF Len(t.buffer) = Batch THEN Flushed(t) ELSE t

Emit(s, bytes) ==
    LET put[i \in 0 .. Len(bytes)] == IF i = 0 THEN s ELSE Put(put[i - 1], bytes[i])
    IN  put[Len(bytes)]

Span(from, to) == Utf8(SubSeq(value, from + 1, to))

Streamed(s) == buffer' = s.buffer /\ byteLength' = s.length /\ retained' = s.retained

(* The least occurrence, and of several at one place the longest pattern.      *)
Pending == { i \in DOMAIN patterns : occurrences[i] # Exhausted }
Precedes(i, j) ==
    \/ occurrences[i].at < occurrences[j].at
    \/ occurrences[i].at = occurrences[j].at /\ i <= j

Advanced(i) ==
    NextOccurrence(value, patterns[i], occurrences[i].offset, occurrences[i].matched)

Pop(i) ==
    /\ pc = "merging" /\ i \in Pending /\ \A j \in Pending : Precedes(i, j)
    /\ LET at == occurrences[i].at
       IN  IF at >= sourceIndex
              THEN /\ Streamed(Emit(Emit(Stream, Span(sourceIndex, at)), Marker))
                   /\ count' = count + 1 /\ sourceIndex' = at + Len(patterns[i])
              ELSE UNCHANGED <<buffer, byteLength, retained, count, sourceIndex>>
    /\ occurrences' = [occurrences EXCEPT ![i] = Advanced(i)]
    /\ UNCHANGED <<value, patterns, pc>>

Finish ==
    /\ pc = "merging" /\ Pending = {} /\ pc' = "done"
    /\ Streamed(Flushed(Emit(Stream, Span(sourceIndex, Len(value)))))
    /\ UNCHANGED <<value, patterns, occurrences, sourceIndex, count>>

Next == Finish \/ \E i \in 1 .. MaxPatterns : i \in DOMAIN patterns /\ Pop(i)

Spec == Init /\ [][Next]_vars

-----------------------------------------------------------------------------
(* The other implementation, for diagnostics: at every offset the first        *)
(* pattern that matches there is replaced, and the scan goes on behind it.     *)

Matches(s, offset, pattern) ==
    /\ offset + Len(pattern) <= Len(s)
    /\ SubSeq(s, offset + 1, offset + Len(pattern)) = pattern

Selected(o) == { i \in DOMAIN patterns : Matches(value, o, patterns[i]) }

Scanned(s) ==
    IF s.offset = Len(value) THEN s
    ELSE IF Selected(s.offset) = {}
            THEN [s EXCEPT !.offset = @ + 1, !.bytes = @ \o BytesOf(value[s.offset + 1])]
            ELSE [offset |-> s.offset + Len(patterns[Min(Selected(s.offset))]),
                  bytes |-> s.bytes \o Marker, count |-> s.count + 1]

(* Every round of the loop moves on.                                           *)
Replaced ==
    LET scan[i \in 0 .. Len(value)] ==
          IF i = 0 THEN [offset |-> 0, bytes |-> <<>>, count |-> 0] ELSE Scanned(scan[i - 1])
    IN  scan[Len(value)]

(* The stream that leaves is what the scan for diagnostics makes of the same   *)
(* text, credential for credential, however occurrences overlap; it is         *)
(* retained, whole, exactly if it fits.                                        *)
RedactionsAgree ==
    pc = "done" =>
        /\ count = Replaced.count
        /\ byteLength = Len(Replaced.bytes)
        /\ retained = IF byteLength <= Limit THEN {Replaced.bytes} ELSE {}
=============================================================================
