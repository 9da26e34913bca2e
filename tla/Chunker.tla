------------------------------- MODULE Chunker -------------------------------
(***************************************************************************)
(* How the indexer cuts a file into chunks for retrieval                   *)
(* (indexer/chunk.go): the symbols of the parser and what lies between     *)
(* them are units; a unit with too many tokens is split by a binary search *)
(* for the longest prefix that fits; the pieces are packed into chunks.    *)
(*                                                                         *)
(* A byte is one of its classes: "w" a word character of one byte, "L" and *)
(* "c" the first and a following byte of one of several, "s" a separator,  *)
(* "n" the newline.  Offsets count from 0, as in the code; a unit is the   *)
(* bytes from its start up to but not including its end.  Counter is the   *)
(* built-in approximateCounter, which counts words.                        *)
(***************************************************************************)
EXTENDS Naturals, FiniteSets, SequencesExt

CONSTANTS
  Contents,   \* files, as sequences of byte classes
  Names,      \* what a symbol may be called
  Symbols(_), \* the sequences of symbols, by start, that may be given with a file
  Limits      \* pairs of the least and the greatest number of tokens

NoSymbol == ""
Unit(start, end, symbol) == [start |-> start, end |-> end, symbol |-> symbol]
Units == [start : Nat, end : Nat, symbol : Names]

\* A file is UTF-8 text, a symbol of the parser begins and ends between two
\* characters, and the limits have their defaults.
ASSUME ContentsAssumption ==
  \A content \in Contents :
    /\ content \in Seq({"w", "L", "c", "s", "n"})
    /\ \A i \in DOMAIN content : content[i] = "c" => i > 1 /\ content[i - 1] \in {"L", "c"}
    /\ Symbols(content) \subseteq Seq(Units)
    /\ \A symbols \in Symbols(content) : \A i \in DOMAIN symbols :
         \A offset \in {symbols[i].start, symbols[i].end} :
           offset < Len(content) => content[offset + 1] # "c"
ASSUME NamesAssumption  == NoSymbol \in Names
ASSUME LimitsAssumption == Limits \subseteq (Nat \ {0}) \X (Nat \ {0})

VARIABLES
  file,    \* content, symbols, minimum and maximum of the call
  pc, units, pieces, chunks,
  search   \* splitPiece and boundedEnd: start, low, high, best

chunkVars == <<file, pc, units, pieces, chunks, search>>

Byte(content, i) == content[i + 1]
IsWord(b) == b \in {"w", "L", "c"}

\* Count of content[a:b]: the runs of word characters.
Count(content, a, b) ==
  Cardinality({i \in a..(b - 1) : /\ IsWord(Byte(content, i))
                                  /\ i = a \/ ~IsWord(Byte(content, i - 1))})

\* symbolUnits: a symbol that overlaps the one before it, is empty or leaves the
\* file refuses the file.
SymbolsFit(content, symbols) ==
  \A i \in DOMAIN symbols :
    /\ symbols[i].start < symbols[i].end
    /\ symbols[i].end <= Len(content)
    /\ i > 1 => symbols[i - 1].end <= symbols[i].start

Between(start, end) == IF start < end THEN <<Unit(start, end, NoSymbol)>> ELSE <<>>

UnitsWithoutTail(content, symbols) ==
  FlattenSeq([i \in DOMAIN symbols |->
    Between(IF i = 1 THEN 0 ELSE symbols[i - 1].end, symbols[i].start) \o <<symbols[i]>>])

SymbolUnits(content, symbols) ==
  FlattenSeq([i \in DOMAIN symbols |->
    Between(IF i = 1 THEN 0 ELSE symbols[i - 1].end, symbols[i].start) \o <<symbols[i]>>])
  \o Between(IF symbols = <<>> THEN 0 ELSE Last(symbols).end, Len(content))

NoSearch == [start |-> 0, low |-> 0, high |-> 0, best |-> 0]

ChunkInit ==
  /\ \E content \in Contents, limits \in Limits : \E symbols \in Symbols(content) :
       file = [content |-> content, symbols |-> symbols, minimum |-> limits[1], maximum |-> limits[2]]
  /\ pc = "units"
  /\ units = <<>> /\ pieces = <<>> /\ chunks = <<>>
  /\ search = NoSearch

\* Chunk, up to the loop over the units.
MakeUnits ==
  /\ pc = "units"
  /\ IF file.minimum > file.maximum \/ ~SymbolsFit(file.content, file.symbols)
     THEN pc' = "refused" /\ UNCHANGED units
     ELSE pc' = "split" /\ units' = SymbolUnits(file.content, file.symbols)
  /\ UNCHANGED <<file, pieces, chunks, search>>

Piece(start, end, symbol) ==
  [start |-> start, end |-> end, symbol |-> symbol, tokens |-> Count(file.content, start, end)]

From(start, unit) == [start |-> start, low |-> start + 1, high |-> unit.end, best |-> start]

\* splitPiece: a unit that fits is one piece.
SplitUnit ==
  /\ pc = "split" /\ units # <<>>
  /\ LET unit == Head(units)
         whole == Piece(unit.start, unit.end, unit.symbol)
     IN IF whole.tokens <= file.maximum
        THEN pieces' = Append(pieces, whole) /\ units' = Tail(units) /\ UNCHANGED <<pc, search>>
        ELSE pc' = "search" /\ search' = From(unit.start, unit) /\ UNCHANGED <<pieces, units>>
  /\ UNCHANGED <<file, chunks>>

RuneStart(i) == Byte(file.content, i) # "c"

Greatest(S) == CHOOSE m \in S : \A k \in S : k <= m
Least(S) == CHOOSE m \in S : \A k \in S : m <= k

\* The end of the first rune.
RuneEnd(start, limit) == Least({m \in (start + 1)..limit : m = limit \/ RuneStart(m)})

\* The middle moves back to the start of a rune, or forward past the first rune.
Middle(middle, start, limit) ==
  LET back == Greatest({m \in start..middle : m \in {start, limit} \/ RuneStart(m)})
  IN IF back = start THEN RuneEnd(start, limit) ELSE back

\* boundedEnd: one round of the binary search. A round that moves the middle
\* back below low changes nothing: the next one is the same, for ever.
Probe ==
  /\ pc = "search" /\ search.low <= search.high
  /\ LET limit == Head(units).end
         middle == Middle(search.low + (search.high - search.low) \div 2, search.start, limit)
     IN search' = IF Count(file.content, search.start, middle) <= file.maximum
                  THEN [search EXCEPT !.best = middle, !.low = middle + 1]
                  ELSE [search EXCEPT !.high = middle - 1]
  /\ UNCHANGED <<file, pc, units, pieces, chunks>>

\* A piece ends after its last newline if that leaves it half full; if not even
\* one rune fits, it is that rune.
BoundedEnd(s, limit) ==
  LET newlines == {i \in s.start..(s.best - 1) : Byte(file.content, i) = "n"}
      after == Greatest(newlines) + 1
  IN IF s.best <= s.start THEN RuneEnd(s.start, limit)
     ELSE IF newlines # {} /\ Count(file.content, s.start, after) >= file.maximum \div 2 THEN after
     ELSE s.best

TakePiece ==
  /\ pc = "search" /\ search.low > search.high
  /\ LET unit == Head(units)
         end == BoundedEnd(search, unit.end)
     IN /\ pieces' = Append(pieces, Piece(search.start, end, unit.symbol))
        /\ IF end < unit.end THEN search' = From(end, unit) /\ UNCHANGED <<pc, units>>
           ELSE search' = NoSearch /\ pc' = "split" /\ units' = Tail(units)
  /\ UNCHANGED <<file, chunks>>

\* The pieces of the next chunk: at least the minimum of tokens, if they fit.
Tokens(n) ==
  LET sum[k \in 0..Len(pieces)] == IF k = 0 THEN 0 ELSE sum[k - 1] + pieces[k].tokens
  IN sum[n]

Packed ==
  LET fits(n) == Tokens(n) <= file.maximum /\ \A k \in 1..(n - 1) : Tokens(k) < file.minimum
      sizes == {n \in 0..Len(pieces) : \A k \in 1..n : fits(k)}
  IN Greatest(sizes)

LineAt(offset) == 1 + Cardinality({i \in 0..(offset - 1) : Byte(file.content, i) = "n"})

\* joinedSymbols names each symbol once when it follows itself.
JoinedSymbols(items) ==
  LET names[k \in 0..Len(items)] ==
        IF k = 0 THEN <<>>
        ELSE IF \/ items[k].symbol = NoSymbol
                \/ names[k - 1] # <<>> /\ Last(names[k - 1]) = items[k].symbol
             THEN names[k - 1]
             ELSE Append(names[k - 1], items[k].symbol)
  IN names[Len(items)]

Pack ==
  /\ pc = "split" /\ units = <<>> /\ pieces # <<>>
  /\ IF Packed = 0 THEN pc' = "refused" /\ UNCHANGED <<pieces, chunks>>
     ELSE LET start == pieces[1].start
              end == pieces[Packed].end
              last == IF start >= end - 1 THEN start ELSE end - 1
          IN /\ chunks' = Append(chunks,
                  [start |-> start, end |-> end, symbols |-> JoinedSymbols(SubSeq(pieces, 1, Packed)),
                   lines |-> LineAt(start)..LineAt(last), tokens |-> Count(file.content, start, end)])
             /\ pieces' = SubSeq(pieces, Packed + 1, Len(pieces))
             /\ UNCHANGED pc
  /\ UNCHANGED <<file, units, search>>

Chunked ==
  /\ pc = "split" /\ units = <<>> /\ pieces = <<>>
  /\ pc' = "done"
  /\ UNCHANGED <<file, units, pieces, chunks, search>>

ChunkNext == MakeUnits \/ SplitUnit \/ Probe \/ TakePiece \/ Pack \/ Chunked

\* One goroutine runs the function to its end.
ChunkSpec == ChunkInit /\ [][ChunkNext]_chunkVars /\ WF_chunkVars(ChunkNext)

(* ------------------------------ properties ----------------------------- *)

Covers(chunk, symbol) == chunk.start < symbol.end /\ symbol.start < chunk.end

\* Every byte of the file is in exactly one chunk, in order, no chunk is over the
\* limit or begins inside a rune, a symbol that fits is in one chunk, which names
\* it, and only symbols that overlap and limits that contradict each other are
\* refused (docs/INDEX_CHUNKING.md lines 3-7).
ChunksRebuildContent ==
  /\ pc = "done" =>
       LET n == Len(chunks) IN
       /\ file.content # <<>> => n > 0 /\ chunks[1].start = 0 /\ chunks[n].end = Len(file.content)
       /\ \A i \in 2..n : chunks[i].start = chunks[i - 1].end
       /\ \A i \in 1..n : /\ chunks[i].start < chunks[i].end
                          /\ chunks[i].tokens <= file.maximum
                          /\ RuneStart(chunks[i].start)
       /\ \A symbol \in ToSet(file.symbols) :
            LET around == {i \in 1..n : Covers(chunks[i], symbol)}
            IN /\ symbol.symbol # NoSymbol => \A i \in around : symbol.symbol \in ToSet(chunks[i].symbols)
               /\ Count(file.content, symbol.start, symbol.end) <= file.maximum => Cardinality(around) = 1
  /\ pc = "refused" => ~SymbolsFit(file.content, file.symbols) \/ file.minimum > file.maximum

\* A file is cut into chunks or refused, in the end (docs/INDEX_CHUNKING.md
\* lines 4-6: oversized symbols are split at UTF-8-safe boundaries).
EveryFileIsChunked == <>(pc \in {"done", "refused"})
=============================================================================
