---------------------------- MODULE CompositeKey ----------------------------
(***************************************************************************)
(* The byte encoding of composite index keys (composite_key.go) and the    *)
(* binary searches that cut a prefix out of a sorted index (secindex.go).  *)
(*                                                                         *)
(* A byte is a number in 0..Top, where Top stands for 0xFF.  Query models  *)
(* index keys as tuples of cells compared column by column: the two        *)
(* properties here are what allows it.                                     *)
(***************************************************************************)
EXTENDS Integers, Sequences, FiniteSets, SequencesExt

CONSTANTS
    Top,        \* the largest byte
    Width,      \* the bytes of an integer (8)
    IdWidth,    \* the bytes of a UUID (16)
    MaxLen,     \* bound on the length of a string
    MaxCols     \* bound on the columns of an index

ASSUME KeyShape == Top \in Nat /\ Top >= 2 /\ Width \in Nat /\ IdWidth \in Nat /\ MaxLen \in Nat /\ MaxCols \in Nat

Bytes == 0..Top

\* The numbers of n bytes.
Times(x, y) == x * y
Span(n) == FoldLeft(Times, 1, [i \in 1..n |-> Top + 1])
SignBit == Span(Width) \div 2

\* The cells of a column of each kind; cells of one kind only are compared.
Kinds == {"int", "bool", "uuid", "string"}
Payloads(kind) ==
    CASE kind = "int" -> -SignBit..SignBit - 1
      [] kind = "bool" -> BOOLEAN
      [] kind = "uuid" -> [1..IdWidth -> Bytes]
      [] OTHER -> UNION {[1..n -> Bytes] : n \in 0..MaxLen}
CellsOf(kind) == {[kind |-> kind, v |-> v] : v \in Payloads(kind)}

\* Lexicographic order of byte strings, a proper prefix first.
BytesLess(x, y) ==
    \/ \E i \in DOMAIN x \cap DOMAIN y : x[i] < y[i] /\ \A j \in 1..i - 1 : x[j] = y[j]
    \/ IsStrictPrefix(x, y)

\* The order of cells of one kind: indexKey.less of a single-column index.
CellLess(x, y) ==
    CASE x.kind = "int" -> x.v < y.v
      [] x.kind = "bool" -> ~x.v /\ y.v
      [] OTHER -> BytesLess(x.v, y.v)

----------------------------------------------------------------------------
(* The encoding. *)

BigEndian(n) == [i \in 1..Width |-> (n \div Span(Width - i)) % (Top + 1)]

\* A zero byte becomes 0, Top; the field ends with 0, 0.
appendEscaped(buf, b) == buf \o IF b = 0 THEN <<0, Top>> ELSE <<b>>
appendEscapedTerminated(buf, s) == FoldLeft(appendEscaped, buf, s) \o <<0, 0>>

\* Mutant of appendOrderedColumn: integers are written without the sign flip.
appendColumnUnsigned(buf, cell) ==
    CASE cell.kind = "int" -> buf \o BigEndian(cell.v % Span(Width))
      [] cell.kind = "bool" -> buf \o IF cell.v THEN <<1>> ELSE <<0>>
      [] cell.kind = "uuid" -> buf \o cell.v
      [] OTHER -> appendEscapedTerminated(buf, cell.v)

\* The sign bit of the two's complement is flipped by adding half the range.
appendOrderedColumn(buf, cell) ==
    CASE cell.kind = "int" -> buf \o BigEndian(((cell.v % Span(Width)) + SignBit) % Span(Width))
      [] cell.kind = "bool" -> buf \o IF cell.v THEN <<1>> ELSE <<0>>
      [] cell.kind = "uuid" -> buf \o cell.v
      [] OTHER -> appendEscapedTerminated(buf, cell.v)

encodeCompositeKey(cells) == FoldLeft(appendOrderedColumn, << >>, cells)

\* The least byte string above everything that starts with p; << >> for none.
prefixUpperBound(p) ==
    LET below == {i \in DOMAIN p : p[i] # Top}
        i == CHOOSE i \in below : \A j \in below : j <= i
    IN  IF below = {} THEN << >> ELSE [SubSeq(p, 1, i) EXCEPT ![i] = @ + 1]

\* snapshotPrefix: the keys between the two searches.
InSnapshotPrefix(key, p) ==
    LET ub == prefixUpperBound(p)
    IN  ~BytesLess(key, p) /\ (ub = << >> \/ BytesLess(key, ub))
\* prefixLookup: the run that starts with p.
InPrefixLookup(key, p) == ~BytesLess(key, p) /\ IsPrefix(p, key)

----------------------------------------------------------------------------

\* The columns of an index, and its keys.
Columns == UNION {[1..n -> Kinds] : n \in 1..MaxCols}
Extend(tuples, kind) == {Append(x, cell) : x \in tuples, cell \in CellsOf(kind)}
Tuples(cols) == FoldLeft(Extend, {<< >>}, cols)
TupleLess(x, y) == \E i \in DOMAIN x : CellLess(x[i], y[i]) /\ \A j \in 1..i - 1 : x[j] = y[j]

\* Comparing two encodings byte by byte is comparing the tuples column by column, and
\* different tuples have different encodings: no cell runs into the next, whatever
\* zero bytes, signs and lengths the cells have.
EncodingKeepsOrder(cols) ==
    LET enc == [x \in Tuples(cols) |-> encodeCompositeKey(x)]
    IN  \A x, y \in Tuples(cols) : TupleLess(x, y) <=> BytesLess(enc[x], enc[y])

\* The run between the two searches holds exactly the tuples whose leading cells are
\* the ones looked for, also when their encoding ends in the largest byte.
PrefixIsExact(cols) ==
    LET enc == [x \in Tuples(cols) |-> encodeCompositeKey(x)]
    IN  \A n \in 1..Len(cols) : \A c \in Tuples(SubSeq(cols, 1, n)) :
            LET p == encodeCompositeKey(c) IN
            \A x \in Tuples(cols) : /\ InSnapshotPrefix(enc[x], p) <=> SubSeq(x, 1, n) = c
                                    /\ InPrefixLookup(enc[x], p) <=> SubSeq(x, 1, n) = c

\* Index keys may be taken for tuples of cells: their encodings sort like the tuples,
\* and a prefix search finds the rows of its columns.
KeysSortLikeTuples == \A cols \in Columns : EncodingKeepsOrder(cols) /\ PrefixIsExact(cols)
=============================================================================
