------------------------------ MODULE RangeSet ------------------------------
(* The interval sets that stand for durable bytes (kinema-core/src/media.rs): *)
(* every manifest, every availability check and every fetch plan goes through *)
(* them. The other modules use plain sets instead; this one checks that the   *)
(* interval code computes exactly those sets, and that an HTTP Range header   *)
(* resolves to the bytes it names.                                            *)
EXTENDS Integers, Sequences, FiniteSets

CONSTANTS
    Top     \* the largest u64: the last representable endpoint

ASSUME TopAssumption == Top \in Nat \ {0}

VARIABLES
    ranges,     \* RangeSet.ranges
    bytes,      \* history: the bytes ever inserted
    request     \* the Range header resolved last, its file's size and the result

rangeVars == <<ranges, bytes, request>>

-----------------------------------------------------------------------------
ByteRange == {r \in [start : 0 .. Top, end : 0 .. Top] : r.start < r.end}
BytesOf(r) == r.start .. r.end - 1
Denotes(rs) == UNION {BytesOf(rs[i]) : i \in DOMAIN rs}

Larger(a, b) == IF a < b THEN b ELSE a
Smaller(a, b) == IF a < b THEN a ELSE b

\* slice::partition_point of a sorted sequence
Before(rs, Test(_)) == Cardinality({i \in DOMAIN rs : Test(rs[i])})

\* Mutant: touching intervals are not merged.
AbsorbOverlapping(grown, item) ==
    IF grown.open /\ item.start < grown.range.end
    THEN [grown EXCEPT !.range = [start |-> Smaller(@.start, item.start),
                                  end |-> Larger(@.end, item.end)],
                       !.count = @ + 1]
    ELSE [grown EXCEPT !.open = FALSE]

\* Absorb the following intervals while they touch the growing range.
Absorb(grown, item) ==
    IF grown.open /\ item.start <= grown.range.end
    THEN [grown EXCEPT !.range = [start |-> Smaller(@.start, item.start),
                                  end |-> Larger(@.end, item.end)],
                       !.count = @ + 1]
    ELSE [grown EXCEPT !.open = FALSE]

\* The growing range after each of the intervals that may touch it.
Growing(range, following) ==
    LET grown[i \in 0 .. Len(following)] ==
            IF i = 0 THEN [range |-> range, count |-> 0, open |-> TRUE]
            ELSE Absorb(grown[i - 1], following[i])
    IN  grown

Insert(rs, range) ==
    LET first == Before(rs, LAMBDA item : item.end < range.start)
        following == SubSeq(rs, first + 1, Len(rs))
        grown == Growing(range, following)[Len(following)]
    IN  SubSeq(rs, 1, first) \o <<grown.range>> \o SubSeq(rs, first + grown.count + 1, Len(rs))

Contains(rs, range) ==
    LET index == Before(rs, LAMBDA item : item.end <= range.start) + 1
    IN  index \in DOMAIN rs /\ rs[index].start <= range.start /\ rs[index].end >= range.end

\* The gaps between a cursor and the intervals it meets, up to the range's end.
Pass(state, item, range) ==
    IF item.end <= state.cursor \/ item.start >= range.end \/ state.cursor = range.end
    THEN state
    ELSE [cursor |-> Smaller(Larger(state.cursor, item.end), range.end),
          gaps |-> IF state.cursor < item.start
                   THEN Append(state.gaps, [start |-> state.cursor, end |-> item.start])
                   ELSE state.gaps]

Passing(rs, range) ==
    LET passed[i \in 0 .. Len(rs)] ==
            IF i = 0 THEN [cursor |-> range.start, gaps |-> <<>>]
            ELSE Pass(passed[i - 1], rs[i], range)
    IN  passed

Missing(rs, range) ==
    LET last == Passing(rs, range)[Len(rs)]
    IN  IF last.cursor < range.end
        THEN Append(last.gaps, [start |-> last.cursor, end |-> range.end])
        ELSE last.gaps

\* What is left of each interval within the range, if anything is.
Cut(item, range) == [start |-> Larger(item.start, range.start),
                     end |-> Smaller(item.end, range.end)]

Keep(kept, item, range) ==
    IF Cut(item, range).start < Cut(item, range).end THEN Append(kept, Cut(item, range)) ELSE kept

Cutting(rs, range) ==
    LET kept[i \in 0 .. Len(rs)] == IF i = 0 THEN <<>> ELSE Keep(kept[i - 1], rs[i], range)
    IN  kept

Intersection(rs, range) == Cutting(rs, range)[Len(rs)]

\* The lengths of the first intervals, added up.
Counting(rs) ==
    LET total[i \in 0 .. Len(rs)] ==
            IF i = 0 THEN 0 ELSE total[i - 1] + (rs[i].end - rs[i].start)
    IN  total

TotalBytes(rs) == Counting(rs)[Len(rs)]

-----------------------------------------------------------------------------
(* parse_http_range: one spec of each accepted form. A number above Top does  *)
(* not fit a u64, like one that is no decimal.                                *)

Number == 0 .. Top + 1
HeaderSpec == [form : {"suffix"}, length : Number]
         \cup [form : {"from"}, start : Number]
         \cup [form : {"span"}, start : Number, end : Number]

\* Mutant: a number too large saturates instead of failing.
FitsSaturated(n) == n <= Top + 1

Fits(n) == n <= Top
Failed(error) == [error |-> error]

ParseHttpRange(spec, size) ==
    CASE spec.form = "suffix" ->
            IF ~Fits(spec.length) THEN Failed("invalid")
            ELSE IF size = 0 \/ spec.length = 0 THEN Failed("unsatisfiable")
            ELSE [start |-> Larger(0, size - spec.length), end |-> size]
      [] spec.form = "from" ->
            IF ~Fits(spec.start) THEN Failed("invalid")
            ELSE IF spec.start >= size THEN Failed("unsatisfiable")
            ELSE [start |-> spec.start, end |-> size]
      [] spec.form = "span" ->
            IF ~Fits(spec.start) \/ ~Fits(spec.end) \/ spec.end < spec.start
            THEN Failed("invalid")
            ELSE IF spec.start >= size THEN Failed("unsatisfiable")
            ELSE [start |-> spec.start, end |-> Smaller(spec.end, size - 1) + 1]

NoRequest == [spec |-> [form |-> "from", start |-> 0], size |-> 0,
              result |-> Failed("unsatisfiable")]

-----------------------------------------------------------------------------
NoRanges == ranges = <<>> /\ bytes = {} /\ request = NoRequest

Add(range) ==
    /\ ranges' = Insert(ranges, range)
    /\ bytes' = bytes \cup BytesOf(range)
    /\ request' = NoRequest

\* A header is resolved against a file of any size.
Resolve(spec, size) ==
    /\ ranges = <<>> /\ request = NoRequest
    /\ request' = [spec |-> spec, size |-> size, result |-> ParseHttpRange(spec, size)]
    /\ UNCHANGED <<ranges, bytes>>

RangeNext ==
    \/ \E range \in ByteRange : Add(range)
    \/ \E spec \in HeaderSpec, size \in 0 .. Top : Resolve(spec, size)

RangeSpec == NoRanges /\ [][RangeNext]_rangeVars

-----------------------------------------------------------------------------
(* Properties                                                                *)

\* In any order and overlap of insertions the intervals stay nonempty, sorted,
\* apart from each other, and cover exactly the bytes inserted.
Canonical ==
    /\ \A i \in DOMAIN ranges : ranges[i] \in ByteRange
    /\ \A i \in DOMAIN ranges : i > 1 => ranges[i - 1].end < ranges[i].start
    /\ Denotes(ranges) = bytes

\* Every query answers as the set of inserted bytes would: readers are served
\* only what is there, and a fetch plan names exactly what is not, in order.
QueriesAgree ==
    /\ TotalBytes(ranges) = Cardinality(bytes)
    /\ \A r \in ByteRange :
         LET gaps == Missing(ranges, r)
         IN  /\ Contains(ranges, r) <=> BytesOf(r) \subseteq bytes
             /\ Denotes(Intersection(ranges, r)) = BytesOf(r) \cap bytes
             /\ Denotes(gaps) = BytesOf(r) \ bytes
             /\ \A i \in DOMAIN gaps : gaps[i] \in ByteRange
             /\ \A i \in DOMAIN gaps : i > 1 => gaps[i - 1].end < gaps[i].start

\* The sorted intervals stand for the set of the bytes inserted.
ActsAsSet == Canonical /\ QueriesAgree

\* The bytes a spec names in a file, whatever their number's width.
Named(spec, size) ==
    {b \in 0 .. size - 1 :
        CASE spec.form = "suffix" -> b >= size - spec.length
          [] spec.form = "from" -> b >= spec.start
          [] spec.form = "span" -> b >= spec.start /\ b <= spec.end}

\* A number does not fit, or the bounds are reversed.
Malformed(spec) ==
    \/ spec.form = "suffix" /\ spec.length > Top
    \/ spec.form # "suffix" /\ spec.start > Top
    \/ spec.form = "span" /\ (spec.end > Top \/ spec.end < spec.start)

\* A header resolves to the bytes it names in the file, up to both ends of the
\* range of u64; a malformed one is invalid, one that names none unsatisfiable.
HeaderResolves ==
    LET spec == request.spec
        r == request.result
        wanted == Named(spec, request.size)
    IN  IF Malformed(spec) THEN r = Failed("invalid")
        ELSE IF wanted = {} THEN r = Failed("unsatisfiable")
        ELSE r \in ByteRange /\ BytesOf(r) = wanted
=============================================================================
