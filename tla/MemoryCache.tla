----------------------------- MODULE MemoryCache -----------------------------
(***************************************************************************)
(* The data structure of MemoryCache: an interval tree of the bytes read   *)
(* from or written to the target since it last ran.  An interval of        *)
(* addresses is a record with begin, end (exclusive) and, when it is       *)
(* cached, data: the sequence of its bytes.  The cache is a set of         *)
(* intervals.                                                              *)
(***************************************************************************)
EXTENDS Integers, Sequences, FiniteSets, FiniteSetsExt, SequencesExt

CONSTANT Regions   \* the memory map: [begin, end, cacheable]

ASSUME RegionsAssumption ==
  \A r \in Regions :
    /\ r.begin \in Nat /\ r.end \in Nat /\ r.begin < r.end
    /\ r.cacheable \in BOOLEAN
    /\ \A q \in Regions : q = r \/ q.end <= r.begin \/ r.end <= q.begin

(* The intervals that share an address with [b, e).                        *)
Overlap(ivs, b, e) == {iv \in ivs : iv.begin < e /\ b < iv.end}

(* Intervals in the order of their addresses, each at the number of those  *)
(* that begin up to it.                                                    *)
Ascending(ivs) ==
  [i \in 1..Cardinality(ivs) |->
     CHOOSE iv \in ivs : Cardinality({jv \in ivs : jv.begin <= iv.begin}) = i]

(* _check_regions: an access inside one region honours its cacheability,   *)
(* one outside of all is passed on, any other is refused.                  *)
CheckRegions(b, e) ==
  LET rs == Overlap(Regions, b, e)
  IN CASE rs = {} -> "uncached"
       [] \E r \in rs : rs = {r} /\ r.begin <= b /\ e <= r.end /\ r.cacheable -> "cached"
       [] \E r \in rs : rs = {r} /\ r.begin <= b /\ e <= r.end /\ ~r.cacheable -> "uncached"
       [] OTHER -> "fault"

(* _get_ranges: what is left of [b, e) when the cached intervals are cut   *)
(* out of it one after the other (left[k]: the first k of them; the code's *)
(* set has them in any order).                                             *)
Cut(range, iv) ==
  IF iv.end < range.begin \/ iv.begin > range.end THEN {range}
  ELSE {part \in {[begin |-> range.begin, end |-> iv.begin],
                  [begin |-> iv.end, end |-> range.end]} : part.begin < part.end}

CutAll(cached, b, e) ==
  LET left[k \in 0..Len(cached)] ==
        IF k = 0 THEN {[begin |-> b, end |-> e]}
                 ELSE UNION {Cut(range, cached[k]) : range \in left[k - 1]}
  IN left[Len(cached)]

Uncached(ivs, b, e) == CutAll(Ascending(Overlap(ivs, b, e)), b, e)

(* The bytes of an interval between two addresses.                         *)
Slice(iv, b, e) == SubSeq(iv.data, b - iv.begin + 1, e - iv.begin)

(* _read_uncached: the ranges read become intervals.                       *)
Fetched(ranges, mem) ==
  {[begin |-> r.begin, end |-> r.end,
    data |-> [i \in 1..(r.end - r.begin) |-> mem[r.begin + i - 1]]] : r \in ranges}

(* Mutant: the last interval is not trimmed.                               *)
Merge_KeepsTrail(combined, b, e) ==
  LET first == Head(combined)
      lead  == IF first.begin < b THEN Slice(first, b, first.end) ELSE <<>>
      rest  == IF first.begin < b THEN Tail(combined) ELSE combined
  IN IF first.begin < b /\ first.end > e THEN Slice(first, b, e)
     ELSE lead \o FlattenSeq([i \in DOMAIN rest |-> rest[i].data])

(* _merge_data: the bytes of [b, e), which the intervals cover, with the   *)
(* ragged edges of the first and the last trimmed.                         *)
Merge(combined, b, e) ==
  LET first == Head(combined)
      lead  == IF first.begin < b THEN Slice(first, b, first.end) ELSE <<>>
      rest  == IF first.begin < b THEN Tail(combined) ELSE combined
      ragged == rest # <<>> /\ Last(rest).end > e
      trail == IF ragged THEN Slice(Last(rest), Last(rest).begin, e) ELSE <<>>
      whole == IF ragged THEN Front(rest) ELSE rest
  IN IF first.begin < b /\ first.end > e THEN Slice(first, b, e)
     ELSE lead \o FlattenSeq([i \in DOMAIN whole |-> whole[i].data]) \o trail

(* _update_contiguous: the intervals that a write touches become one, with *)
(* the ragged edges of the first and the last kept.                        *)
Contiguous(cached, b, value) ==
  LET e     == b + Len(value)
      first == Head(cached)
      final == Last(cached)
      leads == first.begin < b /\ first.end > b
      trails == final.begin < e /\ final.end > e
  IN [begin |-> IF leads THEN first.begin ELSE b,
      end   |-> IF trails THEN final.end ELSE e,
      data  |-> (IF leads THEN Slice(first, first.begin, b) ELSE <<>>) \o value
                  \o (IF trails THEN Slice(final, e, final.end) ELSE <<>>)]

(* In one interval the bytes are replaced in place.                        *)
Patched(iv, b, value) ==
  [iv EXCEPT !.data = [i \in DOMAIN iv.data |->
     LET a == iv.begin + i - 1
     IN IF b <= a /\ a < b + Len(value) THEN value[a - b + 1] ELSE iv.data[i]]]

(* Mutant: cached data next to what is written is not looked for.          *)
Written_OnlyAdds(ivs, b, value) ==
  ivs \cup {[begin |-> b, end |-> b + Len(value), data |-> value]}

(* write_memory_block8: the cache after bytes were written at b.           *)
Written(ivs, b, value) ==
  LET e      == b + Len(value)
      cached == Ascending(Overlap(ivs, b, e))
      rest   == ivs \ Overlap(ivs, b, e)
  IN IF cached = <<>>
       THEN ivs \cup {[begin |-> b, end |-> e, data |-> value]}
     ELSE IF b >= Head(cached).begin /\ e <= Head(cached).end
       THEN rest \cup {Patched(Head(cached), b, value)}
     ELSE rest \cup {Contiguous(cached, b, value)}

(* The cache is a tree of intervals that do not overlap and hold their     *)
(* bytes; its readers rely on it.                                          *)
WellFormed(ivs) ==
  /\ \A iv \in ivs : iv.begin < iv.end /\ Len(iv.data) = iv.end - iv.begin
  /\ \A iv, jv \in ivs : iv = jv \/ iv.end <= jv.begin \/ jv.end <= iv.begin

(* The addresses whose bytes are cached.                                   *)
Held(ivs) == UNION {iv.begin..(iv.end - 1) : iv \in ivs}

(* The cached bytes are those in memory, but at some addresses.            *)
MirrorsBut(ivs, mem, but) ==
  \A iv \in ivs : \A a \in (iv.begin..(iv.end - 1)) \ but : iv.data[a - iv.begin + 1] = mem[a]
=============================================================================
