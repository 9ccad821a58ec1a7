-------------------------------- MODULE Proxy --------------------------------
(***************************************************************************)
(* How the local proxy (crates/proxy) answers a request for an asset: the  *)
(* backend answers with the place of the object in the storage, and the    *)
(* proxy serves that file, whole or the range that was asked for.          *)
(*                                                                         *)
(* A file is its length; its bytes are 0 .. len - 1.  A path is a sequence *)
(* of components.  A Range header is one interval: absent, unusable, or a  *)
(* pair of bounds, each a number or left out.                              *)
(***************************************************************************)
EXTENDS Integers, Sequences, FiniteSets

Missing == -1                         \* a bound that is left out

(* The headers with bounds up to n: none, one that is not bytes= or not    *)
(* one interval of numbers, and the intervals.                             *)
NoRange == [form |-> "none", from |-> Missing, to |-> Missing]
OddRange == [form |-> "odd", from |-> Missing, to |-> Missing]
Headers(n) ==
    {NoRange, OddRange}
      \cup [form : {"interval"}, from : Missing .. n, to : Missing .. n]

Full == [kind |-> "full"]
Unsatisfiable == [kind |-> "unsatisfiable"]
Partial(a, b) == [kind |-> "partial", from |-> a, to |-> b]

LeastOf(a, b) == IF a <= b THEN a ELSE b

Suffix(n, len) ==
    IF n = 0 \/ len = 0 THEN Unsatisfiable
    ELSE Partial(IF n >= len THEN 0 ELSE len - n, len - 1)
OpenEnded(a, len) == IF a >= len THEN Unsatisfiable ELSE Partial(a, len - 1)
(* Mutant: the end of the range is taken as it was asked for.              *)
ClosedUnclamped(a, b, len) ==
    CASE a > b -> Full
      [] a <= b /\ a >= len -> Unsatisfiable
      [] OTHER -> Partial(a, b)

Closed(a, b, len) ==
    CASE a > b -> Full
      [] a <= b /\ a >= len -> Unsatisfiable
      [] OTHER -> Partial(a, LeastOf(b, len - 1))

(* parse_range: what a header asks of a file of this length.               *)
ParseRange(h, len) ==
    CASE h.form # "interval" \/ (h.from = Missing /\ h.to = Missing) -> Full
      [] h.form = "interval" /\ h.from = Missing /\ h.to # Missing -> Suffix(h.to, len)
      [] h.form = "interval" /\ h.from # Missing /\ h.to = Missing -> OpenEnded(h.from, len)
      [] OTHER -> Closed(h.from, h.to, len)

(* serve_storage_file: the status, the declared length and range, and the  *)
(* bytes, none of them for a HEAD request.                                 *)
ServeStorageFile(len, h, head) ==
    LET r == ParseRange(h, len)
        start == IF r.kind = "partial" THEN r.from ELSE 0
        count == IF r.kind = "partial" THEN r.to - r.from + 1 ELSE len
        bytes == IF head THEN {} ELSE start .. (start + count - 1)
    IN  IF r = Unsatisfiable
        THEN [status |-> 416, length |-> 0, bytes |-> {}]
        ELSE [status |-> IF r = Full THEN 200 ELSE 206,
              length |-> count, bytes |-> bytes]

(* safe_join: the file a path names below the storage; refused when it is  *)
(* empty or could lead outside.                                            *)
SafeJoin(path) ==
    [ok |-> path # <<>> /\ \A i \in DOMAIN path : path[i] \notin {"..", "/", "\\"},
     file |-> SelectSeq(path, LAMBDA c : c # ".")]

-----------------------------------------------------------------------------
(* What RFC 9110 asks for: the set of bytes the header selects.            *)
Ignored(h) ==
    \/ h.form # "interval"
    \/ h.from = Missing /\ h.to = Missing
    \/ h.from # Missing /\ h.to # Missing /\ h.from > h.to
Selected(h, len) ==
    {b \in 0 .. (len - 1) :
        IF Ignored(h) THEN TRUE
        ELSE IF h.from = Missing THEN b + h.to >= len
        ELSE b >= h.from /\ (h.to # Missing => b <= h.to)}
Asked(len, h, head) ==
    LET s == Selected(h, len)
    IN  IF ~Ignored(h) /\ s = {}
        THEN [status |-> 416, length |-> 0, bytes |-> {}]
        ELSE [status |-> IF Ignored(h) THEN 200 ELSE 206,
              length |-> Cardinality(s), bytes |-> IF head THEN {} ELSE s]
=============================================================================
