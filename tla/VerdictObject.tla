---------------------------- MODULE VerdictObject ----------------------------
(***************************************************************************)
(* How check_consistency finds the verdict in what the model wrote: a scan *)
(* for the first balanced JSON object of the answer and, when there is     *)
(* none, for the last one of the thinking channel.  Next to the scan is    *)
(* the grammar that says what an object in a text is, to check it against. *)
(*                                                                         *)
(* A text is a sequence of the bytes the scan tells apart.                 *)
(***************************************************************************)
EXTENDS Integers, Sequences, FiniteSetsExt

Bytes == {"open", "close", "quote", "backslash", "other"}

NoObject == <<0, 0>>

-----------------------------------------------------------------------------
(* The scan.                                                               *)

\* in_string and escape are one mode: an escape is inside a string.
Scanning == [mode |-> "plain", depth |-> 0]

Mode(s, b) ==
  CASE s.mode = "plain" /\ b = "quote"      -> "string"
    [] s.mode = "string" /\ b = "backslash" -> "escaped"
    [] s.mode = "string" /\ b = "quote"     -> "plain"
    [] s.mode = "escaped"                   -> "string"
    [] OTHER                                -> s.mode

\* One byte further.
ScanByte(s, b) ==
  [mode  |-> Mode(s, b),
   depth |-> CASE s.mode = "plain" /\ b = "open"  -> s.depth + 1
               [] s.mode = "plain" /\ b = "close" -> s.depth - 1
               [] OTHER                           -> s.depth]

\* What the scan from a position knows after each byte.
ScanFrom(text, start) ==
  LET scan[i \in start - 1..Len(text)] ==
        IF i < start THEN Scanning ELSE ScanByte(scan[i - 1], text[i])
  IN scan

\* The first opening brace at or after a position, and the byte at which
\* the depth is back at zero; nothing when it never is.
LocateFrom(text, from) ==
  LET opens == {i \in from..Len(text) : text[i] = "open"}
      start == Min(opens)
      ends  == {i \in start..Len(text) : ScanFrom(text, start)[i].depth = 0}
  IN IF opens = {} \/ ends = {} THEN NoObject ELSE <<start, Min(ends)>>

Locate(text) == LocateFrom(text, 1)

\* Object after object from a position on, until a scan finds nothing.
LastFrom(text) ==
  LET last[from \in 1..Len(text) + 1] ==
        LET found == LocateFrom(text, from)
            later == last[found[2] + 1]
        IN IF found = NoObject THEN NoObject
           ELSE IF later = NoObject THEN found ELSE later
  IN last

LocateLast(text) == LastFrom(text)[1]

\* Slip: what the model thought comes before what it said.
ThoughtFirst(content, reasoning) ==
  LET last == LocateLast(reasoning)
  IN IF last # NoObject
     THEN [of |-> "reasoning", span |-> last]
     ELSE [of |-> "content", span |-> Locate(content)]

\* Where the verdict is read: in the content, or else in the reasoning.
VerdictSpan(content, reasoning) ==
  LET first == Locate(content)
  IN IF first # NoObject
     THEN [of |-> "content", span |-> first]
     ELSE [of |-> "reasoning", span |-> LocateLast(reasoning)]

-----------------------------------------------------------------------------
(* The grammar.  A string is between two quotes, and each byte in between  *)
(* is escaped, escapes the next, or is plain.  An object is between two    *)
(* braces, and each byte in between is plain or in a string or an object   *)
(* that is a part of it.                                                   *)

Spans(text) == {p \in (1..Len(text)) \X (1..Len(text)) : p[1] < p[2]}

Covers(p, i) == p[1] <= i /\ i <= p[2]

Apart(spans) ==
  \A p, q \in spans : p # q => p[2] < q[1] \/ q[2] < p[1]

\* The bytes between two quotes, those of escapes being the backslashes
\* that escape the byte after them.
Quoted(text, p, escapes) ==
  \A k \in p[1] + 1..p[2] - 1 :
    \/ /\ k - 1 \in escapes /\ k \notin escapes
    \/ /\ k - 1 \notin escapes /\ k \in escapes
       /\ text[k] = "backslash" /\ k + 1 < p[2]
    \/ /\ k - 1 \notin escapes /\ k \notin escapes
       /\ text[k] \notin {"quote", "backslash"}

Strings(text) ==
  {p \in Spans(text) :
     /\ text[p[1]] = "quote" /\ text[p[2]] = "quote"
     /\ \E escapes \in SUBSET (p[1] + 1..p[2] - 1) : Quoted(text, p, escapes)}

Braced(text) ==
  {p \in Spans(text) : text[p[1]] = "open" /\ text[p[2]] = "close"}

Within(spans, p) == {q \in spans : p[1] < q[1] /\ q[2] < p[2]}

\* The bytes between two braces, some of them in parts.
Enclosed(text, p, parts) ==
  /\ Apart(parts)
  /\ \A i \in p[1] + 1..p[2] - 1 :
       text[i] \in {"open", "close", "quote"} => \E q \in parts : Covers(q, i)

\* Spans that are objects if all of them are.  What is within a span is
\* shorter, so the assumption ends at the objects without objects in them.
Objects(text) ==
  LET strings == Strings(text)
  IN UNION {objects \in SUBSET Braced(text) :
              \A p \in objects :
                \E parts \in SUBSET Within(objects \cup strings, p) :
                  Enclosed(text, p, parts)}

\* A reading of a text as objects one after the other, with every opening
\* brace in one of them: a brace in a string of an object opens none.
Readings(text) ==
  {objects \in SUBSET Objects(text) :
     /\ Apart(objects)
     /\ \A i \in 1..Len(text) :
          text[i] = "open" => \E p \in objects : Covers(p, i)}

NoStrayBrace(text) == Readings(text) # {}

\* The object a reader of the two texts would take.
ReadSpan(content, reasoning) ==
  LET first == CHOOSE objects \in Readings(content) : TRUE
      other == CHOOSE objects \in Readings(reasoning) : TRUE
  IN IF first # {}
     THEN [of |-> "content",
           span |-> CHOOSE p \in first : \A q \in first : p[1] <= q[1]]
     ELSE [of |-> "reasoning",
           span |-> IF other = {} THEN NoObject
                    ELSE CHOOSE p \in other : \A q \in other : q[1] <= p[1]]
=============================================================================
