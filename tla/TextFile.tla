------------------------------ MODULE TextFile ------------------------------
(***************************************************************************)
(* What the server computes from the bytes of one text file: a page of it   *)
(* (`read` in fs_ops.rs) and the result of a list of replacements (`edit`). *)
(*                                                                         *)
(* A file is a sequence of bytes.  "h" and "t" are the two bytes of a long  *)
(* character, every other byte is a character of its own.  A hash is        *)
(* collision free, so the bytes themselves stand for their hash.            *)
(***************************************************************************)
EXTENDS Naturals, Sequences, SequencesExt

CONSTANTS
  None,       \* no file, no hash
  MaxText,    \* MAX_TEXT_BYTES
  MaxEdits,   \* MAX_EDITS
  TailSlack   \* UTF8_TAIL_SLACK: bytes of a character after its first

Byte == {"a", "h", "t"}
Bytes == Seq(Byte)

\* A replacement; `all` for every occurrence.
Replacement == [old : Bytes, new : Bytes, all : BOOLEAN]

ASSUME TextAssumption ==
  /\ MaxText \in Nat /\ MaxEdits \in Nat /\ TailSlack = 1
  /\ None \notin Nat /\ None \notin Bytes

is_continuation(byte) == byte = "t"

\* String::from_utf8 accepts the bytes.
IsText(s) ==
  \A i \in DOMAIN s : /\ s[i] = "h" => i < Len(s) /\ s[i + 1] = "t"
                      /\ s[i] = "t" => i > 1 /\ s[i - 1] = "h"
-----------------------------------------------------------------------------
(***************************************************************************)
(* read, in bytes: `len` is the size found before the file was opened.      *)
(***************************************************************************)
IsSmall(len) == len <= MaxText

\* Faulty variant: the size found before the open counts, whatever was read.
StatLength(len, s) == len

\* A small file is read whole, and its length is that of what was read.
FileLength(len, s) == IF IsSmall(len) THEN Len(s) ELSE len

Window(s, start, limit) ==
  SubSeq(s, start + 1, Min({Len(s), start + limit + TailSlack}))

\* Faulty variant: the page is cut at the last boundary up to the limit.
PageEndDown(w, limit) ==
  LET cuts == {n \in 0 .. Min({Len(w), limit}) :
                 n = Len(w) \/ ~is_continuation(w[n + 1])}
  IN Max(cuts)

\* The page is cut at the first character boundary from the limit on.
PageEnd(w, limit) ==
  LET cuts == {n \in Min({Len(w), limit}) .. Len(w) :
                 n = Len(w) \/ ~is_continuation(w[n + 1])}
  IN Min(cuts)

Refusal(why) == [error |-> why, content |-> <<>>, hash |-> None, next |-> None]

\* What `read` answers when it found `len` bytes and then read from s.
ReadPage(len, s, start, limit) ==
  LET w == Window(s, start, limit)
      end == PageEnd(w, limit)
      next == start + end
  IN IF start > FileLength(len, s) THEN Refusal("past_end")
     ELSE IF w # <<>> /\ is_continuation(w[1]) THEN Refusal("not_boundary")
     ELSE IF ~IsText(SubSeq(w, 1, end)) THEN Refusal("not_text")
     ELSE [error |-> None,
           content |-> SubSeq(w, 1, end),
           hash |-> IF IsSmall(len) THEN s ELSE None,
           next |-> IF next < FileLength(len, s) THEN next ELSE None]
-----------------------------------------------------------------------------
(***************************************************************************)
(* edit: a list of replacements [old, new, all], each applied to the result *)
(* of the one before.                                                       *)
(***************************************************************************)
WellFormed(edits) ==
  /\ Len(edits) \in 1 .. MaxEdits
  /\ \A i \in DOMAIN edits :
       /\ edits[i].old # <<>> /\ edits[i].old # edits[i].new
       /\ Len(edits[i].old) <= MaxText /\ Len(edits[i].new) <= MaxText

OccursAt(text, old, i) == SubSeq(text, i, i + Len(old) - 1) = old

\* Faulty variant: overlapping occurrences are counted too.
CountOverlapping(text, old) ==
  LET at == {i \in 1 .. Len(text) : i + Len(old) - 1 <= Len(text)}
  IN Quantify(at, LAMBDA i : OccursAt(text, old, i))

\* Occurrences that do not overlap, from the left (str::matches).
CountMatches(text, old) ==
  LET from[i \in 1 .. Len(text) + 1] ==
        IF i + Len(old) - 1 > Len(text) THEN 0
        ELSE IF OccursAt(text, old, i) THEN 1 + from[i + Len(old)]
        ELSE from[i + 1]
  IN from[1]

\* str::replace.
ReplaceEach(text, old, new) ==
  LET from[i \in 1 .. Len(text) + 1] ==
        IF i + Len(old) - 1 > Len(text) THEN SubSeq(text, i, Len(text))
        ELSE IF OccursAt(text, old, i) THEN new \o from[i + Len(old)]
        ELSE <<text[i]>> \o from[i + 1]
  IN from[1]

Replaced(text, e) ==
  IF e.all THEN ReplaceEach(text, e.old, e.new)
           ELSE ReplaceFirstSubSeq(e.new, e.old, text)

\* The size of the result, from the count alone.
Projected(text, e) ==
  LET replaced == IF e.all THEN CountMatches(text, e.old) ELSE 1
  IN Len(text) - replaced * Len(e.old) + replaced * Len(e.new)

\* One replacement on a state [text, error] of the list.
EditStep(state, e) ==
  LET matches == CountMatches(state.text, e.old)
      failed(why) == [state EXCEPT !.error = why]
  IN IF state.error # None THEN state
     ELSE IF matches = 0 THEN failed("no_match")
     ELSE IF matches > 1 /\ ~e.all THEN failed("ambiguous")
     ELSE IF Projected(state.text, e) > MaxText THEN failed("too_large")
     ELSE [state EXCEPT !.text = Replaced(state.text, e)]

\* The list applied to the bytes of the file.
ApplyEdits(original, edits) ==
  LET after[n \in 0 .. Len(edits)] ==
        IF n = 0 THEN [text |-> original, error |-> None]
                 ELSE EditStep(after[n - 1], edits[n])
      end == after[Len(edits)]
  IN IF end.error = None /\ end.text = original
     THEN [end EXCEPT !.error = "unchanged"]
     ELSE end
=============================================================================
