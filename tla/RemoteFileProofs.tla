--------------------------- MODULE RemoteFileProofs ---------------------------
(***************************************************************************)
(* FileInv is an invariant of RemoteFile for any contents, page sizes, lists *)
(* of replacements, chunks, bounds and casts, and with it PagesAgree,        *)
(* CapExact, EditKeepsOthers and TargetSound.                                *)
(*                                                                           *)
(* What the server computes from the bytes of a file comes first.  A page is *)
(* cut at the end of a character, so a page of a text is text (PageRefused), *)
(* and it goes on where the pages before it ended (PageContent).  The count  *)
(* of occurrences and the text that replacing them gives are recursive       *)
(* functions.  They satisfy their equations because the set of places from   *)
(* which they cannot be computed would have a least element                  *)
(* (RecursionExists); they agree on the size because the set of places from  *)
(* which they do not would have one too (ReplacedSize).  From it follows     *)
(* that a list of replacements is refused exactly when a step of it is too   *)
(* large (ListExact).                                                        *)
(*                                                                           *)
(* What happens between the steps comes second: the types (TypeStep), what   *)
(* the agent read (PagesStep), what its edit is built from (EditStepKeeps),  *)
(* what the sender sends (SenderStepKeeps) and what the download leaves      *)
(* (TargetStepKeeps).                                                        *)
(***************************************************************************)
EXTENDS RemoteFile, SequenceTheorems, WellFoundedInduction, TLAPS

-----------------------------------------------------------------------------
(***************************************************************************)
(* Least and greatest elements.                                             *)
(***************************************************************************)
\* A set of naturals that has an element has a least one.
LEMMA LeastNat ==
  ASSUME NEW S \in SUBSET Nat, S # {}
  PROVE  \E n \in S : \A k \in S : n <= k
<1>1. PICK n \in S : \A k \in S : <<k, n>> \notin OpToRel(<, Nat)
  BY NatLessThanWellFounded, WFMin
<1>2. \A k \in S : ~(k < n) BY <1>1 DEF OpToRel
<1>3. QED BY <1>2

\* Min picks it.
LEMMA MinOf ==
  ASSUME NEW S \in SUBSET Nat, S # {}
  PROVE  Min(S) \in S /\ \A k \in S : Min(S) <= k
BY LeastNat DEF Min

\* Max of zero and a number that may be negative.
LEMMA MaxZero ==
  ASSUME NEW x \in Int
  PROVE  Max({0, x}) = IF x > 0 THEN x ELSE 0
<1>1. \E m \in {0, x} : \A k \in {0, x} : m >= k
  <2>1. CASE x > 0 BY <2>1
  <2>2. CASE ~(x > 0) BY <2>2
  <2>3. QED BY <2>1, <2>2
<1>2. Max({0, x}) \in {0, x} /\ \A k \in {0, x} : Max({0, x}) >= k
  BY <1>1 DEF Max
<1>3. QED BY <1>2

-----------------------------------------------------------------------------
(***************************************************************************)
(* What `read` answers.                                                     *)
(***************************************************************************)
\* The window of a page, and where the page ends in it.
LEMMA PageCut ==
  ASSUME NEW s \in Bytes, NEW start \in Nat, NEW limit \in Nat, NEW w, NEW end,
         w = Window(s, start, limit), end = PageEnd(w, limit)
  PROVE  /\ w \in Bytes /\ end \in 0 .. Len(w)
         /\ Len(w) = IF start >= Len(s) THEN 0
                     ELSE IF Len(s) <= start + limit + 1 THEN Len(s) - start ELSE limit + 1
         /\ \A i \in 1 .. Len(w) : w[i] = s[start + i]
         /\ end = Len(w) \/ w[end + 1] # "t"
         /\ end >= limit \/ end = Len(w)
         /\ \A n \in 0 .. Len(w) : limit <= n /\ n < end => w[n + 1] = "t"
<1> DEFINE top == Min({Len(s), start + limit + TailSlack})
           low == Min({Len(w), limit})
           cuts == {n \in low .. Len(w) : n = Len(w) \/ w[n + 1] # "t"}
<1>1. Len(s) \in Nat BY DEF Bytes
<1>2. /\ top \in Nat /\ top <= Len(s) /\ top <= start + limit + 1
      /\ top = Len(s) \/ top = start + limit + 1
  BY <1>1, MinOf, TextAssumption
<1>3. w = SubSeq(s, start + 1, top) BY DEF Window
<1>4. /\ w \in Bytes /\ Len(w) = IF start + 1 <= top THEN top - start ELSE 0
      /\ \A i \in 1 .. Len(w) : w[i] = s[start + i]
  <2> HIDE DEF top
  <2>1. \A i \in start + 1 .. top : s[i] \in Byte
    BY <1>1, <1>2, ElementOfSeq DEF Bytes
  <2>2. start + 1 \in Int /\ top \in Int BY <1>2
  <2>3. /\ SubSeq(s, start + 1, top) \in Seq(Byte)
        /\ Len(SubSeq(s, start + 1, top)) =
             IF start + 1 <= top THEN top - (start + 1) + 1 ELSE 0
        /\ \A i \in 1 .. top - (start + 1) + 1 :
             SubSeq(s, start + 1, top)[i] = s[start + 1 + i - 1]
    BY <2>1, <2>2, SubSeqProperties
  <2>4. QED BY <1>2, <1>3, <2>3 DEF Bytes
<1>5. Len(w) \in Nat BY <1>4, <1>2
<1>6. low \in Nat /\ low <= Len(w) /\ low <= limit /\ (low = Len(w) \/ low = limit)
  BY <1>5, MinOf
<1>7. Len(w) \in cuts /\ cuts \in SUBSET Nat
  <2> HIDE DEF low
  <2> QED BY <1>5, <1>6
<1>8. end = Min(cuts) BY DEF PageEnd, is_continuation
<1>9. end \in cuts /\ \A n \in cuts : end <= n
  <2> HIDE DEF cuts
  <2> QED BY <1>7, <1>8, MinOf
<1> HIDE DEF top, low
<1>10. end \in 0 .. Len(w) BY <1>5, <1>6, <1>9
<1>11. \A n \in 0 .. Len(w) : limit <= n /\ n < end => w[n + 1] = "t"
  BY <1>5, <1>6, <1>9
<1>12. QED BY <1>1, <1>2, <1>4, <1>5, <1>6, <1>9, <1>10, <1>11

\* The bytes of a prefix, one by one.
LEMMA PrefixIff ==
  ASSUME NEW t \in Bytes, NEW s \in Bytes
  PROVE  IsPrefix(t, s) <=> Len(t) <= Len(s) /\ \A i \in 1 .. Len(t) : t[i] = s[i]
<1>1. Len(t) \in Nat /\ Len(s) \in Nat BY DEF Bytes
<1>2. SubSeq(t, 1, Len(t)) = t BY SubSeqFull DEF Bytes
<1>3. ASSUME Len(t) <= Len(s)
      PROVE  /\ SubSeq(s, 1, Len(t)) \in Bytes /\ Len(SubSeq(s, 1, Len(t))) = Len(t)
             /\ \A i \in 1 .. Len(t) : SubSeq(s, 1, Len(t))[i] = s[i]
  BY <1>1, <1>3 DEF Bytes
<1>4. ASSUME Len(t) <= Len(s), \A i \in 1 .. Len(t) : t[i] = s[i]
      PROVE  t = SubSeq(s, 1, Len(t))
  BY <1>1, <1>3, <1>4, SeqEqual DEF Bytes
<1>5. QED BY <1>1, <1>2, <1>3, <1>4 DEF IsPrefix

\* A prefix goes on with the bytes that follow it, and is the whole when it is as
\* long.
LEMMA PrefixGrows ==
  ASSUME NEW t \in Bytes, NEW c \in Bytes, NEW s \in Bytes,
         IsPrefix(t, s), Len(t) + Len(c) <= Len(s),
         \A i \in 1 .. Len(c) : c[i] = s[Len(t) + i]
  PROVE  /\ t \o c \in Bytes /\ Len(t \o c) = Len(t) + Len(c)
         /\ IsPrefix(t \o c, s)
         /\ Len(t \o c) >= Len(s) => t \o c = s
<1>1. Len(t) \in Nat /\ Len(c) \in Nat /\ Len(s) \in Nat BY DEF Bytes
<1>2. /\ t \o c \in Seq(Byte) /\ Len(t \o c) = Len(t) + Len(c)
      /\ \A i \in 1 .. Len(t) + Len(c) :
           (t \o c)[i] = IF i <= Len(t) THEN t[i] ELSE c[i - Len(t)]
  BY ConcatProperties DEF Bytes
<1>3. \A i \in 1 .. Len(t) : t[i] = s[i] BY PrefixIff
<1>4. ASSUME NEW i \in 1 .. Len(t \o c) PROVE (t \o c)[i] = s[i]
  <2>1. CASE i <= Len(t) BY <2>1, <1>1, <1>2, <1>3
  <2>2. CASE i > Len(t)
    <3>1. i - Len(t) \in 1 .. Len(c) BY <2>2, <1>1, <1>2
    <3>2. c[i - Len(t)] = s[Len(t) + (i - Len(t))] BY <3>1
    <3>3. QED BY <2>2, <3>2, <1>1, <1>2
  <2>3. QED BY <2>1, <2>2, <1>1
<1>5. IsPrefix(t \o c, s) BY <1>1, <1>2, <1>4, PrefixIff DEF Bytes
<1>6. Len(t \o c) >= Len(s) => t \o c = s
  BY <1>1, <1>2, <1>4, SeqEqual DEF Bytes
<1>7. QED BY <1>2, <1>5, <1>6 DEF Bytes

\* A page holds the bytes from its offset on, under the hash of the bytes it was
\* cut from; without a next offset it reaches the end.
LEMMA PageContent ==
  ASSUME NEW s \in Bytes, NEW start \in Nat, NEW limit \in Nat, NEW len \in Nat, NEW page,
         page = ReadPage(len, s, start, limit), page.error = None
  PROVE  /\ page.content \in Bytes
         /\ start <= Len(s) => start + Len(page.content) <= Len(s)
         /\ \A i \in 1 .. Len(page.content) : page.content[i] = s[start + i]
         /\ page.hash = IF IsSmall(len) THEN s ELSE None
         /\ page.next = None => start + Len(page.content) >= FileLength(len, s)
<1> DEFINE w == Window(s, start, limit)
           end == PageEnd(w, limit)
<1>1. /\ w \in Bytes /\ end \in 0 .. Len(w)
      /\ Len(w) = IF start >= Len(s) THEN 0
                  ELSE IF Len(s) <= start + limit + 1 THEN Len(s) - start ELSE limit + 1
      /\ \A i \in 1 .. Len(w) : w[i] = s[start + i]
  BY PageCut
<1>2. None \notin {"past_end", "not_boundary", "not_text"}
  BY FileAssumption DEF AgentOutcomes
<1>3. page = [error |-> None,
              content |-> SubSeq(w, 1, end),
              hash |-> IF IsSmall(len) THEN s ELSE None,
              next |-> IF start + end < FileLength(len, s) THEN start + end ELSE None]
  BY <1>2 DEF ReadPage, Refusal
<1> HIDE DEF w, end
<1>4. Len(w) \in Nat /\ Len(s) \in Nat BY <1>1 DEF Bytes
<1>5. /\ SubSeq(w, 1, end) \in Bytes /\ Len(SubSeq(w, 1, end)) = end
      /\ \A i \in 1 .. end : SubSeq(w, 1, end)[i] = w[i]
  BY <1>1, <1>4 DEF Bytes
<1>6. FileLength(len, s) \in Nat BY <1>4 DEF FileLength
<1>7. start + end \in Nat /\ start + end # None BY <1>1, <1>4, TextAssumption
<1>8. QED BY <1>1, <1>3, <1>4, <1>5, <1>6, <1>7

\* Text, by the places of its bytes.
LEMMA TextIff ==
  ASSUME NEW s \in Bytes
  PROVE  IsText(s) <=>
           \A i \in 1 .. Len(s) : /\ s[i] = "h" => i < Len(s) /\ s[i + 1] = "t"
                                  /\ s[i] = "t" => i > 1 /\ s[i - 1] = "h"
<1>1. DOMAIN s = 1 .. Len(s) BY DEF Bytes
<1>2. QED BY <1>1 DEF IsText

\* A page is refused as binary only in a file that is, if its offset is that of a
\* character: the part of a text from a character on that a page gives is text.
LEMMA PageRefused ==
  ASSUME NEW s \in Bytes, NEW start \in Nat, NEW limit \in Nat, NEW len \in Nat, NEW page,
         page = ReadPage(len, s, start, limit), IsText(s)
  PROVE  page.error # "not_text" /\ (page.error = "not_boundary" => start > 0)
<1> SUFFICES ASSUME NEW w, NEW end, NEW content, w = Window(s, start, limit),
                    end = PageEnd(w, limit), content = SubSeq(w, 1, end)
             PROVE  page.error # "not_text" /\ (page.error = "not_boundary" => start > 0)
  OBVIOUS
<1>0. w \in Bytes /\ end \in 0 .. Len(w) BY PageCut
<1>1. /\ w \in Bytes /\ end \in 0 .. Len(w)
      /\ Len(w) = IF start >= Len(s) THEN 0
                  ELSE IF Len(s) <= start + limit + 1 THEN Len(s) - start ELSE limit + 1
  BY PageCut
<1>a. \A i \in 1 .. Len(w) : w[i] = s[start + i] BY PageCut
<1>b. end = Len(w) \/ w[end + 1] # "t" BY PageCut
<1>c. Len(w) \in Nat /\ limit < Len(w) /\ limit < end => w[limit + 1] = "t"
  <2>1. \A n \in 0 .. Len(w) : limit <= n /\ n < end => w[n + 1] = "t" BY PageCut
  <2> SUFFICES ASSUME Len(w) \in Nat, limit < Len(w), limit < end PROVE w[limit + 1] = "t"
    OBVIOUS
  <2>2. limit \in 0 .. Len(w) /\ limit <= limit OBVIOUS
  <2>3. QED BY <2>1, <2>2
<1>2. Len(w) \in Nat /\ Len(s) \in Nat BY <1>1 DEF Bytes
<1>3. /\ content \in Bytes /\ Len(content) = end
      /\ \A i \in 1 .. end : content[i] = w[i]
  BY <1>1, <1>2 DEF Bytes
<1>4. \A i \in 1 .. Len(s) : /\ s[i] = "h" => i < Len(s) /\ s[i + 1] = "t"
                             /\ s[i] = "t" => i > 1 /\ s[i - 1] = "h"
  BY TextIff
<1>5. w # <<>> <=> Len(w) > 0 BY <1>1, <1>2, EmptySeq DEF Bytes
<1>6. ASSUME w # <<>>, w[1] = "t" PROVE start > 0
  <2>1. 1 \in 1 .. Len(w) BY <1>2, <1>5, <1>6
  <2>2. w[1] = s[start + 1] BY <1>a, <2>1
  <2>3. start + 1 \in 1 .. Len(s) BY <1>1, <1>2, <2>1
  <2>4. start + 1 > 1 BY <1>4, <1>6, <2>2, <2>3
  <2>5. QED BY <2>4
<1>7. ASSUME w = <<>> \/ w[1] # "t", NEW i \in 1 .. Len(content)
      PROVE  /\ content[i] = "h" => i < Len(content) /\ content[i + 1] = "t"
             /\ content[i] = "t" => i > 1 /\ content[i - 1] = "h"
  <2>0. i \in 1 .. end BY <1>3
  <2>1. /\ i \in 1 .. Len(w) /\ start + i \in 1 .. Len(s)
        /\ content[i] = w[i] /\ w[i] = s[start + i]
    <3>1. i \in 1 .. Len(w) BY <1>1, <1>2, <2>0
    <3>2. start + i \in 1 .. Len(s) BY <1>1, <1>2, <3>1
    <3>3. QED BY <3>1, <3>2, <1>a, <1>3, <2>0
  <2>2. ASSUME content[i] = "h" PROVE i < Len(content) /\ content[i + 1] = "t"
    <3>1. start + i < Len(s) /\ s[start + i + 1] = "t" BY <1>4, <2>1, <2>2
    <3>2. i < Len(w)
      <4> SUFFICES ASSUME i = Len(w) PROVE FALSE BY <2>1, <1>2
      <4>1. end = Len(w) BY <1>0, <1>2, <2>0
      <4>2. Len(w) = limit + 1 BY <1>1, <1>2, <2>1, <3>1
      <4>3. w[limit + 1] = "t" BY <1>2, <4>1, <4>2, <1>c
      <4>4. QED BY <4>2, <4>3, <2>1, <2>2
    <3>3. w[i + 1] = "t"
      <4>1. i + 1 \in 1 .. Len(w) BY <3>2, <2>1, <1>2
      <4>2. w[i + 1] = s[start + (i + 1)] BY <4>1, <1>a
      <4>3. start + (i + 1) = start + i + 1 BY <2>1
      <4>4. QED BY <3>1, <4>2, <4>3
    <3>4. i < end
      <4> SUFFICES ASSUME i = end PROVE FALSE BY <1>0, <1>2, <2>0
      <4>1. end # Len(w) BY <3>2
      <4>2. QED BY <4>1, <1>b, <3>3
    <3>5. i + 1 \in 1 .. end BY <3>4, <1>0, <1>2, <2>0
    <3>6. QED BY <3>3, <3>4, <3>5, <1>3
  <2>3. ASSUME content[i] = "t" PROVE i > 1 /\ content[i - 1] = "h"
    <3>1. s[start + i - 1] = "h"
      <4>1. s[start + i] = "t" BY <2>1, <2>3
      <4>2. QED BY <4>1, <1>4, <2>1
    <3>2. Len(w) > 0 BY <2>1, <1>2
    <3>3. w[1] # "t" BY <1>5, <1>7, <3>2
    <3>4. i # 1 BY <3>3, <2>1, <2>3
    <3>5. i - 1 \in 1 .. end /\ i - 1 \in 1 .. Len(w) BY <3>4, <2>0, <2>1, <1>0, <1>2
    <3>6. w[i - 1] = s[start + (i - 1)] BY <3>5, <1>a
    <3>7. start + (i - 1) = start + i - 1 BY <2>1
    <3>8. w[i - 1] = "h" BY <3>1, <3>6, <3>7
    <3>9. content[i - 1] = w[i - 1] BY <3>5, <1>3
    <3>10. i > 1 BY <3>4, <2>0, <1>0, <1>2
    <3>11. QED BY <3>8, <3>9, <3>10
  <2>4. QED BY <2>2, <2>3
<1>8. None \notin {"past_end", "not_boundary", "not_text"}
  BY FileAssumption DEF AgentOutcomes
<1>9. page.error = "not_text" => (w = <<>> \/ w[1] # "t") /\ ~IsText(content)
  BY <1>8 DEF ReadPage, Refusal, is_continuation
<1>10. page.error = "not_boundary" => w # <<>> /\ w[1] = "t"
  BY <1>8 DEF ReadPage, Refusal, is_continuation
<1>11. w = <<>> \/ w[1] # "t" => IsText(content) BY <1>3, <1>7, TextIff
<1>12. QED BY <1>6, <1>9, <1>10, <1>11

-----------------------------------------------------------------------------
(***************************************************************************)
(* Recursion over a rank.                                                   *)
(***************************************************************************)
\* A set that holds every place whose lower places it holds is everything.
LEMMA RankInduction ==
  ASSUME NEW D, NEW rank \in [D -> Nat], NEW Good,
         \A i \in D : (\A j \in D : rank[j] < rank[i] => j \in Good) => i \in Good
  PROVE  D \subseteq Good
<1> SUFFICES ASSUME NEW x \in D \ Good PROVE FALSE OBVIOUS
<1> DEFINE Bad == {rank[i] : i \in D \ Good}
<1>1. Bad \in SUBSET Nat /\ Bad # {} OBVIOUS
<1>2. PICK m \in Bad : \A k \in Bad : m <= k BY <1>1, LeastNat
<1>3. PICK i \in D \ Good : rank[i] = m BY <1>2
<1>4. \A j \in D : rank[j] < rank[i] => j \in Good
  <2> SUFFICES ASSUME NEW j \in D, rank[j] < rank[i], j \notin Good PROVE FALSE OBVIOUS
  <2>1. rank[j] \in Bad OBVIOUS
  <2>2. m <= rank[j] BY <1>2, <2>1
  <2>3. rank[i] \in Nat /\ rank[j] \in Nat OBVIOUS
  <2>4. QED BY <2>2, <2>3, <1>3
<1>5. QED BY <1>4

\* A set of numbers from zero up, one after the other.
LEMMA UpInduction ==
  ASSUME NEW n \in Nat, NEW Good, 0 \in Good,
         \A i \in 0 .. n - 1 : i \in Good => i + 1 \in Good
  PROVE  0 .. n \subseteq Good
<1> SUFFICES ASSUME NEW x \in (0 .. n) \ Good PROVE FALSE OBVIOUS
<1>1. PICK m \in (0 .. n) \ Good : \A k \in (0 .. n) \ Good : m <= k
  <2>1. (0 .. n) \ Good \in SUBSET Nat /\ (0 .. n) \ Good # {} OBVIOUS
  <2>2. QED BY <2>1, LeastNat
<1>2. m # 0 /\ m - 1 \in 0 .. n - 1 /\ m - 1 \in 0 .. n OBVIOUS
<1>3. m - 1 \in Good BY <1>1, <1>2
<1>4. (m - 1) + 1 \in Good BY <1>2, <1>3
<1>5. QED BY <1>4

\* The places of J go on to a place of lower rank.
Descends(D, M, rank, J, next) ==
  /\ M \in Nat /\ rank \in [D -> 0 .. M] /\ J \in SUBSET D /\ next \in [D -> D]
  /\ \A i \in J : rank[next[i]] < rank[i]

\* f satisfies the equation they give.
Solves(f, D, J, next, base, comb) ==
  \A i \in D : f[i] = IF i \in J THEN comb[<<i, f[next[i]]>>] ELSE base[i]

\* A function that at some places depends on its value at one lower place exists.
LEMMA RecursionExists ==
  ASSUME NEW D, NEW S, NEW M, NEW rank, NEW J, NEW next, Descends(D, M, rank, J, next),
         NEW base \in [D -> S], NEW comb \in [D \X S -> S]
  PROVE  \E f \in [D -> S] : Solves(f, D, J, next, base, comb)
<1> DEFINE Eq(f, i) == f[i] = IF i \in J THEN comb[<<i, f[next[i]]>>] ELSE base[i]
           UpTo(m) == \E f \in [D -> S] : \A i \in D : rank[i] < m => Eq(f, i)
           Good == {m \in 0 .. M + 1 : UpTo(m)}
<1> USE DEF Descends
<1>1. 0 \in Good
  <2>1. \A i \in D : ~(rank[i] < 0) OBVIOUS
  <2>2. UpTo(0) BY <2>1
  <2>3. QED BY <2>2
<1>2. ASSUME NEW m \in 0 .. M, m \in Good PROVE m + 1 \in Good
  <2>1. PICK f \in [D -> S] : \A i \in D : rank[i] < m => Eq(f, i) BY <1>2
  <2> DEFINE g == [i \in D |-> IF i \in J THEN comb[<<i, f[next[i]]>>] ELSE base[i]]
  <2>2. g \in [D -> S] OBVIOUS
  <2>3. ASSUME NEW i \in D, rank[i] < m + 1 PROVE Eq(g, i)
    <3>1. CASE i \in J
      <4>1. rank[next[i]] < rank[i] /\ next[i] \in D /\ rank[next[i]] \in 0 .. M
        BY <3>1
      <4>2. rank[next[i]] < m BY <4>1, <2>3
      <4>3. f[next[i]] = g[next[i]] BY <2>1, <4>1, <4>2
      <4>4. g[i] = comb[<<i, f[next[i]]>>] BY <3>1
      <4>5. QED BY <3>1, <4>3, <4>4
    <3>2. CASE i \notin J BY <3>2
    <3>3. QED BY <3>1, <3>2
  <2>4. UpTo(m + 1)
    <3> HIDE DEF g
    <3> QED BY <2>2, <2>3
  <2>5. QED BY <2>4
<1>3. M + 1 \in Good
  <2> HIDE DEF Good
  <2>1. \A m \in 0 .. (M + 1) - 1 : m \in Good => m + 1 \in Good BY <1>2
  <2>2. 0 .. M + 1 \subseteq Good BY <1>1, <2>1, UpInduction
  <2>3. QED BY <2>2
<1>4. PICK f \in [D -> S] : \A i \in D : rank[i] < M + 1 => Eq(f, i)
  <2>1. UpTo(M + 1) BY <1>3
  <2>2. QED BY <2>1
<1>5. \A i \in D : rank[i] < M + 1 OBVIOUS
<1>6. QED BY <1>4, <1>5 DEF Solves

-----------------------------------------------------------------------------
(***************************************************************************)
(* The occurrences of a text in another.                                    *)
(***************************************************************************)
\* An occurrence at i, and the place after it, or after i without one.
Fits(text, old, i) == i + Len(old) - 1 <= Len(text)
After(text, old, i) == IF OccursAt(text, old, i) THEN i + Len(old) ELSE i + 1

\* f satisfies the equation by which both go from place to place.
GoesOn(f, text, old, base, comb) ==
  \A i \in 1 .. Len(text) + 1 :
    f[i] = IF Fits(text, old, i) THEN comb[<<i, f[After(text, old, i)]>>] ELSE base[i]

\* What CountMatches and ReplaceEach compute is a function of the places that
\* satisfies their equation.
LEMMA FromEnd ==
  ASSUME NEW text \in Bytes, NEW old \in Bytes, old # <<>>, NEW S,
         NEW base \in [1 .. Len(text) + 1 -> S],
         NEW comb \in [(1 .. Len(text) + 1) \X S -> S]
  PROVE  \E f \in [1 .. Len(text) + 1 -> S] :
           GoesOn(f, text, old, base, comb)
<1> DEFINE D == 1 .. Len(text) + 1
           J == {i \in D : Fits(text, old, i)}
           rank == [i \in D |-> Len(text) + 1 - i]
           next == [i \in D |-> IF Fits(text, old, i) THEN After(text, old, i) ELSE i]
<1>1. Len(text) \in Nat BY DEF Bytes
<1>2. Len(old) \in Nat \ {0} BY EmptySeq DEF Bytes
<1>3. rank \in [D -> 0 .. Len(text)] BY <1>1
<1>4. next \in [D -> D] BY <1>1, <1>2 DEF Fits, After
<1>5. \A i \in J : next[i] = After(text, old, i) /\ i \in D OBVIOUS
<1>6. \A i \in D : rank[i] = Len(text) + 1 - i OBVIOUS
<1>7. \A i \in J : After(text, old, i) \in D /\ After(text, old, i) > i
  BY <1>1, <1>2 DEF Fits, After
<1>8. J \in SUBSET D /\ \A i \in D : i \in J <=> Fits(text, old, i) OBVIOUS
<1>9. D \subseteq Nat /\ base \in [D -> S] /\ comb \in [D \X S -> S] OBVIOUS
<1> HIDE DEF rank, next, J, D
<1>a. \A i \in J : rank[next[i]] < rank[i]
  <2> SUFFICES ASSUME NEW i \in J PROVE rank[next[i]] < rank[i] OBVIOUS
  <2>1. next[i] = After(text, old, i) /\ i \in D BY <1>5
  <2>2. next[i] \in D /\ next[i] > i BY <2>1, <1>7
  <2>3. rank[i] = Len(text) + 1 - i BY <2>1, <1>6
  <2>4. rank[next[i]] = Len(text) + 1 - next[i] BY <2>2, <1>6
  <2>5. i \in Nat /\ next[i] \in Nat BY <2>1, <2>2, <1>9
  <2>6. QED BY <2>2, <2>3, <2>4, <2>5, <1>1
<1>b. PICK f \in [D -> S] : Solves(f, D, J, next, base, comb)
  <2>1. Descends(D, Len(text), rank, J, next)
    BY <1>1, <1>3, <1>4, <1>8, <1>a DEF Descends
  <2>2. QED BY <2>1, <1>9, RecursionExists
<1>10. \A i \in D :
         f[i] = IF Fits(text, old, i) THEN comb[<<i, f[After(text, old, i)]>>] ELSE base[i]
  BY <1>5, <1>8, <1>b DEF Solves
<1>11. QED BY <1>10 DEF D, GoesOn

\* CountMatches, by its equation.
CountFrom(text, old, c) ==
  c = [i \in 1 .. Len(text) + 1 |->
         IF i + Len(old) - 1 > Len(text) THEN 0
         ELSE IF OccursAt(text, old, i) THEN 1 + c[i + Len(old)]
         ELSE c[i + 1]]
Count(text, old) == CHOOSE c : CountFrom(text, old, c)

\* The equation has a solution, so CountMatches satisfies it.
LEMMA CountEquation ==
  ASSUME NEW text \in Bytes, NEW old \in Bytes, old # <<>>
  PROVE  CountFrom(text, old, Count(text, old))
<1> DEFINE D == 1 .. Len(text) + 1
           base == [i \in D |-> 0]
           comb == [p \in D \X Nat |-> IF OccursAt(text, old, p[1]) THEN 1 + p[2] ELSE p[2]]
<1>1. Len(text) \in Nat /\ Len(old) \in Nat BY DEF Bytes
<1>2. base \in [D -> Nat] /\ comb \in [D \X Nat -> Nat] OBVIOUS
<1>3. PICK f \in [D -> Nat] :
         \A i \in D : f[i] = IF Fits(text, old, i) THEN comb[<<i, f[After(text, old, i)]>>]
                             ELSE base[i]
  <2> HIDE DEF base, comb
  <2>1. \E f \in [D -> Nat] : GoesOn(f, text, old, base, comb) BY <1>2, FromEnd
  <2>2. QED BY <2>1 DEF GoesOn
<1>4. ASSUME NEW i \in D, Fits(text, old, i) PROVE After(text, old, i) \in D
  <2>1. Len(old) > 0 BY EmptySeq DEF Bytes
  <2>2. QED BY <1>1, <1>4, <2>1 DEF Fits, After
<1>5. ASSUME NEW i \in D
      PROVE  f[i] = IF i + Len(old) - 1 > Len(text) THEN 0
                    ELSE IF OccursAt(text, old, i) THEN 1 + f[i + Len(old)]
                    ELSE f[i + 1]
  <2>1. CASE Fits(text, old, i)
    <3>1. f[i] = comb[<<i, f[After(text, old, i)]>>] BY <1>3, <2>1
    <3>2. After(text, old, i) \in D BY <1>4, <2>1
    <3>3. f[After(text, old, i)] \in Nat BY <3>2
    <3>4. f[i] = IF OccursAt(text, old, i) THEN 1 + f[After(text, old, i)]
                 ELSE f[After(text, old, i)]
      BY <3>1, <3>3
    <3>5. QED BY <1>1, <2>1, <3>4 DEF Fits, After
  <2>2. CASE ~Fits(text, old, i)
    <3>1. f[i] = 0 BY <1>3, <2>2
    <3>2. QED BY <1>1, <2>2, <3>1 DEF Fits
  <2>3. QED BY <2>1, <2>2
<1>6. CountFrom(text, old, f) BY <1>5 DEF CountFrom
<1>7. QED BY <1>6 DEF Count

\* The count from every place on is a number, and CountMatches is the first.
LEMMA CountType ==
  ASSUME NEW text \in Bytes, NEW old \in Bytes, old # <<>>
  PROVE  /\ Count(text, old) \in [1 .. Len(text) + 1 -> Nat]
         /\ CountMatches(text, old) = Count(text, old)[1]
<1> DEFINE D == 1 .. Len(text) + 1
           c == Count(text, old)
           rank == [i \in D |-> Len(text) + 1 - i]
           Good == {i \in D : c[i] \in Nat}
<1>1. Len(text) \in Nat /\ Len(old) \in Nat BY DEF Bytes
<1>2. Len(old) > 0 BY EmptySeq DEF Bytes
<1>3. DOMAIN c = D /\ c = [i \in D |-> c[i]]
  BY CountEquation DEF CountFrom
<1>4. \A i \in D : c[i] = IF i + Len(old) - 1 > Len(text) THEN 0
                          ELSE IF OccursAt(text, old, i) THEN 1 + c[i + Len(old)]
                          ELSE c[i + 1]
  BY CountEquation DEF CountFrom
<1>5. rank \in [D -> Nat] BY <1>1
<1> HIDE DEF c
<1>6. ASSUME NEW i \in D, \A j \in D : rank[j] < rank[i] => j \in Good PROVE i \in Good
  <2>1. CASE i + Len(old) - 1 > Len(text) BY <1>4, <2>1
  <2>2. CASE ~(i + Len(old) - 1 > Len(text))
    <3>1. i + 1 \in D /\ i + Len(old) \in D BY <1>1, <1>2, <2>2
    <3>2. rank[i + 1] < rank[i] /\ rank[i + Len(old)] < rank[i] BY <1>1, <1>2, <3>1
    <3>3. c[i + 1] \in Nat /\ c[i + Len(old)] \in Nat BY <1>6, <3>1, <3>2
    <3>4. QED BY <1>4, <2>2, <3>3
  <2>3. QED BY <2>1, <2>2
<1>7. D \subseteq Good
  <2> HIDE DEF rank, Good, D
  <2> QED BY <1>5, <1>6, RankInduction
<1>8. CountMatches(text, old) = Count(text, old)[1]
  BY DEF CountMatches, Count, CountFrom
<1>9. QED BY <1>3, <1>7, <1>8 DEF c

\* ReplaceEach, by its equation.
EachFrom(text, old, new, r) ==
  r = [i \in 1 .. Len(text) + 1 |->
         IF i + Len(old) - 1 > Len(text) THEN SubSeq(text, i, Len(text))
         ELSE IF OccursAt(text, old, i) THEN new \o r[i + Len(old)]
         ELSE <<text[i]>> \o r[i + 1]]
Each(text, old, new) == CHOOSE r : EachFrom(text, old, new, r)

\* The equation has a solution, so ReplaceEach satisfies it.
LEMMA EachEquation ==
  ASSUME NEW text \in Bytes, NEW old \in Bytes, NEW new \in Bytes, old # <<>>
  PROVE  EachFrom(text, old, new, Each(text, old, new))
<1> DEFINE D == 1 .. Len(text) + 1
           base == [i \in D |-> SubSeq(text, i, Len(text))]
           comb == [p \in D \X Bytes |->
                      IF OccursAt(text, old, p[1]) THEN new \o p[2]
                      ELSE IF p[1] <= Len(text) THEN <<text[p[1]]>> \o p[2] ELSE <<>>]
<1>1. Len(text) \in Nat /\ Len(old) \in Nat BY DEF Bytes
<1>2. base \in [D -> Bytes]
  <2> SUFFICES ASSUME NEW i \in D PROVE SubSeq(text, i, Len(text)) \in Bytes OBVIOUS
  <2>1. \A k \in i .. Len(text) : text[k] \in Byte BY <1>1, ElementOfSeq DEF Bytes
  <2>2. i \in Int /\ Len(text) \in Int BY <1>1
  <2>3. QED BY <2>1, <2>2, SubSeqProperties DEF Bytes
<1>3. comb \in [D \X Bytes -> Bytes]
  <2> SUFFICES ASSUME NEW i \in D, NEW v \in Bytes
               PROVE  (IF OccursAt(text, old, i) THEN new \o v
                       ELSE IF i <= Len(text) THEN <<text[i]>> \o v ELSE <<>>) \in Bytes
    OBVIOUS
  <2>1. new \o v \in Bytes BY ConcatProperties DEF Bytes
  <2>2. ASSUME i <= Len(text) PROVE <<text[i]>> \o v \in Bytes
    <3>1. text[i] \in Byte BY <1>1, <2>2, ElementOfSeq DEF Bytes
    <3>2. <<text[i]>> \in Bytes BY <3>1 DEF Bytes
    <3>3. QED BY <3>2, ConcatProperties DEF Bytes
  <2>3. <<>> \in Bytes BY DEF Bytes
  <2>4. QED BY <2>1, <2>2, <2>3
<1>4. PICK f \in [D -> Bytes] :
         \A i \in D : f[i] = IF Fits(text, old, i) THEN comb[<<i, f[After(text, old, i)]>>]
                             ELSE base[i]
  <2> HIDE DEF base, comb
  <2>1. \E f \in [D -> Bytes] : GoesOn(f, text, old, base, comb) BY <1>2, <1>3, FromEnd
  <2>2. QED BY <2>1 DEF GoesOn
<1>5. ASSUME NEW i \in D, Fits(text, old, i)
      PROVE  After(text, old, i) \in D /\ i <= Len(text)
  <2>1. Len(old) > 0 BY EmptySeq DEF Bytes
  <2>2. QED BY <1>1, <1>5, <2>1 DEF Fits, After
<1>6. ASSUME NEW i \in D
      PROVE  f[i] = IF i + Len(old) - 1 > Len(text) THEN SubSeq(text, i, Len(text))
                    ELSE IF OccursAt(text, old, i) THEN new \o f[i + Len(old)]
                    ELSE <<text[i]>> \o f[i + 1]
  <2>1. CASE Fits(text, old, i)
    <3>1. f[i] = comb[<<i, f[After(text, old, i)]>>] BY <1>4, <2>1
    <3>2. After(text, old, i) \in D /\ i <= Len(text) BY <1>5, <2>1
    <3>3. f[After(text, old, i)] \in Bytes BY <3>2
    <3>4. f[i] = IF OccursAt(text, old, i) THEN new \o f[After(text, old, i)]
                 ELSE <<text[i]>> \o f[After(text, old, i)]
      BY <3>1, <3>2, <3>3
    <3>5. ~(i + Len(old) - 1 > Len(text)) BY <1>1, <2>1 DEF Fits
    <3>6. QED BY <3>4, <3>5 DEF After
  <2>2. CASE ~Fits(text, old, i)
    <3>1. f[i] = SubSeq(text, i, Len(text)) BY <1>4, <2>2
    <3>2. QED BY <1>1, <2>2, <3>1 DEF Fits
  <2>3. QED BY <2>1, <2>2
<1>7. EachFrom(text, old, new, f) BY <1>6 DEF EachFrom
<1>8. QED BY <1>7 DEF Each

\* Replacing each occurrence changes the length by their count.
LEMMA EachLength ==
  ASSUME NEW text \in Bytes, NEW old \in Bytes, NEW new \in Bytes, old # <<>>
  PROVE  LET result == ReplaceEach(text, old, new)
             count == CountMatches(text, old)
         IN /\ result \in Bytes /\ count \in Nat
            /\ Len(result) = Len(text) - count * Len(old) + count * Len(new)
<1> DEFINE D == 1 .. Len(text) + 1
           c == Count(text, old)
           r == Each(text, old, new)
           rank == [i \in D |-> Len(text) + 1 - i]
           Good == {i \in D : /\ r[i] \in Bytes
                              /\ Len(r[i]) = Len(text) + 1 - i - c[i] * Len(old)
                                             + c[i] * Len(new)}
<1>1. Len(text) \in Nat /\ Len(old) \in Nat /\ Len(new) \in Nat BY DEF Bytes
<1>2. Len(old) > 0 BY EmptySeq DEF Bytes
<1>3. \A i \in D : r[i] = IF i + Len(old) - 1 > Len(text) THEN SubSeq(text, i, Len(text))
                          ELSE IF OccursAt(text, old, i) THEN new \o r[i + Len(old)]
                          ELSE <<text[i]>> \o r[i + 1]
  <2>1. EachFrom(text, old, new, r) BY EachEquation
  <2> HIDE DEF r
  <2>2. QED BY <2>1 DEF EachFrom
<1>4. \A i \in D : c[i] = IF i + Len(old) - 1 > Len(text) THEN 0
                          ELSE IF OccursAt(text, old, i) THEN 1 + c[i + Len(old)]
                          ELSE c[i + 1]
  BY CountEquation DEF CountFrom
<1>5. \A i \in D : c[i] \in Nat BY CountType
<1>6. rank \in [D -> Nat] BY <1>1
<1> HIDE DEF c, r
<1>7. ASSUME NEW i \in D, \A j \in D : rank[j] < rank[i] => j \in Good PROVE i \in Good
  <2>0. i \in Nat /\ i >= 1 /\ i <= Len(text) + 1 BY <1>1
  <2>1. CASE i + Len(old) - 1 > Len(text)
    <3>1. r[i] = SubSeq(text, i, Len(text)) /\ c[i] = 0 BY <1>3, <1>4, <2>1
    <3>2. \A k \in i .. Len(text) : text[k] \in Byte BY <1>1, <2>0, ElementOfSeq DEF Bytes
    <3>3. /\ SubSeq(text, i, Len(text)) \in Bytes
          /\ Len(SubSeq(text, i, Len(text))) =
               IF i <= Len(text) THEN Len(text) - i + 1 ELSE 0
      <4>1. i \in Int /\ Len(text) \in Int BY <1>1
      <4>2. QED BY <3>2, <4>1, SubSeqProperties DEF Bytes
    <3>4. Len(r[i]) = Len(text) + 1 - i BY <1>1, <2>0, <3>1, <3>3
    <3>5. c[i] * Len(old) = 0 /\ c[i] * Len(new) = 0 BY <1>1, <3>1
    <3>6. Len(r[i]) = Len(text) + 1 - i - c[i] * Len(old) + c[i] * Len(new)
      BY <1>1, <2>0, <3>4, <3>5
    <3>7. r[i] \in Bytes BY <3>1, <3>3
    <3>8. QED BY <3>6, <3>7
  <2>2. CASE ~(i + Len(old) - 1 > Len(text))
    <3>1. i + 1 \in D /\ i + Len(old) \in D /\ i <= Len(text) BY <1>1, <1>2, <2>2
    <3>2. rank[i + 1] < rank[i] /\ rank[i + Len(old)] < rank[i] BY <1>1, <1>2, <3>1
    <3>3. i + 1 \in Good /\ i + Len(old) \in Good BY <1>7, <3>1, <3>2
    <3>4. CASE OccursAt(text, old, i)
      <4> DEFINE k == i + Len(old)
      <4>1. r[i] = new \o r[k] /\ c[i] = 1 + c[k] BY <1>3, <1>4, <2>2, <3>4
      <4>2. r[k] \in Bytes /\ c[k] \in Nat BY <1>5, <3>1, <3>3
      <4>3. Len(r[k]) = Len(text) + 1 - (i + Len(old)) - c[k] * Len(old) + c[k] * Len(new)
        BY <3>3
      <4>4. r[i] \in Bytes /\ Len(r[i]) = Len(new) + Len(r[k])
        BY <4>1, <4>2, ConcatProperties DEF Bytes
      <4> HIDE DEF k
      <4>5. (1 + c[k]) * Len(old) = Len(old) + c[k] * Len(old) BY <1>1, <4>2
      <4>6. (1 + c[k]) * Len(new) = Len(new) + c[k] * Len(new) BY <1>1, <4>2
      <4>7. c[k] * Len(old) \in Nat /\ c[k] * Len(new) \in Nat BY <1>1, <4>2
      <4>8. Len(r[i]) = Len(text) + 1 - i - c[i] * Len(old) + c[i] * Len(new)
        BY <1>1, <2>0, <4>1, <4>3, <4>4, <4>5, <4>6, <4>7
      <4>9. QED BY <4>4, <4>8
    <3>5. CASE ~OccursAt(text, old, i)
      <4>1. r[i] = <<text[i]>> \o r[i + 1] /\ c[i] = c[i + 1] BY <1>3, <1>4, <2>2, <3>5
      <4>2. r[i + 1] \in Bytes /\ c[i + 1] \in Nat BY <1>5, <3>1, <3>3
      <4>3. text[i] \in Byte BY <1>1, <3>1, ElementOfSeq DEF Bytes
      <4>4. <<text[i]>> \in Bytes /\ Len(<<text[i]>>) = 1 BY <4>3 DEF Bytes
      <4>5. r[i] \in Bytes /\ Len(r[i]) = 1 + Len(r[i + 1])
        BY <4>1, <4>2, <4>4, ConcatProperties DEF Bytes
      <4>6. Len(r[i + 1]) = Len(text) + 1 - (i + 1) - c[i + 1] * Len(old)
                            + c[i + 1] * Len(new)
        BY <3>3
      <4>7. c[i + 1] * Len(old) \in Nat /\ c[i + 1] * Len(new) \in Nat BY <1>1, <4>2
      <4>8. Len(r[i]) = Len(text) + 1 - i - c[i] * Len(old) + c[i] * Len(new)
        BY <1>1, <2>0, <4>1, <4>5, <4>6, <4>7
      <4>9. QED BY <4>5, <4>8
    <3>6. QED BY <3>4, <3>5
  <2>3. QED BY <2>1, <2>2
<1>8. D \subseteq Good
  <2> HIDE DEF rank, Good, D
  <2> QED BY <1>6, <1>7, RankInduction
<1>9. ReplaceEach(text, old, new) = r[1] BY DEF ReplaceEach, Each, EachFrom, r
<1>10. CountMatches(text, old) = c[1] BY CountType DEF c
<1>11. 1 \in D BY <1>1
<1>12. c[1] * Len(old) \in Nat /\ c[1] * Len(new) \in Nat /\ c[1] \in Nat
  BY <1>1, <1>5, <1>11
<1>13. r[1] \in Bytes /\ Len(r[1]) = Len(text) - c[1] * Len(old) + c[1] * Len(new)
  <2>1. 1 \in Good BY <1>8, <1>11
  <2>2. r[1] \in Bytes /\ Len(r[1]) = Len(text) + 1 - 1 - c[1] * Len(old) + c[1] * Len(new)
    BY <2>1
  <2>3. QED BY <1>1, <1>12, <2>2
<1>14. QED BY <1>9, <1>10, <1>12, <1>13

\* The part of a text between two places.
LEMMA PartOf ==
  ASSUME NEW text \in Bytes, NEW m \in 1 .. Len(text) + 1, NEW n \in 0 .. Len(text)
  PROVE  /\ SubSeq(text, m, n) \in Bytes
         /\ Len(SubSeq(text, m, n)) = IF m <= n THEN n - m + 1 ELSE 0
         /\ \A i \in 1 .. n - m + 1 : SubSeq(text, m, n)[i] = text[m + i - 1]
<1>1. Len(text) \in Nat BY DEF Bytes
<1>2. \A k \in m .. n : text[k] \in Byte BY <1>1, ElementOfSeq DEF Bytes
<1>3. m \in Int /\ n \in Int BY <1>1
<1>4. QED BY <1>2, <1>3, SubSeqProperties DEF Bytes

\* The parts of a text.
LEMMA SubSeqsOf ==
  ASSUME NEW s, NEW t
  PROVE  s \in SubSeqs(t) <=> \E i, j \in 0 .. Len(t) : s = SubSeq(t, i + 1, j)
BY SMT DEF SubSeqs

\* Where something was counted, something occurs.
LEMMA CountedOccurs ==
  ASSUME NEW text \in Bytes, NEW old \in Bytes, old # <<>>, CountMatches(text, old) # 0
  PROVE  \E i \in 1 .. Len(text) : Fits(text, old, i) /\ OccursAt(text, old, i)
<1> DEFINE D == 1 .. Len(text) + 1
           c == Count(text, old)
           rank == [i \in D |-> Len(text) + 1 - i]
           Some == \E i \in 1 .. Len(text) : Fits(text, old, i) /\ OccursAt(text, old, i)
           Good == {i \in D : c[i] # 0 => Some}
<1>1. Len(text) \in Nat /\ Len(old) \in Nat BY DEF Bytes
<1>2. Len(old) > 0 BY EmptySeq DEF Bytes
<1>3. \A i \in D : c[i] = IF i + Len(old) - 1 > Len(text) THEN 0
                          ELSE IF OccursAt(text, old, i) THEN 1 + c[i + Len(old)]
                          ELSE c[i + 1]
  BY CountEquation DEF CountFrom
<1>4. rank \in [D -> Nat] BY <1>1
<1> HIDE DEF c
<1>5. ASSUME NEW i \in D, \A j \in D : rank[j] < rank[i] => j \in Good PROVE i \in Good
  <2>1. CASE i + Len(old) - 1 > Len(text)
    <3> HIDE DEF Some
    <3> QED BY <1>3, <2>1
  <2>2. CASE ~(i + Len(old) - 1 > Len(text)) /\ OccursAt(text, old, i)
    <3>1. i \in 1 .. Len(text) /\ Fits(text, old, i) BY <1>1, <1>2, <2>2 DEF Fits
    <3>2. Some BY <2>2, <3>1
    <3> HIDE DEF Some
    <3>3. QED BY <3>2
  <2>3. CASE ~(i + Len(old) - 1 > Len(text)) /\ ~OccursAt(text, old, i)
    <3> HIDE DEF Some
    <3>1. i + 1 \in D BY <1>1, <1>2, <2>3
    <3>2. rank[i + 1] < rank[i] BY <1>1, <3>1
    <3>3. i + 1 \in Good BY <1>5, <3>1, <3>2
    <3>4. c[i] = c[i + 1] BY <1>3, <2>3
    <3>5. QED BY <3>3, <3>4
  <2>4. QED BY <2>1, <2>2, <2>3
<1>6. D \subseteq Good
  <2> HIDE DEF rank, Good, D
  <2> QED BY <1>4, <1>5, RankInduction
<1>7. 1 \in Good BY <1>1, <1>6
<1>8. c[1] # 0 BY CountType DEF c
<1>9. QED BY <1>7, <1>8

\* Replacing one occurrence changes the length by one.
LEMMA FirstLength ==
  ASSUME NEW text \in Bytes, NEW old \in Bytes, NEW new \in Bytes, old # <<>>
  PROVE  /\ ReplaceFirstSubSeq(new, old, text) \in Bytes
         /\ CountMatches(text, old) # 0 =>
              Len(ReplaceFirstSubSeq(new, old, text)) = Len(text) - Len(old) + Len(new)
<1>1. Len(text) \in Nat /\ Len(old) \in Nat /\ Len(new) \in Nat BY DEF Bytes
<1>2. Len(old) > 0 BY EmptySeq DEF Bytes
<1>3. ASSUME CountMatches(text, old) # 0 PROVE old \in SubSeqs(text)
  <2>1. PICK i \in 1 .. Len(text) : Fits(text, old, i) /\ OccursAt(text, old, i)
    BY <1>3, CountedOccurs
  <2>2. i - 1 \in 0 .. Len(text) /\ i + Len(old) - 1 \in 0 .. Len(text)
    BY <1>1, <2>1 DEF Fits
  <2>3. old = SubSeq(text, (i - 1) + 1, i + Len(old) - 1)
    <3>1. (i - 1) + 1 = i BY <1>1
    <3>2. QED BY <2>1, <3>1 DEF OccursAt
  <2>4. QED BY <2>2, <2>3, SubSeqsOf
<1>4. ASSUME old \in SubSeqs(text)
      PROVE  /\ IndexFirstSubSeq(old, text) \in 1 .. Len(text)
             /\ IndexFirstSubSeq(old, text) + Len(old) <= Len(text) + 1
  <2> DEFINE Holds(i) == old \in SubSeqs(SubSeq(text, 1, i))
             Stops == {i \in 0 .. Len(text) : Holds(i)}
             First(i) == Holds(i) /\ \A j \in 0 .. i - 1 : ~Holds(j)
             last == CHOOSE i \in 0 .. Len(text) : First(i)
  <2>1. Len(text) \in Stops
    <3>1. SubSeq(text, 1, Len(text)) = text BY SubSeqFull DEF Bytes
    <3>2. Holds(Len(text)) BY <1>4, <3>1
    <3> HIDE DEF Holds
    <3>3. QED BY <1>1, <3>2
  <2>2. \E i \in 0 .. Len(text) : First(i)
    <3> HIDE DEF Holds
    <3>1. PICK i \in Stops : \A k \in Stops : i <= k
      <4>1. Stops \in SUBSET Nat /\ Stops # {} BY <1>1, <2>1
      <4> HIDE DEF Stops
      <4>2. QED BY <4>1, LeastNat
    <3>2. ASSUME NEW j \in 0 .. i - 1 PROVE ~Holds(j)
      <4>1. j \in 0 .. Len(text) /\ ~(i <= j) BY <1>1, <3>1
      <4>2. QED BY <3>1, <4>1
    <3>3. QED BY <3>1, <3>2
  <2>3. last \in 0 .. Len(text) /\ Holds(last)
    <3>1. last \in 0 .. Len(text) /\ First(last)
      <4> HIDE DEF First
      <4> QED BY <2>2
    <3>2. QED BY <3>1
  <2>4. IndexFirstSubSeq(old, text) = last - (Len(old) - 1) BY DEF IndexFirstSubSeq
  <2> HIDE DEF last
  <2>5. SubSeq(text, 1, last) \in Bytes /\ Len(SubSeq(text, 1, last)) = last
    <3>1. 1 \in 1 .. Len(text) + 1 BY <1>1
    <3>2. QED BY <1>1, <2>3, <3>1, PartOf
  <2>6. PICK a \in 0 .. last, b \in 0 .. last :
           old = SubSeq(SubSeq(text, 1, last), a + 1, b)
    <3> DEFINE part == SubSeq(text, 1, last)
    <3>1. old \in SubSeqs(part) /\ Len(part) = last BY <2>3, <2>5
    <3> HIDE DEF part
    <3>2. \E a, b \in 0 .. Len(part) : old = SubSeq(part, a + 1, b)
      BY <3>1, SMT DEF SubSeqs
    <3>3. QED BY <3>1, <3>2 DEF part
  <2>7. Len(old) = IF a + 1 <= b THEN b - (a + 1) + 1 ELSE 0
    <3>1. a + 1 \in 1 .. Len(SubSeq(text, 1, last)) + 1
          /\ b \in 0 .. Len(SubSeq(text, 1, last))
      BY <2>3, <2>5, <2>6
    <3>2. QED BY <2>5, <2>6, <3>1, PartOf
  <2>8. Len(old) <= last BY <1>1, <1>2, <2>3, <2>6, <2>7
  <2>9. QED BY <1>1, <1>2, <2>3, <2>4, <2>8
<1>5. CASE old \in SubSeqs(text)
  <2> DEFINE i == IndexFirstSubSeq(old, text)
             before == SubSeq(text, 1, i - 1)
             after == SubSeq(text, i + Len(old), Len(text))
  <2>1. ReplaceFirstSubSeq(new, old, text) = before \o new \o after
    BY <1>5 DEF ReplaceFirstSubSeq, ReplaceSubSeqAt
  <2>2. i \in 1 .. Len(text) /\ i + Len(old) <= Len(text) + 1 BY <1>4, <1>5
  <2> HIDE DEF i
  <2>3. before \in Bytes /\ Len(before) = i - 1
    <3>1. 1 \in 1 .. Len(text) + 1 /\ i - 1 \in 0 .. Len(text) BY <1>1, <2>2
    <3>2. /\ before \in Bytes
          /\ Len(before) = IF 1 <= i - 1 THEN i - 1 - 1 + 1 ELSE 0
      BY <3>1, PartOf
    <3>3. QED BY <1>1, <2>2, <3>2
  <2>4. after \in Bytes /\ Len(after) = Len(text) - (i + Len(old)) + 1
    <3>1. i + Len(old) \in 1 .. Len(text) + 1 /\ Len(text) \in 0 .. Len(text)
      BY <1>1, <2>2
    <3>2. /\ after \in Bytes
          /\ Len(after) = IF i + Len(old) <= Len(text)
                          THEN Len(text) - (i + Len(old)) + 1 ELSE 0
      BY <3>1, PartOf
    <3>3. QED BY <1>1, <2>2, <3>2
  <2> HIDE DEF before, after
  <2>5. before \o new \in Bytes /\ Len(before \o new) = Len(before) + Len(new)
    BY <2>3, ConcatProperties DEF Bytes
  <2>6. /\ before \o new \o after \in Bytes
        /\ Len(before \o new \o after) = Len(before) + Len(new) + Len(after)
    <3> DEFINE head == before \o new
    <3>1. head \in Bytes BY <2>5
    <3> HIDE DEF head
    <3>2. head \o after \in Bytes /\ Len(head \o after) = Len(head) + Len(after)
      BY <2>4, <3>1, ConcatProperties DEF Bytes
    <3>3. QED BY <2>5, <3>2 DEF head
  <2>7. QED BY <1>1, <2>1, <2>2, <2>3, <2>4, <2>6
<1>6. CASE old \notin SubSeqs(text) BY <1>3, <1>6 DEF ReplaceFirstSubSeq
<1>7. QED BY <1>5, <1>6

-----------------------------------------------------------------------------
(***************************************************************************)
(* A list of replacements.                                                  *)
(***************************************************************************)
ListErrors == {None, "no_match", "ambiguous", "too_large"}
ListState == [text : Bytes, error : ListErrors]

\* None is no reason.
LEMMA NoReason ==
  /\ None # "no_match" /\ None # "ambiguous" /\ None # "too_large" /\ None # "unchanged"
  /\ None # "past_end" /\ None # "not_boundary" /\ None # "not_text" /\ None # "read"
BY FileAssumption DEF AgentOutcomes

\* The size predicted is the size the replacement has.
THEOREM ReplacedSize ==
  ASSUME NEW text \in Bytes, NEW e \in Replacement, e.old # <<>>
  PROVE  /\ Replaced(text, e) \in Bytes
         /\ CountMatches(text, e.old) \in Nat
         /\ CountMatches(text, e.old) # 0 /\ ~(CountMatches(text, e.old) > 1 /\ ~e.all) =>
              Projected(text, e) = Len(Replaced(text, e))
<1>1. e.old \in Bytes /\ e.new \in Bytes /\ e.all \in BOOLEAN BY DEF Replacement
<1>2. Len(e.old) \in Nat /\ Len(e.new) \in Nat /\ Len(text) \in Nat BY <1>1 DEF Bytes
<1>3. CountMatches(text, e.old) \in Nat BY <1>1, CountType, EachLength
<1>4. CASE e.all
  <2>1. /\ ReplaceEach(text, e.old, e.new) \in Bytes
        /\ Len(ReplaceEach(text, e.old, e.new)) =
             Len(text) - CountMatches(text, e.old) * Len(e.old)
             + CountMatches(text, e.old) * Len(e.new)
    BY <1>1, EachLength
  <2>2. Replaced(text, e) = ReplaceEach(text, e.old, e.new) BY <1>4 DEF Replaced
  <2>3. Projected(text, e) = Len(text) - CountMatches(text, e.old) * Len(e.old)
                             + CountMatches(text, e.old) * Len(e.new)
    BY <1>4 DEF Projected
  <2>4. QED BY <1>3, <2>1, <2>2, <2>3
<1>5. CASE ~e.all
  <2>1. /\ ReplaceFirstSubSeq(e.new, e.old, text) \in Bytes
        /\ CountMatches(text, e.old) # 0 =>
             Len(ReplaceFirstSubSeq(e.new, e.old, text)) =
               Len(text) - Len(e.old) + Len(e.new)
    BY <1>1, FirstLength
  <2>2. Replaced(text, e) = ReplaceFirstSubSeq(e.new, e.old, text) BY <1>5 DEF Replaced
  <2>3. Projected(text, e) = Len(text) - 1 * Len(e.old) + 1 * Len(e.new)
    BY <1>5 DEF Projected
  <2>4. Projected(text, e) = Len(text) - Len(e.old) + Len(e.new)
    <3>1. \A x \in Nat : 1 * x = x OBVIOUS
    <3>2. 1 * Len(e.old) = Len(e.old) /\ 1 * Len(e.new) = Len(e.new) BY <1>2, <3>1
    <3>3. QED BY <2>3, <3>2
  <2>5. QED BY <1>3, <2>1, <2>2, <2>4
<1>6. QED BY <1>1, <1>4, <1>5

\* One replacement of a list.
LEMMA StepState ==
  ASSUME NEW state \in ListState, NEW e \in Replacement, e.old # <<>>
  PROVE  EditStep(state, e) \in ListState
<1>1. state.text \in Bytes /\ state.error \in ListErrors BY DEF ListState
<1>2. Replaced(state.text, e) \in Bytes BY <1>1, ReplacedSize
<1>3. [state EXCEPT !.text = Replaced(state.text, e)] \in ListState BY <1>2 DEF ListState
<1>4. \A why \in ListErrors : [state EXCEPT !.error = why] \in ListState BY DEF ListState
<1>5. QED BY <1>3, <1>4 DEF EditStep, ListErrors

\* g begins with a and goes on by comb.
InTurn(g, n, a, comb) == g[0] = a /\ \A i \in 1 .. n : g[i] = comb[<<i, g[i - 1]>>]

\* What a list goes through, one after the other.
LEMMA ListRecursion ==
  ASSUME NEW n \in Nat, NEW S, NEW a \in S, NEW comb \in [(1 .. n) \X S -> S]
  PROVE  \E f \in [0 .. n -> S] : InTurn(f, n, a, comb)
<1> DEFINE D == 0 .. n
           J == 1 .. n
           rank == [i \in D |-> i]
           next == [i \in D |-> IF i \in J THEN i - 1 ELSE i]
           base == [i \in D |-> a]
           all == [p \in D \X S |-> IF p[1] \in J THEN comb[<<p[1], p[2]>>] ELSE a]
<1>1. Descends(D, n, rank, J, next) BY DEF Descends
<1>2. base \in [D -> S] /\ all \in [D \X S -> S] OBVIOUS
<1>3. \A i \in J : i \in D /\ i - 1 \in D /\ next[i] = i - 1 OBVIOUS
<1>4. \A i \in J : \A v \in S : all[<<i, v>>] = comb[<<i, v>>] OBVIOUS
<1>5. 0 \in D /\ 0 \notin J /\ base[0] = a OBVIOUS
<1> HIDE DEF rank, next, base, all, D, J
<1>6. PICK f \in [D -> S] : Solves(f, D, J, next, base, all)
  BY <1>1, <1>2, RecursionExists
<1>7. f[0] = a BY <1>5, <1>6 DEF Solves
<1>8. ASSUME NEW i \in J PROVE f[i] = comb[<<i, f[i - 1]>>]
  <2>1. f[i] = all[<<i, f[next[i]]>>] BY <1>3, <1>6 DEF Solves
  <2>2. f[i - 1] \in S BY <1>3
  <2>3. QED BY <1>3, <1>4, <2>1, <2>2
<1>9. QED BY <1>7, <1>8 DEF D, J, InTurn

\* Lists of replacements that replace something.
Replaceable == {edits \in Seq(Replacement) : \A n \in 1 .. Len(edits) : edits[n].old # <<>>}

\* What ApplyEdits and Results compute, by their equations.
StatesFrom(original, edits, f) ==
  f = [n \in 0 .. Len(edits) |->
         IF n = 0 THEN [text |-> original, error |-> None]
                  ELSE EditStep(f[n - 1], edits[n])]
States(original, edits) == CHOOSE f : StatesFrom(original, edits, f)

TextsFrom(original, edits, r) ==
  r = [n \in 0 .. Len(edits) |-> IF n = 0 THEN original ELSE Replaced(r[n - 1], edits[n])]

\* ApplyEdits goes through states of a list, as its equation says.
LEMMA StatesType ==
  ASSUME NEW original \in Bytes, NEW edits \in Replaceable
  PROVE  /\ States(original, edits) \in [0 .. Len(edits) -> ListState]
         /\ StatesFrom(original, edits, States(original, edits))
<1> DEFINE f == States(original, edits)
           start == [text |-> original, error |-> None]
           comb == [p \in (1 .. Len(edits)) \X ListState |-> EditStep(p[2], edits[p[1]])]
           Good == {n \in 0 .. Len(edits) : f[n] \in ListState}
<1>1. Len(edits) \in Nat BY DEF Replaceable
<1>2. start \in ListState BY DEF ListState, ListErrors
<1>3. ASSUME NEW n \in 1 .. Len(edits), NEW s \in ListState
      PROVE  EditStep(s, edits[n]) \in ListState
  <2>1. edits[n] \in Replacement /\ edits[n].old # <<>>
    BY ElementOfSeq DEF Replaceable
  <2>2. QED BY <2>1, StepState
<1>4. comb \in [(1 .. Len(edits)) \X ListState -> ListState] BY <1>3
<1>5. \A n \in 1 .. Len(edits) : \A s \in ListState : comb[<<n, s>>] = EditStep(s, edits[n])
  OBVIOUS
<1>6. PICK g \in [0 .. Len(edits) -> ListState] :
         g[0] = start /\ \A n \in 1 .. Len(edits) : g[n] = comb[<<n, g[n - 1]>>]
  <2> HIDE DEF start, comb
  <2>1. \E g \in [0 .. Len(edits) -> ListState] : InTurn(g, Len(edits), start, comb)
    BY <1>1, <1>2, <1>4, ListRecursion
  <2>2. QED BY <2>1 DEF InTurn
<1>7. ASSUME NEW n \in 0 .. Len(edits)
      PROVE  g[n] = IF n = 0 THEN start ELSE EditStep(g[n - 1], edits[n])
  <2> HIDE DEF start, comb
  <2>1. CASE n = 0 BY <1>6, <2>1
  <2>2. CASE n # 0
    <3>1. n \in 1 .. Len(edits) /\ n - 1 \in 0 .. Len(edits) BY <1>1, <2>2
    <3>2. g[n - 1] \in ListState BY <3>1
    <3>3. QED BY <1>5, <1>6, <2>2, <3>1, <3>2
  <2>3. QED BY <2>1, <2>2
<1>8. StatesFrom(original, edits, g) BY <1>7 DEF StatesFrom
<1>9. StatesFrom(original, edits, f) BY <1>8 DEF States
<1> HIDE DEF f
<1>10. f = [n \in 0 .. Len(edits) |-> IF n = 0 THEN start ELSE EditStep(f[n - 1], edits[n])]
  BY <1>9 DEF StatesFrom
<1>11. 0 \in Good BY <1>1, <1>2, <1>10
<1>12. ASSUME NEW n \in 0 .. Len(edits) - 1, n \in Good PROVE n + 1 \in Good
  <2>1. n + 1 \in 1 .. Len(edits) /\ n + 1 \in 0 .. Len(edits) /\ (n + 1) - 1 = n
        /\ n + 1 # 0
    BY <1>1
  <2>2. f[n + 1] = EditStep(f[n], edits[n + 1]) BY <1>10, <2>1
  <2>3. f[n] \in ListState BY <1>12
  <2>4. QED BY <1>3, <2>1, <2>2, <2>3
<1>13. 0 .. Len(edits) \subseteq Good
  <2> HIDE DEF Good
  <2> QED BY <1>1, <1>11, <1>12, UpInduction
<1>14. f \in [0 .. Len(edits) -> ListState] BY <1>10, <1>13
<1>15. QED BY <1>9, <1>14 DEF f

\* So does Results through texts.
LEMMA ResultsType ==
  ASSUME NEW original \in Bytes, NEW edits \in Replaceable
  PROVE  /\ Results(original, edits) \in [0 .. Len(edits) -> Bytes]
         /\ TextsFrom(original, edits, Results(original, edits))
<1> DEFINE r == Results(original, edits)
           comb == [p \in (1 .. Len(edits)) \X Bytes |-> Replaced(p[2], edits[p[1]])]
           Good == {n \in 0 .. Len(edits) : r[n] \in Bytes}
<1>1. Len(edits) \in Nat BY DEF Replaceable
<1>2. ASSUME NEW n \in 1 .. Len(edits), NEW s \in Bytes
      PROVE  Replaced(s, edits[n]) \in Bytes
  <2>1. edits[n] \in Replacement /\ edits[n].old # <<>>
    BY ElementOfSeq DEF Replaceable
  <2>2. QED BY <2>1, ReplacedSize
<1>3. comb \in [(1 .. Len(edits)) \X Bytes -> Bytes] BY <1>2
<1>4. \A n \in 1 .. Len(edits) : \A s \in Bytes : comb[<<n, s>>] = Replaced(s, edits[n])
  OBVIOUS
<1>5. PICK g \in [0 .. Len(edits) -> Bytes] :
         g[0] = original /\ \A n \in 1 .. Len(edits) : g[n] = comb[<<n, g[n - 1]>>]
  <2> HIDE DEF comb
  <2>1. \E g \in [0 .. Len(edits) -> Bytes] : InTurn(g, Len(edits), original, comb)
    BY <1>1, <1>3, ListRecursion
  <2>2. QED BY <2>1 DEF InTurn
<1>6. ASSUME NEW n \in 0 .. Len(edits)
      PROVE  g[n] = IF n = 0 THEN original ELSE Replaced(g[n - 1], edits[n])
  <2> HIDE DEF comb
  <2>1. CASE n = 0 BY <1>5, <2>1
  <2>2. CASE n # 0
    <3>1. n \in 1 .. Len(edits) /\ n - 1 \in 0 .. Len(edits) BY <1>1, <2>2
    <3>2. g[n - 1] \in Bytes BY <3>1
    <3>3. QED BY <1>4, <1>5, <2>2, <3>1, <3>2
  <2>3. QED BY <2>1, <2>2
<1>7. TextsFrom(original, edits, g) BY <1>6 DEF TextsFrom
<1>8. r = CHOOSE f : TextsFrom(original, edits, f) BY DEF Results, TextsFrom
<1> HIDE DEF r
<1>9. TextsFrom(original, edits, r) BY <1>7, <1>8
<1>10. r = [n \in 0 .. Len(edits) |->
              IF n = 0 THEN original ELSE Replaced(r[n - 1], edits[n])]
  BY <1>9 DEF TextsFrom
<1>11. 0 \in Good BY <1>1, <1>10
<1>12. ASSUME NEW n \in 0 .. Len(edits) - 1, n \in Good PROVE n + 1 \in Good
  <2>1. n + 1 \in 1 .. Len(edits) /\ n + 1 \in 0 .. Len(edits) /\ (n + 1) - 1 = n
        /\ n + 1 # 0
    BY <1>1
  <2>2. r[n + 1] = Replaced(r[n], edits[n + 1]) BY <1>10, <2>1
  <2>3. r[n] \in Bytes BY <1>12
  <2>4. QED BY <1>2, <2>1, <2>2, <2>3
<1>13. 0 .. Len(edits) \subseteq Good
  <2> HIDE DEF Good
  <2> QED BY <1>1, <1>11, <1>12, UpInduction
<1>14. r \in [0 .. Len(edits) -> Bytes] BY <1>10, <1>13
<1>15. QED BY <1>9, <1>14 DEF r

\* A list that is applied goes through Results within the cap; one refused as too
\* large would have left it.
LEMMA ListExact ==
  ASSUME NEW original \in Bytes, NEW edits \in Replaceable, NEW built,
         built = ApplyEdits(original, edits)
  PROVE  LET results == Results(original, edits)
         IN /\ built.text \in Bytes /\ built.error \in ListErrors \cup {"unchanged"}
            /\ built.error = None => /\ built.text = results[Len(edits)]
                                     /\ \A n \in 1 .. Len(edits) : Len(results[n]) <= MaxText
            /\ built.error = "too_large" =>
                 \E n \in 1 .. Len(edits) : Len(results[n]) > MaxText
<1> DEFINE f == States(original, edits)
           r == Results(original, edits)
           Within(n) == f[n].text = r[n] /\ \A m \in 1 .. n : Len(r[m]) <= MaxText
           Beyond(n) == \E m \in 1 .. n : Len(r[m]) > MaxText
           Good == {n \in 0 .. Len(edits) : /\ f[n].error = None => Within(n)
                                            /\ f[n].error = "too_large" => Beyond(n)}
<1>1. Len(edits) \in Nat BY DEF Replaceable
<1>2. f \in [0 .. Len(edits) -> ListState] /\ r \in [0 .. Len(edits) -> Bytes]
  BY StatesType, ResultsType
<1>3. /\ f[0] = [text |-> original, error |-> None]
      /\ \A n \in 1 .. Len(edits) : f[n] = EditStep(f[n - 1], edits[n])
  <2>1. StatesFrom(original, edits, f) BY StatesType
  <2> HIDE DEF f
  <2>2. QED BY <1>1, <2>1 DEF StatesFrom
<1>4. r[0] = original /\ \A n \in 1 .. Len(edits) : r[n] = Replaced(r[n - 1], edits[n])
  <2>1. TextsFrom(original, edits, r) BY ResultsType
  <2> HIDE DEF r
  <2>2. QED BY <1>1, <2>1 DEF TextsFrom
<1>5. ApplyEdits(original, edits) =
        IF f[Len(edits)].error = None /\ f[Len(edits)].text = original
        THEN [f[Len(edits)] EXCEPT !.error = "unchanged"] ELSE f[Len(edits)]
  BY DEF ApplyEdits, States, StatesFrom
<1> HIDE DEF f, r
<1>6. 0 \in Good
  <2>1. \A m \in 1 .. 0 : FALSE OBVIOUS
  <2>2. f[0].text = r[0] /\ f[0].error = None BY <1>3, <1>4
  <2>3. Within(0) BY <2>1, <2>2
  <2>4. f[0].error # "too_large" BY <2>2, NoReason
  <2> HIDE DEF Within, Beyond
  <2>5. QED BY <1>1, <2>3, <2>4
<1>7. ASSUME NEW n \in 0 .. Len(edits) - 1, n \in Good PROVE n + 1 \in Good
  <2> DEFINE e == edits[n + 1]
             k == n + 1
  <2>1. k \in 1 .. Len(edits) /\ k \in 0 .. Len(edits) /\ k - 1 = n /\ n \in 0 .. Len(edits)
    BY <1>1
  <2>2. f[k] = EditStep(f[n], e) /\ r[k] = Replaced(r[n], e) BY <1>3, <1>4, <2>1
  <2>3. f[n] \in ListState /\ r[n] \in Bytes /\ r[k] \in Bytes BY <1>2, <2>1
  <2>4. e \in Replacement /\ e.old # <<>>
    <3>1. edits \in Seq(Replacement) /\ edits[k].old # <<>> BY <2>1 DEF Replaceable
    <3>2. edits[k] \in Replacement BY <2>1, <3>1, ElementOfSeq
    <3>3. QED BY <3>1, <3>2
  <2>5. ASSUME f[n].error = None PROVE Within(n) BY <1>7, <2>5
  <2>6. ASSUME f[n].error = "too_large" PROVE Beyond(n) BY <1>7, <2>6
  <2>7. ASSUME Beyond(n) PROVE Beyond(k)
    <3>1. PICK m \in 1 .. n : Len(r[m]) > MaxText BY <2>7
    <3>2. m \in 1 .. k BY <2>1
    <3>3. QED BY <3>1, <3>2
  <2>8. ASSUME Within(n), Len(r[k]) <= MaxText, f[k].text = r[k] PROVE Within(k)
    <3>1. ASSUME NEW m \in 1 .. k PROVE Len(r[m]) <= MaxText
      <4>1. CASE m = k BY <2>8, <4>1
      <4>2. CASE m # k
        <5>1. m \in 1 .. n BY <2>1, <4>2
        <5>2. QED BY <2>8, <5>1
      <4>3. QED BY <4>1, <4>2
    <3>2. QED BY <2>8, <3>1
  <2>9. ASSUME Len(r[k]) > MaxText PROVE Beyond(k)
    <3>1. k \in 1 .. k BY <2>1
    <3>2. QED BY <2>9, <3>1
  <2>10. f[n].text \in Bytes /\ Len(r[k]) \in Nat BY <2>3 DEF ListState, Bytes
  <2>11. CASE f[n].error # None
    <3>1. f[k] = f[n] BY <2>2, <2>11 DEF EditStep
    <3> HIDE DEF Within, Beyond, k
    <3>2. QED BY <2>1, <2>6, <2>7, <2>11, <3>1
  <2>12. CASE f[n].error = None
    <3> DEFINE matches == CountMatches(f[n].text, e.old)
    <3>1. f[n].text = r[n] /\ Within(n) BY <2>5, <2>12
    <3>2. matches \in Nat BY <2>4, <2>10, ReplacedSize
    <3>3. CASE matches = 0
      <4>1. f[k].error = "no_match" BY <2>2, <2>3, <2>12, <3>3 DEF EditStep, ListState
      <4> HIDE DEF Within, Beyond, k
      <4>2. QED BY <2>1, <4>1, NoReason
    <3>4. CASE matches # 0 /\ matches > 1 /\ ~e.all
      <4>1. f[k].error = "ambiguous" BY <2>2, <2>3, <2>12, <3>4 DEF EditStep, ListState
      <4> HIDE DEF Within, Beyond, k
      <4>2. QED BY <2>1, <4>1, NoReason
    <3>5. CASE matches # 0 /\ ~(matches > 1 /\ ~e.all)
      <4>1. Projected(f[n].text, e) = Len(Replaced(f[n].text, e))
        BY <2>4, <2>10, <3>5, ReplacedSize
      <4>2. Projected(f[n].text, e) = Len(r[k]) BY <2>2, <3>1, <4>1
      <4>3. CASE Len(r[k]) > MaxText
        <5>1. f[k].error = "too_large"
          BY <2>2, <2>3, <2>12, <3>5, <4>2, <4>3 DEF EditStep, ListState
        <5>2. Beyond(k) BY <2>9, <4>3
        <5> HIDE DEF Within, Beyond, k
        <5>3. QED BY <2>1, <5>1, <5>2, NoReason
      <4>4. CASE ~(Len(r[k]) > MaxText)
        <5>1. f[k] = [f[n] EXCEPT !.text = Replaced(f[n].text, e)]
          BY <2>2, <2>12, <3>5, <4>2, <4>4 DEF EditStep
        <5>2. f[k].text = r[k] /\ f[k].error = None
          BY <2>2, <2>3, <2>12, <3>1, <5>1 DEF ListState
        <5>3. Len(r[k]) <= MaxText BY <2>10, <4>4, TextAssumption
        <5>4. Within(k) BY <2>8, <3>1, <5>2, <5>3
        <5> HIDE DEF Within, Beyond, k
        <5>5. QED BY <2>1, <5>2, <5>4, NoReason
      <4>5. QED BY <4>3, <4>4
    <3>6. QED BY <3>3, <3>4, <3>5
  <2>13. QED BY <2>11, <2>12
<1>8. Len(edits) \in Good
  <2> HIDE DEF Good
  <2>1. 0 .. Len(edits) \subseteq Good BY <1>1, <1>6, <1>7, UpInduction
  <2>2. QED BY <1>1, <2>1
<1>9. f[Len(edits)] \in ListState BY <1>1, <1>2
<1> DEFINE end == f[Len(edits)]
<1>10. /\ end.error = None => Within(Len(edits))
       /\ end.error = "too_large" => Beyond(Len(edits))
  BY <1>8
<1>11. end.text \in Bytes /\ end.error \in ListErrors BY <1>9 DEF ListState
<1>12. \/ built = [end EXCEPT !.error = "unchanged"]
       \/ built = end
  BY <1>5
<1>13. CASE built = end
  BY <1>10, <1>11, <1>13 DEF r
<1>14. CASE built = [end EXCEPT !.error = "unchanged"]
  <2>1. built.error = "unchanged" /\ built.text = end.text
    BY <1>9, <1>14 DEF ListState
  <2>2. QED BY <1>11, <2>1, NoReason
<1>15. QED BY <1>12, <1>13, <1>14

-----------------------------------------------------------------------------
(***************************************************************************)
(* The inductive invariant.                                                 *)
(***************************************************************************)
\* A request under way has no outcome yet.
Undecided == agent.pc # "done" => agent.out = None

\* It has a list of replacements to make.
Editing == agent.pc \in {"read", "stage", "verify", "install"}

\* What the agent has read: all of it once it edits, and the size it found is
\* that of a file that did not change since it began.
PagesInv ==
  /\ Undecided
  /\ agent.hash # None => IsPrefix(agent.text, agent.hash)
  /\ agent.pc = "edit" \/ Editing => agent.text = agent.hash
  /\ agent.first = version /\ file # None =>
       /\ IsPrefix(agent.text, file)
       /\ agent.pc = "open" => agent.len = Len(file)
       /\ agent.out = "read" => agent.text = file
       /\ agent.out \in {"not_text", "not_boundary"} => ~IsText(file)

\* What an edit under way was built from.
EditInv ==
  /\ agent.pc = "install" /\ version = agent.seen => file = agent.hash
  /\ CapExact

\* Nothing is sent before the file was opened.
Unsent ==
  /\ download.pc = "start" => sender.pc = "off"
  /\ sender.pc \in {"off", "stat", "open"} => sender.sent = <<>>

\* The types, that the file the sender has open by its name is there, and that an
\* edit under way was found well-formed.
TypeInv ==
  /\ TypeOK /\ Unsent
  /\ sender.linked => file # None
  /\ Editing => agent.edits \in Replaceable

\* What the sender sends: the file it found by its stat, unless that changed.
SenderInv ==
  /\ sender.pc \in {"off", "stat", "open"} => ~sender.header
  /\ sender.pc \in {"off", "stat", "open", "data"} => ~sender.trailer
  /\ sender.pc \in {"trailer", "exited"} => sender.trailer
  /\ sender.trailer => /\ Len(sender.sent) = sender.size
                       /\ sender.whole # None => sender.sent = sender.whole
                       /\ sender.pc \in {"trailer", "exited", "failed"}
  /\ sender.whole # None /\ sender.pc \in {"open", "data"} =>
       /\ file = sender.whole /\ sender.size = Len(sender.whole)
       /\ sender.pc = "data" => sender.linked
       /\ IsPrefix(sender.sent, sender.whole)

\* What the download makes of it, and leaves at the local target.
TargetInv ==
  /\ download.pc = "start" => local.target # "download" /\ ~local.recorded
  /\ download.pc \in {"exit", "install", "record"} => sender.trailer
  /\ download.pc \in {"install", "record", "done"} => ~SenderRunning
  /\ local.target = "download" =>
       /\ sender.trailer
       /\ \/ download.pc = "record"
          \/ download.pc = "done" /\ download.out \in {"ok", "unrecorded", "cancelled"}
  /\ download.pc = "record" => local.target = "download" \/ local.theirs # None
  /\ download.pc # "done" => download.out = None
  /\ ~download.overwrite /\ local.theirs # None => local.target = "theirs"
  /\ local.recorded => local.target = "download" \/ local.theirs # None
  /\ download.out = "ok" => local.recorded
-----------------------------------------------------------------------------
(***************************************************************************)
(* Types.                                                                   *)
(***************************************************************************)
\* A page has the parts of one.
LEMMA PageType ==
  ASSUME NEW s \in Bytes, NEW start \in Nat, NEW limit \in Nat, NEW len \in Nat, NEW page,
         page = ReadPage(len, s, start, limit)
  PROVE  /\ page.error \in {None, "past_end", "not_boundary", "not_text"}
         /\ page.error = None => page.content \in Bytes /\ page.hash \in Bytes \cup {None}
<1>1. page.error \in {None, "past_end", "not_boundary", "not_text"} BY DEF ReadPage, Refusal
<1>2. page.error = None => page.content \in Bytes /\ page.hash \in Bytes \cup {None}
  BY PageContent
<1>3. QED BY <1>1, <1>2

\* The types hold at first.
LEMMA TypeInit == Init => TypeInv
<1> SUFFICES ASSUME Init PROVE TypeInv OBVIOUS
<1>1. <<>> \in Bytes /\ <<>> \in Seq(Replacement) /\ Len(<<>>) = 0 BY DEF Bytes
<1>2. file \in Bytes /\ version = 0 BY FileAssumption DEF Init
<1>3. PICK pc \in {"ask", "done"} : agent = [StartReading EXCEPT !.pc = pc] BY DEF Init
<1>4. /\ agent = [pc |-> pc, limit |-> 0, len |-> 0, offset |-> 0, text |-> <<>>,
                  hash |-> None, first |-> version, edits |-> <<>>, new |-> <<>>,
                  seen |-> 0, out |-> None]
      /\ pc \in AgentPcs
  BY <1>3 DEF StartReading, AgentPcs
<1>5. PICK dpc \in {"start", "done"}, o \in BOOLEAN, p \in BOOLEAN :
         download = [pc |-> dpc, got |-> 0, overwrite |-> o, proxy |-> p, out |-> None]
  BY DEF Init
<1>6. dpc \in DownloadPcs BY DEF DownloadPcs
<1>7. "off" \in SenderPcs BY DEF SenderPcs
<1>8. sender = [pc |-> "off", size |-> 0, sent |-> <<>>, linked |-> FALSE, fd |-> <<>>,
                whole |-> None, header |-> FALSE, trailer |-> FALSE]
  BY DEF Init
<1>9. PICK t \in {None, "theirs"} : local = [target |-> t, theirs |-> t, recorded |-> FALSE]
  BY DEF Init
<1>10. QED BY <1>1, <1>2, <1>4, <1>5, <1>6, <1>7, <1>8, <1>9
        DEF TypeInv, TypeOK, LocalState, Editing, Unsent

\* The kinds of record the parts keep.
AgentState ==
  [pc : AgentPcs, limit : Nat, len : Nat, offset : Nat, text : Bytes,
   hash : Bytes \cup {None}, first : Nat, edits : Seq(Replacement), new : Bytes,
   seen : Nat, out : AgentOutcomes \cup {None}]
SenderState ==
  [pc : SenderPcs, size : Nat, sent : Bytes, linked : BOOLEAN, fd : Bytes,
   whole : Bytes \cup {None}, header : BOOLEAN, trailer : BOOLEAN]
DownloadState ==
  [pc : DownloadPcs, got : Nat, overwrite : BOOLEAN, proxy : BOOLEAN,
   out : DownloadOutcomes \cup {None}]
TargetState ==
  [target : LocalState \cup {None}, theirs : {None, "theirs"}, recorded : BOOLEAN]

\* A change of the file keeps the types.
LEMMA RenamedType ==
  ASSUME TypeInv, NEW new \in Bytes \cup {None}, Renamed(new)
  PROVE  /\ file' \in Bytes \cup {None} /\ version' \in Nat /\ version' = version + 1
         /\ sender' \in SenderState /\ ~sender'.linked /\ sender'.pc = sender.pc
         /\ sender'.sent = sender.sent /\ sender'.size = sender.size
<1>1. sender \in SenderState /\ (sender.linked => file \in Bytes) /\ version \in Nat
  BY DEF TypeInv, TypeOK, SenderState
<1>2. file' = new /\ version' = version + 1 BY DEF Renamed
<1>3. PICK fd \in Bytes, whole \in Bytes \cup {None} :
         sender' = [sender EXCEPT !.linked = FALSE, !.fd = fd, !.whole = whole]
  <2>1. sender' = [sender EXCEPT !.linked = FALSE,
                                 !.fd = IF sender.linked THEN file ELSE sender.fd,
                                 !.whole = IF sender.trailer THEN sender.whole ELSE None]
    BY DEF Renamed
  <2>2. (IF sender.linked THEN file ELSE sender.fd) \in Bytes BY <1>1 DEF SenderState
  <2>3. (IF sender.trailer THEN sender.whole ELSE None) \in Bytes \cup {None}
    BY <1>1 DEF SenderState
  <2> DEFINE fd == IF sender.linked THEN file ELSE sender.fd
             whole == IF sender.trailer THEN sender.whole ELSE None
  <2> HIDE DEF fd, whole
  <2>4. sender' = [sender EXCEPT !.linked = FALSE, !.fd = fd, !.whole = whole]
    BY <2>1 DEF fd, whole
  <2>5. fd \in Bytes /\ whole \in Bytes \cup {None} BY <2>2, <2>3 DEF fd, whole
  <2>6. QED BY <2>4, <2>5
<1>4. sender' \in SenderState /\ ~sender'.linked BY <1>1, <1>3 DEF SenderState
<1>5. sender'.sent = sender.sent /\ sender'.size = sender.size /\ sender'.pc = sender.pc
  BY <1>1, <1>3 DEF SenderState
<1>6. QED BY <1>1, <1>2, <1>4, <1>5

\* A write in place keeps them too.
LEMMA WrittenType ==
  ASSUME TypeInv, NEW new \in Bytes, Written(new)
  PROVE  /\ file' \in Bytes /\ version' \in Nat /\ version' = version + 1
         /\ sender' \in SenderState /\ sender'.pc = sender.pc
         /\ sender'.sent = sender.sent /\ sender'.size = sender.size
<1>1. sender \in SenderState /\ version \in Nat BY DEF TypeInv, TypeOK, SenderState
<1>2. file' = new /\ version' = version + 1 BY DEF Written
<1>3. PICK whole \in Bytes \cup {None} : sender' = [sender EXCEPT !.whole = whole]
  <2>1. sender' = [sender EXCEPT !.whole = IF sender.trailer THEN sender.whole ELSE None]
    BY DEF Written
  <2>2. (IF sender.trailer THEN sender.whole ELSE None) \in Bytes \cup {None}
    BY <1>1 DEF SenderState
  <2>3. QED BY <2>1, <2>2
<1>4. sender' \in SenderState BY <1>1, <1>3 DEF SenderState
<1>5. sender'.sent = sender.sent /\ sender'.size = sender.size /\ sender'.pc = sender.pc
  BY <1>1, <1>3 DEF SenderState
<1>6. QED BY <1>1, <1>2, <1>4, <1>5

\* How many bytes the sender reads next.
ReadSize(bytes, done, size) == Min({Chunk, size - done, Max({0, Len(bytes) - done})})

\* What it reads goes on where it is, within the size it gave.
LEMMA NextBytes ==
  ASSUME NEW bytes \in Bytes, NEW done \in Nat, NEW size \in Nat, done < size, NEW n,
         n = ReadSize(bytes, done, size), n # 0
  PROVE  /\ n \in Nat /\ done + n <= size /\ done + n <= Len(bytes)
         /\ SubSeq(bytes, done + 1, done + n) \in Bytes
         /\ Len(SubSeq(bytes, done + 1, done + n)) = n
         /\ \A i \in 1 .. n : SubSeq(bytes, done + 1, done + n)[i] = bytes[done + i]
<1> DEFINE left == Max({0, Len(bytes) - done})
           part == SubSeq(bytes, done + 1, done + n)
<1>1. Len(bytes) \in Nat BY DEF Bytes
<1>2. left = IF Len(bytes) - done > 0 THEN Len(bytes) - done ELSE 0 BY <1>1, MaxZero
<1> HIDE DEF left
<1>3. left \in Nat /\ size - done \in Nat /\ Chunk \in Nat BY <1>1, <1>2, FileAssumption
<1>4. n \in Nat /\ n <= size - done /\ n <= left
  <2>1. n = Min({Chunk, size - done, left}) BY DEF left, ReadSize
  <2>2. {Chunk, size - done, left} \in SUBSET Nat /\ {Chunk, size - done, left} # {}
    BY <1>3
  <2>3. n \in {Chunk, size - done, left} /\ \A k \in {Chunk, size - done, left} : n <= k
    BY <2>1, <2>2, MinOf
  <2>4. QED BY <1>3, <2>3
<1>5. done + n <= size /\ done + n <= Len(bytes) /\ n >= 1 BY <1>1, <1>2, <1>3, <1>4
<1>6. PICK a \in 1 .. Len(bytes) + 1, b \in 0 .. Len(bytes) : a = done + 1 /\ b = done + n
  <2>1. done + 1 \in 1 .. Len(bytes) + 1 /\ done + n \in 0 .. Len(bytes) BY <1>1, <1>4, <1>5
  <2>2. QED BY <2>1
<1>7. /\ SubSeq(bytes, a, b) \in Bytes
      /\ Len(SubSeq(bytes, a, b)) = IF a <= b THEN b - a + 1 ELSE 0
      /\ \A i \in 1 .. b - a + 1 : SubSeq(bytes, a, b)[i] = bytes[a + i - 1]
  BY PartOf
<1>8. a <= b /\ b - a + 1 = n BY <1>4, <1>5, <1>6
<1>9. part = SubSeq(bytes, a, b) BY <1>6
<1> HIDE DEF part
<1>10. part \in Bytes /\ Len(part) = n BY <1>7, <1>8, <1>9
<1>11. ASSUME NEW i \in 1 .. n PROVE part[i] = bytes[done + i]
  <2>1. part[i] = bytes[a + i - 1] BY <1>7, <1>8, <1>9
  <2>2. a + i - 1 = done + i BY <1>4, <1>6
  <2>3. QED BY <2>1, <2>2
<1>12. QED BY <1>4, <1>5, <1>10, <1>11 DEF part

\* The types, part by part.
AgentTyped ==
  /\ agent \in AgentState /\ agent.first <= version /\ agent.seen <= version
  /\ agent.offset = Len(agent.text) /\ (Editing => agent.edits \in Replaceable)

\* They make TypeInv up.
LEMMA TypeParts ==
  ASSUME TypeInv
  PROVE  /\ file \in Bytes \cup {None} /\ version \in Nat /\ AgentTyped
         /\ sender \in SenderState /\ Len(sender.sent) <= sender.size
         /\ download \in DownloadState /\ download.got <= Len(sender.sent)
         /\ local \in TargetState /\ (sender.linked => file # None) /\ Unsent
BY DEF TypeInv, TypeOK, AgentTyped, AgentState, SenderState, DownloadState, TargetState

\* The same of the state after a step.
LEMMA TypeOfParts ==
  ASSUME /\ file' \in Bytes \cup {None} /\ version' \in Nat /\ AgentTyped'
         /\ sender' \in SenderState /\ Len(sender'.sent) <= sender'.size
         /\ download' \in DownloadState /\ download'.got <= Len(sender'.sent)
         /\ local' \in TargetState /\ (sender'.linked => file' # None) /\ Unsent'
  PROVE  TypeInv'
BY DEF TypeInv, TypeOK, AgentTyped, AgentState, SenderState, DownloadState, TargetState

\* Ending a request keeps the agent's types.
LEMMA AgentDoneType ==
  ASSUME TypeInv, NEW why \in AgentOutcomes, AgentDone(why), version' = version
  PROVE  AgentTyped'
<1>1. agent' = [agent EXCEPT !.pc = "done", !.out = why] /\ "done" \in AgentPcs
  BY DEF AgentDone, AgentPcs
<1>2. QED BY <1>1, TypeParts DEF AgentTyped, AgentState, Editing

\* Beginning again keeps them too.
LEMMA StartReadingType ==
  ASSUME TypeInv, agent' = StartReading, version' = version
  PROVE  AgentTyped'
<1>1. <<>> \in Bytes /\ <<>> \in Seq(Replacement) /\ Len(<<>>) = 0 /\ "ask" \in AgentPcs
  BY DEF Bytes, AgentPcs
<1>2. QED BY <1>1, TypeParts DEF AgentTyped, AgentState, StartReading, Editing

\* A step of the agent that leaves the file alone keeps the types.
LEMMA AgentType ==
  ASSUME TypeInv, UnchangedByAgent,
         \/ \E n \in Limits : StatToRead(n)
         \/ OpenAndRead
         \/ \E e \in EditLists : CheckEdit(e)
         \/ BuildEdit \/ StageWrite \/ LastLook
  PROVE  AgentTyped'
<1>1. UNCHANGED <<file, version, sender, download, local>> BY DEF UnchangedByAgent
<1>2. "missing" \in AgentOutcomes /\ "bad_request" \in AgentOutcomes
      /\ "file_too_large" \in AgentOutcomes /\ "not_text" \in AgentOutcomes
      /\ "past_end" \in AgentOutcomes /\ "not_boundary" \in AgentOutcomes
      /\ "read" \in AgentOutcomes /\ "no_match" \in AgentOutcomes
      /\ "ambiguous" \in AgentOutcomes /\ "too_large" \in AgentOutcomes
      /\ "unchanged" \in AgentOutcomes
  BY DEF AgentOutcomes
<1>3. /\ "open" \in AgentPcs /\ "edit" \in AgentPcs /\ "ask" \in AgentPcs
      /\ "done" \in AgentPcs /\ "read" \in AgentPcs /\ "stage" \in AgentPcs
      /\ "verify" \in AgentPcs /\ "install" \in AgentPcs
  BY DEF AgentPcs
<1>4. agent \in AgentState /\ agent.first <= version /\ agent.seen <= version
      /\ agent.offset = Len(agent.text) /\ version \in Nat /\ file \in Bytes \cup {None}
  BY TypeParts DEF AgentTyped
<1>5. \A s \in Bytes : Len(s) \in Nat BY DEF Bytes
<1>6. CASE \E n \in Limits : StatToRead(n)
  <2>1. PICK n \in Limits : StatToRead(n) BY <1>6
  <2>2. n \in Nat BY FileAssumption
  <2>3. CASE file = None
    <3>1. AgentDone("missing") BY <2>1, <2>3 DEF StatToRead
    <3>2. QED BY <1>1, <1>2, <3>1, AgentDoneType
  <2>4. CASE file # None
    <3>1. agent' = [agent EXCEPT !.pc = "open", !.limit = n, !.len = Len(file)]
      BY <2>1, <2>4 DEF StatToRead
    <3>2. Len(file) \in Nat BY <1>4, <1>5, <2>4
    <3>3. QED BY <1>1, <1>3, <1>4, <2>2, <3>1, <3>2 DEF AgentTyped, AgentState, Editing
  <2>5. QED BY <2>3, <2>4
<1>7. CASE OpenAndRead
  <2>1. CASE file = None
    <3>1. AgentDone("missing") BY <1>7, <2>1 DEF OpenAndRead
    <3>2. QED BY <1>1, <1>2, <3>1, AgentDoneType
  <2>2. CASE file # None
    <3> DEFINE page == ReadPage(agent.len, file, agent.offset, agent.limit)
    <3>1. \/ page.error = None /\ TakePage(page)
          \/ agent' = StartReading
          \/ page.error # None /\ AgentDone(page.error)
      BY <1>7, <2>2 DEF OpenAndRead
    <3>2. agent.len \in Nat /\ agent.offset \in Nat /\ agent.limit \in Nat
          /\ agent.text \in Bytes
      BY <1>4 DEF AgentState
    <3>3. /\ page.error \in {None, "past_end", "not_boundary", "not_text"}
          /\ page.error = None => page.content \in Bytes /\ page.hash \in Bytes \cup {None}
      BY <1>4, <2>2, <3>2, PageType
    <3> HIDE DEF page
    <3>4. CASE page.error = None /\ TakePage(page)
      <4> DEFINE text == agent.text \o page.content
      <4>1. text \in Bytes /\ Len(text) \in Nat
        <5>1. text \in Bytes BY <3>2, <3>3, <3>4, ConcatProperties DEF Bytes
        <5>2. QED BY <1>5, <5>1
      <4>2. PICK pc \in {"ask", "edit", "done"}, out \in {"read", None} :
               agent' = [agent EXCEPT !.text = text, !.offset = Len(text),
                                      !.hash = page.hash, !.limit = 0, !.len = 0,
                                      !.pc = pc, !.out = out]
        BY <3>4 DEF TakePage
      <4> HIDE DEF text
      <4>3. QED
        BY <1>1, <1>2, <1>3, <1>4, <3>3, <3>4, <4>1, <4>2
        DEF AgentTyped, AgentState, Editing
    <3>5. CASE agent' = StartReading BY <1>1, <3>5, StartReadingType
    <3>6. CASE page.error # None /\ AgentDone(page.error)
      <4>1. page.error \in AgentOutcomes BY <1>2, <3>3, <3>6
      <4>2. QED BY <1>1, <3>6, <4>1, AgentDoneType
    <3>7. QED BY <3>1, <3>4, <3>5, <3>6
  <2>3. QED BY <2>1, <2>2
<1>8. CASE \E e \in EditLists : CheckEdit(e)
  <2>1. PICK e \in EditLists : CheckEdit(e) BY <1>8
  <2>2. e \in Seq(Replacement) BY FileAssumption
  <2>3. \/ AgentDone("bad_request") \/ AgentDone("missing") \/ AgentDone("file_too_large")
        \/ WellFormed(e) /\ agent' = [agent EXCEPT !.pc = "read", !.edits = e]
    BY <2>1 DEF CheckEdit
  <2>4. CASE WellFormed(e) /\ agent' = [agent EXCEPT !.pc = "read", !.edits = e]
    <3>1. e \in Replaceable BY <2>2, <2>4 DEF WellFormed, Replaceable
    <3>2. QED BY <1>1, <1>3, <1>4, <2>2, <2>4, <3>1 DEF AgentTyped, AgentState, Editing
  <2>5. ASSUME NEW why \in AgentOutcomes, AgentDone(why) PROVE AgentTyped'
    BY <1>1, <2>5, AgentDoneType
  <2>6. QED BY <1>2, <2>3, <2>4, <2>5
<1>9. CASE BuildEdit
  <2> DEFINE built == ApplyEdits(file, agent.edits)
  <2>1. \/ AgentDone("missing") \/ AgentDone("not_text") \/ agent' = StartReading
        \/ /\ file # None /\ built.error # None /\ AgentDone(built.error)
        \/ /\ file # None /\ built.error = None
           /\ agent' = [agent EXCEPT !.pc = "stage", !.new = built.text]
    BY <1>9 DEF BuildEdit
  <2>2. agent.edits \in Replaceable BY <1>9, TypeParts DEF AgentTyped, BuildEdit, Editing
  <2>3. file # None => built.text \in Bytes /\ built.error \in ListErrors \cup {"unchanged"}
    BY <1>4, <2>2, ListExact
  <2> HIDE DEF built
  <2>4. CASE file # None /\ built.error = None
             /\ agent' = [agent EXCEPT !.pc = "stage", !.new = built.text]
    BY <1>1, <1>3, <1>4, <2>2, <2>3, <2>4 DEF AgentTyped, AgentState, Editing
  <2>5. ASSUME NEW why \in AgentOutcomes, AgentDone(why) PROVE AgentTyped'
    BY <1>1, <2>5, AgentDoneType
  <2>6. ASSUME agent' = StartReading PROVE AgentTyped' BY <1>1, <2>6, StartReadingType
  <2>7. file # None /\ built.error # None => built.error \in AgentOutcomes
    BY <1>2, <2>3 DEF ListErrors
  <2>8. QED BY <1>2, <2>1, <2>4, <2>5, <2>6, <2>7
<1>10. CASE StageWrite
  <2>1. CASE file = None
    <3>1. AgentDone("missing") BY <1>10, <2>1 DEF StageWrite
    <3>2. QED BY <1>1, <1>2, <3>1, AgentDoneType
  <2>2. CASE file # None
    <3>1. agent' = [agent EXCEPT !.pc = "verify"] BY <1>10, <2>2 DEF StageWrite
    <3>2. agent.edits \in Replaceable
      BY <1>10, TypeParts DEF AgentTyped, StageWrite, Editing
    <3>3. QED BY <1>1, <1>3, <1>4, <3>1, <3>2 DEF AgentTyped, AgentState, Editing
  <2>3. QED BY <2>1, <2>2
<1>11. CASE LastLook
  <2>1. CASE verify_unchanged
    <3>1. agent' = [agent EXCEPT !.pc = "install", !.seen = version]
      BY <1>11, <2>1 DEF LastLook
    <3>2. agent.edits \in Replaceable BY <1>11, TypeParts DEF AgentTyped, LastLook, Editing
    <3>3. agent' \in AgentState BY <1>3, <1>4, <3>1 DEF AgentState
    <3>4. /\ agent'.first = agent.first /\ agent'.seen = version
          /\ agent'.offset = agent.offset /\ agent'.text = agent.text
          /\ agent'.edits = agent.edits
      BY <1>4, <3>1 DEF AgentState
    <3>5. agent'.first <= version' /\ agent'.seen <= version' BY <1>1, <1>4, <3>4
    <3>6. QED BY <1>4, <3>2, <3>3, <3>4, <3>5 DEF AgentTyped
  <2>2. CASE ~verify_unchanged
    <3>1. agent' = StartReading BY <1>11, <2>2 DEF LastLook
    <3>2. QED BY <1>1, <3>1, StartReadingType
  <2>3. QED BY <2>1, <2>2
<1>12. QED BY <1>6, <1>7, <1>8, <1>9, <1>10, <1>11

\* What the sender reads goes on with what it sent, within the size it gave; of
\* the file, if it is still there by its name.
LEMMA ReadGoesOn ==
  ASSUME TypeInv, SenderRead
  PROVE  \/ SenderFails
         \/ \E part \in Bytes :
              /\ sender' = [sender EXCEPT !.sent = sender.sent \o part]
              /\ sender.sent \o part \in Bytes
              /\ Len(sender.sent \o part) = Len(sender.sent) + Len(part)
              /\ Len(sender.sent \o part) <= sender.size
              /\ sender.linked /\ IsPrefix(sender.sent, file) =>
                   IsPrefix(sender.sent \o part, file)
<1> DEFINE bytes == IF sender.linked THEN file ELSE sender.fd
<1>1. file \in Bytes \cup {None} /\ sender \in SenderState /\ (sender.linked => file # None)
  BY TypeParts
<1>2. bytes \in Bytes /\ sender.sent \in Bytes /\ sender.size \in Nat
      /\ (sender.linked => bytes = file)
  BY <1>1 DEF SenderState
<1>3. PICK b \in Bytes, s \in Bytes, z \in Nat :
         b = bytes /\ s = sender.sent /\ z = sender.size
  BY <1>2
<1>4. PICK k \in Nat : k = Len(s) BY DEF Bytes
<1>5. k < z BY <1>3, <1>4 DEF SenderRead
<1>6. PICK n : n = ReadSize(b, k, z) OBVIOUS
<1>7. n # 0 => /\ n \in Nat /\ k + n <= z /\ k + n <= Len(b)
               /\ SubSeq(b, k + 1, k + n) \in Bytes /\ Len(SubSeq(b, k + 1, k + n)) = n
               /\ \A i \in 1 .. n : SubSeq(b, k + 1, k + n)[i] = b[k + i]
  BY <1>5, <1>6, NextBytes
<1>8. PICK part : part = SubSeq(b, k + 1, k + n) OBVIOUS
<1>9. \/ SenderFails
      \/ n # 0 /\ sender' = [sender EXCEPT !.sent = sender.sent \o part]
  BY <1>3, <1>4, <1>6, <1>8 DEF SenderRead, ReadSize
<1>10. n # 0 => /\ n \in Nat /\ k + n <= z /\ k + n <= Len(b)
                /\ part \in Bytes /\ Len(part) = n
                /\ \A i \in 1 .. n : part[i] = b[k + i]
  BY <1>7, <1>8
<1>11. ASSUME n # 0
      PROVE  /\ s \o part \in Bytes /\ Len(s \o part) = k + n
             /\ IsPrefix(s, b) => IsPrefix(s \o part, b)
  <2>1. part \in Bytes /\ Len(part) = n /\ n \in Nat BY <1>10, <1>11
  <2>2. s \o part \in Seq(Byte) /\ Len(s \o part) = Len(s) + Len(part)
    BY <2>1, ConcatProperties DEF Bytes
  <2>3. ASSUME IsPrefix(s, b) PROVE IsPrefix(s \o part, b)
    <3>1. Len(s) + Len(part) <= Len(b) BY <1>4, <1>10, <1>11, <2>1
    <3>2. \A i \in 1 .. Len(part) : part[i] = b[Len(s) + i] BY <1>4, <1>10, <1>11, <2>1
    <3>3. QED BY <2>1, <2>3, <3>1, <3>2, PrefixGrows
  <2>4. QED BY <1>4, <2>1, <2>2, <2>3 DEF Bytes
<1>12. QED
  <2>1. CASE SenderFails BY <2>1
  <2>2. CASE n # 0 /\ sender' = [sender EXCEPT !.sent = sender.sent \o part]
    <3>1. part \in Bytes /\ Len(part) = n /\ k + n <= z BY <1>10, <2>2
    <3>2. QED BY <1>2, <1>3, <1>4, <1>11, <2>2, <3>1
  <2>3. QED BY <1>9, <2>1, <2>2

\* Every step keeps the types.
LEMMA TypeStep ==
  ASSUME TypeInv, [Next]_vars
  PROVE  TypeInv'
<1>1. /\ file \in Bytes \cup {None} /\ version \in Nat /\ AgentTyped
      /\ sender \in SenderState /\ Len(sender.sent) <= sender.size
      /\ download \in DownloadState /\ download.got <= Len(sender.sent)
      /\ local \in TargetState /\ (sender.linked => file # None) /\ Unsent
  BY TypeParts
<1>2. \A s \in Bytes : Len(s) \in Nat BY DEF Bytes
<1>3. ASSUME agent' = agent, version' = version \/ version' = version + 1 PROVE AgentTyped'
  <2>1. agent.first \in Nat /\ agent.seen \in Nat BY <1>1 DEF AgentTyped, AgentState
  <2>2. agent'.first <= version' /\ agent'.seen <= version'
    BY <1>1, <1>3, <2>1 DEF AgentTyped
  <2>3. QED BY <1>1, <1>3, <2>2 DEF AgentTyped, Editing
<1>4. ASSUME NEW new \in Bytes \cup {None}, Renamed(new), UNCHANGED <<download, local>>,
             AgentTyped'
      PROVE  TypeInv'
  <2>1. /\ file' \in Bytes \cup {None} /\ version' \in Nat
        /\ sender' \in SenderState /\ ~sender'.linked /\ sender'.pc = sender.pc
        /\ sender'.sent = sender.sent /\ sender'.size = sender.size
    BY <1>4, RenamedType
  <2>2. Unsent' BY <1>1, <1>4, <2>1 DEF Unsent
  <2>3. QED BY <1>1, <1>4, <2>1, <2>2, TypeOfParts
<1>5. ASSUME NEW new \in Bytes, Written(new), UNCHANGED <<agent, download, local>>
      PROVE  TypeInv'
  <2>1. /\ file' \in Bytes /\ version' \in Nat /\ version' = version + 1
        /\ sender' \in SenderState /\ sender'.pc = sender.pc
        /\ sender'.sent = sender.sent /\ sender'.size = sender.size
    BY <1>5, WrittenType
  <2>2. file' # None BY <2>1, TextAssumption
  <2>3. AgentTyped' BY <1>3, <1>5, <2>1
  <2>4. Unsent' BY <1>1, <1>5, <2>1 DEF Unsent
  <2>5. QED BY <1>1, <1>5, <2>1, <2>2, <2>3, <2>4, TypeOfParts
<1>6. ASSUME sender' \in SenderState, Len(sender'.sent) <= sender'.size,
             download.got <= Len(sender'.sent), sender'.linked => file # None, Unsent',
             UnchangedBySender
      PROVE  TypeInv'
  <2>1. UNCHANGED <<file, version, agent, download, local>> BY <1>6 DEF UnchangedBySender
  <2>2. QED BY <1>1, <1>3, <1>6, <2>1, TypeOfParts
<1>7. ASSUME NEW pc \in SenderPcs, sender' = [sender EXCEPT !.pc = pc, !.linked = FALSE]
      PROVE  sender' \in SenderState /\ ~sender'.linked /\ sender'.sent = sender.sent
             /\ sender'.size = sender.size /\ sender'.pc = pc
  BY <1>1, <1>7 DEF SenderState
<1>8. ASSUME SenderFails
      PROVE  sender' \in SenderState /\ ~sender'.linked /\ sender'.sent = sender.sent
             /\ sender'.size = sender.size /\ sender'.pc = "failed"
  <2>1. "failed" \in SenderPcs BY DEF SenderPcs
  <2>2. QED BY <1>7, <1>8, <2>1 DEF SenderFails
<1>9. ASSUME UNCHANGED <<file, version, agent>>, download' \in DownloadState,
             download'.got <= Len(sender'.sent), local' \in TargetState,
             sender' \in SenderState, sender'.linked => sender.linked,
             sender'.sent = sender.sent, sender'.size = sender.size, Unsent'
      PROVE  TypeInv'
  BY <1>1, <1>3, <1>9, TypeOfParts
<1>10. ASSUME UNCHANGED vars PROVE TypeInv'
  BY <1>1, <1>3, <1>10, TypeOfParts DEF vars, Unsent
<1>11. CASE Others
  <2>1. CASE \E c \in Contents : OthersReplace(c)
    <3>1. PICK c \in Contents : OthersReplace(c) BY <2>1
    <3>2. c \in Bytes \cup {None} BY FileAssumption
    <3>3. Renamed(c) /\ UNCHANGED <<agent, download, local>> BY <3>1 DEF OthersReplace
    <3>4. AgentTyped' BY <1>3, <3>2, <3>3, RenamedType
    <3>5. QED BY <1>4, <3>2, <3>3, <3>4
  <2>2. CASE OthersRemove
    <3>1. Renamed(None) /\ UNCHANGED <<agent, download, local>> BY <2>2 DEF OthersRemove
    <3>2. AgentTyped' BY <1>3, <3>1, RenamedType
    <3>3. QED BY <1>4, <3>1, <3>2
  <2>3. CASE OthersAppend
    <3>1. /\ Written(Append(file, "a")) /\ UNCHANGED <<agent, download, local>>
          /\ file # None
      BY <2>3 DEF OthersAppend
    <3>2. Append(file, "a") \in Bytes BY <1>1, <3>1 DEF Bytes, Byte
    <3>3. QED BY <1>5, <3>1, <3>2
  <2>4. CASE OthersTruncate
    <3>1. Written(<<>>) /\ UNCHANGED <<agent, download, local>> BY <2>4 DEF OthersTruncate
    <3>2. <<>> \in Bytes BY DEF Bytes
    <3>3. QED BY <1>5, <3>1, <3>2
  <2>5. CASE OthersWriteLocal
    <3>1. /\ local' = [local EXCEPT !.target = "theirs", !.theirs = "theirs"]
          /\ UNCHANGED <<sender, download, file, version, agent>>
      BY <2>5 DEF OthersWriteLocal, UnchangedByDownload
    <3>2. local' \in TargetState BY <1>1, <3>1 DEF TargetState, LocalState
    <3>3. Unsent' BY <1>1, <3>1 DEF Unsent
    <3>4. QED BY <1>1, <1>9, <3>1, <3>2, <3>3
  <2>6. QED BY <1>11, <2>1, <2>2, <2>3, <2>4, <2>5 DEF Others
<1>12. CASE Agent
  <2>1. CASE InstallEdit
    <3>1. /\ Renamed(agent.new) /\ AgentDone("edited") /\ UNCHANGED <<download, local>>
      BY <2>1 DEF InstallEdit
    <3>2. agent.new \in Bytes \cup {None} BY <1>1 DEF AgentTyped, AgentState
    <3>3. version' = version + 1 BY <3>1 DEF Renamed
    <3>4. agent' = [agent EXCEPT !.pc = "done", !.out = "edited"] /\ "done" \in AgentPcs
          /\ "edited" \in AgentOutcomes
      BY <3>1 DEF AgentDone, AgentPcs, AgentOutcomes
    <3>5. agent.first \in Nat /\ agent.seen \in Nat BY <1>1 DEF AgentTyped, AgentState
    <3>6. agent' \in AgentState /\ agent'.first = agent.first /\ agent'.seen = agent.seen
          /\ agent'.offset = agent.offset /\ agent'.text = agent.text /\ agent'.pc = "done"
      BY <1>1, <3>4 DEF AgentTyped, AgentState
    <3>7. agent'.first <= version' /\ agent'.seen <= version'
      BY <1>1, <3>3, <3>5, <3>6 DEF AgentTyped
    <3>8. AgentTyped' BY <1>1, <3>6, <3>7 DEF AgentTyped, Editing
    <3>9. QED BY <1>4, <3>1, <3>2, <3>8
  <2>2. CASE ~InstallEdit
    <3>1. UnchangedByAgent
      BY <1>12, <2>2 DEF Agent, StatToRead, OpenAndRead, CheckEdit, BuildEdit, StageWrite,
                         LastLook
    <3>2. AgentTyped' BY <1>12, <2>2, <3>1, AgentType DEF Agent
    <3>3. UNCHANGED <<file, version, sender, download, local>> BY <3>1 DEF UnchangedByAgent
    <3>4. Unsent' BY <1>1, <3>3 DEF Unsent
    <3>5. QED BY <1>1, <3>2, <3>3, <3>4, TypeOfParts
  <2>3. QED BY <2>1, <2>2
<1>13. CASE Sender
  <2>1. ASSUME SenderFails, sender.pc \in {"stat", "open", "data", "trailer"},
               UnchangedBySender
        PROVE  TypeInv'
    <3>1. /\ sender' \in SenderState /\ ~sender'.linked /\ sender'.sent = sender.sent
          /\ sender'.size = sender.size /\ sender'.pc = "failed"
      BY <1>8, <2>1
    <3>2. Unsent' BY <1>1, <2>1, <3>1 DEF Unsent, UnchangedBySender
    <3>3. QED BY <1>1, <1>6, <2>1, <3>1, <3>2
  <2>2. CASE SenderStat
    <3>1. CASE file = None
      <4>1. SenderFails /\ UnchangedBySender /\ sender.pc = "stat"
        BY <2>2, <3>1 DEF SenderStat
      <4>2. QED BY <2>1, <4>1
    <3>2. CASE file # None
      <4>1. /\ sender' = [sender EXCEPT !.pc = "open", !.size = Len(file), !.whole = file]
            /\ sender.pc = "stat" /\ UnchangedBySender
        BY <2>2, <3>2 DEF SenderStat
      <4>2. "open" \in SenderPcs /\ file \in Bytes /\ Len(file) \in Nat
        BY <1>1, <1>2, <3>2 DEF SenderPcs
      <4>3. sender' \in SenderState /\ sender'.sent = sender.sent
            /\ sender'.size = Len(file) /\ sender'.linked = sender.linked
        BY <1>1, <4>1, <4>2 DEF SenderState
      <4>4. sender.sent = <<>> BY <1>1, <4>1 DEF Unsent
      <4>5. Len(sender'.sent) <= sender'.size BY <4>2, <4>3, <4>4
      <4>6. download.pc # "start" BY <1>1, <4>1 DEF Unsent
      <4>7. Unsent' BY <4>1, <4>3, <4>4, <4>6 DEF Unsent, UnchangedBySender
      <4>8. QED BY <1>1, <1>6, <4>1, <4>3, <4>5, <4>7
    <3>3. QED BY <3>1, <3>2
  <2>3. CASE SenderOpen
    <3>1. CASE file = None
      <4>1. SenderFails /\ UnchangedBySender /\ sender.pc = "open"
        BY <2>3, <3>1 DEF SenderOpen
      <4>2. QED BY <2>1, <4>1
    <3>2. CASE file # None
      <4>1. /\ sender' = [sender EXCEPT !.pc = "data", !.linked = TRUE, !.header = TRUE]
            /\ sender.pc = "open" /\ UnchangedBySender
        BY <2>3, <3>2 DEF SenderOpen
      <4>2. "data" \in SenderPcs BY DEF SenderPcs
      <4>3. sender' \in SenderState /\ sender'.sent = sender.sent
            /\ sender'.size = sender.size /\ sender'.pc = "data"
        BY <1>1, <4>1, <4>2 DEF SenderState
      <4>4. Unsent' BY <1>1, <4>1, <4>3 DEF Unsent, UnchangedBySender
      <4>5. QED BY <1>1, <1>6, <3>2, <4>1, <4>3, <4>4
    <3>3. QED BY <3>1, <3>2
  <2>4. CASE SenderRead
    <3>1. UnchangedBySender /\ sender.pc = "data" BY <2>4 DEF SenderRead
    <3>2. CASE SenderFails BY <2>1, <3>1, <3>2
    <3>3. CASE ~SenderFails
      <4>1. PICK part \in Bytes :
               /\ sender' = [sender EXCEPT !.sent = sender.sent \o part]
               /\ sender.sent \o part \in Bytes
               /\ Len(sender.sent \o part) = Len(sender.sent) + Len(part)
               /\ Len(sender.sent \o part) <= sender.size
        BY <2>4, <3>3, ReadGoesOn
      <4>2. Len(sender.sent) \in Nat /\ Len(part) \in Nat /\ download.got \in Nat
        BY <1>1, <1>2 DEF SenderState, DownloadState
      <4>3. sender' \in SenderState /\ sender'.sent = sender.sent \o part
            /\ sender'.size = sender.size /\ sender'.linked = sender.linked
            /\ sender'.pc = sender.pc
        BY <1>1, <4>1 DEF SenderState
      <4>4. Unsent' BY <1>1, <3>1, <4>3 DEF Unsent, UnchangedBySender
      <4>5. download.got <= Len(sender'.sent) BY <1>1, <4>1, <4>2, <4>3
      <4>6. QED BY <1>1, <1>6, <3>1, <4>1, <4>3, <4>4, <4>5
    <3>4. QED BY <3>2, <3>3
  <2>5. CASE SenderTrailer
    <3>1. /\ sender' = [sender EXCEPT !.pc = "trailer", !.trailer = TRUE,
                                      !.linked = FALSE, !.fd = <<>>]
          /\ sender.pc = "data" /\ UnchangedBySender
      BY <2>5 DEF SenderTrailer
    <3>2. "trailer" \in SenderPcs /\ <<>> \in Bytes BY DEF SenderPcs, Bytes
    <3>3. sender' \in SenderState /\ sender'.sent = sender.sent
          /\ sender'.size = sender.size /\ sender'.pc = "trailer" /\ ~sender'.linked
      BY <1>1, <3>1, <3>2 DEF SenderState
    <3>4. Unsent' BY <1>1, <3>1, <3>3 DEF Unsent, UnchangedBySender
    <3>5. QED BY <1>1, <1>6, <3>1, <3>3, <3>4
  <2>6. CASE SenderExits
    <3>1. /\ sender' = [sender EXCEPT !.pc = "exited"]
          /\ sender.pc = "trailer" /\ UnchangedBySender
      BY <2>6 DEF SenderExits
    <3>2. "exited" \in SenderPcs BY DEF SenderPcs
    <3>3. sender' \in SenderState /\ sender'.sent = sender.sent
          /\ sender'.size = sender.size /\ sender'.pc = "exited"
          /\ sender'.linked = sender.linked
      BY <1>1, <3>1, <3>2 DEF SenderState
    <3>4. Unsent' BY <1>1, <3>1, <3>3 DEF Unsent, UnchangedBySender
    <3>5. QED BY <1>1, <1>6, <3>1, <3>3, <3>4
  <2>7. CASE SenderDies BY <2>1, <2>7 DEF SenderDies, SenderRunning
  <2>8. QED BY <1>13, <2>2, <2>3, <2>4, <2>5, <2>6, <2>7 DEF Sender
<1>14. ASSUME UNCHANGED <<file, version, agent>>, local' \in TargetState,
              download' \in DownloadState, download'.got <= Len(sender.sent),
              download'.pc # "start",
              \/ UNCHANGED sender
              \/ SenderFails
              \/ sender' = [sender EXCEPT !.pc = "stat"] /\ download.pc = "start"
       PROVE  TypeInv'
  <2>1. CASE UNCHANGED sender
    <3>1. Unsent' BY <1>1, <1>14, <2>1 DEF Unsent
    <3>2. QED BY <1>1, <1>9, <1>14, <2>1, <3>1
  <2>2. CASE SenderFails
    <3>1. /\ sender' \in SenderState /\ ~sender'.linked /\ sender'.sent = sender.sent
          /\ sender'.size = sender.size /\ sender'.pc = "failed"
      BY <1>8, <2>2
    <3>2. Unsent' BY <1>14, <3>1 DEF Unsent
    <3>3. QED BY <1>9, <1>14, <3>1, <3>2
  <2>3. CASE sender' = [sender EXCEPT !.pc = "stat"] /\ download.pc = "start"
    <3>1. "stat" \in SenderPcs BY DEF SenderPcs
    <3>2. /\ sender' \in SenderState /\ sender'.linked = sender.linked
          /\ sender'.sent = sender.sent /\ sender'.size = sender.size
      BY <1>1, <2>3, <3>1 DEF SenderState
    <3>3. sender'.sent = <<>> BY <1>1, <2>3, <3>2 DEF Unsent
    <3>4. Unsent' BY <1>14, <3>3 DEF Unsent
    <3>5. QED BY <1>9, <1>14, <3>2, <3>4
  <2>4. QED BY <1>14, <2>1, <2>2, <2>3
<1>15. ASSUME NEW pc \in DownloadPcs, Step(pc)
       PROVE  download' \in DownloadState /\ download'.pc = pc
              /\ download'.got = download.got
  BY <1>1, <1>15 DEF Step, DownloadState
<1>16. ASSUME NEW out \in DownloadOutcomes, Ends(out)
       PROVE  download' \in DownloadState /\ download'.pc = "done"
              /\ download'.got = download.got
  <2>1. "done" \in DownloadPcs BY DEF DownloadPcs
  <2>2. QED BY <1>1, <1>16, <2>1 DEF Ends, DownloadState
<1>17. /\ {"header", "data", "trailer", "exit", "install", "record", "reap"}
            \subseteq DownloadPcs
       /\ {"ok", "unrecorded", "failed", "cancelled"} \subseteq DownloadOutcomes
  BY DEF DownloadPcs, DownloadOutcomes
<1>18. CASE Receive
  <2>1. UNCHANGED <<sender, local, file, version, agent>>
    BY <1>18 DEF Receive, ReceiveHeader, ReceiveBytes, ReceiveTrailer, StreamEnds,
                 UnchangedByDownload
  <2>2. CASE ReceiveBytes
    <3>1. PICK pc \in {"data", "trailer"} :
             download' = [download EXCEPT !.got = Len(sender.sent), !.pc = pc]
      BY <2>2 DEF ReceiveBytes
    <3>2. Len(sender.sent) \in Nat BY <1>1, <1>2 DEF SenderState
    <3>3. download' \in DownloadState /\ download'.got = Len(sender.sent)
          /\ download'.pc = pc
      BY <1>1, <1>17, <3>1, <3>2 DEF DownloadState
    <3>4. QED BY <1>1, <1>14, <2>1, <3>2, <3>3
  <2>3. CASE ~ReceiveBytes
    <3>1. PICK pc \in {"data", "trailer", "exit", "reap"} : Step(pc)
      BY <1>18, <2>3 DEF Receive, ReceiveHeader, ReceiveTrailer, StreamEnds
    <3>2. download' \in DownloadState /\ download'.pc = pc /\ download'.got = download.got
      BY <1>15, <1>17, <3>1
    <3>3. QED BY <1>1, <1>14, <2>1, <3>1, <3>2
  <2>4. QED BY <2>2, <2>3
<1>19. ASSUME KillSender PROVE UNCHANGED sender \/ SenderFails BY <1>19 DEF KillSender
<1>20. CASE Finish \/ CancelDownload
  <2>1. UNCHANGED <<file, version, agent>>
    BY <1>20 DEF Finish, StartDownload, Stall, Reap, FinishChild, InstallDownload,
                 RecordDownload, CancelDownload, UnchangedByDownload
  <2>2. \/ UNCHANGED sender
        \/ SenderFails
        \/ sender' = [sender EXCEPT !.pc = "stat"] /\ download.pc = "start"
    BY <1>19, <1>20 DEF Finish, StartDownload, Stall, Reap, FinishChild, InstallDownload,
                        RecordDownload, CancelDownload
  <2>3. \/ \E pc \in {"header", "reap", "install", "record"} : Step(pc)
        \/ \E out \in {"ok", "unrecorded", "failed", "cancelled"} : Ends(out)
    BY <1>20 DEF Finish, StartDownload, Stall, Reap, FinishChild, InstallDownload,
                 RecordDownload, CancelDownload
  <2>4. download' \in DownloadState /\ download'.pc # "start"
        /\ download'.got = download.got
    BY <1>15, <1>16, <1>17, <2>3
  <2>5. local' \in TargetState
    <3>1. \/ UNCHANGED local
          \/ local' = [local EXCEPT !.target = "download"]
          \/ \E done \in BOOLEAN : local' = [local EXCEPT !.recorded = done]
      BY <1>20 DEF Finish, StartDownload, Stall, Reap, FinishChild, InstallDownload,
                   RecordDownload, CancelDownload
    <3>2. QED BY <1>1, <3>1 DEF TargetState, LocalState
  <2>6. QED BY <1>1, <1>14, <2>1, <2>2, <2>4, <2>5
<1>21. QED BY <1>10, <1>11, <1>12, <1>13, <1>18, <1>20 DEF Next

-----------------------------------------------------------------------------
(***************************************************************************)
(* What the agent reads.                                                    *)
(***************************************************************************)
\* Everyone but the agent and the others leaves the file and the agent alone.
LEMMA Elsewhere ==
  ASSUME \/ Sender \/ Receive \/ Finish \/ CancelDownload \/ OthersWriteLocal
         \/ UNCHANGED vars
  PROVE  UNCHANGED <<file, version, agent>>
BY DEF Sender, SenderStat, SenderOpen, SenderRead, SenderTrailer, SenderExits, SenderDies,
       UnchangedBySender, Receive, ReceiveHeader, ReceiveBytes, ReceiveTrailer, StreamEnds,
       Finish, StartDownload, Stall, Reap, FinishChild, InstallDownload, RecordDownload,
       CancelDownload, OthersWriteLocal, UnchangedByDownload, vars

\* A step is one of those, a change of the file by others, or one of the agent.
LEMMA WhoSteps ==
  ASSUME [Next]_vars
  PROVE  \/ UNCHANGED <<file, version, agent>>
         \/ UNCHANGED agent /\ version' = version + 1
         \/ InstallEdit
         \/ /\ UnchangedByAgent
            /\ \/ \E n \in Limits : StatToRead(n)
               \/ OpenAndRead
               \/ \E e \in EditLists : CheckEdit(e)
               \/ BuildEdit \/ StageWrite \/ LastLook
<1>1. CASE \/ Sender \/ Receive \/ Finish \/ CancelDownload \/ OthersWriteLocal
           \/ UNCHANGED vars
  BY <1>1, Elsewhere
<1>2. CASE \/ \E c \in Contents : OthersReplace(c)
           \/ OthersRemove \/ OthersAppend \/ OthersTruncate
  BY <1>2 DEF OthersReplace, OthersRemove, OthersAppend, OthersTruncate, Renamed, Written
<1>3. CASE Agent
  BY <1>3 DEF Agent, StatToRead, OpenAndRead, CheckEdit, BuildEdit, StageWrite, LastLook
<1>4. QED BY <1>1, <1>2, <1>3 DEF Next, Others

\* What is read at first is a beginning of anything.
LEMMA EmptyPrefix ==
  ASSUME NEW s \in Bytes
  PROVE  IsPrefix(<<>>, s)
<1>1. <<>> \in Bytes /\ Len(<<>>) = 0 BY DEF Bytes
<1>2. PICK e \in Bytes : e = <<>> BY <1>1
<1>3. Len(s) \in Nat /\ Len(e) = 0 BY <1>1, <1>2 DEF Bytes
<1>4. IsPrefix(e, s) BY <1>3, PrefixIff
<1>5. QED BY <1>2, <1>4

\* Nothing was read at first.
LEMMA PagesInit == Init => PagesInv
<1> SUFFICES ASSUME Init PROVE PagesInv OBVIOUS
<1>1. PICK pc \in {"ask", "done"} : agent = [StartReading EXCEPT !.pc = pc] BY DEF Init
<1>2. /\ agent.pc = pc /\ agent.out = None /\ agent.text = <<>> /\ agent.hash = None
  BY <1>1 DEF StartReading
<1>3. file \in Bytes BY FileAssumption DEF Init
<1>5. IsPrefix(<<>>, file) BY <1>3, EmptyPrefix
<1>6. None \notin {"read", "not_text", "not_boundary"} BY FileAssumption DEF AgentOutcomes
<1>7. QED BY <1>2, <1>5, <1>6 DEF PagesInv, Undecided, Editing

\* A page taken goes on with what was read.
LEMMA TakePageStep ==
  ASSUME TypeInv, PagesInv, UnchangedByAgent, agent.pc = "open", file # None, NEW page,
         page = ReadPage(agent.len, file, agent.offset, agent.limit),
         page.error = None, agent.offset > 0 => page.hash = agent.hash, TakePage(page)
  PROVE  PagesInv'
<1>1. UNCHANGED <<file, version>> BY DEF UnchangedByAgent
<1>2. /\ file \in Bytes /\ agent \in AgentState /\ agent.offset = Len(agent.text)
  BY TypeParts DEF AgentTyped
<1>3. agent.text \in Bytes /\ agent.len \in Nat /\ agent.limit \in Nat
      /\ agent.offset \in Nat
  BY <1>2 DEF AgentState
<1>4. /\ page.content \in Bytes
      /\ agent.offset <= Len(file) => agent.offset + Len(page.content) <= Len(file)
      /\ \A i \in 1 .. Len(page.content) : page.content[i] = file[agent.offset + i]
      /\ page.hash = IF IsSmall(agent.len) THEN file ELSE None
      /\ page.next = None =>
           agent.offset + Len(page.content) >= FileLength(agent.len, file)
  <2>1. PICK s \in Bytes, start \in Nat, limit \in Nat, len \in Nat :
           s = file /\ start = agent.offset /\ limit = agent.limit /\ len = agent.len
    BY <1>2, <1>3
  <2>2. page = ReadPage(len, s, start, limit) /\ page.error = None BY <2>1
  <2>3. /\ page.content \in Bytes
        /\ start <= Len(s) => start + Len(page.content) <= Len(s)
        /\ \A i \in 1 .. Len(page.content) : page.content[i] = s[start + i]
        /\ page.hash = IF IsSmall(len) THEN s ELSE None
        /\ page.next = None => start + Len(page.content) >= FileLength(len, s)
    BY <2>2, PageContent
  <2>4. QED BY <2>1, <2>3
<1>5. PICK text : text = agent.text \o page.content OBVIOUS
<1>6. /\ agent'.text = text /\ agent'.hash = page.hash /\ agent'.first = agent.first
      /\ agent'.pc = IF page.next # None THEN "ask"
                     ELSE IF page.hash # None THEN "edit" ELSE "done"
      /\ agent'.out = IF page.next = None /\ page.hash = None THEN "read" ELSE None
  BY <1>2, <1>5 DEF TakePage, AgentState
<1>7. Len(file) \in Nat /\ Len(agent.text) \in Nat /\ Len(page.content) \in Nat
  BY <1>2, <1>3, <1>4 DEF Bytes
<1>8. ASSUME IsPrefix(agent.text, file)
      PROVE  /\ IsPrefix(text, file)
             /\ page.next = None /\ FileLength(agent.len, file) = Len(file) => text = file
  <2>1. Len(agent.text) <= Len(file) BY <1>2, <1>3, <1>8, PrefixIff
  <2>2. Len(agent.text) + Len(page.content) <= Len(file) BY <1>2, <1>4, <2>1
  <2>3. \A i \in 1 .. Len(page.content) : page.content[i] = file[Len(agent.text) + i]
    BY <1>2, <1>4
  <2>4. /\ IsPrefix(text, file) /\ Len(text) = Len(agent.text) + Len(page.content)
        /\ Len(text) >= Len(file) => text = file
    BY <1>2, <1>3, <1>4, <1>5, <1>8, <2>2, <2>3, PrefixGrows
  <2>5. ASSUME page.next = None, FileLength(agent.len, file) = Len(file) PROVE text = file
    BY <1>2, <1>4, <2>4, <2>5
  <2>6. QED BY <2>4, <2>5
<1>9. page.hash # None =>
        page.hash = file /\ IsSmall(agent.len) /\ IsPrefix(agent.text, file)
  <2>1. SUFFICES ASSUME page.hash # None
                 PROVE  page.hash = file /\ IsSmall(agent.len) /\ IsPrefix(agent.text, file)
    OBVIOUS
  <2>2. page.hash = file /\ IsSmall(agent.len) BY <1>4, <2>1
  <2>3. CASE agent.offset > 0 BY <2>1, <2>2, <2>3 DEF PagesInv
  <2>4. CASE ~(agent.offset > 0)
    <3>1. Len(agent.text) = 0 BY <1>2, <1>3, <2>4
    <3>2. QED BY <1>2, <1>3, <1>7, <2>2, <3>1, PrefixIff
  <2>5. QED BY <2>3, <2>4
<1>10. file # None BY <1>2, TextAssumption
<1>11. "read" # None /\ None \notin {"not_text", "not_boundary"}
  BY FileAssumption DEF AgentOutcomes
<1>12. Undecided' BY <1>6 DEF Undecided
<1>13. agent'.hash # None => IsPrefix(agent'.text, agent'.hash) BY <1>6, <1>8, <1>9
<1>14. agent'.pc = "edit" \/ Editing' => agent'.text = agent'.hash
  <2>1. ~Editing' BY <1>6 DEF Editing
  <2>2. ASSUME agent'.pc = "edit" PROVE agent'.text = agent'.hash
    <3>1. page.next = None /\ page.hash # None BY <1>6, <2>2
    <3>2. FileLength(agent.len, file) = Len(file) BY <1>9, <3>1 DEF FileLength
    <3>3. QED BY <1>6, <1>8, <1>9, <3>1, <3>2
  <2>3. QED BY <2>1, <2>2
<1>15. ASSUME agent'.first = version'
       PROVE  /\ IsPrefix(agent'.text, file') /\ agent'.pc # "open"
              /\ agent'.out = "read" => agent'.text = file'
              /\ agent'.out \notin {"not_text", "not_boundary"}
  <2>1. IsPrefix(agent.text, file) /\ agent.len = Len(file)
    BY <1>1, <1>6, <1>10, <1>15 DEF PagesInv
  <2>2. ASSUME agent'.out = "read" PROVE text = file
    <3>1. page.next = None /\ page.hash = None BY <1>6, <1>11, <2>2
    <3>2. FileLength(agent.len, file) = Len(file) BY <2>1 DEF FileLength
    <3>3. QED BY <1>8, <2>1, <3>1, <3>2
  <2>3. QED BY <1>1, <1>6, <1>8, <1>11, <2>1, <2>2
<1>16. QED BY <1>12, <1>13, <1>14, <1>15 DEF PagesInv

\* Every step keeps what the agent read.
LEMMA PagesStep ==
  ASSUME TypeInv, PagesInv, [Next]_vars
  PROVE  PagesInv'
<1>1. /\ file \in Bytes \cup {None} /\ version \in Nat /\ agent \in AgentState
      /\ agent.first \in Nat /\ agent.first <= version /\ agent.text \in Bytes
      /\ agent.offset = Len(agent.text)
  BY TypeParts DEF AgentTyped, AgentState
<1>2. None \notin {"read", "not_text", "not_boundary"} BY FileAssumption DEF AgentOutcomes
<1>3. CASE UNCHANGED <<file, version, agent>>
  BY <1>3 DEF PagesInv, Undecided, Editing
<1>4. CASE UNCHANGED agent /\ version' = version + 1
  <2>1. agent'.first # version' BY <1>1, <1>4
  <2>2. QED BY <1>4, <2>1 DEF PagesInv, Undecided, Editing
<1>5. CASE InstallEdit
  <2>1. version' = version + 1 /\ agent' = [agent EXCEPT !.pc = "done", !.out = "edited"]
    BY <1>5 DEF InstallEdit, Renamed, AgentDone
  <2>2. /\ agent'.pc = "done" /\ agent'.hash = agent.hash /\ agent'.text = agent.text
        /\ agent'.first = agent.first
    BY <1>1, <2>1 DEF AgentState
  <2>3. agent'.first # version' BY <1>1, <2>1, <2>2
  <2>4. QED BY <2>2, <2>3 DEF PagesInv, Undecided, Editing
<1>6. ASSUME NEW why, AgentDone(why), UnchangedByAgent, why # "read",
             file # None /\ why \in {"not_text", "not_boundary"} => ~IsText(file)
      PROVE  PagesInv'
  <2>1. /\ agent'.pc = "done" /\ agent'.hash = agent.hash /\ agent'.text = agent.text
        /\ agent'.first = agent.first /\ agent'.out = why
    BY <1>1, <1>6 DEF AgentState, AgentDone
  <2>2. file' = file /\ version' = version BY <1>6 DEF UnchangedByAgent
  <2>3. QED BY <1>6, <2>1, <2>2 DEF PagesInv, Undecided, Editing
<1>7. ASSUME agent' = StartReading, UnchangedByAgent PROVE PagesInv'
  <2>1. /\ agent'.pc = "ask" /\ agent'.hash = None /\ agent'.text = <<>>
        /\ agent'.out = None
    BY <1>7 DEF StartReading
  <2>2. file' = file BY <1>7 DEF UnchangedByAgent
  <2>3. file # None => IsPrefix(<<>>, file) BY <1>1, EmptyPrefix
  <2>4. QED BY <1>2, <2>1, <2>2, <2>3 DEF PagesInv, Undecided, Editing
<1>8. ASSUME UnchangedByAgent, agent.pc # "done", agent'.pc # "open",
             agent'.text = agent.text, agent'.hash = agent.hash,
             agent'.first = agent.first, agent'.out = agent.out,
             agent.pc = "edit" \/ Editing
      PROVE  PagesInv'
  <2>1. file' = file /\ version' = version BY <1>8 DEF UnchangedByAgent
  <2>2. agent.out = None BY <1>8 DEF PagesInv, Undecided
  <2>3. agent.text = agent.hash BY <1>8 DEF PagesInv
  <2>4. QED BY <1>2, <1>8, <2>1, <2>2, <2>3 DEF PagesInv, Undecided
<1>9. ASSUME UnchangedByAgent, NEW n \in Limits, StatToRead(n) PROVE PagesInv'
  <2>1. CASE file = None
    <3>1. AgentDone("missing") BY <1>9, <2>1 DEF StatToRead
    <3>2. QED BY <1>6, <1>9, <3>1
  <2>2. CASE file # None
    <3>1. /\ agent' = [agent EXCEPT !.pc = "open", !.limit = n, !.len = Len(file)]
          /\ agent.pc = "ask"
      BY <1>9, <2>2 DEF StatToRead
    <3>2. /\ agent'.pc = "open" /\ agent'.len = Len(file) /\ agent'.text = agent.text
          /\ agent'.hash = agent.hash /\ agent'.first = agent.first
          /\ agent'.out = agent.out
      BY <1>1, <3>1 DEF AgentState
    <3>3. agent.out = None BY <3>1 DEF PagesInv, Undecided
    <3>4. file' = file /\ version' = version BY <1>9 DEF UnchangedByAgent
    <3>5. QED BY <1>2, <3>2, <3>3, <3>4 DEF PagesInv, Undecided, Editing
  <2>3. QED BY <2>1, <2>2
<1>10. ASSUME UnchangedByAgent, OpenAndRead PROVE PagesInv'
  <2>1. CASE file = None
    <3>1. AgentDone("missing") BY <1>10, <2>1 DEF OpenAndRead
    <3>2. QED BY <1>6, <1>10, <3>1
  <2>2. CASE file # None
    <3>1. PICK page : page = ReadPage(agent.len, file, agent.offset, agent.limit) OBVIOUS
    <3>2. /\ agent.pc = "open"
          /\ \/ /\ page.error = None /\ (agent.offset > 0 => page.hash = agent.hash)
                /\ TakePage(page)
             \/ agent' = StartReading
             \/ /\ page.error # None /\ AgentDone(page.error)
                /\ ~(agent.offset > 0) \/ page.error = "not_text"
      BY <1>10, <2>2, <3>1 DEF OpenAndRead
    <3>3. agent.len \in Nat /\ agent.offset \in Nat /\ agent.limit \in Nat
      BY <1>1 DEF AgentState
    <3>4. CASE /\ page.error = None /\ (agent.offset > 0 => page.hash = agent.hash)
               /\ TakePage(page)
      BY <1>10, <2>2, <3>1, <3>2, <3>4, TakePageStep
    <3>5. CASE agent' = StartReading BY <1>7, <1>10, <3>5
    <3>6. CASE /\ page.error # None /\ AgentDone(page.error)
               /\ ~(agent.offset > 0) \/ page.error = "not_text"
      <4>1. page.error # "read" BY <1>1, <2>2, <3>1, <3>3, <3>6, PageType
      <4>2. IsText(file) =>
              page.error # "not_text" /\ (page.error = "not_boundary" => agent.offset > 0)
        BY <1>1, <2>2, <3>1, <3>3, PageRefused
      <4>3. QED BY <1>6, <1>10, <3>6, <4>1, <4>2
    <3>7. QED BY <3>2, <3>4, <3>5, <3>6
  <2>3. QED BY <2>1, <2>2
<1>11. ASSUME UnchangedByAgent, NEW e \in EditLists, CheckEdit(e) PROVE PagesInv'
  <2>1. \/ AgentDone("bad_request") \/ AgentDone("missing") \/ AgentDone("file_too_large")
        \/ agent.pc = "edit" /\ agent' = [agent EXCEPT !.pc = "read", !.edits = e]
    BY <1>11 DEF CheckEdit
  <2>2. CASE agent.pc = "edit" /\ agent' = [agent EXCEPT !.pc = "read", !.edits = e]
    <3>1. /\ agent'.pc = "read" /\ agent'.text = agent.text /\ agent'.hash = agent.hash
          /\ agent'.first = agent.first /\ agent'.out = agent.out
      BY <1>1, <2>2 DEF AgentState
    <3>2. QED BY <1>8, <1>11, <2>2, <3>1
  <2>3. QED BY <1>6, <1>11, <2>1, <2>2
<1>12. ASSUME UnchangedByAgent, BuildEdit PROVE PagesInv'
  <2>1. PICK built : built = ApplyEdits(file, agent.edits) OBVIOUS
  <2>2. \/ AgentDone("missing")
        \/ AgentDone("not_text") /\ ~IsText(file)
        \/ agent' = StartReading
        \/ /\ file # None /\ AgentDone(built.error) /\ built.error # None
        \/ agent.pc = "read" /\ agent' = [agent EXCEPT !.pc = "stage", !.new = built.text]
    BY <1>12, <2>1 DEF BuildEdit
  <2>3. agent.edits \in Replaceable BY <1>12, TypeParts DEF AgentTyped, BuildEdit, Editing
  <2>4. file # None => built.error \in ListErrors \cup {"unchanged"}
    BY <1>1, <2>1, <2>3, ListExact
  <2>5. CASE /\ file # None /\ AgentDone(built.error) /\ built.error # None
    <3>1. built.error \notin {"read", "not_text", "not_boundary"}
      BY <2>4, <2>5 DEF ListErrors
    <3>2. QED BY <1>6, <1>12, <2>5, <3>1
  <2>6. CASE agent.pc = "read" /\ agent' = [agent EXCEPT !.pc = "stage", !.new = built.text]
    <3>1. /\ agent'.pc = "stage" /\ agent'.text = agent.text /\ agent'.hash = agent.hash
          /\ agent'.first = agent.first /\ agent'.out = agent.out
      BY <1>1, <2>6 DEF AgentState
    <3>2. QED BY <1>8, <1>12, <2>6, <3>1 DEF Editing
  <2>7. QED BY <1>6, <1>7, <1>12, <2>2, <2>5, <2>6
<1>13. ASSUME UnchangedByAgent, StageWrite PROVE PagesInv'
  <2>1. \/ AgentDone("missing")
        \/ agent.pc = "stage" /\ agent' = [agent EXCEPT !.pc = "verify"]
    BY <1>13 DEF StageWrite
  <2>2. CASE agent.pc = "stage" /\ agent' = [agent EXCEPT !.pc = "verify"]
    <3>1. /\ agent'.pc = "verify" /\ agent'.text = agent.text /\ agent'.hash = agent.hash
          /\ agent'.first = agent.first /\ agent'.out = agent.out
      BY <1>1, <2>2 DEF AgentState
    <3>2. QED BY <1>8, <1>13, <2>2, <3>1 DEF Editing
  <2>3. QED BY <1>6, <1>13, <2>1, <2>2
<1>14. ASSUME UnchangedByAgent, LastLook PROVE PagesInv'
  <2>1. \/ agent' = StartReading
        \/ /\ agent.pc = "verify"
           /\ agent' = [agent EXCEPT !.pc = "install", !.seen = version]
    BY <1>14 DEF LastLook
  <2>2. CASE /\ agent.pc = "verify"
             /\ agent' = [agent EXCEPT !.pc = "install", !.seen = version]
    <3>1. /\ agent'.pc = "install" /\ agent'.text = agent.text /\ agent'.hash = agent.hash
          /\ agent'.first = agent.first /\ agent'.out = agent.out
      BY <1>1, <2>2 DEF AgentState
    <3>2. QED BY <1>8, <1>14, <2>2, <3>1 DEF Editing
  <2>3. QED BY <1>7, <1>14, <2>1, <2>2
<1>15. QED
  BY <1>3, <1>4, <1>5, <1>9, <1>10, <1>11, <1>12, <1>13, <1>14, WhoSteps

-----------------------------------------------------------------------------
(***************************************************************************)
(* What the agent's edit is built from.                                     *)
(***************************************************************************)
\* A list that was not refused as too large, and that is not being made.
LEMMA CapIdle ==
  ASSUME agent.pc \notin {"stage", "verify", "install"}, agent.out # "too_large"
  PROVE  EditInv
BY DEF EditInv, CapExact

\* Nothing is edited at first.
LEMMA EditInit == Init => EditInv
<1> SUFFICES ASSUME Init PROVE EditInv OBVIOUS
<1>1. PICK pc \in {"ask", "done"} : agent = [StartReading EXCEPT !.pc = pc] BY DEF Init
<1>2. agent.pc = pc /\ agent.out = None BY <1>1 DEF StartReading
<1>3. None # "too_large" BY FileAssumption DEF AgentOutcomes
<1>4. QED BY <1>2, <1>3, CapIdle

\* Every step keeps what an edit under way was built from.
LEMMA EditStepKeeps ==
  ASSUME TypeInv, PagesInv, EditInv, [Next]_vars
  PROVE  EditInv'
<1>1. /\ file \in Bytes \cup {None} /\ version \in Nat /\ agent \in AgentState
      /\ agent.seen \in Nat /\ agent.seen <= version
  BY TypeParts DEF AgentTyped, AgentState
<1>2. None # "too_large" BY FileAssumption DEF AgentOutcomes
<1>3. CASE UNCHANGED <<file, version, agent>> BY <1>3 DEF EditInv, CapExact
<1>4. CASE UNCHANGED agent /\ version' = version + 1
  <2>1. agent'.seen # version' BY <1>1, <1>4
  <2>2. CapExact' BY <1>4 DEF EditInv, CapExact
  <2>3. QED BY <2>1, <2>2 DEF EditInv
<1>5. ASSUME agent'.pc \notin {"stage", "verify", "install"}, agent'.out # "too_large"
      PROVE  EditInv'
  BY <1>5 DEF EditInv, CapExact
<1>6. ASSUME NEW why, AgentDone(why), why # "too_large" PROVE EditInv'
  <2>1. agent'.pc = "done" /\ agent'.out = why BY <1>1, <1>6 DEF AgentDone, AgentState
  <2>2. QED BY <1>5, <1>6, <2>1
<1>7. ASSUME agent' = StartReading PROVE EditInv'
  <2>1. agent'.pc = "ask" /\ agent'.out = None BY <1>7 DEF StartReading
  <2>2. QED BY <1>2, <1>5, <2>1
<1>8. ASSUME agent.pc \in {"stage", "verify"}, agent'.pc \in {"verify", "install"},
             agent'.hash = agent.hash, agent'.edits = agent.edits, agent'.new = agent.new,
             agent'.out = agent.out
      PROVE  CapExact'
  BY <1>8 DEF EditInv, CapExact
<1>9. CASE InstallEdit
  <2>1. AgentDone("edited") BY <1>9 DEF InstallEdit
  <2>2. QED BY <1>6, <2>1
<1>10. ASSUME NEW n \in Limits, StatToRead(n) PROVE EditInv'
  <2>1. \/ AgentDone("missing")
        \/ /\ agent' = [agent EXCEPT !.pc = "open", !.limit = n, !.len = Len(file)]
           /\ agent.pc = "ask"
    BY <1>10 DEF StatToRead
  <2>2. CASE /\ agent' = [agent EXCEPT !.pc = "open", !.limit = n, !.len = Len(file)]
             /\ agent.pc = "ask"
    <3>1. agent'.pc = "open" /\ agent'.out = None
      BY <1>1, <2>2 DEF AgentState, PagesInv, Undecided
    <3>2. QED BY <1>2, <1>5, <3>1
  <2>3. QED BY <1>6, <2>1, <2>2
<1>11. CASE OpenAndRead
  <2>1. PICK page : page = ReadPage(agent.len, file, agent.offset, agent.limit) OBVIOUS
  <2>2. \/ AgentDone("missing")
        \/ TakePage(page)
        \/ agent' = StartReading
        \/ file # None /\ page.error # None /\ AgentDone(page.error)
    BY <1>11, <2>1 DEF OpenAndRead
  <2>3. CASE TakePage(page)
    <3>1. agent'.pc \in {"ask", "edit", "done"} /\ agent'.out \in {"read", None}
      BY <1>1, <2>3 DEF TakePage, AgentState
    <3>2. QED BY <1>2, <1>5, <3>1
  <2>4. CASE file # None /\ page.error # None /\ AgentDone(page.error)
    <3>1. agent.len \in Nat /\ agent.offset \in Nat /\ agent.limit \in Nat
      BY TypeParts DEF AgentTyped, AgentState
    <3>2. page.error # "too_large" BY <1>1, <2>1, <2>4, <3>1, PageType
    <3>3. QED BY <1>6, <2>4, <3>2
  <2>5. QED BY <1>6, <1>7, <2>2, <2>3, <2>4
<1>12. ASSUME NEW e \in EditLists, CheckEdit(e) PROVE EditInv'
  <2>1. \/ AgentDone("bad_request") \/ AgentDone("missing") \/ AgentDone("file_too_large")
        \/ agent.pc = "edit" /\ agent' = [agent EXCEPT !.pc = "read", !.edits = e]
    BY <1>12 DEF CheckEdit
  <2>2. CASE agent.pc = "edit" /\ agent' = [agent EXCEPT !.pc = "read", !.edits = e]
    <3>1. agent'.pc = "read" /\ agent'.out = None
      BY <1>1, <2>2 DEF AgentState, PagesInv, Undecided
    <3>2. QED BY <1>2, <1>5, <3>1
  <2>3. QED BY <1>6, <2>1, <2>2
<1>13. CASE BuildEdit
  <2>1. PICK built : built = ApplyEdits(file, agent.edits) OBVIOUS
  <2>2. \/ AgentDone("missing") \/ AgentDone("not_text") \/ agent' = StartReading
        \/ /\ file # None /\ file = agent.hash
           /\ built.error # None /\ AgentDone(built.error)
        \/ /\ file # None /\ file = agent.hash /\ built.error = None
           /\ agent.pc = "read"
           /\ agent' = [agent EXCEPT !.pc = "stage", !.new = built.text]
    BY <1>13, <2>1 DEF BuildEdit
  <2>3. agent.edits \in Replaceable BY <1>13, TypeParts DEF AgentTyped, BuildEdit, Editing
  <2>4. ASSUME file # None, file = agent.hash
        PROVE  /\ built.error = None =>
                    /\ built.text = Results(agent.hash, agent.edits)[Len(agent.edits)]
                    /\ \A n \in 1 .. Len(agent.edits) :
                         Len(Results(agent.hash, agent.edits)[n]) <= MaxText
               /\ built.error = "too_large" =>
                    \E n \in 1 .. Len(agent.edits) :
                      Len(Results(agent.hash, agent.edits)[n]) > MaxText
    BY <1>1, <2>1, <2>3, <2>4, ListExact
  <2>5. CASE /\ file # None /\ file = agent.hash
             /\ built.error # None /\ AgentDone(built.error)
    <3>1. /\ agent'.pc = "done" /\ agent'.out = built.error /\ agent'.hash = agent.hash
          /\ agent'.edits = agent.edits
      BY <1>1, <2>5 DEF AgentDone, AgentState
    <3>2. CapExact' BY <2>4, <2>5, <3>1 DEF CapExact
    <3>3. QED BY <3>1, <3>2 DEF EditInv
  <2>6. CASE /\ file # None /\ file = agent.hash /\ built.error = None
             /\ agent.pc = "read"
             /\ agent' = [agent EXCEPT !.pc = "stage", !.new = built.text]
    <3>1. /\ agent'.pc = "stage" /\ agent'.out = None /\ agent'.hash = agent.hash
          /\ agent'.edits = agent.edits /\ agent'.new = built.text
      BY <1>1, <2>6 DEF AgentState, PagesInv, Undecided
    <3>2. CapExact' BY <1>2, <2>4, <2>6, <3>1 DEF CapExact
    <3>3. QED BY <3>1, <3>2 DEF EditInv
  <2>7. QED BY <1>6, <1>7, <2>2, <2>5, <2>6
<1>14. CASE StageWrite
  <2>1. \/ AgentDone("missing")
        \/ agent.pc = "stage" /\ agent' = [agent EXCEPT !.pc = "verify"]
    BY <1>14 DEF StageWrite
  <2>2. CASE agent.pc = "stage" /\ agent' = [agent EXCEPT !.pc = "verify"]
    <3>1. /\ agent'.pc = "verify" /\ agent'.hash = agent.hash /\ agent'.edits = agent.edits
          /\ agent'.new = agent.new /\ agent'.out = agent.out
      BY <1>1, <2>2 DEF AgentState
    <3>2. CapExact' BY <1>8, <2>2, <3>1
    <3>3. QED BY <3>1, <3>2 DEF EditInv
  <2>3. QED BY <1>6, <2>1, <2>2
<1>15. ASSUME UnchangedByAgent, LastLook PROVE EditInv'
  <2>1. \/ agent' = StartReading
        \/ /\ agent.pc = "verify" /\ file = agent.hash
           /\ agent' = [agent EXCEPT !.pc = "install", !.seen = version]
    BY <1>15 DEF LastLook, verify_unchanged
  <2>2. CASE /\ agent.pc = "verify" /\ file = agent.hash
             /\ agent' = [agent EXCEPT !.pc = "install", !.seen = version]
    <3>1. /\ agent'.pc = "install" /\ agent'.hash = agent.hash
          /\ agent'.edits = agent.edits /\ agent'.new = agent.new /\ agent'.out = agent.out
      BY <1>1, <2>2 DEF AgentState
    <3>2. CapExact' BY <1>8, <2>2, <3>1
    <3>3. file' = agent'.hash BY <1>15, <2>2, <3>1 DEF UnchangedByAgent
    <3>4. QED BY <3>2, <3>3 DEF EditInv
  <2>3. QED BY <1>7, <2>1, <2>2
<1>16. QED
  BY <1>3, <1>4, <1>9, <1>10, <1>11, <1>12, <1>13, <1>14, <1>15, WhoSteps

-----------------------------------------------------------------------------
(***************************************************************************)
(* What the download leaves.                                                *)
(***************************************************************************)
\* All of a file was sent once as much of it was.
LEMMA WholePrefix ==
  ASSUME NEW t \in Bytes, NEW s \in Bytes, IsPrefix(t, s), Len(t) = Len(s)
  PROVE  t = s
<1>1. Len(t) \in Nat /\ Len(s) \in Nat BY DEF Bytes
<1>2. \A i \in 1 .. Len(t) : t[i] = s[i] BY PrefixIff
<1>3. QED BY <1>1, <1>2, SeqEqual DEF Bytes

\* Nothing is sent at first.
LEMMA SenderInit == Init => SenderInv
<1> SUFFICES ASSUME Init PROVE SenderInv OBVIOUS
<1>1. /\ sender.pc = "off" /\ ~sender.header /\ ~sender.trailer /\ sender.whole = None
  BY DEF Init
<1>2. QED BY <1>1 DEF SenderInv

\* Nothing was downloaded at first.
LEMMA TargetInit == Init => TargetInv
<1> SUFFICES ASSUME Init PROVE TargetInv OBVIOUS
<1>1. sender.pc = "off" BY DEF Init
<1>2. PICK dpc \in {"start", "done"} : download.pc = dpc /\ download.out = None
  BY DEF Init
<1>3. PICK t \in {None, "theirs"} :
         local.target = t /\ local.theirs = t /\ ~local.recorded
  BY DEF Init
<1>4. None \notin {"download", "ok"} BY FileAssumption DEF DownloadOutcomes, LocalState
<1>5. QED BY <1>1, <1>2, <1>3, <1>4 DEF TargetInv, SenderRunning

\* Every step keeps what the sender sends.
LEMMA SenderStepKeeps ==
  ASSUME TypeInv, SenderInv, [Next]_vars
  PROVE  SenderInv'
<1>1. /\ file \in Bytes \cup {None} /\ sender \in SenderState
      /\ (sender.linked => file # None) /\ Unsent
  BY TypeParts
<1>2. ASSUME SenderFails PROVE SenderInv'
  <2>1. /\ sender'.pc = "failed" /\ sender'.trailer = sender.trailer
        /\ sender'.sent = sender.sent /\ sender'.size = sender.size
        /\ sender'.whole = sender.whole
    BY <1>1, <1>2 DEF SenderFails, SenderState
  <2>2. QED BY <2>1 DEF SenderInv
<1>3. ASSUME NEW linked \in BOOLEAN, NEW fd,
             sender' = [sender EXCEPT !.linked = linked, !.fd = fd,
                                      !.whole = IF sender.trailer THEN sender.whole ELSE None]
      PROVE  SenderInv'
  <2>1. /\ sender'.pc = sender.pc /\ sender'.trailer = sender.trailer
        /\ sender'.header = sender.header
        /\ sender'.sent = sender.sent /\ sender'.size = sender.size
        /\ sender'.whole = IF sender.trailer THEN sender.whole ELSE None
    BY <1>1, <1>3 DEF SenderState
  <2>2. QED BY <2>1 DEF SenderInv
<1>4. ASSUME NEW new, Renamed(new) PROVE SenderInv'
  <2>1. PICK fd : fd = IF sender.linked THEN file ELSE sender.fd OBVIOUS
  <2>2. sender' = [sender EXCEPT !.linked = FALSE, !.fd = fd,
                                 !.whole = IF sender.trailer THEN sender.whole ELSE None]
    BY <1>4, <2>1 DEF Renamed
  <2>3. QED BY <1>3, <2>2
<1>5. ASSUME NEW new, Written(new) PROVE SenderInv'
  <2>1. sender' = [sender EXCEPT !.whole = IF sender.trailer THEN sender.whole ELSE None]
    BY <1>5 DEF Written
  <2>2. /\ sender'.pc = sender.pc /\ sender'.trailer = sender.trailer
        /\ sender'.header = sender.header
        /\ sender'.sent = sender.sent /\ sender'.size = sender.size
        /\ sender'.whole = IF sender.trailer THEN sender.whole ELSE None
    BY <1>1, <2>1 DEF SenderState
  <2>3. QED BY <2>2 DEF SenderInv
<1>6. CASE UNCHANGED <<file, sender>> BY <1>6 DEF SenderInv
<1>7. CASE SenderStat
  <2>1. CASE file = None
    <3>1. SenderFails BY <1>7, <2>1 DEF SenderStat
    <3>2. QED BY <1>2, <3>1
  <2>2. CASE file # None
    <3>1. /\ sender' = [sender EXCEPT !.pc = "open", !.size = Len(file), !.whole = file]
          /\ sender.pc = "stat" /\ file' = file
      BY <1>7, <2>2 DEF SenderStat, UnchangedBySender
    <3>2. /\ sender'.pc = "open" /\ sender'.size = Len(file) /\ sender'.whole = file
          /\ sender'.sent = sender.sent /\ sender'.header = sender.header
          /\ sender'.trailer = sender.trailer
      BY <1>1, <3>1 DEF SenderState
    <3>3. sender.sent = <<>> BY <1>1, <3>1 DEF Unsent
    <3>4. IsPrefix(<<>>, file) BY <1>1, <2>2, EmptyPrefix
    <3>5. QED BY <3>1, <3>2, <3>3, <3>4 DEF SenderInv
  <2>3. QED BY <2>1, <2>2
<1>8. CASE SenderOpen
  <2>1. CASE file = None
    <3>1. SenderFails BY <1>8, <2>1 DEF SenderOpen
    <3>2. QED BY <1>2, <3>1
  <2>2. CASE file # None
    <3>1. /\ sender' = [sender EXCEPT !.pc = "data", !.linked = TRUE, !.header = TRUE]
          /\ sender.pc = "open" /\ file' = file
      BY <1>8, <2>2 DEF SenderOpen, UnchangedBySender
    <3>2. /\ sender'.pc = "data" /\ sender'.size = sender.size /\ sender'.linked
          /\ sender'.sent = sender.sent /\ sender'.whole = sender.whole
          /\ sender'.trailer = sender.trailer
      BY <1>1, <3>1 DEF SenderState
    <3>3. QED BY <3>1, <3>2 DEF SenderInv
  <2>3. QED BY <2>1, <2>2
<1>9. CASE SenderRead
  <2>1. CASE SenderFails BY <1>2, <2>1
  <2>2. CASE ~SenderFails
    <3>1. PICK part \in Bytes :
             /\ sender' = [sender EXCEPT !.sent = sender.sent \o part]
             /\ sender.linked /\ IsPrefix(sender.sent, file) =>
                  IsPrefix(sender.sent \o part, file)
      BY <1>9, <2>2, ReadGoesOn
    <3>2. sender.pc = "data" /\ file' = file BY <1>9 DEF SenderRead, UnchangedBySender
    <3>3. PICK sent : sent = sender.sent \o part OBVIOUS
    <3>4. /\ sender'.pc = "data" /\ sender'.size = sender.size
          /\ sender'.linked = sender.linked /\ sender'.sent = sent
          /\ sender'.whole = sender.whole /\ sender'.trailer = sender.trailer
      BY <1>1, <3>1, <3>2, <3>3 DEF SenderState
    <3>5. QED BY <3>1, <3>2, <3>3, <3>4 DEF SenderInv
  <2>3. QED BY <2>1, <2>2
<1>10. CASE SenderTrailer
  <2>1. /\ sender' = [sender EXCEPT !.pc = "trailer", !.trailer = TRUE,
                                    !.linked = FALSE, !.fd = <<>>]
        /\ sender.pc = "data" /\ Len(sender.sent) = sender.size
    BY <1>10 DEF SenderTrailer
  <2>2. /\ sender'.pc = "trailer" /\ sender'.size = sender.size /\ sender'.trailer
        /\ sender'.sent = sender.sent /\ sender'.whole = sender.whole
    BY <1>1, <2>1 DEF SenderState
  <2>3. ASSUME sender.whole # None PROVE sender.sent = sender.whole
    <3>1. sender.sent \in Bytes /\ sender.whole \in Bytes BY <1>1, <2>3 DEF SenderState
    <3>2. IsPrefix(sender.sent, sender.whole) /\ Len(sender.sent) = Len(sender.whole)
      BY <2>1, <2>3 DEF SenderInv
    <3>3. QED BY <3>1, <3>2, WholePrefix
  <2>4. QED BY <2>1, <2>2, <2>3 DEF SenderInv
<1>11. CASE SenderExits
  <2>1. sender' = [sender EXCEPT !.pc = "exited"] /\ sender.pc = "trailer"
    BY <1>11 DEF SenderExits
  <2>2. /\ sender'.pc = "exited" /\ sender'.size = sender.size
        /\ sender'.trailer = sender.trailer
        /\ sender'.sent = sender.sent /\ sender'.whole = sender.whole
    BY <1>1, <2>1 DEF SenderState
  <2>3. QED BY <2>1, <2>2 DEF SenderInv
<1>12. CASE sender' = [sender EXCEPT !.pc = "stat"] /\ sender.pc = "off"
  <2>1. /\ sender'.pc = "stat" /\ sender'.header = sender.header
        /\ sender'.trailer = sender.trailer
    BY <1>1, <1>12 DEF SenderState
  <2>2. QED BY <1>12, <2>1 DEF SenderInv
<1>13. CASE Others \/ Agent
  <2>1. \/ \E new : Renamed(new)
        \/ \E new : Written(new)
        \/ UNCHANGED <<file, sender>>
    BY <1>13 DEF Others, OthersReplace, OthersRemove, OthersAppend, OthersTruncate,
                 OthersWriteLocal, UnchangedByDownload, Agent, StatToRead, OpenAndRead,
                 CheckEdit, BuildEdit, StageWrite, LastLook, InstallEdit, UnchangedByAgent
  <2>2. QED BY <1>4, <1>5, <1>6, <2>1
<1>14. CASE Sender
  BY <1>2, <1>7, <1>8, <1>9, <1>10, <1>11, <1>14 DEF Sender, SenderDies
<1>15. CASE Receive \/ Finish \/ CancelDownload \/ UNCHANGED vars
  <2>1. file' = file BY <1>15, Elsewhere
  <2>2. \/ UNCHANGED sender
        \/ SenderFails
        \/ sender' = [sender EXCEPT !.pc = "stat"] /\ download.pc = "start"
    BY <1>15 DEF Receive, ReceiveHeader, ReceiveBytes, ReceiveTrailer, StreamEnds,
                 Finish, StartDownload, Stall, Reap, FinishChild, InstallDownload,
                 RecordDownload, CancelDownload, KillSender, vars
  <2>3. download.pc = "start" => sender.pc = "off" BY <1>1 DEF Unsent
  <2>4. QED BY <1>2, <1>6, <1>12, <2>1, <2>2, <2>3
<1>16. QED BY <1>13, <1>14, <1>15 DEF Next

\* Every step keeps what the download makes of it.
LEMMA TargetStepKeeps ==
  ASSUME TypeInv, TargetInv, [Next]_vars
  PROVE  TargetInv'
<1>1. /\ sender \in SenderState /\ download \in DownloadState /\ local \in TargetState
      /\ Unsent
  BY TypeParts
<1>2. None \notin {"ok", "unrecorded", "failed", "cancelled", "download", "theirs"}
  BY FileAssumption DEF DownloadOutcomes, LocalState
<1>3. ASSUME UNCHANGED <<download, local>>, sender.trailer => sender'.trailer,
             SenderRunning' => SenderRunning
      PROVE  TargetInv'
  BY <1>3 DEF TargetInv
<1>4. ASSUME SenderFails PROVE ~SenderRunning' /\ sender'.trailer = sender.trailer
  BY <1>1, <1>4 DEF SenderFails, SenderRunning, SenderState
<1>5. ASSUME KillSender PROVE ~SenderRunning' /\ sender'.trailer = sender.trailer
  BY <1>4, <1>5 DEF KillSender, SenderRunning
<1>6. ASSUME NEW pc, Step(pc)
      PROVE  /\ download'.pc = pc /\ download'.out = download.out
             /\ download'.overwrite = download.overwrite
  BY <1>1, <1>6 DEF Step, DownloadState
<1>7. ASSUME NEW out, Ends(out)
      PROVE  /\ download'.pc = "done" /\ download'.out = out
             /\ download'.overwrite = download.overwrite
  BY <1>1, <1>7 DEF Ends, DownloadState
<1>8. ASSUME NEW pc \in {"header", "data", "trailer", "reap"}, UNCHANGED local,
             download'.pc = pc, download'.out = download.out,
             download'.overwrite = download.overwrite,
             download.pc \in {"start", "header", "data", "trailer"}
      PROVE  TargetInv'
  BY <1>8 DEF TargetInv
<1>9. ASSUME Ends("failed"), UNCHANGED local, ~SenderRunning',
             download.pc \in {"start", "reap", "exit", "install"}
      PROVE  TargetInv'
  <2>1. /\ download'.pc = "done" /\ download'.out = "failed"
        /\ download'.overwrite = download.overwrite
    BY <1>7, <1>9
  <2>2. QED BY <1>9, <2>1 DEF TargetInv
<1>10. CASE UNCHANGED vars BY <1>3, <1>10 DEF vars, SenderRunning
<1>11. ASSUME \/ \E new : Renamed(new)
              \/ \E new : Written(new)
       PROVE  sender'.pc = sender.pc /\ sender'.trailer = sender.trailer
  BY <1>1, <1>11 DEF Renamed, Written, SenderState
<1>12. CASE Others /\ ~OthersWriteLocal
  <2>1. /\ UNCHANGED <<download, local>>
        /\ (\E new : Renamed(new)) \/ (\E new : Written(new))
    BY <1>12 DEF Others, OthersReplace, OthersRemove, OthersAppend, OthersTruncate
  <2>2. QED BY <1>3, <1>11, <2>1 DEF SenderRunning
<1>13. CASE Agent
  <2>1. /\ UNCHANGED <<download, local>>
        /\ (\E new : Renamed(new)) \/ UNCHANGED sender
    BY <1>13 DEF Agent, StatToRead, OpenAndRead, CheckEdit, BuildEdit, StageWrite,
                 LastLook, InstallEdit, UnchangedByAgent
  <2>2. sender'.pc = sender.pc /\ sender'.trailer = sender.trailer BY <1>11, <2>1
  <2>3. QED BY <1>3, <2>1, <2>2 DEF SenderRunning
<1>14. CASE Sender
  <2>1. UNCHANGED <<download, local>>
    BY <1>14 DEF Sender, SenderStat, SenderOpen, SenderRead, SenderTrailer, SenderExits,
                 SenderDies, UnchangedBySender
  <2>2. SenderRunning
    BY <1>14 DEF Sender, SenderStat, SenderOpen, SenderRead, SenderTrailer, SenderExits,
                 SenderDies, SenderRunning
  <2>3. sender.trailer => sender'.trailer
    <3>1. \/ SenderFails
          \/ sender' = [sender EXCEPT !.pc = "open", !.size = Len(file), !.whole = file]
          \/ sender' = [sender EXCEPT !.pc = "data", !.linked = TRUE, !.header = TRUE]
          \/ \E sent : sender' = [sender EXCEPT !.sent = sent]
          \/ sender' = [sender EXCEPT !.pc = "trailer", !.trailer = TRUE,
                                      !.linked = FALSE, !.fd = <<>>]
          \/ sender' = [sender EXCEPT !.pc = "exited"]
      <4>1. CASE SenderStat BY <4>1 DEF SenderStat
      <4>2. CASE SenderOpen BY <4>2 DEF SenderOpen
      <4>3. CASE SenderRead BY <4>3, ReadGoesOn
      <4>4. CASE SenderTrailer BY <4>4 DEF SenderTrailer
      <4>5. CASE SenderExits BY <4>5 DEF SenderExits
      <4>6. CASE SenderDies BY <4>6 DEF SenderDies
      <4>7. QED BY <1>14, <4>1, <4>2, <4>3, <4>4, <4>5, <4>6 DEF Sender
    <3>2. QED BY <1>1, <1>4, <3>1 DEF SenderState
  <2>4. QED BY <1>3, <2>1, <2>2, <2>3
<1>15. CASE OthersWriteLocal
  <2>1. /\ local' = [local EXCEPT !.target = "theirs", !.theirs = "theirs"]
        /\ UNCHANGED <<sender, download>>
    BY <1>15 DEF OthersWriteLocal
  <2>2. /\ local'.target = "theirs" /\ local'.theirs = "theirs"
        /\ local'.recorded = local.recorded
    BY <1>1, <2>1 DEF TargetState
  <2>3. SenderRunning' = SenderRunning BY <2>1 DEF SenderRunning
  <2>4. QED BY <1>2, <2>1, <2>2, <2>3 DEF TargetInv
<1>16. CASE Receive
  <2>1. UNCHANGED <<sender, local>>
    BY <1>16 DEF Receive, ReceiveHeader, ReceiveBytes, ReceiveTrailer, StreamEnds
  <2>2. CASE ReceiveTrailer
    <3>1. /\ download'.pc = "exit" /\ download'.out = download.out
          /\ download'.overwrite = download.overwrite
          /\ download.pc = "trailer" /\ sender.trailer
      BY <1>6, <2>2 DEF ReceiveTrailer
    <3>2. QED BY <2>1, <3>1 DEF TargetInv
  <2>3. CASE ReceiveBytes
    <3>1. PICK pc \in {"data", "trailer"} :
             download' = [download EXCEPT !.got = Len(sender.sent), !.pc = pc]
      BY <2>3 DEF ReceiveBytes
    <3>2. /\ download'.pc = pc /\ download'.out = download.out
          /\ download'.overwrite = download.overwrite
      BY <1>1, <3>1 DEF DownloadState
    <3>3. QED BY <1>8, <2>1, <2>3, <3>2 DEF ReceiveBytes
  <2>4. CASE ReceiveHeader \/ StreamEnds
    <3>1. PICK pc \in {"data", "trailer", "reap"} : Step(pc)
      BY <2>4 DEF ReceiveHeader, StreamEnds
    <3>2. download.pc \in {"header", "data", "trailer"}
      BY <2>4 DEF ReceiveHeader, StreamEnds, Receiving
    <3>3. QED BY <1>6, <1>8, <2>1, <3>1, <3>2
  <2>5. QED BY <1>16, <2>2, <2>3, <2>4 DEF Receive
<1>17. CASE StartDownload
  <2>1. download.pc = "start" /\ sender.pc = "off" /\ UNCHANGED local
    BY <1>1, <1>17 DEF StartDownload, Unsent
  <2>2. Step("header") \/ (Ends("failed") /\ UNCHANGED sender) BY <1>17 DEF StartDownload
  <2>3. CASE Step("header") BY <1>6, <1>8, <2>1, <2>3
  <2>4. CASE Ends("failed") /\ UNCHANGED sender
    <3>1. ~SenderRunning' BY <2>1, <2>4 DEF SenderRunning
    <3>2. QED BY <1>9, <2>1, <2>4, <3>1
  <2>5. QED BY <2>2, <2>3, <2>4
<1>18. CASE Stall BY <1>6, <1>8, <1>18 DEF Stall, Receiving
<1>19. CASE Reap
  <2>1. ~SenderRunning' BY <1>19 DEF Reap, SenderRunning
  <2>2. QED BY <1>9, <1>19, <2>1 DEF Reap
<1>20. CASE FinishChild
  <2>1. download.pc = "exit" /\ UNCHANGED local BY <1>20 DEF FinishChild
  <2>2. ~SenderRunning' /\ sender'.trailer = sender.trailer
    BY <1>4, <1>20 DEF FinishChild, SenderRunning
  <2>3. Step("install") \/ Ends("failed") BY <1>20 DEF FinishChild
  <2>4. CASE Step("install")
    <3>1. /\ download'.pc = "install" /\ download'.out = download.out
          /\ download'.overwrite = download.overwrite
      BY <1>6, <2>4
    <3>2. QED BY <2>1, <2>2, <3>1 DEF TargetInv
  <2>5. CASE Ends("failed") BY <1>9, <2>1, <2>2, <2>5
  <2>6. QED BY <2>3, <2>4, <2>5
<1>21. CASE InstallDownload
  <2>1. download.pc = "install" /\ UNCHANGED sender BY <1>21 DEF InstallDownload
  <2>2. ~SenderRunning' /\ sender'.trailer
    BY <2>1 DEF TargetInv, SenderRunning
  <2>3. \/ Ends("failed") /\ UNCHANGED local
        \/ /\ MayPersist /\ Step("record")
           /\ local' = [local EXCEPT !.target = "download"]
    BY <1>21 DEF InstallDownload
  <2>4. CASE Ends("failed") /\ UNCHANGED local BY <1>9, <2>1, <2>2, <2>4
  <2>5. CASE /\ MayPersist /\ Step("record")
             /\ local' = [local EXCEPT !.target = "download"]
    <3>1. /\ download'.pc = "record" /\ download'.out = download.out
          /\ download'.overwrite = download.overwrite
      BY <1>6, <2>5
    <3>2. /\ local'.target = "download" /\ local'.theirs = local.theirs
          /\ local'.recorded = local.recorded
      BY <1>1, <2>5 DEF TargetState
    <3>3. ~download.overwrite => local.theirs = None
      BY <1>2, <2>5 DEF MayPersist, TargetInv
    <3>4. download.out = None BY <2>1 DEF TargetInv
    <3>5. QED BY <1>2, <2>2, <3>1, <3>2, <3>3, <3>4 DEF TargetInv
  <2>6. QED BY <2>3, <2>4, <2>5
<1>22. CASE RecordDownload
  <2>1. download.pc = "record" /\ UNCHANGED sender BY <1>22 DEF RecordDownload
  <2>2. ~SenderRunning' /\ sender'.trailer
    BY <2>1 DEF TargetInv, SenderRunning
  <2>3. PICK out \in {"ok", "unrecorded"}, done \in BOOLEAN :
           /\ Ends(out) /\ local' = [local EXCEPT !.recorded = done]
           /\ out = "ok" => done
    BY <1>22 DEF RecordDownload
  <2>4. /\ download'.pc = "done" /\ download'.out = out
        /\ download'.overwrite = download.overwrite
    BY <1>7, <2>3
  <2>5. /\ local'.target = local.target /\ local'.theirs = local.theirs
        /\ local'.recorded = done
    BY <1>1, <2>3 DEF TargetState
  <2>6. local.target = "download" \/ local.theirs # None BY <2>1 DEF TargetInv
  <2>7. QED BY <2>2, <2>3, <2>4, <2>5, <2>6 DEF TargetInv
<1>23. CASE CancelDownload
  <2>1. ~SenderRunning' /\ sender'.trailer = sender.trailer
    BY <1>5, <1>23 DEF CancelDownload
  <2>2. /\ download'.pc = "done" /\ download'.out = "cancelled"
        /\ download'.overwrite = download.overwrite
        /\ download.pc \in {"header", "data", "trailer", "exit", "reap", "record"}
    BY <1>7, <1>23 DEF CancelDownload
  <2>3. /\ local'.target = local.target /\ local'.theirs = local.theirs
        /\ local'.recorded = local.recorded \/ download.pc = "record"
    BY <1>1, <1>23 DEF CancelDownload, TargetState
  <2>4. QED BY <2>1, <2>2, <2>3 DEF TargetInv
<1>24. QED
  BY <1>10, <1>12, <1>13, <1>14, <1>15, <1>16, <1>17, <1>18, <1>19, <1>20, <1>21, <1>22,
     <1>23 DEF Next, Finish

-----------------------------------------------------------------------------
(***************************************************************************)
(* The theorems.                                                            *)
(***************************************************************************)
\* The invariant, all of it: the types, what the agent read and builds its edit
\* from, what the sender sends and what the download leaves.
FileInv == TypeInv /\ PagesInv /\ EditInv /\ SenderInv /\ TargetInv

\* The invariant is inductive: it holds at first and every step keeps it.
THEOREM FileInductive == Spec => []FileInv
<1>1. Init => FileInv
  BY TypeInit, PagesInit, EditInit, SenderInit, TargetInit DEF FileInv
<1>2. FileInv /\ [Next]_vars => FileInv'
  BY TypeStep, PagesStep, EditStepKeeps, SenderStepKeeps, TargetStepKeeps DEF FileInv
<1>3. QED BY <1>1, <1>2, PTL DEF Spec

\* Every variable has its type (the state of `read`, `edit`, run_transfer_send and
\* download_file).
THEOREM TypeCorrect == Spec => []TypeOK
<1>1. FileInv => TypeOK BY DEF FileInv, TypeInv
<1>2. QED BY <1>1, FileInductive, PTL

\* Pages that came with one hash are the beginning of the bytes it names, all of
\* them once no next offset is given, and a file that did not change is refused as
\* binary only if it is (`read` in fs_ops.rs), however others change it between
\* the stat, the open and the next page.
THEOREM PagesAgreeHolds == Spec => []PagesAgree
<1>1. FileInv => PagesAgree BY DEF FileInv, PagesInv, PagesAgree
<1>2. QED BY <1>1, FileInductive, PTL

\* The size predicted from the count is the size replacing gives: a list is refused
\* as too large exactly if one of its steps would be (`edit` in fs_ops.rs).
THEOREM CapExactHolds == Spec => []CapExact
<1>1. FileInv => CapExact BY DEF FileInv, EditInv
<1>2. QED BY <1>1, FileInductive, PTL

\* What another program wrote between the agent's reading and the last look of its
\* edit is never overwritten by the edit (base_hash and verify_unchanged in `edit`).
THEOREM EditKeepsOthersHolds == Spec => EditKeepsOthers
<1>1. FileInv /\ [Next]_vars =>
        [InstallEdit => file = agent.hash \/ version > agent.seen]_vars
  <2>1. SUFFICES ASSUME FileInv, InstallEdit
                 PROVE  file = agent.hash \/ version > agent.seen
    OBVIOUS
  <2>2. agent.pc = "install" BY <2>1 DEF InstallEdit
  <2>3. version \in Nat /\ agent.seen \in Nat /\ agent.seen <= version
    BY <2>1, TypeParts DEF FileInv, AgentTyped, AgentState
  <2>4. version = agent.seen => file = agent.hash BY <2>1, <2>2 DEF FileInv, EditInv
  <2>5. QED BY <2>3, <2>4
<1>2. QED BY <1>1, FileInductive, PTL DEF Spec, EditKeepsOthers

\* The local target of a download is what others left there or one whole stream,
\* the file as it was if it did not change meanwhile; nothing of others is replaced
\* without overwrite, and no sender outlives its call (download_file, transfer.rs).
THEOREM TargetSoundHolds == Spec => []TargetSound
<1>1. FileInv => TargetSound
  <2>1. SUFFICES ASSUME FileInv PROVE TargetSound OBVIOUS
  <2>2. SenderInv /\ TargetInv BY <2>1 DEF FileInv
  <2>3. local.target = "download" =>
          /\ sender.trailer /\ Len(sender.sent) = sender.size
          /\ sender.whole # None => sender.sent = sender.whole
    BY <2>2 DEF SenderInv, TargetInv
  <2>4. "failed" # None BY FileAssumption DEF DownloadOutcomes
  <2>5. download.out = "failed" => local.target # "download"
    BY <2>2, <2>4 DEF TargetInv
  <2>6. QED BY <2>2, <2>3, <2>5 DEF TargetInv, TargetSound
<1>2. QED BY <1>1, FileInductive, PTL
=============================================================================
