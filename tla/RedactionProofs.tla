-------------------------- MODULE RedactionProofs --------------------------
(***************************************************************************)
(* Theorems about Redaction, for a text of any length and any list of      *)
(* findings.                                                               *)
(***************************************************************************)
EXTENDS Redaction, SequenceTheorems, FiniteSetTheorems, WellFoundedInduction, TLAPS

USE LengthAssumption, FamilyAssumption, FindingsAssumption

(* ---------------------------------------------------------------------- *)
(* Lemmas about the operators.                                             *)

(* What splicing one cell over the span s+1 .. e of a sequence gives. *)
LEMMA SpliceProperties ==
  ASSUME NEW S, NEW u \in Seq(S), NEW c \in S, NEW s \in Nat, NEW e \in Nat,
         s < e, e <= Len(u)
  PROVE  /\ Spliced(u, s, e, c) \in Seq(S)
         /\ Len(Spliced(u, s, e, c)) = Len(u) - e + s + 1
         /\ \A q \in 1 .. s : Spliced(u, s, e, c)[q] = u[q]
         /\ Spliced(u, s, e, c)[s + 1] = c
         /\ \A q \in s + 2 .. Len(u) - e + s + 1 :
              Spliced(u, s, e, c)[q] = u[q + e - s - 1]
  <1> DEFINE a == SubSeq(u, 1, s)
             b == SubSeq(u, e + 1, Len(u))
             ac == a \o <<c>>
  <1>1. a \in Seq(S) /\ Len(a) = s /\ \A q \in 1 .. s : a[q] = u[q]
    <2>1. \A i \in 1 .. s : u[i] \in S
      BY ElementOfSeq
    <2> QED
      BY <2>1, SubSeqProperties
  <1>2. b \in Seq(S) /\ Len(b) = Len(u) - e /\ \A q \in 1 .. Len(u) - e : b[q] = u[e + q]
    <2>1. \A i \in e + 1 .. Len(u) : u[i] \in S
      BY ElementOfSeq
    <2>2. Len(u) \in Nat
      OBVIOUS
    <2>3. /\ b \in Seq(S)
          /\ Len(b) = IF e + 1 <= Len(u) THEN Len(u) - (e + 1) + 1 ELSE 0
          /\ \A i \in 1 .. Len(u) - (e + 1) + 1 : b[i] = u[(e + 1) + i - 1]
      BY <2>1, <2>2, SubSeqProperties
    <2> QED
      BY <2>2, <2>3
  <1>3. <<c>> \in Seq(S) /\ Len(<<c>>) = 1 /\ <<c>>[1] = c
    OBVIOUS
  <1> HIDE DEF a, b
  <1>4. /\ ac \in Seq(S) /\ Len(ac) = s + 1
        /\ \A q \in 1 .. s : ac[q] = u[q]
        /\ ac[s + 1] = c
    <2>1. /\ ac \in Seq(S) /\ Len(ac) = Len(a) + 1
          /\ \A q \in 1 .. Len(a) + 1 : ac[q] = IF q <= Len(a) THEN a[q] ELSE <<c>>[q - Len(a)]
      BY <1>1, <1>3, ConcatProperties
    <2> QED
      BY <1>1, <1>3, <2>1
  <1> HIDE DEF ac
  <1>5. /\ ac \o b \in Seq(S) /\ Len(ac \o b) = Len(ac) + Len(b)
        /\ \A q \in 1 .. Len(ac) + Len(b) :
             (ac \o b)[q] = IF q <= Len(ac) THEN ac[q] ELSE b[q - Len(ac)]
    BY <1>2, <1>4, ConcatProperties
  <1>6. Len(u) \in Nat
    OBVIOUS
  <1> DEFINE w == ac \o b
  <1>7. /\ w \in Seq(S)
        /\ Len(w) = Len(u) - e + s + 1
        /\ \A q \in 1 .. Len(w) : w[q] = IF q <= s + 1 THEN ac[q] ELSE b[q - (s + 1)]
    <2> HIDE DEF w
    <2>1. /\ w \in Seq(S) /\ Len(w) = Len(ac) + Len(b)
          /\ \A q \in 1 .. Len(ac) + Len(b) :
               w[q] = IF q <= Len(ac) THEN ac[q] ELSE b[q - Len(ac)]
      BY <1>5 DEF w
    <2>2. Len(ac) = s + 1 /\ Len(b) = Len(u) - e
      BY <1>2, <1>4
    <2> QED
      BY <1>6, <2>1, <2>2
  <1>8. Spliced(u, s, e, c) = w
    BY DEF a, b, ac, Spliced
  <1> HIDE DEF w
  <1>9. \A q \in 1 .. s : w[q] = u[q]
    BY <1>4, <1>6, <1>7
  <1>10. w[s + 1] = c
    BY <1>4, <1>6, <1>7
  <1>11. ASSUME NEW q \in s + 2 .. Len(w) PROVE w[q] = u[q + e - s - 1]
    <2>1. q - (s + 1) \in 1 .. Len(u) - e /\ q > s + 1 /\ q \in 1 .. Len(w)
      BY <1>6, <1>7
    <2>2. w[q] = b[q - (s + 1)]
      BY <1>7, <2>1
    <2>3. b[q - (s + 1)] = u[e + (q - (s + 1))]
      BY <1>2, <2>1
    <2>4. e + (q - (s + 1)) = q + e - s - 1
      BY <1>6, <1>7
    <2> QED
      BY <2>2, <2>3, <2>4
  <1> QED
    BY <1>7, <1>8, <1>9, <1>10, <1>11

(* Of equal findings, dedupe keeps one. *)
LEMMA KeptCovers ==
  ASSUME NEW list, NEW n \in Nat, DOMAIN list = 1 .. n, NEW i \in DOMAIN list
  PROVE  \E k \in Kept(list) : list[k] = list[i]
  <1> DEFINE T == {k \in DOMAIN list : list[k] = list[i]}
             R == OpToRel(<, Nat)
  <1>1. T \subseteq Nat /\ T # {}
    OBVIOUS
  <1>2. \E x \in T : \A y \in T : <<y, x>> \notin R
    <2> HIDE DEF T, R
    <2>1. IsWellFoundedOn(R, Nat)
      BY NatLessThanWellFounded DEF R
    <2> QED
      BY <1>1, <2>1, WFMin
  <1>3. \A x, y \in Nat : x < y => <<x, y>> \in R
    BY DEF OpToRel
  <1>4. PICK x \in T : \A y \in T : ~(y < x)
    BY <1>1, <1>2, <1>3
  <1>5. \A k \in 1 .. x - 1 : list[k] # list[x]
    BY <1>4
  <1> QED
    BY <1>4, <1>5 DEF Kept

(* A finding that is visited lies in the text. *)
LEMMA FindingBounds ==
  ASSUME TypeOK, NEW i \in DOMAIN found
  PROVE  /\ found[i] \in Findings
         /\ found[i].start \in 0 .. Length /\ found[i].end \in 0 .. Length
         /\ found[i].start < found[i].end
         /\ found[i].label \in Labels
  <1>1. found[i] \in Findings
    BY DEF TypeOK
  <1> QED
    BY <1>1 DEF Findings

(* Numbers start at 1. *)
LEMMA NumberPositive ==
  ASSUME TypeOK, NEW i \in Kept(found)
  PROVE  Number(i) \in Nat \ {0}
  <1> DEFINE C == {k \in Kept(found) :
                     Family[found[k].label] = Family[found[i].label] /\ Counted(k, i)}
  <1>1. DOMAIN found = 1 .. Len(found) /\ Len(found) \in Nat
    BY DEF TypeOK
  <1>2. C \in SUBSET (1 .. Len(found)) /\ i \in C
    BY <1>1 DEF Kept, Counted
  <1> HIDE DEF C
  <1>3. IsFiniteSet(C)
    <2>1. IsFiniteSet(1 .. Len(found))
      BY <1>1, FS_Interval
    <2> QED
      BY <1>2, <2>1, FS_Subset
  <1>4. Cardinality(C) \in Nat /\ Cardinality(C) # 0
    BY <1>2, <1>3, FS_CardinalityType, FS_EmptySet
  <1> QED
    BY <1>4 DEF C, Number

(* A token is a pseudonym in govern, and a bare family in redact. *)
LEMMA TokenType ==
  ASSUME TypeOK, NEW i \in DOMAIN found, mode = "govern" => i \in Kept(found)
  PROVE  /\ TokenOf(i) \in Tokens
         /\ mode = "govern" => TokenOf(i) \in Pseudonyms
  <1>1. Family[found[i].label] \in Families
    BY FindingBounds DEF Families
  <1>2. CASE mode = "govern"
    BY <1>1, <1>2, NumberPositive DEF TokenOf, Tokens, Pseudonyms
  <1>3. CASE mode # "govern"
    BY <1>1, <1>3 DEF TokenOf, Tokens
  <1> QED
    BY <1>2, <1>3

(* ---------------------------------------------------------------------- *)
(* The invariant of the loop.                                              *)

(* To the left of the boundary the text is untouched, so offsets up to it  *)
(* are still right; to the right are tokens and later characters.          *)
LeftUntouched ==
  /\ boundary <= Len(text)
  /\ \A q \in 1 .. boundary : text[q] = Char(q)
  /\ \A q \in boundary + 1 .. Len(text) : text[q].at = 0 \/ text[q].at > boundary

(* What is still to be visited starts at or before the boundary. *)
RestIsLeft ==
  /\ \A k \in rest : found[k].start <= boundary
  /\ mode = "govern" => rest \subseteq Kept(found)

(* A visited finding has lost a character; the boundary is where the last  *)
(* replaced span began.                                                    *)
Broken(f) == \E n \in 1 .. Length : Covers(f, n) /\ n \notin Left

VisitedBroken ==
  /\ boundary < Length => boundary + 1 \notin Left
  /\ \A i \in DOMAIN found : Broken(found[i]) \/ \E k \in rest : found[k] = found[i]

LoopInv == TypeOK /\ LeftUntouched /\ RestIsLeft

(* The loop starts with the whole text and every finding ahead of it. *)
LEMMA InitLoop == Init => LoopInv
  <1> SUFFICES ASSUME Init PROVE LoopInv
    OBVIOUS
  <1>1. PICK n \in Nat : n <= MaxFindings /\ found \in [1 .. n -> Findings]
    BY DEF Init
  <1>2. found \in Seq(Findings) /\ DOMAIN found = 1 .. n
    BY <1>1
  <1>3. rest \in SUBSET (DOMAIN found) /\ (mode = "govern" => rest \subseteq Kept(found))
    BY DEF Init, Kept
  <1>4. \A q \in 1 .. Length : Char(q) \in Cells
    <2>1. NoToken \in Tokens
      BY DEF NoToken, Tokens, Families
    <2> QED
      BY <2>1 DEF Char, Cells
  <1>5. text \in Seq(Cells) /\ Len(text) = Length /\ \A q \in 1 .. Length : text[q] = Char(q)
    BY <1>4 DEF Init
  <1>6. vault = << >> /\ tokens = << >> /\ boundary = Length /\ mode \in {"redact", "govern"}
    BY DEF Init
  <1>7. TypeOK
    BY <1>2, <1>3, <1>5, <1>6 DEF TypeOK
  <1>8. \A k \in rest : found[k].start <= boundary
    BY <1>3, <1>6, <1>7, FindingBounds
  <1> QED
    BY <1>3, <1>5, <1>6, <1>7, <1>8 DEF LoopInv, LeftUntouched, RestIsLeft

(* Left of the boundary the text is still the original. *)
LEMMA LeftCells ==
  ASSUME LoopInv
  PROVE  \A q \in 1 .. boundary : text[q].at = q
  <1>1. \A q : Char(q).at = q
    BY DEF Char
  <1> QED
    BY <1>1 DEF LoopInv, LeftUntouched

(* What one replacement does to the text. *)
LEMMA ReplaceText ==
  ASSUME LoopInv, NEW i \in DOMAIN found, Replace(i)
  PROVE  LET s == found[i].start
             e == found[i].end IN
         /\ s \in Nat /\ e \in Nat /\ s < e /\ e <= boundary /\ e <= Len(text)
         /\ s <= Length /\ e <= Length /\ Len(text) \in Nat
         /\ boundary' = s
         /\ text' \in Seq(Cells)
         /\ Len(text') = Len(text) - e + s + 1
         /\ \A q \in 1 .. s : text'[q] = text[q]
         /\ text'[s + 1] = Splice(TokenOf(i))
         /\ \A q \in s + 2 .. Len(text') : text'[q] = text[q + e - s - 1]
  <1> DEFINE s == found[i].start
             e == found[i].end
             c == Splice(TokenOf(i))
  <1>1. i \in rest /\ (mode = "govern" => i \in Kept(found))
    BY DEF Replace, IsNext, LoopInv, RestIsLeft
  <1>2. c \in Cells /\ text \in Seq(Cells)
    BY <1>1, TokenType DEF LoopInv, TypeOK, Cells, Splice
  <1>3. s \in Nat /\ e \in Nat /\ s < e /\ s <= Length /\ e <= Length
    BY FindingBounds DEF LoopInv
  <1>4. e <= boundary /\ boundary \in Nat /\ Len(text) \in Nat /\ boundary <= Len(text)
    BY DEF Replace, Clear, LoopInv, TypeOK, LeftUntouched
  <1>5. text' = Spliced(text, s, e, c) /\ boundary' = s
    BY DEF Replace
  <1>6. e <= Len(text)
    BY <1>3, <1>4
  <1> HIDE DEF s, e, c
  <1>7. /\ text' \in Seq(Cells)
        /\ Len(text') = Len(text) - e + s + 1
        /\ \A q \in 1 .. s : text'[q] = text[q]
        /\ text'[s + 1] = c
        /\ \A q \in s + 2 .. Len(text') : text'[q] = text[q + e - s - 1]
    <2> DEFINE u == Spliced(text, s, e, c)
    <2>1. /\ u \in Seq(Cells)
          /\ Len(u) = Len(text) - e + s + 1
          /\ \A q \in 1 .. s : u[q] = text[q]
          /\ u[s + 1] = c
          /\ \A q \in s + 2 .. Len(text) - e + s + 1 : u[q] = text[q + e - s - 1]
      BY <1>2, <1>3, <1>6, SpliceProperties
    <2> HIDE DEF u
    <2>2. text' = u
      BY <1>5 DEF u
    <2> QED
      BY <2>1, <2>2
  <1> QED
    BY <1>3, <1>4, <1>5, <1>6, <1>7 DEF s, e, c

(* Each round keeps types, the untouched left part, and the findings in line. *)
LEMMA LoopStep == LoopInv /\ [Next]_vars => LoopInv'
  <1> SUFFICES ASSUME LoopInv, [Next]_vars PROVE LoopInv'
    OBVIOUS
  <1>1. CASE UNCHANGED vars
    BY <1>1 DEF vars, LoopInv, TypeOK, LeftUntouched, RestIsLeft
  <1>2. ASSUME NEW i \in DOMAIN found, Skip(i) PROVE LoopInv'
    BY <1>2 DEF Skip, LoopInv, TypeOK, LeftUntouched, RestIsLeft
  <1>3. ASSUME NEW i \in DOMAIN found, Replace(i) PROVE LoopInv'
    <2> DEFINE s == found[i].start
               e == found[i].end
    <2>1. /\ s \in Nat /\ e \in Nat /\ s < e /\ e <= boundary /\ e <= Len(text)
          /\ s <= Length /\ e <= Length /\ Len(text) \in Nat
          /\ boundary' = s
          /\ text' \in Seq(Cells)
          /\ Len(text') = Len(text) - e + s + 1
          /\ \A q \in 1 .. s : text'[q] = text[q]
          /\ text'[s + 1] = Splice(TokenOf(i))
          /\ \A q \in s + 2 .. Len(text') : text'[q] = text[q + e - s - 1]
      BY <1>3, ReplaceText
    <2>2. /\ i \in rest /\ rest' = rest \ {i} /\ mode' = mode /\ found' = found
          /\ \A k \in rest \ {i} : Before(i, k)
      BY <1>3 DEF Replace, IsNext
    <2>3. TypeOK'
      <3>1. mode = "govern" => i \in Kept(found)
        BY <2>2 DEF LoopInv, RestIsLeft
      <3>2. mode = "govern" => TokenOf(i) \in Pseudonyms
        BY <3>1, TokenType DEF LoopInv
      <3>3. tokens' \in Seq(Pseudonyms)
        <4>1. CASE mode = "govern"
          <5>1. tokens' = Append(tokens, TokenOf(i)) /\ tokens \in Seq(Pseudonyms)
            BY <1>3, <4>1 DEF Replace, LoopInv, TypeOK
          <5>2. TokenOf(i) \in Pseudonyms
            BY <3>2, <4>1
          <5> HIDE DEF s, e
          <5> QED
            BY <5>1, <5>2, AppendProperties
        <4>2. CASE mode # "govern"
          BY <1>3, <4>2 DEF Replace, LoopInv, TypeOK
        <4> QED
          BY <4>1, <4>2
      <3>4. \A t \in DOMAIN vault' : t \in Pseudonyms /\ vault'[t] \in Findings
        BY <1>3, <3>2, FindingBounds DEF Replace, LoopInv, TypeOK
      <3>5. boundary' \in 0 .. Length
        BY <2>1
      <3>6. mode' \in {"redact", "govern"} /\ found' \in Seq(Findings) /\ rest' \in SUBSET (DOMAIN found')
        BY <2>2 DEF LoopInv, TypeOK
      <3> QED
        BY <2>1, <3>3, <3>4, <3>5, <3>6 DEF TypeOK
    <2>4. LeftUntouched'
      <3> HIDE DEF s, e
      <3>1. \A q \in 1 .. boundary : text[q].at = q
        BY LeftCells
      <3>2. ASSUME NEW q \in s + 1 .. Len(text') PROVE text'[q].at = 0 \/ text'[q].at > s
        <4>1. CASE q = s + 1
          <5>1. Splice(TokenOf(i)).at = 0
            BY DEF Splice
          <5> QED
            BY <2>1, <4>1, <5>1
        <4>2. CASE q # s + 1
          <5>1. q \in s + 2 .. Len(text')
            BY <2>1, <4>2
          <5>2. q + e - s - 1 \in e + 1 .. Len(text)
            <6>1. /\ s \in Nat /\ e \in Nat /\ Len(text) \in Nat
                  /\ Len(text') = Len(text) - e + s + 1
              BY <2>1
            <6> QED
              BY ONLY <5>1, <6>1
          <5>3. PICK r \in e + 1 .. Len(text) : text'[q] = text[r]
            BY <2>1, <5>1, <5>2
          <5>4. boundary \in Nat
            BY DEF LoopInv, TypeOK
          <5>5. CASE r <= boundary
            <6>1. text[r].at = r
              BY <2>1, <3>1, <5>4, <5>5
            <6> QED
              BY <2>1, <5>3, <6>1
          <5>6. CASE r > boundary
            <6>1. text[r].at = 0 \/ text[r].at > boundary
              BY <2>1, <5>4, <5>6 DEF LoopInv, LeftUntouched
            <6>2. text[r].at \in Nat
              <7>1. text \in Seq(Cells) /\ r \in 1 .. Len(text)
                BY <2>1, <5>3 DEF LoopInv, TypeOK
              <7>2. text[r] \in Cells
                BY <7>1, ElementOfSeq
              <7> QED
                BY <7>2 DEF Cells
            <6> QED
              BY <2>1, <5>3, <5>4, <6>1, <6>2
          <5> QED
            BY <2>1, <5>4, <5>5, <5>6
        <4> QED
          BY <4>1, <4>2
      <3>3. \A q \in 1 .. s : text'[q] = Char(q)
        <4>1. \A q \in 1 .. s : q \in 1 .. boundary
          BY <2>1 DEF LoopInv, TypeOK
        <4>2. \A q \in 1 .. boundary : text[q] = Char(q)
          BY DEF LoopInv, LeftUntouched
        <4> QED
          BY <2>1, <4>1, <4>2
      <3>4. s <= Len(text')
        BY <2>1
      <3> QED
        BY <2>1, <3>2, <3>3, <3>4 DEF LeftUntouched
    <2>5. RestIsLeft'
      <3>1. \A k \in rest \ {i} : found[k].start <= s
        <4> TAKE k \in rest \ {i}
        <4>1. k \in DOMAIN found
          BY DEF LoopInv, TypeOK
        <4>2. found[k].start \in Nat /\ found[i].start \in Nat
          BY <4>1, FindingBounds DEF LoopInv
        <4> QED
          BY <2>2, <4>2 DEF Before
      <3> QED
        BY <2>1, <2>2, <3>1 DEF RestIsLeft, LoopInv, Kept
    <2> QED
      BY <2>3, <2>4, <2>5 DEF LoopInv
  <1> QED
    BY <1>1, <1>2, <1>3 DEF Next

(* The loops keep their types; every pseudonym is numbered from 1. *)
THEOREM TypeCorrect == Spec => []TypeOK
  <1>1. LoopInv => TypeOK
    BY DEF LoopInv
  <1> QED
    BY <1>1, InitLoop, LoopStep, PTL DEF Spec

(* ---------------------------------------------------------------------- *)
(* What is gone and what stays.                                            *)

(* After a replacement a cell of the text is the token, or a cell the text *)
(* had before outside the replaced span; and none of those is lost.        *)
LEMMA ReplaceCells ==
  ASSUME LoopInv, NEW i \in DOMAIN found, Replace(i)
  PROVE  /\ \A q \in DOMAIN text' :
              text'[q].at = 0 \/ \E r \in DOMAIN text : /\ text'[q] = text[r]
                                                         /\ ~Covers(found[i], r)
         /\ \A r \in DOMAIN text : ~Covers(found[i], r) =>
              \E q \in DOMAIN text' : text'[q] = text[r]
  <1> DEFINE s == found[i].start
             e == found[i].end
  <1>1. /\ s \in Nat /\ e \in Nat /\ s < e /\ e <= Len(text) /\ Len(text) \in Nat
        /\ Len(text') = Len(text) - e + s + 1
    BY ReplaceText
  <1>2. /\ \A q \in 1 .. s : text'[q] = text[q]
        /\ text'[s + 1] = Splice(TokenOf(i))
        /\ \A q \in s + 2 .. Len(text') : text'[q] = text[q + e - s - 1]
    BY ReplaceText
  <1>3. DOMAIN text = 1 .. Len(text) /\ DOMAIN text' = 1 .. Len(text')
    BY ReplaceText DEF LoopInv, TypeOK
  <1>4. \A r : Covers(found[i], r) <=> s < r /\ r <= e
    BY DEF Covers
  <1>5. Splice(TokenOf(i)).at = 0
    BY DEF Splice
  <1> HIDE DEF s, e
  <1>6. ASSUME NEW q \in DOMAIN text'
        PROVE  text'[q].at = 0 \/ \E r \in DOMAIN text : /\ text'[q] = text[r]
                                                          /\ ~Covers(found[i], r)
    <2>1. CASE q \in 1 .. s
      <3>1. q \in DOMAIN text /\ ~Covers(found[i], q)
        BY <1>1, <1>3, <1>4, <2>1
      <3> QED
        BY <1>2, <2>1, <3>1
    <2>2. CASE q = s + 1
      BY <1>2, <1>5, <2>2
    <2>3. CASE q \in s + 2 .. Len(text')
      <3>1. q + e - s - 1 \in e + 1 .. Len(text)
        BY <1>1, <2>3
      <3>2. q + e - s - 1 \in DOMAIN text /\ ~Covers(found[i], q + e - s - 1)
        BY <1>1, <1>3, <1>4, <3>1
      <3> QED
        BY <1>2, <2>3, <3>2
    <2>4. q \in 1 .. s \/ q = s + 1 \/ q \in s + 2 .. Len(text')
      BY <1>1, <1>3
    <2> QED
      BY <2>1, <2>2, <2>3, <2>4
  <1>7. ASSUME NEW r \in DOMAIN text, ~Covers(found[i], r)
        PROVE  \E q \in DOMAIN text' : text'[q] = text[r]
    <2>1. CASE r \in 1 .. s
      <3>1. r \in DOMAIN text'
        BY <1>1, <1>3, <2>1
      <3> QED
        BY <1>2, <2>1, <3>1
    <2>2. CASE r \in e + 1 .. Len(text)
      <3> DEFINE q == r - e + s + 1
      <3>1. q \in s + 2 .. Len(text') /\ q + e - s - 1 = r
        BY <1>1, <2>2
      <3>2. q \in DOMAIN text'
        BY <1>1, <1>3, <3>1
      <3> HIDE DEF q
      <3> QED
        BY <1>2, <3>1, <3>2
    <2>3. r \in 1 .. s \/ r \in e + 1 .. Len(text)
      BY <1>1, <1>3, <1>4, <1>7
    <2> QED
      BY <2>1, <2>2, <2>3
  <1> QED
    BY <1>6, <1>7

(* Nothing has been visited at the start. *)
LEMMA InitBroken == Init => VisitedBroken
  <1> SUFFICES ASSUME Init PROVE VisitedBroken
    OBVIOUS
  <1>1. PICK n \in Nat : found \in [1 .. n -> Findings]
    BY DEF Init
  <1>2. \A i \in DOMAIN found : \E k \in Kept(found) : found[k] = found[i]
    BY <1>1, KeptCovers
  <1>3. \A i \in DOMAIN found : \E k \in rest : found[k] = found[i]
    BY <1>2 DEF Init
  <1> QED
    BY <1>3 DEF VisitedBroken, Init

(* A round that replaces or skips a finding leaves it broken. *)
LEMMA BrokenStep == LoopInv /\ VisitedBroken /\ [Next]_vars => VisitedBroken'
  <1> SUFFICES ASSUME LoopInv, VisitedBroken, [Next]_vars PROVE VisitedBroken'
    OBVIOUS
  <1>1. CASE UNCHANGED vars
    BY <1>1 DEF vars, VisitedBroken, Broken, Left
  <1>2. ASSUME NEW i \in DOMAIN found, Skip(i) PROVE VisitedBroken'
    <2>1. UNCHANGED <<found, text, boundary>> /\ Left' = Left /\ rest' = rest \ {i} /\ i \in rest
      BY <1>2 DEF Skip, IsNext, Left
    <2>2. Broken(found[i])
      <3>1. found[i].start <= boundary /\ ~(found[i].end <= boundary)
        BY <1>2, <2>1 DEF Skip, Clear, LoopInv, RestIsLeft
      <3>2. /\ found[i].start \in Nat /\ found[i].end \in 0 .. Length
            /\ boundary \in Nat
        BY FindingBounds DEF LoopInv, TypeOK
      <3>3. boundary + 1 \in 1 .. Length /\ boundary < Length
        BY <3>1, <3>2
      <3>4. Covers(found[i], boundary + 1)
        BY <3>1, <3>2 DEF Covers
      <3> QED
        BY <3>3, <3>4 DEF Broken, VisitedBroken
    <2>3. \A j \in DOMAIN found : Broken(found[j]) \/ \E k \in rest \ {i} : found[k] = found[j]
      BY <2>2 DEF VisitedBroken
    <2> QED
      BY <2>1, <2>3 DEF VisitedBroken, Broken
  <1>3. ASSUME NEW i \in DOMAIN found, Replace(i) PROVE VisitedBroken'
    <2> DEFINE s == found[i].start
               e == found[i].end
    <2>1. /\ s \in Nat /\ e \in Nat /\ s < e /\ e <= boundary /\ e <= Length
          /\ boundary' = s /\ found' = found /\ rest' = rest \ {i}
      BY <1>3, ReplaceText DEF Replace
    <2>2. Left' \subseteq Left
      BY <1>3, ReplaceCells DEF Left
    <2>3. s + 1 \notin Left'
      <3>1. ASSUME NEW q \in DOMAIN text', text'[q].at = s + 1 PROVE FALSE
        <4>1. PICK r \in DOMAIN text : text'[q] = text[r] /\ ~Covers(found[i], r)
          BY <1>3, <2>1, <3>1, ReplaceCells
        <4>2. text[r].at = s + 1
          BY <3>1, <4>1
        <4>3. r \in 1 .. Len(text) /\ Len(text) \in Nat /\ boundary \in Nat
          BY DEF LoopInv, TypeOK
        <4>4. CASE r \in 1 .. boundary
          <5>1. text[r].at = r
            BY <4>4, LeftCells
          <5> QED
            BY <2>1, <4>1, <4>2, <5>1 DEF Covers
        <4>5. CASE r \in boundary + 1 .. Len(text)
          <5>1. text[r].at = 0 \/ text[r].at > boundary
            BY <4>5 DEF LoopInv, LeftUntouched
          <5> QED
            BY <2>1, <4>2, <4>3, <5>1
        <4> QED
          BY <4>3, <4>4, <4>5
      <3> QED
        BY <3>1 DEF Left
    <2>4. \E n \in 1 .. Length : Covers(found[i], n) /\ n \notin Left'
      <3>1. s + 1 \in 1 .. Length /\ Covers(found[i], s + 1)
        BY <2>1 DEF Covers
      <3> QED
        BY <2>3, <3>1
    <2>5. \A j \in DOMAIN found :
            (\E n \in 1 .. Length : Covers(found[j], n) /\ n \notin Left')
              \/ \E k \in rest \ {i} : found[k] = found[j]
      BY <2>2, <2>4 DEF VisitedBroken, Broken
    <2> QED
      BY <2>1, <2>3, <2>5 DEF VisitedBroken, Broken
  <1> QED
    BY <1>1, <1>2, <1>3 DEF Next

(* Whatever the scanners find, and however the spans overlap: of each at   *)
(* least one character is gone from the text that both loops return.       *)
THEOREM NothingComesThrough == Spec => []NoSpanSurvives
  <1>1. LoopInv /\ VisitedBroken => NoSpanSurvives
    BY DEF VisitedBroken, Broken, NoSpanSurvives, Done
  <1> QED
    BY <1>1, InitLoop, LoopStep, InitBroken, BrokenStep, PTL DEF Spec

(* The cells keep their order: q and its origin in the earlier text. *)
Ordered(u) ==
  \A p, q \in DOMAIN u : p < q /\ u[p].at # 0 /\ u[q].at # 0 => u[p].at < u[q].at

Untouched == \A n \in 1 .. Length : (\A i \in DOMAIN found : ~Covers(found[i], n)) => n \in Left

(* At the start the text is in order and complete. *)
LEMMA InitKept == Init => Ordered(text) /\ Untouched
  <1> SUFFICES ASSUME Init PROVE Ordered(text) /\ Untouched
    OBVIOUS
  <1>1. DOMAIN text = 1 .. Length /\ \A n \in 1 .. Length : text[n].at = n
    BY DEF Init, Char
  <1> QED
    BY <1>1 DEF Ordered, Untouched, Left

(* A round leaves the kept characters in their order. *)
LEMMA OrderedStep == LoopInv /\ Ordered(text) /\ [Next]_vars => Ordered(text)'
  <1> SUFFICES ASSUME LoopInv, Ordered(text), [Next]_vars PROVE Ordered(text')
    OBVIOUS
  <1>1. CASE UNCHANGED vars
    BY <1>1 DEF vars
  <1>2. ASSUME NEW i \in DOMAIN found, Skip(i) PROVE Ordered(text')
    BY <1>2 DEF Skip
  <1>3. ASSUME NEW i \in DOMAIN found, Replace(i) PROVE Ordered(text')
    <2> DEFINE s == found[i].start
               e == found[i].end
    <2>1. /\ s \in Nat /\ e \in Nat /\ s < e /\ e <= Len(text) /\ Len(text) \in Nat
          /\ Len(text') = Len(text) - e + s + 1
      BY <1>3, ReplaceText
    <2>2. /\ \A q \in 1 .. s : text'[q] = text[q]
          /\ text'[s + 1] = Splice(TokenOf(i))
          /\ \A q \in s + 2 .. Len(text') : text'[q] = text[q + e - s - 1]
      BY <1>3, ReplaceText
    <2>3. DOMAIN text = 1 .. Len(text) /\ DOMAIN text' = 1 .. Len(text')
      BY <1>3, ReplaceText DEF LoopInv, TypeOK
    <2>4. Splice(TokenOf(i)).at = 0
      BY DEF Splice
    <2> HIDE DEF s, e
    <2> DEFINE From(q) == IF q <= s THEN q ELSE q + e - s - 1
    <2>5. ASSUME NEW q \in DOMAIN text', text'[q].at # 0
          PROVE  From(q) \in DOMAIN text /\ text'[q] = text[From(q)]
      <3>1. CASE q \in 1 .. s
        BY <2>1, <2>2, <2>3, <3>1
      <3>2. CASE q \in s + 2 .. Len(text')
        <4>1. q + e - s - 1 \in 1 .. Len(text) /\ ~(q <= s)
          BY <2>1, <3>2
        <4> QED
          BY <2>2, <2>3, <3>2, <4>1
      <3>3. q # s + 1
        BY <2>2, <2>4, <2>5
      <3>4. q \in 1 .. s \/ q \in s + 2 .. Len(text')
        BY <2>1, <2>3, <3>3
      <3> QED
        BY <3>1, <3>2, <3>4
    <2>6. \A p, q \in DOMAIN text' : p < q => From(p) < From(q)
      BY <2>1, <2>3
    <2> HIDE DEF From
    <2> QED
      BY <2>5, <2>6 DEF Ordered
  <1> QED
    BY <1>1, <1>2, <1>3 DEF Next

(* A round takes out no character that no finding covers. *)
LEMMA UntouchedStep == LoopInv /\ Untouched /\ [Next]_vars => Untouched'
  <1> SUFFICES ASSUME LoopInv, Untouched, [Next]_vars PROVE Untouched'
    OBVIOUS
  <1>1. CASE UNCHANGED vars
    BY <1>1 DEF vars, Untouched, Left
  <1>2. ASSUME NEW i \in DOMAIN found, Skip(i) PROVE Untouched'
    BY <1>2 DEF Skip, Untouched, Left
  <1>3. ASSUME NEW i \in DOMAIN found, Replace(i) PROVE Untouched'
    <2>1. found' = found
      BY <1>3 DEF Replace
    <2>2. ASSUME NEW n \in 1 .. Length, \A j \in DOMAIN found : ~Covers(found[j], n)
          PROVE  n \in Left'
      <3>1. PICK r \in DOMAIN text : text[r].at = n
        BY <2>2 DEF Untouched, Left
      <3>2. ~Covers(found[i], r)
        <4>1. /\ found[i].start \in Nat /\ found[i].end <= boundary /\ found[i].end \in Nat
              /\ boundary \in Nat /\ r \in Nat
          BY <1>3, ReplaceText DEF LoopInv, TypeOK
        <4>2. CASE r \in 1 .. boundary
          BY <2>2, <3>1, <4>2, LeftCells
        <4>3. CASE r \notin 1 .. boundary
          BY <4>1, <4>3 DEF Covers
        <4> QED
          BY <4>2, <4>3
      <3>3. \E q \in DOMAIN text' : text'[q] = text[r]
        BY <1>3, <3>2, ReplaceCells
      <3> QED
        BY <3>1, <3>3 DEF Left
    <2> QED
      BY <2>1, <2>2 DEF Untouched
  <1> QED
    BY <1>1, <1>2, <1>3 DEF Next

(* Every character outside the findings is kept, and those that are kept   *)
(* stay in their order.                                                    *)
THEOREM RestIsKept == Spec => []TextKept
  <1>1. Ordered(text) /\ Untouched => TextKept
    BY DEF Ordered, Untouched, TextKept, Done
  <1> QED
    BY <1>1, InitLoop, LoopStep, InitKept, OrderedStep, UntouchedStep, PTL DEF Spec

(* ---------------------------------------------------------------------- *)
(* What the vault says of the text.                                        *)

(* The order in which govern numbers its findings is total: of two, one is   *)
(* counted before the other, never both, and what comes before the first     *)
(* comes before the second.                                                  *)
LEMMA CountedIsOrder ==
  ASSUME TypeOK, mode = "govern", NEW i \in DOMAIN found, NEW k \in DOMAIN found
  PROVE  /\ Counted(i, k) \/ Counted(k, i)
         /\ i # k => ~(Counted(i, k) /\ Counted(k, i))
         /\ \A j \in DOMAIN found : Counted(j, i) /\ Counted(i, k) => Counted(j, k)
  <1>1. \A j \in DOMAIN found : j \in Nat /\ found[j].start \in Nat /\ found[j].end \in Nat
    <2>1. \A j \in DOMAIN found : j \in Nat
      BY DEF TypeOK
    <2> QED
      BY <2>1, FindingBounds
  <1> QED
    BY <1>1 DEF Counted, Listed

(* Of two findings of one family the later has the greater number: its count *)
(* takes in all the earlier one's, and itself.                               *)
LEMMA NumberGrows ==
  ASSUME TypeOK, mode = "govern", NEW i \in Kept(found), NEW k \in Kept(found), i # k,
         Family[found[i].label] = Family[found[k].label], Counted(i, k)
  PROVE  Number(i) < Number(k)
  <1> DEFINE C(x) == {j \in Kept(found) :
                        Family[found[j].label] = Family[found[x].label] /\ Counted(j, x)}
  <1>1. Kept(found) \subseteq DOMAIN found /\ DOMAIN found = 1 .. Len(found) /\ Len(found) \in Nat
    BY DEF TypeOK, Kept
  <1>2. C(i) \subseteq C(k) /\ k \in C(k) /\ k \notin C(i)
    BY <1>1, CountedIsOrder DEF Counted
  <1>3. IsFiniteSet(C(k))
    <2>1. IsFiniteSet(1 .. Len(found)) /\ C(k) \subseteq 1 .. Len(found)
      BY <1>1, FS_Interval
    <2> QED
      BY <2>1, FS_Subset
  <1>4. Number(i) = Cardinality(C(i)) /\ Number(k) = Cardinality(C(k))
    BY DEF Number
  <1> HIDE DEF C
  <1>5. IsFiniteSet(C(i)) /\ Cardinality(C(i)) <= Cardinality(C(k)) /\ Cardinality(C(i)) # Cardinality(C(k))
    BY <1>2, <1>3, FS_Subset
  <1>6. Cardinality(C(i)) \in Nat /\ Cardinality(C(k)) \in Nat
    BY <1>3, <1>5, FS_CardinalityType
  <1> QED
    BY <1>4, <1>5, <1>6

(* No two findings that are kept have the same pseudonym. *)
LEMMA TokensApart ==
  ASSUME TypeOK, mode = "govern", NEW i \in Kept(found), NEW k \in Kept(found), i # k
  PROVE  TokenOf(i) # TokenOf(k)
  <1>1. i \in DOMAIN found /\ k \in DOMAIN found
    BY DEF Kept
  <1>2. Number(i) \in Nat /\ Number(k) \in Nat
    BY NumberPositive
  <1>3. CASE Family[found[i].label] = Family[found[k].label]
    <2>1. Number(i) # Number(k)
      <3>1. CASE Counted(i, k)
        BY <1>2, <1>3, <3>1, NumberGrows
      <3>2. CASE Counted(k, i)
        BY <1>2, <1>3, <3>2, NumberGrows
      <3> QED
        BY <1>1, <3>1, <3>2, CountedIsOrder
    <2> QED
      BY <2>1 DEF TokenOf
  <1>4. CASE Family[found[i].label] # Family[found[k].label]
    BY <1>4 DEF TokenOf
  <1> QED
    BY <1>3, <1>4

(* A set of places keeps its size when all of it moves d to the left. *)
LEMMA MovedLeft ==
  ASSUME NEW S, S \subseteq Nat, IsFiniteSet(S), NEW d \in Nat
  PROVE  LET T == {q - d : q \in S} IN IsFiniteSet(T) /\ Cardinality(T) = Cardinality(S)
  <1> DEFINE T == {q - d : q \in S}
             f == [q \in S |-> q - d]
  <1>1. f \in [S -> T] /\ \A t \in T : \E q \in S : f[q] = t
    OBVIOUS
  <1>2. \A p, q \in S : f[p] = f[q] => p = q
    OBVIOUS
  <1> HIDE DEF f, T
  <1>3. f \in Bijection(S, T)
    BY <1>1, <1>2 DEF Bijection, Injection, Surjection, IsInjective
  <1>4. ExistsBijection(S, T)
    BY <1>3 DEF ExistsBijection
  <1> QED
    BY <1>4, FS_Bijection DEF T

(* The token at q stands where the finding f stood: characters left of it    *)
(* come from before f, those right of it from after f.                       *)
StandsAt(u, q, f) ==
  \A p \in DOMAIN u \ {q} : u[p].at # 0 => IF p < q THEN u[p].at <= f.start ELSE u[p].at > f.end

(* The tokens at q and to its right. *)
FromHere(q) == {p \in TokenPlaces : p >= q}

(* What the vault says of the text during the loop: it holds the tokens that *)
(* stand in the text, each of a finding already visited; they are listed     *)
(* from right to left, so the token at q is as far into the list as there    *)
(* are tokens from q on; and each stands where its finding stood.            *)
VaultInv == mode = "govern" =>
  /\ DOMAIN vault = {text[q].token : q \in TokenPlaces}
  /\ \A t \in DOMAIN vault : \E i \in Kept(found) \ rest : t = TokenOf(i)
  /\ Cardinality(DOMAIN vault) = Len(tokens) /\ Cardinality(TokenPlaces) = Len(tokens)
  /\ \A q \in TokenPlaces : tokens[Cardinality(FromHere(q))] = text[q].token
  /\ \A q \in TokenPlaces : StandsAt(text, q, vault[text[q].token])

(* The loop starts with no token anywhere. *)
LEMMA InitVault == Init => VaultInv
  <1> SUFFICES ASSUME Init PROVE VaultInv
    OBVIOUS
  <1>1. DOMAIN text = 1 .. Length /\ \A n \in 1 .. Length : text[n].at = n
    BY DEF Init, Char
  <1>2. TokenPlaces = {}
    BY <1>1 DEF TokenPlaces
  <1>3. DOMAIN vault = {} /\ Len(tokens) = 0
    BY DEF Init
  <1> QED
    BY <1>2, <1>3, FS_EmptySet DEF VaultInv

(* A replacement moves every token to the left by what the span loses,       *)
(* unchanged, and puts the new one to the left of all of them.               *)
LEMMA PlacesMove ==
  ASSUME LoopInv, NEW i \in DOMAIN found, Replace(i)
  PROVE  LET s == found[i].start
             d == found[i].end - s - 1 IN
         /\ \A q \in TokenPlaces : q > found[i].end /\ q - d > s + 1 /\ q \in 1 .. Len(text)
         /\ TokenPlaces' = {q - d : q \in TokenPlaces} \cup {s + 1}
         /\ \A q \in TokenPlaces : text'[q - d] = text[q]
  <1> DEFINE s == found[i].start
             e == found[i].end
             d == e - s - 1
  <1>1. /\ s \in Nat /\ e \in Nat /\ s < e /\ e <= boundary /\ e <= Len(text) /\ Len(text) \in Nat
        /\ Len(text') = Len(text) - e + s + 1 /\ boundary \in Nat
        /\ \A q \in 1 .. s : text'[q] = text[q]
        /\ text'[s + 1] = Splice(TokenOf(i))
        /\ \A q \in s + 2 .. Len(text') : text'[q] = text[q + e - s - 1]
    <2>1. boundary \in Nat
      BY DEF LoopInv, TypeOK
    <2> QED
      BY <2>1, ReplaceText
  <1>2. DOMAIN text = 1 .. Len(text) /\ DOMAIN text' = 1 .. Len(text')
    <2>1. text \in Seq(Cells)
      BY DEF LoopInv, TypeOK
    <2>2. text' \in Seq(Cells)
      BY ReplaceText
    <2> QED
      BY <2>1, <2>2
  <1>3. Splice(TokenOf(i)).at = 0
    BY DEF Splice
  <1>4. \A q \in 1 .. boundary : text[q].at = q
    BY LeftCells
  <1> HIDE DEF s, e
  <1>5. d \in Nat /\ d = e - s - 1
    BY <1>1
  <1> HIDE DEF d
  <1>6. \A q \in TokenPlaces : q \in 1 .. Len(text) /\ q > e
    BY <1>1, <1>2, <1>4 DEF TokenPlaces
  <1>7. \A q \in TokenPlaces : q - d \in s + 2 .. Len(text') /\ (q - d) + e - s - 1 = q
    BY <1>1, <1>5, <1>6
  <1>8. \A q \in TokenPlaces : text'[q - d] = text[q]
    BY <1>1, <1>7
  <1>9. TokenPlaces' \subseteq {q - d : q \in TokenPlaces} \cup {s + 1}
    <2> SUFFICES ASSUME NEW q \in DOMAIN text', text'[q].at = 0, q # s + 1
                 PROVE  q \in {p - d : p \in TokenPlaces}
      BY DEF TokenPlaces
    <2>1. q \in s + 2 .. Len(text')
      <3>1. CASE q \in 1 .. s
        <4>1. q \in 1 .. boundary /\ q # 0
          BY <1>1, <3>1
        <4>2. text'[q].at = q
          BY <1>1, <1>4, <3>1, <4>1
        <4> QED
          BY <4>1, <4>2
      <3> QED
        BY <1>1, <1>2, <3>1
    <2>2. q + d \in 1 .. Len(text) /\ q + d = q + e - s - 1 /\ (q + d) - d = q
      BY <1>1, <1>5, <2>1
    <2>3. q + d \in TokenPlaces
      BY <1>1, <1>2, <2>1, <2>2 DEF TokenPlaces
    <2> QED
      BY <2>2, <2>3
  <1>10. s + 1 \in TokenPlaces'
    <2>1. s + 1 \in 1 .. Len(text')
      BY <1>1
    <2> QED
      BY <1>1, <1>2, <1>3, <2>1 DEF TokenPlaces
  <1>11. \A q \in TokenPlaces : q - d \in TokenPlaces'
    <2> TAKE q \in TokenPlaces
    <2>1. q - d \in 1 .. Len(text')
      BY <1>1, <1>7
    <2>2. text[q].at = 0
      BY DEF TokenPlaces
    <2> QED
      BY <1>2, <1>8, <2>1, <2>2 DEF TokenPlaces
  <1>12. /\ \A q \in TokenPlaces : q > e /\ q - d > s + 1 /\ q \in 1 .. Len(text)
         /\ TokenPlaces' = {q - d : q \in TokenPlaces} \cup {s + 1}
    <2>1. \A q \in TokenPlaces : q - d > s + 1
      BY <1>1, <1>5, <1>6, <1>7
    <2> QED
      BY <1>6, <1>9, <1>10, <1>11, <2>1
  <1> QED
    BY <1>8, <1>12 DEF s, e, d

(* The tokens of a text are finitely many. *)
LEMMA PlacesFinite ==
  ASSUME LoopInv
  PROVE  TokenPlaces \subseteq Nat /\ IsFiniteSet(TokenPlaces)
  <1>1. TokenPlaces \in SUBSET (1 .. Len(text)) /\ Len(text) \in Nat
    <2>1. text \in Seq(Cells)
      BY DEF LoopInv, TypeOK
    <2> QED
      BY <2>1 DEF TokenPlaces
  <1>2. IsFiniteSet(1 .. Len(text))
    BY <1>1, FS_Interval
  <1>3. TokenPlaces \subseteq Nat
    BY <1>1
  <1>4. IsFiniteSet(TokenPlaces)
    BY <1>1, <1>2, FS_Subset
  <1> QED
    BY <1>3, <1>4


(* A replacement in govern keeps the vault true of the text. *)
LEMMA ReplaceVault ==
  ASSUME LoopInv, VaultInv, NEW i \in DOMAIN found, Replace(i), mode = "govern"
  PROVE  VaultInv'
  <1> DEFINE s == found[i].start
             e == found[i].end
             d == e - s - 1
             t == TokenOf(i)
             Moved == {q - d : q \in TokenPlaces}
  <1>1. /\ i \in rest /\ rest' = rest \ {i} /\ mode' = mode /\ found' = found
        /\ vault' = [x \in DOMAIN vault \cup {t} |-> IF x = t THEN found[i] ELSE vault[x]]
        /\ tokens' = Append(tokens, t)
    BY DEF Replace, IsNext
  <1>2. rest \subseteq Kept(found) /\ i \in Kept(found) /\ TypeOK
    BY <1>1 DEF LoopInv, RestIsLeft
  <1>3. /\ DOMAIN vault = {text[q].token : q \in TokenPlaces}
        /\ \A x \in DOMAIN vault : \E k \in Kept(found) \ rest : x = TokenOf(k)
        /\ Cardinality(DOMAIN vault) = Len(tokens) /\ Cardinality(TokenPlaces) = Len(tokens)
        /\ \A q \in TokenPlaces : tokens[Cardinality(FromHere(q))] = text[q].token
        /\ \A q \in TokenPlaces : StandsAt(text, q, vault[text[q].token])
    BY DEF VaultInv
  <1>4. t \notin DOMAIN vault
    <2> SUFFICES ASSUME t \in DOMAIN vault PROVE FALSE
      OBVIOUS
    <2>1. PICK k \in Kept(found) \ rest : t = TokenOf(k)
      BY <1>3
    <2> QED
      BY <1>1, <1>2, <2>1, TokensApart
  <1>5. \A k \in DOMAIN found : TokenOf(k)' = TokenOf(k)
    BY <1>1 DEF TokenOf, Number, Counted, Listed, Kept
  <1>6. Kept(found)' = Kept(found)
    BY <1>1
  <1>7. \A x \in DOMAIN vault' : \E k \in Kept(found) \ rest' : x = TokenOf(k)
    BY <1>1, <1>2, <1>3
  <1>8. /\ \A q \in TokenPlaces : q > e /\ q - d > s + 1 /\ q \in 1 .. Len(text)
        /\ TokenPlaces' = Moved \cup {s + 1}
        /\ \A q \in TokenPlaces : text'[q - d] = text[q]
    BY PlacesMove
  <1>9. /\ s \in Nat /\ e \in Nat /\ s < e /\ e <= boundary /\ e <= Len(text) /\ Len(text) \in Nat
        /\ Len(text') = Len(text) - e + s + 1
        /\ \A q \in 1 .. s : text'[q] = text[q]
        /\ text'[s + 1] = Splice(t)
        /\ \A q \in s + 2 .. Len(text') : text'[q] = text[q + e - s - 1]
    BY ReplaceText
  <1>10. DOMAIN text = 1 .. Len(text) /\ DOMAIN text' = 1 .. Len(text')
    <2>1. text \in Seq(Cells)
      BY DEF LoopInv, TypeOK
    <2>2. text' \in Seq(Cells)
      BY ReplaceText
    <2> QED
      BY <2>1, <2>2
  <1>11. TokenPlaces \subseteq Nat /\ IsFiniteSet(TokenPlaces)
    BY PlacesFinite
  <1>12. text'[s + 1].token = t /\ text'[s + 1].at = 0
    BY <1>9 DEF Splice
  <1>13. tokens \in Seq(Pseudonyms) /\ Len(tokens) \in Nat /\ t \in Pseudonyms
    BY <1>2, TokenType DEF TypeOK
  <1>14. \A n \in 1 .. Len(text) : n <= boundary => text[n].at = n
    BY <1>9, LeftCells
  <1>15. \A n \in 1 .. Len(text) : n > boundary => text[n].at = 0 \/ text[n].at > boundary
    <2>1. \A n \in boundary + 1 .. Len(text) : text[n].at = 0 \/ text[n].at > boundary
      BY DEF LoopInv, LeftUntouched
    <2>2. boundary \in Nat
      BY DEF LoopInv, TypeOK
    <2> QED
      BY <1>9, <2>1, <2>2
  <1>16. \A n \in 1 .. Len(text) : text[n].at \in Nat
    <2>1. text \in Seq(Cells)
      BY DEF LoopInv, TypeOK
    <2>2. \A n \in 1 .. Len(text) : text[n] \in Cells
      BY <2>1
    <2> QED
      BY <2>2 DEF Cells
  <1>17. boundary \in Nat
    BY DEF LoopInv, TypeOK
  <1> HIDE DEF s, e, t
  <1>18. d \in Nat /\ d = e - s - 1
    BY <1>9
  <1> HIDE DEF d
  <1>19. IsFiniteSet(Moved) /\ Cardinality(Moved) = Cardinality(TokenPlaces)
    BY <1>11, <1>18, MovedLeft
  <1>20. s + 1 \notin Moved
    BY <1>8, <1>9
  <1>21. Cardinality(TokenPlaces') = Len(tokens) + 1
    <2>1. TokenPlaces' = Moved \cup {s + 1}
      BY <1>8
    <2> HIDE DEF Moved
    <2>2. Cardinality(Moved \cup {s + 1}) = Cardinality(Moved) + 1
      BY <1>19, <1>20, FS_AddElement
    <2> QED
      BY <1>3, <1>19, <2>1, <2>2
  <1>22. Len(tokens') = Len(tokens) + 1 /\ tokens'[Len(tokens) + 1] = t
         /\ \A n \in 1 .. Len(tokens) : tokens'[n] = tokens[n]
    BY <1>1, <1>13, AppendProperties
  <1>23. DOMAIN vault' = DOMAIN vault \cup {t}
    BY <1>1
  <1>24. DOMAIN vault' = {text'[q].token : q \in TokenPlaces'}
    <2>1. {text'[q].token : q \in Moved} = {text[q].token : q \in TokenPlaces}
      BY <1>8
    <2> QED
      BY <1>3, <1>8, <1>12, <1>23, <2>1
  <1>25. Cardinality(DOMAIN vault') = Len(tokens')
    <2>1. IsFiniteSet(DOMAIN vault)
      <3> DEFINE g == [q \in TokenPlaces |-> text[q].token]
      <3>1. g \in [TokenPlaces -> DOMAIN vault] /\ \A x \in DOMAIN vault : \E q \in TokenPlaces : g[q] = x
        BY <1>3
      <3> HIDE DEF g
      <3>2. g \in Surjection(TokenPlaces, DOMAIN vault)
        BY <3>1 DEF Surjection
      <3> QED
        BY <1>11, <3>2, FS_Surjection
    <2> QED
      <3>1. Cardinality(DOMAIN vault \cup {t}) = Cardinality(DOMAIN vault) + 1
        BY <1>4, <2>1, FS_AddElement
      <3> QED
        BY <1>3, <1>22, <1>23, <3>1
  <1>26. ASSUME NEW q \in TokenPlaces'
         PROVE  tokens'[Cardinality(FromHere(q)')] = text'[q].token
    <2>1. FromHere(q)' = {p \in TokenPlaces' : p >= q}
      BY DEF FromHere
    <2>2. CASE q = s + 1
      <3>1. FromHere(q)' = TokenPlaces'
        <4>1. \A p \in TokenPlaces' : p >= s + 1
          BY <1>8, <1>9, <1>18
        <4> QED
          BY <2>1, <2>2, <4>1
      <3> QED
        BY <1>12, <1>21, <1>22, <2>2, <3>1
    <2>3. CASE q \in Moved
      <3>1. PICK r \in TokenPlaces : q = r - d
        BY <2>3
      <3>2. FromHere(q)' = {p - d : p \in FromHere(r)}
        <4>1. q > s + 1
          BY <1>8, <3>1
        <4>2. FromHere(q)' = {p \in Moved : p >= r - d}
          BY <1>8, <1>9, <2>1, <3>1, <4>1
        <4>3. \A p \in TokenPlaces : p - d >= r - d <=> p >= r
          BY <1>11, <1>18
        <4> QED
          BY <4>2, <4>3 DEF FromHere
      <3>3. FromHere(r) \subseteq TokenPlaces /\ r \in FromHere(r)
        BY <1>11 DEF FromHere
      <3>4. /\ IsFiniteSet(FromHere(r)) /\ Cardinality(FromHere(r)) <= Cardinality(TokenPlaces)
            /\ FromHere(r) \subseteq Nat
        BY <1>11, <3>3, FS_Subset
      <3>5. Cardinality(FromHere(r)) \in 1 .. Len(tokens)
        <4>1. Cardinality(FromHere(r)) \in Nat /\ Cardinality(FromHere(r)) # 0
          BY <3>3, <3>4, FS_CardinalityType, FS_EmptySet
        <4> QED
          BY <1>3, <1>13, <3>4, <4>1
      <3>6. Cardinality(FromHere(q)') = Cardinality(FromHere(r))
        BY <1>18, <3>2, <3>4, MovedLeft
      <3>7. tokens'[Cardinality(FromHere(q)')] = text[r].token
        BY <1>3, <1>22, <3>5, <3>6
      <3> QED
        BY <1>8, <3>1, <3>7
    <2> QED
      BY <1>8, <2>2, <2>3
  <1>27. ASSUME NEW q \in TokenPlaces'
         PROVE  StandsAt(text', q, vault'[text'[q].token])
    <2>1. CASE q = s + 1
      <3>1. vault'[text'[q].token] = found[i]
        BY <1>1, <1>12, <2>1 DEF t
      <3>2. found[i].start = s /\ found[i].end = e
        BY DEF s, e
      <3>3. ASSUME NEW p \in 1 .. Len(text'), p < s + 1 PROVE text'[p].at <= s
        <4>1. p \in 1 .. s /\ p \in 1 .. Len(text) /\ p <= boundary
          BY <1>9, <1>17, <3>3
        <4>2. text'[p] = text[p]
          BY <1>9, <4>1
        <4>3. text[p].at = p
          BY <1>14, <4>1
        <4> QED
          BY <4>1, <4>2, <4>3
      <3>4. ASSUME NEW p \in 1 .. Len(text'), p > s + 1, text'[p].at # 0 PROVE text'[p].at > e
        <4>1. p \in s + 2 .. Len(text') /\ p + e - s - 1 \in 1 .. Len(text) /\ p + e - s - 1 > e
          BY <1>9, <3>4
        <4>2. PICK r \in 1 .. Len(text) : r = p + e - s - 1
          BY <4>1
        <4>3. text'[p] = text[r] /\ r > e
          BY <1>9, <4>1, <4>2
        <4>4. text[r].at \in Nat /\ text[r].at # 0
          BY <1>16, <3>4, <4>3
        <4>5. CASE r <= boundary
          BY <1>14, <4>3, <4>5
        <4>6. CASE r > boundary
          <5>1. text[r].at > boundary
            BY <1>15, <4>4, <4>6
          <5> QED
            BY <1>9, <1>17, <4>3, <4>4, <5>1
        <4> QED
          BY <1>17, <4>5, <4>6
      <3>5. \A p \in DOMAIN text' \ {s + 1} : p \in 1 .. Len(text') /\ (p < s + 1 \/ p > s + 1)
        BY <1>9, <1>10
      <3>6. \A p \in DOMAIN text' \ {s + 1} : text'[p].at # 0 =>
              IF p < s + 1 THEN text'[p].at <= s ELSE text'[p].at > e
        BY <3>3, <3>4, <3>5
      <3> QED
        BY <2>1, <3>1, <3>2, <3>6 DEF StandsAt
    <2>2. CASE q \in Moved
      <3>1. PICK r \in TokenPlaces : q = r - d
        BY <2>2
      <3>2. text[r].token \in DOMAIN vault
        BY <1>3
      <3>3. vault'[text'[q].token] = vault[text[r].token]
        <4>1. text'[q].token = text[r].token
          BY <1>8, <3>1
        <4> QED
          BY <1>1, <1>4, <3>2, <4>1
      <3> DEFINE f == vault[text[r].token]
      <3>4. \A p \in DOMAIN text \ {r} : text[p].at # 0 =>
              IF p < r THEN text[p].at <= f.start ELSE text[p].at > f.end
        BY <1>3 DEF StandsAt
      <3> HIDE DEF f
      <3>5. r \in Nat /\ r > e /\ r - d > s + 1
        BY <1>8, <1>11
      <3>6. ASSUME NEW p \in 1 .. Len(text'), p # q, text'[p].at # 0
            PROVE  IF p < q THEN text'[p].at <= f.start ELSE text'[p].at > f.end
        <4>1. CASE p \in 1 .. s
          <5>1. p \in 1 .. Len(text) /\ p < r /\ p < q /\ text'[p] = text[p]
            BY <1>9, <1>18, <3>1, <3>5, <4>1
          <5>2. text[p].at <= f.start
            BY <1>10, <3>4, <3>6, <5>1
          <5> QED
            BY <5>1, <5>2
        <4>2. CASE p = s + 1
          BY <1>12, <3>6, <4>2
        <4>3. CASE p \in s + 2 .. Len(text')
          <5>1. p + d \in 1 .. Len(text) /\ p + d # r /\ (p < q <=> p + d < r)
            BY <1>9, <1>18, <3>1, <3>5, <3>6, <4>3
          <5>2. text'[p] = text[p + d]
            <6>1. p + e - s - 1 = p + d
              BY <1>9, <1>18
            <6> QED
              BY <1>9, <4>3, <6>1
          <5>3. IF p + d < r THEN text[p + d].at <= f.start ELSE text[p + d].at > f.end
            BY <1>10, <3>4, <3>6, <5>1, <5>2
          <5> QED
            BY <5>1, <5>2, <5>3
        <4> QED
          BY <1>9, <4>1, <4>2, <4>3
      <3>7. \A p \in DOMAIN text' \ {q} : text'[p].at # 0 =>
              IF p < q THEN text'[p].at <= f.start ELSE text'[p].at > f.end
        BY <1>10, <3>6
      <3>8. StandsAt(text', q, f)
        BY <3>7 DEF StandsAt
      <3> QED
        BY <3>3, <3>8 DEF f
    <2> QED
      BY <1>8, <2>1, <2>2
  <1>28. \A x \in DOMAIN vault' : \E k \in (Kept(found) \ rest)' : x = TokenOf(k)'
    <2>1. Kept(found) \subseteq DOMAIN found
      BY DEF Kept
    <2> QED
      BY <1>5, <1>6, <1>7, <2>1
  <1>29. Cardinality(TokenPlaces)' = Len(tokens')
    BY <1>21, <1>22
  <1> QED
    BY <1>24, <1>25, <1>26, <1>27, <1>28, <1>29 DEF VaultInv

(* So does every round. *)
LEMMA VaultStep == LoopInv /\ VaultInv /\ [Next]_vars => VaultInv'
  <1> SUFFICES ASSUME LoopInv, VaultInv, [Next]_vars PROVE VaultInv'
    OBVIOUS
  <1>1. ASSUME UNCHANGED <<mode, found, text, vault, tokens>>, rest' \subseteq rest
        PROVE  VaultInv'
    <2>1. \A k : TokenOf(k)' = TokenOf(k)
      BY <1>1 DEF TokenOf, Number, Counted, Listed, Kept
    <2>2. Kept(found)' = Kept(found) /\ Kept(found) \ rest \subseteq Kept(found) \ rest'
      BY <1>1
    <2>3. TokenPlaces' = TokenPlaces /\ \A q : FromHere(q)' = FromHere(q)
      BY <1>1 DEF TokenPlaces, FromHere
    <2> SUFFICES ASSUME mode' = "govern"
                 PROVE  /\ DOMAIN vault' = {text'[q].token : q \in TokenPlaces'}
                        /\ \A t \in DOMAIN vault' : \E i \in Kept(found)' \ rest' : t = TokenOf(i)'
                        /\ Cardinality(DOMAIN vault') = Len(tokens')
                        /\ Cardinality(TokenPlaces') = Len(tokens')
                        /\ \A q \in TokenPlaces' : tokens'[Cardinality(FromHere(q)')] = text'[q].token
                        /\ \A q \in TokenPlaces' : StandsAt(text', q, vault'[text'[q].token])
      BY DEF VaultInv
    <2>4. /\ DOMAIN vault = {text[q].token : q \in TokenPlaces}
          /\ \A t \in DOMAIN vault : \E i \in Kept(found) \ rest : t = TokenOf(i)
          /\ Cardinality(DOMAIN vault) = Len(tokens) /\ Cardinality(TokenPlaces) = Len(tokens)
          /\ \A q \in TokenPlaces : tokens[Cardinality(FromHere(q))] = text[q].token
          /\ \A q \in TokenPlaces : StandsAt(text, q, vault[text[q].token])
      BY <1>1 DEF VaultInv
    <2>5. text' = text /\ vault' = vault /\ tokens' = tokens
      BY <1>1
    <2>6. \A t \in DOMAIN vault' : \E i \in Kept(found)' \ rest' : t = TokenOf(i)'
      BY <2>1, <2>2, <2>4, <2>5
    <2> QED
      BY <2>3, <2>4, <2>5, <2>6
  <1>2. CASE UNCHANGED vars
    BY <1>1, <1>2 DEF vars
  <1>3. ASSUME NEW i \in DOMAIN found, Skip(i) PROVE VaultInv'
    <2>1. UNCHANGED <<mode, found, text, vault, tokens>> /\ rest' \subseteq rest
      BY <1>3 DEF Skip
    <2> QED
      BY <1>1, <2>1
  <1>4. ASSUME NEW i \in DOMAIN found, Replace(i) PROVE VaultInv'
    <2>1. CASE mode = "govern"
      BY <1>4, <2>1, ReplaceVault
    <2>2. CASE mode # "govern"
      BY <1>4, <2>2 DEF Replace, VaultInv
    <2> QED
      BY <2>1, <2>2
  <1> QED
    BY <1>2, <1>3, <1>4 DEF Next

(* VaultExplains holds of every text and every list of findings: what govern *)
(* returns are the tokens in the text, no two alike, listed from right to    *)
(* left, and the vault names for each the finding in whose place it stands.  *)
THEOREM VaultIsTrue == Spec => []VaultExplains
  <1>1. VaultInv => VaultExplains
    <2> SUFFICES ASSUME VaultInv, mode = "govern"
                 PROVE  /\ DOMAIN vault = {text[q].token : q \in TokenPlaces}
                        /\ Cardinality(DOMAIN vault) = Len(tokens)
                        /\ \A q \in TokenPlaces :
                             LET f == vault[text[q].token] IN
                               /\ tokens[Cardinality({p \in TokenPlaces : p >= q})] = text[q].token
                               /\ \A p \in DOMAIN text \ {q} :
                                    text[p].at # 0 => IF p < q THEN text[p].at <= f.start
                                                               ELSE text[p].at > f.end
      BY DEF VaultExplains
    <2> QED
      BY DEF VaultInv, StandsAt, FromHere
  <1>2. Init => LoopInv /\ VaultInv
    BY InitLoop, InitVault
  <1>3. LoopInv /\ VaultInv /\ [Next]_vars => LoopInv' /\ VaultInv'
    BY LoopStep, VaultStep
  <1> QED
    BY <1>1, <1>2, <1>3, PTL DEF Spec
=============================================================================
