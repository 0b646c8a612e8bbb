----------------------------- MODULE Redaction -----------------------------
(***************************************************************************)
(* How found spans are taken out of a text: redact_content and             *)
(* pseudonymize_content of backend/security_scanner.py, the latter as      *)
(* called by govern of backend/redaction_middleware.py.  Both walk the     *)
(* findings from right to left and splice a token over each, skipping a    *)
(* span that reaches into one already replaced.                            *)
(*                                                                         *)
(* The text is Length characters; what they are does not matter.  What the *)
(* scanners find in them is any list of findings: spans of different       *)
(* patterns overlap, nest, coincide, and come in any order.                *)
(***************************************************************************)
EXTENDS Naturals, Sequences, FiniteSets

CONSTANTS
  Length,        \* characters in the text
  Labels,        \* labels a finding may carry
  Family,        \* the token name a label is normalised to
  MaxFindings    \* bound on the findings of one text

ASSUME LengthAssumption == Length \in Nat
ASSUME FamilyAssumption == DOMAIN Family = Labels
ASSUME FindingsAssumption == MaxFindings \in Nat

VARIABLES
  mode,       \* "redact": redact_content; "govern": the pseudonyms of govern
  found,      \* the findings, in the order the scanners list them
  rest,       \* those the loop has yet to look at
  text,       \* the text so far
  boundary,   \* rightmost_boundary
  vault,      \* mapping: the finding each pseudonym stands for
  tokens      \* the pseudonyms, in the order they were written

vars == <<mode, found, rest, text, boundary, vault, tokens>>

(* A span is text[start:end], offsets counted from 0. *)
Findings == {f \in [start : 0 .. Length, end : 0 .. Length, label : Labels] :
               f.start < f.end}

(* A token: its family and, for a pseudonym, its number. *)
Families == {Family[l] : l \in Labels} \cup {"none"}
Tokens == [family : Families, number : Nat]
NoToken == [family |-> "none", number |-> 0]
Pseudonyms == [family : Families, number : Nat \ {0}]

(* A cell of the text is its n-th character, or a token. *)
Char(n) == [at |-> n, token |-> NoToken]
Splice(t) == [at |-> 0, token |-> t]
Cells == [at : 0 .. Length, token : Tokens]

TypeOK ==
  /\ mode \in {"redact", "govern"}
  /\ found \in Seq(Findings)
  /\ rest \in SUBSET (DOMAIN found)
  /\ text \in Seq(Cells)
  /\ boundary \in 0 .. Length
  /\ tokens \in Seq(Pseudonyms)
  /\ \A t \in DOMAIN vault : t \in Pseudonyms /\ vault[t] \in Findings

Covers(f, n) == f.start < n /\ n <= f.end

(* _dedupe_findings keeps the first of equal findings. *)
Kept(list) == {i \in DOMAIN list : \A k \in 1 .. i-1 : list[k] # list[i]}

Init ==
  /\ mode \in {"redact", "govern"}
  /\ found \in UNION {[1 .. n -> Findings] : n \in 0 .. MaxFindings}
  /\ rest = IF mode = "govern" THEN Kept(found) ELSE DOMAIN found
  /\ text = [n \in 1 .. Length |-> Char(n)]
  /\ boundary = Length
  /\ vault = << >>
  /\ tokens = << >>

(***************************************************************************)
(* The orders in which findings are visited.  Listed: the list the loop is *)
(* given, which _dedupe_findings has sorted by start and, for equal        *)
(* starts, longest first.  Sorting is stable, also in reverse.             *)
(***************************************************************************)
Listed(i, k) ==
  \/ mode = "govern" /\ found[i].end > found[k].end
  \/ i < k /\ (mode = "govern" => found[i].end = found[k].end)

(* sorted(findings, key=start, reverse=True). *)
Before(i, k) ==
  \/ found[i].start > found[k].start
  \/ (found[i].start = found[k].start /\ Listed(i, k))

IsNext(i) == i \in rest /\ \A k \in rest \ {i} : Before(i, k)

(***************************************************************************)
(* The tokens.  Pseudonyms are numbered per family from left to right,     *)
(* those of spans that will be skipped included.                           *)
(***************************************************************************)
(* Counted(k, i): the pass over the findings from left to right has met k   *)
(* by the time it comes to i.                                              *)
Counted(k, i) ==
  \/ k = i
  \/ found[k].start < found[i].start
  \/ found[k].start = found[i].start /\ Listed(k, i)

(* Faulty variants: a counter for each label; counting from 0. *)
NumberByLabel(i) ==
  Cardinality({k \in Kept(found) : found[k].label = found[i].label /\ Counted(k, i)})
NumberFromZero(i) ==
  Cardinality({k \in Kept(found) \ {i} :
    Family[found[k].label] = Family[found[i].label] /\ Counted(k, i)})

Number(i) ==
  Cardinality({k \in Kept(found) :
    Family[found[k].label] = Family[found[i].label] /\ Counted(k, i)})

TokenOf(i) == [family |-> Family[found[i].label],
               number |-> IF mode = "govern" THEN Number(i) ELSE 0]

(***************************************************************************)
(* One round of the loop.                                                  *)
(***************************************************************************)
(* Faulty variants: a span that ends where a replaced one starts is        *)
(* skipped; one that reaches into a replaced one is not.                   *)
ClearStrictly(i) == found[i].end < boundary
ClearOverlapping(i) == found[i].start < boundary

Clear(i) == found[i].end <= boundary

(* u[:s] + cell + u[e:], in offsets that count from 0. *)
Spliced(u, s, e, cell) == SubSeq(u, 1, s) \o <<cell>> \o SubSeq(u, e + 1, Len(u))

Replace(i) ==
  /\ IsNext(i)
  /\ Clear(i)
  /\ text' = Spliced(text, found[i].start, found[i].end, Splice(TokenOf(i)))
  /\ boundary' = found[i].start
  /\ IF mode = "govern"
     THEN /\ vault' = [t \in DOMAIN vault \cup {TokenOf(i)} |->
                        IF t = TokenOf(i) THEN found[i] ELSE vault[t]]
          /\ tokens' = Append(tokens, TokenOf(i))
     ELSE UNCHANGED <<vault, tokens>>
  /\ rest' = rest \ {i}
  /\ UNCHANGED <<mode, found>>

Skip(i) ==
  /\ IsNext(i)
  /\ ~Clear(i)
  /\ rest' = rest \ {i}
  /\ UNCHANGED <<mode, found, text, boundary, vault, tokens>>

Next == \E i \in DOMAIN found : Replace(i) \/ Skip(i)

Spec == Init /\ [][Next]_vars

(***************************************************************************)
(* Properties of what the loops return.                                    *)
(***************************************************************************)
Done == rest = {}

Left == {text[q].at : q \in DOMAIN text} \ {0}

(* No finding comes through whole: of every span found, at least one       *)
(* character is gone, also of one that was skipped.                        *)
NoSpanSurvives ==
  Done => \A i \in DOMAIN found : \E n \in 1 .. Length : Covers(found[i], n) /\ n \notin Left

(* Everything else is kept, in its order: splicing never moves an offset   *)
(* that is still to be used.                                               *)
TextKept ==
  Done => /\ \A n \in 1 .. Length : (\A i \in DOMAIN found : ~Covers(found[i], n)) => n \in Left
          /\ \A p, q \in DOMAIN text : p < q /\ text[p].at # 0 /\ text[q].at # 0
                                          => text[p].at < text[q].at

(* The vault explains the text: govern returns the pseudonyms from left to *)
(* right as they stand in the text, no two alike, and each stands exactly  *)
(* where the finding stood that the vault names for it.                    *)
TokenPlaces == {q \in DOMAIN text : text[q].at = 0}

VaultExplains ==
  Done /\ mode = "govern" =>
    /\ DOMAIN vault = {text[q].token : q \in TokenPlaces}
    /\ Cardinality(DOMAIN vault) = Len(tokens)
    /\ \A q \in TokenPlaces :
         LET f == vault[text[q].token] IN
           /\ tokens[Cardinality({p \in TokenPlaces : p >= q})] = text[q].token
           /\ \A p \in DOMAIN text \ {q} :
                text[p].at # 0 => IF p < q THEN text[p].at <= f.start ELSE text[p].at > f.end

(* Every character of every finding is gone from a governed prompt. *)
SpansGone ==
  Done /\ mode = "govern" =>
    \A i \in DOMAIN found, n \in 1 .. Length : Covers(found[i], n) => n \notin Left
=============================================================================
