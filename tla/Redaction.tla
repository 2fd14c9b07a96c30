----------------------------- MODULE Redaction -----------------------------
(***************************************************************************)
(* agents/go/policy/pii.go: which parts of a text are masked. A text is its *)
(* length; what the patterns find in it are spans of positions, start the   *)
(* first of them and end the first beyond. Addresses contain other spans,   *)
(* tokens are operational evidence that has to stay readable.               *)
(*                                                                         *)
(* A definition Name_Fault is Name as a plausible slip would have left it;  *)
(* nothing uses it but a check that some property notices the slip.        *)
(***************************************************************************)
EXTENDS Integers, Sequences, SequencesExt, FiniteSets

CONSTANTS
  Length,      \* of the text
  Addresses,   \* the sets of addresses the e-mail pattern may find
  SafeTokens,  \* the sets of operational tokens the text may hold
  Others       \* the sets of spans the other recognizers may find

VARIABLES
  found,  \* what the patterns match: addresses, tokens, others and their order
  text,   \* the masked text: its positions, and masks as negative entities
  masked  \* whether redactText is done

vars == <<found, text, masked>>

Span(entity, start, end) == [entity |-> entity, start |-> start, end |-> end]

overlaps(s, t) == s.start < t.end /\ t.start < s.end
overlapsAny(s, spans) == \E t \in spans : overlaps(s, t)
Covered(spans) == UNION {s.start .. (s.end - 1) : s \in spans}

\* A token inside an address is part of the address.
protectedSpans(tokens, addresses) == {t \in tokens : ~overlapsAny(t, addresses)}

\* The working copy of the text has underscores where the protected tokens are, and
\* no recognizer matches across them; an address wins over what overlaps it.
analyze(f) ==
  LET protected == protectedSpans(f.tokens, f.addresses)
      kept(s) == \/ s \in f.addresses
                 \/ ~overlapsAny(s, protected \union f.addresses)
  IN  SelectSeq(f.order, kept)

\* The earliest first, of those the longest, then by the name of the entity.
Before(s, t) ==
  \/ s.start < t.start
  \/ s.start = t.start /\ s.end > t.end
  \/ s.start = t.start /\ s.end = t.end /\ s.entity <= t.entity

Unmasked(from, to) == [i \in 1 .. (to - from) |-> from + i - 1]

\* One span: the text before it as it is, then its mask; a span that starts in what
\* is masked already is left out.
Write(acc, s) ==
  IF s.start < acc.written THEN acc
  ELSE [out |-> acc.out \o Unmasked(acc.written, s.start) \o <<-s.entity>>,
        written |-> s.end]

Masked(ordered) ==
  LET all == FoldLeft(Write, [out |-> <<>>, written |-> 0], ordered)
  IN  all.out \o Unmasked(all.written, Length)

\* The sort is left out.
maskSpans_AsFound(spans) == Masked(spans)

maskSpans(spans) == Masked(SortSeq(spans, Before))

-----------------------------------------------------------------------------
Init ==
  /\ \E a \in Addresses, t \in SafeTokens, o \in Others :
       \E order \in SetToSeqs(a \union o) :
         found = [addresses |-> a, tokens |-> t, others |-> o, order |-> order]
  /\ text = <<>> /\ masked = FALSE

redactText ==
  /\ ~masked /\ masked' = TRUE
  /\ text' = maskSpans(analyze(found))
  /\ UNCHANGED found

Done == masked /\ UNCHANGED vars

Next == redactText \/ Done

Spec == Init /\ [][Next]_vars

-----------------------------------------------------------------------------
Readable == {p \in 0 .. (Length - 1) : \E i \in DOMAIN text : text[i] = p}

\* The detections that count, and the subsets of them maskSpans may choose: disjoint,
\* and each of the rest starts within a chosen one.
Detected == Range(analyze(found))
Resolutions ==
  {C \in SUBSET Detected :
     /\ \A s, t \in C : s # t => ~overlaps(s, t)
     /\ \A s \in Detected \ C :
          \E t \in C : overlaps(s, t) /\ t # s /\ Before(t, s)}

\* Whatever the order of the detections, the same text comes out: it has the mask of
\* every span of the one possible choice and all that lies outside of those, in its
\* place. An address is masked whole, a token outside of one is readable whole, and
\* nothing that was detected is readable from its first position on.
RedactionIsExact ==
  masked =>
    LET chosen == CHOOSE C \in Resolutions : TRUE
    IN  /\ Cardinality(Resolutions) = 1
        /\ Readable = (0 .. (Length - 1)) \ Covered(chosen)
        /\ Len(text) = Cardinality(Readable) + Cardinality(chosen)
        /\ \A p \in Readable, q \in Readable :
             p < q => \E i, j \in DOMAIN text : i < j /\ text[i] = p /\ text[j] = q
        /\ Covered(protectedSpans(found.tokens, found.addresses)) \subseteq Readable
        /\ Covered(found.addresses) \intersect Readable = {}
        /\ \A s \in Detected : s.start \notin Readable
=============================================================================
