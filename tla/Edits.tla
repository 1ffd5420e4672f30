------------------------------- MODULE Edits --------------------------------
(***************************************************************************)
(* The text engine under the office tools: a page of matches is found in a *)
(* document, a proposal is made of some of them, the document drifts, and  *)
(* the proposal is applied: all of it or none.  A paragraph is a sequence  *)
(* of UTF-16 units, a workbook cell a paragraph replaced as a whole.       *)
(***************************************************************************)
EXTENDS Naturals, Sequences, FiniteSets, SequencesExt

CONSTANTS Paras,        \* paragraphs, in order: 1, 2, ..
          Units,        \* the units texts are written in
          TextLen,      \* bound: length of a paragraph
          PageLimit,    \* matches on a page of grep
          MaxChanges    \* MAX_CHANGES

ASSUME EditsAssumption == Paras \subseteq Nat /\ PageLimit \in Nat \ {0} /\ MaxChanges \in Nat

VARIABLES text,      \* the document
          wanted,    \* the unit grep looks for
          cursor,    \* matches already handed out, or "end"
          matches,   \* handles handed out: [para, from, to, old]
          staged,    \* the proposal's changes, or {}
          before,    \* history: the document the apply met
          outcome    \* "none", "applied", "stale"

editVars == <<text, wanted, cursor, matches, staged, before, outcome>>

Texts == UNION {[1..n -> Units] : n \in 1..TextLen}
News == {<<>>, <<"n">>, <<"n", "n">>}

EditInit ==
    /\ text \in [Paras -> Texts] /\ wanted \in Units
    /\ cursor = 0 /\ matches = {} /\ staged = {} /\ before = text /\ outcome = "none"

\* utf16_slice: units from..to, counted from 0, as far as the text goes.
Slice(t, from, to) == SubSeq(t, from + 1, IF to < Len(t) THEN to ELSE Len(t))

\* find_all: every occurrence, in the order of the document.
Before(a, b) == a.para < b.para \/ (a.para = b.para /\ a.from < b.from)
Occurrences ==
    {[para |-> p, from |-> i - 1, to |-> i, old |-> <<wanted>>] : p \in Paras, i \in 1..TextLen}
Found == {o \in Occurrences : Slice(text[o.para], o.from, o.to) = o.old}

\* A page that begins at the cursor's own last match.
PageOverlapping(skip) ==
    {o \in Found : LET n == Cardinality({b \in Found : Before(b, o)})
                   IN n + 1 >= skip /\ n + 1 < skip + PageLimit}

\* The matches past the cursor, up to the limit.
Page(skip) ==
    {o \in Found : LET n == Cardinality({b \in Found : Before(b, o)})
                   IN n >= skip /\ n < skip + PageLimit}

\* grep, one page; a page shorter than the limit is the last.
Grep ==
    /\ cursor < Cardinality(Found) /\ staged = {} /\ outcome = "none"
    /\ matches' = matches \cup Page(cursor)
    /\ cursor' = cursor + Cardinality(Page(cursor))
    /\ UNCHANGED <<text, wanted, staged, before, outcome>>

\* docx_change: the handle still reads what it found.
StillReads(c) == Slice(text[c.para], c.from, c.to) = c.old

\* propose, with one new text for each of some matches.  (Matches of one
\* search never overlap.)
Propose(some, new) ==
    /\ staged = {} /\ outcome = "none"
    /\ some # {} /\ Cardinality(some) <= MaxChanges
    /\ \A c \in some : StillReads(c)
    /\ staged' = {[c |-> c, new |-> new[c]] : c \in some}
    /\ UNCHANGED <<text, wanted, cursor, matches, before, outcome>>

\* propose_cells: a whole paragraph taken as a cell's input.
ProposeCells(some, new) ==
    /\ staged = {} /\ outcome = "none"
    /\ some # {} /\ Cardinality(some) <= MaxChanges
    /\ staged' = {[c |-> [para |-> p, from |-> 0, to |-> Len(text[p]), old |-> text[p]],
                   new |-> new[p]] : p \in some}
    /\ UNCHANGED <<text, wanted, cursor, matches, before, outcome>>

\* Somebody edits the document meanwhile, or it is opened afresh.
Drift(p, t) ==
    /\ outcome = "none" /\ staged # {} /\ before = text
    /\ text' = [text EXCEPT ![p] = t]
    /\ UNCHANGED <<wanted, cursor, matches, staged, before, outcome>>

Spliced(t, ch) == SubSeq(t, 1, ch.c.from) \o ch.new \o SubSeq(t, ch.c.to + 1, Len(t))

\* Front to back: a change moves the ones after it.
FrontToBack(p) ==
    FoldLeft(LAMBDA t, ch : Spliced(t, ch), text[p],
             SetToSortSeq({ch \in staged : ch.c.para = p}, LAMBDA a, b : a.c.from < b.c.from))

\* The changes of a paragraph spliced in from the back, so that none moves
\* another.
BackToFront(p) ==
    FoldLeft(LAMBDA t, ch : Spliced(t, ch), text[p],
             SetToSortSeq({ch \in staged : ch.c.para = p}, LAMBDA a, b : a.c.from > b.c.from))

\* apply_docx, apply_xlsx: with any target stale nothing is applied.
Apply ==
    /\ staged # {} /\ outcome = "none"
    /\ before' = text
    /\ IF \E ch \in staged : ~StillReads(ch.c)
       THEN outcome' = "stale" /\ UNCHANGED text
       ELSE /\ outcome' = "applied"
            /\ text' = [p \in Paras |-> BackToFront(p)]
    /\ UNCHANGED <<wanted, cursor, matches, staged>>

EditNext ==
    \/ Grep \/ Apply
    \/ \E some \in SUBSET matches : \E new \in [some -> News] : Propose(some, new)
    \/ \E some \in SUBSET Paras : \E new \in [some -> News] : ProposeCells(some, new)
    \/ \E p \in Paras, t \in Texts : Drift(p, t)

EditSpec == EditInit /\ [][EditNext]_editVars

-----------------------------------------------------------------------------
\* What stands at position i of a paragraph once its changes are made.
Becomes(p, i) ==
    LET here == {ch \in staged : ch.c.para = p /\ ch.c.from < i /\ i <= ch.c.to}
    IN IF here = {} THEN <<before[p][i]>>
       ELSE LET ch == CHOOSE c \in here : TRUE IN IF i = ch.c.from + 1 THEN ch.new ELSE <<>>

(* An applied proposal put every new text exactly where its match stood    *)
(* and left every other unit; a stale one changed nothing (apply_docx,     *)
(* apply_xlsx); and the pages of one search hand out every match once      *)
(* (grep's cursor).                                                        *)
EditsAreExact ==
    /\ outcome = "applied" =>
          \A p \in Paras : text[p] = FlattenSeq([i \in 1..Len(before[p]) |-> Becomes(p, i)])
    /\ outcome = "stale" => text = before
    /\ (staged = {} /\ outcome = "none" /\ cursor >= Cardinality(Found)) => matches = Found
    /\ (staged = {} /\ outcome = "none") => Cardinality(matches) = cursor
=============================================================================
