--------------------------- MODULE PatternBuilder ---------------------------
(***************************************************************************)
(* The pattern editor's engine (web: pages/mail/patternBuilder.ts): pieces  *)
(* of a real mail are marked as fields, and an expression is written from   *)
(* them: the words before each piece, its shape, and the words after a      *)
(* text. Mails marked alike make one pattern.                              *)
(*                                                                         *)
(* A mail is a sequence of tokens: words, numbers, Space and Line. A piece  *)
(* is the tokens from "start" up to, not including, "end". Words match      *)
(* whole, and the reach of the words around a piece (32 and 16 characters)  *)
(* is left out.                                                            *)
(***************************************************************************)
EXTENDS Integers, Sequences, FiniteSets, FiniteSetsExt, SequencesExt, Functions

CONSTANTS
  Mails,        \* the mailbox's history: mail -> its tokens
  Fields,       \* FIELDS, or some of them
  TEXT_FIELDS,  \* those that are text; the others have a shape of their own
  Numbers,      \* the tokens that are numbers
  Space, Line

Blank(t) == t \in {Space, Line}

\* The marks in order (they never overlap, see assign).
orderedMarks(marks) == SetToSortSeq(marks, LAMBDA a, b : a.start < b.start)

\* Literal text as an expression: any number for a number, any spacing for spaces.
literal(s) == [k \in DOMAIN s |-> IF s[k] \in Numbers THEN "NUM" ELSE IF Blank(s[k]) THEN "SPACES" ELSE s[k]]

\* Where the (at most) two words before a piece start: on its line, after what was read.
WordsFrom(text, floor, start) ==
  LET starts == {w \in floor..(start - 1) : ~Blank(text[w]) /\ (w = floor \/ Blank(text[w - 1]))}
      nearest == {w \in starts : Cardinality({v \in starts : v > w}) < 2}
  IN IF starts = {} THEN start ELSE Min(nearest)

\* Where the (at most) two words after a text piece end, short of its line's end and of the
\* next piece.
WordsTo(text, end, limit) ==
  LET ends == {e \in end..(limit - 1) : ~Blank(text[e]) /\ (e + 1 = limit \/ Blank(text[e + 1]))}
      nearest == {e \in ends : Cardinality({d \in ends : d < e}) < 2}
  IN IF ends = {} THEN end - 1 ELSE Max(nearest)

\* (Mutant: what comes between two pieces is not skipped.)
GapNever(i, from, pos) == FALSE

\* Text that may change comes between the previous piece and the words before this one.
Gap(i, from, pos) == i > 1 /\ from > pos

\* A piece as its mail shows it: a text runs to the end of its line, to the words after it
\* or, without any, to the next space.
Kind(m, eol, to) ==
  IF m.field \notin TEXT_FIELDS THEN "shape"
  ELSE IF eol = m.end THEN "line" ELSE IF to < m.end THEN "word" ELSE "until"
Shown(i, text, m, from, pos, to, kind) ==
  [field |-> m.field, gap |-> Gap(i, from, pos), before |-> SubSeq(text, from, m.start - 1),
   kind |-> kind, suffix |-> IF kind = "until" THEN SubSeq(text, m.end, to) ELSE << >>,
   pos |-> IF kind = "until" THEN to + 1 ELSE m.end]
Ending(i, text, m, from, pos, eol, to) == Shown(i, text, m, from, pos, to, Kind(m, eol, to))

LineStart(text, m) == Max({0} \cup {k \in 1..(m.start - 1) : text[k] = Line}) + 1
LineEnd(text, m) == Min({k \in m.end..Len(text) : text[k] = Line} \cup {Len(text) + 1})
Limit(list, i, eol) == IF i < Len(list) THEN Min({eol, list[i + 1].start}) ELSE eol
OnLine(i, text, list, pos, eol) ==
  Ending(i, text, list[i], WordsFrom(text, Max({pos, LineStart(text, list[i])}), list[i].start), pos, eol,
         WordsTo(text, list[i].end, Limit(list, i, eol)))

\* The pieces of a mail, each read after the one before it.
InOrder(text, list) ==
  LET Read[i \in 0..Len(list)] ==
        IF i = 0 THEN << >>
        ELSE Append(Read[i - 1], OnLine(i, text, list, IF i = 1 THEN 1 ELSE Last(Read[i - 1]).pos,
                                        LineEnd(text, list[i])))
  IN Read[Len(list)]
pieces(text, marks) == InOrder(text, orderedMarks(marks))

\* A step of the expression: what comes before a piece, its value, what ends it.
Value(field, kind) == IF kind = "shape" THEN IF field = "direction" THEN "LETTERS" ELSE "NUM" ELSE kind
Before(field, lead, lits) == [kind |-> "before", field |-> field, alts |-> {lead \o lits}]
valueSteps(p) ==
  <<[kind |-> "value", field |-> p.field, alts |-> {<<Value(p.field, p.kind)>>}]>>
  \o (IF p.kind = "until" THEN <<[kind |-> "end", field |-> p.field, alts |-> {literal(p.suffix)}]>> ELSE << >>)
GAP(p) == IF p.gap THEN <<"ANY">> ELSE << >>
render(list) == FlattenSeq([i \in DOMAIN list |->
                  <<Before(list[i].field, GAP(list[i]), literal(list[i].before))>> \o valueSteps(list[i])])

Words(s) == SelectSeq(s, LAMBDA t : ~Blank(t))
\* The words all the mails have just before a piece, counted back from it.
Common(same) ==
  LET back == [k \in DOMAIN same |-> Reverse(literal(Words(same[k].before)))]
      n == Max({k \in 0..Min({Len(back[j]) : j \in DOMAIN back}) :
                  \A j \in DOMAIN back : SubSeq(back[j], 1, k) = SubSeq(back[1], 1, k)})
  IN Reverse(SubSeq(back[1], 1, n))
Spaced(words) == FlattenSeq([k \in DOMAIN words |-> IF k = 1 THEN <<words[k]>> ELSE <<"SPACES", words[k]>>])

MergedBefore(i, same) ==
  IF Cardinality({literal(same[k].before) : k \in DOMAIN same}) = 1
  THEN Before(same[1].field, GAP([gap |-> \E k \in DOMAIN same : same[k].gap]), literal(same[1].before))
  ELSE LET ends == {same[k].before # << >> /\ Blank(Last(same[k].before)) : k \in DOMAIN same}
           tail == IF ends = {TRUE} THEN <<"SPACES">> ELSE IF ends = {FALSE} THEN << >> ELSE <<"SPACES?">>
       IN Before(same[1].field, IF i > 1 THEN <<"ANY", "SPACE">> ELSE <<"START">>, Spaced(Common(same)) \o tail)
MergedValue(same) ==
  IF Cardinality({<<same[k].kind, literal(same[k].suffix)>> : k \in DOMAIN same}) = 1 THEN valueSteps(same[1])
  ELSE <<[kind |-> "value", field |-> same[1].field, alts |-> {<<"until">>}],
         [kind |-> "end", field |-> same[1].field,
          alts |-> {CASE same[k].kind = "line" -> <<"EOL">> [] same[k].kind = "word" -> <<"SPACE">>
                      [] OTHER -> literal(same[k].suffix) : k \in DOMAIN same}]>>

sampleFields(s) == {m.field : m \in s.marks}

\* The i-th piece of each mail.
Same(all, i) == [k \in DOMAIN all |-> all[k][i]]

\* Whether mails' pieces make no one pattern: they come in another order, or nothing common
\* comes before one of them.
Apart(all) ==
  \/ Cardinality({[i \in DOMAIN all[k] |-> all[k][i].field] : k \in DOMAIN all}) > 1
  \/ \E i \in DOMAIN all[1] : /\ Cardinality({literal(all[k][i].before) : k \in DOMAIN all}) > 1
                            /\ Common(Same(all, i)) = << >>

PatternOf(first, joined, all, alone) ==
  [problem |-> Len(joined) > 1 /\ alone,
   joined |-> IF alone THEN <<first>> ELSE joined,
   steps |-> IF alone THEN render(all[1])
             ELSE FlattenSeq([i \in DOMAIN all[1] |->
                    <<MergedBefore(i, Same(all, i))>> \o MergedValue(Same(all, i))])]
Merged(first, joined, all) == PatternOf(first, joined, all, Len(joined) = 1 \/ Apart(all))
OfAlike(first, joined) ==
  Merged(first, joined, [k \in DOMAIN joined |-> pieces(Mails[joined[k].mail], joined[k].marks)])

\* One pattern from the mails marked as the first one is; the first one's alone while there
\* is no other, or when they cannot be merged.
buildPattern(ss) == OfAlike(ss[1], SelectSeq(ss, LAMBDA s : sampleFields(s) = sampleFields(ss[1])))

\* What an expression's atom reads: the tokens from p up to q (RE2, and toJS here).
toJS(atom, text, p, q) ==
  LET span == {text[k] : k \in p..(q - 1)}
  IN CASE atom = "ANY" -> TRUE
       [] atom = "SPACES" -> q > p /\ span \subseteq {Space, Line}
       [] atom = "SPACES?" -> span \subseteq {Space, Line}
       [] atom = "SPACE" -> q = p + 1 /\ Blank(text[p])
       [] atom = "START" -> (q = p /\ p = 1) \/ (q = p + 1 /\ Blank(text[p]))
       [] atom = "EOL" -> (q = p /\ p = Len(text) + 1) \/ (q = p + 1 /\ text[p] = Line)
       [] atom \in {"line", "until"} -> q > p /\ Line \notin span
       [] atom = "word" -> q > p /\ span \cap {Space, Line} = {}
       [] atom = "NUM" -> q = p + 1 /\ text[p] \in Numbers
       [] atom = "LETTERS" -> q = p + 1 /\ text[p] \notin Numbers \cup {Space, Line}
       [] OTHER -> q = p + 1 /\ text[p] = atom
Past(atom, text, ps) == {q \in 1..(Len(text) + 1) : \E p \in ps : p <= q /\ toJS(atom, text, p, q)}
PastStep(step, text, ps) == UNION {FoldLeft(LAMBDA at, atom : Past(atom, text, at), ps, alt) : alt \in step.alts}
Reads(list, text) == FoldLeft(LAMBDA at, step : PastStep(step, text, at), 1..(Len(text) + 1), list) # {}
\* The same, taking for each field the piece marked.
ReadsAs(list, text, marks) ==
  FoldLeft(LAMBDA at, step :
             IF step.kind # "value" THEN PastStep(step, text, at)
             ELSE UNION {PastStep(step, text, at \cap {m.start}) \cap {m.end} : m \in {x \in marks : x.field = step.field}},
           1..(Len(text) + 1), list) # {}

\* The first step a mail does not match, 0 when it matches them all.
whereItStops(list, text) ==
  LET stops == {k \in DOMAIN list : ~Reads(SubSeq(list, 1, k), text)} IN IF stops = {} THEN 0 ELSE Min(stops)
=============================================================================
