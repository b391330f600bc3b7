--------------------------- MODULE PatternEditor ---------------------------
(***************************************************************************)
(* The pattern sheet (web: pages/mail/PatternSheet.tsx,                     *)
(* PatternTestMails.tsx): pieces are chosen in real mails, the pattern they *)
(* make is tried on the latest mails, and saved. It may be written by hand. *)
(***************************************************************************)
EXTENDS PatternBuilder

CONSTANTS
  Accounts,
  Stored,       \* the patterns kept already: [samples, manual, direction]
  Reach,        \* bound: tokens in a piece
  MaxSteps,     \* bound: what the reader does in the sheet
  None

VARIABLES
  samples,      \* the mails marked, in order: [mail, marks]; the first leads
  cur, pick,    \* the mail on the screen, the piece selected in it
  manual, expr, \* the expression is written by hand; the groups it has then
  direction, inWords, dateFormat, cards, accountId,  \* the form: (un)filled, but for the first
  loads, loading,  \* the mails on their way: [mail, join]
  tried,        \* the mails the pattern last tried read, or None
  saving, stored,  \* the save on its way; the patterns kept
  own,          \* the pattern being edited, None for a new one
  steps

editorVars == <<samples, cur, pick, manual, expr, direction, inWords, dateFormat, cards, accountId,
                loads, loading, tried, saving, stored, own, steps>>

current == samples[cur]
lead == samples[1]
text == Mails[current.mail]
built == buildPattern(samples)
has(f) == f \in IF manual THEN expr ELSE sampleFields(lead)
ready == /\ accountId # None /\ has("amount")
         /\ manual \/ ~built.problem
         /\ has("date") => dateFormat
         /\ direction = "capture" => has("direction") /\ inWords
form == <<inWords, dateFormat, cards, accountId>>
mails == <<loads, loading>>
theSave == <<saving, stored, own>>
Bounded == steps < MaxSteps /\ steps' = steps + 1 /\ saving = None

Init == /\ \E m \in DOMAIN Mails : samples = <<[mail |-> m, marks |-> {}]>>
        /\ cur = 1 /\ pick = None /\ manual = FALSE /\ expr = {} /\ direction = "out"
        /\ inWords = FALSE /\ dateFormat = FALSE /\ cards = FALSE /\ accountId = None
        /\ loads = {} /\ loading = FALSE /\ tried = None /\ saving = None /\ stored = Stored
        /\ own = None /\ steps = 0

\* A selection in the mail, without the spaces around it.
onSelect ==
  /\ Bounded
  /\ \E a \in 1..Len(text), n \in 1..Reach :
       /\ a + n <= Len(text) + 1 /\ ~Blank(text[a]) /\ ~Blank(text[a + n - 1])
       /\ Line \notin {text[k] : k \in a..(a + n - 1)}
       /\ pick' = [start |-> a, end |-> a + n]
  /\ UNCHANGED <<samples, cur, manual, expr, direction, form, mails, tried, theSave>>

editCurrent(marks) == samples' = [samples EXCEPT ![cur].marks = marks]

\* One piece per field, and none overlapping another.
Others(f) == {m \in current.marks : m.field # f /\ (m.end <= pick.start \/ m.start >= pick.end)}
assign(f) ==
  /\ saving = None /\ pick # None /\ ~manual
  /\ f = "direction" => direction = "capture"
  /\ editCurrent(Others(f) \cup {[field |-> f, start |-> pick.start, end |-> pick.end]})
  /\ dateFormat' = (dateFormat \/ f = "date") /\ cards' = (cards \/ f = "card")
  /\ pick' = None
  /\ UNCHANGED <<cur, manual, expr, direction, inWords, accountId, mails, tried, theSave, steps>>
unmark ==
  /\ saving = None /\ pick # None /\ ~manual
  /\ \E m \in current.marks : /\ m.start = pick.start /\ m.end = pick.end
                              /\ editCurrent(current.marks \ {m})
  /\ pick' = None
  /\ UNCHANGED <<cur, manual, expr, direction, form, mails, tried, theSave, steps>>

\* Only a direction told by the mail has a word to mark in it.
WithoutWord(ss, d) == IF d = "capture" THEN ss
                      ELSE [k \in DOMAIN ss |-> [ss[k] EXCEPT !.marks = {m \in @ : m.field # "direction"}]]
chooseDirection(d) ==
  /\ Bounded /\ d # direction /\ direction' = d
  /\ samples' = WithoutWord(samples, d)
  /\ UNCHANGED <<cur, pick, manual, expr, form, mails, tried, theSave>>
Fill == /\ saving = None /\ UNCHANGED steps
        /\ \/ \E a \in Accounts : accountId' = a /\ a # accountId /\ UNCHANGED inWords
           \/ direction = "capture" /\ inWords' = ~inWords /\ UNCHANGED accountId
        /\ UNCHANGED <<samples, cur, pick, manual, expr, direction, dateFormat, cards, mails, tried, theSave>>

\* Another mail: it replaces the only one, or joins the examples.
loadMail(m, join) ==
  /\ Bounded
  /\ loads' = loads \cup {[mail |-> m, join |-> join]} /\ loading' = TRUE
  /\ UNCHANGED <<samples, cur, pick, manual, expr, direction, form, tried, theSave>>
Replace == \E m \in DOMAIN Mails : Len(samples) = 1 /\ m # current.mail /\ loadMail(m, FALSE)
\* A mail the pattern does not read, past its first words: "mark the same in it".
WhereItStops ==
  \E m \in DOMAIN Mails :
    /\ tried # None /\ m \notin tried /\ ready /\ ~manual /\ ~loading
    /\ \A k \in DOMAIN samples : samples[k].mail # m
    /\ whereItStops(built.steps, Mails[m]) > 1
    /\ loadMail(m, TRUE)

\* It lands on the list as it is then.
Landed(l) ==
  /\ samples' = IF l.join THEN Append(samples, [mail |-> l.mail, marks |-> {}])
                ELSE <<[mail |-> l.mail, marks |-> {}]>>
  /\ cur' = Len(samples') /\ manual' = FALSE /\ pick' = None
Loaded(l) == /\ loads' = loads \ {l} /\ loading' = FALSE
             /\ \/ Landed(l)
                \/ UNCHANGED <<samples, cur, manual, pick>>
             /\ UNCHANGED <<expr, direction, form, tried, theSave, steps>>

chooseSample == /\ Bounded /\ \E k \in DOMAIN samples : k # cur /\ cur' = k
                /\ pick' = None
                /\ UNCHANGED <<samples, manual, expr, direction, form, mails, tried, theSave>>
removeSample == /\ Bounded /\ Len(samples) > 1
                /\ samples' = RemoveAt(samples, cur)
                /\ cur' = 1 /\ pick' = None
                /\ UNCHANGED <<manual, expr, direction, form, mails, tried, theSave>>

\* By hand, and back to the pieces.
Write == /\ Bounded /\ \E g \in {{}, {"amount"}} : expr' = g
         /\ manual' = TRUE
         /\ UNCHANGED <<samples, cur, pick, direction, form, mails, tried, theSave>>
backToPicks == /\ Bounded /\ manual /\ manual' = FALSE
               /\ UNCHANGED <<samples, cur, pick, expr, direction, form, mails, tried, theSave>>

\* The pattern as it is, tried once typing pauses.
Test == /\ ready /\ saving = None
        /\ IF manual THEN tried' \in SUBSET DOMAIN Mails
           ELSE tried' = {m \in DOMAIN Mails : Reads(built.steps, Mails[m])}
        /\ tried' # tried
        /\ UNCHANGED <<samples, cur, pick, manual, expr, direction, form, mails, theSave, steps>>

\* Saved, then applied to the mails that wait: when only that fails, the sheet stays open as
\* it was, and a new pattern's next save makes another.
save == /\ saving = None /\ ready /\ Len(stored) <= Len(Stored)
        /\ saving' = [samples |-> samples, manual |-> manual, direction |-> direction]
        /\ UNCHANGED <<samples, cur, pick, manual, expr, direction, form, mails, tried, stored, own, steps>>
Kept == stored' = IF own = None THEN Append(stored, saving) ELSE [stored EXCEPT ![own] = saving]
Saved == /\ saving # None /\ saving' = None
         /\ \/ UNCHANGED <<stored, own>>
            \/ Kept /\ UNCHANGED own
            \/ Kept /\ own' = IF own = None THEN Len(stored') ELSE own   \* closed: see readEditorState
         /\ UNCHANGED <<samples, cur, pick, manual, expr, direction, form, mails, tried, steps>>

\* A pattern opened again: on the mails it was made from.
readEditorState(id) ==
  /\ Bounded /\ own' = id
  /\ samples' = stored[id].samples /\ manual' = stored[id].manual /\ direction' = stored[id].direction
  /\ cur' = 1 /\ pick' = None /\ tried' = None /\ loads' = {} /\ loading' = FALSE
  /\ UNCHANGED <<expr, form, saving, stored>>

Next == \/ onSelect \/ unmark \/ Fill \/ Replace \/ WhereItStops \/ chooseSample \/ removeSample
        \/ Write \/ backToPicks \/ Test \/ save \/ Saved
        \/ \E f \in Fields : assign(f)
        \/ \E d \in {"out", "in", "capture"} : chooseDirection(d)
        \/ \E l \in loads : Loaded(l)
        \/ \E id \in DOMAIN stored : readEditorState(id)

Spec == Init /\ [][Next]_editorVars

----------------------------------------------------------------------------

\* Types: the piece selected is in the mail on the screen, no two pieces of a mail overlap,
\* and only a direction told by the mail has a word marked.
TypeOK == /\ cur \in DOMAIN samples
          /\ pick # None => pick.end <= Len(text) + 1
          /\ \A k \in DOMAIN samples : \A m, n \in samples[k].marks :
               m # n => m.field # n.field /\ (m.end <= n.start \/ n.end <= m.start)
          /\ direction # "capture" => \A k \in DOMAIN samples : "direction" \notin sampleFields(samples[k])
          /\ own # None => own \in DOMAIN stored

\* A piece with a shape of its own looks like it.
Shaped(s) == \A m \in s.marks : m.field \notin TEXT_FIELDS =>
               /\ m.end = m.start + 1
               /\ (Mails[s.mail][m.start] \in Numbers) <=> m.field # "direction"

\* The pattern reads every mail it was made from, and can take from each the very pieces
\* marked in it ("marking the same fields in it too makes one pattern of both wordings",
\* PatternSheet.tsx:88).
ReadsItsExamples ==
  (\A k \in DOMAIN samples : Shaped(samples[k])) =>
    \A k \in DOMAIN built.joined :
      ReadsAs(built.steps, Mails[built.joined[k].mail], built.joined[k].marks)
=============================================================================
