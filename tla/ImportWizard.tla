----------------------------- MODULE ImportWizard -----------------------------
(***************************************************************************)
(* The wizard that brings a bank's file in (web: ImportWizard.tsx and      *)
(* ImportColumns.tsx): a file and an account are chosen, the columns of a  *)
(* generic file are mapped (remembered, proposed by the AI or by hand),    *)
(* the server's preview is reviewed and what is left of it committed.      *)
(* Nothing is locked while a preview or a proposal is on its way.          *)
(***************************************************************************)
EXTENDS Integers, FiniteSets, Functions

CONSTANTS
  Files,        \* file -> its number of columns
  Accounts,
  Formats,      \* "generic" among them: the one whose columns are mapped
  Fields,       \* what a column can be: "date", "amount", ...
  Remembered,   \* file -> the mapping the wallet remembers for its columns, or None
  Proposed,     \* file -> the mapping the AI reads from it
  MaxSteps,     \* bound: choices made
  None

VARIABLES
  phase, format, account,
  content,     \* the file that was read, or None
  reading,     \* the files being read
  rules,       \* are the wallet's rules to be applied?
  mapping,     \* field -> column
  previews,    \* previews in flight: [asked, to, crossed]
  proposing,   \* the file the AI is reading, or None
  rows,        \* the reviewed preview: [asked, crossed], or None
  committing,  \* the commit in flight: what was asked of the preview and the account, or None
  kept,        \* the mappings the commits remembered: [of, mapping]
  steps

wizardVars == <<phase, format, account, content, reading, rules, mapping, previews, proposing,
                rows, committing, kept, steps>>
choices == <<format, account, content, rules, mapping>>

NoMapping == << >>

Columns == UNION {1 .. Files[f] : f \in DOMAIN Files}
Mappings == {m \in UNION {[F -> Columns] : F \in SUBSET Fields} : IsInjective(m)}
Questions == [format: Formats, account: Accounts \cup {None}, content: DOMAIN Files \cup {None},
              rules: BOOLEAN, mapping: Mappings]
Previews == [asked: Questions, to: {"map", "review"}, crossed: BOOLEAN]
Reviews  == [asked: Questions, crossed: BOOLEAN]
Commits  == [asked: Questions, account: Accounts \cup {None}, crossed: BOOLEAN]

\* What the theorems ask of the constants: one column a field, remembered or proposed.
WizardConstants == /\ Remembered \in [DOMAIN Files -> Mappings \cup {None}]
                   /\ Proposed \in [DOMAIN Files -> Mappings]
                   /\ None \notin Previews \cup Reviews \cup Commits

Init == /\ phase = "source" /\ format \in Formats /\ account = None
        /\ content = None /\ reading = {} /\ rules = FALSE /\ mapping = NoMapping
        /\ previews = {} /\ proposing = None /\ rows = None /\ committing = None
        /\ kept = {} /\ steps = 0

showMapping == format = "generic"
mappingValid == "date" \in DOMAIN mapping /\ "amount" \in DOMAIN mapping

\* What a preview is asked about.
Asked(m, r) == [format |-> format, account |-> account, content |-> content, rules |-> r, mapping |-> m]

Step == steps < MaxSteps /\ steps' = steps + 1

\* A choice made while a preview or a commit is on its way is not in it; what was
\* read or proposed late is not in what is reviewed, either.
Crossed(p) == IF p = None THEN None ELSE [p EXCEPT !.crossed = TRUE]
Cross == /\ previews' = {Crossed(p) : p \in previews}
         /\ committing' = Crossed(committing)
Late == Cross /\ rows' = Crossed(rows)

----------------------------------------------------------------------------
(* The source. *)

ChooseFormat(f) == /\ format' = f /\ content' = None
                   /\ UNCHANGED <<account, reading, rules, mapping>>
ChooseAccount(a) == /\ account' = a
                    /\ UNCHANGED <<format, content, reading, rules, mapping>>

\* A picked file is read meanwhile; taking the file away empties the content.
onPickFile(f) == /\ IF f = None THEN content' = None /\ reading' = reading
                    ELSE content' = content /\ reading' = reading \cup {f}
                 /\ UNCHANGED <<format, account, rules, mapping>>

FileRead == /\ \E f \in reading : content' = f /\ reading' = reading \ {f}
            /\ Late
            /\ UNCHANGED <<phase, format, account, rules, mapping, proposing, kept, steps>>

Ask(m, r, to) == previews' = {Crossed(p) : p \in previews} \cup
                                {[asked |-> Asked(m, r), to |-> to, crossed |-> previews # {}]}

\* First pass of a generic file: only its columns are wanted.
startFromSource == /\ content # None /\ account # None /\ previews = {}
                   /\ Ask(NoMapping, rules, IF showMapping THEN "map" ELSE "review")
                   /\ UNCHANGED <<choices, reading, committing>>

Source == /\ phase = "source" /\ Step
          /\ \/ /\ \/ \E f \in Formats \ {format} : ChooseFormat(f)
                   \/ \E a \in Accounts \ {account} : ChooseAccount(a)
                   \/ \E f \in DOMAIN Files \cup {None} : onPickFile(f)
                /\ Cross
             \/ startFromSource
          /\ UNCHANGED <<phase, proposing, rows, kept>>

----------------------------------------------------------------------------
(* The answers. *)

\* The columns: the remembered mapping, or none and the AI is asked for one.
ToMap(p) == /\ phase' = "map"
            /\ mapping' = IF Remembered[p.asked.content] # None THEN Remembered[p.asked.content] ELSE NoMapping
            /\ proposing' \in IF Remembered[p.asked.content] # None THEN {proposing} ELSE {proposing, content}
            /\ UNCHANGED rows

ToReview(p) == /\ phase' = "review"
               /\ rows' = [asked |-> p.asked, crossed |-> p.crossed]
               /\ UNCHANGED <<mapping, proposing>>

Previewed == /\ \E p \in previews :
                  /\ previews' = previews \ {p}
                  /\ IF p.to = "map" THEN ToMap(p) ELSE ToReview(p)
             /\ UNCHANGED <<format, account, content, reading, rules, committing, kept, steps>>

\* Nothing goes back: a switch that asked for it stays as it was set.
PreviewFails == /\ \E p \in previews : previews' = previews \ {p}
                /\ rows' = Crossed(rows)
                /\ UNCHANGED <<phase, choices, reading, proposing, committing, kept, steps>>

\* The AI's reading is put in the columns whatever is there by now.
ProposalArrives == /\ proposing # None
                   /\ mapping' \in {mapping, Proposed[proposing]}
                   /\ proposing' = None
                   /\ Late
                   /\ UNCHANGED <<phase, format, account, content, reading, rules, kept, steps>>

----------------------------------------------------------------------------
(* The columns. *)

\* Column i is given a field, taken from any other column, or none.
pick(m, i, field) ==
  LET rest == Restrict(m, {f \in DOMAIN m : m[f] # i /\ f # field})
  IN  IF field = None THEN rest ELSE [f \in DOMAIN rest \cup {field} |-> IF f = field THEN i ELSE rest[f]]

\* (Mutant: columns mapped once are not previewed again.)
previewToReviewOnce(r) ==
  IF rows # None /\ r = rows.asked.rules
  THEN phase' = "review" /\ UNCHANGED previews
  ELSE Ask(IF showMapping THEN mapping ELSE NoMapping, r, "review") /\ UNCHANGED phase

previewToReview(r) == /\ Ask(IF showMapping THEN mapping ELSE NoMapping, r, "review")
                      /\ UNCHANGED phase

ImportColumns == \E i \in 1 .. (IF content = None THEN 0 ELSE Files[content]) :
                   \E field \in Fields \cup {None} : mapping' = pick(mapping, i, field)

Map == /\ phase = "map" /\ Step
       /\ \/ ImportColumns /\ Cross /\ UNCHANGED phase
          \/ phase' = "source" /\ Cross /\ UNCHANGED mapping
          \/ mappingValid /\ previews = {} /\ previewToReview(rules) /\ UNCHANGED <<mapping, committing>>
       /\ UNCHANGED <<format, account, content, reading, rules, proposing, rows, kept>>

----------------------------------------------------------------------------
(* The review. *)

\* The switch asks for a preview of its own at once, and shows its new position.
toggleApplyRules == /\ rules' = ~rules
                    /\ previewToReview(~rules)
                    /\ UNCHANGED committing

Commit == /\ committing = None
          /\ committing' = [asked |-> rows.asked, account |-> account, crossed |-> rows.crossed]
          /\ UNCHANGED <<phase, rules, previews>>

Back == /\ phase' = IF showMapping THEN "map" ELSE "source"
        /\ Cross
        /\ UNCHANGED rules

Review == /\ phase = "review" /\ Step
          /\ toggleApplyRules \/ Commit \/ Back
          /\ UNCHANGED <<format, account, content, reading, mapping, proposing, rows, kept>>

\* The commit's answer: the mapping that worked is remembered, as it is by then.
Committed == /\ committing # None
             /\ kept' = (IF showMapping THEN kept \cup {[of |-> committing, mapping |-> mapping]} ELSE kept)
             /\ phase' = "done"
             /\ committing' = None
             /\ UNCHANGED <<choices, reading, previews, proposing, rows, steps>>
CommitFails == /\ committing # None
               /\ committing' = None
               /\ UNCHANGED <<phase, choices, reading, previews, proposing, rows, kept, steps>>

\* "Import another": the account, the format and the rules stay.
reset == /\ phase = "done" /\ Step
         /\ phase' = "source" /\ content' = None /\ rows' = None /\ mapping' = NoMapping
         /\ Cross
         /\ UNCHANGED <<format, account, reading, rules, proposing, kept>>

Next == \/ Source \/ FileRead \/ Previewed \/ PreviewFails \/ ProposalArrives
        \/ Map \/ Review \/ Committed \/ CommitFails \/ reset

Spec == Init /\ [][Next]_wizardVars

----------------------------------------------------------------------------

\* Types: a column has one field, whoever filled the columns in.
TypeOK == /\ phase \in {"source", "map", "review", "done"} /\ format \in Formats
          /\ account \in Accounts \cup {None} /\ content \in DOMAIN Files \cup {None}
          /\ phase = "review" => rows # None
          /\ DOMAIN mapping \subseteq Fields /\ IsInjective(mapping)

\* What is reviewed, and committed to the account, is a preview of what is
\* chosen now: the file, its format, the account, the rules and the columns; and
\* what is remembered are the columns it was read with - unless something crossed
\* it on its way: a choice, a second preview, a failed one, a late file or proposal.
ReviewIsOfWhatIsChosen ==
  /\ phase = "review" /\ ~rows.crossed /\ previews = {} =>
       rows.asked = Asked(IF showMapping THEN mapping ELSE NoMapping, rules)
  /\ committing # None /\ ~committing.crossed => committing.account = committing.asked.account
  /\ \A k \in kept : ~k.of.crossed /\ k.of.asked.format = "generic" => k.mapping = k.of.asked.mapping
=============================================================================
