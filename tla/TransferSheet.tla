---------------------------- MODULE TransferSheet ----------------------------
(***************************************************************************)
(* The sheet of a transfer (web: TransferForm.tsx): it stays mounted, opens *)
(* on a new transfer or on one it fetches first, puts that into its fields  *)
(* while it renders, and saves the whole transfer.                          *)
(*                                                                         *)
(* The contents of a transfer are a number, new with every write.           *)
(***************************************************************************)
EXTENDS Integers, FiniteSets

CONSTANTS
  Transfers,    \* the wallet's transfers
  Templates,    \* the transfer templates, and what they fill in
  MaxWrites,    \* bound: contents written
  None

VARIABLES
  kept,      \* transfer -> its contents on the server
  opened,    \* what the sheet is open on: a transfer, "new", or None
  query,     \* the cached fetch: [of, data, asked], or None
  seeded,    \* seededFor: what the fields were filled for last
  fields,    \* [of, contents, typed, ok]: whose values the fields hold; ok: not invalid
  saving,    \* the save in flight: [on, of, contents], or None
  writes,
  since      \* what the server held of it since it was opened (only a property reads it)

sheetVars == <<kept, opened, query, seeded, fields, saving, writes, since>>

\* The numbers contents have: what a template fills in, and what is written.
Contents == -9 .. MaxWrites

\* What the theorems ask of the constants.
SheetConstants == /\ "new" \notin Transfers /\ None \notin Transfers \cup {"new"} /\ None \notin Contents
                  /\ MaxWrites \in Nat /\ Templates \subseteq Contents

Blank == [of |-> "new", contents |-> 0, typed |-> FALSE, ok |-> FALSE]

Init == /\ kept = [x \in Transfers |-> 0]
        /\ opened = None /\ query = None /\ seeded = None
        /\ fields = Blank
        /\ saving = None /\ writes = 0 /\ since = {}

\* What the fields should be filled for: nothing while the transfer is on its way.
SeedKey(o, q) == IF o \in Transfers /\ (q = None \/ q.data = None) THEN None ELSE o

\* The render that follows a change of what is open or fetched.
Render(o, q) ==
  LET key == SeedKey(o, q)
  IN  /\ opened' = o /\ query' = q /\ seeded' = key
      /\ fields' = IF key = seeded \/ key = None THEN fields
                   ELSE IF key = "new" THEN Blank
                   ELSE [of |-> key, contents |-> q.data, typed |-> FALSE, ok |-> TRUE]

Fetching(x) == [of |-> x, data |-> None, asked |-> None]

OpenNew == /\ opened = None
           /\ Render("new", query)
           /\ since' = {}
           /\ UNCHANGED <<kept, saving, writes>>

OpenEdit(x) == /\ opened = None
               /\ Render(x, IF query # None /\ query.of = x THEN query ELSE Fetching(x))
               /\ since' = {kept[x]}
               /\ UNCHANGED <<kept, saving, writes>>

\* The server reads, and its answer comes; a focused window fetches again.
ServerReads == /\ query # None /\ query.asked = None
               /\ query' = [query EXCEPT !.asked = kept[query.of]]
               /\ UNCHANGED <<kept, opened, seeded, fields, saving, writes, since>>
Loaded == /\ query # None /\ query.asked # None
          /\ Render(opened, [query EXCEPT !.data = query.asked, !.asked = None])
          /\ UNCHANGED <<kept, saving, writes, since>>

\* (Mutant: the fetched transfer is kept for the next opening.)
DroppedNever == query

\* What closing leaves of the fetched transfer: nothing, nor of its answer.
Dropped == None

close == Render(None, Dropped)

Cancel == /\ opened # None
          /\ close
          /\ UNCHANGED <<kept, saving, writes, since>>

\* The reader types: the fields stay those of the transfer they were filled with.
Type(ok) == /\ opened # None /\ writes < MaxWrites
            /\ writes' = writes + 1
            /\ fields' = [fields EXCEPT !.contents = writes', !.typed = TRUE, !.ok = ok]
            /\ UNCHANGED <<kept, opened, query, seeded, saving, since>>

\* A template fills in a new transfer; the date stays.
applyTemplate(tpl) == /\ opened = "new"
                      /\ fields' = [fields EXCEPT !.contents = tpl, !.typed = TRUE, !.ok = TRUE]
                      /\ UNCHANGED <<kept, opened, query, seeded, saving, writes, since>>

\* The button asks that the fields be valid, and waits for the save before it.
Save == /\ opened # None /\ fields.ok /\ saving = None
        /\ saving' = [on |-> opened, of |-> fields.of, contents |-> fields.contents]
        /\ UNCHANGED <<kept, opened, query, seeded, fields, writes, since>>

\* The server takes the contents of a transfer; a new one is of no concern here.
Put(x, contents) == /\ kept' = IF x \in Transfers THEN [kept EXCEPT ![x] = contents] ELSE kept
                    /\ since' = IF x = opened THEN since \cup {contents} ELSE since

\* The answer closes the sheet, whatever it is open on by then.
Saved == /\ saving # None
         /\ Put(saving.on, saving.contents)
         /\ close
         /\ saving' = None
         /\ UNCHANGED writes

\* A refusal, or an answer that never comes: the sheet stays as it is.
NotSaved == /\ saving # None
            /\ saving' = None
            /\ UNCHANGED <<kept, since>> \/ Put(saving.on, saving.contents)
            /\ UNCHANGED <<opened, query, seeded, fields, writes>>

\* The register, another device or a bank sync changes the transfer.
Elsewhere(x) == /\ writes < MaxWrites
                /\ writes' = writes + 1
                /\ Put(x, writes')
                /\ UNCHANGED <<opened, query, seeded, fields, saving>>

Sheet == \/ Cancel \/ Save
         \/ \E ok \in BOOLEAN : Type(ok)
         \/ \E tpl \in Templates : applyTemplate(tpl)

Next == \/ OpenNew \/ Sheet \/ ServerReads \/ Loaded \/ Saved \/ NotSaved
        \/ \E x \in Transfers : OpenEdit(x) \/ Elsewhere(x)

Spec == Init /\ [][Next]_sheetVars

----------------------------------------------------------------------------

\* Types: a seeded sheet is open on what it was seeded for.
TypeOK == /\ kept \in [Transfers -> Contents]
          /\ opened \in Transfers \cup {"new", None} /\ seeded \in {None, opened}
          /\ fields.contents \in Contents
          /\ query # None => query.of \in Transfers

\* The comment of close (TransferForm.tsx:52): "the next opening waits for a fresh
\* copy". Once the fields are filled for a transfer they hold what the server had
\* of it since this opening, or what was typed since: never an earlier copy,
\* whatever fetches and saves were on their way when the sheet last closed.
SeededAfresh == seeded \in Transfers /\ ~fields.typed => fields.of = seeded /\ fields.contents \in since

=============================================================================
