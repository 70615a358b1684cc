---------------------------- MODULE SearchVectors ----------------------------
(***************************************************************************)
(* The search vector beside every anime and media, and the text it was       *)
(* encoded from (services/vector_embedding_service.py and its callers,       *)
(* seeders/embedding_backfiller.py, seeders/anime_title_backfiller.py).      *)
(*                                                                         *)
(* A text has two parts that are written by column, the names and the        *)
(* description; the vector is of both.  Start-up repairs run alone, the      *)
(* re-embedding of the whole catalogue beside everything else.  The          *)
(* documents are of one kind, anime or media: each kind has tables of its     *)
(* own, and its own turn in the re-embedding.                                *)
(***************************************************************************)
EXTENDS Integers, FiniteSets

CONSTANTS
    Documents,      \* anime and media
    Suffixed,       \* those an old version saved with a season suffix in their names
    Bare,           \* those a migration to a new model has left without a vector
    Unborn,         \* those not saved yet
    Writers,        \* the transactions that can change documents at once
    BatchSize,      \* _REEMBED_COMMIT_BATCH
    MaxChanges      \* bound: how often documents are changed

VARIABLES
    text,           \* document -> its text, Nil before it is saved, Gone after
    vector,         \* document -> the text its search row was encoded from, or Nil
    txn,            \* what each writer has read and written
    changes,        \* how many changes have begun
    crossed,        \* the documents of which two changes have overlapped
    pass,           \* the pass over the catalogue that is under way
    todo,           \* the documents it has still to do
    rows,           \* the texts it has read
    batch           \* what it has written and not committed: document -> <<text, vector>>

vvars == <<text, vector, txn, changes, crossed, pass, todo, rows, batch>>

Nil == [names |-> 0, description |-> 0]
Gone == [names |-> -1, description |-> -1]
NoTxn == [pc |-> "idle", doc |-> CHOOSE d \in Documents : TRUE, old |-> Nil, new |-> Nil]
Saved == {d \in Documents : text[d] \notin {Nil, Gone}}
Stripped(t) == [t EXCEPT !.names = @ + 1]

Writing(d) == {w \in Writers : txn[w].pc # "idle" /\ txn[w].doc = d}
Held(d) == d \in DOMAIN batch \/ \E w \in Writing(d) : txn[w].pc = "replaced"
Crossing(d) == Writing(d) # {} \/ (pass = "reembed" /\ (d \in todo \/ d \in DOMAIN batch))

-----------------------------------------------------------------------------
(* A save, and a change of a document: by a sweep's diff or by reclassify_anime *)

Save(d) ==
    /\ pass \in {"serving", "reembed"} /\ text[d] = Nil /\ d \in Unborn /\ changes < MaxChanges
    /\ text' = [text EXCEPT ![d] = [names |-> 1, description |-> 1]]
    /\ vector' = [vector EXCEPT ![d] = [names |-> 1, description |-> 1]]
    /\ changes' = changes + 1
    /\ UNCHANGED <<txn, crossed, pass, todo, rows, batch>>

\* One part of the text is to change; the whole new text goes to the encoder.
Change(w, d, part) ==
    /\ pass \in {"serving", "reembed"} /\ txn[w].pc = "idle" /\ d \in Saved
    /\ changes < MaxChanges /\ changes' = changes + 1
    /\ txn' = [txn EXCEPT ![w] = [pc |-> "encode", doc |-> d, old |-> text[d],
                                  new |-> [text[d] EXCEPT ![part] = changes + 2]]]
    /\ crossed' = IF Crossing(d) THEN crossed \cup {d} ELSE crossed
    /\ UNCHANGED <<text, vector, pass, todo, rows, batch>>

Move(w, pc) == txn' = [txn EXCEPT ![w].pc = pc]
Quit(w) == txn' = [txn EXCEPT ![w] = NoTxn]

\* The encoder runs first; a failure there ends the transaction with nothing written.
Encode(w) ==
    /\ txn[w].pc = "encode"
    /\ Move(w, "replace") \/ Quit(w)
    /\ UNCHANGED <<text, vector, changes, crossed, pass, todo, rows, batch>>

\* DELETE and INSERT of the search row.  Who has waited for another's finds, once that
\* one has committed, nothing to delete and its key taken.
Replace(w) ==
    /\ \/ txn[w].pc = "replace" /\ Held(txn[w].doc) /\ Move(w, "waiting")
       \/ txn[w].pc = "replace" /\ ~Held(txn[w].doc) /\ Move(w, "replaced")
       \/ txn[w].pc = "waiting" /\ ~Held(txn[w].doc) /\ (Move(w, "replaced") \/ Quit(w))
    /\ UNCHANGED <<text, vector, changes, crossed, pass, todo, rows, batch>>

\* Only the columns that differ from what was read are written.
Commit(w) ==
    LET x == txn[w]
    IN  /\ x.pc = "replaced" /\ Quit(w)
        /\ IF x.doc \notin Saved THEN UNCHANGED <<text, vector>>
           ELSE /\ text' = [text EXCEPT ![x.doc] =
                      [p \in DOMAIN Nil |-> IF x.new[p] # x.old[p] THEN x.new[p] ELSE @[p]]]
                /\ vector' = [vector EXCEPT ![x.doc] = x.new]
        /\ UNCHANGED <<changes, crossed, pass, todo, rows, batch>>

Delete(d) ==
    /\ pass \in {"serving", "reembed"} /\ d \in Saved /\ ~Held(d) /\ changes < MaxChanges
    /\ text' = [text EXCEPT ![d] = Gone] /\ vector' = [vector EXCEPT ![d] = Nil]
    /\ changes' = changes + 1
    /\ UNCHANGED <<txn, crossed, pass, todo, rows, batch>>

-----------------------------------------------------------------------------
(* The passes over the catalogue, each in a session that reads all rows first *)

Start ==
    /\ pass = "down" /\ pass' = "strip"
    /\ todo' = {d \in Saved : d \in Suffixed /\ text[d].names = 1} /\ rows' = text
    /\ UNCHANGED <<text, vector, txn, changes, crossed, batch>>

Does(p, d) == pass = p /\ d \in todo /\ todo' = todo \ {d}
Write(d, t, v) == batch' = [x \in DOMAIN batch \cup {d} |-> IF x = d THEN <<t, v>> ELSE batch[x]]
PassUnchanged == UNCHANGED <<text, vector, txn, changes, crossed, pass, rows>>

\* Mutant of StripTitle: the names are set before the vector is made.
StripTitleFirst(d) ==
    /\ Does("strip", d) /\ PassUnchanged
    /\ \/ Write(d, Stripped(rows[d]), Stripped(rows[d]))
       \/ Write(d, Stripped(rows[d]), vector[d])

\* The vector of the stripped names is made before they are set: an encoder that fails
\* leaves both as they were, and the next document is taken.
StripTitle(d) ==
    /\ Does("strip", d) /\ PassUnchanged
    /\ Write(d, Stripped(rows[d]), Stripped(rows[d])) \/ UNCHANGED batch

FillVector(d) ==
    /\ Does("fill", d) /\ PassUnchanged
    /\ Write(d, rows[d], rows[d]) \/ UNCHANGED batch

Flushed ==
    /\ text' = [d \in Documents |-> IF d \in DOMAIN batch /\ pass = "strip" THEN batch[d][1] ELSE text[d]]
    /\ vector' = [d \in Documents |-> IF d \in DOMAIN batch THEN batch[d][2] ELSE vector[d]]
    /\ batch' = <<>>

\* Start-up commits each pass as a whole.
EndPass ==
    /\ pass \in {"strip", "fill"} /\ todo = {} /\ Flushed
    /\ pass' = IF pass = "strip" THEN "fill" ELSE "serving"
    /\ todo' = IF pass = "strip" THEN {d \in Saved : vector'[d] = Nil} ELSE {}
    /\ rows' = text'
    /\ UNCHANGED <<txn, changes, crossed>>

\* EMBEDDING_REEMBED_ON_STARTUP: every row is read at once ...
StartReembed ==
    /\ pass = "serving" /\ pass' = "reembed"
    /\ todo' = Saved /\ rows' = text
    /\ crossed' = crossed \cup {d \in Documents : Writing(d) # {}}
    /\ UNCHANGED <<text, vector, txn, changes, batch>>

\* Mutant of Reembed: the search row is deleted before the encoder runs.
ReembedDeletesFirst(d) ==
    /\ pass = "reembed" /\ d \in todo /\ Cardinality(DOMAIN batch) < BatchSize /\ d \in Saved
    /\ todo' = todo \ {d} /\ PassUnchanged
    /\ Write(d, rows[d], rows[d]) \/ Write(d, rows[d], Nil)

\* ... and encoded in turn, from what was read then.
Reembed(d) ==
    /\ pass = "reembed" /\ d \in todo /\ Cardinality(DOMAIN batch) < BatchSize
    /\ d \in Saved /\ \A w \in Writing(d) : txn[w].pc # "replaced"
    /\ todo' = todo \ {d} /\ Write(d, rows[d], rows[d])
    /\ PassUnchanged

CommitBatch ==
    /\ pass = "reembed" /\ (Cardinality(DOMAIN batch) = BatchSize \/ todo = {}) /\ Flushed
    /\ IF todo = {} THEN pass' = "serving" /\ rows' = [d \in Documents |-> Nil] ELSE UNCHANGED <<pass, rows>>
    /\ UNCHANGED <<txn, changes, crossed, todo>>

\* An encoder that fails, a key that is taken, a document that has gone: the pass is over,
\* what it had committed stays.
ReembedFails ==
    /\ pass = "reembed" /\ pass' = "serving"
    /\ todo' = {} /\ rows' = [d \in Documents |-> Nil] /\ batch' = <<>>
    /\ UNCHANGED <<text, vector, txn, changes, crossed>>

Crash ==
    /\ pass # "down" /\ pass' = "down"
    /\ todo' = {} /\ rows' = [d \in Documents |-> Nil] /\ batch' = <<>>
    /\ txn' = [w \in Writers |-> NoTxn]
    /\ UNCHANGED <<text, vector, changes, crossed>>

-----------------------------------------------------------------------------
Init ==
    /\ text = [d \in Documents |-> IF d \in Unborn THEN Nil ELSE [names |-> 1, description |-> 1]]
    /\ vector = [d \in Documents |-> IF d \in Bare THEN Nil ELSE text[d]]
    /\ txn = [w \in Writers |-> NoTxn]
    /\ changes = 0 /\ crossed = {}
    /\ pass = "down" /\ todo = {} /\ rows = [d \in Documents |-> Nil] /\ batch = <<>>

Next ==
    \/ \E d \in Documents :
         \/ Save(d) \/ Delete(d)
         \/ StripTitle(d) \/ FillVector(d) \/ Reembed(d)
         \/ \E w \in Writers, part \in DOMAIN Nil : Change(w, d, part)
    \/ \E w \in Writers : Encode(w) \/ Replace(w) \/ Commit(w)
    \/ Start \/ EndPass \/ StartReembed \/ CommitBatch \/ ReembedFails \/ Crash

Spec == Init /\ [][Next]_vvars

-----------------------------------------------------------------------------
Text == [DOMAIN Nil -> Int]

VectorsTypeOK ==
    /\ text \in [Documents -> Text] /\ vector \in [Documents -> Text] /\ rows \in [Documents -> Text]
    /\ txn \in [Writers -> [pc : {"idle", "encode", "replace", "waiting", "replaced"},
                            doc : Documents, old : Text, new : Text]]
    /\ changes \in Nat /\ crossed \subseteq Documents
    /\ pass \in {"down", "strip", "fill", "serving", "reembed"} /\ todo \subseteq Documents
    /\ DOMAIN batch \subseteq Documents /\ batch \in [DOMAIN batch -> Text \X Text]

\* What the code runs with: there is a document, and who has no vector has a text.
Configured == MaxChanges \in Nat /\ BatchSize \in Nat /\ Documents # {} /\ Bare \cap Unborn = {}

\* Whatever changes a document or its vector leaves it with a vector, and with that of
\* its own text unless two changes of it have overlapped (encode first, then replace).
VectorsFollow == [][\A d \in Documents :
    (text'[d] # text[d] \/ vector'[d] # vector[d]) /\ text'[d] # Gone =>
        /\ vector'[d] # Nil
        /\ d \notin crossed' => vector'[d] = text'[d]]_<<text, vector, crossed>>
=============================================================================
