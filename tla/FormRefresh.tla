------------------------------ MODULE FormRefresh ------------------------------
(* The queue that redraws the PDF of a financial form once the typing stops
   (services/drafted_forms.py).  A save commits the form and then, in another
   transaction, puts the form's row at the back of the queue; a submit files its
   document at once and drops the row in its own transaction; the scheduler draws
   what is due, commits the document and then drops the row, by its id.

   A text is the number of the request that typed it: a form and the figures of
   its document are compared by these numbers.  What the PDF shows, who is named
   on it and the clock are left out: only the order of the deadlines is kept.   *)
EXTENDS Naturals, FiniteSets

CONSTANTS
    Forms,        \* the forms of all the files: pairs of a profile and a kind
    Drainers,     \* the processes that run job_form_pdf_refresh
    Requests,     \* the requests that save and submit
    NoForm, NoFile,
    Limit,        \* REFRESH_DRAIN_LIMIT
    MaxEdits,     \* bound: texts ever typed
    MaxFaults     \* bound: crashes of a drain, and deferrals that fail

ASSUME RefreshAssumption ==
    /\ NoForm \notin Forms
    /\ Drainers \cap Requests = {}
    /\ NoFile \notin Drainers \cup Requests
    /\ Limit \in Nat \ {0}
    /\ MaxEdits \in Nat
    /\ MaxFaults \in Nat

VARIABLES
    edits,    \* how many texts have been typed
    body,     \* the text of each form, as committed
    row,      \* the form's row in form_pdf_refresh_queue
    ahead,    \* <<f, g>>: the row of f is due before that of g
    figures,  \* per form and actor: the key_facts of the document that actor created
    current,  \* the newest document of the form, the one a refresh finds
    slot,     \* the status of the checklist row
    job,      \* what each drain and each request is doing
    todo,     \* the rows a drain has read and not come to yet
    behind,   \* history: the text whose redraw was given up
    faults

vars == <<edits, body, row, ahead, figures, current, slot, job, todo, behind, faults>>

Actors == Drainers \cup Requests
Texts  == 0 .. MaxEdits      \* 0: nothing typed

\* asked: history, the text of the form when the row was last pushed.
Rows  == [at: {"none", "waiting", "due"}, id: Texts, asked: Texts]
NoRow == [at |-> "none", id |-> 0, asked |-> 0]

\* An actor draws text into the document of file, or creates its own if NoFile.
Jobs == [pc: {"idle", "saved", "load", "find", "file", "drop"},
         form: Forms \cup {NoForm}, text: Texts, file: Actors \cup {NoFile}, id: Texts]
At(pc, f, text, id) == [pc |-> pc, form |-> f, text |-> text, file |-> NoFile, id |-> id]
Idle == At("idle", NoForm, 0, 0)

TypeOK ==
    /\ edits \in Texts
    /\ body \in [Forms -> Texts]
    /\ row \in [Forms -> Rows]
    /\ ahead \subseteq Forms \X Forms
    /\ figures \in [Forms -> [Actors -> Texts]]
    /\ current \in [Forms -> Actors \cup {NoFile}]
    /\ slot \in [Forms -> {"requested", "uploaded"}]
    /\ job \in [Actors -> Jobs]
    /\ todo \in [Drainers -> SUBSET (Forms \X Texts)]
    /\ behind \in [Forms -> Texts]
    /\ faults \in 0 .. MaxFaults

\* The forms have their statements and checklist rows, and nothing was typed.
Init ==
    /\ edits = 0
    /\ body = [f \in Forms |-> 0]
    /\ row = [f \in Forms |-> NoRow]
    /\ ahead = {}
    /\ figures = [f \in Forms |-> [a \in Actors |-> 0]]
    /\ current = [f \in Forms |-> NoFile]
    /\ slot = [f \in Forms |-> "requested"]
    /\ job = [a \in Actors |-> Idle]
    /\ todo = [d \in Drainers |-> {}]
    /\ behind = [f \in Forms |-> 0]
    /\ faults = 0

-----------------------------------------------------------------------------
(* The queue *)

Queued == {f \in Forms : row[f].at # "none"}
Due    == {f \in Forms : row[f].at = "due"}

\* The order of the other rows, and the one in which f comes last.
Without(f) == {p \in ahead : f \notin {p[1], p[2]}}
ToBack(f)  == Without(f) \cup {<<g, f>> : g \in Queued \ {f}}

\* What is due now, ORDER BY due_at LIMIT.
Picked == {f \in Due : Cardinality({g \in Due : <<g, f>> \in ahead}) < Limit}

\* The deadline of f passes, after those before it.
Ripen(f) ==
    /\ row[f].at = "waiting"
    /\ \A g \in Queued : <<g, f>> \in ahead => row[g].at = "due"
    /\ row' = [row EXCEPT ![f] = [row[f] EXCEPT !.at = "due"]]
    /\ UNCHANGED <<edits, body, ahead, figures, current, slot, job, todo, behind, faults>>

\* Mutant of Hit: the row is dropped by its profile and kind.
Hit_Form(f, id) == row[f].at # "none"

\* A statement WHERE id finds the row a drain has read, pushed or not.
Hit(f, id) == row[f].at # "none" /\ row[f].id = id

-----------------------------------------------------------------------------
(* A document *)

\* The figures that readers of the form's document see.
Filed(f) == IF current[f] = NoFile THEN 0 ELSE figures[f][current[f]]

\* a commits its text as the figures of the document it found, or of a new one.
\* Two that found none create two, and the one whose transaction began later is
\* the newest.  Readers that see less than before, or than a wrote, are behind
\* saved, the text of the form.
File(a, saved) ==
    LET f == job[a].form
        k == IF job[a].file = NoFile THEN a ELSE job[a].file
        newest == IF job[a].file = NoFile THEN {a, current[f]} \ {NoFile} ELSE {current[f]}
    IN /\ figures' = [figures EXCEPT ![f][k] = job[a].text]
       /\ \E c \in newest :
            LET seen == IF c = k THEN job[a].text ELSE figures[f][c] IN
            /\ current' = [current EXCEPT ![f] = c]
            /\ behind' = IF seen < job[a].text \/ seen < Filed(f)
                         THEN [behind EXCEPT ![f] = saved] ELSE behind

-----------------------------------------------------------------------------
(* Requests *)

\* A submit holds the lock of the statement until it ends.
Submitting(f) == \E p \in Requests : job[p].form = f /\ job[p].pc \in {"find", "file"}

Type(p, f, pc) ==
    /\ job[p].pc = "idle"
    /\ ~Submitting(f)
    /\ edits < MaxEdits
    /\ edits' = edits + 1
    /\ job' = [job EXCEPT ![p] = At(pc, f, edits + 1, 0)]
    /\ UNCHANGED <<row, ahead, figures, current, slot, todo, behind, faults>>

\* A save is committed before the queue is asked for anything.
Save(p, f) ==
    /\ Type(p, f, "saved")
    /\ body' = [body EXCEPT ![f] = edits + 1]

\* The upsert: a new row, or the deadline of the one there is pushed out.
Enqueue(p) ==
    LET f == job[p].form IN
    /\ job[p].pc = "saved"
    /\ row' = [row EXCEPT ![f] = [at |-> "waiting", asked |-> body[f],
                                  id |-> IF f \in Queued THEN row[f].id ELSE job[p].text]]
    /\ ahead' = ToBack(f)
    /\ job' = [job EXCEPT ![p] = Idle]
    /\ UNCHANGED <<edits, body, figures, current, slot, todo, behind, faults>>

\* The upsert fails, or the process dies first: the save stands.
EnqueueFails(p) ==
    /\ job[p].pc = "saved"
    /\ behind' = IF job[p].text = body[job[p].form]
                 THEN [behind EXCEPT ![job[p].form] = job[p].text] ELSE behind
    /\ job' = [job EXCEPT ![p] = Idle]
    /\ UNCHANGED <<edits, body, row, ahead, figures, current, slot, todo, faults>>

\* A submit writes the form, uncommitted.
Submit(p, f) ==
    /\ Type(p, f, "find")
    /\ UNCHANGED body

\* The look-up of the form's document, by a submit or by a drain.
Find(a) ==
    /\ job[a].pc = "find"
    /\ job' = [job EXCEPT ![a] = [job[a] EXCEPT !.pc = "file", !.file = current[job[a].form]]]
    /\ UNCHANGED <<edits, body, row, ahead, figures, current, slot, todo, behind, faults>>

\* Mutant of Satisfied: the checklist row takes the statement's status.
Satisfied_Submitted(f) == [slot EXCEPT ![f] = "submitted"]

\* Only a submit satisfies the checklist row.
Satisfied(f) == [slot EXCEPT ![f] = "uploaded"]

\* The form, its document, the checklist row and the queue in one commit.
CommitSubmit(p) ==
    LET f == job[p].form IN
    /\ p \in Requests
    /\ job[p].pc = "file"
    /\ body' = [body EXCEPT ![f] = job[p].text]
    /\ File(p, job[p].text)
    /\ slot' = Satisfied(f)
    /\ row' = [row EXCEPT ![f] = NoRow]
    /\ ahead' = Without(f)
    /\ job' = [job EXCEPT ![p] = Idle]
    /\ UNCHANGED <<edits, todo, faults>>

\* A put or a commit that fails, a refusal or a crash rolls all of it back.
AbortSubmit(p) ==
    /\ p \in Requests
    /\ job[p].pc \in {"find", "file"}
    /\ job' = [job EXCEPT ![p] = Idle]
    /\ UNCHANGED <<edits, body, row, ahead, figures, current, slot, todo, behind, faults>>

-----------------------------------------------------------------------------
(* The drain *)

\* The due rows are read as plain columns, without a lock.
Tick(d) ==
    /\ job[d].pc = "idle"
    /\ todo[d] = {}
    /\ Picked # {}
    /\ todo' = [todo EXCEPT ![d] = {<<f, row[f].id>> : f \in Picked}]
    /\ UNCHANGED <<edits, body, row, ahead, figures, current, slot, job, behind, faults>>

Take(d, x) ==
    /\ job[d].pc = "idle"
    /\ x \in todo[d]
    /\ todo' = [todo EXCEPT ![d] = @ \ {x}]
    /\ job' = [job EXCEPT ![d] = At("load", x[1], 0, x[2])]
    /\ UNCHANGED <<edits, body, row, ahead, figures, current, slot, behind, faults>>

\* _plan_refresh reads the form as it is now, whether the row is still there or not.
Read(d) ==
    /\ job[d].pc = "load"
    /\ body[job[d].form] # 0
    /\ job' = [job EXCEPT ![d] = [job[d] EXCEPT !.pc = "find", !.text = body[job[d].form]]]
    /\ UNCHANGED <<edits, body, row, ahead, figures, current, slot, todo, behind, faults>>

\* There is nothing to file, or the render, the put or the commit failed, which
\* refresh_saved_form logs: the row goes all the same.
Nothing(d) ==
    /\ d \in Drainers
    /\ job[d].pc \in {"load", "find", "file"}
    /\ job' = [job EXCEPT ![d] = [job[d] EXCEPT !.pc = "drop", !.text = 0, !.file = NoFile]]
    /\ UNCHANGED <<edits, body, row, ahead, figures, current, slot, todo, behind, faults>>

\* The document is committed, the row not yet dropped.
Draw(d) ==
    /\ d \in Drainers
    /\ job[d].pc = "file"
    /\ File(d, body[job[d].form])
    /\ job' = [job EXCEPT ![d] = [job[d] EXCEPT !.pc = "drop", !.file = NoFile]]
    /\ UNCHANGED <<edits, body, row, ahead, slot, todo, faults>>

\* The row goes by its id.  If it was pushed after the form was read, or if
\* nothing was drawn, the text it stood for is given up.
Drop(d) ==
    LET f == job[d].form IN
    /\ job[d].pc = "drop"
    /\ IF Hit(f, job[d].id)
       THEN /\ row' = [row EXCEPT ![f] = NoRow]
            /\ ahead' = Without(f)
       ELSE UNCHANGED <<row, ahead>>
    /\ behind' = IF row[f].id = job[d].id /\ job[d].text < row[f].asked
                 THEN [behind EXCEPT ![f] = body[f]] ELSE behind
    /\ job' = [job EXCEPT ![d] = Idle]
    /\ UNCHANGED <<edits, body, figures, current, slot, todo, faults>>

\* Mutant of Defer: the row keeps its deadline.
Defer_Keep(d) ==
    /\ job[d].pc \in {"load", "drop"}
    /\ job' = [job EXCEPT ![d] = Idle]
    /\ UNCHANGED <<edits, body, row, ahead, figures, current, slot, todo, behind, faults>>

\* Reading the file or dropping the row raised: the deadline is pushed out.
Defer(d) ==
    LET f == job[d].form IN
    /\ job[d].pc \in {"load", "drop"}
    /\ IF Hit(f, job[d].id)
       THEN /\ row' = [row EXCEPT ![f] = [row[f] EXCEPT !.at = "waiting"]]
            /\ ahead' = ToBack(f)
       ELSE UNCHANGED <<row, ahead>>
    /\ job' = [job EXCEPT ![d] = Idle]
    /\ UNCHANGED <<edits, body, figures, current, slot, todo, behind, faults>>

\* The deferral fails as well: the row is due as it was.
DeferFails(d) ==
    /\ job[d].pc \in {"load", "drop"}
    /\ faults < MaxFaults
    /\ faults' = faults + 1
    /\ job' = [job EXCEPT ![d] = Idle]
    /\ UNCHANGED <<edits, body, row, ahead, figures, current, slot, todo, behind>>

\* The process dies and starts again, with nothing in hand.
Crash(d) ==
    /\ job[d].pc # "idle" \/ todo[d] # {}
    /\ faults < MaxFaults
    /\ faults' = faults + 1
    /\ job' = [job EXCEPT ![d] = Idle]
    /\ todo' = [todo EXCEPT ![d] = {}]
    /\ UNCHANGED <<edits, body, row, ahead, figures, current, slot, behind>>

Work(d) ==
    \/ \E x \in todo[d] : Take(d, x)
    \/ Read(d) \/ Find(d) \/ Nothing(d) \/ Draw(d) \/ Drop(d) \/ Defer(d)

-----------------------------------------------------------------------------
Next ==
    \/ \E f \in Forms : Ripen(f)
    \/ \E p \in Requests :
         \/ \E f \in Forms : Save(p, f) \/ Submit(p, f)
         \/ Enqueue(p) \/ EnqueueFails(p) \/ Find(p) \/ CommitSubmit(p) \/ AbortSubmit(p)
    \/ \E d \in Drainers : Tick(d) \/ Work(d) \/ DeferFails(d) \/ Crash(d)

Spec == Init /\ [][Next]_vars

\* The job runs every thirty seconds, and a drain goes on until it is through.
FairSpec ==
    /\ Spec
    /\ \A d \in Drainers : WF_vars(Tick(d)) /\ WF_vars(Work(d))

-----------------------------------------------------------------------------
(* Properties *)

\* A form whose document shows less than what was saved has its row in the queue,
\* or a request that is about to put it there, or the redraw of that very text
\* was given up: by an upsert that failed, a draw that failed, a push that the end
\* of an older draw deleted, or an older draw that ended over it.  A checklist row
\* is satisfied only by a document.
NothingForgotten ==
    \A f \in Forms :
       /\ Filed(f) < body[f] =>
             \/ f \in Queued
             \/ \E p \in Requests : job[p] = At("saved", f, body[f], 0)
             \/ behind[f] = body[f]
       /\ slot[f] = "uploaded" => current[f] # NoFile

\* Whatever the rows before it do, a due row is taken up, unless it is pushed or
\* dropped first ("A failure must not wedge the queue").
RowsAreReached ==
    \A f \in Forms :
       row[f].at = "due" ~> row[f].at # "due" \/ \E d \in Drainers : job[d].form = f

=============================================================================
