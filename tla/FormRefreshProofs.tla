--------------------------- MODULE FormRefreshProofs ---------------------------
(***************************************************************************)
(* For any forms, drains, requests, limit and faults: the types, and that  *)
(* no text is forgotten.                                                   *)
(***************************************************************************)
EXTENDS FormRefresh, TLAPS

-----------------------------------------------------------------------------
(* The inductive invariant.                                                *)

\* A request about to ask the queue for the text that the form has now.
Saving(f) ==
    \E p \in Requests : job[p] = At("saved", f, body[f], 0)

Stage(a) ==
    /\ job[a].pc # "idle" => job[a].form \in Forms
    /\ a \in Requests => job[a].pc \in {"idle", "saved", "find", "file"}
    /\ a \in Drainers => job[a].pc \in {"idle", "load", "find", "file", "drop"}
    /\ job[a].pc = "saved" => job[a] = At("saved", job[a].form, job[a].text, 0)
    /\ job[a].file # NoFile => job[a].form \in Forms /\ current[job[a].form] # NoFile

\* Numbers are given once, upwards.
Counted ==
    /\ \A f \in Forms : body[f] <= edits /\ row[f].id <= edits
    /\ \A a \in Actors : job[a].text <= edits /\ job[a].id <= edits
    /\ \A d \in Drainers : \A x \in todo[d] : x[2] <= edits

\* A queued row was asked for a text.
Asked == \A f \in Queued : row[f].asked >= 1

\* A request that has saved names a row nobody knows yet.
Fresh(p) ==
    job[p].pc = "saved" =>
       /\ job[p].text >= 1
       /\ job[p].text <= body[job[p].form]
       /\ \A f \in Forms : row[f].id # job[p].text
       /\ \A d \in Drainers : job[d].id # job[p].text
       /\ \A d \in Drainers : \A x \in todo[d] : x[2] # job[p].text
       /\ \A q \in Requests : q # p /\ job[q].pc = "saved" => job[q].text # job[p].text

\* A submit is alone on its form and knows a later text than anybody has saved.
Alone(p) ==
    job[p].pc \in {"find", "file"} =>
       /\ job[p].text > body[job[p].form]
       /\ \A q \in Requests :
             /\ job[q].pc \in {"find", "file"}
             /\ job[q].form = job[p].form
             => q = p

\* The text of the form is the one drawn, or on its way, or given up.
Known(f, text) == body[f] <= text \/ Saving(f) \/ behind[f] = body[f]

\* A drain that has read the form: as long as its row was not pushed it knows the
\* last text, and readers see what it has committed.
Reading(d) ==
    /\ job[d].pc \in {"find", "file", "drop"} =>
          /\ job[d].text <= body[job[d].form]
          /\ /\ Hit(job[d].form, job[d].id)
             /\ job[d].text >= row[job[d].form].asked
             => Known(job[d].form, job[d].text)
    /\ job[d].pc = "drop" =>
          \/ Filed(job[d].form) >= job[d].text
          \/ behind[job[d].form] = body[job[d].form]
          \/ job[d].text < body[job[d].form]

Owed(f) ==
    /\ Filed(f) < body[f] => f \in Queued \/ Saving(f) \/ behind[f] = body[f]
    /\ slot[f] = "uploaded" => current[f] # NoFile

IInv ==
    /\ TypeOK
    /\ \A a \in Actors : Stage(a)
    /\ Counted
    /\ Asked
    /\ \A p \in Requests : Fresh(p) /\ Alone(p)
    /\ \A d \in Drainers : Reading(d)
    /\ \A f \in Forms : Owed(f)

LEMMA OwedIsNothingForgotten == (\A f \in Forms : Owed(f)) <=> NothingForgotten
  BY DEF Owed, NothingForgotten, Saving

LEMMA IdleJob == Idle \in Jobs
  BY RefreshAssumption DEF Idle, At, Jobs, Texts

LEMMA NoRowRow == NoRow \in Rows
  BY RefreshAssumption DEF NoRow, Rows, Texts

LEMMA InitIInv == Init => IInv
<1> SUFFICES ASSUME Init PROVE IInv
  OBVIOUS
<1> USE RefreshAssumption
<1>1. TypeOK
  BY IdleJob, NoRowRow DEF Init, TypeOK, Texts
<1>2. \A a \in Actors : Stage(a)
  BY DEF Init, Stage, Idle, At, Actors
<1>3. Counted
  BY DEF Init, Counted, Idle, At, NoRow, Actors
<1>4. Asked
  BY DEF Init, Asked, Queued, NoRow
<1>5. \A p \in Requests : Fresh(p) /\ Alone(p)
  BY DEF Init, Fresh, Alone, Idle, At, Actors
<1>6. \A d \in Drainers : Reading(d)
  BY DEF Init, Reading, Idle, At, Actors
<1>7. \A f \in Forms : Owed(f)
  BY DEF Init, Owed, Filed
<1> QED
  BY <1>1, <1>2, <1>3, <1>4, <1>5, <1>6, <1>7 DEF IInv

-----------------------------------------------------------------------------
(* What committing a document does.                                        *)

\* The document of f is there, nothing else changes, and either readers see no
\* less than before and no less than was written, or f is marked behind.
LEMMA FileStep ==
    ASSUME IInv, NEW a \in Actors, NEW f \in Forms, NEW saved \in Texts,
           job[a].pc = "file", job[a].form = f, File(a, saved)
    PROVE  /\ figures' \in [Forms -> [Actors -> Texts]]
           /\ current' \in [Forms -> Actors \cup {NoFile}]
           /\ behind' \in [Forms -> Texts]
           /\ current'[f] # NoFile
           /\ \A g \in Forms \ {f} :
                 Filed(g)' = Filed(g) /\ current'[g] = current[g] /\ behind'[g] = behind[g]
           /\ \/ behind'[f] = saved
              \/ behind' = behind /\ Filed(f)' >= job[a].text /\ Filed(f)' >= Filed(f)
<1> DEFINE k == IF job[a].file = NoFile THEN a ELSE job[a].file
           newest == IF job[a].file = NoFile THEN {a, current[f]} \ {NoFile} ELSE {current[f]}
<1>1. TypeOK /\ Stage(a)
  BY DEF IInv
<1>2. job[a] \in Jobs /\ job[a].text \in Texts
  BY <1>1 DEF TypeOK, Stage, Jobs
<1>3. k \in Actors
  BY <1>1, <1>2 DEF TypeOK, Jobs
<1>4. a # NoFile
  BY RefreshAssumption DEF Actors
<1>5. newest \subseteq Actors
  BY <1>1, <1>2, <1>4 DEF TypeOK, Stage
<1>6. figures' = [figures EXCEPT ![f][k] = job[a].text]
  BY DEF File
<1>7. PICK c \in newest :
         LET seen == IF c = k THEN job[a].text ELSE figures[f][c] IN
         /\ current' = [current EXCEPT ![f] = c]
         /\ behind' = IF seen < job[a].text \/ seen < Filed(f)
                      THEN [behind EXCEPT ![f] = saved] ELSE behind
  BY DEF File
<1>8. c \in Actors /\ c # NoFile
  BY <1>5, RefreshAssumption DEF Actors
<1>9. figures' \in [Forms -> [Actors -> Texts]]
  BY <1>1, <1>2, <1>3, <1>6 DEF TypeOK
<1>10. current' \in [Forms -> Actors \cup {NoFile}] /\ current'[f] = c
  BY <1>1, <1>2, <1>7, <1>8 DEF TypeOK
<1>11. behind' \in [Forms -> Texts]
  BY <1>1, <1>2, <1>7 DEF TypeOK
<1>12. \A g \in Forms \ {f} :
          figures'[g] = figures[g] /\ current'[g] = current[g] /\ behind'[g] = behind[g]
  BY <1>1, <1>6, <1>7 DEF TypeOK
<1>13. Filed(f)' = IF c = k THEN job[a].text ELSE figures[f][c]
  BY <1>1, <1>2, <1>3, <1>6, <1>8, <1>10 DEF Filed, TypeOK
<1>14. Filed(f) \in Nat /\ Filed(f)' \in Nat /\ job[a].text \in Nat
  BY <1>1, <1>2, <1>8, <1>9, <1>10 DEF Filed, TypeOK, Texts
<1>15. \/ behind'[f] = saved
       \/ behind' = behind /\ Filed(f)' >= job[a].text /\ Filed(f)' >= Filed(f)
  <2>1. CASE Filed(f)' < job[a].text \/ Filed(f)' < Filed(f)
    BY <1>1, <1>2, <1>7, <1>13, <2>1 DEF TypeOK
  <2>2. CASE ~(Filed(f)' < job[a].text \/ Filed(f)' < Filed(f))
    BY <1>7, <1>13, <1>14, <2>2
  <2> QED
    BY <2>1, <2>2
<1> QED
  BY <1>8, <1>9, <1>10, <1>11, <1>12, <1>15 DEF Filed

-----------------------------------------------------------------------------
(* Types.                                                                  *)

LEMMA AtJob ==
    \A pc \in {"idle", "saved", "load", "find", "file", "drop"}, f \in Forms, t, i \in Texts :
       At(pc, f, t, i) \in Jobs
  BY DEF At, Jobs

LEMMA JobChange ==
    ASSUME NEW j \in Jobs, NEW pc \in {"find", "file", "drop"}, NEW t \in Texts,
           NEW k \in Actors \cup {NoFile}
    PROVE  /\ [j EXCEPT !.pc = pc, !.file = k] \in Jobs
           /\ [j EXCEPT !.pc = pc, !.text = t] \in Jobs
           /\ [j EXCEPT !.pc = pc, !.text = t, !.file = k] \in Jobs
  BY DEF Jobs

LEMMA RowChange ==
    ASSUME NEW r \in Rows, NEW s \in {"waiting", "due"}
    PROVE  [r EXCEPT !.at = s] \in Rows
  BY DEF Rows

LEMMA OrderType ==
    ASSUME TypeOK, NEW f \in Forms
    PROVE  Without(f) \subseteq Forms \X Forms /\ ToBack(f) \subseteq Forms \X Forms
  BY DEF TypeOK, Without, ToBack, Queued

LEMMA TypeStep == IInv /\ [Next]_vars => TypeOK'
<1> SUFFICES ASSUME IInv, [Next]_vars PROVE TypeOK'
  OBVIOUS
<1> USE RefreshAssumption
<1>1. TypeOK /\ (\A a \in Actors : Stage(a)) /\ edits \in Nat /\ Drainers \subseteq Actors /\ Requests \subseteq Actors
  BY DEF IInv, TypeOK, Texts, Actors
<1>2. \A a \in Actors : job[a] \in Jobs /\ job[a].text \in Texts /\ job[a].id \in Texts
  BY <1>1 DEF TypeOK, Jobs
<1>3. ASSUME NEW f \in Forms, Ripen(f) PROVE TypeOK'
  <2>1. [row[f] EXCEPT !.at = "due"] \in Rows
    BY <1>1, RowChange DEF TypeOK
  <2> QED
    BY <1>1, <1>3, <2>1 DEF TypeOK, Ripen
<1>4. ASSUME NEW p \in Requests, NEW f \in Forms, NEW pc \in {"saved", "find"}, Type(p, f, pc),
             body' \in [Forms -> Texts]
      PROVE  TypeOK'
  <2>1. edits' \in Texts
    BY <1>1, <1>4 DEF Type, Texts
  <2>2. At(pc, f, edits + 1, 0) \in Jobs
    BY <1>1, <1>4, <2>1, AtJob DEF Type, Texts
  <2> QED
    BY <1>1, <1>4, <2>1, <2>2 DEF TypeOK, Type
<1>5. ASSUME NEW p \in Requests, NEW f \in Forms, Save(p, f) PROVE TypeOK'
  <2>1. body' \in [Forms -> Texts]
    BY <1>1, <1>5 DEF TypeOK, Save, Type, Texts
  <2> QED
    BY <1>4, <1>5, <2>1 DEF Save
<1>6. ASSUME NEW p \in Requests, NEW f \in Forms, Submit(p, f) PROVE TypeOK'
  BY <1>1, <1>4, <1>6 DEF Submit, TypeOK
<1>7. ASSUME NEW p \in Requests, Enqueue(p) PROVE TypeOK'
  <2>1. job[p].form \in Forms
    BY <1>1, <1>7 DEF Enqueue, Stage
  <2>2. [at |-> "waiting", asked |-> body[job[p].form],
         id |-> IF job[p].form \in Queued THEN row[job[p].form].id ELSE job[p].text] \in Rows
    BY <1>1, <1>2, <2>1 DEF TypeOK, Rows
  <2> QED
    BY <1>1, <1>7, <2>1, <2>2, IdleJob, OrderType DEF TypeOK, Enqueue
<1>8. ASSUME NEW p \in Requests, EnqueueFails(p) PROVE TypeOK'
  BY <1>1, <1>2, <1>8, IdleJob DEF TypeOK, EnqueueFails
<1>9. ASSUME NEW a \in Actors, Find(a) PROVE TypeOK'
  <2>1. job[a].form \in Forms /\ current[job[a].form] \in Actors \cup {NoFile}
    BY <1>1, <1>9 DEF Find, Stage, TypeOK
  <2> QED
    <3>1. [job[a] EXCEPT !.pc = "file", !.file = current[job[a].form]] \in Jobs
      BY <1>1, <1>2, <2>1, JobChange
    <3> QED
      BY <1>1, <1>9, <3>1 DEF TypeOK, Find
<1>10. ASSUME NEW p \in Requests, CommitSubmit(p) PROVE TypeOK'
  <2>1. job[p].form \in Forms
    BY <1>1, <1>10 DEF CommitSubmit, Stage
  <2>2. /\ figures' \in [Forms -> [Actors -> Texts]]
        /\ current' \in [Forms -> Actors \cup {NoFile}]
        /\ behind' \in [Forms -> Texts]
    <3>1. job[p].pc = "file" /\ File(p, job[p].text) /\ p \in Actors
      BY <1>1, <1>10 DEF CommitSubmit
    <3> QED
      BY <1>2, <2>1, <3>1, FileStep
  <2>3. slot' \in [Forms -> {"requested", "uploaded"}]
    BY <1>1, <1>10 DEF CommitSubmit, Satisfied, TypeOK
  <2> QED
    BY <1>1, <1>2, <1>10, <2>1, <2>2, <2>3, IdleJob, NoRowRow, OrderType DEF TypeOK, CommitSubmit
<1>11. ASSUME NEW p \in Requests, AbortSubmit(p) PROVE TypeOK'
  BY <1>1, <1>11, IdleJob DEF TypeOK, AbortSubmit
<1>12. ASSUME NEW d \in Drainers, Tick(d) PROVE TypeOK'
  <2>1. {<<f, row[f].id>> : f \in Picked} \subseteq Forms \X Texts
    <3> SUFFICES ASSUME NEW f \in Picked PROVE <<f, row[f].id>> \in Forms \X Texts
      OBVIOUS
    <3> QED
      BY <1>1 DEF TypeOK, Picked, Due, Rows
  <2> QED
    BY <1>1, <1>12, <2>1 DEF TypeOK, Tick
<1>13. ASSUME NEW d \in Drainers, NEW x \in todo[d], Take(d, x) PROVE TypeOK'
  <2>1. x[1] \in Forms /\ x[2] \in Texts
    BY <1>1 DEF TypeOK
  <2>2. At("load", x[1], 0, x[2]) \in Jobs
    BY <2>1, AtJob DEF Texts
  <2> QED
    BY <1>1, <1>13, <2>2 DEF TypeOK, Take
<1>14. ASSUME NEW d \in Drainers, Read(d) PROVE TypeOK'
  <2>1. job[d].form \in Forms /\ body[job[d].form] \in Texts
    BY <1>1, <1>14 DEF Read, Stage, TypeOK
  <2> QED
    <3>1. [job[d] EXCEPT !.pc = "find", !.text = body[job[d].form]] \in Jobs
      BY <1>1, <1>2, <2>1, JobChange
    <3> QED
      BY <1>1, <1>14, <3>1 DEF TypeOK, Read
<1>15. ASSUME NEW d \in Drainers, Nothing(d) PROVE TypeOK'
  <2>1. [job[d] EXCEPT !.pc = "drop", !.text = 0, !.file = NoFile] \in Jobs
    <3>1. 0 \in Texts
      BY DEF Texts
    <3> QED
      BY <1>1, <1>2, <3>1, JobChange
  <2> QED
    BY <1>1, <1>15, <2>1 DEF TypeOK, Nothing
<1>16. ASSUME NEW d \in Drainers, Draw(d) PROVE TypeOK'
  <2>1. job[d].form \in Forms /\ body[job[d].form] \in Texts
    BY <1>1, <1>16 DEF Draw, Stage, TypeOK
  <2>2. /\ figures' \in [Forms -> [Actors -> Texts]]
        /\ current' \in [Forms -> Actors \cup {NoFile}]
        /\ behind' \in [Forms -> Texts]
    BY <1>1, <1>16, <2>1, FileStep DEF Draw
  <2> QED
    <3>1. [job[d] EXCEPT !.pc = "drop", !.file = NoFile] \in Jobs
      BY <1>1, <1>2, JobChange
    <3> QED
      BY <1>1, <1>16, <2>1, <2>2, <3>1 DEF TypeOK, Draw
<1>17. ASSUME NEW d \in Drainers, Drop(d) PROVE TypeOK'
  <2>1. job[d].form \in Forms
    BY <1>1, <1>17 DEF Drop, Stage
  <2>2. row' \in [Forms -> Rows]
    BY <1>1, <1>17, <2>1, NoRowRow DEF Drop, TypeOK
  <2>3. ahead' \subseteq Forms \X Forms
    BY <1>1, <1>17, <2>1, OrderType DEF Drop, TypeOK
  <2>4. behind' \in [Forms -> Texts]
    BY <1>1, <1>17, <2>1 DEF Drop, TypeOK
  <2> QED
    BY <1>1, <1>17, <2>2, <2>3, <2>4, IdleJob DEF TypeOK, Drop
<1>18. ASSUME NEW d \in Drainers, Defer(d) PROVE TypeOK'
  <2>1. job[d].form \in Forms
    BY <1>1, <1>18 DEF Defer, Stage
  <2>2. row' \in [Forms -> Rows]
    <3>1. [row[job[d].form] EXCEPT !.at = "waiting"] \in Rows
      BY <1>1, <2>1, RowChange DEF TypeOK
    <3> QED
      BY <1>1, <1>18, <2>1, <3>1 DEF Defer, TypeOK
  <2>3. ahead' \subseteq Forms \X Forms
    BY <1>1, <1>18, <2>1, OrderType DEF Defer, TypeOK
  <2> QED
    BY <1>1, <1>18, <2>2, <2>3, IdleJob DEF TypeOK, Defer
<1>19. ASSUME NEW d \in Drainers, DeferFails(d) PROVE TypeOK'
  BY <1>1, <1>19, IdleJob DEF TypeOK, DeferFails
<1>20. ASSUME NEW d \in Drainers, Crash(d) PROVE TypeOK'
  BY <1>1, <1>20, IdleJob DEF TypeOK, Crash
<1>21. CASE UNCHANGED vars
  BY <1>1, <1>21 DEF TypeOK, vars
<1> QED
  BY <1>1, <1>3, <1>5, <1>6, <1>7, <1>8, <1>9, <1>10, <1>11, <1>12, <1>13, <1>14, <1>15, <1>16,
     <1>17, <1>18, <1>19, <1>20, <1>21 DEF Next, Work

-----------------------------------------------------------------------------
(* Steps that touch no form, document or deadline.                         *)

LEMMA Basics ==
    ASSUME IInv
    PROVE  /\ TypeOK /\ Drainers \subseteq Actors /\ Requests \subseteq Actors
           /\ NoFile \notin Actors /\ Actors = Drainers \cup Requests
           /\ edits \in Nat
           /\ \A f \in Forms : /\ body[f] \in Nat /\ behind[f] \in Nat
                               /\ row[f] \in Rows /\ row[f].id \in Nat /\ row[f].asked \in Nat
           /\ \A a \in Actors : /\ job[a] \in Jobs /\ job[a].text \in Nat /\ job[a].id \in Nat
                                /\ job[a].pc # "idle" => job[a].form \in Forms
           /\ \A d \in Drainers : job[d].pc # "saved"
<1>1. TypeOK /\ \A a \in Actors : Stage(a)
  BY DEF IInv
<1>2. Drainers \subseteq Actors /\ Requests \subseteq Actors /\ Actors = Drainers \cup Requests
  BY DEF Actors
<1>3. NoFile \notin Actors
  BY RefreshAssumption DEF Actors
<1>4. Texts \subseteq Nat
  BY RefreshAssumption DEF Texts
<1>5. \A f \in Forms : /\ body[f] \in Texts /\ behind[f] \in Texts
                       /\ row[f] \in Rows /\ row[f].id \in Texts /\ row[f].asked \in Texts
  BY <1>1 DEF TypeOK, Rows
<1>6. \A a \in Actors : job[a] \in Jobs /\ job[a].text \in Texts /\ job[a].id \in Texts
  BY <1>1 DEF TypeOK, Jobs
<1>7. \A a \in Actors : job[a].pc # "idle" => job[a].form \in Forms
  BY <1>1 DEF Stage
<1>8. \A d \in Drainers : job[d].pc # "saved"
  BY <1>1, <1>2 DEF Stage
<1> QED
  BY <1>1, <1>2, <1>3, <1>4, <1>5, <1>6, <1>7, <1>8 DEF TypeOK

LEMMA FiledNat == IInv => \A f \in Forms : Filed(f) \in Nat
<1> SUFFICES ASSUME IInv, NEW f \in Forms PROVE Filed(f) \in Nat
  OBVIOUS
<1>1. TypeOK
  BY Basics
<1>2. Texts \subseteq Nat /\ 0 \in Nat
  BY RefreshAssumption DEF Texts
<1>3. current[f] # NoFile => figures[f][current[f]] \in Texts
  BY <1>1 DEF TypeOK
<1> QED
  BY <1>2, <1>3 DEF Filed

\* Whoever was about to ask for a text still is, unless it is its turn.
LEMMA SavingKept ==
    ASSUME IInv, NEW a, NEW f \in Forms, Saving(f), body'[f] = body[f],
           \A b \in Actors \ {a} : job'[b] = job[b],
           a \in Actors => job[a].pc # "saved"
    PROVE  Saving(f)'
<1>1. PICK p \in Requests : job[p] = At("saved", f, body[f], 0)
  BY DEF Saving
<1>2. job[p].pc = "saved" /\ p \in Actors
  BY <1>1 DEF At, Actors
<1>3. job'[p] = job[p]
  BY <1>2
<1> QED
  BY <1>1, <1>3 DEF Saving, At

\* Only a's job and what the drains have read may change.
LEMMA QuietStep ==
    ASSUME IInv, TypeOK', NEW a,
           edits' = edits, body' = body, figures' = figures, current' = current,
           slot' = slot, behind' = behind,
           \A f \in Forms : /\ row'[f].at # "none" <=> row[f].at # "none"
                            /\ row'[f].id = row[f].id /\ row'[f].asked = row[f].asked,
           \A b \in Actors \ {a} : job'[b] = job[b],
           a \in Actors =>
              /\ job[a].pc # "saved" /\ job'[a].pc # "saved"
              /\ job'[a].text <= edits /\ job'[a].id <= edits
              /\ Stage(a)',
           a \in Requests /\ job'[a].pc \in {"find", "file"} =>
                 /\ job[a].pc \in {"find", "file"}
                 /\ job'[a].form = job[a].form /\ job'[a].text = job[a].text,
           a \in Drainers =>
              /\ Reading(a)'
              /\ \A p \in Requests : job[p].pc = "saved" => job'[a].id # job[p].text,
           \A d \in Drainers : \A x \in todo'[d] :
              /\ x[2] <= edits
              /\ \A p \in Requests : job[p].pc = "saved" => x[2] # job[p].text
    PROVE  IInv'
<1>1. /\ TypeOK /\ Drainers \subseteq Actors /\ Requests \subseteq Actors
      /\ Actors = Drainers \cup Requests
  BY Basics
<1>2. \A f \in Forms : Filed(f)' = Filed(f)
  BY DEF Filed
<1>3. \A f \in Forms : Saving(f) => Saving(f)'
  BY SavingKept
<1>4. Queued' = Queued
  BY DEF Queued
<1>5. \A b \in Actors : Stage(b)'
  <2>1. ASSUME NEW b \in Actors, b # a PROVE Stage(b)'
    BY <1>1, <2>1 DEF IInv, Stage, At
  <2> QED
    BY <2>1
<1>6. Counted'
  BY <1>1 DEF IInv, Counted
<1>7. Asked'
  BY <1>4 DEF IInv, Asked, Queued
<1>8. ASSUME NEW p \in Requests PROVE Fresh(p)'
  <2> SUFFICES ASSUME job'[p].pc = "saved" PROVE Fresh(p)'
    BY DEF Fresh
  <2>1. p # a /\ p \in Actors /\ job'[p] = job[p]
    BY <1>1
  <2>2. Fresh(p)
    BY DEF IInv
  <2>3. \A q \in Requests : q # p /\ job'[q].pc = "saved" => job'[q].text # job'[p].text
    BY <1>1, <2>1, <2>2 DEF Fresh
  <2>4. \A d \in Drainers : job'[d].id # job'[p].text
    BY <1>1, <2>1, <2>2 DEF Fresh
  <2> QED
    BY <1>1, <2>1, <2>2, <2>3, <2>4 DEF Fresh
<1>9. ASSUME NEW p \in Requests PROVE Alone(p)'
  <2> SUFFICES ASSUME job'[p].pc \in {"find", "file"} PROVE Alone(p)'
    BY DEF Alone
  <2>1. \A q \in Requests : job'[q].pc \in {"find", "file"} =>
           job[q].pc \in {"find", "file"} /\ job'[q].form = job[q].form /\ job'[q].text = job[q].text
    BY <1>1
  <2>2. Alone(p)
    BY DEF IInv
  <2> QED
    BY <2>1, <2>2 DEF Alone
<1>10. ASSUME NEW d \in Drainers PROVE Reading(d)'
  <2>1. CASE d = a
    BY <2>1
  <2>2. CASE d # a
    <3>1. job'[d] = job[d]
      BY <1>1, <2>2
    <3>2. job[d].pc # "idle" => job[d].form \in Forms
      BY Basics, <1>1
    <3>3. Reading(d)
      BY DEF IInv
    <3> QED
      BY <1>2, <1>3, <3>1, <3>2, <3>3 DEF Reading, Hit, Known
  <2> QED
    BY <2>1, <2>2
<1>11. \A f \in Forms : Owed(f)'
  BY <1>2, <1>3, <1>4 DEF IInv, Owed
<1> QED
  BY <1>5, <1>6, <1>7, <1>8, <1>9, <1>10, <1>11 DEF IInv

LEMMA FreshIds ==
    ASSUME IInv, NEW p \in Requests, job[p].pc = "saved"
    PROVE  /\ \A f \in Forms : row[f].id # job[p].text
           /\ \A d \in Drainers : job[d].id # job[p].text
           /\ \A d \in Drainers : \A x \in todo[d] : x[2] # job[p].text
           /\ job[p].text >= 1 /\ job[p].text <= body[job[p].form]
  BY DEF IInv, Fresh

LEMMA IdleFacts == Idle.pc = "idle" /\ Idle.text = 0 /\ Idle.id = 0 /\ Idle.file = NoFile
  BY DEF Idle, At

\* Whoever becomes idle, deferring its row or not.
LEMMA LeaveStep ==
    ASSUME IInv, TypeOK', NEW a \in Actors, job[a].pc # "saved",
           edits' = edits, body' = body, figures' = figures, current' = current,
           slot' = slot, behind' = behind,
           \A f \in Forms : /\ row'[f].at # "none" <=> row[f].at # "none"
                            /\ row'[f].id = row[f].id /\ row'[f].asked = row[f].asked,
           job' = [job EXCEPT ![a] = Idle],
           \A d \in Drainers : todo'[d] \subseteq todo[d]
    PROVE  IInv'
<1>1. /\ TypeOK /\ Drainers \subseteq Actors /\ Requests \subseteq Actors /\ edits \in Nat
      /\ Actors = Drainers \cup Requests
  BY Basics
<1>2. job'[a] = Idle /\ \A b \in Actors \ {a} : job'[b] = job[b]
  BY <1>1 DEF TypeOK
<1>3. Stage(a)'
  BY <1>2, IdleFacts DEF Stage
<1>4. Reading(a)'
  BY <1>2, IdleFacts DEF Reading
<1>5. \A p \in Requests : job[p].pc = "saved" => 0 # job[p].text
  BY FreshIds
<1>6. \A d \in Drainers : \A x \in todo'[d] :
         x[2] <= edits /\ \A p \in Requests : job[p].pc = "saved" => x[2] # job[p].text
  BY FreshIds DEF IInv, Counted
<1> QED
  BY <1>1, <1>2, <1>3, <1>4, <1>5, <1>6, IdleFacts, QuietStep

LEMMA StutterInv == ASSUME IInv, UNCHANGED vars PROVE IInv'
<1>1. TypeOK'
  BY TypeStep
<1>2. NoFile \notin Actors /\ Drainers \subseteq Actors /\ Requests \subseteq Actors
  BY Basics
<1>3. \A d \in Drainers : \A x \in todo[d] :
         x[2] <= edits /\ \A p \in Requests : job[p].pc = "saved" => x[2] # job[p].text
  BY FreshIds DEF IInv, Counted
<1> QED
  BY <1>1, <1>2, <1>3, QuietStep DEF vars

LEMMA RipenInv == ASSUME IInv, TypeOK', NEW f \in Forms, Ripen(f) PROVE IInv'
<1>1. TypeOK /\ NoFile \notin Actors /\ Drainers \subseteq Actors /\ Requests \subseteq Actors
  BY Basics
<1>2. \A g \in Forms : row[g] \in Rows
  BY Basics
<1>3. \A g \in Forms : /\ row'[g].at # "none" <=> row[g].at # "none"
                       /\ row'[g].id = row[g].id /\ row'[g].asked = row[g].asked
  <2>1. row[f].at = "waiting" /\ row' = [row EXCEPT ![f] = [row[f] EXCEPT !.at = "due"]]
    BY DEF Ripen
  <2>2. row'[f] = [row[f] EXCEPT !.at = "due"] /\ \A g \in Forms \ {f} : row'[g] = row[g]
    BY <1>1, <2>1 DEF TypeOK
  <2>3. row'[f].at = "due" /\ row'[f].id = row[f].id /\ row'[f].asked = row[f].asked
    BY <1>2, <2>2 DEF Rows
  <2> QED
    BY <2>1, <2>2, <2>3
<1>4. \A d \in Drainers : \A x \in todo[d] :
         x[2] <= edits /\ \A p \in Requests : job[p].pc = "saved" => x[2] # job[p].text
  BY FreshIds DEF IInv, Counted
<1> QED
  BY <1>1, <1>3, <1>4, QuietStep DEF Ripen

LEMMA AbortSubmitInv == ASSUME IInv, TypeOK', NEW p \in Requests, AbortSubmit(p) PROVE IInv'
  BY Basics, LeaveStep DEF AbortSubmit

LEMMA DeferFailsInv == ASSUME IInv, TypeOK', NEW d \in Drainers, DeferFails(d) PROVE IInv'
  BY Basics, LeaveStep DEF DeferFails

LEMMA CrashInv == ASSUME IInv, TypeOK', NEW d \in Drainers, Crash(d) PROVE IInv'
<1>1. TypeOK /\ d \in Actors /\ job[d].pc # "saved"
  BY Basics
<1>2. \A e \in Drainers : todo'[e] \subseteq todo[e]
  BY <1>1 DEF Crash, TypeOK
<1> QED
  BY <1>1, <1>2, LeaveStep DEF Crash

LEMMA DeferInv == ASSUME IInv, TypeOK', NEW d \in Drainers, Defer(d) PROVE IInv'
<1> DEFINE f == job[d].form
<1>1. TypeOK /\ d \in Actors /\ job[d].pc # "saved" /\ f \in Forms /\ \A g \in Forms : row[g] \in Rows
  BY Basics DEF Defer
<1>2. \A g \in Forms : /\ row'[g].at # "none" <=> row[g].at # "none"
                       /\ row'[g].id = row[g].id /\ row'[g].asked = row[g].asked
  <2>1. CASE Hit(f, job[d].id)
    <3>1. row[f].at # "none" /\ row' = [row EXCEPT ![f] = [row[f] EXCEPT !.at = "waiting"]]
      BY <2>1 DEF Defer, Hit
    <3>2. row'[f] = [row[f] EXCEPT !.at = "waiting"] /\ \A g \in Forms \ {f} : row'[g] = row[g]
      BY <1>1, <3>1 DEF TypeOK
    <3>3. row'[f].at = "waiting" /\ row'[f].id = row[f].id /\ row'[f].asked = row[f].asked
      BY <1>1, <3>2 DEF Rows
    <3> QED
      BY <3>1, <3>2, <3>3
  <2>2. CASE ~Hit(f, job[d].id)
    BY <2>2 DEF Defer
  <2> QED
    BY <2>1, <2>2
<1> QED
  BY <1>1, <1>2, LeaveStep DEF Defer

LEMMA TickInv == ASSUME IInv, TypeOK', NEW d \in Drainers, Tick(d) PROVE IInv'
<1>1. TypeOK /\ NoFile \notin Actors /\ Drainers \subseteq Actors /\ Requests \subseteq Actors
  BY Basics
<1>2. \A e \in Drainers : \A x \in todo'[e] :
         x[2] <= edits /\ \A p \in Requests : job[p].pc = "saved" => x[2] # job[p].text
  <2> SUFFICES ASSUME NEW e \in Drainers, NEW x \in todo'[e]
               PROVE  x[2] <= edits /\ \A p \in Requests : job[p].pc = "saved" => x[2] # job[p].text
    OBVIOUS
  <2>1. x \in todo[e] \/ \E f \in Forms : x = <<f, row[f].id>>
    BY <1>1 DEF Tick, TypeOK, Picked, Due
  <2> QED
    BY <2>1, FreshIds DEF IInv, Counted
<1> QED
  BY <1>1, <1>2, QuietStep DEF Tick

LEMMA TakeInv ==
    ASSUME IInv, TypeOK', NEW d \in Drainers, NEW x \in todo[d], Take(d, x) PROVE IInv'
<1>1. TypeOK /\ Drainers \subseteq Actors /\ Requests \subseteq Actors /\ d \notin Requests /\ edits \in Nat
  BY Basics, RefreshAssumption
<1>2. job'[d] = At("load", x[1], 0, x[2]) /\ \A b \in Actors \ {d} : job'[b] = job[b]
  BY <1>1 DEF Take, TypeOK
<1>3. x[1] \in Forms
  BY <1>1 DEF TypeOK
<1>4. Stage(d)'
  BY <1>1, <1>2, <1>3 DEF Stage, At
<1>5. Reading(d)'
  BY <1>2 DEF Reading, At
<1>6. /\ job[d].pc # "saved" /\ job'[d].pc # "saved" /\ job'[d].text <= edits
      /\ job'[d].id = x[2] /\ x[2] <= edits
  BY <1>1, <1>2 DEF Take, At, IInv, Counted
<1>7. \A p \in Requests : job[p].pc = "saved" => x[2] # job[p].text
  BY FreshIds
<1>8. \A e \in Drainers : \A y \in todo'[e] :
         y[2] <= edits /\ \A p \in Requests : job[p].pc = "saved" => y[2] # job[p].text
  <2>1. \A e \in Drainers : todo'[e] \subseteq todo[e]
    BY <1>1 DEF Take, TypeOK
  <2> QED
    BY <2>1, FreshIds DEF IInv, Counted
<1> QED
  BY <1>1, <1>2, <1>4, <1>5, <1>6, <1>7, <1>8, QuietStep DEF Take

LEMMA FindInv == ASSUME IInv, TypeOK', NEW a \in Actors, Find(a) PROVE IInv'
<1> DEFINE f == job[a].form
<1>1. /\ TypeOK /\ Drainers \subseteq Actors /\ Requests \subseteq Actors /\ edits \in Nat
      /\ job[a] \in Jobs /\ job[a].pc = "find" /\ job[a].form \in Forms
  BY Basics DEF Find
<1>2. /\ job'[a] = [job[a] EXCEPT !.pc = "file", !.file = current[job[a].form]]
      /\ \A b \in Actors \ {a} : job'[b] = job[b]
  BY <1>1 DEF Find, TypeOK
<1>3. /\ job'[a].pc = "file" /\ job'[a].form = job[a].form /\ job'[a].text = job[a].text
      /\ job'[a].id = job[a].id /\ job'[a].file = current[job[a].form]
  BY <1>1, <1>2 DEF Jobs
<1>4. Stage(a) /\ job[a].text <= edits /\ job[a].id <= edits
  BY DEF IInv, Counted
<1>5. Stage(a)'
  BY <1>1, <1>3, <1>4 DEF Stage, Find
<1>6. ASSUME a \in Drainers PROVE Reading(a)'
  <2>1. Reading(a)
    BY <1>6 DEF IInv
  <2>2. Saving(f) => Saving(f)'
    BY <1>1, <1>2, SavingKept DEF Find
  <2>3. body' = body /\ row' = row /\ behind' = behind
    BY DEF Find
  <2> QED
    BY <1>1, <1>3, <2>1, <2>2, <2>3 DEF Reading, Known, Hit
<1>7. a \in Drainers => \A p \in Requests : job[p].pc = "saved" => job'[a].id # job[p].text
  BY <1>3, FreshIds
<1>8. \A d \in Drainers : \A x \in todo'[d] :
         x[2] <= edits /\ \A p \in Requests : job[p].pc = "saved" => x[2] # job[p].text
  BY FreshIds DEF IInv, Counted, Find
<1> QED
  BY <1>1, <1>2, <1>3, <1>4, <1>5, <1>6, <1>7, <1>8, QuietStep DEF Find

LEMMA ReadInv == ASSUME IInv, TypeOK', NEW d \in Drainers, Read(d) PROVE IInv'
<1> DEFINE f == job[d].form
<1>1. /\ TypeOK /\ Drainers \subseteq Actors /\ Requests \subseteq Actors /\ edits \in Nat
      /\ d \notin Requests
      /\ job[d] \in Jobs /\ job[d].pc = "load" /\ job[d].form \in Forms /\ body[job[d].form] \in Nat
  BY Basics, RefreshAssumption DEF Read
<1>2. /\ job'[d] = [job[d] EXCEPT !.pc = "find", !.text = body[job[d].form]]
      /\ \A b \in Actors \ {d} : job'[b] = job[b]
  BY <1>1 DEF Read, TypeOK
<1>3. /\ job'[d].pc = "find" /\ job'[d].form = job[d].form /\ job'[d].text = body[job[d].form]
      /\ job'[d].id = job[d].id /\ job'[d].file = job[d].file
  BY <1>1, <1>2 DEF Jobs
<1>4. Stage(d) /\ body[job[d].form] <= edits /\ job[d].id <= edits
  BY <1>1 DEF IInv, Counted
<1>5. Stage(d)'
  BY <1>1, <1>3, <1>4 DEF Stage, Read
<1>6. Reading(d)'
  BY <1>1, <1>3 DEF Reading, Known, Read
<1>7. \A p \in Requests : job[p].pc = "saved" => job'[d].id # job[p].text
  BY <1>3, FreshIds
<1>8. \A e \in Drainers : \A x \in todo'[e] :
         x[2] <= edits /\ \A p \in Requests : job[p].pc = "saved" => x[2] # job[p].text
  BY FreshIds DEF IInv, Counted, Read
<1> QED
  BY <1>1, <1>2, <1>3, <1>4, <1>5, <1>6, <1>7, <1>8, QuietStep DEF Read

LEMMA NothingInv == ASSUME IInv, TypeOK', NEW d \in Drainers, Nothing(d) PROVE IInv'
<1> DEFINE f == job[d].form
<1>1. /\ TypeOK /\ Drainers \subseteq Actors /\ Requests \subseteq Actors /\ edits \in Nat
      /\ d \notin Requests
      /\ job[d] \in Jobs /\ job[d].pc \in {"load", "find", "file"} /\ job[d].form \in Forms
      /\ body[job[d].form] \in Nat /\ row[job[d].form].asked \in Nat
  BY Basics, RefreshAssumption DEF Nothing
<1>2. /\ job'[d] = [job[d] EXCEPT !.pc = "drop", !.text = 0, !.file = NoFile]
      /\ \A b \in Actors \ {d} : job'[b] = job[b]
  BY <1>1 DEF Nothing, TypeOK
<1>3. /\ job'[d].pc = "drop" /\ job'[d].form = job[d].form /\ job'[d].text = 0
      /\ job'[d].id = job[d].id /\ job'[d].file = NoFile
  BY <1>1, <1>2 DEF Jobs
<1>4. Stage(d) /\ job[d].id <= edits
  BY <1>1 DEF IInv, Counted
<1>5. Stage(d)'
  BY <1>1, <1>3, <1>4 DEF Stage
<1>6. Reading(d)'
  <2>1. Hit(f, job[d].id) => row[f].asked >= 1
    BY <1>1 DEF IInv, Asked, Queued, Hit
  <2>2. Filed(f)' = Filed(f)
    BY <1>3 DEF Filed, Nothing
  <2>3. Filed(f) \in Nat
    BY <1>1, FiledNat
  <2>4. row' = row /\ body' = body /\ behind' = behind /\ figures' = figures /\ current' = current
    BY DEF Nothing
  <2>5. ~(Hit(f, job[d].id) /\ 0 >= row[f].asked)
    BY <1>1, <2>1
  <2>6. Filed(job[d].form)' >= 0
    BY <2>2, <2>3
  <2> QED
    BY <1>1, <1>3, <2>4, <2>5, <2>6 DEF Reading, Hit
<1>7. \A p \in Requests : job[p].pc = "saved" => job'[d].id # job[p].text
  BY <1>3, FreshIds
<1>8. \A e \in Drainers : \A x \in todo'[e] :
         x[2] <= edits /\ \A p \in Requests : job[p].pc = "saved" => x[2] # job[p].text
  BY FreshIds DEF IInv, Counted, Nothing
<1> QED
  BY <1>1, <1>2, <1>3, <1>4, <1>5, <1>6, <1>7, <1>8, QuietStep DEF Nothing

-----------------------------------------------------------------------------
(* Requests.                                                               *)

\* The next text is later than n.
Newer(n) == n < edits + 1 /\ n <= edits + 1 /\ n # edits + 1

\* A new text is later than all there are.
LEMMA TypeText ==
    ASSUME IInv, NEW p \in Requests, NEW f \in Forms, NEW pc \in {"saved", "find"}, Type(p, f, pc)
    PROVE  /\ edits' = edits + 1
           /\ job'[p] = At(pc, f, edits + 1, 0)
           /\ \A b \in Actors \ {p} : job'[b] = job[b]
           /\ job[p].pc = "idle"
           /\ \A g \in Forms : Newer(body[g]) /\ Newer(row[g].id)
           /\ \A a \in Actors : Newer(job[a].text) /\ Newer(job[a].id)
           /\ \A d \in Drainers : \A x \in todo[d] : Newer(x[2])
           /\ \A q \in Requests : job[q].pc \in {"find", "file"} => job[q].form # f
           /\ row' = row /\ figures' = figures /\ current' = current
           /\ slot' = slot /\ todo' = todo /\ behind' = behind
<1>1. TypeOK /\ p \in Actors /\ edits \in Nat
  BY Basics
<1>2. \A g \in Forms : body[g] \in Nat /\ row[g].id \in Nat
  BY Basics
<1>3. \A a \in Actors : job[a].text \in Nat /\ job[a].id \in Nat
  BY Basics
<1>4. \A d \in Drainers : \A x \in todo[d] : x[2] \in Nat
  BY <1>1, RefreshAssumption DEF TypeOK, Texts
<1>5. job' = [job EXCEPT ![p] = At(pc, f, edits + 1, 0)] /\ ~Submitting(f)
  BY DEF Type
<1>6. \A q \in Requests : job[q].pc \in {"find", "file"} => job[q].form # f
  BY <1>5 DEF Submitting
<1>7. Counted
  BY DEF IInv
<1>8. \A d \in Drainers : \A x \in todo[d] : Newer(x[2])
  BY <1>1, <1>4, <1>7 DEF Counted, Newer
<1>9. \A a \in Actors : Newer(job[a].text) /\ Newer(job[a].id)
  BY <1>1, <1>3, <1>7 DEF Counted, Newer
<1>10. \A g \in Forms : Newer(body[g]) /\ Newer(row[g].id)
  BY <1>1, <1>2, <1>7 DEF Counted, Newer
<1>11. job'[p] = At(pc, f, edits + 1, 0) /\ \A b \in Actors \ {p} : job'[b] = job[b]
  BY <1>1, <1>5 DEF TypeOK
<1> QED
  BY <1>6, <1>8, <1>9, <1>10, <1>11 DEF Type

LEMMA SaveInv == ASSUME IInv, TypeOK', NEW p \in Requests, NEW f \in Forms, Save(p, f) PROVE IInv'
<1>1. /\ TypeOK /\ Drainers \subseteq Actors /\ Requests \subseteq Actors /\ edits \in Nat
      /\ Actors = Drainers \cup Requests /\ p \notin Drainers
      /\ \A g \in Forms : body[g] \in Nat /\ behind[g] \in Nat
      /\ \A a \in Actors : job[a].text \in Nat
  BY Basics, RefreshAssumption
<1>2. Type(p, f, "saved") /\ body' = [body EXCEPT ![f] = edits + 1]
  BY DEF Save
<1>3. /\ edits' = edits + 1
      /\ job'[p] = At("saved", f, edits + 1, 0)
      /\ \A b \in Actors \ {p} : job'[b] = job[b]
      /\ job[p].pc = "idle"
      /\ \A g \in Forms : body[g] <= edits + 1 /\ row[g].id <= edits + 1
                            /\ body[g] # edits + 1 /\ row[g].id # edits + 1 /\ body[g] < edits + 1
      /\ \A a \in Actors : job[a].text <= edits + 1 /\ job[a].id <= edits + 1
                             /\ job[a].text # edits + 1 /\ job[a].id # edits + 1 /\ job[a].text < edits + 1
      /\ \A d \in Drainers : \A x \in todo[d] : x[2] <= edits + 1 /\ x[2] # edits + 1
      /\ \A q \in Requests : job[q].pc \in {"find", "file"} => job[q].form # f
      /\ row' = row /\ figures' = figures /\ current' = current
      /\ slot' = slot /\ todo' = todo /\ behind' = behind
  BY <1>2, TypeText DEF Newer
<1>4. body'[f] = edits + 1 /\ \A g \in Forms \ {f} : body'[g] = body[g]
  BY <1>1, <1>2 DEF TypeOK
<1>5. \A g \in Forms : Filed(g)' = Filed(g)
  BY <1>3 DEF Filed
<1>6. Saving(f)'
  BY <1>3, <1>4 DEF Saving, At
<1>7. \A g \in Forms \ {f} : Saving(g) => Saving(g)'
  BY <1>3, <1>4, SavingKept
<1>8. \A a \in Actors : Stage(a)'
  <2>1. Stage(p)'
    BY <1>1, <1>3 DEF Stage, At
  <2>2. ASSUME NEW b \in Actors, b # p PROVE Stage(b)'
    <3>1. Stage(b) /\ job'[b] = job[b] /\ current' = current
      BY <1>3, <2>2 DEF IInv
    <3> QED
      BY <3>1 DEF Stage, At
  <2> QED
    BY <2>1, <2>2
<1>9. Counted'
  <2>1. \A g \in Forms : body'[g] <= edits' /\ row'[g].id <= edits'
    BY <1>1, <1>3, <1>4 DEF IInv, Counted
  <2>2. \A a \in Actors : job'[a].text <= edits' /\ job'[a].id <= edits'
    BY <1>1, <1>3 DEF At, IInv, Counted
  <2>3. \A d \in Drainers : \A x \in todo'[d] : x[2] <= edits'
    BY <1>1, <1>3 DEF IInv, Counted
  <2> QED
    BY <2>1, <2>2, <2>3 DEF Counted
<1>10. Asked'
  BY <1>3 DEF IInv, Asked, Queued
<1>11. ASSUME NEW q \in Requests PROVE Fresh(q)'
  <2>1. CASE q = p
    BY <1>1, <1>3, <1>4, <2>1 DEF Fresh, At
  <2>2. CASE q # p
    <3> SUFFICES ASSUME job'[q].pc = "saved" PROVE Fresh(q)'
      BY DEF Fresh
    <3>1. job'[q] = job[q] /\ Fresh(q) /\ q \in Actors /\ job[q].form \in Forms
      BY <1>1, <1>3, <2>2, Basics DEF IInv
    <3>2. job[q].text <= body'[job[q].form]
      BY <1>1, <1>3, <1>4, <3>1 DEF Fresh
    <3>3. \A r \in Requests : r # q /\ job'[r].pc = "saved" => job'[r].text # job'[q].text
      BY <1>1, <1>3, <3>1 DEF Fresh, At
    <3>4. \A d \in Drainers : job'[d].id # job'[q].text
      BY <1>1, <1>3, <3>1 DEF Fresh
    <3> QED
      BY <1>3, <3>1, <3>2, <3>3, <3>4 DEF Fresh
  <2> QED
    BY <2>1, <2>2
<1>12. ASSUME NEW q \in Requests PROVE Alone(q)'
  <2> SUFFICES ASSUME job'[q].pc \in {"find", "file"} PROVE Alone(q)'
    BY DEF Alone
  <2>1. q # p /\ job'[q] = job[q] /\ Alone(q) /\ job[q].form # f /\ job[q].form \in Forms
    BY <1>1, <1>3, Basics DEF IInv, At
  <2>2. \A r \in Requests : job'[r].pc \in {"find", "file"} => job'[r] = job[r]
    BY <1>1, <1>3 DEF At
  <2> QED
    BY <1>4, <2>1, <2>2 DEF Alone
<1>13. ASSUME NEW d \in Drainers PROVE Reading(d)'
  <2> DEFINE g == job[d].form
  <2> SUFFICES ASSUME job[d].pc \in {"find", "file", "drop"} PROVE Reading(d)'
    BY <1>1, <1>3 DEF Reading
  <2>1. job'[d] = job[d] /\ Reading(d) /\ g \in Forms
    BY <1>1, <1>3, Basics DEF IInv
  <2>2. CASE g = f
    BY <1>1, <1>3, <1>4, <1>6, <2>1, <2>2 DEF Reading, Known
  <2>3. CASE g # f
    BY <1>3, <1>4, <1>5, <1>7, <2>1, <2>3 DEF Reading, Known, Hit
  <2> QED
    BY <2>2, <2>3
<1>14. ASSUME NEW g \in Forms PROVE Owed(g)'
  <2>1. CASE g = f
    BY <1>3, <1>6, <2>1 DEF Owed, IInv
  <2>2. CASE g # f
    BY <1>3, <1>4, <1>5, <1>7, <2>2 DEF Owed, IInv, Queued
  <2> QED
    BY <2>1, <2>2
<1> QED
  BY <1>8, <1>9, <1>10, <1>11, <1>12, <1>13, <1>14 DEF IInv

LEMMA SubmitInv == ASSUME IInv, TypeOK', NEW p \in Requests, NEW f \in Forms, Submit(p, f) PROVE IInv'
<1>1. /\ TypeOK /\ Drainers \subseteq Actors /\ Requests \subseteq Actors /\ edits \in Nat
      /\ p \notin Drainers
      /\ \A g \in Forms : body[g] \in Nat
      /\ \A a \in Actors : job[a].text \in Nat
  BY Basics, RefreshAssumption
<1>2. Type(p, f, "find") /\ body' = body
  BY DEF Submit
<1>3. /\ edits' = edits + 1
      /\ job'[p] = At("find", f, edits + 1, 0)
      /\ \A b \in Actors \ {p} : job'[b] = job[b]
      /\ job[p].pc = "idle"
      /\ \A g \in Forms : body[g] <= edits + 1 /\ row[g].id <= edits + 1
                            /\ body[g] # edits + 1 /\ row[g].id # edits + 1 /\ body[g] < edits + 1
      /\ \A a \in Actors : job[a].text <= edits + 1 /\ job[a].id <= edits + 1
                             /\ job[a].text # edits + 1 /\ job[a].id # edits + 1 /\ job[a].text < edits + 1
      /\ \A d \in Drainers : \A x \in todo[d] : x[2] <= edits + 1 /\ x[2] # edits + 1
      /\ \A q \in Requests : job[q].pc \in {"find", "file"} => job[q].form # f
      /\ row' = row /\ figures' = figures /\ current' = current
      /\ slot' = slot /\ todo' = todo /\ behind' = behind
  BY <1>2, TypeText DEF Newer
<1>5. \A g \in Forms : Filed(g)' = Filed(g)
  BY <1>3 DEF Filed
<1>7. \A g \in Forms : Saving(g) => Saving(g)'
  BY <1>2, <1>3, SavingKept
<1>8. \A a \in Actors : Stage(a)'
  <2>1. Stage(p)'
    BY <1>1, <1>3 DEF Stage, At
  <2>2. ASSUME NEW b \in Actors, b # p PROVE Stage(b)'
    <3>1. Stage(b) /\ job'[b] = job[b] /\ current' = current
      BY <1>3, <2>2 DEF IInv
    <3> QED
      BY <3>1 DEF Stage, At
  <2> QED
    BY <2>1, <2>2
<1>9. Counted'
  <2>1. \A g \in Forms : body'[g] <= edits' /\ row'[g].id <= edits'
    BY <1>1, <1>2, <1>3 DEF IInv, Counted
  <2>2. \A a \in Actors : job'[a].text <= edits' /\ job'[a].id <= edits'
    BY <1>1, <1>3 DEF At, IInv, Counted
  <2>3. \A d \in Drainers : \A x \in todo'[d] : x[2] <= edits'
    BY <1>1, <1>3 DEF IInv, Counted
  <2> QED
    BY <2>1, <2>2, <2>3 DEF Counted
<1>10. Asked'
  BY <1>3 DEF IInv, Asked, Queued
<1>11. ASSUME NEW q \in Requests PROVE Fresh(q)'
  <2> SUFFICES ASSUME job'[q].pc = "saved" PROVE Fresh(q)'
    BY DEF Fresh
  <2>1. q # p /\ job'[q] = job[q] /\ Fresh(q)
    BY <1>1, <1>3 DEF IInv, At
  <2>2. \A r \in Requests : r # q /\ job'[r].pc = "saved" => job'[r].text # job'[q].text
    BY <1>1, <1>3, <2>1 DEF Fresh, At
  <2>3. \A d \in Drainers : job'[d].id # job'[q].text
    BY <1>1, <1>3, <2>1 DEF Fresh
  <2> QED
    BY <1>2, <1>3, <2>1, <2>2, <2>3 DEF Fresh
<1>12. ASSUME NEW q \in Requests PROVE Alone(q)'
  <2> SUFFICES ASSUME job'[q].pc \in {"find", "file"} PROVE Alone(q)'
    BY DEF Alone
  <2>1. CASE q = p
    <3>1. job'[p].form = f /\ job'[p].text = edits + 1
      BY <1>3 DEF At
    <3>2. \A r \in Requests \ {p} : job'[r].pc \in {"find", "file"} => job'[r].form # f
      BY <1>1, <1>3
    <3> QED
      BY <1>2, <1>3, <2>1, <3>1, <3>2 DEF Alone
  <2>2. CASE q # p
    <3>1. job'[q] = job[q] /\ Alone(q) /\ job[q].form # f
      BY <1>1, <1>3, <2>2 DEF IInv
    <3>2. job'[p].form = f
      BY <1>3 DEF At
    <3>3. \A r \in Requests \ {p} : job'[r] = job[r]
      BY <1>1, <1>3
    <3> QED
      BY <1>2, <3>1, <3>2, <3>3 DEF Alone
  <2> QED
    BY <2>1, <2>2
<1>13. ASSUME NEW d \in Drainers PROVE Reading(d)'
  <2> SUFFICES ASSUME job[d].pc \in {"find", "file", "drop"} PROVE Reading(d)'
    BY <1>1, <1>3 DEF Reading
  <2>1. job'[d] = job[d] /\ Reading(d) /\ job[d].form \in Forms
    BY <1>1, <1>3, Basics DEF IInv
  <2> QED
    BY <1>2, <1>3, <1>5, <1>7, <2>1 DEF Reading, Known, Hit
<1>14. ASSUME NEW g \in Forms PROVE Owed(g)'
  BY <1>2, <1>3, <1>5, <1>7 DEF Owed, IInv, Queued
<1> QED
  BY <1>8, <1>9, <1>10, <1>11, <1>12, <1>13, <1>14 DEF IInv

\* A request that saved something else is not the one that a form waits for.
LEMMA SavingElse ==
    ASSUME IInv, NEW p \in Requests, NEW g \in Forms, Saving(g), body'[g] = body[g],
           \A b \in Actors \ {p} : job'[b] = job[b],
           job[p].form # g \/ job[p].text # body[g]
    PROVE  Saving(g)'
<1>1. PICK q \in Requests : job[q] = At("saved", g, body[g], 0)
  BY DEF Saving
<1>2. q # p
  BY <1>1 DEF At
<1>3. job'[q] = job[q]
  BY <1>2 DEF Actors
<1> QED
  BY <1>1, <1>3 DEF Saving, At

\* A request that has asked or given up, the row of its form being as it likes.
LEMMA AskedStep ==
    ASSUME IInv, TypeOK', NEW p \in Requests, job[p].pc = "saved", NEW f \in Forms, job[p].form = f,
           job' = [job EXCEPT ![p] = Idle],
           edits' = edits, body' = body, figures' = figures, current' = current,
           slot' = slot, todo' = todo,
           \A g \in Forms \ {f} : row'[g] = row[g] /\ behind'[g] = behind[g],
           row'[f].id \in {row[f].id, job[p].text},
           row'[f].at # "none" => row'[f].asked >= 1,
           \A d \in Drainers : job[d].form = f => Reading(d)',
           Owed(f)'
    PROVE  IInv'
<1>1. /\ TypeOK /\ Drainers \subseteq Actors /\ Requests \subseteq Actors /\ edits \in Nat
      /\ Actors = Drainers \cup Requests /\ p \notin Drainers
  BY Basics, RefreshAssumption
<1>2. job'[p] = Idle /\ \A b \in Actors \ {p} : job'[b] = job[b]
  BY <1>1 DEF TypeOK
<1>3. \A g \in Forms : Filed(g)' = Filed(g)
  BY DEF Filed
<1>4. \A g \in Forms \ {f} : Saving(g) => Saving(g)'
  BY <1>2, SavingElse
<1>5. \A a \in Actors : Stage(a)'
  <2>1. Stage(p)'
    BY <1>2, IdleFacts DEF Stage
  <2>2. ASSUME NEW b \in Actors, b # p PROVE Stage(b)'
    <3>1. Stage(b) /\ job'[b] = job[b]
      BY <1>2, <2>2 DEF IInv
    <3> QED
      BY <3>1 DEF Stage, At
  <2> QED
    BY <2>1, <2>2
<1>6. Counted'
  <2>1. Counted
    BY DEF IInv
  <2>2. \A g \in Forms : body'[g] <= edits' /\ row'[g].id <= edits'
    BY <1>1, <2>1 DEF Counted
  <2>3. \A a \in Actors : job'[a].text <= edits' /\ job'[a].id <= edits'
    BY <1>1, <1>2, <2>1, IdleFacts DEF Counted
  <2> QED
    BY <2>1, <2>2, <2>3 DEF Counted
<1>7. Asked'
  BY DEF IInv, Asked, Queued
<1>8. ASSUME NEW q \in Requests PROVE Fresh(q)'
  <2> SUFFICES ASSUME job'[q].pc = "saved" PROVE Fresh(q)'
    BY DEF Fresh
  <2>1. q # p /\ job'[q] = job[q] /\ Fresh(q)
    BY <1>1, <1>2, IdleFacts DEF IInv
  <2>2. \A r \in Requests : r # q /\ job'[r].pc = "saved" => job'[r].text # job'[q].text
    BY <1>1, <1>2, <2>1, IdleFacts DEF Fresh
  <2>3. \A d \in Drainers : job'[d].id # job'[q].text
    BY <1>1, <1>2, <2>1 DEF Fresh
  <2>4. \A g \in Forms : row'[g].id # job'[q].text
    <3>1. row[f].id # job[q].text /\ job[p].text # job[q].text
      BY <2>1 DEF Fresh
    <3> QED
      BY <2>1, <3>1 DEF Fresh
  <2> QED
    BY <2>1, <2>2, <2>3, <2>4 DEF Fresh
<1>9. ASSUME NEW q \in Requests PROVE Alone(q)'
  <2> SUFFICES ASSUME job'[q].pc \in {"find", "file"} PROVE Alone(q)'
    BY DEF Alone
  <2>1. q # p /\ job'[q] = job[q] /\ Alone(q)
    BY <1>1, <1>2, IdleFacts DEF IInv
  <2>2. \A r \in Requests : job'[r].pc \in {"find", "file"} => job'[r] = job[r]
    BY <1>1, <1>2, IdleFacts
  <2> QED
    BY <2>1, <2>2 DEF Alone
<1>10. ASSUME NEW d \in Drainers PROVE Reading(d)'
  <2>1. CASE job[d].form = f
    BY <2>1
  <2>2. CASE job[d].form # f
    <3>1. job'[d] = job[d] /\ Reading(d)
      BY <1>1, <1>2 DEF IInv
    <3>2. job[d].pc # "idle" => job[d].form \in Forms \ {f}
      BY <1>1, <2>2, Basics
    <3> QED
      BY <1>3, <1>4, <3>1, <3>2 DEF Reading, Known, Hit
  <2> QED
    BY <2>1, <2>2
<1>11. ASSUME NEW g \in Forms PROVE Owed(g)'
  <2>1. CASE g # f
    BY <1>3, <1>4, <2>1 DEF IInv, Owed, Queued
  <2> QED
    BY <2>1
<1> QED
  BY <1>5, <1>6, <1>7, <1>8, <1>9, <1>10, <1>11 DEF IInv

LEMMA EnqueueInv ==
    ASSUME IInv, TypeOK', NEW p \in Requests, NEW f \in Forms, job[p].form = f, Enqueue(p)
    PROVE  IInv'
<1>1. /\ TypeOK /\ Drainers \subseteq Actors /\ Requests \subseteq Actors /\ p \notin Drainers
      /\ f \in Forms /\ job[p].pc = "saved" /\ body[f] \in Nat /\ job[p].text \in Nat
      /\ \A d \in Drainers : job[d].text \in Nat
  BY Basics, RefreshAssumption DEF Enqueue
<1>2. /\ row' = [row EXCEPT ![f] = [at |-> "waiting", asked |-> body[f],
                                    id |-> IF f \in Queued THEN row[f].id ELSE job[p].text]]
      /\ behind' = behind /\ body' = body /\ job' = [job EXCEPT ![p] = Idle]
      /\ figures' = figures /\ current' = current /\ slot' = slot /\ todo' = todo /\ edits' = edits
  BY DEF Enqueue
<1>3. /\ row'[f] = [at |-> "waiting", asked |-> body[f],
                    id |-> IF f \in Queued THEN row[f].id ELSE job[p].text]
      /\ \A g \in Forms \ {f} : row'[g] = row[g]
  BY <1>1, <1>2 DEF TypeOK
<1>4. job[p].text >= 1 /\ job[p].text <= body[f]
  BY <1>1, FreshIds
<1>5. row'[f].asked >= 1 /\ row'[f].asked = body[f] /\ f \in Queued'
  BY <1>1, <1>3, <1>4 DEF Queued
<1>6. Owed(f)'
  <2>1. Owed(f)
    BY <1>1 DEF IInv
  <2> QED
    BY <1>2, <1>5, <2>1 DEF Owed
<1>7. ASSUME NEW d \in Drainers, job[d].form = f PROVE Reading(d)'
  <2>1. job'[d] = job[d] /\ Reading(d)
    BY <1>1, <1>2 DEF IInv, TypeOK
  <2>2. Filed(f)' = Filed(f)
    BY <1>2 DEF Filed
  <2>3. Hit(f, job[d].id)' /\ job[d].text >= row'[f].asked => Known(f, job[d].text)'
    BY <1>1, <1>2, <1>5 DEF Known
  <2> QED
    BY <1>2, <1>7, <2>1, <2>2, <2>3 DEF Reading, Hit, Known, Filed, Saving
<1>8. row'[f].id \in {row[f].id, job[p].text} /\ (row'[f].at # "none" => row'[f].asked >= 1)
  BY <1>3, <1>5
<1>9. \A g \in Forms \ {f} : row'[g] = row[g] /\ behind'[g] = behind[g]
  BY <1>2, <1>3
<1> QED
  BY <1>1, <1>2, <1>6, <1>7, <1>8, <1>9, AskedStep

LEMMA EnqueueFailsInv ==
    ASSUME IInv, TypeOK', NEW p \in Requests, NEW f \in Forms, job[p].form = f, EnqueueFails(p)
    PROVE  IInv'
<1>1. /\ TypeOK /\ Drainers \subseteq Actors /\ Requests \subseteq Actors /\ p \notin Drainers
      /\ p \in Actors
      /\ f \in Forms /\ job[p].pc = "saved"
  BY Basics, RefreshAssumption DEF EnqueueFails
<1>2. /\ behind' = IF job[p].text = body[f] THEN [behind EXCEPT ![f] = job[p].text] ELSE behind
      /\ row' = row /\ body' = body /\ job' = [job EXCEPT ![p] = Idle]
      /\ figures' = figures /\ current' = current /\ slot' = slot /\ todo' = todo /\ edits' = edits
  BY DEF EnqueueFails
<1>3. /\ \A g \in Forms \ {f} : behind'[g] = behind[g]
      /\ behind'[f] = IF job[p].text = body[f] THEN body[f] ELSE behind[f]
  BY <1>1, <1>2 DEF TypeOK
<1>4. \A b \in Actors \ {p} : job'[b] = job[b]
  BY <1>1, <1>2 DEF TypeOK
<1>5. Saving(f) => Saving(f)' \/ behind'[f] = body'[f]
  BY <1>1, <1>2, <1>3, <1>4, SavingElse
<1>6. Filed(f)' = Filed(f)
  BY <1>2 DEF Filed
<1>7. behind[f] = body[f] => behind'[f] = body'[f]
  BY <1>2, <1>3
<1>8. Owed(f)'
  <2>1. Owed(f)
    BY <1>1 DEF IInv
  <2>2. Queued' = Queued
    BY <1>2 DEF Queued
  <2>3. /\ (Filed(f) < body[f])' => f \in Queued' \/ Saving(f)' \/ behind'[f] = body'[f]
        /\ slot'[f] = "uploaded" => current'[f] # NoFile
    BY <1>2, <1>5, <1>6, <1>7, <2>1, <2>2 DEF Owed
  <2> QED
    BY <1>1, <1>2, <1>3, <1>5, <1>6, <1>7, <2>1, <2>2 DEF Owed
<1>9. ASSUME NEW d \in Drainers, job[d].form = f PROVE Reading(d)'
  <2>1. job'[d] = job[d] /\ Reading(d)
    BY <1>1, <1>2 DEF IInv, TypeOK
  <2> QED
    BY <1>2, <1>5, <1>6, <1>7, <1>9, <2>1 DEF Reading, Known, Hit
<1>10. row'[f].id \in {row[f].id, job[p].text} /\ (row'[f].at # "none" => row'[f].asked >= 1)
  BY <1>1, <1>2 DEF IInv, Asked, Queued
<1> QED
  BY <1>1, <1>2, <1>3, <1>8, <1>9, <1>10, AskedStep


-----------------------------------------------------------------------------
(* A document is committed.                                                *)

LEMMA CommitSubmitInv ==
    ASSUME IInv, TypeOK', NEW p \in Requests, NEW f \in Forms, job[p].form = f, CommitSubmit(p)
    PROVE  IInv'
<1>1. /\ TypeOK /\ Drainers \subseteq Actors /\ Requests \subseteq Actors /\ edits \in Nat
      /\ Actors = Drainers \cup Requests /\ p \notin Drainers /\ p \in Actors
      /\ job[p].pc = "file" /\ job[p].text \in Nat /\ job[p].text \in Texts
      /\ \A g \in Forms : body[g] \in Nat
      /\ \A a \in Actors : job[a].text \in Nat
  <2>1. job[p].text \in Texts /\ p \in Actors
    BY Basics DEF Jobs
  <2> QED
    BY <2>1, Basics, RefreshAssumption DEF CommitSubmit
<1>2. /\ body' = [body EXCEPT ![f] = job[p].text]
      /\ row' = [row EXCEPT ![f] = NoRow]
      /\ job' = [job EXCEPT ![p] = Idle]
      /\ slot' = [slot EXCEPT ![f] = "uploaded"]
      /\ edits' = edits /\ todo' = todo
  BY DEF CommitSubmit, Satisfied
<1>3. /\ body'[f] = job[p].text /\ row'[f] = NoRow /\ job'[p] = Idle
      /\ \A g \in Forms \ {f} : body'[g] = body[g] /\ row'[g] = row[g] /\ slot'[g] = slot[g]
      /\ \A b \in Actors \ {p} : job'[b] = job[b]
  BY <1>1, <1>2 DEF TypeOK
<1>4. /\ current'[f] # NoFile
      /\ \A g \in Forms \ {f} :
            Filed(g)' = Filed(g) /\ current'[g] = current[g] /\ behind'[g] = behind[g]
      /\ behind'[f] = body'[f] \/ Filed(f)' >= body'[f]
  <2>1. File(p, job[p].text)
    BY DEF CommitSubmit
  <2> QED
    BY <1>1, <1>3, <2>1, FileStep
<1>5. Alone(p) /\ Counted /\ job[p].text <= edits
  BY <1>1 DEF IInv, Counted
<1>6. /\ body[f] < body'[f]
      /\ \A q \in Requests \ {p} : job[q].pc \in {"find", "file"} => job[q].form # f
  BY <1>1, <1>3, <1>5 DEF Alone
<1>7. \A g \in Forms \ {f} : Saving(g) => Saving(g)'
  BY <1>1, <1>3, SavingKept
<1>8. \A a \in Actors : Stage(a)'
  <2>1. Stage(p)'
    BY <1>3, IdleFacts DEF Stage
  <2>2. ASSUME NEW b \in Actors, b # p PROVE Stage(b)'
    <3>1. Stage(b) /\ job'[b] = job[b]
      BY <1>3, <2>2 DEF IInv
    <3>2. \A g : current[g] # NoFile /\ g \in Forms => current'[g] # NoFile
      BY <1>4
    <3>3. job[b].file # NoFile => job[b].form \in Forms
      BY <3>1 DEF Stage
    <3> QED
      BY <3>1, <3>2, <3>3 DEF Stage, At
  <2> QED
    BY <2>1, <2>2
<1>9. Counted'
  <2>1. \A g \in Forms : body'[g] <= edits' /\ row'[g].id <= edits'
    BY <1>1, <1>2, <1>3, <1>5 DEF Counted, NoRow
  <2>2. \A a \in Actors : job'[a].text <= edits' /\ job'[a].id <= edits'
    BY <1>1, <1>2, <1>3, <1>5, IdleFacts DEF Counted
  <2> QED
    BY <1>2, <1>5, <2>1, <2>2 DEF Counted
<1>10. Asked'
  BY <1>3 DEF IInv, Asked, Queued, NoRow
<1>11. ASSUME NEW q \in Requests PROVE Fresh(q)'
  <2> SUFFICES ASSUME job'[q].pc = "saved" PROVE Fresh(q)'
    BY DEF Fresh
  <2>1. q # p /\ q \in Actors /\ job'[q] = job[q] /\ Fresh(q)
    BY <1>1, <1>3, IdleFacts DEF IInv
  <2>2. \A r \in Requests : r # q /\ job'[r].pc = "saved" => job'[r].text # job'[q].text
    BY <1>1, <1>3, <2>1, IdleFacts DEF Fresh
  <2>3. \A d \in Drainers : job'[d].id # job'[q].text
    BY <1>1, <1>3, <2>1 DEF Fresh
  <2>4. \A g \in Forms : row'[g].id # job'[q].text
    BY <1>1, <1>3, <2>1 DEF Fresh, NoRow
  <2>5. job[q].form \in Forms
    BY <2>1, Basics
  <2>6. job'[q].text <= body'[job'[q].form]
    <3>1. job[q].text <= body[job[q].form]
      BY <2>1 DEF Fresh
    <3> QED
      BY <1>1, <1>3, <1>6, <2>1, <2>5, <3>1
  <2> QED
    BY <1>2, <2>1, <2>2, <2>3, <2>4, <2>6 DEF Fresh
<1>12. ASSUME NEW q \in Requests PROVE Alone(q)'
  <2> SUFFICES ASSUME job'[q].pc \in {"find", "file"} PROVE Alone(q)'
    BY DEF Alone
  <2>1. q # p /\ job'[q] = job[q] /\ Alone(q) /\ job[q].form \in Forms
    BY <1>1, <1>3, IdleFacts, Basics DEF IInv
  <2>2. \A r \in Requests : job'[r].pc \in {"find", "file"} => job'[r] = job[r]
    BY <1>1, <1>3, IdleFacts
  <2>3. body'[job[q].form] = body[job[q].form]
    BY <1>3, <1>6, <2>1
  <2> QED
    BY <2>1, <2>2, <2>3 DEF Alone
<1>13. ASSUME NEW d \in Drainers PROVE Reading(d)'
  <2> SUFFICES ASSUME job[d].pc \in {"find", "file", "drop"} PROVE Reading(d)'
    BY <1>1, <1>3 DEF Reading
  <2>1. job'[d] = job[d] /\ Reading(d) /\ job[d].form \in Forms
    BY <1>1, <1>3, Basics DEF IInv
  <2>2. CASE job[d].form = f
    <3>1. job[d].text < body'[f]
      BY <1>1, <1>3, <1>6, <2>1, <2>2 DEF Reading
    <3>2. ~Hit(f, job[d].id)'
      BY <1>3 DEF Hit, NoRow
    <3> QED
      BY <1>1, <1>3, <2>1, <2>2, <3>1, <3>2 DEF Reading, Hit
  <2>3. CASE job[d].form # f
    BY <1>3, <1>4, <1>7, <2>1, <2>3 DEF Reading, Known, Hit
  <2> QED
    BY <2>2, <2>3
<1>14. ASSUME NEW g \in Forms PROVE Owed(g)'
  <2>1. CASE g = f
    <3>1. Filed(f)' \in Nat
      <4>1. Texts \subseteq Nat /\ 0 \in Nat
        BY RefreshAssumption DEF Texts
      <4>2. current'[f] # NoFile => figures'[f][current'[f]] \in Texts
        BY DEF TypeOK
      <4> QED
        BY <4>1, <4>2 DEF Filed
    <3> QED
      BY <1>1, <1>3, <1>4, <2>1, <3>1 DEF Owed
  <2>2. CASE g # f
    BY <1>3, <1>4, <1>7, <2>2 DEF Owed, IInv, Queued
  <2> QED
    BY <2>1, <2>2
<1> QED
  BY <1>8, <1>9, <1>10, <1>11, <1>12, <1>13, <1>14 DEF IInv

LEMMA DrawInv ==
    ASSUME IInv, TypeOK', NEW d \in Drainers, NEW f \in Forms, job[d].form = f, Draw(d)
    PROVE  IInv'
<1>1. /\ TypeOK /\ Drainers \subseteq Actors /\ Requests \subseteq Actors /\ edits \in Nat
      /\ Actors = Drainers \cup Requests /\ d \notin Requests /\ d \in Actors
      /\ job[d].pc = "file" /\ job[d] \in Jobs /\ body[f] \in Texts
      /\ \A g \in Forms : body[g] \in Nat
      /\ \A a \in Actors : job[a].text \in Nat
  <2>1. body[f] \in Texts
    BY Basics DEF TypeOK
  <2> QED
    BY <2>1, Basics, RefreshAssumption DEF Draw
<1>2. /\ body' = body /\ row' = row /\ slot' = slot /\ edits' = edits /\ todo' = todo
      /\ job'[d] = [job[d] EXCEPT !.pc = "drop", !.file = NoFile]
      /\ \A b \in Actors \ {d} : job'[b] = job[b]
  BY <1>1 DEF Draw, TypeOK
<1>3. /\ job'[d].pc = "drop" /\ job'[d].form = f /\ job'[d].text = job[d].text
      /\ job'[d].id = job[d].id /\ job'[d].file = NoFile
  BY <1>1, <1>2 DEF Jobs
<1>4. /\ current'[f] # NoFile
      /\ \A g \in Forms \ {f} :
            Filed(g)' = Filed(g) /\ current'[g] = current[g] /\ behind'[g] = behind[g]
      /\ \/ behind'[f] = body[f]
         \/ behind' = behind /\ Filed(f)' >= job[d].text /\ Filed(f)' >= Filed(f)
  <2>1. File(d, body[f])
    BY DEF Draw
  <2> QED
    BY <1>1, <2>1, FileStep
<1>5. Filed(f) \in Nat /\ Filed(f)' \in Nat
  <2>1. Texts \subseteq Nat /\ 0 \in Nat
    BY RefreshAssumption DEF Texts
  <2>2. current'[f] # NoFile => figures'[f][current'[f]] \in Texts
    BY DEF TypeOK
  <2> QED
    BY <2>1, <2>2, FiledNat DEF Filed
<1>6. \A g \in Forms : Saving(g) => Saving(g)'
  BY <1>1, <1>2, SavingKept
<1>7. \A g \in Forms : behind[g] = body[g] => behind'[g] = body[g]
  BY <1>4
<1>8. \A a \in Actors : Stage(a)'
  <2>1. Stage(d)'
    BY <1>1, <1>3 DEF Stage
  <2>2. ASSUME NEW b \in Actors, b # d PROVE Stage(b)'
    <3>1. Stage(b) /\ job'[b] = job[b]
      BY <1>2, <2>2 DEF IInv
    <3>2. \A g : current[g] # NoFile /\ g \in Forms => current'[g] # NoFile
      BY <1>4
    <3>3. job[b].file # NoFile => job[b].form \in Forms
      BY <3>1 DEF Stage
    <3> QED
      BY <3>1, <3>2, <3>3 DEF Stage, At
  <2> QED
    BY <2>1, <2>2
<1>9. Counted'
  <2>1. Counted
    BY DEF IInv
  <2>2. \A a \in Actors : job'[a].text <= edits' /\ job'[a].id <= edits'
    BY <1>1, <1>2, <1>3, <2>1 DEF Counted
  <2> QED
    BY <1>2, <2>1, <2>2 DEF Counted
<1>10. Asked'
  BY <1>2 DEF IInv, Asked, Queued
<1>11. ASSUME NEW q \in Requests PROVE Fresh(q)'
  <2>1. Fresh(q) /\ job'[q] = job[q]
    BY <1>1, <1>2 DEF IInv
  <2>2. \A r \in Requests : job'[r] = job[r]
    BY <1>1, <1>2
  <2>3. \A e \in Drainers : job'[e].id = job[e].id
    BY <1>1, <1>2, <1>3
  <2> QED
    BY <1>2, <2>1, <2>2, <2>3 DEF Fresh
<1>12. ASSUME NEW q \in Requests PROVE Alone(q)'
  <2>1. Alone(q) /\ \A r \in Requests : job'[r] = job[r]
    BY <1>1, <1>2 DEF IInv
  <2> QED
    BY <1>2, <2>1 DEF Alone
<1>13. ASSUME NEW e \in Drainers PROVE Reading(e)'
  <2>1. Reading(e) /\ (job[e].pc # "idle" => job[e].form \in Forms) /\ job[e].text \in Nat
    BY <1>1, Basics DEF IInv
  <2>2. CASE e = d
    <3>1. /\ job[d].text <= body[f]
          /\ Hit(f, job[d].id) /\ job[d].text >= row[f].asked => Known(f, job[d].text)
      BY <1>1, <2>1, <2>2 DEF Reading
    <3>2. Known(f, job[d].text) => Known(f, job[d].text)'
      BY <1>2, <1>3, <1>6, <1>7 DEF Known
    <3>3. Filed(f)' >= job[d].text \/ behind'[f] = body'[f]
      BY <1>2, <1>4
    <3> QED
      BY <1>2, <1>3, <2>2, <3>1, <3>2, <3>3 DEF Reading, Hit, Known
  <2>3. CASE e # d
    <3>1. job'[e] = job[e]
      BY <1>1, <1>2, <2>3
    <3>2. CASE job[e].form = f
      <4>1. Filed(f) >= job[e].text => Filed(f)' >= job[e].text \/ behind'[f] = body[f]
        BY <1>4, <1>5, <2>1
      <4> QED
        BY <1>2, <1>6, <1>7, <2>1, <3>1, <3>2, <4>1 DEF Reading, Known, Hit
    <3>3. CASE job[e].form # f
      BY <1>2, <1>4, <1>6, <2>1, <3>1, <3>3 DEF Reading, Known, Hit
    <3> QED
      BY <3>2, <3>3
  <2> QED
    BY <2>2, <2>3
<1>14. ASSUME NEW g \in Forms PROVE Owed(g)'
  <2>1. Owed(g)
    BY DEF IInv
  <2>2. CASE g = f
    <3>1. Filed(f)' < body[f] => Filed(f) < body[f] \/ behind'[f] = body[f]
      BY <1>1, <1>4, <1>5
    <3> QED
      BY <1>2, <1>4, <1>6, <1>7, <2>1, <2>2, <3>1 DEF Owed, Queued
  <2>3. CASE g # f
    BY <1>2, <1>4, <1>6, <2>1, <2>3 DEF Owed, Queued
  <2> QED
    BY <2>2, <2>3
<1> QED
  BY <1>8, <1>9, <1>10, <1>11, <1>12, <1>13, <1>14 DEF IInv

LEMMA DropInv ==
    ASSUME IInv, TypeOK', NEW d \in Drainers, NEW f \in Forms, job[d].form = f, Drop(d)
    PROVE  IInv'
<1>1. /\ TypeOK /\ Drainers \subseteq Actors /\ Requests \subseteq Actors /\ edits \in Nat
      /\ Actors = Drainers \cup Requests /\ d \notin Requests /\ d \in Actors
      /\ job[d].pc = "drop" /\ body[f] \in Nat /\ row[f].asked \in Nat /\ row[f].id \in Nat
      /\ \A a \in Actors : job[a].text \in Nat
  BY Basics, RefreshAssumption DEF Drop
<1>2. /\ body' = body /\ figures' = figures /\ current' = current
      /\ slot' = slot /\ edits' = edits /\ todo' = todo
      /\ job'[d] = Idle /\ \A b \in Actors \ {d} : job'[b] = job[b]
  BY <1>1 DEF Drop, TypeOK
<1>3. /\ row' = IF Hit(f, job[d].id) THEN [row EXCEPT ![f] = NoRow] ELSE row
      /\ behind' = IF row[f].id = job[d].id /\ job[d].text < row[f].asked
                   THEN [behind EXCEPT ![f] = body[f]] ELSE behind
  BY DEF Drop
<1>4. /\ \A g \in Forms \ {f} : row'[g] = row[g] /\ behind'[g] = behind[g]
      /\ row'[f] \in {row[f], NoRow}
      /\ row'[f] # row[f] => Hit(f, job[d].id)
      /\ row'[f] = row[f] \/ row'[f] = NoRow
  BY <1>1, <1>3 DEF TypeOK
<1>5. \A g \in Forms : behind[g] = body[g] => behind'[g] = body[g]
  BY <1>1, <1>3 DEF TypeOK
<1>6. \A g \in Forms : Saving(g) => Saving(g)'
  BY <1>1, <1>2, SavingKept
<1>7. \A g \in Forms : Filed(g)' = Filed(g) /\ Filed(g) \in Nat
  BY <1>2, FiledNat DEF Filed
<1>8. Hit(f, job[d].id) => Filed(f) >= body[f] \/ Saving(f) \/ behind'[f] = body[f]
  <2> SUFFICES ASSUME Hit(f, job[d].id), ~Saving(f), behind'[f] # body[f]
               PROVE  Filed(f) >= body[f]
    OBVIOUS
  <2>1. job[d].text >= row[f].asked
    BY <1>1, <1>3 DEF Hit, TypeOK
  <2>2. behind[f] # body[f]
    BY <1>5
  <2>3. Reading(d)
    BY DEF IInv
  <2>4. Known(f, job[d].text) /\ job[d].text <= body[f]
    BY <1>1, <2>1, <2>3 DEF Reading
  <2>5. body[f] = job[d].text
    BY <1>1, <2>2, <2>4 DEF Known
  <2> QED
    BY <1>1, <1>7, <2>2, <2>3, <2>5 DEF Reading
<1>9. \A a \in Actors : Stage(a)'
  <2>1. Stage(d)'
    BY <1>2, IdleFacts DEF Stage
  <2>2. ASSUME NEW b \in Actors, b # d PROVE Stage(b)'
    <3>1. Stage(b) /\ job'[b] = job[b]
      BY <1>2, <2>2 DEF IInv
    <3> QED
      BY <1>2, <3>1 DEF Stage, At
  <2> QED
    BY <2>1, <2>2
<1>10. Counted'
  <2>1. Counted
    BY DEF IInv
  <2>2. \A a \in Actors : job'[a].text <= edits' /\ job'[a].id <= edits'
    BY <1>1, <1>2, <2>1, IdleFacts DEF Counted
  <2>3. \A g \in Forms : row'[g].id <= edits
    BY <1>1, <1>4, <2>1 DEF Counted, NoRow
  <2> QED
    BY <1>2, <2>1, <2>2, <2>3 DEF Counted
<1>11. Asked'
  BY <1>4 DEF IInv, Asked, Queued, NoRow
<1>12. ASSUME NEW q \in Requests PROVE Fresh(q)'
  <2> SUFFICES ASSUME job'[q].pc = "saved" PROVE Fresh(q)'
    BY DEF Fresh
  <2>1. q # d /\ q \in Actors /\ job'[q] = job[q] /\ Fresh(q) /\ job[q].text \in Nat
    BY <1>1, <1>2 DEF IInv
  <2>2. \A r \in Requests : job'[r] = job[r]
    BY <1>1, <1>2
  <2>3. \A e \in Drainers : job'[e].id # job'[q].text
    BY <1>1, <1>2, <2>1, IdleFacts DEF Fresh
  <2>4. \A g \in Forms : row'[g].id # job'[q].text
    BY <1>1, <1>4, <2>1 DEF Fresh, NoRow
  <2> QED
    BY <1>2, <2>1, <2>2, <2>3, <2>4 DEF Fresh
<1>13. ASSUME NEW q \in Requests PROVE Alone(q)'
  <2>1. Alone(q) /\ \A r \in Requests : job'[r] = job[r]
    BY <1>1, <1>2 DEF IInv
  <2> QED
    BY <1>2, <2>1 DEF Alone
<1>14. ASSUME NEW e \in Drainers PROVE Reading(e)'
  <2>1. CASE e = d
    BY <1>2, <2>1, IdleFacts DEF Reading
  <2>2. CASE e # d
    <3>1. Reading(e) /\ job'[e] = job[e] /\ (job[e].pc # "idle" => job[e].form \in Forms)
      BY <1>1, <1>2, <2>2, Basics DEF IInv
    <3>2. \A g \in Forms : Hit(g, job[e].id)' => Hit(g, job[e].id) /\ row'[g] = row[g]
      BY <1>4, <3>1 DEF Hit, NoRow
    <3>3. \A g \in Forms : Known(g, job[e].text) => Known(g, job[e].text)'
      BY <1>2, <1>5, <1>6, <3>1 DEF Known
    <3> QED
      BY <1>2, <1>5, <1>7, <3>1, <3>2, <3>3 DEF Reading
  <2> QED
    BY <2>1, <2>2
<1>15. ASSUME NEW g \in Forms PROVE Owed(g)'
  <2>1. Owed(g)
    BY DEF IInv
  <2>2. CASE g = f /\ Hit(f, job[d].id)
    <3>1. ~(Filed(f)' < body'[f]) \/ Saving(f)' \/ behind'[f] = body'[f]
      BY <1>1, <1>2, <1>6, <1>7, <1>8, <2>2
    <3> QED
      BY <1>2, <2>1, <2>2, <3>1 DEF Owed
  <2>3. CASE ~(g = f /\ Hit(f, job[d].id))
    <3>1. row'[g] = row[g]
      BY <1>3, <1>4, <2>3
    <3> QED
      BY <1>2, <1>5, <1>6, <1>7, <2>1, <3>1 DEF Owed, Queued
  <2> QED
    BY <2>2, <2>3
<1> QED
  BY <1>9, <1>10, <1>11, <1>12, <1>13, <1>14, <1>15 DEF IInv

-----------------------------------------------------------------------------
(* The theorems.                                                           *)

LEMMA Invariance == IInv /\ [Next]_vars => IInv'
<1> SUFFICES ASSUME IInv, [Next]_vars PROVE IInv'
  OBVIOUS
<1>1. TypeOK'
  BY TypeStep
<1>2. Drainers \subseteq Actors /\ Requests \subseteq Actors
  BY Basics
<1>3. \A a \in Actors : job[a].pc # "idle" => job[a].form \in Forms
  BY Basics
<1>4. CASE UNCHANGED vars
  BY <1>1, <1>4, StutterInv
<1>5. ASSUME NEW f \in Forms, Ripen(f) PROVE IInv'
  BY <1>1, <1>5, RipenInv
<1>6. ASSUME NEW p \in Requests, NEW f \in Forms, Save(p, f) \/ Submit(p, f) PROVE IInv'
  BY <1>1, <1>6, SaveInv, SubmitInv
<1>7. ASSUME NEW p \in Requests, Enqueue(p) \/ EnqueueFails(p) \/ CommitSubmit(p) PROVE IInv'
  <2>1. job[p].form \in Forms
    BY <1>2, <1>3, <1>7 DEF Enqueue, EnqueueFails, CommitSubmit
  <2> QED
    BY <1>1, <1>7, <2>1, EnqueueInv, EnqueueFailsInv, CommitSubmitInv
<1>8. ASSUME NEW p \in Requests, AbortSubmit(p) PROVE IInv'
  BY <1>1, <1>8, AbortSubmitInv
<1>9. ASSUME NEW a \in Actors, Find(a) PROVE IInv'
  BY <1>1, <1>9, FindInv
<1>10. ASSUME NEW d \in Drainers, Tick(d) PROVE IInv'
  BY <1>1, <1>10, TickInv
<1>11. ASSUME NEW d \in Drainers, NEW x \in todo[d], Take(d, x) PROVE IInv'
  BY <1>1, <1>11, TakeInv
<1>12. ASSUME NEW d \in Drainers, Read(d) \/ Nothing(d) PROVE IInv'
  BY <1>1, <1>12, ReadInv, NothingInv
<1>13. ASSUME NEW d \in Drainers, Draw(d) \/ Drop(d) PROVE IInv'
  <2>1. job[d].form \in Forms
    BY <1>2, <1>3, <1>13 DEF Draw, Drop
  <2> QED
    BY <1>1, <1>13, <2>1, DrawInv, DropInv
<1>14. ASSUME NEW d \in Drainers, Defer(d) PROVE IInv'
  BY <1>1, <1>2, <1>3, <1>14, DeferInv DEF Defer
<1>15. ASSUME NEW d \in Drainers, DeferFails(d) \/ Crash(d) PROVE IInv'
  BY <1>1, <1>15, DeferFailsInv, CrashInv
<1> QED
  BY <1>2, <1>4, <1>5, <1>6, <1>7, <1>8, <1>9, <1>10, <1>11, <1>12, <1>13, <1>14, <1>15
     DEF Next, Work

\* The inductive invariant holds always, however many drains and requests there are.
THEOREM InductiveInvariant == Spec => []IInv
  BY InitIInv, Invariance, PTL DEF Spec

\* Forms, rows, documents and jobs keep their types (drafted_forms.py).
THEOREM TypeCorrect == Spec => []TypeOK
<1>1. IInv => TypeOK
  BY DEF IInv
<1> QED
  BY InductiveInvariant, <1>1, PTL

\* A text that is saved and not on its document is queued, about to be, or was given
\* up in one of the ways that behind records (queue_refresh, drain_refresh_queue).
THEOREM NothingIsForgotten == Spec => []NothingForgotten
<1>1. IInv => NothingForgotten
  BY OwedIsNothingForgotten DEF IInv
<1> QED
  BY InductiveInvariant, <1>1, PTL
=============================================================================
