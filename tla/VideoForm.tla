------------------------------ MODULE VideoForm ------------------------------
(***************************************************************************)
(* The CMS's form of one video, for what it does about the video's         *)
(* attachments (ResourceForm.tsx), and the part of the admin API that      *)
(* keeps them (VideoMetadataService).  There are two fields, "securities"  *)
(* and "people"; what is attached to a video in a field is a set of items: *)
(* a security, or a person in a role.                                      *)
(***************************************************************************)
EXTENDS Naturals, FiniteSets

CONSTANTS
  Forms,         \* where an editor may have the form open
  AttachFields,
  Items,
  Blank,        \* a row of the form without an id: nobody chosen yet
  None,         \* undefined: no answer yet
  MaxEdits      \* bound: how often an editor changes a field

ASSUME FieldsAssumption == AttachFields \subseteq {"securities", "people"}
ASSUME BlankAssumption == Blank \notin Items

VARIABLES
  links,        \* tables video_security and video_person, as committed
  form,         \* the form in each tab
  put,          \* the PUT of a tab's field, and its transaction
  edits

vars == <<links, form, put, edits>>

EachField(x) == [f \in AttachFields |-> x]

(* What the form holds of the fields; what handleFinish took of them.      *)
(* History: the form is as the effect filled it; it was when it was taken. *)
Closed == [at |-> "closed", answer |-> EachField(None), seeded |-> FALSE, value |-> EachField({}),
           taken |-> EachField({}), untouched |-> FALSE, asFilled |-> FALSE]

(* found is what deleteByVideoId found.  History: another PUT of the field *)
(* has overtaken it since; the form was saved as it had been filled.       *)
NoPut == [at |-> "none", set |-> {}, found |-> {}, overtaken |-> FALSE, asFilled |-> FALSE]

Init ==
  /\ links \in [AttachFields -> SUBSET Items]
  /\ form = [t \in Forms |-> Closed]
  /\ put = [t \in Forms |-> EachField(NoPut)]
  /\ edits = 0

-----------------------------------------------------------------------------
(***************************************************************************)
(* What is sent and what is made of it                                     *)
(***************************************************************************)

(* SecurityDtoV1 and PersonRefDtoV1 have no id. *)
Dto(items) == IF items = {} THEN {} ELSE {Blank}

(* toSecurityIds keeps the ids; toPersonRoleRows keeps rows without one.   *)
ToRows(f, sent) == IF f = "securities" THEN sent \ {Blank} ELSE sent

(* toSecurityIds and toPersonRolePayload. *)
Payload(rows) == rows \ {Blank}

-----------------------------------------------------------------------------
(***************************************************************************)
(* The form                                                                *)
(***************************************************************************)

(* The page is entered: the two GETs are sent. *)
OpenForm(t) ==
  /\ form[t].at = "closed"
  /\ form' = [form EXCEPT ![t] = [Closed EXCEPT !.at = "open"]]
  /\ UNCHANGED <<links, put, edits>>

(* Slip: the effect does not ask whether it has run before. *)
SeedAgain(fm) ==
  IF \E f \in AttachFields : fm.answer[f] = None THEN fm
  ELSE [fm EXCEPT !.seeded = TRUE, !.untouched = TRUE,
                     !.value = [f \in AttachFields |-> ToRows(f, fm.answer[f])]]

(* The effect, when an answer has changed: once both are there the fields  *)
(* are set from them, over what the editor may have chosen already.  After *)
(* that nothing looks at the answers, and the model forgets them.          *)
Seed(fm) ==
  IF fm.seeded THEN [fm EXCEPT !.answer = EachField(None)]
  ELSE IF \E f \in AttachFields : fm.answer[f] = None THEN fm
  ELSE [fm EXCEPT !.seeded = TRUE, !.untouched = TRUE, !.answer = EachField(None),
                  !.value = [f \in AttachFields |-> ToRows(f, fm.answer[f])]]

(* A GET is answered, for the first time or, as the query client does when *)
(* the network is back and the answer is old, again.                       *)
Answer(t, f) ==
  /\ form[t].at # "closed"
  /\ form' = [form EXCEPT ![t] = Seed([form[t] EXCEPT !.answer[f] = Dto(links[f])])]
  /\ UNCHANGED <<links, put, edits>>

Edit(t, f, value) ==
  /\ form[t].at # "closed"
  /\ edits < MaxEdits
  /\ form' = [form EXCEPT ![t].value[f] = value, ![t].untouched = FALSE]
  /\ edits' = edits + 1
  /\ UNCHANGED <<links, put>>

(* A security is picked, or taken out. *)
EditSecurities(t) ==
  LET rows == form[t].value["securities"] IN
  \E x \in Items : Edit(t, "securities", IF x \in rows THEN rows \ {x} ELSE rows \cup {x})

(* A row of nobody is added, a row is removed, or gets another person or   *)
(* role, or nobody again.                                                  *)
EditPeople(t) ==
  LET rows == form[t].value["people"] IN
    \/ Edit(t, "people", rows \cup {Blank})
    \/ \E x \in rows : Edit(t, "people", rows \ {x})
    \/ \E x \in rows, y \in Items \cup {Blank} : Edit(t, "people", (rows \ {x}) \cup {y})

(* handleFinish takes the fields' values and sends the PATCH.  (Bound: a   *)
(* tab has one save under way; a further one is another tab's.)            *)
HandleFinish(t) ==
  /\ form[t].at = "open"
  /\ \A f \in AttachFields : put[t][f].at = "none"
  /\ form' = [form EXCEPT ![t].at = "patching", ![t].taken = form[t].value,
                         ![t].asFilled = form[t].untouched]
  /\ UNCHANGED <<links, put, edits>>

(* The PATCH failed: onFinish throws and nothing is put. *)
PatchFails(t) ==
  /\ form[t].at = "patching"
  /\ form' = [form EXCEPT ![t].at = "open"]
  /\ UNCHANGED <<links, put, edits>>

(* The PATCH is through: the page goes to the list, and a PUT of each      *)
(* field is sent.                                                          *)
Patched(t) ==
  /\ form[t].at = "patching"
  /\ form' = [form EXCEPT ![t] = Closed]
  /\ put' = [put EXCEPT ![t] = [f \in AttachFields |->
               [NoPut EXCEPT !.at = "sent", !.set = Payload(form[t].taken[f]),
                             !.asFilled = form[t].asFilled]]]
  /\ UNCHANGED <<links, edits>>

(* The editor leaves without saving. *)
LeaveForm(t) ==
  /\ form[t].at = "open"
  /\ form' = [form EXCEPT ![t] = Closed]
  /\ UNCHANGED <<links, put, edits>>

-----------------------------------------------------------------------------
(***************************************************************************)
(* AdminVideoMetadataController.set..., one transaction per PUT            *)
(***************************************************************************)

(* deleteByVideoId selects the rows ... *)
PutReads(t, f) ==
  /\ put[t][f].at = "sent"
  /\ put' = [put EXCEPT ![t][f].at = "read", ![t][f].found = links[f]]
  /\ UNCHANGED <<links, form, edits>>

(* ... deletes each of them by its key, inserts the new ones and commits.  *)
(* (Waiting for a row that another transaction holds is not yet committing.*)
(* What it commits beside the rows it found and wrote was committed by     *)
(* others since.)                                                          *)
Committed(t, f, stored) ==
  /\ put[t][f].at = "read"
  /\ put[t][f].found \subseteq links[f]
  /\ links' = [links EXCEPT ![f] = stored]
  /\ put' = [u \in Forms |-> [g \in AttachFields |->
               IF u = t /\ g = f THEN NoPut
               ELSE IF g = f /\ put[u][g].at = "read" THEN [put[u][g] EXCEPT !.overtaken = TRUE]
               ELSE put[u][g]]]
  /\ UNCHANGED <<form, edits>>

(* Slip: the old rows stay. *)
PutAdds(t, f) == Committed(t, f, links[f] \cup put[t][f].set)

PutCommits(t, f) == Committed(t, f, (links[f] \ put[t][f].found) \cup put[t][f].set)

(* A row to be deleted is gone, a row to be inserted is there, the video   *)
(* is gone, the token has run out: the PUT of this field fails, the other  *)
(* one goes on.                                                            *)
PutFails(t, f) ==
  /\ put[t][f].at # "none"
  /\ put' = [put EXCEPT ![t][f] = NoPut]
  /\ UNCHANGED <<links, form, edits>>

Next ==
  \E t \in Forms :
    \/ OpenForm(t) \/ HandleFinish(t) \/ PatchFails(t) \/ Patched(t) \/ LeaveForm(t)
    \/ "securities" \in AttachFields /\ EditSecurities(t)
    \/ "people" \in AttachFields /\ EditPeople(t)
    \/ \E f \in AttachFields :
         \/ Answer(t, f)
         \/ PutReads(t, f) \/ PutCommits(t, f) \/ PutFails(t, f)

Spec == Init /\ [][Next]_vars

-----------------------------------------------------------------------------
(***************************************************************************)
(* Properties                                                              *)
(***************************************************************************)

Form == [at : {"closed", "open", "patching"}, answer : [AttachFields -> {None} \cup SUBSET {Blank}],
         seeded : BOOLEAN, value : [AttachFields -> SUBSET (Items \cup {Blank})],
         taken : [AttachFields -> SUBSET (Items \cup {Blank})], untouched : BOOLEAN, asFilled : BOOLEAN]
PutRecord == [at : {"none", "sent", "read"}, set : SUBSET Items, found : SUBSET Items,
              overtaken : BOOLEAN, asFilled : BOOLEAN]

(* Blank rows stay in the form; only items are sent and stored. *)
TypeOK ==
  /\ links \in [AttachFields -> SUBSET Items]
  /\ form \in [Forms -> Form]
  /\ put \in [Forms -> [AttachFields -> PutRecord]]
  /\ edits \in Nat

(* Once the form has been filled from the server, answers that come again, *)
(* late or in any order leave what the editor sees and chooses alone.      *)
EditsSurvive ==
  [][\A t \in Forms, f \in AttachFields :
       form[t].seeded /\ Answer(t, f) => form'[t].value = form[t].value]_vars

(* "PUT replaces the full set" (AdminVideoMetadataController.java:16),     *)
(* whatever two editors save at the same time: a set that nobody sent is   *)
(* stored only by a PUT that another one has overtaken.                    *)
PutReplacesUnlessOvertaken ==
  [][\A t \in Forms, f \in AttachFields :
       PutCommits(t, f) /\ ~put[t][f].overtaken => links'[f] = put[t][f].set]_vars

-----------------------------------------------------------------------------
(* "GET returns the current set" and "PUT replaces the full set            *)
(* (idempotent)" (AdminVideoMetadataController.java:16), the form is       *)
(* filled with what GET returned: saving a form whose fields nobody has    *)
(* touched changes no attachment.                                          *)
UntouchedIsKept ==
  [][\A t \in Forms, f \in AttachFields :
       put[t][f].asFilled /\ ~put[t][f].overtaken /\ PutCommits(t, f) => links'[f] = links[f]]_vars
=============================================================================
