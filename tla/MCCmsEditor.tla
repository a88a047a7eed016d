----------------------------- MODULE MCCmsEditor -----------------------------
(***************************************************************************)
(* Small instances of what an editor of the CMS meets: the session that    *)
(* the tabs share, the form of a record, and what the form of a video does *)
(* with its attachments.  They share no variable, so each is checked with  *)
(* the others at rest: all that a session does to a form is to take it     *)
(* away (Leave, LeaveForm), and what is saved of the fields and of the     *)
(* attachments are different requests.                                     *)
(***************************************************************************)
EXTENDS AdminSession, RecordForm, VideoForm, TLC

CONSTANTS t1, t2, c1, c2, c3, u1, u2, n1, n2, i1, l1, l2, up1, tab1, tab2, x1

VARIABLE part

editorVars == <<part, sessionVars, formVars, vars>>

Where == (c1 :> t1) @@ (c2 :> t1) @@ (c3 :> t2)

EditorInit ==
  /\ SessionInit /\ FormInit /\ Init
  /\ part \in {"session", "form", "video"}
  /\ part # "form" => value = [f \in Fields |-> Empty] /\ streamer = {} /\ list[l1].at = "asked"
  /\ part # "video" => links = EachField({})

EditorNext ==
  \/ part = "session" /\ SessionNext /\ UNCHANGED <<part, formVars, vars>>
  \/ part = "form" /\ FormNext /\ UNCHANGED <<part, sessionVars, vars>>
  \/ part = "video" /\ Next /\ UNCHANGED <<part, sessionVars, formVars>>

EditorSpec == EditorInit /\ [][EditorNext]_editorVars
=============================================================================
