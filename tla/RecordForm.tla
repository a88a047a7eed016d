------------------------------ MODULE RecordForm ------------------------------
(***************************************************************************)
(* A form of the CMS that edits one record (ResourceForm.tsx), for its two *)
(* kinds of field that call a server while the form is open: the choice of *)
(* a stream (StreamVideoField.tsx), which lists what the streamer has and  *)
(* uploads to it, and media fields (MediaField.tsx, useMediaUpload.ts).    *)
(* The form is saved as a whole; what it shows and what is stored part.    *)
(***************************************************************************)
EXTENDS Naturals, FiniteSets

CONSTANTS
  Names,        \* names of videos on the streamer
  Media,        \* ids a media upload may be given
  MediaFields,
  Lists,        \* GETs of the streamer's list that may be out at once
  Uploads,      \* uploads to the streamer that may be out at once
  Empty,        \* null: nothing bound
  MaxChanges    \* bound: what others do to the streamer, and edits

ASSUME EmptyAssumption == Empty \notin Names \cup Media
ASSUME ChangesAssumption == MaxChanges \in Nat
ASSUME CallsAssumption == {"stream", "none"} \cap MediaFields = {} /\ "page" \notin Uploads

Fields == {"stream"} \cup MediaFields
Values == Names \cup Media \cup {Empty}

VARIABLES
  open,         \* the form is on the page
  value,        \* what it shows, by field
  stored,       \* the row
  save,         \* the PATCH: the values handleFinish took
  touched,      \* history: fields changed since
  streamer,     \* the names the streamer has
  videos,       \* StreamVideoField: its list, its flags and its calls
  loading,
  uploading,
  list,
  upload,
  isUploading,  \* useMediaUpload: one flag for all media fields
  posting,      \* the media field whose upload is out
  picked,       \* history: what an upload has selected,
  excused,      \* and names that the list may miss
  changes

streamVars == <<videos, loading, uploading, list, upload, picked, excused>>
mediaVars == <<isUploading, posting>>
formVars == <<open, value, stored, save, touched, streamVars, mediaVars, streamer, changes>>

NoField == "none"
NoList == [at |-> "none", names |-> {}, stale |-> FALSE, for |-> "page"]
NoUpload == [at |-> "none", name |-> Empty]
NoSave == [at |-> "none", taken |-> [f \in Fields |-> Empty]]

(* The GET of the effect that runs when the form appears. *)
Mounted(l) ==
  /\ videos = {} /\ loading = TRUE /\ uploading = FALSE
  /\ list = [m \in Lists |-> IF m = l THEN [NoList EXCEPT !.at = "asked"] ELSE NoList]
  /\ upload = [u \in Uploads |-> NoUpload]
  /\ isUploading = FALSE /\ posting = NoField /\ picked = Empty /\ excused = {}

FormInit ==
  /\ open = TRUE
  /\ stored \in [Fields -> Values]
  /\ stored["stream"] \in Names \cup {Empty}
  /\ \A f \in MediaFields : stored[f] \in Media \cup {Empty}
  /\ value = stored
  /\ save = NoSave
  /\ touched = {}
  /\ streamer \in SUBSET Names
  /\ \E l \in Lists : Mounted(l)
  /\ changes = 0

(* onChange of a field, by the editor or by an upload that has ended. *)
Set(f, v) ==
  /\ value' = [value EXCEPT ![f] = v]
  /\ touched' = IF save.at = "sent" THEN touched \cup {f} ELSE touched

Edited == changes < MaxChanges /\ changes' = changes + 1

(* An upload of the page goes on in the page only; nobody takes its answer *)
(* when the form has gone.                                                 *)
Unmount ==
  /\ open' = FALSE
  /\ touched' = {}
  /\ videos' = {} /\ loading' = FALSE /\ uploading' = FALSE
  /\ list' = [l \in Lists |-> NoList]
  /\ upload' = [u \in Uploads |-> NoUpload]
  /\ isUploading' = FALSE /\ posting' = NoField /\ picked' = Empty /\ excused' = {}

-----------------------------------------------------------------------------
(***************************************************************************)
(* StreamVideoField                                                        *)
(***************************************************************************)

(* buildVideoOptions: what is listed, and what is bound in any case.       *)
OptionsListed == {[value |-> n, known |-> TRUE] : n \in videos}
Options ==
  {[value |-> n, known |-> TRUE] : n \in videos} \cup
  {[value |-> n, known |-> FALSE] : n \in {value["stream"]} \ (videos \cup {Empty})}

Choose(n) ==
  /\ open
  /\ \E o \in Options : o.value = n
  /\ Edited /\ Set("stream", n)
  /\ UNCHANGED <<open, stored, save, streamer, streamVars, mediaVars>>

ClearStream ==
  /\ open /\ value["stream"] # Empty
  /\ Edited /\ Set("stream", Empty)
  /\ UNCHANGED <<open, stored, save, streamer, streamVars, mediaVars>>

Asked(l, for) == list' = [list EXCEPT ![l] = [NoList EXCEPT !.at = "asked", !.for = for]]

(* The button, which is dead while it looks busy. *)
Refresh(l) ==
  /\ open /\ ~loading
  /\ list[l].at = "none"
  /\ Edited
  /\ loading' = TRUE
  /\ Asked(l, "page")
  /\ UNCHANGED <<open, value, stored, save, touched, streamer, videos, uploading, upload, picked, excused, mediaVars>>

(* The streamer answers with what it has. *)
ListServed(l) ==
  /\ list[l].at = "asked"
  /\ list' = [list EXCEPT ![l] = [list[l] EXCEPT !.at = "served", !.names = streamer]]
  /\ UNCHANGED <<open, value, stored, save, touched, streamer, videos, loading, uploading, upload, picked, excused, mediaVars, changes>>

(* refresh has ended; an upload that waited for it selects its video.      *)
(* Answers served before this one and not yet here are stale from now on.  *)
Refreshed(l, names) ==
  /\ videos' = names
  /\ loading' = FALSE
  /\ list' = [m \in Lists |->
       IF m = l THEN NoList
       ELSE IF list[m].at = "served" THEN [list[m] EXCEPT !.stale = TRUE] ELSE list[m]]
  /\ LET u == list[l].for IN
     IF u = "page" THEN UNCHANGED <<value, touched, uploading, upload, picked>>
     ELSE /\ Set("stream", upload[u].name)
          /\ picked' = upload[u].name
          /\ uploading' = FALSE
          /\ upload' = [upload EXCEPT ![u] = NoUpload]

ListArrives(l) ==
  /\ list[l].at = "served"
  /\ Refreshed(l, list[l].names)
  /\ excused' = IF list[l].stale THEN excused \cup (videos \ list[l].names) ELSE excused
  /\ UNCHANGED <<open, stored, save, streamer, mediaVars, changes>>

(* refresh keeps the list it has and throws nothing. *)
ListFails(l) ==
  /\ list[l].at # "none"
  /\ Refreshed(l, videos)
  /\ excused' = IF list[l].for = "page" THEN excused ELSE excused \cup {upload[list[l].for].name}
  /\ UNCHANGED <<open, stored, save, streamer, mediaVars, changes>>

(* The button looks busy, the Upload around it still takes a file. *)
StartUpload(u, n) ==
  /\ open
  /\ upload[u].at = "none"
  /\ Edited
  /\ uploading' = TRUE
  /\ upload' = [upload EXCEPT ![u] = [at |-> "posting", name |-> n]]
  /\ UNCHANGED <<open, value, stored, save, touched, streamer, videos, loading, list, picked, excused, mediaVars>>

(* Accepted, and the answer names the video: the list is fetched again.    *)
UploadAccepted(u, l) ==
  /\ upload[u].at = "posting" /\ upload[u].name \notin streamer
  /\ list[l].at = "none"
  /\ streamer' = streamer \cup {upload[u].name}
  /\ upload' = [upload EXCEPT ![u] = [upload[u] EXCEPT !.at = "listing"]]
  /\ loading' = TRUE
  /\ Asked(l, u)
  /\ UNCHANGED <<open, value, stored, save, touched, videos, uploading, picked, excused, mediaVars, changes>>

(* Slip: the flag stays up when the upload fails. *)
UploadFailsBusy(u) ==
  /\ upload[u].at = "posting"
  /\ upload' = [upload EXCEPT ![u] = NoUpload]
  /\ streamer' \in {streamer, streamer \cup {upload[u].name}}
  /\ UNCHANGED <<open, value, stored, save, touched, videos, loading, uploading, list, picked, excused, mediaVars, changes>>

(* Refused, as a name that is taken is, or the answer is lost. *)
UploadFails(u) ==
  /\ upload[u].at = "posting"
  /\ upload' = [upload EXCEPT ![u] = NoUpload]
  /\ uploading' = FALSE
  /\ streamer' \in {streamer, streamer \cup {upload[u].name}}
  /\ UNCHANGED <<open, value, stored, save, touched, videos, loading, list, picked, excused, mediaVars, changes>>

-----------------------------------------------------------------------------
(***************************************************************************)
(* MediaField                                                              *)
(***************************************************************************)

(* All the form's media buttons are dead while isUploading. *)
ChooseFile(f) ==
  /\ open /\ ~isUploading
  /\ Edited
  /\ isUploading' = TRUE /\ posting' = f
  /\ UNCHANGED <<open, value, stored, save, touched, streamer, streamVars>>

MediaUploaded(f, id) ==
  /\ posting = f
  /\ Set(f, id)
  /\ isUploading' = FALSE /\ posting' = NoField
  /\ UNCHANGED <<open, stored, save, streamer, streamVars, changes>>

MediaFails(f) ==
  /\ posting = f
  /\ isUploading' = FALSE /\ posting' = NoField
  /\ UNCHANGED <<open, value, stored, save, touched, streamer, streamVars, changes>>

ClearMedia(f) ==
  /\ open /\ value[f] # Empty
  /\ Edited /\ Set(f, Empty)
  /\ UNCHANGED <<open, stored, save, streamer, streamVars, mediaVars>>

-----------------------------------------------------------------------------
(***************************************************************************)
(* Saving and leaving                                                      *)
(***************************************************************************)

(* handleFinish takes every field of the form, touched or not. *)
Finish ==
  /\ open /\ save.at = "none"
  /\ save' = [at |-> "sent", taken |-> value]
  /\ touched' = {}
  /\ UNCHANGED <<open, value, stored, streamer, streamVars, mediaVars, changes>>

(* Slip: what is stored already stays. *)
AppliedIfMissing(taken) == [f \in Fields |-> IF stored[f] = Empty THEN taken[f] ELSE stored[f]]

(* applyToEntity leaves alone what the body has no value for.              *)
Applied(taken) == [f \in Fields |-> IF taken[f] = Empty THEN stored[f] ELSE taken[f]]

(* The framework shows the list once the PATCH is answered. *)
Saved ==
  /\ save.at = "sent"
  /\ stored' = Applied(save.taken)
  /\ save' = NoSave
  /\ Unmount
  /\ UNCHANGED <<value, streamer, changes>>

SavedAfterLeaving ==
  /\ save.at = "left"
  /\ stored' = Applied(save.taken)
  /\ save' = NoSave
  /\ UNCHANGED <<open, value, touched, streamer, streamVars, mediaVars, changes>>

SaveFails ==
  /\ save.at # "none"
  /\ save' = NoSave /\ touched' = {}
  /\ UNCHANGED <<open, value, stored, streamer, streamVars, mediaVars, changes>>

(* To another page, or to the login page because a call was refused. *)
Leave ==
  /\ open
  /\ save' = IF save.at = "sent" THEN [save EXCEPT !.at = "left"] ELSE save
  /\ Unmount
  /\ UNCHANGED <<value, stored, streamer, changes>>

Open(l) ==
  /\ ~open
  /\ open' = TRUE
  /\ value' = stored
  /\ loading' = TRUE
  /\ Asked(l, "page")
  /\ UNCHANGED <<stored, save, touched, streamer, videos, uploading, upload, picked, excused, mediaVars, changes>>

(* An operator copies a file to the streamer, or removes one. *)
OthersChange(n) ==
  /\ Edited
  /\ streamer' = IF n \in streamer THEN streamer \ {n} ELSE streamer \cup {n}
  /\ excused' = IF n \in streamer THEN excused \cup {n} ELSE excused
  /\ UNCHANGED <<open, value, stored, save, touched, videos, loading, uploading, list, upload, picked, mediaVars>>

FormNext ==
  \/ \E n \in Names : Choose(n) \/ OthersChange(n) \/ \E u \in Uploads : StartUpload(u, n)
  \/ ClearStream \/ Finish \/ Saved \/ SavedAfterLeaving \/ SaveFails \/ Leave
  \/ \E l \in Lists : Refresh(l) \/ ListServed(l) \/ ListArrives(l) \/ ListFails(l) \/ Open(l)
  \/ \E u \in Uploads : UploadFails(u) \/ \E l \in Lists : UploadAccepted(u, l)
  \/ \E f \in MediaFields : ChooseFile(f) \/ MediaFails(f) \/ ClearMedia(f)
                            \/ \E id \in Media : MediaUploaded(f, id)

FormSpec == FormInit /\ [][FormNext]_formVars

-----------------------------------------------------------------------------
(***************************************************************************)
(* Properties                                                              *)
(***************************************************************************)

ListRecord == [at : {"none", "asked", "served"}, names : SUBSET Names, stale : BOOLEAN,
               for : {"page"} \cup Uploads]
UploadRecord == [at : {"none", "posting", "listing"}, name : Names \cup {Empty}]
SaveRecord == [at : {"none", "sent", "left"}, taken : [Fields -> Values]]

(* A stream field holds names, a media field ids. *)
FormTypeOK ==
  /\ open \in BOOLEAN
  /\ value \in [Fields -> Values] /\ stored \in [Fields -> Values]
  /\ \A f \in Fields : value[f] \in (IF f = "stream" THEN Names ELSE Media) \cup {Empty}
  /\ save \in SaveRecord
  /\ touched \subseteq Fields
  /\ streamer \subseteq Names /\ videos \subseteq Names /\ excused \subseteq Names
  /\ picked \in Names \cup {Empty}
  /\ list \in [Lists -> ListRecord]
  /\ upload \in [Uploads -> UploadRecord]
  /\ loading \in BOOLEAN /\ uploading \in BOOLEAN /\ isUploading \in BOOLEAN
  /\ posting \in MediaFields \cup {NoField}
  /\ changes \in 0..MaxChanges

(* A field that looks busy, and whose button is dead for that, waits for   *)
(* something that can still come: no error and no order of answers leaves  *)
(* a flag up (the finally of refresh, beforeUpload and upload).            *)
BusyWaits ==
  /\ loading => \E l \in Lists : list[l].at # "none"
  /\ uploading => \E u \in Uploads : upload[u].at # "none"
  /\ isUploading => posting # NoField

(* The video that an upload has selected is among the options, and shown   *)
(* as one the streamer has, unless the list could not be fetched, an older *)
(* answer overtook a newer one, or the video has been removed              *)
(* (StreamVideoField.tsx, buildVideoOptions).                              *)
UploadIsOffered ==
  open /\ picked # Empty /\ value["stream"] = picked =>
    \E o \in Options : o.value = picked /\ (o.known \/ picked \in excused)

(* What the form shows when it goes away after a save is what is stored:   *)
(* except fields set after the save was pressed, by the editor or by an    *)
(* upload that ended then, and fields cleared, whose row keeps its value.  *)
SavedAsShown ==
  [][save.at = "sent" /\ open /\ Saved =>
       \A f \in Fields \ touched :
         stored'[f] = IF value[f] = Empty THEN stored[f] ELSE value[f]]_formVars
=============================================================================
