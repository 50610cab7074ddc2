----------------------------- MODULE UploadPage -----------------------------
(***************************************************************************)
(* fileupload.js: the files picked for an HTTP upload, one XMLHttpRequest  *)
(* per file, and the list of tasks that shows how each of them fares.      *)
(*                                                                         *)
(* A request and the list item made for it have one number here, their     *)
(* place among those the page has made.  The page knows a request by its   *)
(* task id only: the handlers of its events look up appState.uploadTasks,  *)
(* which Clear All and Logout empty while requests are under way, and the  *)
(* ids start again from 0 after a logout.                                  *)
(***************************************************************************)
EXTENDS PageParameters, SequencesExt

VARIABLES
  selected,     \* appState.selectedFiles
  counter,      \* appState.taskIdCounter
  made,         \* number of requests made so far
  xhr,          \* xhr[i]: the task id its handlers hold, its state, bytes sent
  items,        \* items[i]: what the item of request i displays
  tasks,        \* appState.uploadTasks: task id -> item (and request), status
  taskList,     \* the items in the list
  clearButton,  \* is Clear All displayed?
  uploadButton, \* is Upload enabled?
  signedIn      \* appState.token

upload == <<selected, counter, made, xhr, items, tasks, taskList,
            clearButton, uploadButton, signedIn>>

----------------------------------------------------------------------------
(* Types *)

Slots == 1..MaxTasks
Status == {"uploading", "completed", "error"}

UploadTypeOK ==
  /\ selected \in Seq(Files)
  /\ Len(selected) <= MaxPicked
  /\ counter \in 0..MaxTasks
  /\ made \in 0..MaxTasks
  /\ xhr \in [Slots -> [task : 0..MaxTasks, sent : 0..Steps,
                        state : {"new", "sent", "completed", "error"}]]
  /\ items \in [Slots -> [status : Status, percent : 0..Steps]]
  /\ DOMAIN tasks \subseteq 0..MaxTasks
  /\ \A t \in DOMAIN tasks : tasks[t] \in [element : Slots, status : Status]
  /\ taskList \subseteq 1..made
  /\ {clearButton, uploadButton, signedIn} \subseteq BOOLEAN

NoTasks == [t \in {} |-> [element |-> 1, status |-> "uploading"]]

\* What a fresh page holds; whether it is signed in, localStorage tells.
Fresh ==
  /\ selected = << >>
  /\ counter = 0
  /\ made = 0
  /\ xhr = [i \in Slots |-> [task |-> 0, sent |-> 0, state |-> "new"]]
  /\ items = [i \in Slots |-> [status |-> "uploading", percent |-> 0]]
  /\ tasks = NoTasks
  /\ taskList = {}
  /\ clearButton = FALSE
  /\ uploadButton = FALSE

UploadInit == Fresh /\ signedIn \in BOOLEAN

----------------------------------------------------------------------------
(* Picking files *)

\* selectedFiles.find(name and size are those of f)
Picked(f) == \E i \in DOMAIN selected : LookOf[selected[i]] = LookOf[f]

\* handleFileSelect, handleDrop: addFilesToSelection of one file; several are
\* added one after the other.
Select(f) ==
  /\ signedIn
  /\ Picked(f) \/ Len(selected) < MaxPicked
  /\ selected' = IF Picked(f) THEN selected ELSE Append(selected, f)
  /\ uploadButton' = TRUE
  /\ UNCHANGED <<counter, made, xhr, items, tasks, taskList, clearButton,
                 signedIn>>

\* removeFileFromSelection: the Remove button of the i-th file.
RemoveFile(i) ==
  /\ signedIn
  /\ selected' = RemoveAt(selected, i)
  /\ uploadButton' = (Len(selected) > 1)
  /\ UNCHANGED <<counter, made, xhr, items, tasks, taskList, clearButton,
                 signedIn>>

----------------------------------------------------------------------------
(* Requests *)

\* The requests that uploading the selection makes.
NewSlots == (made + 1)..(made + Len(selected))

\* uploadFile: taskIdCounter++ for the k-th new request.
TaskOf(i) == counter + (i - made) - 1

\* Mutant: the tasks of an earlier upload are dropped from the map.
WithNewTasksOnly ==
  [t \in {TaskOf(i) : i \in NewSlots} |->
     [element |-> made + (t - counter) + 1, status |-> "uploading"]]

\* appState.uploadTasks with the tasks of the new requests.
WithNewTasks ==
  [t \in DOMAIN tasks \cup {TaskOf(i) : i \in NewSlots} |->
     IF t >= counter THEN [element |-> made + (t - counter) + 1, status |-> "uploading"]
     ELSE tasks[t]]

\* handleUpload: uploadFile for every selected file; the button is enabled
\* again although nothing is selected any more.
Upload ==
  /\ uploadButton /\ signedIn /\ selected # << >>
  /\ made + Len(selected) <= MaxTasks
  /\ made' = made + Len(selected)
  /\ counter' = counter + Len(selected)
  /\ xhr' = [i \in Slots |->
       IF i \in NewSlots THEN [task |-> TaskOf(i), sent |-> 0, state |-> "sent"]
       ELSE xhr[i]]
  /\ tasks' = WithNewTasks
  /\ taskList' = taskList \cup NewSlots
  /\ selected' = << >>
  /\ UNCHANGED <<items, clearButton, uploadButton, signedIn>>

\* uploadTasks[taskId].element
ItemOf(t) == tasks[t].element

\* A progress event of request i: updateTaskProgress.
Progress(i) ==
  /\ xhr[i].state = "sent" /\ xhr[i].sent < Steps
  /\ xhr' = [xhr EXCEPT ![i].sent = @ + 1]
  /\ items' = IF xhr[i].task \in DOMAIN tasks
              THEN [items EXCEPT ![ItemOf(xhr[i].task)].percent = xhr[i].sent + 1]
              ELSE items  \* the handler throws
  /\ UNCHANGED <<selected, counter, made, tasks, taskList, clearButton,
                 uploadButton, signedIn>>

\* Mutants: the item of the latest upload is marked; none is.
MarkedLast(t, status) == [items EXCEPT ![made].status = status]
MarkedNever(t, status) == items

\* The item of task t displays its final status.
Marked(t, status) == [items EXCEPT ![ItemOf(t)].status = status]

\* updateClearButtonVisibility, after the items have changed to `shown`.
ClearVisible(shown) ==
  clearButton \/ \E i \in taskList : shown[i].status \in {"completed", "error"}

\* completeTask and failTask; of a task that is gone they throw at once.
Settle(t, status) ==
  IF t \in DOMAIN tasks
  THEN /\ items' = Marked(t, status)
       /\ tasks' = [tasks EXCEPT ![t].status = status]
       /\ clearButton' = ClearVisible(items')
  ELSE UNCHANGED <<items, tasks, clearButton>>

\* The load event with status 200 or 201; another status, or an error event.
Finish(i, status) ==
  /\ xhr[i].state = "sent"
  /\ xhr' = [xhr EXCEPT ![i].state = status]
  /\ Settle(xhr[i].task, status)
  /\ UNCHANGED <<selected, counter, made, taskList, uploadButton, signedIn>>

\* cancelUploadTask: the Cancel button of an item, hidden once it is settled.
\* abort() fires the abort event, and failTask with it, before it returns.
Cancel(i) ==
  LET t == xhr[i].task
      j == ItemOf(t)
  IN  /\ i \in taskList /\ items[i].status = "uploading"
      /\ t \in DOMAIN tasks /\ tasks[t].status = "uploading"
      /\ xhr[j].state = "sent"
      /\ xhr' = [xhr EXCEPT ![j].state = "error"]
      /\ Settle(xhr[j].task, "error")
      /\ UNCHANGED <<selected, counter, made, taskList, uploadButton, signedIn>>

\* handleClearTasks
ClearTasks ==
  /\ clearButton /\ signedIn
  /\ taskList' = {}
  /\ tasks' = NoTasks
  /\ clearButton' = FALSE
  /\ UNCHANGED <<selected, counter, made, xhr, items, uploadButton, signedIn>>

----------------------------------------------------------------------------
(* The session around it *)

\* resetFileUploadState, called by handleLogout before it replaces the page.
ResetUploadState ==
  /\ signedIn
  /\ signedIn' = FALSE
  /\ selected' = << >>
  /\ counter' = 0
  /\ tasks' = NoTasks
  /\ taskList' = {}
  /\ UNCHANGED <<made, xhr, items, clearButton, uploadButton>>

\* Until the new page is there, the old one can be logged in to again.
Login == ~signedIn /\ signedIn' = TRUE /\ UNCHANGED
  <<selected, counter, made, xhr, items, tasks, taskList, clearButton, uploadButton>>

\* The page is replaced, or reloaded by the user.
Reload ==
  /\ selected' = << >> /\ counter' = 0 /\ made' = 0
  /\ xhr' = [i \in Slots |-> [task |-> 0, sent |-> 0, state |-> "new"]]
  /\ items' = [i \in Slots |-> [status |-> "uploading", percent |-> 0]]
  /\ tasks' = NoTasks /\ taskList' = {}
  /\ clearButton' = FALSE /\ uploadButton' = FALSE
  /\ UNCHANGED signedIn

----------------------------------------------------------------------------

UploadNext ==
  \/ \E f \in Files : Select(f)
  \/ \E i \in DOMAIN selected : RemoveFile(i)
  \/ Upload
  \/ \E i \in Slots : Progress(i)
  \/ \E i \in Slots, status \in {"completed", "error"} : Finish(i, status)
  \/ \E i \in Slots : Cancel(i)
  \/ ClearTasks
  \/ ResetUploadState
  \/ Login
  \/ Reload

UploadSpec == UploadInit /\ [][UploadNext]_upload

\* The network answers a request or breaks its connection.
UploadFairness == \A i \in Slots :
  WF_upload(\E status \in {"completed", "error"} : Finish(i, status))

----------------------------------------------------------------------------
(* Properties *)

\* No other request of this page holds the task id of request i.
OwnId(i) == \A j \in 1..made : j # i => xhr[j].task # xhr[i].task

Shown(state) == IF state = "sent" THEN "uploading" ELSE state

\* An item displays the state of its own request, and no more progress than it
\* has made, however the events of several requests interleave, and whatever was
\* cancelled or cleared; only a logout without a reload can give two requests
\* one id.
OwnOutcome == \A i \in taskList : OwnId(i) =>
  /\ items[i].status = Shown(xhr[i].state)
  /\ items[i].percent = xhr[i].sent

\* An upload that is displayed as going on can be cancelled: its task is in the
\* map, with that item and that status, even after its id was used twice.
Cancellable == \A i \in taskList : items[i].status = "uploading" =>
  LET t == xhr[i].task
  IN  t \in DOMAIN tasks /\ tasks[t] = [element |-> i, status |-> "uploading"]

\* No item stays "Uploading" for ever, unless it leaves the list: neither
\* clearing the list nor using an id again takes away the event it waits for.
Settles == \A i \in Slots :
  (i \in taskList /\ items[i].status = "uploading")
    ~> (i \notin taskList \/ items[i].status # "uploading")
=============================================================================
