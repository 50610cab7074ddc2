---------------------------- MODULE RequestProofs ----------------------------
(***************************************************************************)
(* Proofs about the pages that send requests and show what becomes of them,*)
(* UploadPage, PaymentForm and AdminCalls, for any files, card numbers,    *)
(* buttons and number of requests.                                         *)
(***************************************************************************)
EXTENDS UploadPage, PaymentForm, AdminCalls, SequenceTheorems, TLAPS

----------------------------------------------------------------------------
(* UploadPage *)

USE LookAssumption, UploadBounds

Xhr == [task : 0..MaxTasks, sent : 0..Steps, state : {"new", "sent", "completed", "error"}]
Item == [status : Status, percent : 0..Steps]
Task == [element : Slots, status : Status]

\* The types in two parts: what is picked, and what was made of it.
PickedTyped ==
  /\ selected \in Seq(Files) /\ Len(selected) <= MaxPicked
  /\ clearButton \in BOOLEAN /\ uploadButton \in BOOLEAN /\ signedIn \in BOOLEAN

MadeTyped ==
  /\ counter \in 0..MaxTasks /\ made \in 0..MaxTasks
  /\ xhr \in [Slots -> Xhr]
  /\ items \in [Slots -> Item]
  /\ DOMAIN tasks \subseteq 0..MaxTasks
  /\ \A t \in DOMAIN tasks : tasks[t] \in Task
  /\ taskList \subseteq 1..made

\* The types of the upload page, part by part.
LEMMA UploadTypedInParts == UploadTypeOK <=> PickedTyped /\ MadeTyped
BY DEF UploadTypeOK, PickedTyped, MadeTyped, Xhr, Item, Task

\* The same, after a step.
LEMMA UploadTypedInPartsNext == UploadTypeOK' <=> PickedTyped' /\ MadeTyped'
BY DEF UploadTypeOK, PickedTyped, MadeTyped, Xhr, Item, Task

\* How requests, tasks and items belong together: an item on the list has its
\* task, a task has the item of the newest request with its id, and nothing is
\* displayed yet of a request to come.
Linked ==
  /\ counter <= made
  /\ \A t \in DOMAIN tasks : /\ t < counter
                             /\ tasks[t].element \in 1..made
                             /\ xhr[tasks[t].element].task = t
  /\ \A i \in taskList : /\ xhr[i].task \in DOMAIN tasks
                         /\ tasks[xhr[i].task].element = i
  /\ \A i \in Slots : i > made => /\ items[i] = [status |-> "uploading", percent |-> 0]
                                  /\ xhr[i].state = "new"

\* What is said of the requests and their items.
MadeInv == MadeTyped /\ Linked /\ OwnOutcome /\ Cancellable

\* The inductive invariant.
UploadInv == UploadTypeOK /\ Linked /\ OwnOutcome /\ Cancellable

\* The invariant of the upload page, part by part.
LEMMA UploadInParts == UploadInv <=> PickedTyped /\ MadeInv
BY UploadTypedInParts DEF UploadInv, MadeInv

\* The same, after a step.
LEMMA UploadInPartsNext == UploadInv' <=> PickedTyped' /\ MadeInv'
BY UploadTypedInPartsNext DEF UploadInv, MadeInv

\* A step that leaves requests, tasks and items alone.
LEMMA MadeKept ==
  ASSUME MadeInv, UNCHANGED <<counter, made, xhr, items, tasks, taskList>>
  PROVE  MadeInv'
BY DEF MadeInv, MadeTyped, Linked, OwnOutcome, OwnId, Cancellable

\* A step that empties the task list and the map.
LEMMA EmptiedInv ==
  ASSUME MadeInv, UNCHANGED <<made, xhr, items>>, tasks' = NoTasks, taskList' = {},
         counter' \in {counter, 0}
  PROVE  MadeInv'
<1>1. DOMAIN tasks' = {}
  BY DEF NoTasks
<1>2. counter' \in 0..MaxTasks /\ counter' <= made
  BY DEF MadeInv, MadeTyped, Linked
<1>3. MadeTyped'
  BY <1>1, <1>2 DEF MadeInv, MadeTyped
<1>4. Linked'
  BY <1>1, <1>2 DEF MadeInv, Linked
<1>5. OwnOutcome' /\ Cancellable'
  BY DEF OwnOutcome, Cancellable
<1> QED
  BY <1>3, <1>4, <1>5 DEF MadeInv

\* A page that was loaded satisfies the invariant.
LEMMA FreshMade == Fresh => MadeInv
<1> SUFFICES ASSUME Fresh PROVE MadeInv
  OBVIOUS
<1>1. DOMAIN tasks = {}
  BY DEF Fresh, NoTasks
<1>2. MadeTyped
  BY <1>1 DEF Fresh, MadeTyped, Xhr, Item, Status
<1>3. Linked
  BY <1>1 DEF Fresh, Linked
<1>4. OwnOutcome /\ Cancellable
  BY DEF Fresh, OwnOutcome, Cancellable
<1> QED
  BY <1>2, <1>3, <1>4 DEF MadeInv

\* Nothing is picked on a page that was just loaded.
LEMMA FreshPicked ==
  ASSUME Fresh, signedIn \in BOOLEAN
  PROVE  PickedTyped
<1>1. clearButton \in BOOLEAN /\ uploadButton \in BOOLEAN
  BY DEF Fresh
<1> QED
  BY <1>1 DEF Fresh, PickedTyped

\* The invariant holds initially.
LEMMA UploadInvInit == UploadInit => UploadInv
BY FreshMade, FreshPicked, UploadInParts DEF UploadInit

----------------------------------------------------------------------------
(* Requests *)

\* A progress event is displayed by the item of the request it is about.
LEMMA ProgressMade ==
  ASSUME MadeInv, NEW i \in Slots, Progress(i)
  PROVE  MadeInv'
<1> DEFINE t == xhr[i].task
           p == xhr[i].sent + 1
<1>1. /\ xhr[i].state = "sent" /\ xhr[i].sent < Steps
      /\ xhr' = [xhr EXCEPT ![i].sent = p]
      /\ items' = IF t \in DOMAIN tasks
                  THEN [items EXCEPT ![tasks[t].element].percent = p] ELSE items
      /\ UNCHANGED <<counter, made, tasks, taskList>>
  BY DEF Progress, ItemOf
<1>2. xhr[i] \in Xhr /\ i <= made /\ i \in 1..made
  BY <1>1 DEF MadeInv, MadeTyped, Linked, Slots
<1>3. p \in 0..Steps
  BY <1>1, <1>2 DEF Xhr
<1>4. /\ xhr' \in [Slots -> Xhr]
      /\ xhr'[i].sent = p /\ xhr'[i].state = "sent"
      /\ \A j \in Slots : xhr'[j].task = xhr[j].task /\ xhr'[j].state = xhr[j].state
      /\ \A j \in Slots \ {i} : xhr'[j] = xhr[j]
  BY <1>1, <1>3 DEF MadeInv, MadeTyped, Xhr
<1> HIDE DEF p
<1>5. t \in DOMAIN tasks => tasks[t].element \in 1..made /\ xhr[tasks[t].element].task = t
  BY DEF MadeInv, Linked
<1>6. /\ items' \in [Slots -> Item]
      /\ \A j \in Slots : items'[j].status = items[j].status
      /\ \A j \in Slots : j > made => items'[j] = items[j]
      /\ \A j \in Slots : (t \in DOMAIN tasks /\ j = tasks[t].element)
                            => items'[j].percent = p
      /\ \A j \in Slots : ~(t \in DOMAIN tasks /\ j = tasks[t].element)
                            => items'[j] = items[j]
  <2>1. CASE t \in DOMAIN tasks
    <3> DEFINE e == tasks[t].element
    <3>1. e \in Slots /\ e <= made
      BY <1>5, <2>1 DEF MadeInv, MadeTyped, Slots
    <3>2. items' = [items EXCEPT ![e].percent = p] /\ items \in [Slots -> Item]
      BY <1>1, <2>1 DEF MadeInv, MadeTyped
    <3> HIDE DEF e
    <3>3. /\ items' \in [Slots -> Item]
          /\ \A j \in Slots : items'[j].status = items[j].status
          /\ items'[e].percent = p
          /\ \A j \in Slots \ {e} : items'[j] = items[j]
      BY <1>3, <3>1, <3>2 DEF Item
    <3>4. \A j \in Slots : j > made => j # e
      BY <3>1 DEF MadeInv, MadeTyped, Slots
    <3> QED
      BY <2>1, <3>3, <3>4 DEF e
  <2>2. CASE t \notin DOMAIN tasks
    BY <1>1, <2>2 DEF MadeInv, MadeTyped
  <2> QED
    BY <2>1, <2>2
<1>7. MadeTyped'
  BY <1>1, <1>4, <1>6 DEF MadeInv, MadeTyped
<1>8. taskList \subseteq Slots /\ 1..made \subseteq Slots
  BY DEF MadeInv, MadeTyped, Slots
<1>9. Linked'
  BY <1>1, <1>4, <1>6, <1>8 DEF MadeInv, Linked
<1>10. Cancellable'
  BY <1>1, <1>4, <1>6, <1>8 DEF MadeInv, Cancellable
<1>11. OwnOutcome'
  <2> SUFFICES ASSUME NEW k \in taskList, OwnId(k)'
               PROVE  /\ items'[k].status = Shown(xhr'[k].state)
                      /\ items'[k].percent = xhr'[k].sent
    BY <1>1 DEF OwnOutcome
  <2>1. k \in Slots /\ k \in 1..made
    BY <1>8 DEF MadeInv, MadeTyped
  <2>2. OwnId(k)
    BY <1>1, <1>4, <1>8, <2>1 DEF OwnId
  <2>3. items[k].status = Shown(xhr[k].state) /\ items[k].percent = xhr[k].sent
    BY <2>2 DEF MadeInv, OwnOutcome
  <2>4. CASE k = i
    BY <1>4, <1>6, <2>1, <2>3, <2>4 DEF MadeInv, Linked
  <2>5. CASE k # i
    <3>1. xhr[i].task # xhr[k].task
      BY <1>2, <2>2, <2>5 DEF OwnId
    <3>2. ~(t \in DOMAIN tasks /\ k = tasks[t].element)
      BY <1>5, <3>1
    <3> QED
      BY <1>4, <1>6, <2>1, <2>3, <2>5, <3>2
  <2> QED
    BY <2>4, <2>5
<1> QED
  BY <1>7, <1>9, <1>10, <1>11 DEF MadeInv

\* The end of a request is displayed by its item, and noted in its task.
LEMMA SettleMade ==
  ASSUME MadeInv, NEW i \in Slots, NEW status \in {"completed", "error"},
         xhr[i].state = "sent", xhr' = [xhr EXCEPT ![i].state = status],
         Settle(xhr[i].task, status), UNCHANGED <<counter, made, taskList>>
  PROVE  MadeInv'
<1> DEFINE t == xhr[i].task
           e == tasks[t].element
<1>1. IF t \in DOMAIN tasks
      THEN /\ items' = [items EXCEPT ![e].status = status]
           /\ tasks' = [tasks EXCEPT ![t].status = status]
      ELSE UNCHANGED <<items, tasks>>
  BY DEF Settle, Marked, ItemOf
<1>2. xhr[i] \in Xhr /\ i \in 1..made
  BY DEF MadeInv, MadeTyped, Linked, Slots
<1>3. /\ xhr' \in [Slots -> Xhr]
      /\ xhr'[i].state = status
      /\ \A j \in Slots : xhr'[j].task = xhr[j].task /\ xhr'[j].sent = xhr[j].sent
      /\ \A j \in Slots \ {i} : xhr'[j] = xhr[j]
  BY <1>2 DEF MadeInv, MadeTyped, Xhr
<1>4. t \in DOMAIN tasks => e \in 1..made /\ e \in Slots /\ xhr[e].task = t
  BY DEF MadeInv, MadeTyped, Linked, Slots
<1> HIDE DEF e
<1>5. /\ items' \in [Slots -> Item]
      /\ \A j \in Slots : items'[j].percent = items[j].percent
      /\ t \in DOMAIN tasks => items'[e].status = status
      /\ \A j \in Slots : (t \in DOMAIN tasks => j # e) => items'[j] = items[j]
  BY <1>1, <1>4 DEF MadeInv, MadeTyped, Item, Status
<1>6. /\ DOMAIN tasks' = DOMAIN tasks
      /\ \A u \in DOMAIN tasks : tasks'[u] \in Task /\ tasks'[u].element = tasks[u].element
      /\ \A u \in DOMAIN tasks \ {t} : tasks'[u] = tasks[u]
  <2>1. \A u \in DOMAIN tasks : tasks[u] \in Task
    BY DEF MadeInv, MadeTyped
  <2>2. CASE t \in DOMAIN tasks
    <3>1. /\ DOMAIN tasks' = DOMAIN tasks
          /\ tasks'[t] = [tasks[t] EXCEPT !.status = status]
          /\ \A u \in DOMAIN tasks \ {t} : tasks'[u] = tasks[u]
      BY <1>1, <2>2
    <3>2. tasks'[t] \in Task /\ tasks'[t].element = tasks[t].element
      BY <2>1, <2>2, <3>1 DEF Task, Status
    <3> QED
      BY <2>1, <3>1, <3>2
  <2>3. CASE t \notin DOMAIN tasks
    BY <1>1, <2>1, <2>3
  <2> QED
    BY <2>2, <2>3
<1>7. MadeTyped'
  BY <1>3, <1>5, <1>6 DEF MadeInv, MadeTyped
<1>8. taskList \subseteq Slots /\ 1..made \subseteq Slots /\ \A j \in 1..made : ~(j > made)
  BY DEF MadeInv, MadeTyped, Slots
<1>9. Linked'
  <2>1. \A u \in DOMAIN tasks' : /\ u < counter
                                 /\ tasks'[u].element \in 1..made
                                 /\ xhr'[tasks'[u].element].task = u
    BY <1>3, <1>6, <1>8 DEF MadeInv, Linked
  <2>2. \A j \in taskList : /\ xhr'[j].task \in DOMAIN tasks'
                            /\ tasks'[xhr'[j].task].element = j
    BY <1>3, <1>6, <1>8 DEF MadeInv, Linked
  <2>3. \A j \in Slots : j > made => j # i /\ (t \in DOMAIN tasks => j # e)
    BY <1>2, <1>4, <1>8
  <2>4. \A j \in Slots : j > made => /\ items'[j] = [status |-> "uploading", percent |-> 0]
                                     /\ xhr'[j].state = "new"
    BY <1>3, <1>5, <2>3 DEF MadeInv, Linked
  <2>5. counter' <= made'
    BY DEF MadeInv, Linked
  <2> QED
    BY <2>1, <2>2, <2>4, <2>5 DEF Linked
<1>10. Cancellable'
  <2> SUFFICES ASSUME NEW k \in taskList, items'[k].status = "uploading"
               PROVE  /\ xhr'[k].task \in DOMAIN tasks'
                      /\ tasks'[xhr'[k].task] = [element |-> k, status |-> "uploading"]
    BY DEF Cancellable
  <2>1. k \in Slots
    BY <1>8
  <2>2. t \in DOMAIN tasks => k # e
    BY <1>5
  <2>3. items[k].status = "uploading"
    BY <1>5, <2>1, <2>2
  <2>4. /\ xhr[k].task \in DOMAIN tasks
        /\ tasks[xhr[k].task] = [element |-> k, status |-> "uploading"]
    BY <2>3 DEF MadeInv, Cancellable
  <2>5. xhr[k].task # t
    BY <2>2, <2>4 DEF e
  <2> QED
    BY <1>3, <1>6, <2>1, <2>4, <2>5
<1>11. OwnOutcome'
  <2> SUFFICES ASSUME NEW k \in taskList, OwnId(k)'
               PROVE  /\ items'[k].status = Shown(xhr'[k].state)
                      /\ items'[k].percent = xhr'[k].sent
    BY DEF OwnOutcome
  <2>1. k \in Slots /\ k \in 1..made
    BY <1>8 DEF MadeInv, MadeTyped
  <2>2. OwnId(k)
    BY <1>3, <1>8, <2>1 DEF OwnId
  <2>3. items[k].status = Shown(xhr[k].state) /\ items[k].percent = xhr[k].sent
    BY <2>2 DEF MadeInv, OwnOutcome
  <2>4. CASE k = i
    <3>1. t \in DOMAIN tasks /\ e = k
      BY <2>4 DEF MadeInv, Linked, e
    <3> QED
      BY <1>3, <1>5, <2>1, <2>3, <2>4, <3>1 DEF Shown
  <2>5. CASE k # i
    <3>1. xhr[i].task # xhr[k].task
      BY <1>2, <2>2, <2>5 DEF OwnId
    <3>2. t \in DOMAIN tasks => k # e
      BY <1>4, <3>1
    <3> QED
      BY <1>3, <1>5, <2>1, <2>3, <2>5, <3>2
  <2> QED
    BY <2>4, <2>5
<1> QED
  BY <1>7, <1>9, <1>10, <1>11 DEF MadeInv

\* An upload makes one request, one task and one item of every selected file.
LEMMA UploadMade ==
  ASSUME MadeInv, Upload, Len(selected) \in Nat
  PROVE  MadeInv'
<1> DEFINE n == Len(selected)
           Ids == counter..(counter + n - 1)
           new == [u \in Ids |-> made + (u - counter) + 1]
           id == [i \in NewSlots |-> TaskOf(i)]
<1>1. /\ made + n <= MaxTasks /\ made' = made + n /\ counter' = counter + n
      /\ taskList' = taskList \cup NewSlots /\ items' = items
      /\ tasks' = WithNewTasks
      /\ xhr' = [i \in Slots |->
           IF i \in NewSlots THEN [task |-> TaskOf(i), sent |-> 0, state |-> "sent"]
           ELSE xhr[i]]
  BY DEF Upload
<1>2. /\ made \in Nat /\ counter \in Nat /\ counter <= made /\ n \in Nat
      /\ MaxTasks \in Nat
  BY DEF MadeInv, MadeTyped, Linked
<1>3. /\ NewSlots = (made + 1)..(made + n)
      /\ \A i \in NewSlots : TaskOf(i) = counter + (i - made) - 1
  BY DEF NewSlots, TaskOf
<1> HIDE DEF n
<1>4. /\ NewSlots \subseteq Slots
      /\ \A i \in NewSlots : id[i] \in Ids /\ new[id[i]] = i
  BY <1>1, <1>2, <1>3 DEF Slots
<1>5. \A u \in Ids : new[u] \in NewSlots /\ id[new[u]] = u
  BY <1>2, <1>3
<1>6. {TaskOf(i) : i \in NewSlots} = Ids
  <2>1. \A i \in NewSlots : id[i] = TaskOf(i)
    OBVIOUS
  <2>2. \A u : u \in Ids <=> \E i \in NewSlots : u = TaskOf(i)
    BY <1>4, <1>5, <2>1
  <2> QED
    BY <2>2
<1>7. \A u \in DOMAIN tasks : u \in Nat /\ u < counter
  BY DEF MadeInv, MadeTyped, Linked
<1>8. /\ DOMAIN tasks' = DOMAIN tasks \cup Ids
      /\ \A u \in Ids : tasks'[u] = [element |-> new[u], status |-> "uploading"]
      /\ \A u \in DOMAIN tasks : tasks'[u] = tasks[u]
  <2>1. tasks' = [u \in DOMAIN tasks \cup Ids |->
          IF u >= counter THEN [element |-> made + (u - counter) + 1, status |-> "uploading"]
          ELSE tasks[u]]
    BY <1>1, <1>6 DEF WithNewTasks
  <2>2. \A u \in Ids : u >= counter
    BY <1>2
  <2>3. \A u \in DOMAIN tasks : ~(u >= counter)
    BY <1>2, <1>7
  <2> QED
    BY <2>1, <2>2, <2>3
<1> HIDE DEF id, new, Ids
<1>9. /\ \A i \in NewSlots : /\ xhr'[i].task = id[i] /\ xhr'[i].sent = 0
                              /\ xhr'[i].state = "sent"
      /\ \A i \in Slots \ NewSlots : xhr'[i] = xhr[i]
      /\ \A i \in 1..made : i \in Slots /\ i \notin NewSlots
  <2>1. ASSUME NEW i \in NewSlots
        PROVE  xhr'[i].task = id[i] /\ xhr'[i].sent = 0 /\ xhr'[i].state = "sent"
    <3>1. i \in Slots /\ id[i] = TaskOf(i)
      BY <1>4 DEF id
    <3>2. xhr'[i] = [task |-> TaskOf(i), sent |-> 0, state |-> "sent"]
      BY <1>1, <3>1
    <3> QED
      BY <3>1, <3>2
  <2>2. \A i \in Slots \ NewSlots : xhr'[i] = xhr[i]
    BY <1>1
  <2>3. \A i \in 1..made : i \in Slots /\ i \notin NewSlots
    BY <1>1, <1>2, <1>3 DEF Slots
  <2> QED
    BY <2>1, <2>2, <2>3
<1>10. /\ taskList \subseteq 1..made /\ taskList \cup NewSlots \subseteq 1..(made + n)
       /\ Ids \subseteq 0..MaxTasks
  BY <1>1, <1>2, <1>3 DEF MadeInv, MadeTyped, Ids
<1>11. MadeTyped'
  <2>1. made' \in 0..MaxTasks /\ counter' \in 0..MaxTasks
    BY <1>1, <1>2
  <2>2. xhr' \in [Slots -> Xhr]
    <3>1. ASSUME NEW i \in NewSlots PROVE xhr'[i] \in Xhr
      <4>1. id[i] \in Ids
        BY <1>4
      <4>2. id[i] \in 0..MaxTasks
        BY <1>10, <4>1
      <4>3. 0 \in 0..Steps
        OBVIOUS
      <4>4. i \in Slots /\ id[i] = TaskOf(i)
        BY <1>4 DEF id
      <4>5. xhr'[i] = [task |-> id[i], sent |-> 0, state |-> "sent"]
        BY <1>1, <4>4
      <4> QED
        BY <4>2, <4>3, <4>5 DEF Xhr
    <3>2. \A i \in Slots : xhr'[i] \in Xhr
      BY <1>9, <3>1 DEF MadeInv, MadeTyped
    <3>3. xhr' = [i \in Slots |-> xhr'[i]]
      BY <1>1
    <3> QED
      BY <3>2, <3>3
  <2>3. ASSUME NEW u \in Ids PROVE tasks'[u] \in Task
    <3>1. new[u] \in Slots /\ tasks'[u] = [element |-> new[u], status |-> "uploading"]
      BY <1>4, <1>5, <1>8
    <3> QED
      BY <3>1 DEF Task, Status
  <2>4. DOMAIN tasks' \subseteq 0..MaxTasks /\ \A u \in DOMAIN tasks' : tasks'[u] \in Task
    BY <1>8, <1>10, <2>3 DEF MadeInv, MadeTyped
  <2> QED
    BY <1>1, <1>10, <2>1, <2>2, <2>4 DEF MadeInv, MadeTyped
<1>12. Linked'
  <2>1. counter' <= made' /\ made' = made + n /\ counter' = counter + n
    BY <1>1, <1>2
  <2>2. ASSUME NEW u \in Ids
        PROVE  /\ u < counter' /\ tasks'[u].element \in 1..made'
               /\ xhr'[tasks'[u].element].task = u
    <3>1. u < counter'
      BY <1>2, <2>1 DEF Ids
    <3>2. tasks'[u].element = new[u] /\ new[u] \in NewSlots /\ id[new[u]] = u
      BY <1>5, <1>8
    <3>3. xhr'[new[u]].task = u
      BY <1>9, <3>2
    <3> QED
      BY <1>10, <2>1, <3>1, <3>2, <3>3
  <2>3. ASSUME NEW u \in DOMAIN tasks
        PROVE  /\ u < counter' /\ tasks'[u].element \in 1..made'
               /\ xhr'[tasks'[u].element].task = u
    <3>1. u < counter /\ u \in Nat /\ tasks[u].element \in 1..made
          /\ xhr[tasks[u].element].task = u /\ tasks'[u] = tasks[u]
      BY <1>7, <1>8 DEF MadeInv, Linked
    <3>2. u < counter' /\ tasks[u].element \in 1..made'
      BY <1>2, <2>1, <3>1
    <3>3. xhr'[tasks[u].element] = xhr[tasks[u].element]
      BY <1>9, <3>1
    <3> QED
      BY <3>1, <3>2, <3>3
  <2>4. ASSUME NEW i \in taskList'
        PROVE  xhr'[i].task \in DOMAIN tasks' /\ tasks'[xhr'[i].task].element = i
    <3>1. CASE i \in NewSlots
      <4>1. xhr'[i].task = id[i] /\ id[i] \in Ids /\ new[id[i]] = i
        BY <1>4, <1>9, <3>1
      <4> QED
        BY <1>8, <4>1
    <3>2. CASE i \in taskList
      BY <1>8, <1>9, <1>10, <3>2 DEF MadeInv, Linked
    <3> QED
      BY <1>1, <3>1, <3>2
  <2>5. ASSUME NEW i \in Slots, i > made'
        PROVE  /\ items'[i] = [status |-> "uploading", percent |-> 0]
               /\ xhr'[i].state = "new"
    <3>1. i > made /\ i \notin NewSlots
      BY <1>2, <1>3, <2>1, <2>5 DEF Slots
    <3> QED
      BY <1>1, <1>9, <3>1 DEF MadeInv, Linked
  <2>6. \A u \in DOMAIN tasks' : u \in Ids \/ u \in DOMAIN tasks
    BY <1>8
  <2> QED
    BY <2>1, <2>2, <2>3, <2>4, <2>5, <2>6 DEF Linked
<1>13. \A i \in NewSlots : items'[i] = [status |-> "uploading", percent |-> 0]
  <2>1. \A i \in NewSlots : i > made
    BY <1>2, <1>3
  <2> QED
    BY <1>1, <1>4, <2>1 DEF MadeInv, Linked
<1>14. Cancellable'
  <2> SUFFICES ASSUME NEW i \in taskList', items'[i].status = "uploading"
               PROVE  /\ xhr'[i].task \in DOMAIN tasks'
                      /\ tasks'[xhr'[i].task] = [element |-> i, status |-> "uploading"]
    BY DEF Cancellable
  <2>1. CASE i \in NewSlots
    <3>1. xhr'[i].task = id[i] /\ id[i] \in Ids /\ new[id[i]] = i
      BY <1>4, <1>9, <2>1
    <3> QED
      BY <1>8, <3>1
  <2>2. CASE i \in taskList
    BY <1>1, <1>8, <1>9, <1>10, <2>2 DEF MadeInv, Cancellable
  <2> QED
    BY <1>1, <2>1, <2>2
<1>15. OwnOutcome'
  <2> SUFFICES ASSUME NEW i \in taskList', OwnId(i)'
               PROVE  /\ items'[i].status = Shown(xhr'[i].state)
                      /\ items'[i].percent = xhr'[i].sent
    BY DEF OwnOutcome
  <2>1. CASE i \in NewSlots
    BY <1>9, <1>13, <2>1 DEF Shown
  <2>2. CASE i \in taskList
    <3>1. i \in 1..made /\ xhr'[i] = xhr[i]
      BY <1>9, <1>10, <2>2
    <3>2. \A j \in 1..made : j \in 1..made' /\ xhr'[j] = xhr[j]
      BY <1>1, <1>2, <1>9
    <3>3. OwnId(i)
      BY <3>1, <3>2 DEF OwnId
    <3> QED
      BY <1>1, <2>2, <3>1, <3>3 DEF MadeInv, OwnOutcome
  <2> QED
    BY <1>1, <2>1, <2>2
<1> QED
  BY <1>11, <1>12, <1>14, <1>15 DEF MadeInv

----------------------------------------------------------------------------
(* Every step *)

\* Removing a file makes the selection one shorter.
LEMMA RemovedFacts ==
  ASSUME PickedTyped, NEW i \in DOMAIN selected
  PROVE  RemoveAt(selected, i) \in Seq(Files) /\ Len(RemoveAt(selected, i)) <= MaxPicked
<1> DEFINE s == SubSeq(selected, 1, i - 1)
           t == SubSeq(selected, i + 1, Len(selected))
<1>1. /\ selected \in Seq(Files) /\ Len(selected) <= MaxPicked
      /\ i \in 1..Len(selected) /\ Len(selected) \in Nat
      /\ \A j \in 1..Len(selected) : selected[j] \in Files
  BY DEF PickedTyped
<1>2. s \in Seq(Files) /\ Len(s) <= i - 1
  BY <1>1, SubSeqProperties
<1>3. t \in Seq(Files) /\ Len(t) <= Len(selected) - i
  BY <1>1, SubSeqProperties
<1> HIDE DEF s, t
<1>4. s \o t \in Seq(Files) /\ Len(s \o t) = Len(s) + Len(t)
  BY <1>2, <1>3
<1>5. Len(s) \in Nat /\ Len(t) \in Nat /\ MaxPicked \in Nat
  BY <1>2, <1>3
<1>6. RemoveAt(selected, i) = s \o t
  BY DEF RemoveAt, s, t
<1> QED
  BY <1>1, <1>2, <1>3, <1>4, <1>5, <1>6

\* The buttons are displayed or not, enabled or not.
LEMMA ButtonsTyped ==
  ASSUME PickedTyped
  PROVE  clearButton \in BOOLEAN /\ uploadButton \in BOOLEAN /\ signedIn \in BOOLEAN
BY DEF PickedTyped

\* A request that ends settles the task of its id, its own or a newer one.
LEMMA FinishKeeps ==
  ASSUME UploadInv, NEW i \in Slots, NEW status \in {"completed", "error"},
         xhr[i].state = "sent", xhr' = [xhr EXCEPT ![i].state = status],
         Settle(xhr[i].task, status),
         UNCHANGED <<selected, counter, made, taskList, uploadButton, signedIn>>
  PROVE  UploadInv'
<1>1. MadeInv'
  BY UploadInParts, SettleMade
<1>2. clearButton' \in BOOLEAN
  BY UploadInParts, ButtonsTyped DEF Settle, ClearVisible
<1>3. PickedTyped'
  BY <1>2, UploadInParts DEF PickedTyped
<1> QED
  BY <1>1, <1>3, UploadInPartsNext

\* Every step keeps the invariant.
LEMMA UploadInvNext == UploadInv /\ [UploadNext]_upload => UploadInv'
<1> SUFFICES ASSUME UploadInv, [UploadNext]_upload PROVE UploadInv'
  OBVIOUS
<1>1. PickedTyped /\ MadeInv
  BY UploadInParts
<1>2. /\ clearButton \in BOOLEAN /\ uploadButton \in BOOLEAN /\ signedIn \in BOOLEAN
      /\ selected \in Seq(Files) /\ Len(selected) <= MaxPicked
  BY <1>1 DEF PickedTyped
<1>3. ASSUME NEW f \in Files, Select(f) PROVE UploadInv'
  <2>1. selected' \in Seq(Files) /\ Len(selected') <= MaxPicked
    <3>1. Picked(f) => selected' = selected
      BY <1>3 DEF Select
    <3>2. ~Picked(f) => selected' = Append(selected, f) /\ Len(selected) < MaxPicked
      BY <1>3 DEF Select
    <3> QED
      BY <1>2, <3>1, <3>2
  <2>2. clearButton' \in BOOLEAN /\ uploadButton' \in BOOLEAN /\ signedIn' \in BOOLEAN
    BY <1>2, <1>3 DEF Select
  <2>3. PickedTyped'
    BY <2>1, <2>2 DEF PickedTyped
  <2> QED
    BY <1>1, <1>3, <2>3, MadeKept, UploadInPartsNext DEF Select
<1>4. ASSUME NEW i \in DOMAIN selected, RemoveFile(i) PROVE UploadInv'
  <2>1. selected' \in Seq(Files) /\ Len(selected') <= MaxPicked
    BY <1>1, <1>4, RemovedFacts DEF RemoveFile
  <2>2. clearButton' \in BOOLEAN /\ uploadButton' \in BOOLEAN /\ signedIn' \in BOOLEAN
    BY <1>2, <1>4 DEF RemoveFile
  <2>3. PickedTyped'
    BY <2>1, <2>2 DEF PickedTyped
  <2> QED
    BY <1>1, <1>4, <2>3, MadeKept, UploadInPartsNext DEF RemoveFile
<1>5. CASE Upload
  <2>1. MadeInv'
    BY <1>1, <1>2, <1>5, UploadMade
  <2>2. clearButton' \in BOOLEAN /\ uploadButton' \in BOOLEAN /\ signedIn' \in BOOLEAN
    BY <1>2, <1>5 DEF Upload
  <2>3. selected' \in Seq(Files) /\ Len(selected') <= MaxPicked
    BY <1>5 DEF Upload
  <2>4. PickedTyped'
    BY <2>2, <2>3 DEF PickedTyped
  <2> QED
    BY <2>1, <2>4, UploadInPartsNext
<1>6. ASSUME NEW i \in Slots, Progress(i) PROVE UploadInv'
  <2>1. MadeInv'
    BY <1>1, <1>6, ProgressMade
  <2>2. PickedTyped'
    BY <1>1, <1>6 DEF Progress, PickedTyped
  <2> QED
    BY <2>1, <2>2, UploadInPartsNext
<1>7. ASSUME NEW i \in Slots, NEW status \in {"completed", "error"}, Finish(i, status)
      PROVE  UploadInv'
  BY <1>7, FinishKeeps DEF Finish
<1>8. ASSUME NEW i \in Slots, Cancel(i) PROVE UploadInv'
  <2> DEFINE j == tasks[xhr[i].task].element
  <2>1. /\ xhr[i].task \in DOMAIN tasks /\ xhr[j].state = "sent"
        /\ xhr' = [xhr EXCEPT ![j].state = "error"] /\ Settle(xhr[j].task, "error")
        /\ UNCHANGED <<selected, counter, made, taskList, uploadButton, signedIn>>
    BY <1>8 DEF Cancel, ItemOf
  <2>2. j \in Slots
    BY <1>1, <2>1 DEF MadeInv, MadeTyped, Linked, Slots
  <2> HIDE DEF j
  <2> QED
    BY <2>1, <2>2, FinishKeeps
<1>9. CASE ClearTasks
  <2>1. MadeInv'
    BY <1>1, <1>9, EmptiedInv DEF ClearTasks
  <2>2. clearButton' \in BOOLEAN
    BY <1>9 DEF ClearTasks
  <2>3. PickedTyped'
    BY <1>1, <1>9, <2>2 DEF ClearTasks, PickedTyped
  <2> QED
    BY <2>1, <2>3, UploadInPartsNext
<1>10. CASE ResetUploadState
  <2>1. MadeInv'
    BY <1>1, <1>10, EmptiedInv DEF ResetUploadState
  <2>2. signedIn' \in BOOLEAN
    BY <1>10 DEF ResetUploadState
  <2>3. selected' \in Seq(Files) /\ Len(selected') <= MaxPicked
    BY <1>10 DEF ResetUploadState
  <2>4. PickedTyped'
    BY <1>1, <1>10, <2>2, <2>3 DEF ResetUploadState, PickedTyped
  <2> QED
    BY <2>1, <2>4, UploadInPartsNext
<1>11. CASE Login
  <2>1. signedIn' \in BOOLEAN
    BY <1>11 DEF Login
  <2>2. PickedTyped'
    BY <1>1, <1>11, <2>1 DEF Login, PickedTyped
  <2> QED
    BY <1>1, <1>11, <2>2, MadeKept, UploadInPartsNext DEF Login
<1>12. CASE Reload
  <2>1. Fresh' /\ signedIn' \in BOOLEAN
    BY <1>2, <1>12 DEF Reload, Fresh
  <2>2. MadeInv'
    BY <2>1, FreshMade, PTL
  <2>3. PickedTyped'
    <3>1. clearButton' \in BOOLEAN /\ uploadButton' \in BOOLEAN
      BY <2>1 DEF Fresh
    <3> QED
      BY <2>1, <3>1 DEF Fresh, PickedTyped
  <2> QED
    BY <2>2, <2>3, UploadInPartsNext
<1>13. CASE UNCHANGED upload
  <2>1. PickedTyped'
    BY <1>1, <1>13 DEF upload, PickedTyped
  <2> QED
    BY <1>1, <1>13, <2>1, MadeKept, UploadInPartsNext DEF upload
<1> QED
  BY <1>3, <1>4, <1>5, <1>6, <1>7, <1>8, <1>9, <1>10, <1>11, <1>12, <1>13 DEF UploadNext

\* The strengthened invariant holds in every state.
THEOREM UploadInvHolds == UploadSpec => []UploadInv
BY UploadInvInit, UploadInvNext, PTL DEF UploadSpec

\* Every variable of the page has the type UploadPage says.
THEOREM UploadTyped == UploadSpec => []UploadTypeOK
BY UploadInvHolds, PTL DEF UploadInv

\* An item shows the outcome of its own request.
THEOREM OutcomesAreOwn == UploadSpec => []OwnOutcome
BY UploadInvHolds, PTL DEF UploadInv

\* An upload displayed as going on can be cancelled.
THEOREM UploadsCancellable == UploadSpec => []Cancellable
BY UploadInvHolds, PTL DEF UploadInv

----------------------------------------------------------------------------
(* PaymentForm *)

USE CardsAssumption, RequestsBound

\* The inductive invariant.
PaymentInv == PaymentTypeOK /\ UrlsOwned /\ OneAtATime

\* The first part of the types: the form.
FormTyped ==
  /\ card \in Seq(0..12) /\ greeting \in Greetings /\ list \in Lists
  /\ marks \subseteq Inputs
  /\ {errorBox, submitting, modal} \subseteq BOOLEAN

\* The second part: requests and what is displayed of their answers.
AnswersTyped ==
  /\ requests \subseteq Request
  /\ sent \in 0..MaxRequests
  /\ {lastRef, answer, frame, images} \subseteq 0..MaxRequests
  /\ refBox \in [ok : BOOLEAN, ref : 0..MaxRequests]
  /\ urls \subseteq Requests

\* The types of the form, part by part.
LEMMA PaymentTypedInParts == PaymentTypeOK <=> FormTyped /\ AnswersTyped
BY DEF PaymentTypeOK, FormTyped, AnswersTyped

\* The invariant holds initially.
LEMMA PaymentInvInit == PaymentInit => PaymentInv
<1> SUFFICES ASSUME PaymentInit PROVE PaymentInv
  OBVIOUS
<1>1. FormTyped
  <2>1. errorBox \in BOOLEAN /\ submitting \in BOOLEAN /\ modal \in BOOLEAN
    BY DEF PaymentInit
  <2>2. card \in Seq(0..12) /\ greeting \in Greetings /\ list \in Lists
    BY DEF PaymentInit, Greetings, Lists
  <2> QED
    BY <2>1, <2>2 DEF PaymentInit, FormTyped
<1>2. AnswersTyped
  BY DEF PaymentInit, AnswersTyped
<1> QED
  BY <1>1, <1>2, PaymentTypedInParts DEF PaymentInit, PaymentInv, UrlsOwned, OneAtATime

\* A step that leaves requests and what is displayed alone.
LEMMA AnswersKept ==
  ASSUME PaymentInv, FormTyped',
         UNCHANGED <<submitting, requests, sent, lastRef, refBox, viewers>>
  PROVE  PaymentInv'
<1>1. AnswersTyped'
  BY PaymentTypedInParts DEF PaymentInv, AnswersTyped, viewers
<1>2. UrlsOwned' /\ OneAtATime'
  BY DEF PaymentInv, UrlsOwned, OneAtATime, viewers
<1>3. PaymentTypeOK'
  BY <1>1 DEF PaymentTypeOK, FormTyped, AnswersTyped
<1> QED
  BY <1>2, <1>3 DEF PaymentInv

\* Of the request that is under way there is only one.
LEMMA OnlyRequest ==
  ASSUME PaymentInv, NEW r \in requests
  PROVE  /\ requests = {r} /\ submitting
         /\ r \in Request /\ r.n \in Requests /\ r.n \in 0..MaxRequests /\ r.n # 0
<1>1. r \in Request
  BY DEF PaymentInv, PaymentTypeOK
<1>2. r.n \in Requests
  BY <1>1 DEF Request
<1> QED
  BY <1>1, <1>2 DEF PaymentInv, OneAtATime, Requests

\* A submission is the only request.
LEMMA SubmitKeeps ==
  ASSUME PaymentInv, Submit
  PROVE  PaymentInv'
<1> DEFINE new == [n |-> sent + 1, stage |-> "sent", ok |-> FALSE]
<1>1. /\ ~submitting /\ sent < MaxRequests /\ sent' = sent + 1
      /\ requests' = requests \cup {new}
      /\ submitting' = TRUE /\ errorBox' = FALSE /\ marks' = marks \ {"card"}
      /\ UNCHANGED <<lastRef, refBox, modal, fields, viewers>>
  BY DEF Submit, MarksCleared
<1>2. sent + 1 \in Requests
  BY <1>1 DEF PaymentInv, PaymentTypeOK, Requests
<1>3. new \in Request
  BY <1>2 DEF Request
<1>4. requests' = {new}
  BY <1>1 DEF PaymentInv, OneAtATime
<1>5. FormTyped'
  <2>1. errorBox' \in BOOLEAN /\ submitting' \in BOOLEAN /\ modal' \in BOOLEAN
    BY <1>1, PaymentTypedInParts DEF PaymentInv, FormTyped
  <2> QED
    BY <1>1, <2>1, PaymentTypedInParts DEF PaymentInv, FormTyped, fields
<1>6. AnswersTyped'
  <2>1. requests' \subseteq Request
    BY <1>3, <1>4
  <2>2. sent' \in 0..MaxRequests
    BY <1>1, <1>2 DEF Requests
  <2> QED
    BY <1>1, <2>1, <2>2, PaymentTypedInParts DEF PaymentInv, AnswersTyped, viewers
<1>7. PaymentTypeOK'
  BY <1>5, <1>6 DEF PaymentTypeOK, FormTyped, AnswersTyped
<1>8. OneAtATime'
  BY <1>1, <1>4 DEF OneAtATime
<1>9. UrlsOwned'
  BY <1>1 DEF PaymentInv, UrlsOwned, viewers
<1> QED
  BY <1>7, <1>8, <1>9 DEF PaymentInv

\* The head of an answer does not end its request.
LEMMA PaymentRespondedKeeps ==
  ASSUME PaymentInv, NEW r \in requests, NEW ok \in BOOLEAN, PaymentResponded(r, ok)
  PROVE  PaymentInv'
<1> DEFINE h == [r EXCEPT !.stage = "head", !.ok = ok]
<1>1. /\ requests' = (requests \ {r}) \cup {h}
      /\ lastRef' = r.n /\ submitting' = submitting
      /\ UNCHANGED <<marks, errorBox, sent, refBox, modal, fields, viewers>>
  BY DEF PaymentResponded, BusyAfterHead
<1>2. /\ requests = {r} /\ submitting /\ r \in Request /\ r.n \in 0..MaxRequests
  BY OnlyRequest
<1>3. h \in Request
  BY <1>2 DEF Request
<1>4. requests' = {h}
  BY <1>1, <1>2
<1> HIDE DEF h
<1>5. FormTyped'
  BY <1>1, PaymentTypedInParts DEF PaymentInv, FormTyped, fields
<1>6. AnswersTyped'
  BY <1>1, <1>2, <1>3, <1>4, PaymentTypedInParts DEF PaymentInv, AnswersTyped, viewers
<1>7. PaymentTypeOK'
  BY <1>5, <1>6 DEF PaymentTypeOK, FormTyped, AnswersTyped
<1>8. OneAtATime'
  BY <1>1, <1>2, <1>4 DEF OneAtATime
<1>9. UrlsOwned'
  BY <1>1 DEF PaymentInv, UrlsOwned, viewers
<1> QED
  BY <1>7, <1>8, <1>9 DEF PaymentInv

\* The end of a request: nothing is under way any more.
LEMMA EndKeeps ==
  ASSUME PaymentInv, NEW r \in requests, requests' = requests \ {r}, submitting' = FALSE,
         errorBox' \in BOOLEAN, modal' \in BOOLEAN,
         refBox' \in [ok : BOOLEAN, ref : 0..MaxRequests],
         {answer', frame', images'} \subseteq 0..MaxRequests,
         urls' \subseteq Requests, UrlsOwned',
         UNCHANGED <<marks, sent, lastRef, fields>>
  PROVE  PaymentInv'
<1>1. requests' = {}
  BY OnlyRequest
<1>2. FormTyped'
  <2>1. submitting' \in BOOLEAN
    OBVIOUS
  <2> QED
    BY <2>1, PaymentTypedInParts DEF PaymentInv, FormTyped, fields
<1>3. AnswersTyped'
  BY <1>1, PaymentTypedInParts DEF PaymentInv, AnswersTyped
<1>4. PaymentTypeOK'
  BY <1>2, <1>3 DEF PaymentTypeOK, FormTyped, AnswersTyped
<1>5. OneAtATime'
  BY <1>1 DEF OneAtATime
<1> QED
  BY <1>4, <1>5 DEF PaymentInv

\* The body of an answer: the URL of the PDF before is revoked with its display.
LEMMA BodyKeeps ==
  ASSUME PaymentInv, NEW r \in requests, NEW body \in GoodBodies \cup BadBodies, PaymentBody(r, body)
  PROVE  PaymentInv'
<1>1. /\ requests' = requests \ {r} /\ submitting' = FALSE
      /\ UNCHANGED <<marks, sent, lastRef, fields>>
      /\ refBox' = [ok |-> r.ok /\ body \in {"pdf", "plain"}, ref |-> lastRef]
      /\ modal' = (modal \/ body = "errors")
      /\ errorBox' = (errorBox \/ body \in {"message", "broken", "nulls"})
      /\ UNCHANGED viewers \/ Display(r, body)
  BY DEF PaymentBody, PaymentReferred, ModalAfter
<1>2. r.n \in Requests /\ r.n \in 0..MaxRequests /\ r.n # 0 /\ r \in Request
  BY OnlyRequest
<1>3. errorBox' \in BOOLEAN /\ modal' \in BOOLEAN
  BY <1>1
<1>4. refBox' \in [ok : BOOLEAN, ref : 0..MaxRequests]
  <2>1. (r.ok /\ body \in {"pdf", "plain"}) \in BOOLEAN
    OBVIOUS
  <2>2. lastRef \in 0..MaxRequests
    BY DEF PaymentInv, PaymentTypeOK
  <2> QED
    BY <1>1, <2>1, <2>2
<1>5. /\ {answer', frame', images'} \subseteq 0..MaxRequests
      /\ urls' \subseteq Requests /\ UrlsOwned'
  <2>1. /\ {answer, frame, images} \subseteq 0..MaxRequests
        /\ urls \subseteq Requests /\ urls = {frame} \ {0}
    BY DEF PaymentInv, PaymentTypeOK, UrlsOwned
  <2>2. CASE UNCHANGED viewers
    BY <2>1, <2>2 DEF UrlsOwned, viewers
  <2>3. CASE Display(r, body)
    <3>1. /\ frame' = IF body \in {"pdf", "nulls"} THEN r.n ELSE frame
          /\ urls' = IF body \in {"pdf", "nulls"} THEN {r.n} ELSE urls
          /\ images' \in {r.n, images} /\ answer' \in {r.n, answer}
      BY <2>1, <2>3 DEF Display, DisplayPDF, DisplayImages, RevokedUrls
    <3> QED
      BY <1>2, <2>1, <3>1 DEF UrlsOwned
  <2> QED
    BY <1>1, <2>2, <2>3
<1> QED
  BY <1>1, <1>3, <1>4, <1>5, EndKeeps

\* fetch fails.
LEMMA FailedKeeps ==
  ASSUME PaymentInv, NEW r \in requests, PaymentFailed(r)
  PROVE  PaymentInv'
<1>1. /\ requests' = requests \ {r} /\ submitting' = FALSE
      /\ UNCHANGED <<marks, sent, lastRef, modal, fields, viewers>>
      /\ refBox' = [ok |-> FALSE, ref |-> lastRef] /\ errorBox' = TRUE
  BY DEF PaymentFailed, PaymentReferred
<1>2. errorBox' \in BOOLEAN /\ modal' \in BOOLEAN
  BY <1>1, PaymentTypedInParts DEF PaymentInv, FormTyped
<1>3. refBox' \in [ok : BOOLEAN, ref : 0..MaxRequests]
  BY <1>1 DEF PaymentInv, PaymentTypeOK
<1>4. /\ {answer', frame', images'} \subseteq 0..MaxRequests
      /\ urls' \subseteq Requests /\ UrlsOwned'
  BY <1>1 DEF PaymentInv, PaymentTypeOK, UrlsOwned, viewers
<1> QED
  BY <1>1, <1>2, <1>3, <1>4, EndKeeps

\* A reset releases what is displayed, and leaves the request alone.
LEMMA ResetKeeps ==
  ASSUME PaymentInv, ResetForm
  PROVE  PaymentInv'
<1>1. urls' = {} /\ frame' = 0
  BY DEF ResetForm, PaymentReferred, RevokedUrls, PaymentInv, UrlsOwned
<1>2. FormTyped'
  <2>1. /\ card' \in Seq(0..12) /\ greeting' \in Greetings /\ list' \in Lists
        /\ marks' \subseteq Inputs
    BY DEF ResetForm, PaymentReferred, Greetings, Lists
  <2>2. errorBox' \in BOOLEAN /\ modal' \in BOOLEAN /\ submitting' \in BOOLEAN
    BY PaymentTypedInParts DEF ResetForm, PaymentReferred, PaymentInv, FormTyped
  <2> QED
    BY <2>1, <2>2 DEF FormTyped
<1>3. AnswersTyped'
  BY <1>1, PaymentTypedInParts DEF ResetForm, PaymentReferred, PaymentInv, AnswersTyped
<1>4. PaymentTypeOK'
  BY <1>2, <1>3 DEF PaymentTypeOK, FormTyped, AnswersTyped
<1>5. UrlsOwned' /\ OneAtATime'
  BY <1>1 DEF ResetForm, PaymentReferred, PaymentInv, UrlsOwned, OneAtATime
<1> QED
  BY <1>4, <1>5 DEF PaymentInv

\* Every step keeps the invariant.
LEMMA PaymentInvNext == PaymentInv /\ [PaymentNext]_payment => PaymentInv'
<1> SUFFICES ASSUME PaymentInv, [PaymentNext]_payment PROVE PaymentInv'
  OBVIOUS
<1>1. FormTyped
  BY PaymentTypedInParts DEF PaymentInv
<1>2. CASE Edit
  <2>1. card' \in Seq(0..12) /\ greeting' \in Greetings /\ list' \in Lists
    BY <1>1, <1>2 DEF Edit, FormTyped
  <2> QED
    BY <1>1, <1>2, <2>1, AnswersKept DEF Edit, FormTyped
<1>3. CASE Blur
  <2>1. marks' \subseteq Inputs
    BY <1>1, <1>3 DEF Blur, FormTyped, Inputs
  <2> QED
    BY <1>1, <1>3, <2>1, AnswersKept DEF Blur, FormTyped, fields
<1>4. CASE Refuse
  <2>1. Complaint \in Inputs
    BY <1>4 DEF Refuse, Complaint, Inputs
  <2>2. marks' \subseteq Inputs /\ errorBox' \in BOOLEAN
    BY <1>1, <1>4, <2>1 DEF Refuse, MarksCleared, FormTyped
  <2> QED
    BY <1>1, <1>4, <2>2, AnswersKept DEF Refuse, FormTyped, fields
<1>5. CASE Submit
  BY <1>5, SubmitKeeps
<1>6. ASSUME NEW r \in requests, NEW ok \in BOOLEAN, PaymentResponded(r, ok) PROVE PaymentInv'
  BY <1>6, PaymentRespondedKeeps
<1>7. ASSUME NEW r \in requests, NEW body \in GoodBodies \cup BadBodies, PaymentBody(r, body)
      PROVE  PaymentInv'
  BY <1>7, BodyKeeps
<1>8. ASSUME NEW r \in requests, PaymentFailed(r) PROVE PaymentInv'
  BY <1>8, FailedKeeps
<1>9. CASE CloseModal
  <2>1. modal' \in BOOLEAN
    BY <1>9 DEF CloseModal
  <2> QED
    BY <1>1, <1>9, <2>1, AnswersKept DEF CloseModal, FormTyped, fields
<1>10. CASE ResetForm
  BY <1>10, ResetKeeps
<1>11. CASE UNCHANGED payment
  BY <1>1, <1>11, AnswersKept DEF payment, FormTyped, viewers
<1> QED
  BY <1>2, <1>3, <1>4, <1>5, <1>6, <1>7, <1>8, <1>9, <1>10, <1>11 DEF PaymentNext

\* The strengthened invariant holds in every state.
THEOREM PaymentInvHolds == PaymentSpec => []PaymentInv
BY PaymentInvInit, PaymentInvNext, PTL DEF PaymentSpec

\* Every variable of the form has the type PaymentForm says.
THEOREM PaymentTyped == PaymentSpec => []PaymentTypeOK
BY PaymentInvHolds, PTL DEF PaymentInv

\* At most one request is under way, exactly while the button is disabled.
THEOREM OneRequest == PaymentSpec => []OneAtATime
BY PaymentInvHolds, PTL DEF PaymentInv

\* No blob URL is leaked, and the one displayed has not been revoked.
THEOREM UrlsAreOwned == PaymentSpec => []UrlsOwned
BY PaymentInvHolds, PTL DEF PaymentInv

----------------------------------------------------------------------------
(* AdminCalls *)

USE ButtonsAssumption, CallsBound

\* The calls under way are numbered in the order they were placed, and none of
\* them is the one whose reference feature 4 displays.
Numbered ==
  /\ \A c \in calls : c.n <= placed
  /\ \A c, d \in calls : c.n = d.n => c = d
  /\ \A c \in calls : c.n # refs[4].ref
  /\ refs[4].ref <= placed

\* The inductive invariant.
AdminInv == AdminTypeOK /\ Numbered /\ AnswerIsOwn /\ LocalReferenceMatches

\* The invariant holds initially.
LEMMA AdminInvInit == AdminInit => AdminInv
BY DEF AdminInit, AdminInv, AdminTypeOK, Numbered, AnswerIsOwn, LocalReferenceMatches

\* Of two different calls under way, one is not for the button of the other.
LEMMA OneCallEach ==
  ASSUME AdminInv, NEW c \in calls, NEW d \in calls, c.button = d.button
  PROVE  c = d
<1>1. c \in Call /\ d \in Call
  BY DEF AdminInv, AdminTypeOK
<1>2. c.n = box[c.button].call /\ d.n = box[d.button].call
  BY <1>1 DEF AdminInv, AnswerIsOwn, Call
<1> QED
  BY <1>2 DEF AdminInv, Numbered

\* A click places a call with a new number.
LEMMA PressKeeps ==
  ASSUME AdminInv, NEW b \in All, Press(b)
  PROVE  AdminInv'
<1> DEFINE new == [n |-> placed + 1, button |-> b, stage |-> "sent"]
<1>1. /\ enabled[b] /\ placed < MaxCalls
      /\ placed' = placed + 1
      /\ calls' = calls \cup {new}
      /\ enabled' = [enabled EXCEPT ![b] = FALSE]
      /\ box' = [box EXCEPT ![b] = [call |-> placed + 1, text |-> "loading"]]
      /\ UNCHANGED <<good, sharedRef, refs>>
  BY DEF Press, DisabledDuring
<1>2. placed + 1 \in Calls /\ placed \in Nat
  BY <1>1 DEF AdminInv, AdminTypeOK, Calls
<1>3. new \in Call
  BY <1>2 DEF Call
<1>4. AdminTypeOK'
  <2>1. placed' \in 0..MaxCalls
    BY <1>1, <1>2 DEF Calls
  <2>2. [call |-> placed + 1, text |-> "loading"]
          \in [call : 0..MaxCalls, text : {"blank", "loading", "answer", "failure"}]
    BY <1>2 DEF Calls
  <2> QED
    BY <1>1, <1>3, <2>1, <2>2 DEF AdminInv, AdminTypeOK
<1>5. \A c \in calls : c.button # b
  BY <1>1 DEF AdminInv, AnswerIsOwn
<1>6. Numbered'
  <2>1. \A c \in calls : c.n \in Nat /\ c.n <= placed
    BY DEF AdminInv, AdminTypeOK, Call, Calls, Numbered
  <2>2. refs[4].ref \in Nat /\ refs[4].ref <= placed
    BY DEF AdminInv, AdminTypeOK, Numbered
  <2>3. \A c \in calls' : c \in calls \/ c = new
    BY <1>1
  <2>4. refs' = refs
    BY <1>1
  <2> QED
    BY <1>1, <1>2, <2>1, <2>2, <2>3, <2>4 DEF AdminInv, Numbered
<1>7. AnswerIsOwn'
  <2> SUFFICES ASSUME NEW a \in All
               PROVE  /\ \A c \in calls' : c.button = a => c.n = box'[a].call
                      /\ box'[a].text = "loading" <=> \E c \in calls' : c.button = a
                      /\ enabled'[a] <=> box'[a].text # "loading"
    BY DEF AnswerIsOwn
  <2>1. CASE a = b
    <3>1. box'[a] = [call |-> placed + 1, text |-> "loading"] /\ ~enabled'[a]
      BY <1>1, <2>1 DEF AdminInv, AdminTypeOK
    <3>2. new \in calls' /\ new.button = a /\ new.n = placed + 1
      BY <1>1, <2>1
    <3>3. \A c \in calls' : c.button = a => c = new
      BY <1>1, <1>5, <2>1
    <3> HIDE DEF new
    <3> QED
      BY <3>1, <3>2, <3>3
  <2>2. CASE a # b
    <3>1. box'[a] = box[a] /\ enabled'[a] = enabled[a]
      BY <1>1, <2>2 DEF AdminInv, AdminTypeOK
    <3>2. \A c : c.button = a => (c \in calls' <=> c \in calls)
      BY <1>1, <2>2
    <3> QED
      BY <3>1, <3>2 DEF AdminInv, AnswerIsOwn
  <2> QED
    BY <2>1, <2>2
<1>8. LocalReferenceMatches'
  BY <1>1 DEF AdminInv, LocalReferenceMatches
<1> QED
  BY <1>4, <1>6, <1>7, <1>8 DEF AdminInv

\* The end of a call: its container displays it, and its button comes back.
LEMMA EndedFacts ==
  ASSUME AdminInv, NEW c \in calls, NEW text \in {"answer", "failure"}, Ended(c, text)
  PROVE  /\ calls' = calls \ {c}
         /\ enabled' \in [All -> BOOLEAN]
         /\ box' \in [All -> [call : 0..MaxCalls,
                              text : {"blank", "loading", "answer", "failure"}]]
         /\ AnswerIsOwn'
<1>1. /\ calls' = calls \ {c}
      /\ enabled' = [enabled EXCEPT ![c.button] = TRUE]
      /\ box' = [box EXCEPT ![c.button] = [call |-> c.n, text |-> text]]
  BY DEF Ended, EnabledAfter
<1>2. c.button \in All /\ c.n \in 0..MaxCalls
  BY DEF AdminInv, AdminTypeOK, Call, Calls
<1>3. /\ enabled' \in [All -> BOOLEAN]
      /\ box' \in [All -> [call : 0..MaxCalls,
                           text : {"blank", "loading", "answer", "failure"}]]
  BY <1>1, <1>2 DEF AdminInv, AdminTypeOK
<1>4. AnswerIsOwn'
  <2> SUFFICES ASSUME NEW a \in All
               PROVE  /\ \A d \in calls' : d.button = a => d.n = box'[a].call
                      /\ box'[a].text = "loading" <=> \E d \in calls' : d.button = a
                      /\ enabled'[a] <=> box'[a].text # "loading"
    BY DEF AnswerIsOwn
  <2>1. CASE a = c.button
    <3>1. box'[a] = [call |-> c.n, text |-> text] /\ enabled'[a]
      BY <1>1, <2>1 DEF AdminInv, AdminTypeOK
    <3>2. \A d \in calls' : d.button # a
      BY <1>1, <2>1, OneCallEach
    <3> QED
      BY <3>1, <3>2
  <2>2. CASE a # c.button
    <3>1. box'[a] = box[a] /\ enabled'[a] = enabled[a]
      BY <1>1, <2>2 DEF AdminInv, AdminTypeOK
    <3>2. \A d : d.button = a => (d \in calls' <=> d \in calls)
      BY <1>1, <2>2
    <3> QED
      BY <3>1, <3>2 DEF AdminInv, AnswerIsOwn
  <2> QED
    BY <2>1, <2>2
<1> QED
  BY <1>1, <1>3, <1>4

\* A call that ends leaves the numbers of the others as they are.
LEMMA EndedNumbered ==
  ASSUME AdminInv, NEW c \in calls, calls' = calls \ {c}, placed' = placed,
         refs'[4].ref \in {refs[4].ref, c.n, 0}
  PROVE  Numbered'
<1>1. \A d \in calls : d.n \in Calls /\ d.n <= placed /\ (d.n = c.n => d = c)
  BY DEF AdminInv, AdminTypeOK, Call, Numbered
<1>2. placed \in Nat
  BY DEF AdminInv, AdminTypeOK
<1>3. \A d \in calls' : d \in calls /\ d.n # c.n
  BY <1>1
<1>4. \A d \in calls' : d.n # refs'[4].ref
  BY <1>1, <1>3 DEF AdminInv, Numbered, Calls
<1> QED
  BY <1>1, <1>2, <1>3, <1>4 DEF AdminInv, Numbered, Calls

\* fetch resolves.
LEMMA AdminRespondedKeeps ==
  ASSUME AdminInv, NEW c \in calls, NEW ok \in BOOLEAN, Responded(c, ok)
  PROVE  AdminInv'
<1>1. /\ c.stage = "sent"
      /\ good' = IF ok THEN good \cup {c.n} ELSE good
      /\ sharedRef' = IF c.button = SetMock THEN sharedRef ELSE c.n
      /\ placed' = placed
  BY DEF Responded
<1>2. c \in Call /\ c.n \in Calls
  BY DEF AdminInv, AdminTypeOK, Call
<1>3. good' \subseteq Calls /\ sharedRef' \in 0..MaxCalls
  <2>1. good \subseteq Calls /\ sharedRef \in 0..MaxCalls
    BY DEF AdminInv, AdminTypeOK
  <2>2. good' \subseteq Calls
    BY <1>1, <1>2, <2>1
  <2>3. c.n \in 0..MaxCalls
    BY <1>2 DEF Calls
  <2> QED
    BY <1>1, <2>1, <2>2, <2>3
<1>4. c.n # refs[4].ref
  BY DEF AdminInv, Numbered
<1>5. CASE c.button \in NoBody
  <2>1. Ended(c, "answer") /\ Referred(c.button, ok, sharedRef')
    BY <1>5 DEF Responded
  <2>2. /\ calls' = calls \ {c}
        /\ enabled' \in [All -> BOOLEAN]
        /\ box' \in [All -> [call : 0..MaxCalls,
                             text : {"blank", "loading", "answer", "failure"}]]
        /\ AnswerIsOwn'
    BY <2>1, EndedFacts
  <2>3. refs' = [refs EXCEPT ![3] = [ok |-> ok, ref |-> sharedRef']]
    BY <1>5, <2>1 DEF Referred, Page
  <2>4. refs'[4] = refs[4] /\ refs' \in [{3, 4} -> [ok : BOOLEAN, ref : 0..MaxCalls]]
    BY <1>3, <2>3 DEF AdminInv, AdminTypeOK
  <2>5. AdminTypeOK'
    BY <1>1, <1>3, <2>2, <2>4 DEF AdminInv, AdminTypeOK
  <2>6. Numbered'
    BY <1>1, <2>2, <2>4, EndedNumbered
  <2>7. LocalReferenceMatches'
    BY <1>1, <1>4, <2>4 DEF AdminInv, LocalReferenceMatches
  <2> QED
    BY <2>2, <2>5, <2>6, <2>7 DEF AdminInv
<1>6. CASE c.button \notin NoBody
  <2> DEFINE h == [c EXCEPT !.stage = "head"]
  <2>1. calls' = (calls \ {c}) \cup {h} /\ UNCHANGED <<enabled, box, refs>>
    BY <1>6 DEF Responded
  <2>2. h \in Call /\ h.n = c.n /\ h.button = c.button
    BY <1>2 DEF Call
  <2>3. AdminTypeOK'
    BY <1>1, <1>3, <2>1, <2>2 DEF AdminInv, AdminTypeOK
  <2> HIDE DEF h
  <2>4. Numbered'
    BY <1>1, <2>1, <2>2 DEF AdminInv, Numbered
  <2>5. AnswerIsOwn'
    <3> SUFFICES ASSUME NEW a \in All
                 PROVE  /\ \A d \in calls' : d.button = a => d.n = box'[a].call
                        /\ box'[a].text = "loading" <=> \E d \in calls' : d.button = a
                        /\ enabled'[a] <=> box'[a].text # "loading"
      BY DEF AnswerIsOwn
    <3>1. box'[a] = box[a] /\ enabled'[a] = enabled[a]
      BY <2>1
    <3>2. (\E d \in calls' : d.button = a) <=> (\E d \in calls : d.button = a)
      BY <2>1, <2>2
    <3>3. \A d \in calls' : d.button = a => d.n = box[a].call
      BY <2>1, <2>2 DEF AdminInv, AnswerIsOwn
    <3> QED
      BY <3>1, <3>2, <3>3 DEF AdminInv, AnswerIsOwn
  <2>6. LocalReferenceMatches'
    BY <1>1, <1>4, <2>1 DEF AdminInv, LocalReferenceMatches
  <2> QED
    BY <2>3, <2>4, <2>5, <2>6 DEF AdminInv
<1> QED
  BY <1>5, <1>6

\* A call that ends with `text`, and whose page displays the reference r as one
\* of an operation that was successful or not.
LEMMA EndedKeeps ==
  ASSUME AdminInv, NEW c \in calls, NEW text \in {"answer", "failure"}, Ended(c, text),
         NEW ok \in BOOLEAN, NEW r \in 0..MaxCalls, Referred(c.button, ok, r),
         good' = good \/ good' = good \ {c.n},
         c.button = SetMock => r = 0 \/ (r = c.n /\ (ok <=> r \in good')),
         UNCHANGED <<placed, sharedRef>>
  PROVE  AdminInv'
<1>1. /\ calls' = calls \ {c}
      /\ enabled' \in [All -> BOOLEAN]
      /\ box' \in [All -> [call : 0..MaxCalls,
                           text : {"blank", "loading", "answer", "failure"}]]
      /\ AnswerIsOwn'
  BY EndedFacts
<1>2. Page(c.button) \in {3, 4} /\ (Page(c.button) = 4 => c.button = SetMock)
  BY DEF Page
<1>3. refs' = [refs EXCEPT ![Page(c.button)] = [ok |-> ok, ref |-> r]]
  BY DEF Referred
<1>4. /\ refs' \in [{3, 4} -> [ok : BOOLEAN, ref : 0..MaxCalls]]
      /\ \/ refs'[4] = refs[4]
         \/ refs'[4] = [ok |-> ok, ref |-> r] /\ c.button = SetMock
  BY <1>2, <1>3 DEF AdminInv, AdminTypeOK
<1>5. AdminTypeOK'
  BY <1>1, <1>4 DEF AdminInv, AdminTypeOK
<1>6. Numbered'
  BY <1>1, <1>4, EndedNumbered
<1>7. c.n # refs[4].ref
  BY DEF AdminInv, Numbered
<1>8. LocalReferenceMatches'
  BY <1>4, <1>7 DEF AdminInv, LocalReferenceMatches
<1> QED
  BY <1>1, <1>5, <1>6, <1>8 DEF AdminInv

\* Every step keeps the invariant.
LEMMA AdminInvNext == AdminInv /\ [AdminNext]_admin => AdminInv'
<1> SUFFICES ASSUME AdminInv, [AdminNext]_admin PROVE AdminInv'
  OBVIOUS
<1>1. ASSUME NEW b \in All, Press(b) PROVE AdminInv'
  BY <1>1, PressKeeps
<1>2. ASSUME NEW c \in calls, NEW ok \in BOOLEAN, Responded(c, ok) PROVE AdminInv'
  BY <1>2, AdminRespondedKeeps
<1>3. \A c \in calls : c.n \in 0..MaxCalls /\ sharedRef \in 0..MaxCalls
  BY DEF AdminInv, AdminTypeOK, Call, Calls
<1>4. ASSUME NEW c \in calls, Body(c) PROVE AdminInv'
  <2>1. ReferenceOf(c) \in 0..MaxCalls /\ (c.button = SetMock => ReferenceOf(c) = c.n)
    BY <1>3 DEF ReferenceOf
  <2>2. /\ Ended(c, "answer") /\ UNCHANGED <<placed, good, sharedRef>>
        /\ Referred(c.button, c.n \in good, ReferenceOf(c))
    BY <1>4 DEF Body
  <2>3. (c.n \in good) \in BOOLEAN
    OBVIOUS
  <2> QED
    BY <2>1, <2>2, <2>3, EndedKeeps
<1>5. ASSUME NEW c \in calls, Failed(c) PROVE AdminInv'
  <2>1. CASE c.button = SetMock /\ c.stage = "head"
    <3>1. /\ Ended(c, "answer") /\ UNCHANGED <<placed, good, sharedRef>>
          /\ Referred(c.button, c.n \in good, c.n)
      BY <1>5, <2>1 DEF Failed
    <3>2. (c.n \in good) \in BOOLEAN
      OBVIOUS
    <3> QED
      BY <1>3, <3>1, <3>2, EndedKeeps
  <2>2. CASE ~(c.button = SetMock /\ c.stage = "head")
    <3> DEFINE r == IF c.button = SetMock THEN 0 ELSE sharedRef
    <3>1. /\ Ended(c, "failure") /\ UNCHANGED <<placed, sharedRef>>
          /\ Referred(c.button, FALSE, r)
          /\ good' = good \ {c.n}
      BY <1>5, <2>2 DEF Failed
    <3>2. r \in 0..MaxCalls /\ (c.button = SetMock => r = 0)
      BY <1>3
    <3> HIDE DEF r
    <3> QED
      BY <3>1, <3>2, EndedKeeps
  <2> QED
    BY <2>1, <2>2
<1>6. ASSUME UNCHANGED admin PROVE AdminInv'
  BY <1>6 DEF AdminInv, AdminTypeOK, Numbered, AnswerIsOwn, LocalReferenceMatches, admin
<1> QED
  BY <1>1, <1>2, <1>4, <1>5, <1>6 DEF AdminNext

\* The strengthened invariant holds in every state.
THEOREM AdminInvHolds == AdminSpec => []AdminInv
BY AdminInvInit, AdminInvNext, PTL DEF AdminSpec

\* Every variable of the two pages has the type AdminCalls says.
THEOREM AdminTyped == AdminSpec => []AdminTypeOK
BY AdminInvHolds, PTL DEF AdminInv

\* A container displays the last call of its button, and says "Loading..."
\* exactly while it is under way.
THEOREM AnswersAreOwn == AdminSpec => []AnswerIsOwn
BY AdminInvHolds, PTL DEF AdminInv

\* The reference feature 4 displays has the colour of its own call.
THEOREM LocalReferences == AdminSpec => []LocalReferenceMatches
BY AdminInvHolds, PTL DEF AdminInv
=============================================================================
