----------------------------- MODULE AdminCalls -----------------------------
(***************************************************************************)
(* feature3.js and feature4.js: buttons that send one request each and     *)
(* display its outcome.                                                    *)
(*                                                                         *)
(* The buttons of feature 3 (ping, version, health check, status) have a   *)
(* container each, but share one reference: a handler keeps the reference  *)
(* of its answer in feature3State, waits for the body, and displays what   *)
(* feature3State holds by then.  The button of feature 4 has a reference   *)
(* of its own.  A call and the reference of its answer have one number.    *)
(***************************************************************************)
EXTENDS PageParameters

VARIABLES
  calls,    \* calls under way
  placed,     \* number of calls placed
  good,     \* history: calls that have succeeded so far, by a status of success
            \* and no exception
  enabled,  \* enabled[b]: is the button enabled?
  box,      \* box[b]: what the container of b displays, and of which call
  sharedRef,  \* feature3State.lastReference, 0 for null
  refs      \* the reference containers of the two features: colour, reference

admin == <<calls, placed, good, enabled, box, sharedRef, refs>>

All == Buttons \cup {SetMock}
Calls == 1..MaxCalls
Call == [n : Calls, button : All, stage : {"sent", "head"}]
Page(b) == IF b = SetMock THEN 4 ELSE 3

AdminTypeOK ==
  /\ calls \subseteq Call
  /\ placed \in 0..MaxCalls
  /\ good \subseteq Calls
  /\ enabled \in [All -> BOOLEAN]
  /\ box \in [All -> [call : 0..MaxCalls, text : {"blank", "loading", "answer", "failure"}]]
  /\ sharedRef \in 0..MaxCalls
  /\ refs \in [{3, 4} -> [ok : BOOLEAN, ref : 0..MaxCalls]]

AdminInit ==
  /\ calls = {}
  /\ placed = 0
  /\ good = {}
  /\ enabled = [b \in All |-> TRUE]
  /\ box = [b \in All |-> [call |-> 0, text |-> "blank"]]
  /\ sharedRef = 0
  /\ refs = [f \in {3, 4} |-> [ok |-> TRUE, ref |-> 0]]

----------------------------------------------------------------------------

\* Mutant: the button is not disabled.
EnabledDuring(b) == enabled

\* The button is disabled during its call.
DisabledDuring(b) == [enabled EXCEPT ![b] = FALSE]

\* A click, up to the request; the container says "Loading...", or is emptied.
Press(b) ==
  /\ enabled[b]
  /\ placed < MaxCalls
  /\ placed' = placed + 1
  /\ calls' = calls \cup {[n |-> placed + 1, button |-> b, stage |-> "sent"]}
  /\ enabled' = DisabledDuring(b)
  /\ box' = [box EXCEPT ![b] = [call |-> placed + 1, text |-> "loading"]]
  /\ UNCHANGED <<good, sharedRef, refs>>

\* updateXReference
Referred(b, ok, ref) == refs' = [refs EXCEPT ![Page(b)] = [ok |-> ok, ref |-> ref]]

\* Mutant: only the way without an exception enables the button again.
EnabledIfFine(c, text) ==
  IF text = "answer" THEN [enabled EXCEPT ![c.button] = TRUE] ELSE enabled

\* finally
EnabledAfter(c, text) == [enabled EXCEPT ![c.button] = TRUE]

\* The end of the handler of call c, which displays `text`.
Ended(c, text) ==
  /\ calls' = calls \ {c}
  /\ box' = [box EXCEPT ![c.button] = [call |-> c.n, text |-> text]]
  /\ enabled' = EnabledAfter(c, text)

\* fetch resolves: the status and the reference of the answer are there; the
\* handler of a button in NoBody ends at once.
Responded(c, ok) ==
  /\ c \in calls /\ c.stage = "sent"
  /\ good' = IF ok THEN good \cup {c.n} ELSE good
  /\ sharedRef' = IF c.button = SetMock THEN sharedRef ELSE c.n
  /\ IF c.button \in NoBody
     THEN /\ Ended(c, "answer")
          /\ Referred(c.button, ok, sharedRef')
     ELSE /\ calls' = (calls \ {c}) \cup {[c EXCEPT !.stage = "head"]}
          /\ UNCHANGED <<enabled, box, refs>>
  /\ UNCHANGED placed

\* The reference a handler displays: feature 4 keeps that of its answer.
ReferenceOf(c) == IF c.button = SetMock THEN c.n ELSE sharedRef

\* response.text resolves.
Body(c) ==
  /\ c \in calls /\ c.stage = "head"
  /\ Ended(c, "answer")
  /\ Referred(c.button, c.n \in good, ReferenceOf(c))
  /\ UNCHANGED <<placed, good, sharedRef>>

\* fetch or response.text fails: catch, and the call has not succeeded whatever
\* its status was.  Feature 4 takes a body it cannot read for an empty one.
Failed(c) ==
  /\ c \in calls
  /\ IF c.button = SetMock /\ c.stage = "head"
     THEN Ended(c, "answer") /\ Referred(SetMock, c.n \in good, c.n) /\ UNCHANGED good
     ELSE /\ Ended(c, "failure")
          /\ Referred(c.button, FALSE, IF c.button = SetMock THEN 0 ELSE sharedRef)
          /\ good' = good \ {c.n}
  /\ UNCHANGED <<placed, sharedRef>>

AdminNext ==
  \/ \E b \in All : Press(b)
  \/ \E c \in calls, ok \in BOOLEAN : Responded(c, ok)
  \/ \E c \in calls : Body(c)
  \/ \E c \in calls : Failed(c)

AdminSpec == AdminInit /\ [][AdminNext]_admin

\* The browser settles the promises of a request.
Settled(n) == \E c \in calls :
  c.n = n /\ ((\E ok \in BOOLEAN : Responded(c, ok)) \/ Body(c) \/ Failed(c))
AdminFairness == \A n \in Calls : WF_admin(Settled(n))

----------------------------------------------------------------------------
(* Properties *)

\* A container displays the outcome of the last call of its button, and says
\* "Loading..." exactly while that is under way and the button is disabled:
\* no slower answer of an earlier call comes after it.
AnswerIsOwn == \A b \in All :
  /\ \A c \in calls : c.button = b => c.n = box[b].call
  /\ box[b].text = "loading" <=> \E c \in calls : c.button = b
  /\ enabled[b] <=> box[b].text # "loading"

\* A disabled button is enabled again.
ButtonComesBack == \A b \in All : ~enabled[b] ~> enabled[b]

\* updateXReference: a reference in the colour of "the operation was successful"
\* is that of an operation that was.  (Not so for feature 3, where a call that
\* succeeds displays the reference a failing one has left while it waited.)
ReferenceMatches == \A f \in {3, 4} :
  refs[f].ok /\ refs[f].ref # 0 => refs[f].ref \in good

\* For feature 4 it is, and a failing one never is: its reference is local to the
\* call.
LocalReferenceMatches ==
  refs[4].ref # 0 => (refs[4].ok <=> refs[4].ref \in good)
=============================================================================
