----------------------------- MODULE PaymentForm -----------------------------
(***************************************************************************)
(* feature2.js: the form that orders a PDF, with its validation, one       *)
(* request at a time, and what is displayed of the answers.                *)
(*                                                                         *)
(* handleFeature2Submit waits twice, for the head of the answer and for    *)
(* its body; the user can edit, leave a field, or reset the form then.     *)
(* Reset touches neither the request nor isSubmitting.                     *)
(***************************************************************************)
EXTENDS PageParameters, CardNumber

VARIABLES
  card, greeting, list,  \* the three fields that are validated
  marks,       \* fields with the class input-error
  errorBox,    \* is a text in feature2ErrorContainer?
  submitting,  \* feature2State.isSubmitting; it disables the button
  requests,    \* requests under way
  sent,        \* number of requests made
  lastRef,     \* feature2State.lastReference: a request, 0 for null
  refBox,      \* the reference container: colour and reference
  modal,       \* is the error dialog displayed?
  answer,      \* the request whose answer is displayed, 0 for none
  frame,       \* the request whose blob URL the iframe holds
  images,      \* the request whose images are displayed
  urls         \* blob URLs created and not revoked, by their request

payment == <<card, greeting, list, marks, errorBox, submitting, requests, sent,
             lastRef, refBox, modal, answer, frame, images, urls>>
fields == <<card, greeting, list>>
viewers == <<answer, frame, images, urls>>

Requests == 1..MaxRequests
Inputs == {"card", "greeting", "list"}
Greetings == {"blank", "text"}
Lists == {"blank", "separators", "items"}

\* Bodies of an answer: of the two services, the second has no PDF, and whether
\* its null fields are written or left out is a setting; an error has a list of
\* errors or not; or the body is no JSON.
GoodBodies == {"pdf", "plain", "nulls", "broken"}
BadBodies == {"errors", "message", "broken"}

Request == [n : Requests, stage : {"sent", "head"}, ok : BOOLEAN]

PaymentTypeOK ==
  /\ card \in Seq(0..12) /\ greeting \in Greetings /\ list \in Lists
  /\ marks \subseteq Inputs
  /\ {errorBox, submitting, modal} \subseteq BOOLEAN
  /\ requests \subseteq Request
  /\ sent \in 0..MaxRequests
  /\ {lastRef, answer, frame, images} \subseteq 0..MaxRequests
  /\ refBox \in [ok : BOOLEAN, ref : 0..MaxRequests]
  /\ urls \subseteq Requests

PaymentInit ==
  /\ card = << >> /\ greeting = "blank" /\ list = "blank"
  /\ marks = {}
  /\ errorBox = FALSE /\ submitting = FALSE /\ modal = FALSE
  /\ requests = {}
  /\ sent = 0 /\ lastRef = 0
  /\ refBox = [ok |-> TRUE, ref |-> 0]
  /\ answer = 0 /\ frame = 0 /\ images = 0
  /\ urls = {}

----------------------------------------------------------------------------
(* The form *)

\* trim: a text of nothing but blanks is empty.
Blank(text) == \A i \in DOMAIN text : text[i] = 10

Edit ==
  /\ \/ card' \in Cards /\ UNCHANGED <<greeting, list>>
     \/ greeting' \in Greetings /\ UNCHANGED <<card, list>>
     \/ list' \in Lists /\ UNCHANGED <<card, greeting>>
  /\ UNCHANGED <<marks, errorBox, submitting, requests, sent, lastRef, refBox, modal>>
  /\ UNCHANGED viewers

\* initializeFeature2: leaving the card field checks it.
Blur ==
  /\ marks' = IF Blank(card) \/ IsValid(Normalized(card))
              THEN marks \ {"card"} ELSE marks \cup {"card"}
  /\ UNCHANGED <<errorBox, submitting, requests, sent, lastRef, refBox, modal>>
  /\ UNCHANGED fields
  /\ UNCHANGED viewers

\* The first field handleFeature2Submit complains about, or "none".
Complaint ==
  IF Blank(card) \/ ~IsValid(Normalized(card)) THEN "card"
  ELSE IF greeting = "blank" THEN "greeting"
  ELSE IF list # "items" THEN "list"
  ELSE "none"

\* "Clear previous errors"
MarksCleared == marks \ {"card"}

\* handleFeature2Submit, when a field is not filled in.
Refuse ==
  /\ ~submitting
  /\ Complaint # "none"
  /\ marks' = MarksCleared \cup {Complaint}
  /\ errorBox' = TRUE
  /\ UNCHANGED <<submitting, requests, sent, lastRef, refBox, modal>>
  /\ UNCHANGED fields
  /\ UNCHANGED viewers

\* handleFeature2Submit, up to its request
Submit ==
  /\ ~submitting
  /\ Complaint = "none"
  /\ sent < MaxRequests
  /\ sent' = sent + 1
  /\ requests' = requests \cup {[n |-> sent + 1, stage |-> "sent", ok |-> FALSE]}
  /\ submitting' = TRUE
  /\ marks' = MarksCleared
  /\ errorBox' = FALSE
  /\ UNCHANGED <<lastRef, refBox, modal>>
  /\ UNCHANGED fields
  /\ UNCHANGED viewers

\* Mutant: the button is enabled again as soon as the head of the answer is there.
BusyUntilHead(r) == FALSE

\* isSubmitting, after the head of the answer
BusyAfterHead(r) == submitting

\* updateXReference
PaymentReferred(ok, ref) == refBox' = [ok |-> ok, ref |-> ref]

\* fetch resolves: status and X-Reference of the answer are there.
PaymentResponded(r, ok) ==
  /\ r \in requests /\ r.stage = "sent"
  /\ requests' = (requests \ {r}) \cup {[r EXCEPT !.stage = "head", !.ok = ok]}
  /\ lastRef' = r.n
  /\ submitting' = BusyAfterHead(r)
  /\ UNCHANGED <<marks, errorBox, sent, refBox, modal>>
  /\ UNCHANGED fields
  /\ UNCHANGED viewers

\* Mutant: the URL of the PDF before is not revoked.
KeptUrls == urls

\* displayBase64PDF revokes the URL of the iframe it replaces.
RevokedUrls == urls \ {frame}

\* displayBase64PDF and displayBase64Image, of the answer to request n
DisplayPDF(n) == frame' = n /\ urls' = RevokedUrls \cup {n}
DisplayImages(n) == images' = n

\* displayFeature2Response.  With null instead of a PDF, atob decodes "null" and
\* the images throw.
Display(r, body) ==
  /\ IF body \in {"pdf", "nulls"} THEN DisplayPDF(r.n) ELSE UNCHANGED <<frame, urls>>
  /\ IF body = "pdf" THEN DisplayImages(r.n) ELSE UNCHANGED images
  /\ answer' = IF body \in {"pdf", "plain"} THEN r.n ELSE answer

\* showErrorModal, for an answer with a list of errors
ModalAfter(body) == modal \/ body = "errors"

\* response.json resolves or fails, and the rest of handleFeature2Submit.
PaymentBody(r, body) ==
  /\ r \in requests /\ r.stage = "head"
  /\ body \in (IF r.ok THEN GoodBodies ELSE BadBodies)
  /\ IF r.ok THEN Display(r, body) ELSE UNCHANGED viewers
  /\ modal' = ModalAfter(body)
  /\ errorBox' = (errorBox \/ body \in {"message", "broken", "nulls"})
  /\ PaymentReferred(r.ok /\ body \in {"pdf", "plain"}, lastRef)
  /\ submitting' = FALSE
  /\ requests' = requests \ {r}
  /\ UNCHANGED <<marks, sent, lastRef>>
  /\ UNCHANGED fields

\* fetch fails: the catch and finally parts of handleFeature2Submit.
PaymentFailed(r) ==
  /\ r \in requests /\ r.stage = "sent"
  /\ errorBox' = TRUE
  /\ PaymentReferred(FALSE, lastRef)
  /\ submitting' = FALSE
  /\ requests' = requests \ {r}
  /\ UNCHANGED <<marks, sent, lastRef, modal>>
  /\ UNCHANGED fields
  /\ UNCHANGED viewers

\* showErrorModal: its close button
CloseModal ==
  /\ modal
  /\ modal' = FALSE
  /\ UNCHANGED <<marks, errorBox, submitting, requests, sent, lastRef, refBox>>
  /\ UNCHANGED fields
  /\ UNCHANGED viewers

\* clearFeature2Form
ResetForm ==
  /\ card' = << >> /\ greeting' = "blank" /\ list' = "blank"
  /\ marks' = {}
  /\ errorBox' = FALSE
  /\ lastRef' = 0
  /\ PaymentReferred(TRUE, 0)
  /\ answer' = 0 /\ frame' = 0 /\ images' = 0
  /\ urls' = RevokedUrls
  /\ UNCHANGED <<submitting, requests, sent, modal>>

----------------------------------------------------------------------------

PaymentNext ==
  \/ Edit
  \/ Blur
  \/ Refuse
  \/ Submit
  \/ \E r \in requests, ok \in BOOLEAN : PaymentResponded(r, ok)
  \/ \E r \in requests, body \in GoodBodies \cup BadBodies : PaymentBody(r, body)
  \/ \E r \in requests : PaymentFailed(r)
  \/ CloseModal
  \/ ResetForm

PaymentSpec == PaymentInit /\ [][PaymentNext]_payment

\* The browser settles the promises of a request.
Answered(n) == \E r \in requests :
  /\ r.n = n
  /\ \/ \E ok \in BOOLEAN : PaymentResponded(r, ok)
     \/ \E body \in GoodBodies \cup BadBodies : PaymentBody(r, body)
     \/ PaymentFailed(r)
PaymentFairness == \A n \in Requests : WF_payment(Answered(n))

----------------------------------------------------------------------------
(* Properties *)

\* A live blob URL is one the iframe displays: whatever answers come before and
\* after a reset, none is leaked, and the one displayed has not been revoked.
UrlsOwned == urls = {frame} \ {0}

\* There is at most one request under way, exactly while the button is disabled,
\* whatever is reset or edited meanwhile: of two there could be, the slower one
\* would win.
OneAtATime ==
  /\ submitting <=> requests # {}
  /\ \A r, q \in requests : r = q

\* A submission is answered, one way or the other, and the button comes back.
SubmitEnds == submitting ~> ~submitting

\* "Clear previous errors": when a request is sent, no field is marked any more.
\* (Not so: see the run pages_errors.)
ErrorsCleared == [][Submit => marks' = {}]_payment
=============================================================================
