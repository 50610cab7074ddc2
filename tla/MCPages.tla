------------------------------- MODULE MCPages -------------------------------
(***************************************************************************)
(* The pages of the browser, for TLC.  Their parts share no variable, and  *)
(* every property is about one of them: so each behaviour is one of one    *)
(* part, chosen at the start, and the others stay as they are.             *)
(***************************************************************************)
EXTENDS Session, UploadPage, ChatConnection, StompPage, PaymentForm, CardSlip,
        AdminCalls, SplitPane, Lightbox

VARIABLE part  \* the part that moves

Parts == {"session", "upload", "chat", "stomp", "payment", "card", "admin", "split",
          "lightbox"}

vars == <<part, session, upload, connection, stomp, payment, number, admin, split,
          lightbox>>

Init ==
  /\ part \in Parts
  /\ SessionInit /\ UploadInit /\ ChatInit /\ StompInit
  /\ PaymentInit /\ CardInit /\ AdminInit /\ SplitInit /\ LightboxInit
  \* one initial state for each part that does not move
  /\ part # "upload" => signedIn
  /\ part # "card" => number = CHOOSE n \in Numbers : TRUE
  /\ part # "split" => total = CHOOSE n \in Totals : TRUE

\* All variables of the parts but those of part p do not change.
Others(p) ==
  /\ UNCHANGED part
  /\ p # "session" => UNCHANGED session
  /\ p # "upload" => UNCHANGED upload
  /\ p # "chat" => UNCHANGED connection
  /\ p # "stomp" => UNCHANGED stomp
  /\ p # "payment" => UNCHANGED payment
  /\ p # "card" => UNCHANGED number
  /\ p # "admin" => UNCHANGED admin
  /\ p # "split" => UNCHANGED split
  /\ p # "lightbox" => UNCHANGED lightbox

Next ==
  \/ part = "session"  /\ SessionNext  /\ Others("session")
  \/ part = "upload"   /\ UploadNext   /\ Others("upload")
  \/ part = "chat"     /\ ChatNext     /\ Others("chat")
  \/ part = "stomp"    /\ StompNext    /\ Others("stomp")
  \/ part = "payment"  /\ PaymentNext  /\ Others("payment")
  \/ part = "card"     /\ CardNext     /\ Others("card")
  \/ part = "admin"    /\ AdminNext    /\ Others("admin")
  \/ part = "split"    /\ SplitNext    /\ Others("split")
  \/ part = "lightbox" /\ LightboxNext /\ Others("lightbox")

\* In the initial state of a part, no action of its fairness is enabled.
Fairness ==
  /\ SessionFairness /\ UploadFairness /\ ChatFairness
  /\ PaymentFairness /\ AdminFairness

Spec == Init /\ [][Next]_vars
FairSpec == Spec /\ Fairness

----------------------------------------------------------------------------
(* Values *)

\* Two of the three files have one name and size.
MCLookOf == [f \in Files |-> IF f = "c" THEN "b" ELSE f]
MCCards == {<<10>>, <<4, 11, 2>>,
            <<4, 10, 1, 1, 1, 11, 1, 1, 1, 1, 1, 1, 1, 1, 9>>}
MCNumbers == LET Ending(n) == {Append(n, d) : d \in 0..9} IN
  Ending(<<4, 1, 1, 1, 1, 1, 1, 1, 1, 1, 1, 1>>)
    \cup Ending(<<4, 0, 9, 1, 7, 8, 6, 5, 2, 3, 1, 4, 2, 9, 0>>)
    \cup Ending(<<6, 3, 0, 4, 0, 9, 1, 7, 8, 6, 5, 2, 3, 1, 4, 2, 9, 0>>)
MCPointers == {-5, 0, 100, 180, 200, 210, 320, 500, 801, 2000}

----------------------------------------------------------------------------
(* Properties that join some of the parts.  The others are those of the parts *)
(* themselves: WhoIsShown, InSync, StoredIsLive (Session), OwnOutcome,        *)
(* Cancellable, Settles (UploadPage), SeenOnce, UploadStalls (StompPage),     *)
(* OneAtATime (PaymentForm), SlipsAreSeen (CardSlip), AnswerIsOwn             *)
(* (AdminCalls), PanesFit (SplitPane).                                        *)

\* Every variable has the type its part says.
TypeOK ==
  /\ part \in Parts
  /\ SessionTypeOK /\ UploadTypeOK /\ ChatTypeOK /\ StompTypeOK
  /\ PaymentTypeOK /\ CardTypeOK /\ AdminTypeOK /\ SplitTypeOK /\ LightboxTypeOK

\* ChatConnection, StompPage: the status line is that of the connection.
StatusesAreTrue == StatusIsTrue /\ StompStatusIsTrue

\* PaymentForm, Lightbox: what outlives a display is released with it: the live
\* blob URLs are those displayed, and the listeners on the document are those of
\* the overlays on the page.
NothingLeaks == UrlsOwned /\ KeysOwned

\* Session, ChatConnection, PaymentForm, AdminCalls: a control that is disabled
\* during a request is enabled again.
ButtonsComeBack ==
  /\ LoginAnswered
  /\ DisconnectObeyed
  /\ SubmitEnds
  /\ ButtonComesBack
=============================================================================
