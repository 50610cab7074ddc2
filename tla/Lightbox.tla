------------------------------ MODULE Lightbox ------------------------------
(***************************************************************************)
(* utils.js: the media the chat page displays, and the image and the PDF   *)
(* that open over the whole page.  An overlay covers what opens it, and    *)
(* listens to the keyboard of the document until it is closed; the         *)
(* listener of an overlay that is replaced would stay.                     *)
(***************************************************************************)
EXTENDS PageParameters

VARIABLES
  media,     \* the kinds of media in the chat view
  overlay,   \* overlay[kind]: the overlay on the page, by its number, or 0
  opened,    \* number of overlays opened
  listening  \* overlays whose keydown listener is registered

lightbox == <<media, overlay, opened, listening>>

Zoomable == {"image", "pdf"}
Kinds == Zoomable \cup {"video", "audio", "other"}
Covered == \E kind \in Zoomable : overlay[kind] # 0

LightboxTypeOK ==
  /\ media \subseteq Kinds
  /\ overlay \in [Zoomable -> 0..MaxOpened]
  /\ opened \in 0..MaxOpened
  /\ listening \subseteq 1..MaxOpened

LightboxInit ==
  /\ media = {}
  /\ overlay = [kind \in Zoomable |-> 0]
  /\ opened = 0
  /\ listening = {}

----------------------------------------------------------------------------

\* onBlobResponse: buildImageDiv, buildPdfDiv, buildVideoDiv, buildAudioDiv, or
\* nothing but the download link every file gets (buildDownloadDiv).
Arrive(kind) ==
  /\ media' = media \cup {kind}
  /\ UNCHANGED <<overlay, opened, listening>>

\* The Clear button of the chat; an overlay would be in its way.
ClearChat ==
  /\ ~Covered
  /\ media' = {}
  /\ UNCHANGED <<overlay, opened, listening>>

\* openImageLightbox, openPdfLightbox: one that is still there is removed first.
Open(kind) ==
  /\ kind \in media /\ ~Covered
  /\ opened < MaxOpened
  /\ opened' = opened + 1
  /\ overlay' = [overlay EXCEPT ![kind] = opened + 1]
  /\ listening' = listening \cup {opened + 1}
  /\ UNCHANGED media

\* Mutant: a click removes the overlay and forgets its listener.
ListeningAfterClick(n) == listening

\* close()
Unregistered(n) == listening \ {n}

\* A click on the overlay: anywhere on that of an image, beside the frame or on
\* the cross of that of a PDF.
Click(kind) ==
  /\ overlay[kind] # 0
  /\ overlay' = [overlay EXCEPT ![kind] = 0]
  /\ listening' = Unregistered(overlay[kind])
  /\ UNCHANGED <<media, opened>>

\* Escape: every listener closes its overlay.
Escape ==
  /\ listening # {}
  /\ overlay' = [kind \in Zoomable |->
       IF overlay[kind] \in listening THEN 0 ELSE overlay[kind]]
  /\ listening' = {}
  /\ UNCHANGED <<media, opened>>

LightboxNext ==
  \/ \E kind \in Kinds : Arrive(kind)
  \/ ClearChat
  \/ \E kind \in Zoomable : Open(kind)
  \/ \E kind \in Zoomable : Click(kind)
  \/ Escape

LightboxSpec == LightboxInit /\ [][LightboxNext]_lightbox

\* The listeners on the document are those of the overlays on the page: every
\* overlay can be closed by Escape, none outlives its overlay, and no overlay
\* is replaced without being closed.
KeysOwned == listening = {overlay[kind] : kind \in Zoomable} \ {0}
=============================================================================
