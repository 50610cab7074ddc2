--------------------------- MODULE PageParameters ---------------------------
(***************************************************************************)
(* The parameters of the models of the browser's pages, and what is        *)
(* assumed of them.                                                        *)
(***************************************************************************)
EXTENDS Integers, Sequences

\* Session
CONSTANTS Tabs, Users, NoUser,
          Views, Home,   \* the content views; Home is that of "menu0"
          LoginView,
          MaxTokens      \* bound: logins that succeed

ASSUME SessionNames == NoUser \notin Users /\ Home \in Views /\ LoginView \notin Views
ASSUME SessionBound == MaxTokens \in Nat

\* UploadPage
CONSTANTS Files,         \* File objects the user can pick
          Looks,         \* name and size of a file
          LookOf,        \* LookOf[f] \in Looks
          MaxTasks,      \* bound: requests made by one page
          MaxPicked,     \* bound: files picked at a time
          Steps          \* bound: progress events of a request

ASSUME LookAssumption == LookOf \in [Files -> Looks]
ASSUME UploadBounds == MaxTasks \in Nat \ {0} /\ MaxPicked \in Nat /\ Steps \in Nat

\* ChatConnection
CONSTANT MaxSockets      \* bound: sockets one page opens

ASSUME SocketsBound == MaxSockets \in Nat

\* StompPage
CONSTANTS MaxClients,    \* bound: clients one page makes
          MaxTexts,      \* bound: texts of the broker whose way is followed
          MaxPicks,      \* bound: files picked
          MaxChunks      \* bound: size of a file in chunks

ASSUME StompBounds == {MaxClients, MaxTexts, MaxPicks, MaxChunks} \subseteq Nat

\* PaymentForm
CONSTANTS Cards,         \* texts typed into the card field
          MaxRequests    \* bound: requests sent

ASSUME CardsAssumption == Cards \subseteq Seq(0..12)
ASSUME RequestsBound == MaxRequests \in Nat

\* AdminCalls
CONSTANTS Buttons,       \* the buttons of feature 3
          NoBody,        \* those whose handler reads the status only (status)
          SetMock,       \* the button of feature 4
          MaxCalls       \* bound: requests of one page

ASSUME ButtonsAssumption == NoBody \subseteq Buttons /\ SetMock \notin Buttons
ASSUME CallsBound == MaxCalls \in Nat

\* SplitPane
CONSTANTS Totals,        \* widths of both panes together
          Pointers       \* positions of the mouse, from the container's left edge

ASSUME LengthsAssumption == Totals \subseteq Nat /\ Pointers \subseteq Int

\* Lightbox
CONSTANT MaxOpened       \* bound: overlays opened

ASSUME OpenedBound == MaxOpened \in Nat
=============================================================================
