------------------------------- MODULE Session -------------------------------
(***************************************************************************)
(* app.js: login, logout and the views, in several tabs of one browser.    *)
(*                                                                         *)
(* Every tab has its own appState; localStorage is one for all of them and *)
(* read only when a page loads.  The five keys of localStorage are written *)
(* and removed together by one task of the event loop, so they are one     *)
(* value here, the identity: the token and whom it names.                  *)
(***************************************************************************)
EXTENDS PageParameters

VARIABLES
  storage,  \* localStorage
  app,      \* app[t]: appState of tab t
  view,     \* view[t]: the view that is active
  menu,     \* menu[t]: the user menu, its label and whether it is displayed
  drawer,   \* drawer[t]: is the hamburger menu open?
  pending,  \* pending[t]: the user whose login is under way; the button is disabled
  issued,   \* number of tokens the server has issued
  deletes,  \* tokens with a DELETE /login under way
  revoked,  \* tokens the server no longer accepts
  foreign   \* history: has another tab written localStorage since t last did or read it?

session == <<storage, app, view, menu, drawer, pending, issued, deletes, revoked, foreign>>

----------------------------------------------------------------------------

Tokens == 1..MaxTokens
Identity == [token : Tokens, user : Users]
Nobody == [token |-> 0, user |-> NoUser]
Identities == Identity \cup {Nobody}

SessionTypeOK ==
  /\ storage \in Identities
  /\ app \in [Tabs -> Identities]
  /\ view \in [Tabs -> Views \cup {LoginView}]
  /\ menu \in [Tabs -> [label : Users \cup {NoUser}, shown : BOOLEAN]]
  /\ drawer \in [Tabs -> BOOLEAN]
  /\ pending \in [Tabs -> Users \cup {NoUser}]
  /\ issued \in 0..MaxTokens
  /\ deletes \subseteq Tokens
  /\ revoked \subseteq Tokens
  /\ foreign \in [Tabs -> BOOLEAN]

SessionInit ==
  /\ storage = Nobody
  /\ app = [t \in Tabs |-> Nobody]
  /\ view = [t \in Tabs |-> LoginView]
  /\ menu = [t \in Tabs |-> [label |-> NoUser, shown |-> FALSE]]
  /\ drawer = [t \in Tabs |-> FALSE]
  /\ pending = [t \in Tabs |-> NoUser]
  /\ issued = 0
  /\ deletes = {}
  /\ revoked = {}
  /\ foreign = [t \in Tabs |-> FALSE]

----------------------------------------------------------------------------
(* What the page shows *)

\* Mutant: the menu is only shown or hidden, its label stays.
MenuOfLast(t, who) == [menu[t] EXCEPT !.shown = who.token # 0]

\* updateUserMenu of tab t, for appState = who
UserMenu(t, who) == [label |-> who.user, shown |-> who.token # 0]

\* activateSubmenuView
Activated(t, v) == [view EXCEPT ![t] = v]

\* initializeApp, handleLogin, handleLogout: appState is who, and the menu and
\* the view are set to match it (showUploadView or showLoginView).
Become(t, who) ==
  /\ app' = [app EXCEPT ![t] = who]
  /\ menu' = [menu EXCEPT ![t] = UserMenu(t, who)]
  /\ view' = Activated(t, IF who.token # 0 THEN Home ELSE LoginView)

\* Tab t has written localStorage.
Wrote(t) == foreign' = [x \in Tabs |-> x # t]

----------------------------------------------------------------------------
(* Login and logout *)

\* handleLogin up to its request; the login form is displayed and its button
\* enabled.
SubmitLogin(t, u) ==
  /\ view[t] = LoginView /\ pending[t] = NoUser
  /\ pending' = [pending EXCEPT ![t] = u]
  /\ UNCHANGED <<storage, app, view, menu, drawer, issued, deletes, revoked, foreign>>

\* Mutant: the token is stored, a name that is there already stays.
StoredTokenOnly(who) == IF storage = Nobody THEN who ELSE [storage EXCEPT !.token = who.token]

\* The setItem calls of handleLogin
Stored(who) == who

\* handleLogin, when the server answers with a token.
LoggedIn(t) ==
  LET who == [token |-> issued + 1, user |-> pending[t]]
  IN  /\ pending[t] # NoUser
      /\ issued < MaxTokens
      /\ issued' = issued + 1
      /\ storage' = Stored(who)
      /\ Become(t, who)
      /\ pending' = [pending EXCEPT ![t] = NoUser]
      /\ Wrote(t)
      /\ UNCHANGED <<drawer, deletes, revoked>>

\* finally: the button is enabled again
Released(t) == NoUser

\* handleLogin, when the request fails, is refused or brings no token.
LoginFailed(t) ==
  /\ pending[t] # NoUser
  /\ pending' = [pending EXCEPT ![t] = Released(t)]
  /\ UNCHANGED <<storage, app, view, menu, drawer, issued, deletes, revoked, foreign>>

\* Mutant: nothing is removed.
ClearedNothing(t) == storage

\* The removeItem calls of handleLogout
StoredAfterLogout(t) == Nobody

\* handleLogout; the DELETE is sent and not waited for.
Logout(t) ==
  /\ view[t] # LoginView
  /\ deletes' = IF app[t].token # 0 THEN deletes \cup {app[t].token} ELSE deletes
  /\ storage' = StoredAfterLogout(t)
  /\ Become(t, Nobody)
  /\ drawer' = [drawer EXCEPT ![t] = FALSE]
  /\ Wrote(t)
  /\ UNCHANGED <<pending, issued, revoked>>

\* The server blacklists the token of a DELETE.
Revoke(n) ==
  /\ n \in deletes
  /\ deletes' = deletes \ {n}
  /\ revoked' = revoked \cup {n}
  /\ UNCHANGED <<storage, app, view, menu, drawer, pending, issued, foreign>>

\* The page was replaced, or the network failed, before the DELETE arrived.
DeleteLost(n) ==
  /\ n \in deletes
  /\ deletes' = deletes \ {n}
  /\ UNCHANGED <<storage, app, view, menu, drawer, pending, issued, revoked, foreign>>

\* initializeApp: the page is loaded again, by handleLogout or by the user; a
\* login under way is forgotten.
LoadPage(t) ==
  /\ Become(t, storage)
  /\ drawer' = [drawer EXCEPT ![t] = FALSE]
  /\ pending' = [pending EXCEPT ![t] = NoUser]
  /\ foreign' = [foreign EXCEPT ![t] = FALSE]
  /\ UNCHANGED <<storage, issued, deletes, revoked>>

----------------------------------------------------------------------------
(* Views *)

\* handleSubmenuClick and the logo: activateSubmenuView, and the drawer closes
\* unless it was the logo that was clicked.
Navigate(t, v, logo) ==
  /\ view[t] # LoginView  \* the menus are hidden while the login view is active
  /\ app[t].token # 0
  /\ logo => v = Home
  /\ view' = Activated(t, v)
  /\ drawer' = IF logo THEN drawer ELSE [drawer EXCEPT ![t] = FALSE]
  /\ UNCHANGED <<storage, app, menu, pending, issued, deletes, revoked, foreign>>

\* toggleHamburgerMenu, and a click outside the header, which only closes it.
Drawer(t, opened) ==
  /\ view[t] # LoginView
  /\ drawer' = [drawer EXCEPT ![t] = opened]
  /\ UNCHANGED <<storage, app, view, menu, pending, issued, deletes, revoked, foreign>>

----------------------------------------------------------------------------

SessionNext ==
  \/ \E t \in Tabs, u \in Users : SubmitLogin(t, u)
  \/ \E t \in Tabs : LoggedIn(t)
  \/ \E t \in Tabs : LoginFailed(t)
  \/ \E t \in Tabs : Logout(t)
  \/ \E n \in Tokens : Revoke(n)
  \/ \E n \in Tokens : DeleteLost(n)
  \/ \E t \in Tabs : LoadPage(t)
  \/ \E t \in Tabs, v \in Views, logo \in BOOLEAN : Navigate(t, v, logo)
  \/ \E t \in Tabs, opened \in BOOLEAN : Drawer(t, opened)

SessionSpec == SessionInit /\ [][SessionNext]_session

\* The browser settles the promise of a request.
SessionFairness == \A t \in Tabs : WF_session(LoggedIn(t) \/ LoginFailed(t))

----------------------------------------------------------------------------
(* Properties *)

\* A tab asks for a login exactly when it holds no token, and otherwise its user
\* menu names the user whose token it holds; with the login form nothing of the
\* user before is displayed, menu and drawer included.
WhoIsShown == \A t \in Tabs :
  /\ (view[t] = LoginView) <=> (app[t] = Nobody)
  /\ menu[t] = [label |-> app[t].user, shown |-> app[t] # Nobody]
  /\ view[t] = LoginView => ~drawer[t]

\* The calls of the feature pages and of the chat read the token from
\* localStorage, uploads and logout that of appState: they act for one user, the
\* one displayed, as long as no other tab has logged in or out meanwhile.
InSync == \A t \in Tabs : ~foreign[t] => storage = app[t]

\* A session that was logged out anywhere is not restored by loading a page: its
\* token is not in localStorage, whichever tab wrote it last.
StoredIsLive == storage.token \notin deletes \cup revoked

\* A login under way is answered, one way or the other: the button that is
\* disabled against a second submission comes back.
LoginAnswered == \A t \in Tabs : pending[t] # NoUser ~> pending[t] = NoUser
=============================================================================
