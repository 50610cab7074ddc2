---------------------------- MODULE SessionProofs ----------------------------
(***************************************************************************)
(* Proofs about Session, for any tabs, users, views and number of tokens.  *)
(***************************************************************************)
EXTENDS Session, TLAPS

USE SessionNames, SessionBound

\* Every token somebody holds, or that was logged out, has been issued: a new
\* one is none of them.
Issued ==
  /\ storage.token \in 0..issued
  /\ \A t \in Tabs : app[t].token \in 0..issued
  /\ deletes \cup revoked \subseteq 1..issued

\* The inductive invariant.
SessionInv == SessionTypeOK /\ WhoIsShown /\ InSync /\ Issued /\ StoredIsLive

\* The number of an identity tells whether it is Nobody.
LEMMA IdentityFacts ==
  ASSUME NEW who \in Identities
  PROVE  /\ who.token \in 0..MaxTokens /\ who.user \in Users \cup {NoUser}
         /\ who = Nobody <=> who.token = 0
         /\ who = Nobody => who.user = NoUser
  BY DEF Identities, Identity, Nobody, Tokens

\* Becoming somebody keeps the types, and shows whom the tab acts for.
LEMMA BecomeFacts ==
  ASSUME SessionTypeOK, WhoIsShown, NEW t \in Tabs, NEW who \in Identities, Become(t, who),
         drawer' \in [Tabs -> BOOLEAN],
         \A x \in Tabs \ {t} : drawer'[x] = drawer[x],
         who = Nobody => ~drawer'[t]
  PROVE  /\ app' \in [Tabs -> Identities]
         /\ menu' \in [Tabs -> [label : Users \cup {NoUser}, shown : BOOLEAN]]
         /\ view' \in [Tabs -> Views \cup {LoginView}]
         /\ WhoIsShown'
<1>1. /\ app' = [app EXCEPT ![t] = who]
      /\ menu' = [menu EXCEPT ![t] = [label |-> who.user, shown |-> who.token # 0]]
      /\ view' = [view EXCEPT ![t] = IF who.token # 0 THEN Home ELSE LoginView]
  BY DEF Become, Activated, UserMenu
<1>2. /\ who.user \in Users \cup {NoUser}
      /\ who = Nobody <=> who.token = 0
  BY IdentityFacts
<1>3. /\ app' \in [Tabs -> Identities]
      /\ menu' \in [Tabs -> [label : Users \cup {NoUser}, shown : BOOLEAN]]
      /\ view' \in [Tabs -> Views \cup {LoginView}]
  BY <1>1, <1>2 DEF SessionTypeOK
<1>4. WhoIsShown'
  <2> SUFFICES ASSUME NEW x \in Tabs
               PROVE  /\ (view'[x] = LoginView) <=> (app'[x] = Nobody)
                      /\ menu'[x] = [label |-> app'[x].user, shown |-> app'[x] # Nobody]
                      /\ view'[x] = LoginView => ~drawer'[x]
    BY DEF WhoIsShown, Nobody
  <2>1. CASE x = t
    <3>1. /\ app'[t] = who
          /\ menu'[t] = [label |-> who.user, shown |-> who.token # 0]
          /\ view'[t] = IF who.token # 0 THEN Home ELSE LoginView
      BY <1>1 DEF SessionTypeOK
    <3>2. Home # LoginView
      OBVIOUS
    <3> QED
      BY <2>1, <3>1, <3>2, <1>2
  <2>2. CASE x # t
    <3>1. app'[x] = app[x] /\ menu'[x] = menu[x] /\ view'[x] = view[x]
      BY <1>1, <2>2 DEF SessionTypeOK
    <3> QED
      BY <2>2, <3>1 DEF WhoIsShown
  <2> QED
    BY <2>1, <2>2
<1> QED
  BY <1>3, <1>4

\* The invariant holds initially.
LEMMA SessionInvInit == SessionInit => SessionInv
<1> SUFFICES ASSUME SessionInit PROVE SessionInv
  OBVIOUS
<1>1. Nobody \in Identities /\ Nobody.token = 0 /\ Nobody.user = NoUser
  BY DEF Identities, Nobody
<1>2. SessionTypeOK
  BY <1>1 DEF SessionInit, SessionTypeOK
<1>3. WhoIsShown
  BY <1>1 DEF SessionInit, WhoIsShown
<1>4. InSync /\ Issued /\ StoredIsLive
  BY <1>1 DEF SessionInit, InSync, Issued, StoredIsLive
<1> QED
  BY <1>2, <1>3, <1>4 DEF SessionInv

\* A step that leaves the identities and the tokens alone keeps what is said
\* of them.
LEMMA TokensKept ==
  ASSUME SessionInv, UNCHANGED <<storage, app, issued, deletes, revoked, foreign>>
  PROVE  (InSync /\ Issued /\ StoredIsLive)'
BY DEF SessionInv, InSync, Issued, StoredIsLive

\* A step that leaves what a tab shows alone keeps WhoIsShown.
LEMMA ShownKept ==
  ASSUME SessionInv, UNCHANGED <<app, view, menu, drawer>>
  PROVE  WhoIsShown'
BY DEF SessionInv, WhoIsShown, Nobody

\* A login that succeeds: the tab and localStorage hold the new token, and no
\* other tab is in step with localStorage any more.
LEMMA LoggedInKeeps ==
  ASSUME SessionInv, NEW t \in Tabs, LoggedIn(t)
  PROVE  SessionInv'
<1> DEFINE who == [token |-> issued + 1, user |-> pending[t]]
<1>1. /\ issued' = issued + 1 /\ issued + 1 \in Tokens
      /\ storage' = who /\ Become(t, who)
      /\ pending' = [pending EXCEPT ![t] = NoUser]
      /\ foreign' = [x \in Tabs |-> x # t]
      /\ UNCHANGED <<drawer, deletes, revoked>>
  BY DEF SessionInv, SessionTypeOK, LoggedIn, Stored, Wrote, Tokens
<1>2. who \in Identities /\ who # Nobody
  BY <1>1 DEF SessionInv, SessionTypeOK, LoggedIn, Identities, Identity, Nobody, Tokens
<1>3. /\ app' \in [Tabs -> Identities]
      /\ menu' \in [Tabs -> [label : Users \cup {NoUser}, shown : BOOLEAN]]
      /\ view' \in [Tabs -> Views \cup {LoginView}]
      /\ WhoIsShown'
  BY <1>1, <1>2, BecomeFacts DEF SessionInv, SessionTypeOK
<1>4. SessionTypeOK'
  <2>1. issued' \in 0..MaxTokens
    BY <1>1 DEF Tokens
  <2>2. foreign' \in [Tabs -> BOOLEAN] /\ pending' \in [Tabs -> Users \cup {NoUser}]
    BY <1>1 DEF SessionInv, SessionTypeOK
  <2> QED
    BY <1>1, <1>2, <1>3, <2>1, <2>2 DEF SessionInv, SessionTypeOK
<1>5. app' = [app EXCEPT ![t] = who]
  BY <1>1 DEF Become
<1>6. InSync'
  BY <1>1, <1>5 DEF SessionInv, SessionTypeOK, InSync
<1>7. Issued' /\ StoredIsLive'
  BY <1>1, <1>5 DEF SessionInv, SessionTypeOK, Issued, StoredIsLive
<1> QED
  BY <1>3, <1>4, <1>6, <1>7 DEF SessionInv

\* A logout: whatever token localStorage holds is removed.
LEMMA LogoutKeeps ==
  ASSUME SessionInv, NEW t \in Tabs, Logout(t)
  PROVE  SessionInv'
<1>1. /\ deletes' = IF app[t].token # 0 THEN deletes \cup {app[t].token} ELSE deletes
      /\ storage' = Nobody /\ Become(t, Nobody)
      /\ drawer' = [drawer EXCEPT ![t] = FALSE]
      /\ foreign' = [x \in Tabs |-> x # t]
      /\ UNCHANGED <<pending, issued, revoked>>
  BY DEF Logout, StoredAfterLogout, Wrote
<1>2. Nobody \in Identities /\ Nobody.token = 0
  BY DEF Identities, Nobody
<1>3. /\ app' \in [Tabs -> Identities]
      /\ menu' \in [Tabs -> [label : Users \cup {NoUser}, shown : BOOLEAN]]
      /\ view' \in [Tabs -> Views \cup {LoginView}]
      /\ WhoIsShown'
  BY <1>1, <1>2, BecomeFacts DEF SessionInv, SessionTypeOK
<1>4. deletes' \subseteq 1..issued /\ deletes' \subseteq Tokens
  <2>1. app[t].token \in 0..issued /\ issued \in 0..MaxTokens
    BY DEF SessionInv, SessionTypeOK, Issued
  <2>2. app[t].token # 0 => app[t].token \in 1..issued
    BY <2>1
  <2>3. deletes' \subseteq 1..issued
    BY <1>1, <2>2 DEF SessionInv, Issued
  <2> QED
    BY <2>1, <2>3 DEF Tokens
<1>5. SessionTypeOK'
  BY <1>1, <1>2, <1>3, <1>4 DEF SessionInv, SessionTypeOK
<1>6. app' = [app EXCEPT ![t] = Nobody]
  BY <1>1 DEF Become
<1>7. InSync'
  BY <1>1, <1>6 DEF SessionInv, SessionTypeOK, InSync
<1>8. Issued' /\ StoredIsLive'
  <2>1. \A x \in Tabs : app'[x] = Nobody \/ app'[x] = app[x]
    BY <1>6 DEF SessionInv, SessionTypeOK
  <2>2. issued \in Nat /\ issued' = issued /\ revoked' \subseteq 1..issued
    BY <1>1 DEF SessionInv, SessionTypeOK, Issued
  <2>3. \A x \in Tabs : app'[x].token \in 0..issued
    BY <1>2, <2>1, <2>2 DEF SessionInv, Issued
  <2>4. storage'.token = 0
    BY <1>1, <1>2
  <2> QED
    BY <1>4, <2>2, <2>3, <2>4 DEF Issued, StoredIsLive
<1> QED
  BY <1>3, <1>5, <1>7, <1>8 DEF SessionInv

\* A page that is loaded takes the identity from localStorage.
LEMMA ReloadKeeps ==
  ASSUME SessionInv, NEW t \in Tabs, LoadPage(t)
  PROVE  SessionInv'
<1>1. /\ Become(t, storage)
      /\ drawer' = [drawer EXCEPT ![t] = FALSE]
      /\ pending' = [pending EXCEPT ![t] = NoUser]
      /\ foreign' = [foreign EXCEPT ![t] = FALSE]
      /\ UNCHANGED <<storage, issued, deletes, revoked>>
  BY DEF LoadPage
<1>2. /\ app' \in [Tabs -> Identities]
      /\ menu' \in [Tabs -> [label : Users \cup {NoUser}, shown : BOOLEAN]]
      /\ view' \in [Tabs -> Views \cup {LoginView}]
      /\ WhoIsShown'
  BY <1>1, BecomeFacts DEF SessionInv, SessionTypeOK
<1>3. SessionTypeOK'
  BY <1>1, <1>2 DEF SessionInv, SessionTypeOK
<1>4. app' = [app EXCEPT ![t] = storage]
  BY <1>1 DEF Become
<1>5. InSync'
  BY <1>1, <1>4 DEF SessionInv, SessionTypeOK, InSync
<1>6. Issued' /\ StoredIsLive'
  BY <1>1, <1>4 DEF SessionInv, SessionTypeOK, Issued, StoredIsLive
<1> QED
  BY <1>2, <1>3, <1>5, <1>6 DEF SessionInv

\* The server revokes a token that was logged out, or never hears of it.
LEMMA DeleteKeeps ==
  ASSUME SessionInv, NEW n \in Tokens, Revoke(n) \/ DeleteLost(n)
  PROVE  SessionInv'
<1>1. /\ n \in deletes /\ deletes' = deletes \ {n}
      /\ revoked' \in {revoked, revoked \cup {n}}
      /\ UNCHANGED <<storage, app, view, menu, drawer, pending, issued, foreign>>
  BY DEF Revoke, DeleteLost
<1>2. deletes' \cup revoked' \subseteq deletes \cup revoked
  BY <1>1
<1>3. SessionTypeOK'
  BY <1>1, <1>2 DEF SessionInv, SessionTypeOK
<1>4. WhoIsShown'
  BY <1>1, ShownKept
<1>5. InSync' /\ Issued' /\ StoredIsLive'
  BY <1>1, <1>2 DEF SessionInv, InSync, Issued, StoredIsLive
<1> QED
  BY <1>3, <1>4, <1>5 DEF SessionInv

\* Every step keeps the invariant.
LEMMA SessionInvNext == SessionInv /\ [SessionNext]_session => SessionInv'
<1> SUFFICES ASSUME SessionInv, [SessionNext]_session PROVE SessionInv'
  OBVIOUS
<1>1. ASSUME NEW t \in Tabs, NEW u \in Users, SubmitLogin(t, u) PROVE SessionInv'
  <2>1. SessionTypeOK'
    BY <1>1 DEF SessionInv, SessionTypeOK, SubmitLogin
  <2>2. WhoIsShown'
    BY <1>1, ShownKept DEF SubmitLogin
  <2> QED
    BY <1>1, <2>1, <2>2, TokensKept DEF SessionInv, SubmitLogin
<1>2. ASSUME NEW t \in Tabs, LoggedIn(t) PROVE SessionInv'
  BY <1>2, LoggedInKeeps
<1>3. ASSUME NEW t \in Tabs, LoginFailed(t) PROVE SessionInv'
  <2>1. SessionTypeOK'
    BY <1>3 DEF SessionInv, SessionTypeOK, LoginFailed, Released
  <2>2. WhoIsShown'
    BY <1>3, ShownKept DEF LoginFailed
  <2> QED
    BY <1>3, <2>1, <2>2, TokensKept DEF SessionInv, LoginFailed
<1>4. ASSUME NEW t \in Tabs, Logout(t) PROVE SessionInv'
  BY <1>4, LogoutKeeps
<1>5. ASSUME NEW n \in Tokens, Revoke(n) \/ DeleteLost(n) PROVE SessionInv'
  BY <1>5, DeleteKeeps
<1>6. ASSUME NEW t \in Tabs, LoadPage(t) PROVE SessionInv'
  BY <1>6, ReloadKeeps
<1>7. ASSUME NEW t \in Tabs, NEW v \in Views, NEW logo \in BOOLEAN, Navigate(t, v, logo)
      PROVE  SessionInv'
  <2>1. SessionTypeOK'
    BY <1>7 DEF SessionInv, SessionTypeOK, Navigate, Activated
  <2>2. WhoIsShown'
    BY <1>7 DEF SessionInv, SessionTypeOK, WhoIsShown, Navigate, Activated, Nobody
  <2> QED
    BY <1>7, <2>1, <2>2, TokensKept DEF SessionInv, Navigate
<1>8. ASSUME NEW t \in Tabs, NEW opened \in BOOLEAN, Drawer(t, opened) PROVE SessionInv'
  <2>1. SessionTypeOK'
    BY <1>8 DEF SessionInv, SessionTypeOK, Drawer
  <2>2. WhoIsShown'
    BY <1>8 DEF SessionInv, SessionTypeOK, WhoIsShown, Drawer, Nobody
  <2> QED
    BY <1>8, <2>1, <2>2, TokensKept DEF SessionInv, Drawer
<1>9. ASSUME UNCHANGED session PROVE SessionInv'
  <2>1. SessionTypeOK'
    BY <1>9 DEF SessionInv, SessionTypeOK, session
  <2>2. WhoIsShown'
    BY <1>9, ShownKept DEF session
  <2> QED
    BY <1>9, <2>1, <2>2, TokensKept DEF SessionInv, session
<1> QED
  BY <1>1, <1>2, <1>3, <1>4, <1>5, <1>6, <1>7, <1>8, <1>9 DEF SessionNext

\* The strengthened invariant holds in every state.
THEOREM SessionInvHolds == SessionSpec => []SessionInv
BY SessionInvInit, SessionInvNext, PTL DEF SessionSpec

\* Every variable of the session has the type Session says.
THEOREM SessionTyped == SessionSpec => []SessionTypeOK
BY SessionInvHolds, PTL DEF SessionInv

\* A tab shows the login form, or the name of the user it acts for.
THEOREM Shows == SessionSpec => []WhoIsShown
BY SessionInvHolds, PTL DEF SessionInv

\* appState and localStorage agree in a tab as long as no other tab writes.
THEOREM Agrees == SessionSpec => []InSync
BY SessionInvHolds, PTL DEF SessionInv

\* A session that was logged out is not restored by loading a page.
THEOREM LoggedOut == SessionSpec => []StoredIsLive
BY SessionInvHolds, PTL DEF SessionInv
=============================================================================
