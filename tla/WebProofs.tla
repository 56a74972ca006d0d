----------------------------- MODULE WebProofs ------------------------------
(***************************************************************************)
(* Proofs about the web interface and the image hoster.                    *)
(*                                                                         *)
(* The wallet's session: which keys sign, which are saved, how long they   *)
(* stay in memory, and how often an operation calls back.  The lists of    *)
(* condenser: lists of posts have no gaps, and a list of follows that      *)
(* ends is complete.  The image proxy: an answer that was given once is    *)
(* given again.                                                            *)
(***************************************************************************)
EXTENDS WalletSession, PostLists, FollowLoader, ImageProxy,
        FiniteSetTheorems, SequenceTheorems, NaturalsInduction, WellFoundedInduction, TLAPS

-----------------------------------------------------------------------------
(***************************************************************************)
(* The session of the wallet.                                              *)
(***************************************************************************)

\* What was typed stands for keys, and for nothing where it does not apply.
LEMMA DerivedKeysType ==
  ASSUME NEW l \in Form
  PROVE  DerivedKeys(l) \in KeysByRole
BY SessionAssumption DEF DerivedKeys, KeysByRole, Form, Role, None

\* The keys a login tries are keys, one for each role.
LEMMA LoginKeysType ==
  ASSUME login \in LoginState
  PROVE  LoginKeys \in KeysByRole
<1>1. DerivedKeys(login.form) \in KeysByRole /\ login.memo \in Key \union {None}
  BY DerivedKeysType DEF LoginState
<1> QED BY <1>1 DEF LoginKeys, KeysByRole, Role

-----------------------------------------------------------------------------
(* The invariant has a part about the operations and their dialogs and one *)
(* about the session and its keys; most steps touch one of them only.      *)

\* What holds of the state s of operation o, if the keys of ks stay.
OpGood(s, o, ks) ==
  /\ s \in OpState
  /\ s.pc \in {"modal", "confirm", "warn"} => s.asked
  /\ s.form # NotTyped => s.asked
  /\ s.calls = IF s.pc = "done" THEN Calls(o, "success")
               ELSE IF s.pc = "failed" THEN Calls(o, "error") ELSE 0
  /\ s.pc = "lost" => o \in TransferOp
  /\ s.pc \in {"signing", "sending"} =>
       /\ ~s.asked => s.username = s.account
       /\ s.form = NotTyped => \A r \in Role : s.keys[r] \in ks \union {None}

DialogsShow ==
  /\ modal \in Op \union {None} /\ confirming \in Op \union {None}
  /\ modal # None => op[modal].pc = "modal"
  /\ confirming # None => op[confirming].pc \in {"confirm", "warn"}

OpsPart ==
  /\ DialogsShow
  /\ op = [o \in Op |-> op[o]] /\ \A o \in Op : OpGood(op[o], o, kept)

SessionPart ==
  /\ current \in [username : User \union {None}, keys : KeysByRole]
  /\ autopost \in [username : User, posting : Key, memo : Key \union {None}] \union {NotSaved}
  /\ login \in LoginState \union {NoLogin}
  /\ page \in {"low", "high"} /\ fresh \in BOOLEAN /\ readOnly \in BOOLEAN
  /\ KeysOfTheirRole /\ SavedOfTheirRole /\ SavedLoginIsLow /\ KeysLeave

\* The invariant by the state it is about.
LEMMA InvariantInParts == WalletInv <=> OpsPart /\ SessionPart
<1>1. WalletInv => OpsPart /\ SessionPart
  BY DEF WalletInv, WalletTypeOK, OpsPart, SessionPart, DialogsShow, OpGood, DialogsHold,
         CalledBackOnce, SignsAsDispatched
<1>2. OpsPart /\ SessionPart => WalletInv
  <2> SUFFICES ASSUME OpsPart, SessionPart PROVE WalletInv
    OBVIOUS
  <2>1. op \in [Op -> OpState]
    BY DEF OpsPart, OpGood
  <2> QED BY <2>1 DEF WalletInv, WalletTypeOK, OpsPart, SessionPart, DialogsShow, OpGood,
                      DialogsHold, CalledBackOnce, SignsAsDispatched
<1> QED BY <1>1, <1>2

\* Steps that leave the session as it is.
LEMMA SessionUnchanged ==
  ASSUME SessionPart, UNCHANGED sessionVars
  PROVE  SessionPart'
BY DEF SessionPart, sessionVars, KeysOfTheirRole, SavedOfTheirRole, SavedLoginIsLow, SavedKeys,
       KeysLeave, OnlyKeptKeys, HighKeysAreFresh

\* Steps that leave the operations as they are.
LEMMA OpsUnchanged ==
  ASSUME OpsPart, UNCHANGED <<modal, confirming, op>>, kept \subseteq kept'
  PROVE  OpsPart'
BY DEF OpsPart, DialogsShow, OpGood

\* An operation that has begun to do nothing, or has ended and called back as
\* often as the end asks for.
LEMMA PlainGood ==
  ASSUME NEW o \in Op, NEW ks, NEW pc \in {"new", "dropped"} \union Ended, NEW calls,
         pc = "lost" => o \in TransferOp,
         calls = IF pc = "done" THEN Calls(o, "success")
                 ELSE IF pc = "failed" THEN Calls(o, "error") ELSE 0
  PROVE  OpGood(Plain(pc, calls), o, ks)
<1>1. calls \in Nat
  BY DEF Calls
<1>2. Plain(pc, calls) \in OpState
  BY <1>1 DEF Plain, OpState, KeysByRole, NoKeys, Ended
<1> QED BY <1>2 DEF Plain, OpGood, Ended

\* Operations move on, or are dropped from their dialogs.
LEMMA OpsMove ==
  ASSUME OpsPart, kept \subseteq kept', DialogsShow', op' = [p \in Op |-> op'[p]],
         \A p \in Op : \/ op'[p] = op[p] \/ op'[p] = Plain("dropped", 0)
                       \/ OpGood(op'[p], p, kept')
  PROVE  OpsPart'
<1> SUFFICES ASSUME NEW p \in Op PROVE OpGood(op'[p], p, kept')
  BY DEF OpsPart
<1>1. CASE op'[p] = op[p]
  BY <1>1 DEF OpsPart, OpGood
<1>2. CASE op'[p] = Plain("dropped", 0)
  BY <1>2, PlainGood
<1> QED BY <1>1, <1>2

\* An operation dropped from its dialog has not called back, and others do not
\* change.
LEMMA DropKeeps ==
  ASSUME OpsPart, NEW o \in Op \union {None},
         o # None => op[o].pc \in {"modal", "confirm", "warn"}
  PROVE  /\ Drop(o) = [p \in Op |-> Drop(o)[p]]
         /\ \A p \in Op \ {o} : Drop(o)[p] = op[p]
         /\ o # None => Drop(o)[o] = Plain("dropped", 0)
<1>1. CASE o = None
  BY <1>1, SessionAssumption DEF Drop, OpsPart
<1>2. CASE o # None
  <2>1. o \in Op /\ op[o].calls = 0
    BY <1>2 DEF OpsPart, OpGood
  <2>2. Drop(o) = [op EXCEPT ![o] = Plain("dropped", 0)]
    BY <1>2, <2>1 DEF Drop
  <2> QED BY <1>2, <2>1, <2>2 DEF OpsPart
<1> QED BY <1>1, <1>2

\* The dialog for logins closes and its operation is dropped.
LEMMA ModalDropped ==
  ASSUME OpsPart, kept \subseteq kept', op' = Drop(modal), modal' = None, UNCHANGED confirming
  PROVE  OpsPart'
<1>1. modal \in Op \union {None} /\ (modal # None => op[modal].pc \in {"modal", "confirm", "warn"})
  BY DEF OpsPart, DialogsShow
<1>2. /\ op' = [p \in Op |-> op'[p]] /\ \A p \in Op \ {modal} : op'[p] = op[p]
      /\ modal # None => op'[modal] = Plain("dropped", 0)
  BY <1>1, DropKeeps
<1>3. DialogsShow'
  BY <1>2 DEF OpsPart, DialogsShow
<1>4. \A p \in Op : op'[p] = op[p] \/ op'[p] = Plain("dropped", 0)
  BY <1>2, SessionAssumption
<1> QED BY <1>2, <1>3, <1>4, OpsMove

-----------------------------------------------------------------------------
(* The session.                                                            *)

\* A login that starts keeps what holds of the session.
LEMMA LoginStarts ==
  ASSUME SessionPart, NEW l \in Form, NEW saveLogin \in BOOLEAN, NEW forOp \in BOOLEAN,
         NEW auto \in BOOLEAN, StartLogin(l, saveLogin, forOp, auto, None),
         UNCHANGED <<current, autopost, page, kept, fresh, readOnly>>
  PROVE  SessionPart'
<1>1. login' \in LoginState
  BY DEF StartLogin, LoginState
<1> QED BY <1>1 DEF SessionPart, KeysOfTheirRole, SavedOfTheirRole, SavedLoginIsLow, SavedKeys,
                    KeysLeave, OnlyKeptKeys, HighKeysAreFresh

\* The form is submitted without an operation.
LEMMA StepSubmitLogin ==
  ASSUME WalletInv, NEW l \in Login, NEW saveLogin \in BOOLEAN, SubmitLogin(l, saveLogin)
  PROVE  WalletInv'
<1>1. l \in Form
  BY SessionAssumption
<1>2. SessionPart'
  BY <1>1, LoginStarts, InvariantInParts DEF SubmitLogin
<1>3. OpsPart'
  BY OpsUnchanged, InvariantInParts DEF SubmitLogin, taskVars
<1> QED BY <1>2, <1>3, InvariantInParts, PTL

\* A login that comes through changes the keys to ones it has full authority
\* with, and drops the operation of an open dialog.
LEMMA StepLoginSucceeds ==
  ASSUME WalletInv, LoginSucceeds
  PROVE  WalletInv'
<1> DEFINE u == login.form.username
           keep == ~login.forOp \/ login.saveLogin
           keys == [r \in Role |-> IF keep /\ r \in LoginAuths THEN LoginKeys[r] ELSE None]
<1>1. /\ login \in LoginState /\ u \in User
      /\ current.keys \in KeysByRole /\ current \in [username : User \union {None}, keys : KeysByRole]
  BY DEF WalletInv, WalletTypeOK, LoginSucceeds, LoginState, NoLogin, None, Form
<1>2. \A r \in Role : keys[r] # None => r \in LoginAuths /\ keys[r] = KeyOf[u][r]
  BY DEF LoginAuths, FullAuths
<1>3. keys \in KeysByRole
  <2>1. LoginKeys \in KeysByRole
    BY <1>1, LoginKeysType
  <2> QED BY <2>1 DEF KeysByRole
<1>4. current' = [username |-> u,
                  keys |-> [r \in Role |-> IF keys[r] # None THEN keys[r] ELSE current.keys[r]]]
  BY DEF LoginSucceeds, SetUser
<1>5. current' \in [username : User \union {None}, keys : KeysByRole]
  BY <1>1, <1>3, <1>4 DEF KeysByRole
<1>6. login' \in LoginState
  BY <1>1 DEF LoginSucceeds, LoginState
<1>7. KeysOfTheirRole'
  <2> SUFFICES ASSUME NEW r \in {"posting", "memo"}, current'.keys[r] # None
               PROVE  \E v \in User : current'.keys[r] = KeyOf[v][r]
    BY DEF KeysOfTheirRole
  <2>1. r \in Role
    BY DEF Role
  <2>2. CASE keys[r] # None
    BY <1>1, <1>2, <1>4, <2>1, <2>2
  <2>3. CASE keys[r] = None
    <3>1. current'.keys[r] = current.keys[r]
      BY <1>4, <2>1, <2>3
    <3> QED BY <3>1 DEF WalletInv, KeysOfTheirRole
  <2> HIDE DEF keys
  <2> QED BY <2>2, <2>3
<1>8. OnlyKeptKeys' /\ kept \subseteq kept'
  <2>1. kept' = IF keep THEN kept \union {keys[q] : q \in LoginAuths} ELSE kept
    BY DEF LoginSucceeds
  <2> SUFFICES ASSUME NEW r \in Role PROVE current'.keys[r] \in kept' \union {None}
    BY <2>1 DEF OnlyKeptKeys
  <2>2. CASE keys[r] # None
    <3>1. r \in LoginAuths /\ keep
      BY <2>2
    <3> HIDE DEF keys, keep
    <3> QED BY <1>4, <2>1, <2>2, <3>1
  <2>3. CASE keys[r] = None
    <3> HIDE DEF keys, keep
    <3> QED BY <1>4, <2>1, <2>3 DEF WalletInv, KeysLeave, OnlyKeptKeys
  <2> HIDE DEF keys
  <2> QED BY <2>2, <2>3
<1>9. HighKeysAreFresh'
  BY DEF LoginSucceeds, HighKeysAreFresh
<1>10. SessionPart'
  <2>1. UNCHANGED <<autopost, page, readOnly>> /\ fresh' = TRUE
    BY DEF LoginSucceeds
  <2>2. SavedLoginIsLow' /\ SavedOfTheirRole'
    BY <2>1 DEF WalletInv, SavedLoginIsLow, SavedKeys, SavedOfTheirRole
  <2> QED BY <1>5, <1>6, <1>7, <1>8, <1>9, <2>1, <2>2
          DEF SessionPart, KeysLeave, WalletInv, WalletTypeOK
<1>11. OpsPart'
  <2>1. op' = Drop(modal) /\ modal' = None /\ UNCHANGED confirming
    BY DEF LoginSucceeds, SetUser
  <2> QED BY <1>8, <2>1, ModalDropped, InvariantInParts
<1> QED BY <1>10, <1>11, InvariantInParts, PTL

\* Where nothing is saved there are no keys.
LEMMA NotSavedGood ==
  NotSaved.posting = None /\ NotSaved.memo = None
BY DEF NotSaved

\* The keys have no full authority: no login.
LEMMA StepIncorrectPassword ==
  ASSUME WalletInv, IncorrectPassword
  PROVE  WalletInv'
<1>1. SessionPart'
  BY NotSavedGood, InvariantInParts
  DEF IncorrectPassword, SessionPart, KeysOfTheirRole, SavedOfTheirRole, SavedLoginIsLow, KeysLeave,
      OnlyKeptKeys, HighKeysAreFresh
<1>2. OpsPart'
  BY OpsUnchanged, InvariantInParts DEF IncorrectPassword, taskVars
<1> QED BY <1>1, <1>2, InvariantInParts, PTL

\* What is saved is the posting key in memory, if it is no key of a higher
\* authority of the user who is logged in, and the memo key in memory.
LEMMA SavedLoginLow ==
  ASSUME SessionPart
  PROVE  /\ SavedLogin \in [username : User, posting : Key, memo : Key \union {None}] \union {NotSaved}
         /\ SavedLogin.posting # None => \E u \in User : SavedLogin.posting = KeyOf[u]["posting"]
         /\ SavedLogin.memo # None => \E u \in User : SavedLogin.memo = KeyOf[u]["memo"]
         /\ SavedLogin # NotSaved => SavedLogin.posting \notin HighKeys(SavedLogin.username)
<1>1. /\ current.username \in User \union {None} /\ current.keys["posting"] \in Key \union {None}
      /\ current.keys["memo"] \in Key \union {None}
  BY DEF SessionPart, KeysByRole, Role
<1>2. CASE \/ current.username = None \/ current.keys["posting"] = None
           \/ current.keys["posting"] \in HighKeys(current.username)
  BY <1>2, NotSavedGood DEF SavedLogin
<1>3. CASE ~(\/ current.username = None \/ current.keys["posting"] = None
             \/ current.keys["posting"] \in HighKeys(current.username))
  <2>1. SavedLogin = [username |-> current.username, posting |-> current.keys["posting"],
                      memo |-> current.keys["memo"]]
    BY <1>3 DEF SavedLogin
  <2>2. current.username \in User /\ current.keys["posting"] \in Key
    BY <1>1, <1>3
  <2>3. \A r \in {"posting", "memo"} :
          current.keys[r] # None => \E u \in User : current.keys[r] = KeyOf[u][r]
    BY DEF SessionPart, KeysOfTheirRole
  <2> QED BY <1>1, <1>3, <2>1, <2>2, <2>3
<1> QED BY <1>2, <1>3

\* The server answers, and the login ends.
LEMMA StepServerAnswers ==
  ASSUME WalletInv, ServerAnswers
  PROVE  WalletInv'
<1>1. CASE autopost' = autopost
  <2>1. SessionPart'
    BY <1>1, InvariantInParts DEF ServerAnswers, SessionPart, KeysOfTheirRole, SavedOfTheirRole,
         SavedLoginIsLow, SavedKeys, KeysLeave, OnlyKeptKeys, HighKeysAreFresh
  <2>2. OpsPart'
    BY OpsUnchanged, InvariantInParts DEF ServerAnswers, taskVars
  <2> QED BY <2>1, <2>2, InvariantInParts, PTL
<1>2. CASE autopost' = SavedLogin
  <2> HIDE DEF SavedLogin
  <2>1. /\ autopost' \in [username : User, posting : Key, memo : Key \union {None}] \union {NotSaved}
        /\ SavedOfTheirRole'
        /\ autopost' # NotSaved => autopost'.posting \notin HighKeys(autopost'.username)
    BY <1>2, SavedLoginLow, InvariantInParts DEF SavedOfTheirRole
  <2>2. \A u \in User : KeepsApart(u) => SavedKeys' \intersect HighKeys(u) = {}
    BY <2>1 DEF SavedOfTheirRole, KeepsApart, SavedKeys
  <2>3. SavedLoginIsLow'
    BY <2>1, <2>2 DEF SavedLoginIsLow
  <2>4. SessionPart'
    BY <2>1, <2>3, InvariantInParts DEF ServerAnswers, SessionPart, KeysOfTheirRole, KeysLeave,
         OnlyKeptKeys, HighKeysAreFresh
  <2>5. OpsPart'
    BY OpsUnchanged, InvariantInParts DEF ServerAnswers, taskVars
  <2> QED BY <2>4, <2>5, InvariantInParts, PTL
<1> QED BY <1>1, <1>2 DEF ServerAnswers

\* A session without a user holds no keys.
LEMMA LoggedOutGood ==
  /\ LoggedOut \in [username : User \union {None}, keys : KeysByRole]
  /\ \A r \in Role : LoggedOut.keys[r] = None
BY DEF LoggedOut, NoKeys, KeysByRole

\* The session ends.
LEMMA Steplogout ==
  ASSUME WalletInv, logout
  PROVE  WalletInv'
<1>1. SessionPart'
  BY LoggedOutGood, NotSavedGood, InvariantInParts
  DEF logout, SessionPart, KeysOfTheirRole, SavedOfTheirRole, SavedLoginIsLow,
      KeysLeave, OnlyKeptKeys, HighKeysAreFresh, Role
<1>2. OpsPart'
  BY ModalDropped, InvariantInParts DEF logout
<1> QED BY <1>1, <1>2, InvariantInParts, PTL

\* The page is loaded anew.  A saved login is typed in again: its key is
\* someone's posting key, so the password there is one.
LEMMA StepReload ==
  ASSUME WalletInv, Reload
  PROVE  WalletInv'
<1>1. login' \in LoginState \union {NoLogin}
  <2>1. CASE autopost = NotSaved
    BY <2>1 DEF Reload
  <2>2. CASE autopost # NotSaved
    <3> DEFINE P(p) == KeyOf[p.of][p.is] = autopost.posting
               pw == CHOOSE p \in [of : User, is : Role] : P(p)
    <3>1. autopost.username \in User /\ autopost.posting \in Key /\ autopost.memo \in Key \union {None}
      BY <2>2 DEF WalletInv, WalletTypeOK
    <3>2. \E p \in [of : User, is : Role] : P(p)
      <4>1. PICK u \in User : autopost.posting = KeyOf[u]["posting"]
        BY <3>1, SessionAssumption DEF WalletInv, SavedOfTheirRole
      <4>2. [of |-> u, is |-> "posting"] \in [of : User, is : Role]
        BY DEF Role
      <4> QED BY <4>1, <4>2
    <3>3. pw \in [of : User, is : Role]
      <4> HIDE DEF P
      <4> QED BY <3>2
    <3>4. [username |-> autopost.username, role |-> None, password |-> pw] \in Form
      <4> HIDE DEF pw
      <4> QED BY <3>1, <3>3 DEF Form
    <3>5. login' = [pc |-> "account", saveLogin |-> FALSE, forOp |-> FALSE, auto |-> TRUE,
                    form |-> [username |-> autopost.username, role |-> None, password |-> pw],
                    memo |-> autopost.memo]
      BY <2>2 DEF Reload, StartLogin
    <3> HIDE DEF pw
    <3> QED BY <3>1, <3>4, <3>5 DEF LoginState
  <2> QED BY <2>1, <2>2
<1>2. SessionPart'
  BY <1>1, LoggedOutGood, InvariantInParts
  DEF Reload, SessionPart, KeysOfTheirRole, SavedOfTheirRole, SavedLoginIsLow, SavedKeys,
      KeysLeave, OnlyKeptKeys, HighKeysAreFresh, Role
<1>3. OpsPart'
  <2>1. modal' = None /\ confirming' = None
    BY DEF Reload
  <2>2. DialogsShow'
    BY <2>1 DEF DialogsShow
  <2>3. ASSUME NEW o \in Op
        PROVE  OpGood(op'[o], o, kept')
    <3>1. OpGood(op[o], o, kept)
      BY InvariantInParts DEF OpsPart
    <3>2. CASE op[o].pc = "new" \/ op[o].pc \in Ended
      <4>1. op'[o] = op[o]
        BY <3>2 DEF Reload
      <4> QED BY <3>1, <3>2, <4>1 DEF OpGood, Ended
    <3>3. CASE ~(op[o].pc = "new" \/ op[o].pc \in Ended)
      <4>1. op'[o] = Plain("dropped", 0)
        BY <3>1, <3>3 DEF Reload, OpGood, Ended
      <4> QED BY <4>1, PlainGood
    <3> QED BY <3>2, <3>3
  <2>4. op' = [o \in Op |-> op'[o]]
    BY DEF Reload
  <2> QED BY <2>2, <2>3, <2>4 DEF OpsPart
<1> QED BY <1>2, <1>3, InvariantInParts, PTL

\* Leaving for a page of low security takes the high keys away.
LEMMA StepNavigate ==
  ASSUME WalletInv, NEW to \in {"low", "high"}, Navigate(to)
  PROVE  WalletInv'
<1> DEFINE low == [current.keys EXCEPT !["active"] = None, !["owner"] = None]
<1>1. current \in [username : User \union {None}, keys : KeysByRole]
  BY DEF WalletInv, WalletTypeOK
<1>2. low \in KeysByRole
  BY <1>1 DEF KeysByRole
<1>3. /\ current' \in [username : User \union {None}, keys : KeysByRole]
      /\ \A r \in Role : current'.keys[r] \in {current.keys[r], None}
      /\ to = "low" => current'.keys["active"] = None /\ current'.keys["owner"] = None
  <2>1. CASE to = "high"
    BY <1>1, <2>1 DEF Navigate
  <2>2. CASE to = "low" /\ current.keys = NoKeys
    BY <1>1, <2>2 DEF Navigate, removeHighSecurityKeys, NoKeys, Role
  <2>3. CASE to = "low" /\ current.keys # NoKeys /\ low = NoKeys
    <3>1. current' = LoggedOut
      BY <2>3 DEF Navigate, removeHighSecurityKeys
    <3> QED BY <3>1, LoggedOutGood DEF Role
  <2>4. CASE to = "low" /\ current.keys # NoKeys /\ low # NoKeys
    <3>1. current' = [current EXCEPT !.keys = low]
      BY <2>4 DEF Navigate, removeHighSecurityKeys
    <3>2. low["active"] = None /\ low["owner"] = None /\ \A r \in Role : low[r] \in {current.keys[r], None}
      BY <1>1 DEF KeysByRole, Role
    <3> HIDE DEF low
    <3> QED BY <1>1, <1>2, <3>1, <3>2
  <2> HIDE DEF low
  <2> QED BY <2>1, <2>2, <2>3, <2>4
<1>4. SessionPart'
  <2>1. UNCHANGED <<autopost, login, kept, readOnly>> /\ page' = to /\ fresh' = FALSE
    BY DEF Navigate
  <2>2. KeysOfTheirRole'
    BY <1>3 DEF WalletInv, KeysOfTheirRole, Role
  <2>3. KeysLeave'
    BY <1>3, <2>1 DEF WalletInv, KeysLeave, OnlyKeptKeys, HighKeysAreFresh
  <2>4. SavedLoginIsLow' /\ SavedOfTheirRole'
    BY <2>1 DEF WalletInv, SavedLoginIsLow, SavedKeys, SavedOfTheirRole
  <2> QED BY <1>3, <2>1, <2>2, <2>3, <2>4 DEF SessionPart, WalletInv, WalletTypeOK
<1>5. OpsPart'
  <2>1. UNCHANGED <<confirming, kept>>
    BY DEF Navigate
  <2>2. UNCHANGED <<modal, op>> \/ (modal' = None /\ op' = Drop(modal))
    BY DEF Navigate, removeHighSecurityKeys
  <2> QED BY <2>1, <2>2, OpsUnchanged, ModalDropped, InvariantInParts
<1> QED BY <1>4, <1>5, InvariantInParts, PTL

-----------------------------------------------------------------------------
(* The operations.                                                         *)

\* One operation moves on, out of the dialog it was in.
LEMMA OneOpMoves ==
  ASSUME OpsPart, UNCHANGED kept, NEW o \in Op, NEW s, OpGood(s, o, kept),
         op' = [op EXCEPT ![o] = s],
         modal' \in {modal, None}, confirming' \in {confirming, None},
         op[o].pc = "modal" => modal' = None,
         op[o].pc \in {"confirm", "warn"} => confirming' # o
  PROVE  OpsPart'
<1>1. op' = [p \in Op |-> op'[p]] /\ op'[o] = s /\ \A p \in Op \ {o} : op'[p] = op[p]
  BY DEF OpsPart
<1>2. DialogsShow'
  BY <1>1, SessionAssumption DEF OpsPart, DialogsShow
<1>3. \A p \in Op : op'[p] = op[p] \/ OpGood(op'[p], p, kept')
  BY <1>1
<1> QED BY <1>1, <1>2, <1>3, OpsMove

\* An operation that ends, and calls back as often as its end asks for.
LEMMA OpEnds ==
  ASSUME OpsPart, UNCHANGED kept, NEW o \in Op, NEW pc \in Ended, NEW called,
         Ends(o, pc, called),
         pc = "lost" => o \in TransferOp,
         called = IF pc = "done" THEN Calls(o, "success")
                  ELSE IF pc = "failed" THEN Calls(o, "error") ELSE 0,
         op[o].pc \in {"modal", "confirm", "warn", "signing", "sending"},
         modal' \in {modal, None}, confirming' \in {confirming, None},
         op[o].pc = "modal" => modal' = None,
         op[o].pc \in {"confirm", "warn"} => confirming' # o
  PROVE  OpsPart'
<1>1. op[o].calls = 0 /\ called \in Nat
  BY DEF OpsPart, OpGood, Calls
<1>2. op' = [op EXCEPT ![o] = Plain(pc, called)]
  <2>1. op' = [op EXCEPT ![o] = Plain(pc, op[o].calls + called)]
    BY DEF Ends
  <2>2. op[o].calls + called = called
    BY <1>1
  <2> QED BY <2>1, <2>2
<1>3. OpGood(Plain(pc, called), o, kept)
  BY PlainGood
<1> QED BY <1>2, <1>3, OneOpMoves

\* A dialog that is closed drops its operation.
LEMMA DialogDropped ==
  ASSUME OpsPart, UNCHANGED kept, NEW o \in Op, op' = Drop(o),
         op[o].pc \in {"modal", "confirm", "warn"},
         modal' \in {modal, None}, confirming' \in {confirming, None},
         op[o].pc = "modal" => modal' = None,
         op[o].pc \in {"confirm", "warn"} => confirming' # o
  PROVE  OpsPart'
<1>1. o # None /\ op[o].calls = 0
  BY SessionAssumption DEF OpsPart, OpGood
<1>2. op' = [op EXCEPT ![o] = Plain("dropped", 0)]
  BY <1>1 DEF Drop
<1>3. OpGood(Plain("dropped", 0), o, kept)
  BY PlainGood
<1> QED BY <1>2, <1>3, OneOpMoves

\* Looking for a key: in the name the operation was dispatched in unless the
\* user has seen it since.
LEMMA FindKeyGood ==
  ASSUME OpsPart, SessionPart, NEW o \in Op, NEW account \in User \union {None},
         NEW l \in Form \union {NotTyped},
         op[o].pc \in {"new", "modal", "confirm", "warn"},
         l # NotTyped => op[o].asked, ~op[o].asked => account = current.username
  PROVE  OpGood(FindKey(o, account, l), o, kept)
<1>1. l # NotTyped => DerivedKeys([l EXCEPT !.role = None]) \in KeysByRole
  <2> SUFFICES ASSUME l \in Form PROVE DerivedKeys([l EXCEPT !.role = None]) \in KeysByRole
    OBVIOUS
  <2>1. [l EXCEPT !.role = None] \in Form
    BY DEF Form
  <2> QED BY <2>1, DerivedKeysType
<1>2. op[o] \in OpState /\ op[o].calls = 0 /\ op[o].asked \in BOOLEAN
  BY DEF OpsPart, OpGood, OpState
<1>3. current.username \in User \union {None} /\ current.keys \in KeysByRole
  BY DEF SessionPart
<1> DEFINE name == IF l = NotTyped THEN current.username ELSE l.username
           ks == IF l # NotTyped THEN DerivedKeys([l EXCEPT !.role = None]) ELSE current.keys
           s == [pc |-> "signing", account |-> account, username |-> name, form |-> l,
                 asked |-> op[o].asked, calls |-> op[o].calls, keys |-> ks]
<1>4. name \in User \union {None} /\ ks \in KeysByRole
  BY <1>1, <1>3 DEF Form
<1>5. FindKey(o, account, l) = s
  BY DEF FindKey
<1>6. s \in OpState
  <2> HIDE DEF name, ks
  <2> QED BY <1>2, <1>4 DEF OpState
<1>7. ~op[o].asked => name = account
  OBVIOUS
<1>8. l = NotTyped => \A r \in Role : ks[r] \in kept \union {None}
  BY DEF SessionPart, KeysLeave, OnlyKeptKeys
<1>9. OpGood(s, o, kept)
  <2> HIDE DEF name, ks
  <2> QED BY <1>2, <1>6, <1>7, <1>8 DEF OpGood
<1> HIDE DEF s
<1> QED BY <1>5, <1>9

\* The dialog for confirmations takes an operation in, and drops the one it
\* has shown.
LEMMA ConfirmGood ==
  ASSUME OpsPart, UNCHANGED kept, NEW o \in Op, NEW account \in User \union {None},
         NEW l \in Form \union {NotTyped}, NEW pc \in {"confirm", "warn"},
         op[o].pc \in {"new", "modal", "confirm", "warn"}, Confirm(o, account, l, pc),
         modal' \in {modal, None}, op[o].pc = "modal" => modal' = None
  PROVE  OpsPart'
<1> DEFINE s == [pc |-> pc, account |-> account, username |-> None, form |-> l,
                 asked |-> TRUE, calls |-> op[o].calls, keys |-> NoKeys]
<1>1. op[o].calls = 0
  BY DEF OpsPart, OpGood
<1>2. OpGood(s, o, kept)
  <2>1. s \in OpState
    BY <1>1 DEF OpState, NoKeys, KeysByRole
  <2> QED BY <1>1, <2>1 DEF OpGood
<1>3. /\ confirming \in Op \union {None} /\ confirming # None => op[confirming].pc \in {"confirm", "warn"}
      /\ \A p \in Op \ {confirming} : Drop(confirming)[p] = op[p]
      /\ confirming # None => Drop(confirming)[confirming] = Plain("dropped", 0)
  <2>1. /\ confirming \in Op \union {None}
        /\ confirming # None => op[confirming].pc \in {"modal", "confirm", "warn"}
        /\ confirming # None => op[confirming].pc \in {"confirm", "warn"}
    BY DEF OpsPart, DialogsShow
  <2> QED BY <2>1, DropKeeps
<1>4. /\ op' = [p \in Op |-> op'[p]] /\ op'[o] = s /\ confirming' = o
      /\ \A p \in Op \ {o} : op'[p] = Drop(confirming)[p]
  BY DEF Confirm
<1>5. s.pc = pc
  OBVIOUS
<1> HIDE DEF s
<1>6. \A p \in Op : op'[p] = op[p] \/ op'[p] = Plain("dropped", 0) \/ OpGood(op'[p], p, kept')
  BY <1>2, <1>3, <1>4, SessionAssumption
<1>7. DialogsShow'
  <2>1. confirming' \in Op /\ op'[confirming'].pc \in {"confirm", "warn"}
    BY <1>4, <1>5
  <2>2. modal' \in Op \union {None}
    BY DEF OpsPart, DialogsShow
  <2>3. modal' # None => op'[modal'].pc = "modal"
    <3> SUFFICES ASSUME modal' # None PROVE op'[modal'].pc = "modal"
      OBVIOUS
    <3>1. modal' = modal /\ modal \in Op /\ op[modal].pc = "modal"
      BY DEF OpsPart, DialogsShow
    <3>2. modal # o /\ modal # confirming
      BY <1>3, <3>1, SessionAssumption
    <3> QED BY <1>3, <1>4, <3>1, <3>2
  <2> QED BY <2>1, <2>2, <2>3 DEF DialogsShow
<1> QED BY <1>4, <1>6, <1>7, OpsMove

\* An operation is asked about, or looks for its key.
LEMMA BroadcastGood ==
  ASSUME OpsPart, SessionPart, UNCHANGED kept, NEW o \in Op, NEW account \in User \union {None},
         NEW l \in Form \union {NotTyped}, NEW confirm \in BOOLEAN, NEW allow \in BOOLEAN,
         broadcastOperation(o, account, l, confirm, allow),
         op[o].pc \in {"new", "modal", "confirm", "warn"},
         l # NotTyped => op[o].asked, ~op[o].asked => account = current.username,
         modal' \in {modal, None}, op[o].pc = "modal" => modal' = None
  PROVE  OpsPart'
<1>1. CASE Confirm(o, account, l, "confirm") \/ Confirm(o, account, l, "warn")
  BY <1>1, ConfirmGood
<1>2. CASE ~(Confirm(o, account, l, "confirm") \/ Confirm(o, account, l, "warn"))
  <2>1. /\ op' = [op EXCEPT ![o] = FindKey(o, account, l)]
        /\ confirming' = IF confirming = o THEN None ELSE confirming
    BY <1>2 DEF broadcastOperation
  <2>2. confirming' \in {confirming, None} /\ confirming' # o
    BY <2>1, SessionAssumption
  <2>3. OpGood(FindKey(o, account, l), o, kept)
    BY FindKeyGood
  <2> QED BY <2>1, <2>2, <2>3, OneOpMoves
<1> QED BY <1>1, <1>2

\* An operation enters the dialog for logins, which drops the one it has shown.
LEMMA ShowsLoginGood ==
  ASSUME OpsPart, NEW o \in Op, ShowsLogin(o)
  PROVE  OpsPart'
<1>1. /\ op[o].pc = "signing" /\ op' = [Drop(modal) EXCEPT ![o].pc = "modal", ![o].asked = TRUE]
      /\ modal' = o /\ UNCHANGED <<confirming, kept>>
  BY DEF ShowsLogin, sessionVars
<1>2. /\ modal \in Op \union {None} /\ confirming \in Op \union {None}
      /\ modal # None => op[modal].pc = "modal"
      /\ confirming # None => op[confirming].pc \in {"confirm", "warn"}
  BY DEF OpsPart, DialogsShow
<1>3. /\ Drop(modal) = [p \in Op |-> Drop(modal)[p]]
      /\ \A p \in Op \ {modal} : Drop(modal)[p] = op[p]
      /\ modal # None => Drop(modal)[modal] = Plain("dropped", 0)
  <2>1. modal # None => op[modal].pc \in {"modal", "confirm", "warn"}
    BY <1>2
  <2> QED BY <1>2, <2>1, DropKeeps
<1>4. o # modal /\ o # confirming /\ o # None /\ OpGood(op[o], o, kept)
  BY <1>1, <1>2, SessionAssumption DEF OpsPart
<1>5. PICK s : s = [[op[o] EXCEPT !.pc = "modal"] EXCEPT !.asked = TRUE]
  OBVIOUS
<1>6. op'[o] = s /\ op' = [p \in Op |-> op'[p]] /\ \A p \in Op \ {o} : op'[p] = Drop(modal)[p]
  <2>1. PICK d : d = Drop(modal)
    OBVIOUS
  <2>2. d = [p \in Op |-> d[p]] /\ d[o] = op[o]
    BY <1>3, <1>4, <2>1
  <2> QED BY <1>1, <1>5, <2>1, <2>2
<1>7. s \in OpState /\ s.pc = "modal" /\ s.asked /\ s.calls = op[o].calls
  BY <1>4, <1>5 DEF OpGood, OpState
<1>8. OpGood(s, o, kept')
  BY <1>1, <1>4, <1>7 DEF OpGood
<1>9. DialogsShow'
  BY <1>1, <1>2, <1>3, <1>4, <1>6, <1>7, SessionAssumption DEF DialogsShow
<1>10. \A p \in Op : op'[p] = op[p] \/ op'[p] = Plain("dropped", 0) \/ OpGood(op'[p], p, kept')
  <2> SUFFICES ASSUME NEW p \in Op \ {o}
               PROVE  op'[p] = op[p] \/ op'[p] = Plain("dropped", 0)
    BY <1>6, <1>8
  <2>1. p # None
    BY SessionAssumption
  <2>2. CASE p = modal
    BY <1>3, <1>6, <2>1, <2>2
  <2>3. CASE p # modal
    BY <1>3, <1>6, <2>3
  <2> QED BY <2>2, <2>3
<1> QED BY <1>1, <1>6, <1>9, <1>10, OpsMove

\* The steps of the operations that leave the session alone.
LEMMA StepsOfOps ==
  ASSUME WalletInv, NEW o \in Op,
         \/ Dispatch(o) \/ Sends(o) \/ Ignores(o) \/ ShowsLogin(o) \/ LookupFails(o)
         \/ Accepted(o) \/ SendFails(o)
  PROVE  WalletInv'
<1>1. UNCHANGED sessionVars
  BY DEF Dispatch, Sends, Ignores, ShowsLogin, LookupFails, Accepted, SendFails
<1>2. SessionPart' /\ UNCHANGED kept
  BY <1>1, SessionUnchanged, InvariantInParts DEF sessionVars
<1>3. OpsPart /\ SessionPart /\ OpGood(op[o], o, kept) /\ op[o] \in OpState
  BY InvariantInParts DEF OpsPart, OpGood
<1>4. CASE Dispatch(o)
  <2>1. op[o].pc = "new" /\ UNCHANGED modal /\ current.username \in User \union {None}
        /\ broadcastOperation(o, current.username, NotTyped, o \in ConfirmOp, FALSE)
    BY <1>3, <1>4 DEF Dispatch, SessionPart
  <2>2. (o \in ConfirmOp) \in BOOLEAN
    OBVIOUS
  <2>3. OpsPart'
    BY <1>2, <1>3, <2>1, <2>2, BroadcastGood
  <2> QED BY <1>2, <2>3, InvariantInParts, PTL
<1>5. CASE Sends(o)
  <2>1. PICK s : s = [op[o] EXCEPT !.pc = "sending"]
    OBVIOUS
  <2>2. OpGood(s, o, kept) /\ op[o].pc = "signing"
    <3>1. op[o].pc = "signing"
      BY <1>5 DEF Sends
    <3>2. s \in OpState /\ s.pc = "sending"
      BY <1>3, <2>1 DEF OpState
    <3>3. /\ s.asked = op[o].asked /\ s.form = op[o].form /\ s.calls = op[o].calls
          /\ s.username = op[o].username /\ s.account = op[o].account /\ s.keys = op[o].keys
      BY <1>3, <2>1 DEF OpState
    <3> QED BY <1>3, <3>1, <3>2, <3>3 DEF OpGood
  <2>3. op' = [op EXCEPT ![o] = s] /\ UNCHANGED <<modal, confirming>>
    BY <1>5, <2>1 DEF Sends
  <2>4. OpsPart'
    BY <1>2, <1>3, <2>2, <2>3, OneOpMoves
  <2> QED BY <1>2, <2>4, InvariantInParts, PTL
<1>6. CASE ShowsLogin(o)
  BY <1>2, <1>3, <1>6, ShowsLoginGood, InvariantInParts, PTL
<1>7. CASE Ignores(o) \/ LookupFails(o) \/ Accepted(o) \/ SendFails(o)
  <2>1. op[o].pc \in {"signing", "sending"} /\ UNCHANGED <<modal, confirming>>
    BY <1>7 DEF Ignores, LookupFails, Accepted, SendFails
  <2>2. \/ Ends(o, "done", Calls(o, "success")) \/ Ends(o, "failed", Calls(o, "error"))
        \/ Ends(o, "ignored", 0) \/ (o \in TransferOp /\ Ends(o, "lost", 0))
    <3>1. CASE SendFails(o)
      <4>1. PICK r \in ErrorReducer(o) : Ends(o, r.pc, r.calls)
        BY <3>1 DEF SendFails
      <4>2. \/ r.pc = "lost" /\ r.calls = 0 /\ o \in TransferOp
            \/ r.pc = "failed" /\ r.calls = Calls(o, "error")
        <5> DEFINE T == IF "error" \notin Callbacks[o] THEN {TRUE} ELSE BOOLEAN
        <5>1. \/ \E x \in {o} \intersect TransferOp : r = [pc |-> "lost", calls |-> 0, throws |-> TRUE]
              \/ \E t \in T : r = [pc |-> "failed", calls |-> Calls(o, "error"), throws |-> t]
          BY <4>1, Zenon DEF ErrorReducer
        <5> HIDE DEF T
        <5> QED BY <5>1
      <4> QED BY <4>1, <4>2
    <3> QED BY <1>7, <3>1 DEF Ignores, LookupFails, Accepted
  <2>3. OpsPart'
    BY <1>2, <1>3, <2>1, <2>2, OpEnds DEF Ended
  <2> QED BY <1>2, <2>3, InvariantInParts, PTL
<1> QED BY <1>4, <1>5, <1>6, <1>7

\* The dialogs.
LEMMA StepsOfDialogs ==
  ASSUME WalletInv, okClick \/ onCancel \/ closeLogin
  PROVE  WalletInv'
<1>1. SessionPart' /\ UNCHANGED kept
  BY SessionUnchanged, InvariantInParts DEF okClick, onCancel, closeLogin, sessionVars
<1>2. /\ OpsPart /\ SessionPart
      /\ confirming # None => confirming \in Op /\ op[confirming].pc \in {"confirm", "warn"}
      /\ modal # None => modal \in Op /\ op[modal].pc = "modal"
  BY InvariantInParts DEF OpsPart, DialogsShow
<1>3. CASE okClick
  <2>1. /\ confirming \in Op /\ UNCHANGED modal
        /\ broadcastOperation(confirming, op[confirming].account, op[confirming].form, FALSE,
                              op[confirming].pc = "warn")
    BY <1>2, <1>3 DEF okClick
  <2>2. /\ op[confirming].account \in User \union {None} /\ op[confirming].asked
        /\ op[confirming].form \in Form \union {NotTyped}
    BY <1>2, <2>1, SessionAssumption DEF OpsPart, OpGood, OpState
  <2>3. (op[confirming].pc = "warn") \in BOOLEAN
    OBVIOUS
  <2>4. OpsPart'
    BY <1>1, <1>2, <2>1, <2>2, <2>3, BroadcastGood, SessionAssumption
  <2> QED BY <1>1, <2>4, InvariantInParts, PTL
<1>4. CASE onCancel
  <2>1. /\ confirming \in Op /\ confirming' = None /\ UNCHANGED modal /\ confirming' # confirming
        /\ Ends(confirming, "failed", Calls(confirming, "error")) \/ op' = Drop(confirming)
    BY <1>2, <1>4 DEF onCancel
  <2>2. ASSUME Ends(confirming, "failed", Calls(confirming, "error")) PROVE OpsPart'
    BY <1>1, <1>2, <2>1, <2>2, OpEnds DEF Ended
  <2>3. ASSUME op' = Drop(confirming) PROVE OpsPart'
    BY <1>1, <1>2, <2>1, <2>3, DialogDropped
  <2>4. OpsPart'
    BY <2>1, <2>2, <2>3
  <2> QED BY <1>1, <2>4, InvariantInParts, PTL
<1>5. CASE closeLogin
  <2>1. /\ modal \in Op /\ modal' = None /\ UNCHANGED confirming
        /\ Ends(modal, "failed", Calls(modal, "error")) \/ op' = Drop(modal)
    BY <1>2, <1>5 DEF closeLogin
  <2>2. op[modal].pc = "modal" /\ ~(op[modal].pc \in {"confirm", "warn"})
    BY <1>2, <2>1, SessionAssumption
  <2>3. ASSUME Ends(modal, "failed", Calls(modal, "error")) PROVE OpsPart'
    BY <1>1, <1>2, <2>1, <2>2, <2>3, OpEnds DEF Ended
  <2>4. ASSUME op' = Drop(modal) PROVE OpsPart'
    BY <1>1, <1>2, <2>1, <2>4, ModalDropped
  <2>5. OpsPart'
    BY <2>1, <2>3, <2>4
  <2> QED BY <1>1, <2>5, InvariantInParts, PTL
<1> QED BY <1>3, <1>4, <1>5

\* The form is submitted for an operation.
LEMMA StepSubmitOperation ==
  ASSUME WalletInv, NEW l \in Login, NEW saveLogin \in BOOLEAN, SubmitOperation(l, saveLogin)
  PROVE  WalletInv'
<1>1. l \in Form
  BY SessionAssumption
<1>2. SessionPart'
  BY <1>1, LoginStarts, InvariantInParts DEF SubmitOperation
<1>3. /\ OpsPart /\ SessionPart /\ modal \in Op /\ op[modal].pc = "modal" /\ op[modal].asked
      /\ op[modal].account \in User \union {None}
  BY InvariantInParts DEF SubmitOperation, OpsPart, DialogsShow, OpGood, OpState
<1>4. /\ broadcastOperation(modal, op[modal].account, l, FALSE, FALSE)
      /\ modal' = None /\ UNCHANGED kept
  BY DEF SubmitOperation
<1>5. OpsPart'
  BY <1>1, <1>3, <1>4, BroadcastGood
<1> QED BY <1>2, <1>5, InvariantInParts, PTL

-----------------------------------------------------------------------------
\* The invariant holds in every state of the session.
THEOREM WalletInvariant == WalletSpec => []WalletInv
<1>1. WalletInit => WalletInv
  <2> SUFFICES ASSUME WalletInit PROVE WalletInv
    OBVIOUS
  <2>1. \A o \in Op : OpGood(Plain("new", 0), o, kept)
    BY PlainGood
  <2>2. op = [o \in Op |-> Plain("new", 0)] /\ modal = None /\ confirming = None
    BY DEF WalletInit
  <2>3. OpsPart
    BY <2>1, <2>2 DEF OpsPart, DialogsShow
  <2>4. SessionPart
    BY LoggedOutGood, NotSavedGood
    DEF WalletInit, SessionPart, KeysOfTheirRole, SavedOfTheirRole, SavedLoginIsLow, KeysLeave,
        OnlyKeptKeys, HighKeysAreFresh, Role
  <2> QED BY <2>3, <2>4, InvariantInParts
<1>2. WalletInv /\ [WalletNext]_walletVars => WalletInv'
  <2> SUFFICES ASSUME WalletInv, [WalletNext]_walletVars PROVE WalletInv'
    OBVIOUS
  <2>1. CASE UNCHANGED walletVars
    <3>1. OpsPart' /\ SessionPart'
      BY <2>1, InvariantInParts, OpsUnchanged, SessionUnchanged DEF walletVars, taskVars, sessionVars
    <3> QED BY <3>1, InvariantInParts, PTL
  <2>2. CASE WalletNext
    BY <2>2, StepSubmitLogin, StepSubmitOperation, StepIncorrectPassword, StepLoginSucceeds,
       StepServerAnswers, Steplogout, StepReload, StepsOfDialogs, StepNavigate, StepsOfOps
       DEF WalletNext
  <2> QED BY <2>1, <2>2
<1> QED BY <1>1, <1>2, PTL DEF WalletSpec

\* Type correctness of the session, its logins and its operations.
THEOREM WalletTypeCorrect == WalletSpec => []WalletTypeOK
<1>1. WalletInv => WalletTypeOK
  BY DEF WalletInv
<1> QED BY <1>1, WalletInvariant, PTL

\* An operation that was shown in no dialog is signed by the account it was
\* dispatched for, whoever logs in or out meanwhile, and one that nothing was
\* typed for with a key that stays; for any accounts and keys, those with one
\* key for several roles or users included (findSigningKey, broadcastOperation).
THEOREM SigningCorrect == WalletSpec => []SignedForItsAccount
<1>1. WalletInv => SignedForItsAccount
  <2> SUFFICES ASSUME WalletInv, NEW o \in Op, op[o].pc = "sending", SigningKey(o) # None
               PROVE  /\ ~op[o].asked =>
                           /\ op[o].account # None
                           /\ \E i \in 1..2 : SigningKey(o) = KeyOf[op[o].account][authTypes(o)[i]]
                      /\ op[o].form = NotTyped => SigningKey(o) \in kept
    BY DEF SignedForItsAccount
  <2>1. /\ ~op[o].asked => op[o].username = op[o].account
        /\ op[o].form = NotTyped => \A r \in Role : op[o].keys[r] \in kept \union {None}
    BY DEF WalletInv, SignsAsDispatched
  <2>2. authTypes(o)[1] \in Role /\ authTypes(o)[2] \in Role
    BY DEF authTypes, Role
  <2>3. /\ op[o].username # None
        /\ \E i \in 1..2 : /\ SigningKey(o) = op[o].keys[authTypes(o)[i]]
                           /\ SigningKey(o) = KeyOf[op[o].username][authTypes(o)[i]]
    BY <2>2 DEF SigningKey, FullAuths
  <2>4. \E r \in Role : SigningKey(o) = op[o].keys[r]
    <3>1. PICK i \in 1..2 : SigningKey(o) = op[o].keys[authTypes(o)[i]]
      BY <2>3
    <3>2. i = 1 \/ i = 2
      OBVIOUS
    <3>3. authTypes(o)[i] \in Role
      BY <2>2, <3>2
    <3> QED BY <3>1, <3>3
  <2> QED BY <2>1, <2>3, <2>4
<1> QED BY <1>1, WalletInvariant, PTL

\* No key that is saved is a high key of the account it is saved for, nor of
\* any that keeps its high keys apart (saveLogin_localStorage).
THEOREM SavingCorrect == WalletSpec => []SavedLoginIsLow
<1>1. WalletInv => SavedLoginIsLow
  BY DEF WalletInv
<1> QED BY <1>1, WalletInvariant, PTL

\* Keys typed for one operation do not stay, and active and owner keys do not
\* outlive the way to a page of low security (UserReducer).
THEOREM KeysCorrect == WalletSpec => []KeysLeave
<1>1. WalletInv => KeysLeave
  BY DEF WalletInv
<1> QED BY <1>1, WalletInvariant, PTL

\* An operation calls back at most once, and when it has been taken or has
\* failed just as often as it has a callback for that (TransactionSaga, ERROR).
THEOREM CallbacksCorrect == WalletSpec => []CalledBackOnce
<1>1. WalletInv => CalledBackOnce
  BY DEF WalletInv
<1> QED BY <1>1, WalletInvariant, PTL

-----------------------------------------------------------------------------
(* Numbering a finite set.                                                 *)

\* If each element of a finite set has a set of those up to it, and these form
\* a chain, then counting them numbers the elements.
LEMMA Ranks ==
  ASSUME NEW S, IsFiniteSet(S), NEW upto \in [S -> SUBSET S],
         \A n \in S : n \in upto[n],
         \A m, n \in S : m # n => /\ upto[m] # upto[n]
                                  /\ upto[m] \subseteq upto[n] \/ upto[n] \subseteq upto[m]
  PROVE  /\ Cardinality(S) \in Nat
         /\ \A n \in S : Cardinality(upto[n]) \in 1..Cardinality(S)
         /\ \A m, n \in S : Cardinality(upto[m]) = Cardinality(upto[n]) => m = n
         /\ \A i \in 1..Cardinality(S) : \E n \in S : Cardinality(upto[n]) = i
         /\ \A n \in S : \A T \in SUBSET upto[n] :
              Cardinality(T) \in Nat /\ Cardinality(T) <= Cardinality(upto[n])
<1> DEFINE C == Cardinality(S)
           f == [n \in S |-> Cardinality(upto[n])]
<1>1. C \in Nat
  BY FS_CardinalityType
<1>2. \A T \in SUBSET S : IsFiniteSet(T) /\ Cardinality(T) \in Nat /\ Cardinality(T) <= C
  BY FS_Subset, FS_CardinalityType
<1>3. \A n \in S : Cardinality(upto[n]) \in 1..C
  <2> SUFFICES ASSUME NEW n \in S PROVE Cardinality(upto[n]) \in 1..C
    OBVIOUS
  <2>1. upto[n] \in SUBSET S /\ upto[n] # {}
    OBVIOUS
  <2>2. IsFiniteSet(upto[n]) /\ Cardinality(upto[n]) \in Nat /\ Cardinality(upto[n]) <= C
    BY <1>2, <2>1
  <2>3. Cardinality(upto[n]) # 0
    BY <2>1, <2>2, FS_EmptySet
  <2> HIDE DEF C
  <2> QED BY <1>1, <2>2, <2>3
<1>4. \A n \in S : \A T \in SUBSET upto[n] :
        /\ Cardinality(T) \in Nat /\ Cardinality(T) <= Cardinality(upto[n])
        /\ Cardinality(upto[n]) = Cardinality(T) => upto[n] = T
  <2> SUFFICES ASSUME NEW n \in S, NEW T \in SUBSET upto[n]
               PROVE  /\ Cardinality(T) \in Nat /\ Cardinality(T) <= Cardinality(upto[n])
                      /\ Cardinality(upto[n]) = Cardinality(T) => upto[n] = T
    OBVIOUS
  <2>1. IsFiniteSet(upto[n]) /\ T \in SUBSET S
    BY <1>2
  <2> QED BY <1>2, <2>1, FS_Subset
<1>5. \A m, n \in S : Cardinality(upto[m]) = Cardinality(upto[n]) => m = n
  <2> SUFFICES ASSUME NEW m \in S, NEW n \in S, m # n, Cardinality(upto[m]) = Cardinality(upto[n])
               PROVE  FALSE
    OBVIOUS
  <2>1. CASE upto[m] \subseteq upto[n]
    BY <1>4, <2>1
  <2>2. CASE upto[n] \subseteq upto[m]
    BY <1>4, <2>2
  <2> QED BY <2>1, <2>2
<1>6. \A i \in 1..C : \E n \in S : Cardinality(upto[n]) = i
  <2>1. f \in Injection(S, 1..C)
    <3> HIDE DEF C
    <3> QED BY <1>3, <1>5 DEF Injection, IsInjective
  <2>2. IsFiniteSet(1..C) /\ Cardinality(1..C) = C
    <3> HIDE DEF C
    <3>1. IsFiniteSet(1..C) /\ Cardinality(1..C) = IF 1 > C THEN 0 ELSE C - 1 + 1
      BY <1>1, FS_Interval
    <3> QED BY <1>1, <3>1
  <2> DEFINE I == 1..C
  <2>3. f \in Surjection(S, I)
    <3>1. f \in Injection(S, I) /\ IsFiniteSet(I) /\ Cardinality(S) = Cardinality(I)
      BY <2>1, <2>2
    <3> HIDE DEF f, I, C
    <3> QED BY <3>1, FS_Injection
  <2> QED BY <2>3 DEF Surjection
<1> QED BY <1>1, <1>3, <1>4, <1>5, <1>6

\* The page of names from a name on: it has all of them, or all up to its
\* last one.
LEMMA PageGood ==
  ASSUME following \in SUBSET Name, NEW start \in Nat
  PROVE  LET res == FollowPage(start)
         IN  /\ res \in Seq(following)
             /\ ~FullPage(res) => \A n \in following : n >= start => n \in Range(res)
             /\ FullPage(res) => /\ Last(res) \in following
                                 /\ \A n \in following : n >= start /\ n <= Last(res) => n \in Range(res)
<1> DEFINE S == {n \in following : n >= start}
           upto == [n \in S |-> {k \in S : k <= n}]
           before(n) == Cardinality({k \in S : k <= n})
           D == {n \in S : before(n) <= Limit}
           K == Cardinality(D)
           C == Cardinality(S)
           res == FollowPage(start)
<1>1. IsFiniteSet(S) /\ S \in SUBSET Nat /\ Limit \in Nat \ {0, 1}
  BY LoaderAssumption, FS_Subset
<1>2. /\ C \in Nat
      /\ \A n \in S : before(n) \in 1..C
      /\ \A m, n \in S : before(m) = before(n) => m = n
      /\ \A i \in 1..C : \E n \in S : before(n) = i
      /\ \A n \in S : \A T \in SUBSET {k \in S : k <= n} : Cardinality(T) \in Nat /\ Cardinality(T) <= before(n)
  <2>1. upto \in [S -> SUBSET S] /\ \A n \in S : upto[n] = {k \in S : k <= n}
    OBVIOUS
  <2>2. \A n \in S : n \in upto[n]
    BY <1>1
  <2>3. \A m, n \in S : m # n => upto[m] # upto[n] /\ (upto[m] \subseteq upto[n] \/ upto[n] \subseteq upto[m])
    <3> SUFFICES ASSUME NEW m \in S, NEW n \in S, m # n
                 PROVE  upto[m] # upto[n] /\ (upto[m] \subseteq upto[n] \/ upto[n] \subseteq upto[m])
      OBVIOUS
    <3>1. CASE m < n
      <4>1. n \notin upto[m]
        BY <1>1, <3>1
      <4>2. upto[m] \subseteq upto[n]
        BY <1>1, <3>1
      <4> QED BY <2>2, <4>1, <4>2
    <3>2. CASE n < m
      <4>1. m \notin upto[n]
        BY <1>1, <3>2
      <4>2. upto[n] \subseteq upto[m]
        BY <1>1, <3>2
      <4> QED BY <2>2, <4>1, <4>2
    <3> QED BY <1>1, <3>1, <3>2
  <2> HIDE DEF S, upto
  <2>4. /\ Cardinality(S) \in Nat
        /\ \A n \in S : Cardinality(upto[n]) \in 1..Cardinality(S)
        /\ \A m, n \in S : Cardinality(upto[m]) = Cardinality(upto[n]) => m = n
        /\ \A i \in 1..Cardinality(S) : \E n \in S : Cardinality(upto[n]) = i
        /\ \A n \in S : \A T \in SUBSET upto[n] :
             Cardinality(T) \in Nat /\ Cardinality(T) <= Cardinality(upto[n])
    BY <1>1, <2>1, <2>2, <2>3, Ranks
  <2>5. \A n \in S : before(n) = Cardinality(upto[n])
    BY <2>1
  <2> HIDE DEF before, C
  <2>6. /\ C \in Nat
        /\ \A n \in S : before(n) \in 1..C
        /\ \A m, n \in S : before(m) = before(n) => m = n
        /\ \A i \in 1..C : \E n \in S : before(n) = i
    BY <2>4, <2>5 DEF C
  <2>7. ASSUME NEW n \in S, NEW T \in SUBSET {k \in S : k <= n}
        PROVE  Cardinality(T) \in Nat /\ Cardinality(T) <= before(n)
    <3>1. T \in SUBSET upto[n]
      BY <2>1
    <3>2. Cardinality(T) \in Nat /\ Cardinality(T) <= Cardinality(upto[n])
      BY <2>4, <3>1, Zenon
    <3>3. before(n) = Cardinality(upto[n])
      BY <2>5
    <3> QED BY <3>2, <3>3
  <2> QED BY <2>6, <2>7
<1>3. IsFiniteSet(D) /\ K \in Nat /\ K <= C
  <2>1. D \in SUBSET S
    OBVIOUS
  <2> HIDE DEF D, S
  <2> QED BY <1>1, <2>1, FS_Subset, FS_CardinalityType
\* Whoever is within the limit has only such names before it.
<1>4. \A n \in D : before(n) <= K
  <2> SUFFICES ASSUME NEW n \in D PROVE before(n) <= K
    OBVIOUS
  <2>1. {k \in S : k <= n} \in SUBSET D
    <3> SUFFICES ASSUME NEW k \in S, k <= n PROVE before(k) <= Limit
      OBVIOUS
    <3>1. {j \in S : j <= k} \in SUBSET {j \in S : j <= n}
      BY <1>1
    <3>2. before(k) \in Nat /\ before(n) \in Nat /\ before(n) <= Limit
      BY <1>2
    <3>3. before(k) <= before(n)
      BY <1>2, <3>1
    <3> HIDE DEF before
    <3> QED BY <1>1, <3>2, <3>3
  <2> HIDE DEF D
  <2> QED BY <1>3, <2>1, FS_Subset
<1>5. res = [i \in 1..K |-> CHOOSE n \in S : before(n) = i]
  BY DEF FollowPage
<1> HIDE DEF S, before, K, C, res
<1>6. \A i \in 1..K : res[i] \in S /\ before(res[i]) = i
  <2> SUFFICES ASSUME NEW i \in 1..K PROVE res[i] \in S /\ before(res[i]) = i
    OBVIOUS
  <2>1. \E n \in S : before(n) = i
    BY <1>2, <1>3
  <2> QED BY <1>5, <2>1
<1>7. res \in Seq(S) /\ Len(res) = K
  BY <1>3, <1>5, <1>6
<1>8. \A n \in S : before(n) <= K => n \in Range(res)
  <2> SUFFICES ASSUME NEW n \in S, before(n) <= K PROVE n \in Range(res)
    OBVIOUS
  <2>1. before(n) \in 1..K
    BY <1>2, <1>3
  <2>2. res[before(n)] = n
    BY <1>2, <1>6, <2>1
  <2> QED BY <1>3, <1>5, <2>1, <2>2 DEF Range
<1>9. ASSUME K # Limit
      PROVE  \A n \in S : before(n) <= K
  <2>1. K <= Limit
    <3> SUFFICES ASSUME K > Limit PROVE FALSE
      BY <1>1, <1>3
    <3>1. PICK m \in S : before(m) = K
      <4>1. K \in 1..C
        BY <1>1, <1>2, <1>3
      <4> QED BY <1>2, <4>1
    <3>2. D \in SUBSET {k \in S : k <= m} /\ m \notin D
      <4>1. m \notin D
        BY <1>1, <1>3, <3>1
      <4>2. ASSUME NEW k \in D PROVE k <= m
        <5> SUFFICES ASSUME m < k PROVE FALSE
          BY <1>1
        <5>1. {j \in S : j <= m} \in SUBSET {j \in S : j <= k}
          <6>1. m \in Nat /\ k \in Nat /\ \A j \in S : j \in Nat
            BY <1>1
          <6>2. \A j \in S : j <= m => j <= k
            BY <6>1
          <6> QED BY <6>2
        <5>2. before(m) <= before(k)
          BY <1>2, <5>1 DEF before
        <5> QED BY <1>1, <1>2, <1>3, <3>1, <5>2
      <4> QED BY <4>1, <4>2
    <3> DEFINE U == {k \in S : k <= m}
    <3>3. IsFiniteSet(U) /\ m \in U /\ Cardinality(U) = K
      <4>1. U \in SUBSET S /\ m \in U
        BY <1>1
      <4> QED BY <1>1, <3>1, <4>1, FS_Subset DEF before
    <3> HIDE DEF U
    <3>4. Cardinality(U) = Cardinality(D) => U = D
      BY <3>2, <3>3, FS_Subset DEF U
    <3> QED BY <3>2, <3>3, <3>4 DEF K
  <2> SUFFICES ASSUME NEW n \in S, before(n) > K PROVE FALSE
    BY <1>2, <1>3
  <2>2. K + 1 \in 1..C
    BY <1>2, <1>3
  <2>3. PICK m \in S : before(m) = K + 1
    BY <1>2, <2>2
  <2>4. m \in D
    BY <1>1, <1>3, <1>9, <2>1, <2>3
  <2> QED BY <1>3, <1>4, <2>3, <2>4
<1>10. ASSUME K = Limit
       PROVE  Last(res) \in S /\ \A n \in S : n <= Last(res) => before(n) <= K
  <2>1. Last(res) \in S /\ before(Last(res)) = K
    BY <1>1, <1>3, <1>6, <1>7, <1>10 DEF Last
  <2> SUFFICES ASSUME NEW n \in S, n <= Last(res) PROVE before(n) <= K
    BY <2>1
  <2>2. {j \in S : j <= n} \in SUBSET {j \in S : j <= Last(res)}
    <3>1. n \in Nat /\ Last(res) \in Nat /\ \A j \in S : j \in Nat
      BY <1>1, <2>1
    <3>2. \A j \in S : j <= n => j <= Last(res)
      BY <3>1
    <3> QED BY <3>2
  <2> QED BY <1>2, <2>1, <2>2 DEF before
<1>11. S \subseteq following /\ \A n \in following : n >= start => n \in S
  BY DEF S
<1>12. res \in Seq(following)
  BY <1>7, <1>11
<1>13. FullPage(res) <=> K = Limit
  BY <1>7 DEF FullPage
<1> QED BY <1>8, <1>9, <1>10, <1>11, <1>12, <1>13 DEF res

-----------------------------------------------------------------------------
(* The accounts a profile follows.                                         *)

\* While pages are loaded, the names gathered are those followed all the
\* time up to the start of the next page, and none that never was.
FollowInv ==
  /\ following \in SUBSET Name
  /\ follow \in [result : SUBSET Name, has : BOOLEAN, loading : BOOLEAN]
  /\ loader \in [pc : {"asking"}, start : Nat, names : SUBSET Name] \union {NoTask}
  /\ accepted \in [pc : {"accepted"}, name : Name, blog : BOOLEAN] \union {NoTask}
  /\ seen \in [complete : BOOLEAN, always : SUBSET Name, ever : SUBSET Name]
  /\ seen.always \subseteq following /\ following \subseteq seen.ever
  /\ accepted.pc = "accepted" => (accepted.blog <=> accepted.name \in following)
  /\ loader.pc = "asking" =>
       /\ ~seen.complete /\ loader.names \subseteq seen.ever
       /\ \A n \in seen.always : n <= loader.start => n \in loader.names
  /\ FollowsComplete

\* What is watched from now on.
LEMMA WatchedGood ==
  ASSUME following \in SUBSET Name
  PROVE  /\ Watched \in [complete : BOOLEAN, always : SUBSET Name, ever : SUBSET Name]
         /\ Watched.complete = FALSE /\ Watched.always = following /\ Watched.ever = following
BY DEF Watched

\* At first nothing is loaded.
LEMMA FollowInitial == FollowInit => FollowInv
<1> SUFFICES ASSUME FollowInit PROVE FollowInv
  OBVIOUS
<1>1. following \in SUBSET Name
  BY DEF FollowInit
<1>2. /\ seen \in [complete : BOOLEAN, always : SUBSET Name, ever : SUBSET Name]
      /\ seen.complete = FALSE /\ seen.always = following /\ seen.ever = following
  BY <1>1, WatchedGood DEF FollowInit
<1>3. follow \in [result : SUBSET Name, has : BOOLEAN, loading : BOOLEAN]
  BY DEF FollowInit
<1> QED BY <1>1, <1>2, <1>3 DEF FollowInit, FollowInv, FollowsComplete, NoTask

\* A new location cancels the loader, or starts one.
LEMMA ChangePageKeeps ==
  ASSUME FollowInv, ChangePage
  PROVE  FollowInv'
<1>1. UNCHANGED <<following, accepted>>
  BY DEF ChangePage
<1>2. CASE /\ loader' = Loader /\ seen' = Watched /\ follow' = [follow EXCEPT !.loading = TRUE]
  <2>1. /\ seen' \in [complete : BOOLEAN, always : SUBSET Name, ever : SUBSET Name]
        /\ seen'.complete = FALSE /\ seen'.always = following /\ seen'.ever = following
    BY <1>2, WatchedGood DEF FollowInv
  <2>2. follow' \in [result : SUBSET Name, has : BOOLEAN, loading : BOOLEAN]
    BY <1>2 DEF FollowInv
  <2>3. /\ loader' \in [pc : {"asking"}, start : Nat, names : SUBSET Name]
        /\ loader'.start = 0 /\ loader'.names = {}
    BY <1>2 DEF Loader
  <2>4. \A n \in seen'.always : ~(n <= loader'.start)
    BY <2>1, <2>3, LoaderAssumption DEF FollowInv
  <2> QED BY <1>1, <2>1, <2>2, <2>3, <2>4 DEF FollowInv, FollowsComplete
<1>3. CASE loader' = NoTask /\ UNCHANGED <<follow, seen>>
  BY <1>1, <1>3 DEF FollowInv, FollowsComplete, NoTask
<1> QED BY <1>2, <1>3 DEF ChangePage

\* A page of names arrives.
LEMMA LoadKeeps ==
  ASSUME FollowInv, loadFollowsLoop
  PROVE  FollowInv'
<1> DEFINE res == FollowPage(loader.start)
           names == loader.names \union Range(res)
<1>1. loader.pc = "asking" /\ UNCHANGED <<following, accepted>>
  BY DEF loadFollowsLoop
<1>2. /\ loader \in [pc : {"asking"}, start : Nat, names : SUBSET Name]
      /\ ~seen.complete /\ loader.names \subseteq seen.ever
      /\ \A n \in seen.always : n <= loader.start => n \in loader.names
  BY <1>1 DEF FollowInv, NoTask
<1>3. /\ following \in SUBSET Name /\ following \subseteq seen.ever /\ seen.always \subseteq following
      /\ seen \in [complete : BOOLEAN, always : SUBSET Name, ever : SUBSET Name]
  BY DEF FollowInv
<1>4. loader.start \in Nat /\ \A n \in Name : n \in Nat
  BY <1>2, LoaderAssumption
<1>5. /\ res \in Seq(following)
      /\ ~FullPage(res) => \A n \in following : n >= loader.start => n \in Range(res)
      /\ FullPage(res) => /\ Last(res) \in following
                          /\ \A n \in following : n >= loader.start /\ n <= Last(res) => n \in Range(res)
  BY <1>3, <1>4, PageGood
<1>6. names \in SUBSET Name /\ names \subseteq seen.ever
  <2>1. Range(res) \subseteq following
    BY <1>5 DEF Range
  <2> QED BY <1>2, <1>3, <2>1
<1>7. CASE FullPage(res)
  <2>1. loader' = [[loader EXCEPT !.names = names] EXCEPT !.start = Last(res)] /\ UNCHANGED <<follow, seen>>
    BY <1>7 DEF loadFollowsLoop
  <2>2. Last(res) \in Nat
    BY <1>3, <1>4, <1>5, <1>7
  <2> HIDE DEF names
  <2>3. /\ loader' \in [pc : {"asking"}, start : Nat, names : SUBSET Name]
        /\ loader'.names = names /\ loader'.start = Last(res)
    BY <1>2, <1>6, <2>1, <2>2
  <2>4. \A n \in seen.always : n <= Last(res) => n \in names
    <3> SUFFICES ASSUME NEW n \in seen.always, n <= Last(res) PROVE n \in names
      OBVIOUS
    <3>1. n \in following /\ n \in Nat
      BY <1>3, <1>4
    <3>2. CASE n <= loader.start
      BY <1>2, <3>2 DEF names
    <3>3. CASE n >= loader.start
      BY <1>5, <1>7, <3>1, <3>3 DEF names
    <3> QED BY <1>4, <3>1, <3>2, <3>3
  <2> QED BY <1>1, <1>2, <1>6, <2>1, <2>3, <2>4 DEF FollowInv, FollowsComplete
<1>8. CASE ~FullPage(res)
  <2>1. /\ loader' = NoTask /\ follow' = [result |-> names, has |-> TRUE, loading |-> FALSE]
        /\ seen' = [seen EXCEPT !.complete = TRUE]
    BY <1>8 DEF loadFollowsLoop
  <2> HIDE DEF names
  <2>2. /\ seen' \in [complete : BOOLEAN, always : SUBSET Name, ever : SUBSET Name]
        /\ seen'.always = seen.always /\ seen'.ever = seen.ever
    BY <1>3, <2>1
  <2>3. follow' \in [result : SUBSET Name, has : BOOLEAN, loading : BOOLEAN] /\ follow'.result = names
    BY <1>6, <2>1
  <2>4. seen.always \subseteq names
    <3> SUFFICES ASSUME NEW n \in seen.always PROVE n \in names
      OBVIOUS
    <3>1. n \in following /\ n \in Nat
      BY <1>3, <1>4
    <3>2. CASE n <= loader.start
      BY <1>2, <3>2 DEF names
    <3>3. CASE n >= loader.start
      BY <1>5, <1>8, <3>1, <3>3 DEF names
    <3> QED BY <1>4, <3>1, <3>2, <3>3
  <2> QED BY <1>1, <1>6, <2>1, <2>2, <2>3, <2>4 DEF FollowInv, FollowsComplete, NoTask
<1> QED BY <1>7, <1>8

\* A follow takes effect at the node.
LEMMA FollowKeeps ==
  ASSUME FollowInv, NEW m \in Name, Follow(m)
  PROVE  FollowInv'
<1>1. /\ accepted' = [pc |-> "accepted", name |-> m, blog |-> m \notin following]
      /\ following' = IF m \in following THEN following \ {m} ELSE following \union {m}
      /\ seen' = [seen EXCEPT !.always = @ \ {m}, !.ever = @ \union {m}]
      /\ UNCHANGED <<follow, loader>>
  BY DEF Follow
<1>2. /\ seen' \in [complete : BOOLEAN, always : SUBSET Name, ever : SUBSET Name]
      /\ seen'.complete = seen.complete /\ seen'.always = seen.always \ {m}
      /\ seen'.ever = seen.ever \union {m}
  <2>1. seen \in [complete : BOOLEAN, always : SUBSET Name, ever : SUBSET Name]
    BY DEF FollowInv
  <2> QED BY <1>1, <2>1
<1>3. /\ accepted' \in [pc : {"accepted"}, name : Name, blog : BOOLEAN]
      /\ accepted'.blog <=> accepted'.name \in following'
  BY <1>1
<1>4. following' \in SUBSET Name /\ seen'.always \subseteq following' /\ following' \subseteq seen'.ever
  BY <1>1, <1>2 DEF FollowInv
<1>5. FollowsComplete'
  BY <1>1, <1>2 DEF FollowInv, FollowsComplete
<1>6. loader'.pc = "asking" => /\ ~seen'.complete /\ loader'.names \subseteq seen'.ever
                               /\ \A n \in seen'.always : n <= loader'.start => n \in loader'.names
  BY <1>1, <1>2 DEF FollowInv
<1> QED BY <1>1, <1>2, <1>3, <1>4, <1>5, <1>6 DEF FollowInv

\* A follow takes effect in the store.
LEMMA AcceptedKeeps ==
  ASSUME FollowInv, accepted_custom_json
  PROVE  FollowInv'
<1> DEFINE result == IF accepted.blog THEN follow.result \union {accepted.name}
                     ELSE follow.result \ {accepted.name}
<1>1. /\ accepted.pc = "accepted" /\ accepted' = NoTask /\ UNCHANGED <<following, loader, seen>>
      /\ follow' = [[follow EXCEPT !.has = TRUE] EXCEPT !.result = result]
  BY DEF accepted_custom_json, FollowInv
<1>2. /\ accepted \in [pc : {"accepted"}, name : Name, blog : BOOLEAN]
      /\ accepted.blog <=> accepted.name \in following
      /\ follow \in [result : SUBSET Name, has : BOOLEAN, loading : BOOLEAN]
  BY <1>1 DEF FollowInv, NoTask
<1>3. result \in SUBSET Name
  BY <1>2
<1>4. follow' \in [result : SUBSET Name, has : BOOLEAN, loading : BOOLEAN] /\ follow'.result = result
  <2> HIDE DEF result
  <2> QED BY <1>1, <1>2, <1>3
<1>5. FollowsComplete'
  BY <1>1, <1>2, <1>4 DEF FollowInv, FollowsComplete
<1> QED BY <1>1, <1>4, <1>5 DEF FollowInv, NoTask

\* In every state of the loader.
THEOREM FollowInvariant == FollowSpec => []FollowInv
<1>1. FollowInv /\ [FollowNext]_followVars => FollowInv'
  <2> SUFFICES ASSUME FollowInv, [FollowNext]_followVars PROVE FollowInv'
    OBVIOUS
  <2>1. CASE loadFollowsFails \/ UNCHANGED followVars
    BY <2>1 DEF loadFollowsFails, followVars, FollowInv, FollowsComplete
  <2> QED BY <2>1, ChangePageKeeps, LoadKeeps, FollowKeeps, AcceptedKeeps DEF FollowNext
<1> QED BY FollowInitial, <1>1, PTL DEF FollowSpec

\* The list of followed accounts is complete once its pages are through,
\* whatever is followed and unfollowed while they are loaded.
THEOREM FollowListComplete == FollowSpec => []FollowsComplete
<1>1. FollowInv => FollowsComplete
  BY DEF FollowInv
<1> QED BY <1>1, FollowInvariant, PTL

-----------------------------------------------------------------------------
(***************************************************************************)
(* The lists of posts.                                                     *)
(***************************************************************************)

\* What holds of the first number and of each after the one before holds of
\* all of them.
LEMMA Climb ==
  ASSUME NEW n \in Nat, NEW Q, 0 \in Q, \A i \in 1..n : i - 1 \in Q => i \in Q
  PROVE  0..n \subseteq Q
<1> DEFINE S == {i \in 0..n : i \notin Q}
<1> SUFFICES ASSUME S # {} PROVE FALSE
  OBVIOUS
<1>1. PICK m \in S : \A i \in S : <<i, m>> \notin OpToRel(<, Nat)
  <2>1. S \subseteq Nat
    OBVIOUS
  <2> HIDE DEF S
  <2> QED BY <2>1, NatLessThanWellFounded, WFMin, Zenon
<1>2. \A i \in S : ~(i < m)
  <2>1. S \subseteq Nat
    OBVIOUS
  <2> HIDE DEF S
  <2> QED BY <1>1, <2>1 DEF OpToRel
<1>3. m \in 1..n
  OBVIOUS
<1>4. m - 1 \in 0..n /\ m - 1 < m
  BY <1>3
<1>5. m - 1 \in Q
  BY <1>2, <1>4
<1> QED BY <1>3, <1>5

Falling(s) == \A i, j \in DOMAIN s : i < j => s[i] > s[j]

\* The posts of a set, newest first.
LEMMA DescendingGood ==
  ASSUME NEW S, IsFiniteSet(S), S \subseteq Nat
  PROVE  /\ Descending(S) \in Seq(S) /\ Falling(Descending(S))
         /\ \A p \in S : \E i \in DOMAIN Descending(S) : Descending(S)[i] = p
<1> DEFINE upto == [n \in S |-> {k \in S : k >= n}]
           from(n) == Cardinality({k \in S : k >= n})
           C == Cardinality(S)
           d == Descending(S)
<1>1. /\ C \in Nat
      /\ \A n \in S : from(n) \in 1..C
      /\ \A m, n \in S : from(m) = from(n) => m = n
      /\ \A i \in 1..C : \E n \in S : from(n) = i
      /\ \A n \in S : \A T \in SUBSET {k \in S : k >= n} : Cardinality(T) \in Nat /\ Cardinality(T) <= from(n)
  <2>1. upto \in [S -> SUBSET S] /\ \A n \in S : upto[n] = {k \in S : k >= n}
    OBVIOUS
  <2>2. \A n \in S : n \in upto[n]
    OBVIOUS
  <2>3. \A m, n \in S : m # n => upto[m] # upto[n] /\ (upto[m] \subseteq upto[n] \/ upto[n] \subseteq upto[m])
    <3> SUFFICES ASSUME NEW m \in S, NEW n \in S, m # n
                 PROVE  upto[m] # upto[n] /\ (upto[m] \subseteq upto[n] \/ upto[n] \subseteq upto[m])
      OBVIOUS
    <3>1. CASE m < n
      <4>1. m \notin upto[n]
        BY <3>1
      <4>2. \A k \in S : k >= n => k >= m
        BY <3>1
      <4> QED BY <2>2, <4>1, <4>2
    <3>2. CASE n < m
      <4>1. n \notin upto[m]
        BY <3>2
      <4>2. \A k \in S : k >= m => k >= n
        BY <3>2
      <4> QED BY <2>2, <4>1, <4>2
    <3> QED BY <3>1, <3>2
  <2> HIDE DEF upto
  <2>4. /\ Cardinality(S) \in Nat
        /\ \A n \in S : Cardinality(upto[n]) \in 1..Cardinality(S)
        /\ \A m, n \in S : Cardinality(upto[m]) = Cardinality(upto[n]) => m = n
        /\ \A i \in 1..Cardinality(S) : \E n \in S : Cardinality(upto[n]) = i
        /\ \A n \in S : \A T \in SUBSET upto[n] :
             Cardinality(T) \in Nat /\ Cardinality(T) <= Cardinality(upto[n])
    BY <2>1, <2>2, <2>3, Ranks
  <2>5. \A n \in S : from(n) = Cardinality(upto[n])
    BY <2>1
  <2> HIDE DEF from, C
  <2>6. /\ C \in Nat
        /\ \A n \in S : from(n) \in 1..C
        /\ \A m, n \in S : from(m) = from(n) => m = n
        /\ \A i \in 1..C : \E n \in S : from(n) = i
    BY <2>4, <2>5 DEF C
  <2>7. \A n \in S : \A T \in SUBSET {k \in S : k >= n} : Cardinality(T) \in Nat /\ Cardinality(T) <= from(n)
    <3> SUFFICES ASSUME NEW n \in S, NEW T \in SUBSET {k \in S : k >= n}
                 PROVE  Cardinality(T) \in Nat /\ Cardinality(T) <= from(n)
      OBVIOUS
    <3>1. T \in SUBSET upto[n]
      BY <2>1
    <3>2. Cardinality(T) \in Nat /\ Cardinality(T) <= Cardinality(upto[n])
      BY <2>4, <3>1, Zenon
    <3>3. from(n) = Cardinality(upto[n])
      BY <2>5
    <3> QED BY <3>2, <3>3
  <2> QED BY <2>6, <2>7
<1>2. d = [i \in 1..C |-> CHOOSE p \in S : from(p) = i]
  BY DEF Descending
<1>3. \A i \in 1..C : d[i] \in S /\ from(d[i]) = i
  <2> HIDE DEF from, C, d
  <2> QED BY <1>1, <1>2
<1>4. DOMAIN d = 1..C
  BY <1>2
<1>5. d \in Seq(S) /\ Len(d) = C
  <2> HIDE DEF from, C, d
  <2>1. d = [i \in 1..C |-> d[i]]
    BY <1>2, <1>4
  <2> QED BY <1>1, <1>3, <2>1
<1>6. Falling(d)
  <2> SUFFICES ASSUME NEW i \in 1..C, NEW j \in 1..C, i < j, ~(d[i] > d[j]) PROVE FALSE
    BY <1>4 DEF Falling
  <2>1. d[i] \in Nat /\ d[j] \in Nat
    BY <1>3
  <2>2. {k \in S : k >= d[j]} \in SUBSET {k \in S : k >= d[i]}
    <3> HIDE DEF d
    <3>1. \A k \in S : k >= d[j] => k >= d[i]
      BY <2>1
    <3> QED BY <3>1
  <2>3. from(d[j]) <= from(d[i])
    <3> HIDE DEF d
    <3> QED BY <1>1, <1>3, <2>2
  <2>4. j <= i
    <3> HIDE DEF d, from, C
    <3> QED BY <1>3, <2>3
  <2> HIDE DEF C
  <2> QED BY <1>1, <2>4
<1>7. \A p \in S : \E i \in DOMAIN d : d[i] = p
  <2> SUFFICES ASSUME NEW p \in S PROVE \E i \in 1..C : d[i] = p
    BY <1>4
  <2> HIDE DEF d, from, C
  <2>1. from(p) \in 1..C
    BY <1>1
  <2>2. d[from(p)] = p
    BY <1>1, <1>3, <2>1
  <2> QED BY <2>1, <2>2
<1> QED BY <1>5, <1>6, <1>7

\* A sequence over a set is one over any set around it.
LEMMA SeqWider ==
  ASSUME NEW S, NEW T, S \subseteq T, NEW s \in Seq(S)
  PROVE  s \in Seq(T) /\ DOMAIN s = 1..Len(s) /\ Len(s) \in Nat /\ \A i \in DOMAIN s : s[i] \in S
<1>1. DOMAIN s = 1..Len(s) /\ Len(s) \in Nat /\ \A i \in 1..Len(s) : s[i] \in S
  OBVIOUS
<1>2. s = [i \in 1..Len(s) |-> s[i]]
  OBVIOUS
<1>3. \A i \in 1..Len(s) : s[i] \in T
  BY <1>1
<1>4. s \in Seq(T)
  BY <1>1, <1>2, <1>3, IsASeq
<1> QED BY <1>1, <1>4

\* The newest posts of a set: some of them in falling order, and all that are
\* as new as one of them.
Newest(data, S) ==
  /\ data \in Seq(S) /\ Falling(data)
  /\ \A p \in S : \A i \in DOMAIN data : p >= data[i] => \E k \in DOMAIN data : data[k] = p
  /\ S # {} => data # <<>>

\* What the node sends of a set of posts.
LEMMA PageNewest ==
  ASSUME NEW S, IsFiniteSet(S), S \subseteq Nat
  PROVE  Newest(UpTo(Descending(S), BatchSize), S)
<1>1. PICK d : d = Descending(S)
  OBVIOUS
<1>2. d \in Seq(S) /\ Falling(d) /\ \A p \in S : \E i \in DOMAIN d : d[i] = p
  BY <1>1, DescendingGood
<1>3. BatchSize \in Nat \ {0, 1} /\ Len(d) \in Nat
  BY <1>2, ContentAssumption
<1>4. PICK n : n = IF Len(d) < BatchSize THEN Len(d) ELSE BatchSize
  OBVIOUS
<1>5. n \in Nat /\ n <= Len(d) /\ (Len(d) # 0 => n # 0)
  BY <1>3, <1>4
<1>6. PICK data : data = SubSeq(d, 1, n)
  OBVIOUS
<1>7. data \in Seq(S) /\ Len(data) = n /\ \A i \in 1..n : data[i] = d[i]
  <2>1. \A i \in 1..n : d[i] \in S
    BY <1>2, <1>5
  <2>2. data = [i \in 1..n |-> d[i]]
    BY <1>2, <1>5, <1>6
  <2> QED BY <1>5, <2>1, <2>2
<1>8. DOMAIN data = 1..n /\ DOMAIN d = 1..Len(d)
  BY <1>2, <1>7
<1>9. Falling(data)
  BY <1>2, <1>3, <1>5, <1>7, <1>8 DEF Falling
<1>10. ASSUME NEW p \in S, NEW i \in DOMAIN data, p >= data[i]
       PROVE  \E k \in DOMAIN data : data[k] = p
  <2>1. PICK k \in DOMAIN d : d[k] = p
    BY <1>2
  <2>2. i \in DOMAIN d /\ data[i] = d[i] /\ d[i] \in Nat /\ d[k] \in Nat
    <3>1. i \in DOMAIN d /\ data[i] = d[i]
      BY <1>3, <1>5, <1>7, <1>8
    <3>2. d[i] \in S /\ d[k] \in S
      BY <1>2, <1>8, <3>1
    <3> QED BY <3>1, <3>2
  <2>3. ~(i < k)
    BY <1>2, <1>10, <2>1, <2>2 DEF Falling
  <2>4. k \in 1..n
    BY <1>3, <1>5, <1>8, <2>2, <2>3
  <2> QED BY <1>7, <1>8, <2>1, <2>4
<1>11. S # {} => data # <<>>
  <2> SUFFICES ASSUME S # {} PROVE data # <<>>
    OBVIOUS
  <2>1. PICK p \in S : TRUE
    OBVIOUS
  <2>2. \E i \in 1..Len(d) : d[i] = p
    BY <1>2, <1>8
  <2>3. Len(d) # 0
    BY <1>3, <2>2
  <2> QED BY <1>5, <1>7, <2>3
<1>12. UpTo(Descending(S), BatchSize) = data
  BY <1>1, <1>4, <1>6 DEF UpTo
<1> QED BY <1>7, <1>9, <1>10, <1>11, <1>12 DEF Newest

\* f is the list as the posts of data are appended one after the other.
AppendedBy(f, list, data) ==
  /\ f[0] = list /\ Appended(list, data) = f[Len(data)]
  /\ \A i \in 1..Len(data) :
       f[i] = IF data[i] \in Range(f[i - 1]) THEN f[i - 1] ELSE Append(f[i - 1], data[i])

\* The recursion of Appended has a solution.
LEMMA AppendedSteps ==
  ASSUME NEW list, NEW data, Len(data) \in Nat
  PROVE  \E f : AppendedBy(f, list, data)
<1> DEFINE N == Len(data)
           step(f, i) == IF data[i] \in Range(f[i - 1]) THEN f[i - 1] ELSE Append(f[i - 1], data[i])
           Rec(f, i) == IF i = 0 THEN list ELSE step(f, i)
           Solves(f, n) == f = [i \in 0..n |-> Rec(f, i)]
           Q == {n \in 0..N : \E f : Solves(f, n)}
<1>1. 0 \in Q
  <2>1. Solves([i \in 0..0 |-> list], 0)
    OBVIOUS
  <2> HIDE DEF Solves
  <2> QED BY <2>1
<1>2. ASSUME NEW n \in 1..N, n - 1 \in Q PROVE n \in Q
  <2>1. PICK f : Solves(f, n - 1)
    BY <1>2
  <2> DEFINE g == [i \in 0..n |-> IF i \in 0..n - 1 THEN f[i] ELSE step(f, i)]
  <2>2. \A i \in 0..n - 1 : g[i] = f[i] /\ f[i] = Rec(f, i)
    <3> HIDE DEF step, Rec
    <3> QED BY <2>1
  <2>3. g[n] = step(f, n)
    <3> HIDE DEF step
    <3> QED OBVIOUS
  <2>4. g = [i \in 0..n |-> g[i]]
    OBVIOUS
  <2>5. ASSUME NEW i \in 0..n PROVE g[i] = Rec(g, i)
    <3> HIDE DEF g
    <3>1. CASE i = 0
      <4>1. i \in 0..n - 1
        BY <3>1
      <4> QED BY <2>2, <3>1, <4>1
    <3>2. CASE i \in 1..n - 1
      <4>1. i \in 0..n - 1 /\ i - 1 \in 0..n - 1 /\ i # 0
        BY <3>2
      <4>2. g[i - 1] = f[i - 1] /\ g[i] = step(f, i)
        BY <2>2, <4>1
      <4> QED BY <4>1, <4>2
    <3>3. CASE i = n
      <4>1. i - 1 \in 0..n - 1 /\ i # 0
        BY <3>3
      <4>2. g[i - 1] = f[i - 1]
        BY <2>2, <4>1
      <4> QED BY <2>3, <3>3, <4>1, <4>2
    <3> QED BY <3>1, <3>2, <3>3
  <2>6. Solves(g, n)
    <3> HIDE DEF g, Rec
    <3> QED BY <2>4, <2>5
  <2> HIDE DEF Solves, g
  <2> QED BY <2>6
<1>3. 0..N \subseteq Q
  <2> HIDE DEF Q
  <2> QED BY <1>1, <1>2, Climb
<1>4. \E f : Solves(f, N)
  BY <1>3
<1>5. PICK f : Solves(f, N) /\ Appended(list, data) = f[N]
  <2>1. Appended(list, data) = (CHOOSE f : Solves(f, N))[N]
    BY DEF Appended
  <2> HIDE DEF Solves
  <2> QED BY <1>4, <2>1
<1>6. f[0] = list /\ \A i \in 1..N : f[i] = step(f, i)
  <2>1. \A i \in 0..N : f[i] = Rec(f, i)
    <3> HIDE DEF Rec
    <3> QED BY <1>5
  <2> HIDE DEF step
  <2> QED BY <2>1
<1> QED BY <1>5, <1>6 DEF AppendedBy

\* A post at the end of a list.
LEMMA AppendPost ==
  ASSUME NEW s \in Seq(Nat), NEW x \in Nat
  PROVE  LET t == Append(s, x)
         IN  /\ t \in Seq(Nat) /\ t # <<>> /\ Last(t) = x /\ Range(t) = Range(s) \union {x}
             /\ s # <<>> => /\ Head(t) = Head(s)
                            /\ Falling(s) /\ x < Last(s) => Falling(t)
<1> DEFINE t == Append(s, x)
<1>1. /\ t \in Seq(Nat) /\ Len(t) = Len(s) + 1 /\ Len(s) \in Nat
      /\ \A i \in 1..Len(s) : t[i] = s[i] /\ s[i] \in Nat
      /\ t[Len(s) + 1] = x
  OBVIOUS
<1>2. DOMAIN t = 1..Len(s) + 1 /\ DOMAIN s = 1..Len(s)
  OBVIOUS
<1> HIDE DEF t
<1>3. t # <<>> /\ Last(t) = x
  BY <1>1 DEF Last
<1>4. Range(t) = Range(s) \union {x}
  <2>1. 1..Len(s) + 1 = 1..Len(s) \union {Len(s) + 1}
    BY <1>1
  <2>2. Range(t) = {t[i] : i \in 1..Len(s)} \union {x}
    BY <1>1, <1>2, <2>1 DEF Range
  <2>3. {t[i] : i \in 1..Len(s)} = {s[i] : i \in 1..Len(s)}
    BY <1>1
  <2> QED BY <1>2, <2>2, <2>3 DEF Range
<1>5. ASSUME s # <<>> PROVE Head(t) = Head(s)
  <2>1. Len(s) # 0
    BY <1>5
  <2> QED BY <1>1, <1>3, <1>5, <2>1
<1>6. ASSUME s # <<>>, Falling(s), x < Last(s) PROVE Falling(t)
  <2> SUFFICES ASSUME NEW i \in DOMAIN t, NEW j \in DOMAIN t, i < j PROVE t[i] > t[j]
    BY DEF Falling
  <2>1. i \in DOMAIN s /\ t[i] = s[i] /\ s[i] \in Nat
    BY <1>1, <1>2
  <2>2. CASE j \in DOMAIN s
    BY <1>1, <1>2, <1>6, <2>1, <2>2 DEF Falling
  <2>3. CASE j = Len(s) + 1
    <3>1. Len(s) \in DOMAIN s /\ s[Len(s)] \in Nat /\ (i = Len(s) \/ i < Len(s))
      BY <1>1, <1>2, <1>6, <2>1
    <3>2. s[i] >= s[Len(s)]
      BY <1>6, <2>1, <3>1 DEF Falling
    <3> QED BY <1>1, <1>6, <2>1, <2>3, <3>1, <3>2 DEF Last
  <2> QED BY <1>1, <1>2, <2>2, <2>3
<1>7. t = Append(s, x)
  BY DEF t
<1> QED BY <1>1, <1>3, <1>4, <1>5, <1>6, <1>7

\* Appending a page to a list.
LEMMA AppendedRange ==
  ASSUME NEW list \in Seq(Nat), NEW data \in Seq(Nat)
  PROVE  /\ Appended(list, data) \in Seq(Nat)
         /\ Range(Appended(list, data)) = Range(list) \union Range(data)
<1> DEFINE N == Len(data)
<1>1. N \in Nat /\ DOMAIN data = 1..N /\ \A i \in 1..N : data[i] \in Nat
  OBVIOUS
<1>2. PICK f : /\ f[0] = list /\ Appended(list, data) = f[N]
               /\ \A i \in 1..N : f[i] = IF data[i] \in Range(f[i - 1]) THEN f[i - 1]
                                         ELSE Append(f[i - 1], data[i])
  <2>1. PICK f : AppendedBy(f, list, data)
    BY <1>1, AppendedSteps
  <2> QED BY <2>1 DEF AppendedBy
<1> DEFINE Q == {i \in 0..N : f[i] \in Seq(Nat) /\ Range(f[i]) = Range(list) \union {data[k] : k \in 1..i}}
<1>3. 0 \in Q
  BY <1>1, <1>2
<1>4. ASSUME NEW i \in 1..N, i - 1 \in Q PROVE i \in Q
  <2>1. PICK s : s = f[i - 1]
    OBVIOUS
  <2>2. s \in Seq(Nat) /\ Range(s) = Range(list) \union {data[k] : k \in 1..i - 1}
    BY <1>4, <2>1
  <2>3. {data[k] : k \in 1..i} = {data[k] : k \in 1..i - 1} \union {data[i]}
    <3>1. 1..i = 1..(i - 1) \union {i}
      BY <1>1
    <3> QED BY <3>1
  <2>4. CASE data[i] \in Range(s)
    <3>1. f[i] = s
      BY <1>2, <2>1, <2>4
    <3>2. Range(s) = Range(list) \union {data[k] : k \in 1..i}
      BY <2>2, <2>3, <2>4
    <3>3. i \in 0..N
      BY <1>1
    <3> QED BY <2>2, <3>1, <3>2, <3>3
  <2>5. CASE data[i] \notin Range(s)
    <3>1. f[i] = Append(s, data[i])
      BY <1>2, <2>1, <2>5
    <3>2. Append(s, data[i]) \in Seq(Nat) /\ Range(Append(s, data[i])) = Range(s) \union {data[i]}
      BY <1>1, <2>2, AppendPost
    <3>3. Range(f[i]) = Range(list) \union {data[k] : k \in 1..i}
      BY <2>2, <2>3, <3>1, <3>2
    <3>4. i \in 0..N
      BY <1>1
    <3> QED BY <3>1, <3>2, <3>3, <3>4
  <2> QED BY <2>4, <2>5
<1>5. 0..N \subseteq Q
  <2> HIDE DEF Q
  <2> QED BY <1>1, <1>3, <1>4, Climb
<1>6. Range(data) = {data[k] : k \in 1..N}
  BY <1>1 DEF Range
<1>7. N \in Q
  <2> HIDE DEF Q
  <2> QED BY <1>1, <1>5
<1> QED BY <1>2, <1>6, <1>7

\* Appending posts that the list has or that are older than its last one.
LEMMA AppendedFalls ==
  ASSUME NEW list \in Seq(Nat), list # <<>>, Falling(list), NEW data \in Seq(Nat), Falling(data),
         \A k \in DOMAIN data : data[k] \in Range(list) \/ data[k] < Last(list)
  PROVE  LET new == Appended(list, data)
         IN  /\ new # <<>> /\ Head(new) = Head(list) /\ Falling(new)
             /\ Last(new) = Last(list) \/ Last(new) \in Range(data)
<1> DEFINE N == Len(data)
<1>1. N \in Nat /\ DOMAIN data = 1..N /\ \A i \in 1..N : data[i] \in Nat
  OBVIOUS
<1>2. PICK f : /\ f[0] = list /\ Appended(list, data) = f[N]
               /\ \A i \in 1..N : f[i] = IF data[i] \in Range(f[i - 1]) THEN f[i - 1]
                                         ELSE Append(f[i - 1], data[i])
  <2>1. PICK f : AppendedBy(f, list, data)
    BY <1>1, AppendedSteps
  <2> QED BY <2>1 DEF AppendedBy
<1> DEFINE Grown(s, i) == /\ s \in Seq(Nat) /\ s # <<>> /\ Head(s) = Head(list) /\ Falling(s)
                          /\ Range(list) \subseteq Range(s)
                          /\ Last(s) = Last(list) \/ \E k \in 1..i : Last(s) = data[k]
           Q == {i \in 0..N : Grown(f[i], i)}
<1>3. 0 \in Q
  BY <1>1, <1>2
<1>4. ASSUME NEW i \in 1..N, i - 1 \in Q PROVE i \in Q
  <2>1. PICK s : s = f[i - 1]
    OBVIOUS
  <2>2. Grown(s, i - 1)
    BY <1>4, <2>1
  <2>3. CASE data[i] \in Range(s)
    <3>1. f[i] = s
      BY <1>2, <2>1, <2>3
    <3>2. Grown(s, i)
      BY <2>2
    <3> HIDE DEF Grown
    <3> QED BY <1>1, <3>1, <3>2
  <2>4. CASE data[i] \notin Range(s)
    <3>1. f[i] = Append(s, data[i])
      BY <1>2, <2>1, <2>4
    <3>2. data[i] < Last(list)
      BY <1>1, <2>2, <2>4
    <3>3. data[i] < Last(s)
      <4>1. ASSUME NEW k \in 1..i - 1, Last(s) = data[k] PROVE data[i] < Last(s)
        <5>1. k \in DOMAIN data /\ i \in DOMAIN data /\ k < i
          BY <1>1
        <5>2. data[k] > data[i] /\ data[k] \in Nat /\ data[i] \in Nat
          BY <1>1, <5>1 DEF Falling
        <5> QED BY <4>1, <5>2
      <4> QED BY <2>2, <3>2, <4>1
    <3>4. PICK t : t = Append(s, data[i])
      OBVIOUS
    <3>5. /\ t \in Seq(Nat) /\ t # <<>> /\ Last(t) = data[i] /\ Range(t) = Range(s) \union {data[i]}
          /\ Head(t) = Head(s) /\ Falling(t)
      BY <1>1, <2>2, <3>3, <3>4, AppendPost
    <3>6. Grown(t, i)
      <4>1. i \in 1..i /\ Last(t) = data[i]
        BY <3>5
      <4> QED BY <2>2, <3>5, <4>1
    <3>7. i \in 0..N
      BY <1>1
    <3> HIDE DEF Grown
    <3>8. Grown(f[i], i)
      BY <3>1, <3>4, <3>6
    <3> QED BY <3>7, <3>8
  <2> QED BY <2>3, <2>4
<1>5. 0..N \subseteq Q
  <2> HIDE DEF Q
  <2> QED BY <1>1, <1>3, <1>4, Climb
<1>6. Grown(f[N], N)
  <2> HIDE DEF Grown
  <2> QED BY <1>1, <1>5
<1>7. \A k \in 1..N : data[k] \in Range(data)
  BY <1>1 DEF Range
<1> QED BY <1>2, <1>6, <1>7

PostTask == [pc : {"fetching"}, list : List, start : Nat, batch : Nat, fetched : Nat, filter : BOOLEAN]

ContentTypes ==
  /\ changes \in Nat /\ view \in List /\ remerged \subseteq List
  /\ server \in [List -> SUBSET Nat] /\ posts \in [List -> Seq(Nat)]
  /\ state = Idle \/ state \in [pc : {"fetching"}, list : List]
  /\ task = Idle \/ task \in PostTask

\* New posts get numbers above those of all that were there.
PostsNumbered ==
  \A l \in List : server[l] \union Range(posts[l]) \subseteq 1..(FirstPosts[l] + changes)

\* A fetch goes on from a post that its list shows.
StartsInside ==
  task # Idle /\ task.list \notin remerged => task.start \in Range(posts[task.list])

\* NoGaps of one list.
Whole(s, S) ==
  /\ Falling(s)
  /\ \A p \in S : s # <<>> /\ p < Head(s) /\ p > Last(s) => p \in Range(s)

ContentInv == ContentTypes /\ PostsNumbered /\ StartsInside /\ NoGaps

\* NoGaps list by list.
LEMMA NoGapsIs == NoGaps <=> \A l \in List \ remerged : Whole(posts[l], server[l])
BY DEF NoGaps, Whole, Falling

\* The posts of a list are finitely many.
LEMMA ServerFinite ==
  ASSUME ContentInv, NEW l \in List
  PROVE  /\ IsFiniteSet(server[l]) /\ server[l] \subseteq Nat
         /\ \A S \in SUBSET server[l] : IsFiniteSet(S) /\ S \subseteq Nat
<1>1. FirstPosts[l] + changes \in Nat
  BY ContentAssumption DEF ContentInv, ContentTypes
<1>2. IsFiniteSet(1..(FirstPosts[l] + changes))
  BY <1>1, FS_Interval
<1>3. server[l] \subseteq 1..(FirstPosts[l] + changes)
  BY DEF ContentInv, PostsNumbered
<1>4. IsFiniteSet(server[l]) /\ server[l] \subseteq Nat
  BY <1>2, <1>3, FS_Subset DEF ContentInv, ContentTypes
<1> QED BY <1>4, FS_Subset

\* The first page of a list.
LEMMA FirstPageWhole ==
  ASSUME NEW l \in List, IsFiniteSet(server[l]), server[l] \subseteq Nat
  PROVE  /\ FirstPage(l) \in Seq(Nat) /\ Whole(FirstPage(l), server[l])
         /\ Range(FirstPage(l)) \subseteq server[l]
<1>1. PICK S : S = server[l]
  OBVIOUS
<1>2. PICK s : s = FirstPage(l)
  OBVIOUS
<1>3. IsFiniteSet(S) /\ S \subseteq Nat
  BY <1>1
<1>4. Newest(UpTo(Descending(S), BatchSize), S)
  BY <1>3, PageNewest
<1>5. Newest(s, S)
  BY <1>1, <1>2, <1>4 DEF FirstPage
<1>6. s \in Seq(S) /\ s \in Seq(Nat) /\ DOMAIN s = 1..Len(s) /\ Len(s) \in Nat
  BY <1>3, <1>5, SeqWider DEF Newest
<1>7. Range(s) \subseteq S
  BY <1>6 DEF Range
<1>8. Falling(s)
  BY <1>5 DEF Newest
<1>9. ASSUME NEW p \in S, s # <<>>, p > Last(s) PROVE p \in Range(s)
  <2>1. Len(s) \in DOMAIN s /\ s[Len(s)] = Last(s) /\ s[Len(s)] \in Nat /\ p \in Nat
    BY <1>3, <1>6, <1>9 DEF Last
  <2>2. p >= s[Len(s)]
    BY <1>9, <2>1
  <2>3. \E k \in DOMAIN s : s[k] = p
    BY <1>5, <2>1, <2>2 DEF Newest
  <2> QED BY <2>3 DEF Range
<1> QED BY <1>1, <1>2, <1>6, <1>7, <1>8, <1>9 DEF Whole

\* In a falling list every post is between the first and the last.
LEMMA FallingBounds ==
  ASSUME NEW s \in Seq(Nat), Falling(s), NEW x \in Range(s)
  PROVE  s # <<>> /\ Head(s) \in Nat /\ Last(s) \in Nat /\ x \in Nat /\ Last(s) <= x /\ x <= Head(s)
         /\ Head(s) \in Range(s) /\ Last(s) \in Range(s)
<1>1. PICK i \in DOMAIN s : s[i] = x
  BY DEF Range
<1>2. Len(s) \in Nat /\ DOMAIN s = 1..Len(s) /\ s # <<>>
  BY <1>1
<1>3. 1 \in DOMAIN s /\ Len(s) \in DOMAIN s /\ Head(s) = s[1] /\ Last(s) = s[Len(s)]
  BY <1>1, <1>2 DEF Last
<1>4. s[1] \in Nat /\ s[i] \in Nat /\ s[Len(s)] \in Nat
  BY <1>1, <1>2, <1>3
<1>5. (1 = i \/ s[1] > s[i]) /\ (i = Len(s) \/ s[i] > s[Len(s)])
  BY <1>1, <1>2, <1>3 DEF Falling
<1>6. s[1] \in Range(s) /\ s[Len(s)] \in Range(s)
  BY <1>3 DEF Range
<1> QED BY <1>1, <1>2, <1>3, <1>4, <1>5, <1>6

\* A page of the posts up to one that the list shows leaves no gap in it.
LEMMA AppendedWhole ==
  ASSUME NEW list \in Seq(Nat), NEW S \in SUBSET Nat, Whole(list, S), NEW start \in Range(list),
         NEW data, Newest(data, {p \in S : p <= start})
  PROVE  Whole(Appended(list, data), S)
<1> DEFINE U == {p \in S : p <= start}
<1>1. /\ list # <<>> /\ Falling(list) /\ start \in Nat /\ Head(list) \in Nat /\ Last(list) \in Nat
      /\ Last(list) <= start /\ start <= Head(list) /\ Head(list) \in Range(list) /\ Last(list) \in Range(list)
  BY FallingBounds DEF Whole
<1>2. data \in Seq(U) /\ data \in Seq(Nat) /\ DOMAIN data = 1..Len(data) /\ \A k \in DOMAIN data : data[k] \in U
  <2>1. data \in Seq(U)
    BY DEF Newest
  <2>2. U \subseteq Nat
    OBVIOUS
  <2> HIDE DEF U
  <2> QED BY <2>1, <2>2, SeqWider
<1>3. ASSUME NEW k \in DOMAIN data PROVE data[k] \in Range(list) \/ data[k] < Last(list)
  <2>1. data[k] \in S /\ data[k] \in Nat /\ data[k] <= start
    BY <1>2
  <2>2. data[k] = Head(list) \/ data[k] < Head(list)
    BY <1>1, <2>1
  <2>3. data[k] = Last(list) \/ data[k] > Last(list) \/ data[k] < Last(list)
    BY <1>1, <2>1
  <2> QED BY <1>1, <2>1, <2>2, <2>3 DEF Whole
<1>4. PICK new : new = Appended(list, data)
  OBVIOUS
<1>5. Falling(data)
  BY DEF Newest
<1>6. /\ new # <<>> /\ Head(new) = Head(list) /\ Falling(new)
      /\ Last(new) = Last(list) \/ Last(new) \in Range(data)
  <2> HIDE DEF U
  <2> QED BY <1>1, <1>2, <1>3, <1>4, <1>5, AppendedFalls
<1>7. new \in Seq(Nat) /\ Range(new) = Range(list) \union Range(data)
  <2> HIDE DEF U
  <2> QED BY <1>2, <1>4, AppendedRange
<1>8. ASSUME NEW p \in S, p < Head(new), p > Last(new) PROVE p \in Range(new)
  <2>1. p \in Nat
    OBVIOUS
  <2>2. CASE p = Last(list)
    BY <1>1, <1>7, <2>2
  <2>3. CASE p > Last(list)
    <3>1. p < Head(list)
      BY <1>6, <1>8
    <3>2. p \in Range(list)
      BY <1>1, <2>3, <3>1 DEF Whole
    <3> QED BY <1>7, <3>2
  <2>4. CASE p < Last(list)
    <3>1. p \in U
      BY <1>1, <2>1, <2>4
    <3>2. Last(new) # Last(list)
      BY <1>1, <1>8, <2>1, <2>4
    <3>3. PICK k \in DOMAIN data : data[k] = Last(new)
      BY <1>6, <3>2 DEF Range
    <3>4. data[k] \in Nat /\ p >= data[k]
      BY <1>2, <1>8, <2>1, <3>3
    <3>5. \E j \in DOMAIN data : data[j] = p
      BY <3>1, <3>4 DEF Newest
    <3>6. p \in Range(data)
      BY <3>5 DEF Range
    <3> QED BY <1>7, <3>6
  <2> QED BY <1>1, <2>1, <2>2, <2>3, <2>4
<1> QED BY <1>4, <1>6, <1>8 DEF Whole

-----------------------------------------------------------------------------
\* The page comes with the state of its list.
LEMMA ContentStarts == ContentInit => ContentInv
<1> SUFFICES ASSUME ContentInit PROVE ContentInv
  OBVIOUS
<1>1. /\ server = [l \in List |-> 1 .. FirstPosts[l]] /\ changes = 0
      /\ view \in List /\ state = Idle /\ remerged = {}
      /\ posts = [l \in List |-> IF l = view THEN FirstPage(l) ELSE <<>>]
      /\ task = Idle
  BY DEF ContentInit
<1>2. FirstPosts \in [List -> Nat]
  BY ContentAssumption
<1>3. \A l \in List : server[l] = 1..FirstPosts[l] /\ FirstPosts[l] \in Nat
  BY <1>1, <1>2
<1>4. ASSUME NEW l \in List
      PROVE  IsFiniteSet(server[l]) /\ server[l] \subseteq Nat
  <2>1. 1 \in Int /\ FirstPosts[l] \in Int
    BY <1>3
  <2>2. IsFiniteSet(1..FirstPosts[l])
    BY <2>1, FS_Interval, Zenon
  <2> QED BY <1>3, <2>2
<1>5. ASSUME NEW l \in List
      PROVE  posts[l] \in Seq(Nat) /\ Whole(posts[l], server[l]) /\ Range(posts[l]) \subseteq server[l]
  <2>1. CASE l = view
    BY <1>1, <1>4, <2>1, FirstPageWhole
  <2>2. CASE l # view
    <3>1. posts[l] = <<>>
      BY <1>1, <2>2
    <3> QED BY <3>1 DEF Whole, Falling, Range
  <2> QED BY <2>1, <2>2
<1>6. ContentTypes
  <2>1. posts \in [List -> Seq(Nat)]
    <3>1. posts = [l \in List |-> posts[l]]
      BY <1>1
    <3> QED BY <1>5, <3>1
  <2>2. server \in [List -> SUBSET Nat]
    BY <1>1, <1>4
  <2> QED BY <1>1, <2>1, <2>2 DEF ContentTypes
<1>7. PostsNumbered
  <2> SUFFICES ASSUME NEW l \in List
               PROVE  server[l] \union Range(posts[l]) \subseteq 1..(FirstPosts[l] + changes)
    BY DEF PostsNumbered
  <2>1. FirstPosts[l] + changes = FirstPosts[l]
    BY <1>1, <1>3
  <2> QED BY <1>3, <1>5, <2>1
<1>8. StartsInside
  BY <1>1 DEF StartsInside
<1>9. NoGaps
  BY <1>5, NoGapsIs
<1> QED BY <1>6, <1>7, <1>8, <1>9 DEF ContentInv

\* What a step that leaves the node alone has to show.
LEMMA ContentQuiet ==
  ASSUME ContentInv, UNCHANGED <<server, changes, posts, remerged>>, view' \in List,
         (state = Idle \/ state \in [pc : {"fetching"}, list : List])',
         task' = Idle \/ task' = task
         \/ (task' \in PostTask /\ (task'.list \notin remerged => task'.start \in Range(posts[task'.list])))
  PROVE  ContentInv'
<1>1. ContentTypes'
  BY DEF ContentInv, ContentTypes
<1>2. PostsNumbered'
  BY DEF ContentInv, PostsNumbered
<1>3. StartsInside'
  BY DEF ContentInv, StartsInside
<1>4. NoGaps'
  BY DEF ContentInv, NoGaps
<1> QED BY <1>1, <1>2, <1>3, <1>4 DEF ContentInv

\* A new post has the highest number of all.
LEMMA WriteKeeps ==
  ASSUME ContentInv, NEW l \in List, Write(l)
  PROVE  ContentInv'
<1>1. /\ changes' = changes + 1 /\ server' = [server EXCEPT ![l] = @ \union {FirstPosts[l] + changes + 1}]
      /\ UNCHANGED <<posts, status, task, abandoned, view, state, remerged>>
  BY DEF Write, listVars, pageVars
<1>2. /\ ContentTypes /\ PostsNumbered /\ StartsInside /\ \A k \in List \ remerged : Whole(posts[k], server[k])
  BY NoGapsIs DEF ContentInv
<1>3. changes \in Nat /\ \A k \in List : FirstPosts[k] \in Nat /\ server[k] \in SUBSET Nat /\ posts[k] \in Seq(Nat)
  BY <1>2, ContentAssumption DEF ContentTypes
<1>4. ContentTypes'
  <2>1. server' \in [List -> SUBSET Nat]
    BY <1>1, <1>2, <1>3 DEF ContentTypes
  <2> QED BY <1>1, <1>2, <1>3, <2>1 DEF ContentTypes
<1>5. PostsNumbered'
  <2> SUFFICES ASSUME NEW k \in List
               PROVE  server'[k] \union Range(posts'[k]) \subseteq 1..(FirstPosts[k] + changes')
    BY DEF PostsNumbered
  <2>1. server[k] \union Range(posts[k]) \subseteq 1..(FirstPosts[k] + changes)
    BY <1>2 DEF PostsNumbered
  <2>2. 1..(FirstPosts[k] + changes) \subseteq 1..(FirstPosts[k] + changes')
    BY <1>1, <1>3
  <2>3. server'[k] \subseteq server[k] \union {FirstPosts[k] + changes + 1}
    BY <1>1, <1>2 DEF ContentTypes
  <2>4. FirstPosts[k] + changes + 1 \in 1..(FirstPosts[k] + changes')
    BY <1>1, <1>3
  <2> QED BY <1>1, <2>1, <2>2, <2>3, <2>4
<1>6. StartsInside'
  BY <1>1, <1>2 DEF StartsInside
<1>7. ASSUME NEW k \in List \ remerged PROVE Whole(posts[k], server'[k])
  <2> SUFFICES ASSUME NEW p \in server'[k], p \notin server[k], posts[k] # <<>>, p < Head(posts[k])
               PROVE  FALSE
    BY <1>2, <1>7 DEF Whole
  <2>1. p = FirstPosts[k] + changes + 1
    BY <1>1, <1>2 DEF ContentTypes
  <2>2. Head(posts[k]) \in Range(posts[k])
    <3>1. Head(posts[k]) = posts[k][1] /\ 1 \in DOMAIN posts[k]
      BY <1>3
    <3> QED BY <3>1 DEF Range
  <2>3. Head(posts[k]) \in 1..(FirstPosts[k] + changes)
    BY <1>2, <2>2 DEF PostsNumbered
  <2> QED BY <1>3, <2>1, <2>3
<1>8. NoGaps'
  BY <1>1, <1>7, NoGapsIs DEF NoGaps, Whole, Falling
<1> QED BY <1>4, <1>5, <1>6, <1>8 DEF ContentInv

\* A post that is gone leaves no gap.
LEMMA DeleteKeeps ==
  ASSUME ContentInv, NEW l \in List, Delete(l)
  PROVE  ContentInv'
<1>1. /\ changes' = changes + 1
      /\ UNCHANGED <<posts, status, task, abandoned, view, state, remerged>>
  BY DEF Delete, listVars, pageVars
<1>2. /\ ContentTypes /\ PostsNumbered /\ StartsInside /\ \A k \in List \ remerged : Whole(posts[k], server[k])
  BY NoGapsIs DEF ContentInv
<1>3. changes \in Nat /\ \A k \in List : FirstPosts[k] \in Nat
  BY <1>2, ContentAssumption DEF ContentTypes
<1>4. server' \in [List -> SUBSET Nat] /\ \A k \in List : server'[k] \subseteq server[k]
  <2>1. PICK p \in server[l] : server' = [server EXCEPT ![l] = @ \ {p}]
    BY DEF Delete
  <2> QED BY <1>2, <2>1 DEF ContentTypes
<1>5. ContentTypes'
  BY <1>1, <1>2, <1>3, <1>4 DEF ContentTypes
<1>6. PostsNumbered'
  <2> SUFFICES ASSUME NEW k \in List
               PROVE  server'[k] \union Range(posts'[k]) \subseteq 1..(FirstPosts[k] + changes')
    BY DEF PostsNumbered
  <2>1. server[k] \union Range(posts[k]) \subseteq 1..(FirstPosts[k] + changes)
    BY <1>2 DEF PostsNumbered
  <2>2. 1..(FirstPosts[k] + changes) \subseteq 1..(FirstPosts[k] + changes')
    BY <1>1, <1>3
  <2> QED BY <1>1, <1>4, <2>1, <2>2
<1>7. StartsInside'
  BY <1>1, <1>2 DEF StartsInside
<1>8. NoGaps'
  BY <1>1, <1>2, <1>4 DEF NoGaps, Whole, Falling
<1> QED BY <1>5, <1>6, <1>7, <1>8 DEF ContentInv

\* The task starts from the last post of the list that is shown.
LEMMA LoadMoreKeeps ==
  ASSUME ContentInv, NEW filter \in BOOLEAN, loadMore(filter)
  PROVE  ContentInv'
<1>1. /\ posts[view] # <<>>
      /\ task' = [pc |-> "fetching", list |-> view, start |-> Last(posts[view]),
                  batch |-> 0, fetched |-> 0, filter |-> filter]
      /\ UNCHANGED <<server, changes, posts, view, state, remerged>>
  BY DEF loadMore, last_post, nodeVars, pageVars
<1>2. view \in List /\ posts[view] \in Seq(Nat) /\ (state = Idle \/ state \in [pc : {"fetching"}, list : List])
  BY DEF ContentInv, ContentTypes
<1>3. Last(posts[view]) \in Nat /\ Last(posts[view]) \in Range(posts[view])
  <2>1. Len(posts[view]) \in DOMAIN posts[view]
    BY <1>1, <1>2
  <2> QED BY <1>2, <2>1 DEF Last, Range
<1>4. task' \in PostTask /\ task'.list = view /\ task'.start = Last(posts[view])
  BY <1>1, <1>2, <1>3 DEF PostTask
<1> QED BY <1>1, <1>2, <1>3, <1>4, ContentQuiet

\* A batch is appended to its list.
LEMMA FetchDataKeeps ==
  ASSUME ContentInv, fetchData
  PROVE  ContentInv'
<1>1. task.pc = "fetching" /\ task.start \in server[task.list]
  BY DEF fetchData
<1>2. PICK l : l = task.list
  OBVIOUS
<1>3. PICK start : start = task.start
  OBVIOUS
<1>4. PICK data : data = Page(l, start)
  OBVIOUS
<1>5. PICK fetched : fetched = task.fetched + Counted(data)
  OBVIOUS
<1>6. PICK done \in BOOLEAN : done = fetchDone(data, task.batch + 1, fetched)
  BY DEF fetchDone
<1>7. /\ posts' = [posts EXCEPT ![l] = Appended(@, data)]
      /\ task' = IF done THEN Idle
                 ELSE [task EXCEPT !.batch = @ + 1, !.fetched = fetched,
                         !.start = IF task.list \in Replies THEN @ ELSE Last(data)]
      /\ UNCHANGED <<server, changes, view, state, remerged>>
  BY <1>2, <1>3, <1>4, <1>5, <1>6 DEF fetchData, Received, nodeVars, pageVars
<1>8. /\ ContentTypes /\ PostsNumbered /\ StartsInside /\ \A k \in List \ remerged : Whole(posts[k], server[k])
  BY NoGapsIs DEF ContentInv
<1>9. task # Idle /\ task \in PostTask /\ l \in List /\ start \in Nat
  BY <1>1, <1>2, <1>3, <1>8 DEF ContentTypes, Idle, PostTask
<1>10. posts[l] \in Seq(Nat) /\ server[l] \in SUBSET Nat
  BY <1>8, <1>9 DEF ContentTypes
<1> DEFINE U == {p \in server[l] : p <= start}
<1>11. IsFiniteSet(U) /\ U \subseteq Nat /\ start \in U
  <2>1. U \in SUBSET server[l] /\ start \in U
    BY <1>1, <1>2, <1>3, <1>9
  <2> HIDE DEF U
  <2> QED BY <1>9, <2>1, ServerFinite
<1>12. Newest(data, U)
  <2>1. data = UpTo(Descending(U), BatchSize)
    BY <1>4 DEF Page
  <2> HIDE DEF U
  <2> QED BY <1>11, <2>1, PageNewest
<1>13. /\ data \in Seq(U) /\ data \in Seq(Nat) /\ data # <<>> /\ DOMAIN data = 1..Len(data) /\ Len(data) \in Nat
       /\ Range(data) \subseteq U
  <2> HIDE DEF U
  <2>1. data \in Seq(U) /\ data # <<>>
    BY <1>11, <1>12 DEF Newest
  <2>2. data \in Seq(Nat)
    BY <1>11, <2>1, SeqWider
  <2> QED BY <2>1, <2>2 DEF Range
<1>14. Last(data) \in Nat /\ Last(data) \in Range(data)
  <2>1. Len(data) \in DOMAIN data
    BY <1>13
  <2> QED BY <1>13, <2>1 DEF Last, Range
<1>15. PICK new : new = Appended(posts[l], data)
  OBVIOUS
<1>16. new \in Seq(Nat) /\ Range(new) = Range(posts[l]) \union Range(data)
  BY <1>10, <1>13, <1>15, AppendedRange
<1>17. posts' = [posts EXCEPT ![l] = new] /\ posts \in [List -> Seq(Nat)]
  BY <1>7, <1>8, <1>15 DEF ContentTypes
<1>18. task' = Idle \/ (task' \in PostTask /\ task'.list = l /\ task'.start \in {start, Last(data)})
  <2>1. CASE done
    BY <1>7, <2>1
  <2>2. CASE ~done
    <3>1. fetched \in Nat
      <4>1. IsFiniteSet(DOMAIN data)
        <5>1. 1 \in Int /\ Len(data) \in Int /\ DOMAIN data = 1..Len(data)
          BY <1>13
        <5> QED BY <5>1, FS_Interval, Zenon
      <4>2. Counted(data) \in Nat
        <5>1. PICK I : I = {i \in DOMAIN data : task.filter => data[i] \in Own}
          OBVIOUS
        <5>2. IsFiniteSet(I)
          BY <4>1, <5>1, FS_Subset
        <5> QED BY <5>1, <5>2, FS_CardinalityType DEF Counted
      <4>3. task.fetched \in Nat
        BY <1>9 DEF PostTask
      <4> QED BY <1>5, <4>2, <4>3
    <3>2. PICK next : next = IF task.list \in Replies THEN task.start ELSE Last(data)
      OBVIOUS
    <3>3. next \in Nat /\ next \in {start, Last(data)}
      BY <1>3, <1>9, <1>14, <3>2
    <3>4. task' = [[[task EXCEPT !.batch = @ + 1] EXCEPT !.fetched = fetched] EXCEPT !.start = next]
      BY <1>7, <1>9, <2>2, <3>2 DEF PostTask
    <3>5. task' \in PostTask /\ task'.list = task.list /\ task'.start = next
      <4>1. PICK t : t = [task EXCEPT !.batch = @ + 1]
        OBVIOUS
      <4>2. t \in PostTask /\ t.list = task.list
        BY <1>9, <4>1 DEF PostTask
      <4>3. PICK u : u = [t EXCEPT !.fetched = fetched]
        OBVIOUS
      <4>4. u \in PostTask /\ u.list = task.list
        BY <3>1, <4>2, <4>3 DEF PostTask
      <4>5. task' = [u EXCEPT !.start = next]
        BY <3>4, <4>1, <4>3
      <4> QED BY <3>3, <4>4, <4>5 DEF PostTask
    <3> QED BY <1>2, <3>3, <3>5
  <2> QED BY <2>1, <2>2
<1>19. ContentTypes'
  <2>1. posts' \in [List -> Seq(Nat)]
    BY <1>16, <1>17
  <2> QED BY <1>7, <1>8, <1>18, <2>1 DEF ContentTypes
<1>20. PostsNumbered'
  <2> SUFFICES ASSUME NEW k \in List
               PROVE  server[k] \union Range(posts'[k]) \subseteq 1..(FirstPosts[k] + changes)
    BY <1>7 DEF PostsNumbered
  <2>1. server[k] \union Range(posts[k]) \subseteq 1..(FirstPosts[k] + changes)
    BY <1>8 DEF PostsNumbered
  <2>2. CASE k = l
    <3>1. Range(data) \subseteq server[l] /\ posts'[k] = new
      BY <1>9, <1>13, <1>17, <2>2
    <3> QED BY <1>16, <2>1, <2>2, <3>1
  <2>3. CASE k # l
    BY <1>17, <2>1, <2>3
  <2> QED BY <2>2, <2>3
<1>21. StartsInside'
  <2> SUFFICES ASSUME task' # Idle, l \notin remerged, task'.start \in {start, Last(data)}
               PROVE  task'.start \in Range(new)
    BY <1>7, <1>9, <1>17, <1>18 DEF StartsInside
  <2>1. start \in Range(posts[l])
    BY <1>2, <1>3, <1>8, <1>9 DEF StartsInside
  <2> QED BY <1>14, <1>16, <2>1
<1>22. ASSUME NEW k \in List \ remerged PROVE Whole(posts'[k], server[k])
  <2>1. CASE k = l
    <3>1. start \in Range(posts[l])
      BY <1>2, <1>3, <1>8, <1>9, <1>22, <2>1 DEF StartsInside
    <3>2. Whole(posts[l], server[l])
      BY <1>8, <1>22, <2>1
    <3>3. Whole(new, server[l])
      BY <1>10, <1>12, <1>15, <3>1, <3>2, AppendedWhole
    <3>4. posts'[k] = new
      BY <1>17, <2>1
    <3> QED BY <2>1, <3>3, <3>4
  <2>2. CASE k # l
    <3>1. posts'[k] = posts[k]
      BY <1>17, <2>2
    <3> QED BY <1>8, <1>22, <3>1
  <2> QED BY <2>1, <2>2
<1>23. NoGaps'
  BY <1>7, <1>22 DEF NoGaps, Whole, Falling
<1> QED BY <1>19, <1>20, <1>21, <1>23 DEF ContentInv

\* The state of a page fills a list that is empty; any other list is marked.
LEMMA FetchStateKeeps ==
  ASSUME ContentInv, fetchState
  PROVE  ContentInv'
<1>1. /\ state.pc = "fetching" /\ state' = Idle
      /\ UNCHANGED <<server, changes, task, view>>
  BY DEF fetchState, nodeVars
<1>2. /\ ContentTypes /\ PostsNumbered /\ StartsInside /\ \A k \in List \ remerged : Whole(posts[k], server[k])
  BY NoGapsIs DEF ContentInv
<1>3. state.list \in List
  BY <1>1, <1>2 DEF ContentTypes, Idle
<1>4. CASE UNCHANGED <<posts, remerged>>
  <2>1. view' \in List
    BY <1>1, <1>2 DEF ContentTypes
  <2> QED BY <1>1, <1>4, <2>1, ContentQuiet
<1>5. CASE /\ posts' = [posts EXCEPT ![state.list] = Merged(@, FirstPage(state.list))]
           /\ remerged' = IF posts[state.list] = <<>> THEN remerged ELSE remerged \union {state.list}
  <2>1. PICK l : l = state.list
    OBVIOUS
  <2>2. l \in List /\ posts[l] \in Seq(Nat) /\ posts \in [List -> Seq(Nat)]
    BY <1>2, <1>3, <2>1 DEF ContentTypes
  <2>3. PICK top : top = FirstPage(l)
    OBVIOUS
  <2>4. top \in Seq(Nat) /\ Whole(top, server[l]) /\ Range(top) \subseteq server[l]
    BY <2>2, <2>3, ServerFinite, FirstPageWhole
  <2>5. PICK new : new = Merged(posts[l], top)
    OBVIOUS
  <2>6. new \in Seq(Nat) /\ Range(new) \subseteq Range(posts[l]) \union Range(top)
    <3>1. PICK n : n = IF Len(posts[l]) > Len(top) THEN Len(posts[l]) ELSE Len(top)
      OBVIOUS
    <3>2. new = [i \in 1..n |-> IF i <= Len(top) THEN top[i] ELSE posts[l][i]]
      BY <2>5, <3>1 DEF Merged
    <3>3. n \in Nat /\ Len(top) \in Nat /\ Len(posts[l]) \in Nat
      BY <2>2, <2>4, <3>1
    <3>4. ASSUME NEW i \in 1..n PROVE new[i] \in Nat /\ new[i] \in Range(posts[l]) \union Range(top)
      <4>1. CASE i <= Len(top)
        <5>1. i \in DOMAIN top /\ new[i] = top[i]
          BY <2>4, <3>2, <3>3, <4>1
        <5> QED BY <2>4, <5>1 DEF Range
      <4>2. CASE ~(i <= Len(top))
        <5>1. i \in DOMAIN posts[l] /\ new[i] = posts[l][i]
          BY <2>2, <3>1, <3>2, <3>3, <4>2
        <5> QED BY <2>2, <5>1 DEF Range
      <4> QED BY <4>1, <4>2
    <3>5. new \in Seq(Nat) /\ DOMAIN new = 1..n
      <4>1. new = [i \in 1..n |-> new[i]]
        BY <3>2
      <4> QED BY <3>3, <3>4, <4>1
    <3> QED BY <3>4, <3>5 DEF Range
  <2>7. posts[l] = <<>> => new = top
    <3> SUFFICES ASSUME posts[l] = <<>> PROVE new = top
      OBVIOUS
    <3>1. Len(posts[l]) = 0 /\ Len(top) \in Nat
      BY <2>4
    <3>2. new = [i \in 1..Len(top) |-> IF i <= Len(top) THEN top[i] ELSE posts[l][i]]
      BY <2>5, <3>1 DEF Merged
    <3>3. top = [i \in 1..Len(top) |-> top[i]]
      BY <2>4
    <3> QED BY <3>1, <3>2, <3>3
  <2>8. posts' = [posts EXCEPT ![l] = new]
    BY <1>5, <2>1, <2>3, <2>5
  <2>9. remerged \subseteq remerged' /\ remerged' \subseteq List /\ (posts[l] # <<>> => l \in remerged')
    BY <1>2, <1>5, <2>1, <2>2 DEF ContentTypes
  <2>10. ContentTypes'
    <3>1. posts' \in [List -> Seq(Nat)]
      BY <2>2, <2>6, <2>8
    <3> QED BY <1>1, <1>2, <2>9, <3>1 DEF ContentTypes
  <2>11. PostsNumbered'
    <3> SUFFICES ASSUME NEW k \in List
                 PROVE  server[k] \union Range(posts'[k]) \subseteq 1..(FirstPosts[k] + changes)
      BY <1>1 DEF PostsNumbered
    <3>1. server[k] \union Range(posts[k]) \subseteq 1..(FirstPosts[k] + changes)
      BY <1>2 DEF PostsNumbered
    <3>2. CASE k = l
      <4>1. posts'[k] = new
        BY <2>2, <2>8, <3>2
      <4> QED BY <2>4, <2>6, <3>1, <3>2, <4>1
    <3>3. CASE k # l
      BY <2>2, <2>8, <3>1, <3>3
    <3> QED BY <3>2, <3>3
  <2>12. StartsInside'
    <3> SUFFICES ASSUME task # Idle, task.list \notin remerged'
                 PROVE  task.start \in Range(posts'[task.list])
      BY <1>1 DEF StartsInside
    <3>1. task.start \in Range(posts[task.list]) /\ task.list \in List
      BY <1>2, <2>9 DEF StartsInside, ContentTypes, PostTask
    <3>2. task.list # l
      <4> SUFFICES ASSUME task.list = l PROVE FALSE
        OBVIOUS
      <4>1. posts[l] = <<>>
        BY <2>9
      <4> QED BY <3>1, <4>1 DEF Range
    <3> QED BY <2>2, <2>8, <3>1, <3>2
  <2>13. ASSUME NEW k \in List \ remerged' PROVE Whole(posts'[k], server[k])
    <3>1. CASE k = l
      <4>1. posts'[k] = top
        BY <2>2, <2>7, <2>8, <2>9, <2>13, <3>1
      <4> QED BY <2>4, <3>1, <4>1
    <3>2. CASE k # l
      <4>1. posts'[k] = posts[k] /\ k \in List \ remerged
        BY <2>2, <2>8, <2>9, <2>13, <3>2
      <4> QED BY <1>2, <4>1
    <3> QED BY <3>1, <3>2
  <2>14. NoGaps'
    BY <1>1, <2>13 DEF NoGaps, Whole, Falling
  <2> QED BY <2>10, <2>11, <2>12, <2>14 DEF ContentInv
<1> QED BY <1>4, <1>5 DEF fetchState

\* Every step keeps the invariant of the lists.
LEMMA ContentKeeps == ContentInv /\ [ContentNext]_contentVars => ContentInv'
<1> SUFFICES ASSUME ContentInv, [ContentNext]_contentVars PROVE ContentInv'
  OBVIOUS
<1>1. view \in List /\ (state = Idle \/ state \in [pc : {"fetching"}, list : List])
  BY DEF ContentInv, ContentTypes
<1>2. ASSUME NEW l \in List, Write(l) PROVE ContentInv'
  BY <1>2, WriteKeeps
<1>3. ASSUME NEW l \in List, Delete(l) PROVE ContentInv'
  BY <1>3, DeleteKeeps
<1>4. ASSUME NEW l \in List, Visit(l) PROVE ContentInv'
  <2>1. /\ view' = l /\ state' = [pc |-> "fetching", list |-> l]
        /\ UNCHANGED <<server, changes, posts, task, remerged>>
    BY <1>4 DEF Visit, nodeVars, listVars
  <2> QED BY <2>1, ContentQuiet
<1>5. ASSUME NEW filter \in BOOLEAN, loadMore(filter) PROVE ContentInv'
  BY <1>5, LoadMoreKeeps
<1>6. CASE fetchData
  BY <1>6, FetchDataKeeps
<1>7. CASE fetchFails
  <2>1. task' = Idle /\ UNCHANGED <<server, changes, posts, view, state, remerged>>
    BY <1>7 DEF fetchFails, nodeVars, pageVars
  <2> QED BY <1>1, <2>1, ContentQuiet
<1>8. CASE fetchState
  BY <1>8, FetchStateKeeps
<1>9. ASSUME NEW c \in Category, Expire(c) PROVE ContentInv'
  <2>1. UNCHANGED <<server, changes, posts, task, view, state, remerged>>
    BY <1>9 DEF Expire, nodeVars, pageVars
  <2> QED BY <1>1, <2>1, ContentQuiet
<1>10. CASE UNCHANGED contentVars
  <2>1. UNCHANGED <<server, changes, posts, task, view, state, remerged>>
    BY <1>10 DEF contentVars, nodeVars, listVars, pageVars
  <2> QED BY <1>1, <2>1, ContentQuiet
<1> QED BY <1>2, <1>3, <1>4, <1>5, <1>6, <1>7, <1>8, <1>9, <1>10 DEF ContentNext

(* In every behaviour of the lists of posts: the types, posts are numbered *)
(* in the order they are written, a fetch goes on from a post that is      *)
(* shown, and no list has gaps (fetchData, RECEIVE_DATA, RECEIVE_STATE).   *)
THEOREM ContentInvariant == ContentSpec => []ContentInv
BY ContentStarts, ContentKeeps, PTL DEF ContentSpec

(* The posts of a list run from its first to its last without a gap, newest *)
(* first, for all lists, page sizes and orders of events (fetchData,        *)
(* RECEIVE_DATA).                                                           *)
THEOREM ListsHaveNoGaps == ContentSpec => []NoGaps
BY ContentInvariant, PTL DEF ContentInv

-----------------------------------------------------------------------------
(* The image proxy.                                                        *)

Url == [elsewhere : BOOLEAN, id : Web \union Blob]

Options == [mode : {"Cover", "Fit"}, format : {"Match", "PNG"}, width : Nat, height : Nat]

Image == [url : Url, version : Nat, mode : {"none", "Cover", "Fit"}, format : {"Match", "PNG"},
          width : Nat, height : Nat]

Handler == [pc : ProxyStep, url : Url, options : Options,
            image : Image \union {NoImage}, alone : BOOLEAN]

ImageTypes ==
  /\ upstream \in [Web -> Nat \ {0}] /\ originals \in [Web -> Nat]
  /\ request \in [Slot -> Handler \union {Free}]
  /\ \A s \in Slot : request[s] # Free => (request[s].url.elsewhere => request[s].url.id \in Web)

\* What is stored under a key is the image the key stands for, and there is
\* only one.
KeysHold ==
  /\ \A c \in converted : \E url \in Url, o \in Options :
       /\ c.key = getImageKey(url, o)
       /\ c.image.url = url /\ AsAsked(c.image, o)
  /\ \A c, d \in converted : c.key = d.key => c = d

RightImage(image, url, o) ==
  /\ image.url = url
  /\ \/ AsAsked(image, o)
     \/ image.mode = "none" /\ PassThrough(image, o)

\* How far a handler has come with its image.
HandlerGood(r) ==
  /\ r.pc \in {"fetch", "write"} => r.url.elsewhere
  /\ r.pc = "write" => \E v \in Nat \ {0} : r.image = Original(r.url, v)
  /\ r.pc = "convert" => \E v \in Nat : r.image = Original(r.url, v)
  /\ r.pc = "save" => r.image.url = r.url /\ r.image = Convert(r.image, r.options)
  /\ r.pc = "answer" => RightImage(r.image, r.url, r.options)

\* While no other handler works for its URL, the stores are as the handler
\* has found and left them.
Undisturbed(r) ==
  /\ r.pc \in {"original", "fetch", "write", "convert", "save"} => Stored(r.url, r.options) = {}
  /\ r.pc = "convert" => Kept(r.url) = {r.image}
  /\ r.pc = "answer" =>
       \/ Stored(r.url, r.options) = {r.image}
       \/ /\ Stored(r.url, r.options) = {} /\ Kept(r.url) = {r.image}
          /\ PassThrough(r.image, r.options)

\* An answer that is settled is right, and the stores hold it.
SettledGood(a) ==
  /\ a.url \in Url /\ a.options \in Options
  /\ RightImage(a.image, a.url, a.options)
  /\ IF Stored(a.url, a.options) # {} THEN Stored(a.url, a.options) = {a.image}
     ELSE Kept(a.url) = {a.image} /\ PassThrough(a.image, a.options)

\* A handler for the same finds it there: converted, or the original.
Finds(a, r) ==
  IF Stored(a.url, a.options) # {}
  THEN getImageKey(r.url, r.options) = getImageKey(a.url, a.options) => r.pc = "lookup"
  ELSE r.url = a.url =>
         /\ r.pc \notin {"fetch", "write"}
         /\ r.pc = "convert" => r.image = a.image
         /\ getImageKey(r.url, r.options) = getImageKey(a.url, a.options) => r.pc # "save"

ImageInv ==
  /\ ImageTypes /\ KeysHold
  /\ \A s \in Slot : request[s] # Free => HandlerGood(request[s])
  /\ \A s \in Slot : request[s] # Free /\ request[s].alone =>
       (Under(request[s].url) = {s} /\ Undisturbed(request[s]))
  /\ \A a \in settled : SettledGood(a)
  /\ \A a \in settled, s \in Slot : request[s] # Free => Finds(a, request[s])

\* Two sequences of one number each, one after the other, are the pair.
LEMMA PairIsConcat ==
  ASSUME NEW w \in Nat, NEW h \in Nat
  PROVE  <<w>> \o <<h>> = <<w, h>>
<1>1. <<w>> \in Seq(Nat) /\ <<h>> \in Seq(Nat) /\ <<w, h>> \in Seq(Nat)
  OBVIOUS
<1>2. Len(<<w>>) = 1 /\ Len(<<h>>) = 1 /\ Len(<<w, h>>) = 2
  OBVIOUS
<1>3. /\ Len(<<w>> \o <<h>>) = 2 /\ <<w>> \o <<h>> \in Seq(Nat)
      /\ (<<w>> \o <<h>>)[1] = <<w>>[1] /\ (<<w>> \o <<h>>)[2] = <<h>>[1]
  BY <1>1, <1>2, ConcatProperties
<1>4. \A i \in 1..2 : (<<w>> \o <<h>>)[i] = <<w, h>>[i]
  <2>1. <<w>>[1] = w /\ <<h>>[1] = h /\ <<w, h>>[1] = w /\ <<w, h>>[2] = h
    OBVIOUS
  <2>2. \A i \in 1..2 : i = 1 \/ i = 2
    OBVIOUS
  <2> QED BY <1>3, <2>1, <2>2
<1> QED BY <1>1, <1>2, <1>3, <1>4, SeqEqual

\* The numbers given tell the options apart, up to which of the two a number
\* alone is.
LEMMA EqualNumbers ==
  ASSUME NEW o1 \in Options, NEW o2 \in Options, Numbers(o1) = Numbers(o2)
  PROVE  \/ o1.width = o2.width /\ o1.height = o2.height
         \/ 0 \in {o1.width, o1.height} /\ o1.width = o2.height /\ o1.height = o2.width
<1> DEFINE w1 == o1.width
           h1 == o1.height
           w2 == o2.width
           h2 == o2.height
           N(w, h) == (IF w = 0 THEN <<>> ELSE <<w>>) \o (IF h = 0 THEN <<>> ELSE <<h>>)
<1>1. w1 \in Nat /\ h1 \in Nat /\ w2 \in Nat /\ h2 \in Nat
  BY DEF Options
<1>2. N(w1, h1) = N(w2, h2)
  BY DEF Numbers
<1>3. /\ \A w, h \in Nat : w # 0 /\ h # 0 => N(w, h) = <<w, h>>
      /\ \A w \in Nat : w # 0 => N(w, 0) = <<w>>
      /\ \A h \in Nat : h # 0 => N(0, h) = <<h>>
      /\ N(0, 0) = <<>>
  <2>1. \A w, h \in Nat : w # 0 /\ h # 0 => N(w, h) = <<w, h>>
    <3> SUFFICES ASSUME NEW w \in Nat, NEW h \in Nat PROVE <<w>> \o <<h>> = <<w, h>>
      OBVIOUS
    <3> QED BY PairIsConcat
  <2>2. \A w \in Nat : w # 0 => N(w, 0) = <<w>>
    <3> SUFFICES ASSUME NEW w \in Nat PROVE <<w>> \o <<>> = <<w>>
      OBVIOUS
    <3> QED BY <<w>> \in Seq(Nat), ConcatEmptySeq
  <2>3. \A h \in Nat : h # 0 => N(0, h) = <<h>>
    <3> SUFFICES ASSUME NEW h \in Nat PROVE <<>> \o <<h>> = <<h>>
      OBVIOUS
    <3> QED BY <<h>> \in Seq(Nat), ConcatEmptySeq
  <2>4. N(0, 0) = <<>>
    BY EmptySeq, ConcatEmptySeq
  <2> QED BY <2>1, <2>2, <2>3, <2>4
<1> HIDE DEF w1, h1, w2, h2, N
<1>4. CASE w1 # 0 /\ h1 # 0
  <2>1. N(w1, h1) = <<w1, h1>> /\ Len(N(w2, h2)) = 2 /\ N(w2, h2) = <<w1, h1>>
    BY <1>1, <1>2, <1>3, <1>4
  <2>2. w2 # 0 /\ h2 # 0
    BY <1>1, <1>3, <2>1
  <2>3. <<w1, h1>> = <<w2, h2>>
    BY <1>1, <1>3, <2>1, <2>2
  <2>4. w1 = w2 /\ h1 = h2
    BY <2>3
  <2> QED BY <2>4 DEF w1, h1, w2, h2
<1>5. CASE w1 = 0 /\ h1 = 0
  <2>1. Len(N(w2, h2)) = 0
    BY <1>2, <1>3, <1>5
  <2>2. w2 = 0 /\ h2 = 0
    BY <1>1, <1>3, <2>1
  <2> QED BY <1>5, <2>2 DEF w1, h1, w2, h2
<1>6. CASE w1 # 0 /\ h1 = 0
  <2>1. N(w2, h2) = <<w1>>
    BY <1>1, <1>2, <1>3, <1>6
  <2>2. (w2 = w1 /\ h2 = 0) \/ (w2 = 0 /\ h2 = w1)
    BY <1>1, <1>3, <2>1
  <2> QED BY <1>6, <2>2 DEF w1, h1, w2, h2
<1>7. CASE w1 = 0 /\ h1 # 0
  <2>1. N(w2, h2) = <<h1>>
    BY <1>1, <1>2, <1>3, <1>7
  <2>2. (w2 = h1 /\ h2 = 0) \/ (w2 = 0 /\ h2 = h1)
    BY <1>1, <1>3, <2>1
  <2> QED BY <1>7, <2>2 DEF w1, h1, w2, h2
<1> QED BY <1>4, <1>5, <1>6, <1>7

\* Equal keys are for the same URL, and for options that are the same or the
\* same the other way.
LEMMA EqualKeys ==
  ASSUME NEW u1, NEW u2, NEW o1 \in Options, NEW o2 \in Options,
         getImageKey(u1, o1) = getImageKey(u2, o2)
  PROVE  /\ u1 = u2
         /\ \A image : AsAsked(image, o1) => AsAsked(image, o2)
         /\ \A image : PassThrough(image, o1) => PassThrough(image, o2)
<1> DEFINE k1 == getImageKey(u1, o1)
           k2 == getImageKey(u2, o2)
           N(o) == Numbers(o)
<1> HIDE DEF N
<1>1. /\ k1.orig = u1 /\ k1.mode = o1.mode /\ k1.format = o1.format
      /\ k1.numbers = IF o1.mode = "Fit" /\ o1.format = "Match" THEN <<o1.width, o1.height>> ELSE N(o1)
  BY DEF getImageKey, N
<1>2. /\ k2.orig = u2 /\ k2.mode = o2.mode /\ k2.format = o2.format
      /\ k2.numbers = IF o2.mode = "Fit" /\ o2.format = "Match" THEN <<o2.width, o2.height>> ELSE N(o2)
  BY DEF getImageKey, N
<1>3. u1 = u2 /\ o1.mode = o2.mode /\ o1.format = o2.format
  BY <1>1, <1>2
<1>4. o1.mode = "Fit" /\ o1.format = "Match" => o1.width = o2.width /\ o1.height = o2.height
  BY <1>1, <1>2, <1>3
<1>5. ~(o1.mode = "Fit" /\ o1.format = "Match") => N(o1) = N(o2)
  BY <1>1, <1>2, <1>3
<1>6. ASSUME NEW image, AsAsked(image, o1)
      PROVE  AsAsked(image, o2)
  <2>1. /\ OtherWay(o1).mode = o1.mode /\ OtherWay(o1).format = o1.format
        /\ OtherWay(o1).width = o1.height /\ OtherWay(o1).height = o1.width
        /\ OtherWay(o2).mode = o2.mode /\ OtherWay(o2).format = o2.format
        /\ OtherWay(o2).width = o2.height /\ OtherWay(o2).height = o2.width
    BY DEF OtherWay, Options
  <2>2. CASE o1.width = o2.width /\ o1.height = o2.height
    <3>1. /\ Convert(image, o1) = Convert(image, o2)
          /\ Convert(image, OtherWay(o1)) = Convert(image, OtherWay(o2))
      BY <1>3, <2>1, <2>2 DEF Convert
    <3> QED BY <1>3, <1>6, <2>2, <3>1 DEF AsAsked
  <2>3. CASE /\ 0 \in {o1.width, o1.height} /\ o1.width = o2.height /\ o1.height = o2.width
             /\ ~(o1.mode = "Fit" /\ o1.format = "Match")
    <3>1. /\ Convert(image, o1) = Convert(image, OtherWay(o2))
          /\ Convert(image, OtherWay(o1)) = Convert(image, o2)
      BY <1>3, <2>1, <2>3 DEF Convert
    <3>2. <<o2.mode, o2.format>> # <<"Fit", "Match">> /\ 0 \in {o2.width, o2.height}
      BY <1>3, <2>3
    <3> QED BY <1>6, <3>1, <3>2 DEF AsAsked
  <2> QED BY <1>4, <1>5, <2>2, <2>3, EqualNumbers DEF N
<1>7. \A image : PassThrough(image, o1) => PassThrough(image, o2)
  BY <1>3, <1>4 DEF PassThrough
<1> QED BY <1>3, <1>6, <1>7

\* What is stored for equal keys is the same.
LEMMA StoredByKey ==
  ASSUME NEW u1, NEW u2, NEW o1, NEW o2, getImageKey(u1, o1) = getImageKey(u2, o2)
  PROVE  Stored(u1, o1) = Stored(u2, o2)
BY DEF Stored

\* Converting sets four fields of an image.
LEMMA ConvertFields ==
  ASSUME NEW url, NEW v, NEW m, NEW f, NEW w, NEW h, NEW o
  PROVE  Convert([url |-> url, version |-> v, mode |-> m, format |-> f, width |-> w, height |-> h], o) =
           [url |-> url, version |-> v, mode |-> o.mode, format |-> o.format,
            width |-> o.width, height |-> o.height]
<1> DEFINE I(a, b, c, d) ==
             [url |-> url, version |-> v, mode |-> a, format |-> b, width |-> c, height |-> d]
<1>1. Convert(I(m, f, w, h), o) =
        [[[[I(m, f, w, h) EXCEPT !.mode = o.mode] EXCEPT !.format = o.format]
           EXCEPT !.width = o.width] EXCEPT !.height = o.height]
  BY DEF Convert
<1> HIDE DEF I
<1>2. [I(m, f, w, h) EXCEPT !.mode = o.mode] = I(o.mode, f, w, h)
  BY DEF I
<1>3. [I(o.mode, f, w, h) EXCEPT !.format = o.format] = I(o.mode, o.format, w, h)
  BY DEF I
<1>4. [I(o.mode, o.format, w, h) EXCEPT !.width = o.width] = I(o.mode, o.format, o.width, h)
  BY DEF I
<1>5. [I(o.mode, o.format, o.width, h) EXCEPT !.height = o.height] =
        I(o.mode, o.format, o.width, o.height)
  BY DEF I
<1>6. Convert(I(m, f, w, h), o) = I(o.mode, o.format, o.width, o.height)
  BY <1>1, <1>2, <1>3, <1>4, <1>5, Zenon
<1> QED BY <1>6 DEF I

\* An original, and what it is converted to.
LEMMA OriginalGood ==
  ASSUME NEW url \in Url, NEW v \in Nat, NEW o \in Options
  PROVE  /\ Original(url, v) \in Image /\ Original(url, v).url = url /\ Original(url, v).version = v
         /\ Original(url, v).mode = "none"
         /\ Convert(Original(url, v), o) \in Image /\ Convert(Original(url, v), o).url = url
         /\ Convert(Convert(Original(url, v), o), o) = Convert(Original(url, v), o)
<1> DEFINE c == [url |-> url, version |-> v, mode |-> o.mode, format |-> o.format,
                 width |-> o.width, height |-> o.height]
<1>1. Convert(Original(url, v), o) = c
  BY ConvertFields DEF Original
<1>2. Convert(c, o) = c
  BY ConvertFields
<1>3. c \in Image /\ Original(url, v) \in Image
  BY DEF Image, Original, Options
<1> QED BY <1>1, <1>2, <1>3 DEF Original

\* The handlers at work.
LEMMA HandlerType ==
  ASSUME ImageInv, NEW s \in Slot, request[s] # Free
  PROVE  /\ request[s] \in Handler /\ request[s].url \in Url /\ request[s].options \in Options
         /\ request[s].url.elsewhere => request[s].url.id \in Web
<1>1. request[s] \in Handler
  BY DEF ImageInv, ImageTypes
<1> QED BY <1>1 DEF Handler, ImageInv, ImageTypes

\* A handler is not where nothing is done.
LEMMA AtStep ==
  ASSUME NEW s \in Slot, request[s].pc \in ProxyStep
  PROVE  request[s] # Free
BY DEF Free, ProxyStep

\* A step of a handler that leaves the stores of other URLs alone disturbs no
\* other handler.
LEMMA StepKeeps ==
  ASSUME ImageInv, NEW s \in Slot, request[s] # Free, NEW r1 \in Handler \union {Free},
         request' = [request EXCEPT ![s] = r1], upstream' = upstream,
         originals' \in [Web -> Nat], KeysHold',
         \A url \in Url \ {request[s].url} : Kept(url)' = Kept(url),
         \A url \in Url \ {request[s].url}, o \in Options : Stored(url, o)' = Stored(url, o),
         r1 # Free => /\ r1.url = request[s].url /\ r1.options = request[s].options
                      /\ r1.alone = request[s].alone
                      /\ HandlerGood(r1) /\ (r1.alone => Undisturbed(r1)'),
         \A a \in settled' : /\ SettledGood(a)' /\ (r1 # Free => Finds(a, r1)')
                             /\ \A t \in Slot \ {s} : request'[t] # Free => Finds(a, request[t])'
  PROVE  ImageInv'
<1>1. request \in [Slot -> Handler \union {Free}] /\ upstream \in [Web -> Nat \ {0}]
  BY DEF ImageInv, ImageTypes
<1>2. request'[s] = r1 /\ \A t \in Slot \ {s} : request'[t] = request[t]
  BY <1>1
<1>3. ImageTypes'
  <2>1. \A t \in Slot : request'[t] # Free => (request'[t].url.elsewhere => request'[t].url.id \in Web)
    BY <1>2, HandlerType
  <2> QED BY <1>1, <2>1 DEF ImageTypes
<1>4. \A t \in Slot : request'[t] # Free => HandlerGood(request'[t])
  BY <1>2 DEF ImageInv
<1>5. \A url : Under(url)' = (Under(url) \ {s}) \union (IF r1 # Free /\ r1.url = url THEN {s} ELSE {})
  BY <1>2 DEF Under
<1>6. ASSUME NEW t \in Slot, request'[t] # Free, request'[t].alone
      PROVE  Under(request[t].url)' = {t} /\ Undisturbed(request[t])'
  <2>1. CASE t = s
    <3>1. request'[t] = r1 /\ r1 # Free /\ r1.alone
      BY <1>2, <1>6, <2>1
    <3>2. Under(request[s].url) = {s}
      BY <3>1 DEF ImageInv
    <3>3. Under(r1.url)' = {s}
      BY <1>5, <3>1, <3>2
    <3>4. Under(request[t].url)' = Under(r1.url)' /\ (Undisturbed(request[t])' <=> Undisturbed(r1)')
      BY <3>1, ZenonT(60) DEF Under, Undisturbed, Stored, Kept
    <3> QED BY <2>1, <3>1, <3>3, <3>4
  <2>2. CASE t # s
    <3>1. request'[t] = request[t] /\ request[t] # Free /\ request[t].alone
      BY <1>2, <1>6, <2>2
    <3>2. Under(request[t].url) = {t} /\ Undisturbed(request[t])
      BY <3>1 DEF ImageInv
    <3>3. request[s].url # request[t].url
      BY <2>2, <3>2 DEF Under
    <3>4. request[t].url \in Url /\ request[t].options \in Options
      BY <3>1, HandlerType
    <3> DEFINE u == request[t].url
               o == request[t].options
    <3>5. PICK x : x = request[t]
      OBVIOUS
    <3>6. Kept(x.url)' = Kept(x.url) /\ Stored(x.url, x.options)' = Stored(x.url, x.options)
      BY <3>3, <3>4, <3>5
    <3>7. Under(x.url)' = {t}
      <4>1. ~(r1 # Free /\ r1.url = x.url)
        BY <3>3, <3>5
      <4>2. Under(x.url)' = Under(x.url) \ {s}
        BY <1>5, <4>1
      <4> QED BY <2>2, <3>2, <3>5, <4>2
    <3>8. Undisturbed(x)'
      BY <3>2, <3>5, <3>6 DEF Undisturbed
    <3>9. request'[t] = x
      BY <3>1, <3>5
    <3>10. Under(request[t].url)' = {t}
      BY <3>7, <3>9 DEF Under
    <3>11. Undisturbed(request[t])'
      BY <3>8, <3>9, ZenonT(60) DEF Undisturbed, Stored, Kept
    <3> QED BY <3>10, <3>11
  <2> QED BY <2>1, <2>2
<1>7. ASSUME NEW a \in settled', NEW t \in Slot, request'[t] # Free
      PROVE  Finds(a, request[t])'
  <2>1. CASE t = s
    <3>1. r1 # Free /\ Finds(a, r1)'
      BY <1>2, <1>7, <2>1
    <3> QED BY <1>2, <2>1, <3>1 DEF Finds
  <2>2. CASE t # s
    BY <1>7, <2>2
  <2> QED BY <2>1, <2>2
<1> QED BY <1>3, <1>4, <1>6, <1>7 DEF ImageInv

\* A step that changes no store and settles nothing.
LEMMA QuietStep ==
  ASSUME ImageInv, NEW s \in Slot, request[s] # Free, NEW r1 \in Handler \union {Free},
         request' = [request EXCEPT ![s] = r1], UNCHANGED <<upstream, originals, converted, settled>>,
         r1 # Free => /\ r1.url = request[s].url /\ r1.options = request[s].options
                      /\ r1.alone = request[s].alone
                      /\ HandlerGood(r1) /\ (r1.alone => Undisturbed(r1))
                      /\ \A a \in settled : Finds(a, r1)
  PROVE  ImageInv'
<1>1. (\A url : Kept(url)' = Kept(url)) /\ (\A url, o : Stored(url, o)' = Stored(url, o))
  BY DEF Kept, Stored
<1>2. originals' \in [Web -> Nat] /\ KeysHold'
  BY DEF ImageInv, ImageTypes, KeysHold
<1>3. r1 # Free /\ r1.alone => Undisturbed(r1)'
  BY <1>1 DEF Undisturbed
<1>4. ASSUME NEW a \in settled'
      PROVE  /\ SettledGood(a)' /\ (r1 # Free => Finds(a, r1)')
             /\ \A t \in Slot \ {s} : request'[t] # Free => Finds(a, request[t])'
  <2>1. a \in settled /\ SettledGood(a) /\ \A t \in Slot : request[t] # Free => Finds(a, request[t])
    BY <1>4 DEF ImageInv
  <2>2. SettledGood(a)'
    BY <1>1, <2>1 DEF SettledGood
  <2>3. r1 # Free => Finds(a, r1)'
    BY <1>1, <2>1 DEF Finds
  <2>4. ASSUME NEW t \in Slot \ {s}, request'[t] # Free
        PROVE  Finds(a, request[t])'
    <3>1. request'[t] = request[t]
      BY DEF ImageInv, ImageTypes
    <3> QED BY <1>1, <2>1, <2>4, <3>1 DEF Finds
  <2> QED BY <2>2, <2>3, <2>4
<1> QED BY <1>1, <1>2, <1>3, <1>4, StepKeeps

\* A handler that ends without an answer.
LEMMA FinishKeeps ==
  ASSUME ImageInv, NEW s \in Slot, request[s] # Free, Finishes(s),
         UNCHANGED <<upstream, originals, converted, settled>>
  PROVE  ImageInv'
BY QuietStep DEF Finishes

\* A handler that ends with an answer: if it was alone, the answer is settled.
LEMMA AnswerKeeps ==
  ASSUME ImageInv, NEW s \in Slot, request[s] # Free, NEW image, Answer(s, image),
         UNCHANGED <<upstream, originals, converted>>,
         RightImage(image, request[s].url, request[s].options),
         request[s].alone =>
           \/ Stored(request[s].url, request[s].options) = {image}
           \/ /\ Stored(request[s].url, request[s].options) = {} /\ Kept(request[s].url) = {image}
              /\ PassThrough(image, request[s].options)
  PROVE  ImageInv'
<1>1. CASE ~request[s].alone
  BY <1>1, FinishKeeps DEF Answer
<1>2. CASE request[s].alone
  <2> DEFINE n == [url |-> request[s].url, options |-> request[s].options, image |-> image]
  <2>1. request' = [request EXCEPT ![s] = Free] /\ settled' = settled \union {n}
    BY <1>2 DEF Answer, Finishes
  <2>2. n.url = request[s].url /\ n.options = request[s].options /\ n.image = image
    OBVIOUS
  <2> HIDE DEF n
  <2>3. (\A url : Kept(url)' = Kept(url)) /\ (\A url, o : Stored(url, o)' = Stored(url, o))
    BY DEF Kept, Stored
  <2>4. originals' \in [Web -> Nat] /\ KeysHold'
    BY DEF ImageInv, ImageTypes, KeysHold
  <2>5. n.url \in Url /\ n.options \in Options /\ Under(n.url) = {s}
    BY <1>2, <2>2, HandlerType DEF ImageInv
  <2>6. SettledGood(n)
    BY <1>2, <2>2, <2>5 DEF SettledGood
  <2>7. \A t \in Slot \ {s} : request[t] # Free => Finds(n, request[t])
    <3> SUFFICES ASSUME NEW t \in Slot \ {s}, request[t] # Free PROVE Finds(n, request[t])
      OBVIOUS
    <3>1. request[t].url # n.url
      BY <2>5 DEF Under
    <3>2. request[t].options \in Options
      BY HandlerType
    <3>3. getImageKey(request[t].url, request[t].options) # getImageKey(n.url, n.options)
      BY <2>5, <3>1, <3>2, EqualKeys
    <3> QED BY <3>1, <3>3 DEF Finds
  <2>8. ASSUME NEW a \in settled'
        PROVE  SettledGood(a)' /\ \A t \in Slot \ {s} : request'[t] # Free => Finds(a, request[t])'
    <3>1. SettledGood(a) /\ \A t \in Slot \ {s} : request[t] # Free => Finds(a, request[t])
      BY <2>1, <2>6, <2>7, <2>8 DEF ImageInv
    <3>2. SettledGood(a)'
      BY <2>3, <3>1 DEF SettledGood
    <3>3. ASSUME NEW t \in Slot \ {s}, request'[t] # Free
          PROVE  Finds(a, request[t])'
      <4>1. request'[t] = request[t]
        BY <2>1 DEF ImageInv, ImageTypes
      <4> QED BY <2>3, <3>1, <3>3, <4>1 DEF Finds
    <3> QED BY <3>2, <3>3
  <2> QED BY <2>1, <2>3, <2>4, <2>8, StepKeeps
<1> QED BY <1>1, <1>2

\* A handler that goes on, with an image or with the one it has.
LEMMA HasGood ==
  ASSUME ImageInv, NEW s \in Slot, request[s] # Free, NEW image \in Image, NEW pc \in ProxyStep,
         Has(s, image, pc)
  PROVE  \E r1 \in Handler :
           /\ request' = [request EXCEPT ![s] = r1] /\ r1 # Free
           /\ r1.pc = pc /\ r1.url = request[s].url /\ r1.options = request[s].options
           /\ r1.image = image /\ r1.alone = request[s].alone
<1> DEFINE r1 == [[request[s] EXCEPT !.image = image] EXCEPT !.pc = pc]
<1>1. request \in [Slot -> Handler \union {Free}] /\ request[s] \in Handler
  BY HandlerType DEF ImageInv, ImageTypes
<1>2. request' = [request EXCEPT ![s] = r1]
  BY <1>1 DEF Has
<1>3. r1 \in Handler /\ r1.pc = pc /\ r1.url = request[s].url /\ r1.options = request[s].options
      /\ r1.image = image /\ r1.alone = request[s].alone
  BY <1>1 DEF Handler
<1> HIDE DEF r1
<1>4. r1 # Free
  BY <1>3 DEF Free, ProxyStep
<1> QED BY <1>2, <1>3, <1>4

\* A handler that goes on keeps its URL, its options and its image.
LEMMA GoesGood ==
  ASSUME ImageInv, NEW s \in Slot, request[s] # Free, NEW pc \in ProxyStep, Goes(s, pc)
  PROVE  \E r1 \in Handler :
           /\ request' = [request EXCEPT ![s] = r1] /\ r1 # Free
           /\ r1.pc = pc /\ r1.url = request[s].url /\ r1.options = request[s].options
           /\ r1.image = request[s].image /\ r1.alone = request[s].alone
<1> DEFINE r1 == [request[s] EXCEPT !.pc = pc]
<1>1. request \in [Slot -> Handler \union {Free}] /\ request[s] \in Handler
  BY HandlerType DEF ImageInv, ImageTypes
<1>2. request' = [request EXCEPT ![s] = r1]
  BY <1>1 DEF Goes
<1>3. r1 \in Handler /\ r1.pc = pc /\ r1.url = request[s].url /\ r1.options = request[s].options
      /\ r1.image = request[s].image /\ r1.alone = request[s].alone
  BY <1>1 DEF Handler
<1> HIDE DEF r1
<1>4. r1 # Free
  BY <1>3 DEF Free, ProxyStep
<1> QED BY <1>2, <1>3, <1>4

\* What is known of a handler at work.
LEMMA AtWork ==
  ASSUME ImageInv, NEW s \in Slot, request[s] # Free
  PROVE  /\ HandlerGood(request[s])
         /\ request[s].alone => (Under(request[s].url) = {s} /\ Undisturbed(request[s]))
         /\ \A a \in settled : SettledGood(a) /\ Finds(a, request[s])
BY DEF ImageInv

\* The handler looks for a converted image.
LEMMA LookupKeeps ==
  ASSUME ImageInv, NEW s \in Slot, Lookup(s)
  PROVE  ImageInv'
<1> DEFINE r == request[s]
           found == {c \in converted : c.key = imageKey(s)}
<1>1. r.pc = "lookup" /\ r # Free /\ UNCHANGED <<upstream, originals, converted>>
  BY AtStep DEF Lookup, storeVars, ProxyStep
<1>2. r.url \in Url /\ r.options \in Options
  BY <1>1, HandlerType
<1>3. Stored(r.url, r.options) = {c.image : c \in found}
  BY DEF Stored, imageKey
<1>4. ASSUME NEW c \in found, Answer(s, c.image)
      PROVE  ImageInv'
  <2>1. PICK url \in Url, o \in Options :
          c.key = getImageKey(url, o) /\ c.image.url = url /\ AsAsked(c.image, o)
    BY DEF ImageInv, KeysHold
  <2>2. getImageKey(url, o) = getImageKey(r.url, r.options)
    BY <2>1 DEF imageKey
  <2>3. url = r.url /\ AsAsked(c.image, r.options)
    BY <1>2, <2>1, <2>2, EqualKeys
  <2>4. RightImage(c.image, r.url, r.options)
    BY <2>1, <2>3 DEF RightImage
  <2>5. found = {c}
    BY DEF ImageInv, KeysHold
  <2>6. Stored(r.url, r.options) = {c.image}
    BY <1>3, <2>5
  <2> QED BY <1>1, <1>4, <2>4, <2>6, AnswerKeeps
<1>5. ASSUME found = {}, Goes(s, "original"), UNCHANGED settled
      PROVE  ImageInv'
  <2>1. PICK r1 \in Handler :
          /\ request' = [request EXCEPT ![s] = r1] /\ r1 # Free
          /\ r1.pc = "original" /\ r1.url = r.url /\ r1.options = r.options
          /\ r1.image = r.image /\ r1.alone = r.alone
    BY <1>1, <1>5, GoesGood DEF ProxyStep
  <2>2. Stored(r1.url, r1.options) = {}
    BY <1>3, <1>5, <2>1
  <2>3. HandlerGood(r1) /\ Undisturbed(r1)
    BY <2>1, <2>2 DEF HandlerGood, Undisturbed
  <2>4. ASSUME NEW a \in settled
        PROVE  Finds(a, r1)
    <3>1. CASE Stored(a.url, a.options) # {}
      BY <2>2, <3>1, StoredByKey DEF Finds
    <3>2. CASE Stored(a.url, a.options) = {}
      BY <2>1, <3>2 DEF Finds
    <3> QED BY <3>1, <3>2
  <2> QED BY <1>1, <1>5, <2>1, <2>3, <2>4, QuietStep
<1> QED BY <1>4, <1>5 DEF Lookup

\* The handler looks for the original.
LEMMA ReadOriginalKeeps ==
  ASSUME ImageInv, NEW s \in Slot, ReadOriginal(s)
  PROVE  ImageInv'
<1> DEFINE r == request[s]
<1>1. r.pc = "original" /\ r # Free /\ UNCHANGED <<upstream, originals, converted, settled>>
  BY AtStep DEF ReadOriginal, storeVars, ProxyStep
<1>2. /\ r.url \in Url /\ r.options \in Options
      /\ r.url.elsewhere => r.url.id \in Web /\ originals[r.url.id] \in Nat
  BY <1>1, HandlerType DEF ImageInv, ImageTypes
<1>3. /\ r.alone => Undisturbed(r)
      /\ \A a \in settled : SettledGood(a) /\ Finds(a, r)
  BY <1>1, AtWork
<1>4. r.alone => Stored(r.url, r.options) = {}
  BY <1>1, <1>3 DEF Undisturbed
<1>5. ASSUME r.url.elsewhere, originals[r.url.id] = 0, Goes(s, "fetch")
      PROVE  ImageInv'
  <2>1. PICK r1 \in Handler :
          /\ request' = [request EXCEPT ![s] = r1] /\ r1 # Free
          /\ r1.pc = "fetch" /\ r1.url = r.url /\ r1.options = r.options
          /\ r1.image = r.image /\ r1.alone = r.alone
    BY <1>1, <1>5, GoesGood DEF ProxyStep
  <2>2. HandlerGood(r1) /\ (r1.alone => Undisturbed(r1))
    BY <1>4, <1>5, <2>1 DEF HandlerGood, Undisturbed
  <2>3. ASSUME NEW a \in settled
        PROVE  Finds(a, r1)
    <3>1. CASE Stored(a.url, a.options) # {}
      BY <1>1, <1>3, <2>1, <3>1 DEF Finds
    <3>2. CASE Stored(a.url, a.options) = {}
      <4>1. Kept(a.url) = {a.image} /\ PassThrough(a.image, a.options)
        BY <1>3, <3>2 DEF SettledGood
      <4>2. r.url # a.url
        <5> SUFFICES ASSUME r.url = a.url PROVE FALSE
          OBVIOUS
        <5>1. a.image = Original(a.url, 0)
          BY <1>5, <4>1 DEF Kept
        <5>2. a.image.version = 0
          BY <5>1 DEF Original
        <5> QED BY <4>1, <5>2 DEF PassThrough
      <4> QED BY <2>1, <3>2, <4>2 DEF Finds
    <3> QED BY <3>1, <3>2
  <2> QED BY <1>1, <2>1, <2>2, <2>3, QuietStep
<1>6. ASSUME NEW v \in Nat, Kept(r.url) = {Original(r.url, v)}, Has(s, Original(r.url, v), "convert")
      PROVE  ImageInv'
  <2> DEFINE image == Original(r.url, v)
  <2>1. image \in Image
    BY <1>2, OriginalGood
  <2>2. PICK r1 \in Handler :
          /\ request' = [request EXCEPT ![s] = r1] /\ r1 # Free
          /\ r1.pc = "convert" /\ r1.url = r.url /\ r1.options = r.options
          /\ r1.image = image /\ r1.alone = r.alone
    <3> HIDE DEF image
    <3>1. Has(s, image, "convert")
      BY <1>6 DEF image
    <3> QED BY <1>1, <2>1, <3>1, HasGood DEF ProxyStep
  <2>3. HandlerGood(r1) /\ (r1.alone => Undisturbed(r1))
    BY <1>4, <1>6, <2>2 DEF HandlerGood, Undisturbed
  <2>4. ASSUME NEW a \in settled
        PROVE  Finds(a, r1)
    <3>1. CASE Stored(a.url, a.options) # {}
      BY <1>1, <1>3, <2>2, <3>1 DEF Finds
    <3>2. CASE Stored(a.url, a.options) = {}
      <4>1. Kept(a.url) = {a.image}
        BY <1>3, <3>2 DEF SettledGood
      <4>2. r1.url = a.url => r1.image = a.image
        BY <1>6, <2>2, <4>1
      <4> QED BY <2>2, <3>2, <4>2 DEF Finds
    <3> QED BY <3>1, <3>2
  <2> QED BY <1>1, <2>2, <2>3, <2>4, QuietStep
<1>7. CASE r.url.elsewhere
  <2>1. CASE originals[r.url.id] = 0
    BY <1>5, <1>7, <2>1 DEF ReadOriginal
  <2>2. CASE originals[r.url.id] # 0
    <3>1. Has(s, Original(r.url, originals[r.url.id]), "convert")
      BY <1>7, <2>2 DEF ReadOriginal
    <3>2. Kept(r.url) = {Original(r.url, originals[r.url.id])}
      BY <1>7 DEF Kept
    <3> QED BY <1>2, <1>6, <1>7, <3>1, <3>2
  <2> QED BY <2>1, <2>2
<1>8. CASE ~r.url.elsewhere
  <2>1. CASE r.url.id \in uploads
    <3>1. Has(s, Original(r.url, 0), "convert")
      BY <1>8, <2>1 DEF ReadOriginal
    <3>2. Kept(r.url) = {Original(r.url, 0)}
      BY <1>8 DEF Kept
    <3> QED BY <1>6, <3>1, <3>2
  <2>2. CASE r.url.id \notin uploads
    BY <1>1, <1>8, <2>2, FinishKeeps DEF ReadOriginal
  <2> QED BY <2>1, <2>2
<1> QED BY <1>7, <1>8

\* The handler fetches the image from elsewhere.
LEMMA FetchKeeps ==
  ASSUME ImageInv, NEW s \in Slot, fetchUrl(s)
  PROVE  ImageInv'
<1> DEFINE r == request[s]
           v == upstream[r.url.id]
           image == Original(r.url, v)
<1>1. r.pc = "fetch" /\ r # Free /\ UNCHANGED <<upstream, originals, converted, settled>>
  BY AtStep DEF fetchUrl, storeVars, ProxyStep
<1>2. /\ HandlerGood(r) /\ (r.alone => Undisturbed(r))
      /\ \A a \in settled : SettledGood(a) /\ Finds(a, r)
  BY <1>1, AtWork
<1>3. r.url \in Url /\ r.options \in Options /\ r.url.elsewhere /\ v \in Nat \ {0}
  BY <1>1, <1>2, HandlerType DEF HandlerGood, ImageInv, ImageTypes
<1>4. ASSUME Has(s, image, "write")
      PROVE  ImageInv'
  <2>1. image \in Image
    BY <1>3, OriginalGood
  <2>2. PICK r1 \in Handler :
          /\ request' = [request EXCEPT ![s] = r1] /\ r1 # Free
          /\ r1.pc = "write" /\ r1.url = r.url /\ r1.options = r.options
          /\ r1.image = image /\ r1.alone = r.alone
    <3> HIDE DEF image
    <3> QED BY <1>1, <1>4, <2>1, HasGood DEF ProxyStep
  <2>3. HandlerGood(r1)
    BY <1>3, <2>2 DEF HandlerGood
  <2>4. r1.alone => Undisturbed(r1)
    BY <1>1, <1>2, <2>2 DEF Undisturbed
  <2>5. \A a \in settled : Finds(a, r1)
    BY <1>1, <1>2, <2>2 DEF Finds
  <2> QED BY <1>1, <2>2, <2>3, <2>4, <2>5, QuietStep
<1> QED BY <1>1, <1>4, FinishKeeps DEF fetchUrl

\* The handler writes the original.
LEMMA StoreOriginalKeeps ==
  ASSUME ImageInv, NEW s \in Slot, StoreOriginal(s)
  PROVE  ImageInv'
<1> DEFINE r == request[s]
<1>1. r.pc = "write" /\ r # Free /\ UNCHANGED <<upstream, converted, settled>>
  BY AtStep DEF StoreOriginal, ProxyStep
<1>2. /\ HandlerGood(r) /\ (r.alone => Undisturbed(r))
      /\ \A a \in settled : SettledGood(a) /\ Finds(a, r)
  BY <1>1, AtWork
<1>3. r.url \in Url /\ r.options \in Options /\ r.url.elsewhere /\ r.url.id \in Web
  BY <1>1, <1>2, HandlerType DEF HandlerGood
<1>4. PICK v \in Nat \ {0} : r.image = Original(r.url, v)
  BY <1>1, <1>2 DEF HandlerGood
<1>5. ASSUME Goes(s, "convert"), originals' = [originals EXCEPT ![r.url.id] = r.image.version]
      PROVE  ImageInv'
  <2>1. PICK r1 \in Handler :
          /\ request' = [request EXCEPT ![s] = r1] /\ r1 # Free
          /\ r1.pc = "convert" /\ r1.url = r.url /\ r1.options = r.options
          /\ r1.image = r.image /\ r1.alone = r.alone
    BY <1>1, <1>5, GoesGood DEF ProxyStep
  <2>2. originals \in [Web -> Nat] /\ r.image.version = v
    BY <1>4 DEF ImageInv, ImageTypes, Original
  <2>3. originals' \in [Web -> Nat] /\ originals'[r.url.id] = v
    BY <1>3, <1>5, <2>2
  <2>4. \A url, o : Stored(url, o)' = Stored(url, o)
    BY <1>1 DEF Stored
  <2>5. \A url \in Url \ {r.url} : Kept(url)' = Kept(url)
    <3> SUFFICES ASSUME NEW url \in Url \ {r.url}, url.elsewhere PROVE Kept(url)' = Kept(url)
      BY DEF Kept
    <3>1. url.id # r.url.id
      BY <1>3 DEF Url
    <3>2. originals'[url.id] = originals[url.id]
      BY <1>3, <1>5, <2>2, <3>1
    <3> QED BY <3>2 DEF Kept
  <2>6. KeysHold'
    BY <1>1 DEF ImageInv, KeysHold
  <2>7. HandlerGood(r1)
    BY <1>4, <2>1 DEF HandlerGood
  <2>8. r1.alone => Undisturbed(r1)'
    <3>1. Kept(r1.url)' = {r1.image}
      BY <1>3, <1>4, <2>1, <2>3 DEF Kept
    <3>2. r1.alone => Stored(r1.url, r1.options) = {}
      BY <1>1, <1>2, <2>1 DEF Undisturbed
    <3> QED BY <2>1, <2>4, <3>1, <3>2 DEF Undisturbed
  <2>9. ASSUME NEW a \in settled'
        PROVE  /\ SettledGood(a)' /\ (r1 # Free => Finds(a, r1)')
               /\ \A t \in Slot \ {s} : request'[t] # Free => Finds(a, request[t])'
    <3>1. a \in settled /\ SettledGood(a) /\ Finds(a, r)
      BY <1>1, <1>2, <2>9
    <3>2. Stored(a.url, a.options) = {} => a.url # r.url
      BY <1>1, <3>1 DEF Finds
    <3>3. SettledGood(a)'
      BY <2>4, <2>5, <3>1, <3>2 DEF SettledGood
    <3>4. Finds(a, r1)'
      BY <1>1, <2>1, <2>4, <3>1, <3>2 DEF Finds
    <3>5. ASSUME NEW t \in Slot \ {s}, request'[t] # Free
          PROVE  Finds(a, request[t])'
      <4>1. request'[t] = request[t]
        BY <2>1 DEF ImageInv, ImageTypes
      <4>2. Finds(a, request[t])
        BY <3>1, <3>5, <4>1 DEF ImageInv
      <4> QED BY <2>4, <4>1, <4>2 DEF Finds
    <3> QED BY <3>3, <3>4, <3>5
  <2> QED BY <1>1, <2>1, <2>3, <2>4, <2>5, <2>6, <2>7, <2>8, <2>9, StepKeeps
<1> QED BY <1>1, <1>5, FinishKeeps DEF StoreOriginal

\* The handler converts the image, or passes it through.
LEMMA ConvertKeeps ==
  ASSUME ImageInv, NEW s \in Slot, ConvertImage(s)
  PROVE  ImageInv'
<1> DEFINE r == request[s]
<1>1. r.pc = "convert" /\ r # Free /\ UNCHANGED <<upstream, originals, converted, settled>>
  BY AtStep DEF ConvertImage, storeVars, ProxyStep
<1>2. /\ HandlerGood(r) /\ (r.alone => Undisturbed(r))
      /\ \A a \in settled : SettledGood(a) /\ Finds(a, r)
  BY <1>1, AtWork
<1>3. r.url \in Url /\ r.options \in Options
  BY <1>1, HandlerType
<1>4. PICK v \in Nat : r.image = Original(r.url, v)
  BY <1>1, <1>2 DEF HandlerGood
<1>5. ASSUME PassThrough(r.image, r.options), Goes(s, "answer")
      PROVE  ImageInv'
  <2>1. PICK r1 \in Handler :
          /\ request' = [request EXCEPT ![s] = r1] /\ r1 # Free
          /\ r1.pc = "answer" /\ r1.url = r.url /\ r1.options = r.options
          /\ r1.image = r.image /\ r1.alone = r.alone
    BY <1>1, <1>5, GoesGood DEF ProxyStep
  <2>2. RightImage(r1.image, r1.url, r1.options)
    BY <1>3, <1>4, <1>5, <2>1, OriginalGood DEF RightImage
  <2>3. HandlerGood(r1)
    BY <2>1, <2>2 DEF HandlerGood
  <2>4. r1.alone => Undisturbed(r1)
    BY <1>1, <1>2, <1>5, <2>1 DEF Undisturbed
  <2>5. \A a \in settled : Finds(a, r1)
    BY <1>1, <1>2, <2>1 DEF Finds
  <2> QED BY <1>1, <2>1, <2>3, <2>4, <2>5, QuietStep
<1>6. ASSUME ~PassThrough(r.image, r.options), Has(s, Convert(r.image, r.options), "save")
      PROVE  ImageInv'
  <2> DEFINE image == Convert(r.image, r.options)
  <2>1. image \in Image /\ image.url = r.url /\ Convert(image, r.options) = image
    BY <1>3, <1>4, OriginalGood
  <2> HIDE DEF image
  <2>2. PICK r1 \in Handler :
          /\ request' = [request EXCEPT ![s] = r1] /\ r1 # Free
          /\ r1.pc = "save" /\ r1.url = r.url /\ r1.options = r.options
          /\ r1.image = image /\ r1.alone = r.alone
    <3>1. Has(s, image, "save")
      BY <1>6 DEF image
    <3> QED BY <1>1, <2>1, <3>1, HasGood DEF ProxyStep
  <2>3. HandlerGood(r1)
    BY <2>1, <2>2 DEF HandlerGood
  <2>4. r1.alone => Undisturbed(r1)
    BY <1>1, <1>2, <2>2 DEF Undisturbed
  <2>5. ASSUME NEW a \in settled
        PROVE  Finds(a, r1)
    <3>1. CASE Stored(a.url, a.options) # {}
      BY <1>1, <1>2, <2>2, <3>1 DEF Finds
    <3>2. CASE Stored(a.url, a.options) = {}
      <4>1. PassThrough(a.image, a.options) /\ a.options \in Options
        BY <1>2, <3>2 DEF SettledGood
      <4>2. r.url = a.url => r.image = a.image
        BY <1>1, <1>2, <3>2 DEF Finds
      <4>3. r.url = a.url => getImageKey(r.url, r.options) # getImageKey(a.url, a.options)
        <5> SUFFICES ASSUME r.url = a.url, getImageKey(a.url, a.options) = getImageKey(r.url, r.options)
                     PROVE  FALSE
          OBVIOUS
        <5>1. PassThrough(a.image, r.options)
          BY <1>3, <4>1, EqualKeys
        <5> QED BY <1>6, <4>2, <5>1
      <4> QED BY <2>2, <3>2, <4>3 DEF Finds
    <3> QED BY <3>1, <3>2
  <2> QED BY <1>1, <2>2, <2>3, <2>4, <2>5, QuietStep
<1> QED BY <1>1, <1>5, <1>6, FinishKeeps DEF ConvertImage

\* The handler saves the converted image.
LEMMA StoreConvertedKeeps ==
  ASSUME ImageInv, NEW s \in Slot, StoreConverted(s)
  PROVE  ImageInv'
<1> DEFINE r == request[s]
           k == getImageKey(r.url, r.options)
           n == [key |-> k, image |-> r.image]
<1>1. r.pc = "save" /\ r # Free /\ UNCHANGED <<upstream, originals, settled>>
  BY AtStep DEF StoreConverted, ProxyStep
<1>2. /\ HandlerGood(r) /\ (r.alone => Undisturbed(r))
      /\ \A a \in settled : SettledGood(a) /\ Finds(a, r)
  BY <1>1, AtWork
<1>3. r.url \in Url /\ r.options \in Options
  BY <1>1, HandlerType
<1>4. r.image.url = r.url /\ AsAsked(r.image, r.options)
  BY <1>1, <1>2 DEF HandlerGood, AsAsked
<1>5. ASSUME Goes(s, "answer"), converted' = {c \in converted : c.key # k} \union {n}
      PROVE  ImageInv'
  <2>1. PICK r1 \in Handler :
          /\ request' = [request EXCEPT ![s] = r1] /\ r1 # Free
          /\ r1.pc = "answer" /\ r1.url = r.url /\ r1.options = r.options
          /\ r1.image = r.image /\ r1.alone = r.alone
    BY <1>1, <1>5, GoesGood DEF ProxyStep
  <2>2. n.key = k /\ n.image = r.image
    OBVIOUS
  <2> HIDE DEF n
  <2>3. KeysHold'
    <3>1. \A c \in converted' : \E url \in Url, o \in Options :
            c.key = getImageKey(url, o) /\ c.image.url = url /\ AsAsked(c.image, o)
      BY <1>3, <1>4, <1>5, <2>2 DEF ImageInv, KeysHold
    <3>2. \A c, d \in converted' : c.key = d.key => c = d
      BY <1>5, <2>2 DEF ImageInv, KeysHold
    <3> QED BY <3>1, <3>2 DEF KeysHold
  <2>4. \A url, o : getImageKey(url, o) # k => Stored(url, o)' = Stored(url, o)
    BY <1>5, <2>2 DEF Stored
  <2>5. \A url \in Url \ {r.url}, o \in Options : Stored(url, o)' = Stored(url, o)
    BY <1>3, <2>4, EqualKeys
  <2>6. \A url : Kept(url)' = Kept(url)
    BY <1>1 DEF Kept
  <2>7. originals' \in [Web -> Nat]
    BY <1>1 DEF ImageInv, ImageTypes
  <2>8. HandlerGood(r1)
    BY <1>4, <2>1 DEF HandlerGood, RightImage
  <2>9. Undisturbed(r1)'
    <3>1. {c \in converted' : c.key = k} = {n}
      BY <1>5, <2>2
    <3>2. Stored(r1.url, r1.options)' = {r1.image}
      BY <2>1, <2>2, <3>1 DEF Stored
    <3> QED BY <2>1, <3>2 DEF Undisturbed
  <2>10. ASSUME NEW a \in settled'
         PROVE  /\ SettledGood(a)' /\ (r1 # Free => Finds(a, r1)')
                /\ \A t \in Slot \ {s} : request'[t] # Free => Finds(a, request[t])'
    <3>1. a \in settled /\ SettledGood(a) /\ Finds(a, r)
      BY <1>1, <1>2, <2>10
    <3>2. k # getImageKey(a.url, a.options)
      <4> SUFFICES ASSUME k = getImageKey(a.url, a.options) PROVE FALSE
        OBVIOUS
      <4>1. r.url = a.url
        BY <1>3, <3>1, EqualKeys DEF SettledGood
      <4> QED BY <1>1, <3>1, <4>1 DEF Finds
    <3>3. Stored(a.url, a.options)' = Stored(a.url, a.options)
      BY <2>4, <3>2
    <3>4. SettledGood(a)'
      BY <2>6, <3>1, <3>3 DEF SettledGood
    <3>5. Finds(a, r1)'
      BY <2>1, <3>2, <3>3 DEF Finds
    <3>6. ASSUME NEW t \in Slot \ {s}, request'[t] # Free
          PROVE  Finds(a, request[t])'
      <4>1. request'[t] = request[t]
        BY <2>1 DEF ImageInv, ImageTypes
      <4>2. Finds(a, request[t])
        BY <3>1, <3>6, <4>1 DEF ImageInv
      <4> QED BY <3>3, <4>1, <4>2 DEF Finds
    <3> QED BY <3>4, <3>5, <3>6
  <2> QED BY <1>1, <2>1, <2>3, <2>5, <2>6, <2>7, <2>8, <2>9, <2>10, StepKeeps
<1> QED BY <1>1, <1>5, FinishKeeps DEF StoreConverted, imageKey

\* The handler answers.
LEMMA RespondKeeps ==
  ASSUME ImageInv, NEW s \in Slot, Respond(s)
  PROVE  ImageInv'
<1>1. request[s].pc = "answer" /\ request[s] # Free /\ UNCHANGED <<upstream, originals, converted>>
      /\ Answer(s, request[s].image)
  BY AtStep DEF Respond, storeVars, ProxyStep
<1>2. HandlerGood(request[s]) /\ (request[s].alone => Undisturbed(request[s]))
  BY <1>1, AtWork
<1>3. RightImage(request[s].image, request[s].url, request[s].options)
  BY <1>1, <1>2 DEF HandlerGood
<1> QED BY <1>1, <1>2, <1>3, AnswerKeeps DEF Undisturbed

\* A request comes in.
LEMMA ProxyKeeps ==
  ASSUME ImageInv, NEW s \in Slot, NEW a \in Ask, proxyHandler(s, a.url, a.options)
  PROVE  ImageInv'
<1> DEFINE url == a.url
           o == a.options
           r1 == [pc |-> "lookup", url |-> url, options |-> o, image |-> NoImage, alone |-> Under(url) = {}]
<1>1. url \in Url /\ o \in Options /\ (url.elsewhere => url.id \in Web)
  BY ImageAssumption DEF Url, Options
<1>2. request[s] = Free /\ UNCHANGED <<upstream, originals, converted, settled>>
  BY DEF proxyHandler, storeVars
<1>3. request' = [t \in Slot |-> IF t = s THEN r1
                                 ELSE IF t \in Under(url) THEN [request[t] EXCEPT !.alone = FALSE]
                                 ELSE request[t]]
  BY DEF proxyHandler
<1>4. /\ r1 \in Handler /\ r1 # Free /\ r1.pc = "lookup" /\ r1.url = url /\ r1.options = o
      /\ (r1.alone <=> Under(url) = {})
  <2>1. r1 \in Handler
    BY <1>1 DEF Handler, ProxyStep
  <2> QED BY <2>1 DEF Free
<1> HIDE DEF r1
<1>5. ASSUME NEW t \in Slot \ {s}, request[t] # Free
      PROVE  /\ request'[t] \in Handler /\ request'[t] # Free /\ request'[t].pc = request[t].pc
             /\ request'[t].url = request[t].url /\ request'[t].options = request[t].options
             /\ request'[t].image = request[t].image
             /\ request'[t].alone <=> (request[t].alone /\ request[t].url # url)
  <2>1. request[t] \in Handler
    BY <1>5, HandlerType
  <2>2. CASE t \in Under(url)
    <3> DEFINE x == [request[t] EXCEPT !.alone = FALSE]
    <3>1. request'[t] = x /\ request[t].url = url
      BY <1>3, <2>2 DEF Under
    <3>2. /\ x \in Handler /\ x.pc = request[t].pc /\ x.url = request[t].url
          /\ x.options = request[t].options /\ x.image = request[t].image /\ x.alone = FALSE
      BY <2>1 DEF Handler
    <3> HIDE DEF x
    <3>3. x # Free
      BY <3>2 DEF Handler, ProxyStep, Free
    <3> QED BY <3>1, <3>2, <3>3
  <2>3. CASE t \notin Under(url)
    BY <1>3, <1>5, <2>1, <2>3 DEF Under
  <2> QED BY <2>2, <2>3
<1>6. request'[s] = r1 /\ \A t \in Slot \ {s} : request[t] = Free => request'[t] = Free
  BY <1>3 DEF Under
<1>7. (\A u : Kept(u)' = Kept(u)) /\ (\A u, p : Stored(u, p)' = Stored(u, p))
  BY <1>2 DEF Kept, Stored
<1>8. ImageTypes'
  <2>1. request' \in [Slot -> Handler \union {Free}]
    BY <1>3, <1>4, <1>5, <1>6
  <2>2. \A t \in Slot : request'[t] # Free => (request'[t].url.elsewhere => request'[t].url.id \in Web)
    BY <1>1, <1>4, <1>5, <1>6, HandlerType
  <2> QED BY <1>2, <2>1, <2>2 DEF ImageInv, ImageTypes
<1>9. KeysHold'
  BY <1>2 DEF ImageInv, KeysHold
<1>10. \A t \in Slot : request'[t] # Free => HandlerGood(request'[t])
  <2>1. HandlerGood(r1)
    BY <1>4 DEF HandlerGood
  <2>2. \A t \in Slot \ {s} : request[t] # Free => HandlerGood(request'[t])
    <3> SUFFICES ASSUME NEW t \in Slot \ {s}, request[t] # Free PROVE HandlerGood(request'[t])
      OBVIOUS
    <3>1. HandlerGood(request[t])
      BY DEF ImageInv
    <3> QED BY <1>5, <3>1 DEF HandlerGood
  <2> QED BY <1>6, <2>1, <2>2
<1>11. ASSUME NEW t \in Slot, request'[t] # Free, request'[t].alone
       PROVE  Under(request[t].url)' = {t} /\ Undisturbed(request[t])'
  <2>1. CASE t = s
    <3>1. Under(url) = {} /\ request'[t] = r1
      BY <1>4, <1>6, <1>11, <2>1
    <3>2. \A q \in Slot \ {s} : request'[q] # Free => request'[q].url # url
      BY <1>5, <1>6, <3>1 DEF Under
    <3>3. {q \in Slot : request'[q] # Free /\ request'[q].url = url} = {s}
      BY <1>4, <1>6, <3>2
    <3>4. Under(request[t].url)' = {s}
      BY <1>4, <3>1, <3>3 DEF Under
    <3>5. Undisturbed(request[t])'
      BY <1>4, <3>1 DEF Undisturbed
    <3> QED BY <2>1, <3>4, <3>5
  <2>2. CASE t # s
    <3>1. request[t] # Free
      BY <1>6, <1>11, <2>2
    <3>2. request[t].alone /\ request[t].url # url
      BY <1>5, <1>11, <2>2, <3>1
    <3>3. Under(request[t].url) = {t} /\ Undisturbed(request[t])
      BY <3>1, <3>2 DEF ImageInv
    <3>4. \A q \in Slot \ {s} : request'[q] # Free => request[q] # Free /\ request'[q].url = request[q].url
      BY <1>5, <1>6
    <3>5. {q \in Slot : request'[q] # Free /\ request'[q].url = request[t].url} = {t}
      <4>1. \A q \in Slot : request'[q] # Free /\ request'[q].url = request[t].url => q = t
        BY <1>4, <1>6, <3>2, <3>3, <3>4 DEF Under
      <4>2. request'[t] # Free /\ request'[t].url = request[t].url
        BY <1>5, <2>2, <3>1
      <4> QED BY <4>1, <4>2
    <3>6. Under(request[t].url)' = {t}
      BY <1>5, <2>2, <3>1, <3>5 DEF Under
    <3>7. PICK x : x = request[t]
      OBVIOUS
    <3>8. Undisturbed(x)'
      BY <1>7, <3>3, <3>7 DEF Undisturbed
    <3>9. /\ request'[t].pc = x.pc /\ request'[t].url = x.url /\ request'[t].options = x.options
          /\ request'[t].image = x.image
      BY <1>5, <2>2, <3>1, <3>7
    <3>10. Undisturbed(request[t])'
      BY <3>8, <3>9, ZenonT(60) DEF Undisturbed, Stored, Kept
    <3> QED BY <3>6, <3>10
  <2> QED BY <2>1, <2>2
<1>12. \A b \in settled' : SettledGood(b)'
  BY <1>2, <1>7 DEF ImageInv, SettledGood
<1>13. ASSUME NEW b \in settled', NEW t \in Slot, request'[t] # Free
       PROVE  Finds(b, request[t])'
  <2>1. CASE t = s
    <3>1. request'[t].pc = "lookup"
      BY <1>4, <1>6, <2>1
    <3> QED BY <3>1 DEF Finds
  <2>2. CASE t # s
    <3>1. request[t] # Free /\ Finds(b, request[t])
      BY <1>2, <1>6, <1>13, <2>2 DEF ImageInv
    <3>2. /\ request'[t].pc = request[t].pc /\ request'[t].url = request[t].url
          /\ request'[t].options = request[t].options /\ request'[t].image = request[t].image
      BY <1>5, <2>2, <3>1
    <3> QED BY <1>7, <3>1, <3>2 DEF Finds
  <2> QED BY <2>1, <2>2
<1> QED BY <1>8, <1>9, <1>10, <1>11, <1>12, <1>13 DEF ImageInv

\* What happens elsewhere, an upload and a restart disturb no handler that is left.
LEMMA OutsideKeeps ==
  ASSUME ImageInv,
         \/ \E u \in Web : Publish(u)
         \/ \E b \in Blob : uploadHandler(b)
         \/ Restart
         \/ UNCHANGED imageVars
  PROVE  ImageInv'
<1>1. UNCHANGED <<originals, converted, settled>>
  BY DEF Publish, uploadHandler, Restart, imageVars, storeVars
<1>2. upstream' \in [Web -> Nat \ {0}]
  <2>1. upstream \in [Web -> Nat \ {0}]
    BY DEF ImageInv, ImageTypes
  <2> QED BY <2>1 DEF Publish, uploadHandler, Restart, imageVars
<1>3. request' = request \/ request' = [s \in Slot |-> Free]
  BY DEF Publish, uploadHandler, Restart, imageVars
<1>4. (\A u : Kept(u)' = Kept(u)) /\ (\A u, p : Stored(u, p)' = Stored(u, p))
  BY <1>1 DEF Kept, Stored
<1>5. \A s \in Slot : request'[s] # Free => request' = request
  BY <1>3
<1>6. ImageTypes' /\ KeysHold'
  BY <1>1, <1>2, <1>3 DEF ImageInv, ImageTypes, KeysHold
<1>7. \A s \in Slot : request'[s] # Free => HandlerGood(request'[s])
  BY <1>5 DEF ImageInv
<1>8. ASSUME NEW s \in Slot, request'[s] # Free, request'[s].alone
      PROVE  Under(request[s].url)' = {s} /\ Undisturbed(request[s])'
  <2>1. request' = request /\ Under(request[s].url) = {s} /\ Undisturbed(request[s])
    BY <1>5, <1>8 DEF ImageInv
  <2> QED BY <1>4, <2>1 DEF Under, Undisturbed
<1>9. \A b \in settled' : SettledGood(b)'
  BY <1>1, <1>4 DEF ImageInv, SettledGood
<1>10. ASSUME NEW b \in settled', NEW s \in Slot, request'[s] # Free
       PROVE  Finds(b, request[s])'
  <2>1. request' = request /\ Finds(b, request[s])
    BY <1>1, <1>5, <1>10 DEF ImageInv
  <2> QED BY <1>4, <2>1 DEF Finds
<1> QED BY <1>6, <1>7, <1>8, <1>9, <1>10 DEF ImageInv

\* At first no handler runs and nothing is settled.
LEMMA ImageInitial == ImageInit => ImageInv
<1> SUFFICES ASSUME ImageInit PROVE ImageInv
  OBVIOUS
<1>1. upstream \in [Web -> Nat \ {0}] /\ originals \in [Web -> Nat] /\ request \in [Slot -> Handler \union {Free}]
  BY DEF ImageInit
<1>2. \A s \in Slot : request[s] = Free
  BY DEF ImageInit
<1> QED BY <1>1, <1>2 DEF ImageInit, ImageInv, ImageTypes, KeysHold

\* In every state of the image service, the stores hold what the handlers at
\* work and the answers given rest on.
THEOREM ImageInvariant == ImageSpec => []ImageInv
<1>1. ImageInv /\ [ImageNext]_imageVars => ImageInv'
  BY ProxyKeeps, LookupKeeps, ReadOriginalKeeps, FetchKeeps, StoreOriginalKeeps, ConvertKeeps,
     StoreConvertedKeeps, RespondKeeps, OutsideKeeps DEF ImageNext
<1> QED BY ImageInitial, <1>1, PTL DEF ImageSpec

\* An image answered without another request for its URL in between is the
\* one asked for, and later requests get the same, through restarts.
THEOREM ImagesKept == ImageSpec => []AnswersKept
<1>1. ImageInv => AnswersKept
  BY DEF ImageInv, SettledGood, RightImage, AnswersKept, AnsweredAsAsked, AnswersImmutable
<1> QED BY <1>1, ImageInvariant, PTL
=============================================================================
