---------------------------- MODULE WalletSession ----------------------------
(***************************************************************************)
(* The session of the web wallet: who is logged in, which private keys are *)
(* in memory, what is saved for the next visit, and how an operation finds *)
(* the key that signs it.  UserSaga, UserReducer, AuthSaga, TransactionSaga*)
(* and the two forms that feed them.                                       *)
(*                                                                         *)
(* A saga gives way where it waits for the node or the server: the login   *)
(* while it loads the account and while it logs in at the server, an       *)
(* operation while it looks for its key and while it is being sent.  Each  *)
(* role of an account has one key; authorities of other accounts do not    *)
(* count (threshold in AuthSaga skips them).  The browser extension that   *)
(* can hold keys instead is left out.                                      *)
(***************************************************************************)
EXTENDS Integers, FiniteSets

CONSTANTS
  User,       \* accounts
  Key,        \* private keys
  KeyOf,      \* the key of each role of each account
  Login,      \* what may be typed into the form: a name, a role, a password
  Op,         \* operations
  PostingOp,  \* those that the posting authority suffices for
  ConfirmOp,  \* those that ask for confirmation
  UnsafeOp,   \* those whose text holds a private key
  TransferOp, \* transfers
  WitnessOp,  \* votes for witnesses
  Callbacks,  \* the callbacks each is dispatched with
  MaxLogins   \* bound: forms submitted

Role == {"posting", "active", "owner", "memo"}

None == "none"

Form ==
  [username : User, role : Role \union {None},
   password : [of : User, is : Role \union {"master"}]]

ASSUME SessionAssumption ==
  /\ KeyOf \in [User -> [Role -> Key]] /\ None \notin User \union Key \union Op
  /\ Login \subseteq Form
  /\ PostingOp \union ConfirmOp \union UnsafeOp \union TransferOp \union WitnessOp \subseteq Op
  /\ Callbacks \in [Op -> SUBSET {"success", "error"}]

VARIABLES
  current,     \* user.current: the name and the private keys by role
  autopost,    \* localStorage's autopost2
  login,       \* the one task of usernamePasswordLogin that is alive
  modal,       \* user.loginBroadcastOperation
  confirming,  \* transaction.confirmBroadcastOperation
  page,        \* whether the page is one of highSecurityPages
  op,          \* the operations
  readOnly,    \* $STM_Config.read_only_mode of the server the page is from
  kept,        \* keys of the logins whose keys were to stay in memory
  logins,      \* forms submitted
  fresh        \* a login has come through since the page was entered

taskVars == <<modal, confirming, op>>
sessionVars == <<current, autopost, login, page, kept, logins, fresh, readOnly>>
walletVars == <<sessionVars, taskVars>>

NoKeys == [r \in Role |-> None]

LoggedOut == [username |-> None, keys |-> NoKeys]

NoLogin == [pc |-> None]

NotSaved == [username |-> None, posting |-> None, memo |-> None]

NotTyped == [username |-> None]

(* The keys that what was typed stands for: a password is hashed with the  *)
(* name; a key stands for every role.  The name can limit the roles.       *)
DerivedKeys(l) ==
  [r \in Role |->
     IF l.role # None /\ r \notin {l.role, "memo"} THEN None
     ELSE IF l.password.is # "master" THEN KeyOf[l.password.of][l.password.is]
     ELSE IF l.password.of = l.username THEN KeyOf[l.username][r]
     ELSE None]

(* authority: the roles the keys have full authority for. *)
FullAuths(user, keys) == {r \in Role : keys[r] = KeyOf[user][r]}

(* An operation that has not begun or is over, and how often it has called *)
(* back.                                                                   *)
Plain(pc, calls) ==
  [pc |-> pc, account |-> None, username |-> None, form |-> NotTyped, asked |-> FALSE,
   calls |-> calls, keys |-> NoKeys]

(* How an operation may end: accepted by the node; failed, and reported;   *)
(* failed, and lost in the reducer; ignored in read-only mode.             *)
Ended == {"done", "failed", "lost", "ignored"}

(* A dialog goes away and the operation it showed with it.                 *)
Drop(o) == IF o = None THEN op ELSE [op EXCEPT ![o] = Plain("dropped", @.calls)]

-----------------------------------------------------------------------------
(* usernamePasswordLogin.                                                  *)

(* memo: the memo key that was saved, for the login from localStorage.     *)
StartLogin(l, saveLogin, forOp, auto, memo) ==
  login' = [pc |-> "account", form |-> l, saveLogin |-> saveLogin,
            forOp |-> forOp, auto |-> auto, memo |-> memo]

(* The keys the login tries; a memo key that was saved stands for itself. *)
LoginKeys ==
  IF login.memo = None THEN DerivedKeys(login.form)
  ELSE [DerivedKeys(login.form) EXCEPT !["memo"] = login.memo]

LoginAuths == FullAuths(login.form.username, LoginKeys)

(* The form without an operation, whenever the dialog can be opened.  A    *)
(* login that is under way is cancelled.                                   *)
SubmitLogin(l, saveLogin) ==
  /\ ~readOnly /\ modal = None /\ logins < MaxLogins /\ logins' = logins + 1
  /\ StartLogin(l, saveLogin, FALSE, FALSE, None)
  /\ UNCHANGED <<current, autopost, page, kept, fresh, readOnly, taskVars>>

(* The account is here: no full authority, no login. *)
IncorrectPassword ==
  /\ login.pc = "account"
  /\ LoginAuths = {}
  /\ login' = NoLogin
  /\ autopost' = NotSaved
  /\ UNCHANGED <<current, page, kept, logins, fresh, readOnly, taskVars>>

(* SET_USER merges what it is given into what is there, and closes the     *)
(* login dialog.                                                           *)
SetUser(user, keys) ==
  /\ current' = [username |-> user,
                 keys |-> [r \in Role |-> IF keys[r] # None THEN keys[r] ELSE current.keys[r]]]
  /\ modal' = None
  /\ op' = Drop(modal)

LoginSucceeds_KeepAll ==
  LET keys == [r \in Role |-> IF r \in LoginAuths THEN LoginKeys[r] ELSE None]
  IN  /\ login.pc = "account" /\ LoginAuths # {}
      /\ SetUser(login.form.username, keys)
      /\ kept' = IF ~login.forOp \/ login.saveLogin
                 THEN kept \union {keys[r] : r \in LoginAuths} ELSE kept
      /\ login' = [login EXCEPT !.pc = "server"] /\ fresh' = TRUE
      /\ UNCHANGED <<autopost, page, logins, readOnly, confirming>>

(* Keys without full authority are removed; for a single operation none is *)
(* kept in memory, unless the login is to be saved.                        *)
LoginSucceeds ==
  LET keep == ~login.forOp \/ login.saveLogin
      keys == [r \in Role |-> IF keep /\ r \in LoginAuths THEN LoginKeys[r] ELSE None]
  IN  /\ login.pc = "account" /\ LoginAuths # {}
      /\ SetUser(login.form.username, keys)
      /\ kept' = IF keep THEN kept \union {keys[r] : r \in LoginAuths} ELSE kept
      /\ login' = [login EXCEPT !.pc = "server"] /\ fresh' = TRUE
      /\ UNCHANGED <<autopost, page, logins, readOnly, confirming>>

HighKeys(u) == {KeyOf[u][r] : r \in {"active", "owner"}}

SavedLogin_Unchecked ==
  IF current.username = None \/ current.keys["posting"] = None THEN NotSaved
  ELSE [username |-> current.username, posting |-> current.keys["posting"],
        memo |-> current.keys["memo"]]

(* saveLogin_localStorage: the posting key, unless it is also a key of the *)
(* account's active or owner authority; and the memo key, whatever it is.  *)
SavedLogin ==
  IF \/ current.username = None \/ current.keys["posting"] = None
     \/ current.keys["posting"] \in HighKeys(current.username)
  THEN NotSaved
  ELSE [username |-> current.username, posting |-> current.keys["posting"],
        memo |-> current.keys["memo"]]

(* The server has answered, or failed to; the login ends. *)
ServerAnswers ==
  /\ login.pc = "server"
  /\ login' = NoLogin
  /\ autopost' = IF ~login.auto /\ login.saveLogin THEN SavedLogin ELSE autopost
  /\ UNCHANGED <<current, page, kept, logins, fresh, readOnly, taskVars>>

logout ==
  /\ current' = LoggedOut /\ autopost' = NotSaved
  /\ modal' = None /\ op' = Drop(modal)
  /\ UNCHANGED <<login, page, kept, logins, fresh, readOnly, confirming>>

(* Loading the page anew keeps localStorage only, and logs in from it.     *)
Reload ==
  /\ current' = LoggedOut /\ kept' = {} /\ fresh' = FALSE
  /\ modal' = None /\ confirming' = None /\ page' = "low" /\ readOnly' \in BOOLEAN
  /\ op' = [o \in Op |-> IF op[o].pc = "new" \/ op[o].pc \in Ended THEN op[o]
                         ELSE Plain("dropped", op[o].calls)]
  /\ IF autopost = NotSaved THEN login' = NoLogin
     ELSE StartLogin([username |-> autopost.username, role |-> None,
                      password |-> CHOOSE p \in [of : User, is : Role] :
                                     KeyOf[p.of][p.is] = autopost.posting],
                     FALSE, FALSE, TRUE, autopost.memo)
  /\ UNCHANGED <<autopost, logins>>

removeHighSecurityKeys_Active ==
  /\ current' = [current EXCEPT !.keys["active"] = None]
  /\ UNCHANGED <<modal, op>>

(* REMOVE_HIGH_SECURITY_KEYS: whoever has no other key is logged out. *)
removeHighSecurityKeys ==
  LET keys == [current.keys EXCEPT !["active"] = None, !["owner"] = None]
  IN  IF current.keys = NoKeys THEN UNCHANGED <<current, modal, op>>
      ELSE IF keys = NoKeys THEN current' = LoggedOut /\ modal' = None /\ op' = Drop(modal)
      ELSE current' = [current EXCEPT !.keys = keys] /\ UNCHANGED <<modal, op>>

Navigate(to) ==
  /\ page' = to /\ fresh' = FALSE
  /\ IF to = "low" THEN removeHighSecurityKeys ELSE UNCHANGED <<current, modal, op>>
  /\ UNCHANGED <<autopost, login, kept, logins, readOnly, confirming>>

-----------------------------------------------------------------------------
(* broadcastOperation.                                                     *)

authTypes(o) ==
  IF o \in PostingOp THEN <<"posting", "active">> ELSE <<"active", "owner">>

(* findSigningKey reads the session, then waits for the account.  Without  *)
(* a password only the keys of the user who is logged in are candidates.   *)
FindKey(o, account, l) ==
  LET name == IF l = NotTyped THEN current.username ELSE l.username
  IN  [pc |-> "signing", account |-> account, username |-> name, form |-> l,
       asked |-> op[o].asked, calls |-> op[o].calls,
       keys |-> IF l # NotTyped THEN DerivedKeys([l EXCEPT !.role = None]) ELSE current.keys]

(* The dialog has room for one operation; it keeps what was typed for it.  *)
Confirm(o, account, l, pc) ==
  /\ confirming' = o
  /\ op' = [x \in Op |->
       IF x = o THEN [pc |-> pc, account |-> account, username |-> None, form |-> l,
                      asked |-> TRUE, calls |-> op[o].calls, keys |-> NoKeys]
       ELSE Drop(confirming)[x]]

(* broadcastOperation: it asks for confirmation, warns of a private key in *)
(* the text unless that was allowed, or looks for the key that signs.      *)
broadcastOperation(o, account, l, confirm, allowPostUnsafe) ==
  IF confirm THEN Confirm(o, account, l, "confirm")
  ELSE IF o \in UnsafeOp /\ ~allowPostUnsafe THEN Confirm(o, account, l, "warn")
  ELSE /\ op' = [op EXCEPT ![o] = FindKey(o, account, l)]
       /\ confirming' = IF confirming = o THEN None ELSE confirming

(* A component dispatches the operation, in the name of whoever is logged  *)
(* in.                                                                     *)
Dispatch(o) ==
  /\ op[o].pc = "new"
  /\ broadcastOperation(o, current.username, NotTyped, o \in ConfirmOp, FALSE)
  /\ UNCHANGED <<sessionVars, modal>>

(* The operation again, as the dialog has kept it, for whoever is logged   *)
(* in now if nothing was typed.                                            *)
okClick ==
  /\ confirming # None
  /\ LET c == op[confirming]
     IN  broadcastOperation(confirming, c.account, c.form, FALSE, c.pc = "warn")
  /\ UNCHANGED <<sessionVars, modal>>

(* A callback that there is is called. *)
Calls(o, callback) == IF callback \in Callbacks[o] THEN 1 ELSE 0

Ends(o, pc, called) == op' = [op EXCEPT ![o] = Plain(pc, @.calls + called)]

(* onCancel calls the error callback; hiding the dialog does not. *)
onCancel ==
  /\ confirming # None
  /\ \/ Ends(confirming, "failed", Calls(confirming, "error"))
     \/ op' = Drop(confirming)
  /\ confirming' = None
  /\ UNCHANGED <<sessionVars, modal>>

(* The first of the two keys that has full authority. *)
SigningKey(o) ==
  LET full == IF op[o].username = None THEN {} ELSE FullAuths(op[o].username, op[o].keys)
      r1 == authTypes(o)[1]
      r2 == authTypes(o)[2]
  IN  IF r1 \in full THEN op[o].keys[r1] ELSE IF r2 \in full THEN op[o].keys[r2] ELSE None

Sends_SessionReadAgain(o) ==
  /\ op[o].pc = "signing" /\ (SigningKey(o) # None \/ op[o].form # NotTyped) /\ ~readOnly
  /\ op' = [op EXCEPT ![o].pc = "sending", ![o].username = current.username,
                      ![o].keys = current.keys]
  /\ UNCHANGED <<sessionVars, modal, confirming>>

(* A key is there, or a password that yields none: broadcastPayload sends. *)
Sends(o) ==
  /\ op[o].pc = "signing" /\ (SigningKey(o) # None \/ op[o].form # NotTyped)
  /\ ~readOnly
  /\ op' = [op EXCEPT ![o].pc = "sending"]
  /\ UNCHANGED <<sessionVars, modal, confirming>>

(* In read-only mode it returns at once, and nobody is called.             *)
Ignores(o) ==
  /\ op[o].pc = "signing" /\ (SigningKey(o) # None \/ op[o].form # NotTyped)
  /\ readOnly
  /\ Ends(o, "ignored", 0)
  /\ UNCHANGED <<sessionVars, modal, confirming>>

(* SHOW_LOGIN has room for one operation. *)
ShowsLogin(o) ==
  /\ op[o].pc = "signing" /\ SigningKey(o) = None /\ op[o].form = NotTyped
  /\ op' = [Drop(modal) EXCEPT ![o].pc = "modal", ![o].asked = TRUE]
  /\ modal' = o
  /\ UNCHANGED <<sessionVars, confirming>>

(* The account cannot be loaded, or what is to be sent cannot be prepared. *)
LookupFails(o) ==
  /\ op[o].pc = "signing"
  /\ Ends(o, "failed", Calls(o, "error"))
  /\ UNCHANGED <<sessionVars, modal, confirming>>

(* The form submitted for an operation: the operation again, with what was *)
(* typed, and a login of its own.                                          *)
SubmitOperation(l, saveLogin) ==
  /\ ~readOnly /\ modal # None /\ logins < MaxLogins /\ logins' = logins + 1
  /\ broadcastOperation(modal, op[modal].account, l, FALSE, FALSE)
  /\ StartLogin(l, saveLogin, TRUE, FALSE, None)
  /\ modal' = None
  /\ UNCHANGED <<current, autopost, page, kept, fresh, readOnly>>

(* The button of the form calls the error callback; closing it does not. *)
closeLogin ==
  /\ modal # None
  /\ \/ ~readOnly /\ Ends(modal, "failed", Calls(modal, "error"))
     \/ op' = Drop(modal)
  /\ modal' = None
  /\ UNCHANGED <<sessionVars, confirming>>

(* The account that what is sent names: a vote for a witness without one   *)
(* gets the name that was typed.                                           *)
Named(o) ==
  IF op[o].account = None /\ o \in WitnessOp THEN op[o].form.username ELSE op[o].account

(* The node takes what the account named has signed. *)
Accepted(o) ==
  /\ op[o].pc = "sending" /\ Named(o) # None
  /\ SigningKey(o) \in {KeyOf[Named(o)][authTypes(o)[i]] : i \in 1..2}
  /\ Ends(o, "done", Calls(o, "success"))
  /\ UNCHANGED <<sessionVars, modal, confirming>>

(* What the reducer may do with an error: stumble over that of a transfer  *)
(* that carries no data, or come to the callback, which may throw; without *)
(* a callback it throws.                                                   *)
ErrorReducer(o) ==
  {[pc |-> "lost", calls |-> 0, throws |-> TRUE] : x \in {o} \intersect TransferOp}
  \union {[pc |-> "failed", calls |-> Calls(o, "error"), throws |-> t] :
            t \in IF "error" \notin Callbacks[o] THEN {TRUE} ELSE BOOLEAN}

SendFails_Rethrown(o) ==
  /\ op[o].pc = "sending"
  /\ \E r \in ErrorReducer(o) :
       Ends(o, r.pc, r.calls + (IF r.throws THEN Calls(o, "error") ELSE 0))
  /\ UNCHANGED <<sessionVars, modal, confirming>>

(* broadcastPayload puts the error to the reducer.  The put of redux-saga  *)
(* 0.16.0 logs what a reducer throws and returns, so that the catch of     *)
(* broadcastOperation does not see it.                                     *)
SendFails(o) ==
  /\ op[o].pc = "sending"
  /\ \E r \in ErrorReducer(o) : Ends(o, r.pc, r.calls)
  /\ UNCHANGED <<sessionVars, modal, confirming>>

WalletInit ==
  /\ current = LoggedOut /\ autopost = NotSaved /\ login = NoLogin
  /\ page = "low" /\ kept = {} /\ logins = 0 /\ fresh = FALSE /\ readOnly \in BOOLEAN
  /\ modal = None /\ confirming = None
  /\ op = [o \in Op |-> Plain("new", 0)]

WalletNext ==
  \/ \E l \in Login, saveLogin \in BOOLEAN :
       SubmitLogin(l, saveLogin) \/ SubmitOperation(l, saveLogin)
  \/ IncorrectPassword \/ LoginSucceeds \/ ServerAnswers
  \/ logout \/ Reload \/ closeLogin \/ okClick \/ onCancel
  \/ \E to \in {"low", "high"} : Navigate(to)
  \/ \E o \in Op :
       \/ Dispatch(o) \/ Sends(o) \/ Ignores(o) \/ ShowsLogin(o) \/ LookupFails(o)
       \/ Accepted(o) \/ SendFails(o)

WalletSpec == WalletInit /\ [][WalletNext]_walletVars

-----------------------------------------------------------------------------
KeysByRole == [Role -> Key \union {None}]

OpState ==
  [pc : {"new", "confirm", "warn", "signing", "modal", "sending", "dropped"} \union Ended,
   account : User \union {None}, username : User \union {None},
   form : Form \union {NotTyped}, asked : BOOLEAN, calls : Nat, keys : KeysByRole]

LoginState ==
  [pc : {"account", "server"}, form : Form, saveLogin : BOOLEAN, forOp : BOOLEAN,
   auto : BOOLEAN, memo : Key \union {None}]

WalletTypeOK ==
  /\ current \in [username : User \union {None}, keys : KeysByRole]
  /\ autopost \in [username : User, posting : Key, memo : Key \union {None}] \union {NotSaved}
  /\ login \in LoginState \union {NoLogin}
  /\ page \in {"low", "high"} /\ fresh \in BOOLEAN /\ readOnly \in BOOLEAN
  /\ modal \in Op \union {None} /\ confirming \in Op \union {None}
  /\ op \in [Op -> OpState]

(* An operation the user has seen in no dialog since it was dispatched is  *)
(* signed with a key that has authority in the account it was dispatched   *)
(* for, although the session may hold keys of two users and change hands   *)
(* while the account is waited for.  And what nothing was typed for is     *)
(* signed with a key of a login that was to stay, never with one that was  *)
(* typed for another operation (findSigningKey, broadcastOperation).       *)
SignedForItsAccount ==
  \A o \in Op : op[o].pc = "sending" /\ SigningKey(o) # None =>
    /\ ~op[o].asked =>
         op[o].account # None
         /\ \E i \in 1..2 : SigningKey(o) = KeyOf[op[o].account][authTypes(o)[i]]
    /\ op[o].form = NotTyped => SigningKey(o) \in kept

(* An account whose active and owner keys are nobody's keys for less. *)
KeepsApart(u) ==
  HighKeys(u) \intersect {KeyOf[v][r] : v \in User, r \in {"posting", "memo"}} = {}

SavedKeys == {autopost.posting, autopost.memo} \ {None}

(* Whatever the session has become while the server was waited for, the    *)
(* posting key that is saved has no high authority in the account it is    *)
(* saved for, and no key saved is an active or owner key of an account     *)
(* that uses it for nothing less (saveLogin_localStorage).                 *)
SavedLoginIsLow ==
  autopost # NotSaved =>
    /\ autopost.posting \notin HighKeys(autopost.username)
    /\ \A u \in User : KeepsApart(u) => SavedKeys \intersect HighKeys(u) = {}

(* Keys typed to sign one operation only do not stay in memory.            *)
OnlyKeptKeys == \A r \in Role : current.keys[r] \in kept \union {None}

(* On a page of low security the active and owner keys are in memory only  *)
(* if a login has come through since the page was entered.                 *)
HighKeysAreFresh ==
  page = "low" /\ ~fresh => current.keys["active"] = None /\ current.keys["owner"] = None

(* Keys do not stay in memory longer than they should: not past the        *)
(* operation they were typed for, and not past the pages of high security. *)
KeysLeave == OnlyKeptKeys /\ HighKeysAreFresh

(* An operation with callbacks calls back at most once, though a reducer   *)
(* and a saga both answer for its errors and a callback may throw; it does *)
(* so when the node has taken it or it has failed, unless it went with its *)
(* dialog, the page is read-only, or it is a transfer whose error the      *)
(* reducer stumbles over (ERROR; broadcastOperation).                      *)
CalledBackOnce ==
  \A o \in Op :
    /\ op[o].calls = IF op[o].pc = "done" THEN Calls(o, "success")
                      ELSE IF op[o].pc = "failed" THEN Calls(o, "error") ELSE 0
    /\ op[o].pc = "lost" => o \in TransferOp

(* A dialog shows an operation that waits for it and has been asked about. *)
DialogsHold ==
  /\ modal # None => op[modal].pc = "modal"
  /\ confirming # None => op[confirming].pc \in {"confirm", "warn"}
  /\ \A o \in Op : op[o].pc \in {"modal", "confirm", "warn"} => op[o].asked
  /\ \A o \in Op : op[o].form # NotTyped => op[o].asked

(* What stands for the posting role and the memo role in memory is         *)
(* someone's posting key and someone's memo key: a login leaves only keys  *)
(* with full authority, though for another user.                           *)
KeysOfTheirRole ==
  \A r \in {"posting", "memo"} :
    current.keys[r] # None => \E u \in User : current.keys[r] = KeyOf[u][r]

SavedOfTheirRole ==
  /\ autopost.posting # None => \E u \in User : autopost.posting = KeyOf[u]["posting"]
  /\ autopost.memo # None => \E u \in User : autopost.memo = KeyOf[u]["memo"]

(* An operation that looks for its key, or is sent, without a dialog is    *)
(* looked after in the name it was dispatched in, with keys that stay.     *)
SignsAsDispatched ==
  \A o \in Op : op[o].pc \in {"signing", "sending"} =>
    /\ ~op[o].asked => op[o].username = op[o].account
    /\ op[o].form = NotTyped => \A r \in Role : op[o].keys[r] \in kept \union {None}

(* The inductive invariant the proofs rest on.                             *)
WalletInv ==
  /\ WalletTypeOK /\ DialogsHold /\ KeysOfTheirRole /\ SavedOfTheirRole
  /\ SignsAsDispatched /\ SavedLoginIsLow /\ KeysLeave /\ CalledBackOnce
=============================================================================
