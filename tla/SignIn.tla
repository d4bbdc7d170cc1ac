-------------------------------- MODULE SignIn --------------------------------
(***************************************************************************)
(* Signing in through the browser and keeping the tokens (gui/api.py,      *)
(* auth/oauth2.py, alfresco/auth, Engine.update_token).  A page is opened  *)
(* for a new account or for an engine, and its answer comes any time       *)
(* later: to the loopback server of the application (Alfresco) or as an    *)
(* nxdrive:// link (Nuxeo, with a token or an OAuth2 code).  The workers   *)
(* of an Alfresco engine refresh its token, and every refresh makes the    *)
(* one before void.                                                        *)
(***************************************************************************)
EXTENDS Nil, Naturals, Sequences, FiniteSets

CONSTANTS
    Engines,    \* the engines there are
    KindOf,     \* how each is signed in: "token", "oauth" or "loopback"
    New,        \* the purpose of a page that adds an account
    Budgets     \* what the user, the network and the system may do, and how often

\* A token is known by the page it was asked for with, and how many times it was refreshed.
Tokens == [page : Nat, gen : Nat]
Kinds == {"token", "oauth", "loopback"}
ASSUME KindAssumption == /\ KindOf \in [Engines -> Kinds] /\ New \notin Engines
                         /\ None \notin Engines /\ None \notin Nat /\ None \notin Tokens

VARIABLES
    pages,      \* the pages opened: what for, and in which way
    open,       \* those that have not been answered
    used,       \* those whose answer has been used
    params,     \* callback_params: the page whose purpose is in memory, or None
    pending,    \* the page whose purpose is in manager.db, or None
    tmp,        \* the page of tmp_oauth2_state and tmp_oauth2_code_verifier, or None
    listener,   \* the page that the loopback server listens for, or None
    calls,      \* the answers that wait for the main thread: page and user
    saving,     \* the engine whose new token is not saved yet, or None
    user,       \* the user of each engine, in memory and in its database
    auth,       \* the token an engine works with, or None: its page (0 at first) and generation
    stored,     \* the token in the engine's database and the user it is encrypted for
    void,       \* the tokens that the server accepts no more
    unsaved,    \* refreshed tokens whose callback has not run: engine, page, generation
    accounts,   \* the accounts added: whose purpose, and whose token
    left, mishaps

signInVars == <<pages, open, used, params, pending, tmp, listener, calls, saving, user, auth, stored, void,
          unsaved, accounts, left, mishaps>>
browser == <<pages, open>>
tokens == <<user, auth, stored, void, unsaved>>

LastPage == Len(pages)
Spend(what) == left[what] > 0 /\ left' = [left EXCEPT ![what] = @ - 1]
Token(page, gen) == [page |-> page, gen |-> gen]
Sealed(token, name) == [token |-> token, for |-> name]

-------------------------------------------------------------------------------
(* The pages                                                               *)

(* One loopback server at a time: a page that needs it takes it from the one before. *)
Listen(kind, page) == listener' = IF kind = "loopback" THEN page ELSE listener
Release(kind) == Listen(kind, None)

(* web_authentication, web_update_token: what the answer is for goes to memory and to manager.db. *)
BeginIf(purpose, kind, renews) ==
    LET page == LastPage + 1
    IN /\ saving = None /\ Spend("page")
       /\ pages' = Append(pages, [for |-> purpose, kind |-> kind]) /\ open' = open \cup {page}
       /\ params' = (IF renews \/ params = None THEN page ELSE params) /\ pending' = page
       /\ tmp' = IF kind = "token" THEN tmp ELSE page
       /\ Listen(kind, page)
       /\ UNCHANGED <<used, calls, saving, tokens, accounts, mishaps>>
BeginMutant(purpose, kind) == BeginIf(purpose, kind, FALSE)  \* params of an earlier page are kept: mutant
Begin(purpose, kind) == BeginIf(purpose, kind, TRUE)

(* No page is opened: nothing on the server says where to sign in, or it is said once the server is up. *)
BeginFails(kind) ==
    /\ saving = None /\ Spend("fail") /\ Release(kind)
    /\ mishaps' = mishaps \cup (IF listener' # listener THEN {"released"} ELSE {})
    /\ UNCHANGED <<browser, used, params, pending, tmp, calls, saving, tokens, accounts>>
NotDiscovered == BeginFails("oauth")
NotOpened == BeginFails("loopback")

(* The user signs in; the loopback server answers once, and a link gets to the application. *)
Answer(page, name) ==
    /\ page \in open /\ open' = open \ {page}
    /\ IF pages[page].kind = "loopback"
       THEN IF listener = page THEN listener' = None /\ calls' = Append(calls, [page |-> page, user |-> name])
                               ELSE UNCHANGED <<listener, calls>>
       ELSE calls' = Append(calls, [page |-> page, user |-> name]) /\ UNCHANGED listener
    /\ UNCHANGED <<pages, used, params, pending, tmp, saving, tokens, accounts, left, mishaps>>

(* The loopback server waits for five minutes. *)
Timeout ==
    /\ listener # None /\ Spend("timeout") /\ listener' = None /\ mishaps' = mishaps \cup {"timeout"}
    /\ UNCHANGED <<browser, used, params, pending, tmp, calls, saving, tokens, accounts>>

-------------------------------------------------------------------------------
(* The answers, in the main thread                                         *)

Call == Head(calls)
Takes == saving = None /\ calls # <<>> /\ calls' = Tail(calls)

(* update_token: the user is written before the token.  create_account: the server refuses the token of another. *)
Give(page) ==
    LET purpose == pages[page].for
    IN IF purpose \in Engines
       THEN /\ auth' = [auth EXCEPT ![purpose] = Token(Call.page, 0)] /\ used' = used \cup {Call.page}
            /\ user' = [user EXCEPT ![purpose] = Call.user] /\ saving' = purpose
            /\ UNCHANGED accounts
       ELSE /\ IF pages[page].kind = pages[Call.page].kind
               THEN accounts' = accounts \cup {[for |-> page, by |-> Call.page]} /\ used' = used \cup {Call.page}
               ELSE UNCHANGED <<accounts, used>>
            /\ UNCHANGED <<auth, user, saving>>
Ignored == UNCHANGED <<auth, used, user, saving, accounts>>
Overtaken == IF Call.page # LastPage THEN {"overtaken"} ELSE {}

Remembered == IF params # None THEN params ELSE pending

(* handle_token: nothing in the link says which page it is from. *)
HandleToken ==
    /\ Takes /\ pages[Call.page].kind = "token"
    /\ LET page == Remembered
       IN /\ params' = page /\ pending' = None
          /\ IF page = None THEN Ignored ELSE Give(page)
          /\ mishaps' = mishaps \cup Overtaken \cup (IF page = None THEN {"cleared"} ELSE {})
    /\ UNCHANGED <<browser, tmp, listener, stored, void, unsaved, left>>

(* continue_oauth2_flow: the state is that of the last OAuth2 page, the purpose that of the last page. *)
HandleCodeIf(kept) ==
    /\ Takes /\ pages[Call.page].kind # "token"
    /\ IF tmp # Call.page THEN Ignored /\ tmp' = kept /\ UNCHANGED listener
       ELSE /\ tmp' = None /\ Release(pages[Call.page].kind)
            /\ IF params = None THEN Ignored ELSE Give(params)
    /\ mishaps' = mishaps \cup Overtaken \cup (IF tmp = Call.page /\ params = None THEN {"forgotten"} ELSE {})
    /\ UNCHANGED <<browser, params, pending, stored, void, unsaved, left>>

HandleCodeMutant == HandleCodeIf(None)  \* tmp_oauth2_state is deleted for the answer of another page: mutant
HandleCode == HandleCodeIf(tmp)

(* The exchange of the code fails, or the name of the user cannot be read. *)
CodeFails ==
    /\ Takes /\ pages[Call.page].kind # "token" /\ tmp = Call.page /\ Spend("fail")
    /\ tmp' = None /\ Release(pages[Call.page].kind)
    /\ Ignored /\ mishaps' = mishaps \cup {"failed"}
    /\ UNCHANGED <<browser, params, pending, stored, void, unsaved>>

SaveIf(name) ==
    /\ saving # None /\ saving' = None
    /\ stored' = [stored EXCEPT ![saving] = Sealed(auth[saving], name)]
    /\ UNCHANGED <<browser, used, params, pending, tmp, listener, calls, user, auth, void, unsaved, accounts,
                   left, mishaps>>
SaveToken == /\ saving # None /\ auth[saving] # None
             /\ SaveIf(user[saving])

-------------------------------------------------------------------------------
(* The tokens of the engines that refresh them                             *)

Refreshes(e) == KindOf[e] = "loopback" /\ auth[e] # None
Issued(e, token) == [engine |-> e, token |-> token]
Valid(e) == Issued(e, auth[e]) \notin void
Void(e) == void' = void \cup {Issued(e, auth[e])}

(* The handler has the new token, and the callback that saves it has yet to run. *)
Refresh(e) ==
    /\ Refreshes(e) /\ Valid(e) /\ Spend("refresh") /\ Void(e)
    /\ LET new == Token(auth[e].page, auth[e].gen + 1)
       IN auth' = [auth EXCEPT ![e] = new] /\ unsaved' = unsaved \cup {Issued(e, new)}
    /\ UNCHANGED <<browser, used, params, pending, tmp, listener, calls, saving, user, stored, accounts, mishaps>>

(* The answer of the server is lost. *)
RefreshLost(e) ==
    /\ Refreshes(e) /\ Valid(e) /\ Spend("fail") /\ Void(e)
    /\ mishaps' = mishaps \cup {"lost"}
    /\ UNCHANGED <<browser, used, params, pending, tmp, listener, calls, saving, user, auth, stored, unsaved, accounts>>

(* The credentials are invalid: the engine is stopped until the user signs in. *)
Refused(e) ==
    /\ Refreshes(e) /\ ~Valid(e) /\ saving # e /\ auth' = [auth EXCEPT ![e] = None]
    /\ UNCHANGED <<browser, used, params, pending, tmp, listener, calls, saving, user, stored, void, unsaved,
                   accounts, left, mishaps>>

(* _on_remote_token_refreshed, which does not know of a token given to the engine meanwhile. *)
PersistIf(saves) ==
    \E refreshed \in unsaved :
       LET e == refreshed.engine
       IN /\ unsaved' = unsaved \ {refreshed}
          /\ stored' = IF saves THEN [stored EXCEPT ![e] = Sealed(refreshed.token, user[e])] ELSE stored
          /\ mishaps' = mishaps \cup (IF auth[e] # refreshed.token THEN {"late"} ELSE {})
          /\ UNCHANGED <<browser, used, params, pending, tmp, listener, calls, saving, user, auth, void, accounts,
                         left>>
PersistMutant == PersistIf(FALSE)  \* the refreshed token stays in memory: mutant
Persist == PersistIf(TRUE)

-------------------------------------------------------------------------------
(* The application ends or is killed, and starts again; the pages stay open in the browser. *)
Restart ==
    /\ Spend("restart")
    /\ params' = None /\ listener' = None /\ calls' = <<>> /\ saving' = None /\ unsaved' = {}
    /\ auth' = [e \in Engines |-> IF stored[e].for = user[e] THEN stored[e].token ELSE None]
    /\ mishaps' = mishaps \cup (IF calls # <<>> \/ listener # None THEN {"restarted"} ELSE {})
                  \cup (IF saving # None \/ unsaved # {} THEN {"killed"} ELSE {})
    /\ UNCHANGED <<browser, used, pending, tmp, user, stored, void, accounts>>

SignInInit ==
    /\ pages = <<>> /\ open = {} /\ used = {} /\ params = None /\ pending = None /\ tmp = None
    /\ listener = None /\ calls = <<>> /\ saving = None /\ unsaved = {} /\ accounts = {} /\ void = {}
    /\ user = [e \in Engines |-> "owner"] /\ auth = [e \in Engines |-> Token(0, 0)]
    /\ stored = [e \in Engines |-> Sealed(Token(0, 0), "owner")]
    /\ left \in Budgets /\ mishaps = {}

SignInNext ==
    \/ \E e \in Engines : Begin(e, KindOf[e]) \/ Refresh(e) \/ RefreshLost(e) \/ Refused(e)
    \/ \E kind \in Kinds : Begin(New, kind)
    \/ NotDiscovered \/ NotOpened
    \/ \E page \in open, name \in {"owner", "other"} : Answer(page, name)
    \/ Timeout \/ HandleToken \/ HandleCode \/ CodeFails \/ SaveToken \/ Persist \/ Restart

SignInSpec == SignInInit /\ [][SignInNext]_signInVars

-------------------------------------------------------------------------------
(* Properties                                                              *)

(* A token goes to the engine, or to the account, that its page was opened for, though there is one       *)
(* callback_params for all pages and the answers come in any order, or twice.  Known exception,           *)
(* "overtaken": the answer of an older page is taken for that of the last one, as an nxdrive://token link *)
(* does not say which page it is from, and the state of an OAuth2 answer is not compared with the page of *)
(* callback_params.                                                                                       *)
RightAccount ==
    \/ "overtaken" \in mishaps
    \/ /\ \A e \in Engines : auth[e] # None /\ auth[e].page > 0 => pages[auth[e].page].for = e
       /\ \A account \in accounts : account.for = account.by

(* The answer of the last page is used, whatever answers older pages give before.  Known exceptions:      *)
(* "timeout", after five minutes; "restarted", the application ends before the answer; "failed", the code *)
(* or the name is not read; "released", a new attempt that fails has closed the loopback server;          *)
(* "cleared", an older answer has removed what manager.db had for the last page, and the application      *)
(* started again; "forgotten", after a restart an OAuth2 answer does not look at manager.db at all.       *)
AnswerUsed ==
    LastPage > 0 /\ LastPage \notin open /\ calls = <<>> =>
      LastPage \in used \/ mishaps \cap {"timeout", "restarted", "failed", "released", "cleared", "forgotten"} # {}

(* Nobody has to sign in again because tokens were refreshed or an engine was given another one, and what *)
(* an engine works with is what its database has, readable with the name of its user.  Known exceptions:  *)
(* "lost", the server has refreshed and its answer is lost; "killed", the application ends between the    *)
(* two writes or before the callback; "late", the callback of the old handler runs after the user has     *)
(* signed in, and the old token replaces the new one in the database.                                     *)
SignedIn ==
    \A e \in Engines :
       /\ auth[e] # None \/ mishaps \cap {"lost", "killed", "late"} # {}
       /\ unsaved = {} /\ saving = None /\ auth[e] # None =>
            stored[e] = Sealed(auth[e], user[e]) \/ "late" \in mishaps

(* An answer of a sign-in page is used, for the account it was asked for, and nobody has to sign in again, *)
(* but for the exceptions above.                                                                          *)
AnswersKept == RightAccount /\ AnswerUsed /\ SignedIn
===============================================================================
