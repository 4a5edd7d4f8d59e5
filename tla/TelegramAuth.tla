---------------------------- MODULE TelegramAuth ----------------------------
(***************************************************************************)
(* The web login of one phone number: the forms of api/routers/auth_web.py, *)
(* TelegramAuthService (telegram/auth_service.py), the Redis key            *)
(* auth_state:<phone> of AuthStateStore (core/redis.py), and the            *)
(* transaction of _complete_auth that creates the user, the account, the    *)
(* session row and the userbot.                                             *)
(*                                                                         *)
(* Every form is a request of its own and requests overlap: a double        *)
(* submit, a second tab, a second Telegram user with the same phone.  A     *)
(* step is the code between two awaits that another request could tell      *)
(* apart.  A code, its phone_code_hash and the auth key of the session      *)
(* string are named by the request that asked for them.  needs_2fa is       *)
(* written and never read, so the key here has the other two fields.        *)
(***************************************************************************)
EXTENDS Naturals, FiniteSets

CONSTANTS
    Users,        \* Telegram ids in the hidden field tg
    MaxRequests,  \* bound: forms posted
    MaxOpen       \* bound: requests handled at the same time

ASSUME AuthAssumption == MaxRequests \in Nat /\ MaxOpen \in Nat

VARIABLES
    key,       \* auth_state:<phone>: the code's hash and the session string
    req,       \* what handles each request
    arrived,   \* requests so far
    twoFA,     \* has the account a password (Telegram's side)
    passed,    \* auth keys that passed the code step (Telegram's side)
    loggedIn,  \* auth keys that are authorized (Telegram's side)
    users,     \* committed rows of users
    accounts,  \* committed rows of telegram_accounts with this phone, by user
    rows,      \* committed rows of telegram_sessions
    nextId,    \* the sequence of telegram_sessions.id
    last,      \* history: the session of the last login committed, by user
    clean      \* history: codes that no other request for the phone disturbed

telegram == <<twoFA, passed, loggedIn>>
tables == <<users, accounts, rows, nextId, last>>
vars == <<key, req, arrived, telegram, tables, clean>>

Requests == 1..MaxRequests

NoUser == 0

\* The code 0 is a code nobody was sent.
Codes == 0..MaxRequests

State(hash, session) == [hash |-> hash, session |-> session]
NoState == State(0, 0)

\* tg, code and password are what the form holds; st is the state loaded, id
\* the row inserted and fresh what the SELECTs of the transaction did not find.
Request(kind, tg, code, password, pc) ==
    [pc |-> pc, kind |-> kind, tg |-> tg, code |-> code, password |-> password,
     st |-> NoState, id |-> 0, fresh |-> FALSE]
NoRequest == Request("none", NoUser, 0, FALSE, "none")

Open == {r \in Requests : req[r].pc \notin {"none", "done"}}

Arrives(r) ==
    /\ arrived < MaxRequests
    /\ r = arrived + 1
    /\ Cardinality(Open) < MaxOpen
    /\ arrived' = r

Goes(r, pc) == req' = [req EXCEPT ![r].pc = pc]
Ended(kind) == Request(kind, NoUser, 0, FALSE, "done")
Ends(r) == req' = [req EXCEPT ![r] = Ended(req[r].kind)]

-----------------------------------------------------------------------------
(* The forms                                                               *)

\* /auth/send-code: a new client with an empty session.
PostPhone(r, tg) ==
    /\ Arrives(r)
    /\ req' = [req EXCEPT ![r] = Request("send", tg, 0, FALSE, "call")]
    /\ clean' = {}
    /\ UNCHANGED <<key, telegram, tables>>

\* /auth/verify-code, with the code of some message Telegram sent or a wrong one.
PostCode(r, tg, code) ==
    /\ Arrives(r)
    /\ code # 0 => req[code].kind = "send" /\ req[code].pc # "call"
    /\ req' = [req EXCEPT ![r] = Request("code", tg, code, FALSE, "load")]
    /\ UNCHANGED <<key, telegram, tables, clean>>

\* /auth/verify-2fa, with the right password or a wrong one.
PostPassword(r, tg, password) ==
    /\ Arrives(r)
    /\ req' = [req EXCEPT ![r] = Request("password", tg, 0, password, "load")]
    /\ UNCHANGED <<key, telegram, tables, clean>>

\* An error of Telegram or of the connection, or one _guard_flood translates:
\* the page shows it, and finally disconnects the client.  In the transaction
\* it is a rollback.
Fail(r) ==
    /\ req[r].pc \in {"load", "call", "save", "lookup", "write", "commit"}
    /\ req' = [req EXCEPT ![r] = Ended("none")]
    /\ clean' = IF req[r].kind = "send" THEN {} ELSE clean
    /\ UNCHANGED <<key, arrived, telegram, tables>>

-----------------------------------------------------------------------------
(* TelegramAuthService and AuthStateStore                                  *)

\* send_code_request answers: a code is on its way.
SendCode(r) ==
    /\ req[r].pc = "call" /\ req[r].kind = "send"
    /\ req' = [req EXCEPT ![r].pc = "save", ![r].st = State(r, r)]
    /\ UNCHANGED <<key, arrived, telegram, tables, clean>>

\* store.save of send_code, and the page that asks for the code.  The code is
\* clean when no other request could still save an older state.
SaveCode(r) ==
    /\ req[r].pc = "save" /\ req[r].kind = "send"
    /\ key' = req[r].st
    /\ Ends(r)
    /\ clean' = IF Open = {r} THEN {r} ELSE {}
    /\ UNCHANGED <<arrived, telegram, tables>>

\* Mutant of Load: the error of a missing key is not caught.
LoadRaises(r) ==
    /\ req[r].pc = "load"
    /\ req' = [req EXCEPT ![r].pc = IF key = NoState THEN "raised" ELSE "call", ![r].st = key]
    /\ UNCHANGED <<key, arrived, telegram, tables, clean>>

\* store.load; without a key it raises and the page asks to start again.
Load(r) ==
    /\ req[r].pc = "load"
    /\ req' = [req EXCEPT ![r] = IF key = NoState THEN Ended("none")
                                 ELSE [@ EXCEPT !.pc = "call", !.st = key]]
    /\ UNCHANGED <<key, arrived, telegram, tables, clean>>

\* Mutant of SignIn: the answer that asks for the password counts as a login.
SignInNoPassword(r) ==
    /\ req[r].pc = "call" /\ req[r].kind = "code"
    /\ req[r].code # 0 /\ req[r].code = req[r].st.hash
    /\ passed' = passed \cup {req[r].st.session}
    /\ loggedIn' = IF twoFA THEN loggedIn ELSE loggedIn \cup {req[r].st.session}
    /\ Goes(r, "lookup")
    /\ UNCHANGED <<key, arrived, twoFA, tables, clean>>

\* client.sign_in with the code that belongs to the loaded hash; any other is
\* refused, which is Fail.  With a password on the account the session is only
\* half way: SessionPasswordNeededError.
SignIn(r) ==
    /\ req[r].pc = "call" /\ req[r].kind = "code"
    /\ req[r].code # 0 /\ req[r].code = req[r].st.hash
    /\ passed' = passed \cup {req[r].st.session}
    /\ loggedIn' = IF twoFA THEN loggedIn ELSE loggedIn \cup {req[r].st.session}
    /\ Goes(r, IF twoFA THEN "save" ELSE "lookup")
    /\ UNCHANGED <<key, arrived, twoFA, tables, clean>>

\* Mutant of SaveHalfway: the state is built anew, without the code's hash.
SaveHalfwayNew(r) ==
    /\ req[r].pc = "save" /\ req[r].kind = "code"
    /\ key' = State(0, req[r].st.session)
    /\ Ends(r)
    /\ UNCHANGED <<arrived, telegram, tables, clean>>

\* store.save of the state loaded before Telegram was asked.
SaveHalfway(r) ==
    /\ req[r].pc = "save" /\ req[r].kind = "code"
    /\ key' = req[r].st
    /\ Ends(r)
    /\ UNCHANGED <<arrived, telegram, tables, clean>>

\* client.sign_in(password=...): Telegram wants the password on an auth key
\* that passed the code step.
SignInPassword(r) ==
    /\ req[r].pc = "call" /\ req[r].kind = "password"
    /\ twoFA /\ req[r].password /\ req[r].st.session \in passed
    /\ loggedIn' = loggedIn \cup {req[r].st.session}
    /\ Goes(r, "lookup")
    /\ UNCHANGED <<key, arrived, twoFA, passed, tables, clean>>

\* The key's fifteen minutes are over.
Expire ==
    /\ key # NoState
    /\ key' = NoState
    /\ clean' = {}
    /\ UNCHANGED <<req, arrived, telegram, tables>>

-----------------------------------------------------------------------------
(* _complete_auth                                                          *)

\* get_or_create reads the user's row.
LookUpUser(r) ==
    /\ req[r].pc = "lookup"
    /\ req' = [req EXCEPT ![r].pc = "write", ![r].fresh = req[r].tg \notin users]
    /\ UNCHANGED <<key, arrived, telegram, tables, clean>>

\* Transactions that hold the user's row: a new one or a new last_active_at.
Holders(tg) == {r \in Requests : req[r].pc = "commit" /\ req[r].tg = tg}

Inserts(r) ==
    /\ req' = [req EXCEPT ![r].pc = "commit", ![r].id = nextId,
                          ![r].fresh = accounts[req[r].tg] = 0]
    /\ nextId' = nextId + 1
    /\ UNCHANGED <<key, arrived, telegram, users, accounts, rows, last, clean>>

\* Mutant of WriteRows: get_or_create leaves last_active_at alone.
WriteRowsUnlocked(r) ==
    /\ req[r].pc = "write"
    /\ ~(req[r].fresh /\ req[r].tg \in users)
    /\ Inserts(r)

\* The flush of the user's row waits for another transaction that holds it;
\* an INSERT that comes second fails on the unique telegram_id, which is Fail.
\* Then the account is looked for and created, the session row inserted, the
\* userbot found or created, and the start command sent.
WriteRows(r) ==
    /\ req[r].pc = "write"
    /\ Holders(req[r].tg) = {}
    /\ ~(req[r].fresh /\ req[r].tg \in users)
    /\ Inserts(r)

\* session.commit() and the page of success.
Commit(r) ==
    LET tg == req[r].tg IN
    /\ req[r].pc = "commit"
    /\ users' = users \cup {tg}
    /\ accounts' = [accounts EXCEPT ![tg] = @ + IF req[r].fresh THEN 1 ELSE 0]
    /\ rows' = rows \cup {[id |-> req[r].id, tg |-> tg, session |-> req[r].st.session]}
    /\ last' = [last EXCEPT ![tg] = req[r].st.session]
    /\ Ends(r)
    /\ UNCHANGED <<key, arrived, telegram, nextId, clean>>

RowsOf(tg) == {row \in rows : row.tg = tg}

\* Mutant of ActiveSession: the oldest row.
ActiveSessionOldest(tg) ==
    (CHOOSE row \in RowsOf(tg) : \A other \in RowsOf(tg) : other.id >= row.id).session

\* get_active_session: the row with the highest id.  Nothing calls
\* revoke_sessions, so every row is active.
ActiveSession(tg) ==
    (CHOOSE row \in RowsOf(tg) : \A other \in RowsOf(tg) : other.id <= row.id).session

-----------------------------------------------------------------------------

Init ==
    /\ key = NoState
    /\ req = [r \in Requests |-> NoRequest]
    /\ arrived = 0
    /\ twoFA \in BOOLEAN
    /\ passed = {} /\ loggedIn = {}
    /\ users \in SUBSET Users
    /\ accounts = [tg \in Users |-> 0]
    /\ rows = {} /\ nextId = 1
    /\ last = [tg \in Users |-> 0]
    /\ clean = {}

Handle(r) ==
    \/ Fail(r) \/ SendCode(r) \/ SaveCode(r) \/ Load(r) \/ SignIn(r) \/ SaveHalfway(r)
    \/ SignInPassword(r) \/ LookUpUser(r) \/ WriteRows(r) \/ Commit(r)

Next ==
    \/ \E r \in Requests, tg \in Users :
          \/ PostPhone(r, tg)
          \/ \E code \in Codes : PostCode(r, tg, code)
          \/ \E password \in BOOLEAN : PostPassword(r, tg, password)
    \/ \E r \in Requests : Handle(r)
    \/ Expire

Spec == Init /\ [][Next]_vars

-----------------------------------------------------------------------------
(* Properties                                                              *)

States == [hash : Codes, session : Codes]
RequestRecords ==
    [pc : {"none", "load", "call", "save", "lookup", "write", "commit", "done"},
     kind : {"none", "send", "code", "password"}, tg : Users \cup {NoUser}, code : Codes,
     password : BOOLEAN, st : States, id : Nat, fresh : BOOLEAN]

TypeOK ==
    /\ key \in States
    /\ req \in [Requests -> RequestRecords]
    /\ arrived \in 0..MaxRequests
    /\ twoFA \in BOOLEAN
    /\ passed \subseteq Codes /\ loggedIn \subseteq Codes
    /\ users \subseteq Users
    /\ accounts \in [Users -> Nat]
    /\ rows \subseteq [id : Nat, tg : Users, session : Codes]
    /\ nextId \in Nat
    /\ last \in [Users -> Codes]
    /\ clean \subseteq Requests

\* A session row that a worker will connect with holds an auth key that Telegram
\* has authorized, whatever mixture of codes, passwords and reloaded states the
\* overlapping requests used to get there.
StoredIsAuthorized == \A row \in rows : row.session # 0 /\ row.session \in loggedIn

\* get_active_session gives the worker the session of the last login that was
\* committed: rows commit in the order of their ids, though logins overlap.
WorkerUsesLastLogin == \A tg \in Users : RowsOf(tg) # {} => ActiveSession(tg) = last[tg]

\* telegram_accounts has no unique (user_id, phone), and _get_or_create_account
\* looks before it inserts: two overlapping logins of a user still leave one row,
\* or scalar_one_or_none would raise at every later login.
OneAccount == \A tg \in Users : accounts[tg] <= 1

\* A code that arrived with no other request under way is the one that the next
\* sign_in_code compares with, and the session its password is checked on, until
\* another code is asked for or the key expires: wrong codes, wrong passwords,
\* failed and repeated attempts in between do not make the right code useless.
CleanCodeIsCurrent == \A r \in clean : key = State(r, r)

-----------------------------------------------------------------------------
(* The inductive invariant behind these properties.                        *)

\* A state belongs to one code, the one send_code saves to its own request, and a
\* request that goes on to the database has logged the session of its state in.
StatesMatch ==
    /\ key.hash = key.session
    /\ 0 \notin passed /\ 0 \notin loggedIn
    /\ \A r \in Requests :
          /\ req[r].st.hash = req[r].st.session
          /\ req[r].kind = "send" => req[r].pc # "load"
          /\ req[r].kind = "send" /\ req[r].pc = "save" => req[r].st = State(r, r)
          /\ req[r].pc \in {"lookup", "write", "commit"} => req[r].st.session \in loggedIn

\* As long as a code is clean, every request that loaded the key loaded its state.
CleanStates ==
    \A r \in clean, q \in Requests :
        req[q].pc \in {"call", "save"} => req[q].kind # "send" /\ req[q].st = State(r, r)

\* The lock on the user's row lets one transaction of a user at a time look for
\* the account and take an id.
OneHolder ==
    \A r, q \in Requests :
        req[r].pc = "commit" /\ req[q].pc = "commit" /\ req[r].tg = req[q].tg => r = q

AccountFound ==
    \A r \in Requests : req[r].pc = "commit" /\ req[r].fresh => accounts[req[r].tg] = 0

\* Requests under way have a user.
HasUser == \A r \in Requests : req[r].pc \notin {"none", "done"} => req[r].tg \in Users

IdsGrow ==
    /\ \A row \in rows : row.id < nextId
    /\ \A r \in Requests : req[r].pc = "commit" =>
          /\ req[r].id < nextId
          /\ \A row \in rows : row.tg = req[r].tg => row.id < req[r].id
    /\ \A tg \in Users : RowsOf(tg) # {} =>
          \E row \in RowsOf(tg) :
              row.session = last[tg] /\ \A other \in RowsOf(tg) : other = row \/ other.id < row.id

IInv ==
    /\ TypeOK /\ StoredIsAuthorized /\ OneAccount /\ CleanCodeIsCurrent
    /\ StatesMatch /\ CleanStates /\ OneHolder /\ AccountFound /\ HasUser /\ IdsGrow
=============================================================================
