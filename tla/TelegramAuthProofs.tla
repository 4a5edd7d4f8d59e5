------------------------- MODULE TelegramAuthProofs -------------------------
(***************************************************************************)
(* TLAPS proofs about TelegramAuth, for any users, any number of requests   *)
(* and any number of them at the same time.                                 *)
(***************************************************************************)
EXTENDS TelegramAuth, TLAPS

USE DEF telegram, tables

\* Nothing is logged in and no request is under way.
LEMMA InitInv == Init => IInv
<1> SUFFICES ASSUME Init PROVE IInv
  OBVIOUS
<1>1. TypeOK
  BY AuthAssumption DEF Init, TypeOK, NoRequest, NoUser, Request, NoState, State, States, RequestRecords, Codes
<1>2. QED
  BY <1>1 DEF Init, IInv, StoredIsAuthorized, OneAccount, CleanCodeIsCurrent, StatesMatch, CleanStates,
      OneHolder, AccountFound, HasUser, IdsGrow, RowsOf, NoRequest, Request, NoState, State

\* A new request for a code disturbs every earlier code.
LEMMA PostPhoneInv ==
    ASSUME IInv, NEW r \in Requests, NEW tg \in Users, PostPhone(r, tg)
    PROVE  IInv'
<1>a. TypeOK
  BY DEF IInv
<1>1. TypeOK'
  <2>1. key' \in States
    BY <1>a, AuthAssumption DEF TypeOK, States, RequestRecords, Codes, Requests, PostPhone, Arrives, Request, State, NoState, NoUser
  <2>2. req' \in [Requests -> RequestRecords]
    BY <1>a, AuthAssumption DEF TypeOK, States, RequestRecords, Codes, Requests, PostPhone, Arrives, Request, State, NoState, NoUser
  <2>3. arrived' \in 0..MaxRequests
    BY AuthAssumption DEF Requests, Arrives, PostPhone
  <2>4. QED
    BY <1>a, <2>1, <2>2, <2>3 DEF TypeOK, PostPhone
<1>2. StoredIsAuthorized' /\ StatesMatch'
  BY <1>a DEF IInv, TypeOK, States, RequestRecords, StoredIsAuthorized, StatesMatch, PostPhone, Arrives, Request, State, NoState, NoUser
<1>3. CleanCodeIsCurrent' /\ CleanStates'
  BY <1>a DEF IInv, TypeOK, States, RequestRecords, CleanCodeIsCurrent, CleanStates, PostPhone, Arrives, Request, State, NoState, NoUser
<1>4. OneHolder' /\ AccountFound' /\ OneAccount' /\ HasUser'
  BY <1>a DEF IInv, TypeOK, States, RequestRecords, OneHolder, AccountFound, OneAccount, HasUser, PostPhone, Arrives, Request, State, NoState, NoUser
<1>5. IdsGrow'
  BY <1>a DEF IInv, TypeOK, States, RequestRecords, IdsGrow, RowsOf, PostPhone, Arrives, Request, State, NoState, NoUser
<1>6. QED
  BY <1>1, <1>2, <1>3, <1>4, <1>5 DEF IInv

\* A form with a code.
LEMMA PostCodeInv ==
    ASSUME IInv, NEW r \in Requests, NEW tg \in Users, NEW code \in Codes, PostCode(r, tg, code)
    PROVE  IInv'
<1>a. TypeOK
  BY DEF IInv
<1>1. TypeOK'
  <2>1. key' \in States
    BY <1>a, AuthAssumption DEF TypeOK, States, RequestRecords, Codes, Requests, PostCode, Arrives, Request, State, NoState, NoUser
  <2>2. req' \in [Requests -> RequestRecords]
    BY <1>a, AuthAssumption DEF TypeOK, States, RequestRecords, Codes, Requests, PostCode, Arrives, Request, State, NoState, NoUser
  <2>3. arrived' \in 0..MaxRequests
    BY AuthAssumption DEF Requests, Arrives, PostCode
  <2>4. QED
    BY <1>a, <2>1, <2>2, <2>3 DEF TypeOK, PostCode
<1>2. StoredIsAuthorized' /\ StatesMatch'
  BY <1>a DEF IInv, TypeOK, States, RequestRecords, StoredIsAuthorized, StatesMatch, PostCode, Arrives, Request, State, NoState, NoUser
<1>3. CleanCodeIsCurrent' /\ CleanStates'
  BY <1>a DEF IInv, TypeOK, States, RequestRecords, CleanCodeIsCurrent, CleanStates, PostCode, Arrives, Request, State, NoState, NoUser
<1>4. OneHolder' /\ AccountFound' /\ OneAccount' /\ HasUser'
  BY <1>a DEF IInv, TypeOK, States, RequestRecords, OneHolder, AccountFound, OneAccount, HasUser, PostCode, Arrives, Request, State, NoState, NoUser
<1>5. IdsGrow'
  BY <1>a DEF IInv, TypeOK, States, RequestRecords, IdsGrow, RowsOf, PostCode, Arrives, Request, State, NoState, NoUser
<1>6. QED
  BY <1>1, <1>2, <1>3, <1>4, <1>5 DEF IInv

\* A form with a password.
LEMMA PostPasswordInv ==
    ASSUME IInv, NEW r \in Requests, NEW tg \in Users, NEW password \in BOOLEAN, PostPassword(r, tg, password)
    PROVE  IInv'
<1>a. TypeOK
  BY DEF IInv
<1>1. TypeOK'
  <2>1. key' \in States
    BY <1>a, AuthAssumption DEF TypeOK, States, RequestRecords, Codes, Requests, PostPassword, Arrives, Request, State, NoState, NoUser
  <2>2. req' \in [Requests -> RequestRecords]
    BY <1>a, AuthAssumption DEF TypeOK, States, RequestRecords, Codes, Requests, PostPassword, Arrives, Request, State, NoState, NoUser
  <2>3. arrived' \in 0..MaxRequests
    BY AuthAssumption DEF Requests, Arrives, PostPassword
  <2>4. QED
    BY <1>a, <2>1, <2>2, <2>3 DEF TypeOK, PostPassword
<1>2. StoredIsAuthorized' /\ StatesMatch'
  BY <1>a DEF IInv, TypeOK, States, RequestRecords, StoredIsAuthorized, StatesMatch, PostPassword, Arrives, Request, State, NoState, NoUser
<1>3. CleanCodeIsCurrent' /\ CleanStates'
  BY <1>a DEF IInv, TypeOK, States, RequestRecords, CleanCodeIsCurrent, CleanStates, PostPassword, Arrives, Request, State, NoState, NoUser
<1>4. OneHolder' /\ AccountFound' /\ OneAccount' /\ HasUser'
  BY <1>a DEF IInv, TypeOK, States, RequestRecords, OneHolder, AccountFound, OneAccount, HasUser, PostPassword, Arrives, Request, State, NoState, NoUser
<1>5. IdsGrow'
  BY <1>a DEF IInv, TypeOK, States, RequestRecords, IdsGrow, RowsOf, PostPassword, Arrives, Request, State, NoState, NoUser
<1>6. QED
  BY <1>1, <1>2, <1>3, <1>4, <1>5 DEF IInv

\* A request that fails.
LEMMA FailInv ==
    ASSUME IInv, NEW r \in Requests, Fail(r)
    PROVE  IInv'
<1>a. TypeOK
  BY DEF IInv
<1>1. TypeOK'
  <2>1. key' \in States
    BY <1>a, AuthAssumption DEF TypeOK, States, RequestRecords, Codes, Requests, Fail, Ended, Request, State, NoState, NoUser
  <2>2. req' \in [Requests -> RequestRecords]
    BY <1>a, AuthAssumption DEF TypeOK, States, RequestRecords, Codes, Requests, Fail, Ended, Request, State, NoState, NoUser
  <2>3. QED
    BY <1>a, <2>1, <2>2 DEF TypeOK, Fail
<1>2. StoredIsAuthorized' /\ StatesMatch'
  BY <1>a DEF IInv, TypeOK, States, RequestRecords, StoredIsAuthorized, StatesMatch, Fail, Ended, Request, State, NoState, NoUser
<1>3. CleanCodeIsCurrent' /\ CleanStates'
  BY <1>a DEF IInv, TypeOK, States, RequestRecords, CleanCodeIsCurrent, CleanStates, Fail, Ended, Request, State, NoState, NoUser
<1>4. OneHolder' /\ AccountFound' /\ OneAccount' /\ HasUser'
  BY <1>a DEF IInv, TypeOK, States, RequestRecords, OneHolder, AccountFound, OneAccount, HasUser, Fail, Ended, Request, State, NoState, NoUser
<1>5. IdsGrow'
  BY <1>a DEF IInv, TypeOK, States, RequestRecords, IdsGrow, RowsOf, Fail, Ended, Request, State, NoState, NoUser
<1>6. QED
  BY <1>1, <1>2, <1>3, <1>4, <1>5 DEF IInv

\* Telegram sends a code.
LEMMA SendCodeInv ==
    ASSUME IInv, NEW r \in Requests, SendCode(r)
    PROVE  IInv'
<1>a. TypeOK
  BY DEF IInv
<1>1. TypeOK'
  <2>1. key' \in States
    BY <1>a, AuthAssumption DEF TypeOK, States, RequestRecords, Codes, Requests, SendCode, Request, State, NoState, NoUser
  <2>2. req' \in [Requests -> RequestRecords]
    <3>1. req[r] \in RequestRecords
      BY <1>a DEF TypeOK
    <3>2. State(r, r) \in States
      BY AuthAssumption DEF State, States, Codes, Requests
    <3>3. QED
      BY <1>a, <3>1, <3>2 DEF TypeOK, RequestRecords, SendCode
  <2>3. QED
    BY <1>a, <2>1, <2>2 DEF TypeOK, SendCode
<1>2. StoredIsAuthorized' /\ StatesMatch'
  BY <1>a DEF IInv, TypeOK, States, RequestRecords, StoredIsAuthorized, StatesMatch, SendCode, Request, State, NoState, NoUser
<1>3. CleanCodeIsCurrent' /\ CleanStates'
  BY <1>a DEF IInv, TypeOK, States, RequestRecords, CleanCodeIsCurrent, CleanStates, SendCode, Request, State, NoState, NoUser
<1>4. OneHolder' /\ AccountFound' /\ OneAccount' /\ HasUser'
  BY <1>a DEF IInv, TypeOK, States, RequestRecords, OneHolder, AccountFound, OneAccount, HasUser, SendCode, Request, State, NoState, NoUser
<1>5. IdsGrow'
  BY <1>a DEF IInv, TypeOK, States, RequestRecords, IdsGrow, RowsOf, SendCode, Request, State, NoState, NoUser
<1>6. QED
  BY <1>1, <1>2, <1>3, <1>4, <1>5 DEF IInv

\* The state of a new code replaces the key.
LEMMA SaveCodeInv ==
    ASSUME IInv, NEW r \in Requests, SaveCode(r)
    PROVE  IInv'
<1>a. TypeOK
  BY DEF IInv
<1>1. TypeOK'
  <2>1. key' \in States
    BY <1>a, AuthAssumption DEF TypeOK, States, RequestRecords, Codes, Requests, SaveCode, Ends, Ended, Open, Request, State, NoState, NoUser
  <2>2. req' \in [Requests -> RequestRecords]
    BY <1>a, AuthAssumption DEF TypeOK, States, RequestRecords, Codes, Requests, SaveCode, Ends, Ended, Open, Request, State, NoState, NoUser
  <2>3. QED
    BY <1>a, <2>1, <2>2 DEF TypeOK, SaveCode
<1>2. StoredIsAuthorized' /\ StatesMatch'
  BY <1>a DEF IInv, TypeOK, States, RequestRecords, StoredIsAuthorized, StatesMatch, SaveCode, Ends, Ended, Open, Request, State, NoState, NoUser
<1>3. CleanCodeIsCurrent' /\ CleanStates'
  <2>1. CASE Open = {r}
    <3>1. key' = State(r, r) /\ clean' = {r}
      BY <2>1 DEF IInv, StatesMatch, SaveCode
    <3>2. \A q \in Requests : req'[q].pc \notin {"call", "save"}
      BY <1>a, <2>1 DEF TypeOK, RequestRecords, SaveCode, Ends, Ended, Open, Request
    <3>3. QED
      BY <3>1, <3>2 DEF CleanCodeIsCurrent, CleanStates, State
  <2>2. CASE Open # {r}
    BY <2>2 DEF SaveCode, CleanCodeIsCurrent, CleanStates
  <2>3. QED
    BY <2>1, <2>2
<1>4. OneHolder' /\ AccountFound' /\ OneAccount' /\ HasUser'
  BY <1>a DEF IInv, TypeOK, States, RequestRecords, OneHolder, AccountFound, OneAccount, HasUser, SaveCode, Ends, Ended, Open, Request, State, NoState, NoUser
<1>5. IdsGrow'
  BY <1>a DEF IInv, TypeOK, States, RequestRecords, IdsGrow, RowsOf, SaveCode, Ends, Ended, Open, Request, State, NoState, NoUser
<1>6. QED
  BY <1>1, <1>2, <1>3, <1>4, <1>5 DEF IInv

\* A request loads the key.
LEMMA LoadInv ==
    ASSUME IInv, NEW r \in Requests, Load(r)
    PROVE  IInv'
<1>a. TypeOK
  BY DEF IInv
<1>1. TypeOK'
  <2>1. key' \in States
    BY <1>a, AuthAssumption DEF TypeOK, States, RequestRecords, Codes, Requests, Load, Ended, Request, State, NoState, NoUser
  <2>2. req' \in [Requests -> RequestRecords]
    <3>1. req[r] \in RequestRecords
      BY <1>a DEF TypeOK
    <3>2. Ended("none") \in RequestRecords
      BY AuthAssumption DEF Ended, Request, RequestRecords, States, NoState, State, Codes, NoUser
    <3>3. QED
      BY <1>a, <3>1, <3>2 DEF TypeOK, RequestRecords, Load
  <2>3. QED
    BY <1>a, <2>1, <2>2 DEF TypeOK, Load
<1>2. StoredIsAuthorized' /\ StatesMatch'
  BY <1>a DEF IInv, TypeOK, States, RequestRecords, StoredIsAuthorized, StatesMatch, Load, Ended, Request, State, NoState, NoUser
<1>3. CleanCodeIsCurrent' /\ CleanStates'
  <2>1. CleanCodeIsCurrent'
    BY DEF IInv, CleanCodeIsCurrent, Load, State
  <2>2. SUFFICES ASSUME NEW c \in clean', NEW q \in Requests, req'[q].pc \in {"call", "save"}
                 PROVE  req'[q].kind # "send" /\ req'[q].st = State(c, c)
    BY <2>1 DEF CleanStates
  <2>3. c \in clean /\ key = State(c, c)
    BY DEF IInv, CleanCodeIsCurrent, Load
  <2>4. CASE q # r
    <3>1. req'[q] = req[q]
      BY <1>a, <2>4 DEF TypeOK, Load
    <3>2. QED
      BY <2>2, <2>3, <3>1 DEF IInv, CleanStates
  <2>5. CASE q = r
    <3>1. req[r] \in RequestRecords /\ req[r].kind # "send"
      BY <1>a DEF TypeOK, IInv, StatesMatch, Load
    <3>2. key # NoState
      BY <1>a, <2>2, <2>5 DEF TypeOK, Load, Ended, Request
    <3>3. req'[r].st = key /\ req'[r].kind = req[r].kind
      BY <1>a, <3>1, <3>2 DEF TypeOK, RequestRecords, Load
    <3>4. QED
      BY <2>3, <2>5, <3>1, <3>3
  <2>6. QED
    BY <2>4, <2>5
<1>4. OneHolder' /\ AccountFound' /\ OneAccount' /\ HasUser'
  BY <1>a DEF IInv, TypeOK, States, RequestRecords, OneHolder, AccountFound, OneAccount, HasUser, Load, Ended, Request, State, NoState, NoUser
<1>5. IdsGrow'
  BY <1>a DEF IInv, TypeOK, States, RequestRecords, IdsGrow, RowsOf, Load, Ended, Request, State, NoState, NoUser
<1>6. QED
  BY <1>1, <1>2, <1>3, <1>4, <1>5 DEF IInv

\* The code is right: the session passes, or is logged in.
LEMMA SignInInv ==
    ASSUME IInv, NEW r \in Requests, SignIn(r)
    PROVE  IInv'
<1>a. TypeOK
  BY DEF IInv
<1>1. TypeOK'
  <2>1. key' \in States
    BY <1>a, AuthAssumption DEF TypeOK, States, RequestRecords, Codes, Requests, SignIn, Goes, Request, State, NoState, NoUser
  <2>2. req' \in [Requests -> RequestRecords]
    <3>1. req[r] \in RequestRecords
      BY <1>a DEF TypeOK
    <3>3. QED
      BY <1>a, <3>1 DEF TypeOK, RequestRecords, SignIn, Goes
  <2>3. passed' \subseteq Codes /\ loggedIn' \subseteq Codes
    BY <1>a DEF TypeOK, States, RequestRecords, SignIn
  <2>4. QED
    BY <1>a, <2>1, <2>2, <2>3 DEF TypeOK, SignIn
<1>2. StoredIsAuthorized' /\ StatesMatch'
  BY <1>a DEF IInv, TypeOK, States, RequestRecords, StoredIsAuthorized, StatesMatch, SignIn, Goes, Request, State, NoState, NoUser
<1>3. CleanCodeIsCurrent' /\ CleanStates'
  BY <1>a DEF IInv, TypeOK, States, RequestRecords, CleanCodeIsCurrent, CleanStates, SignIn, Goes, Request, State, NoState, NoUser
<1>4. OneHolder' /\ AccountFound' /\ OneAccount' /\ HasUser'
  BY <1>a DEF IInv, TypeOK, States, RequestRecords, OneHolder, AccountFound, OneAccount, HasUser, SignIn, Goes, Request, State, NoState, NoUser
<1>5. IdsGrow'
  BY <1>a DEF IInv, TypeOK, States, RequestRecords, IdsGrow, RowsOf, SignIn, Goes, Request, State, NoState, NoUser
<1>6. QED
  BY <1>1, <1>2, <1>3, <1>4, <1>5 DEF IInv

\* The state that was loaded is saved again.
LEMMA SaveHalfwayInv ==
    ASSUME IInv, NEW r \in Requests, SaveHalfway(r)
    PROVE  IInv'
<1>a. TypeOK
  BY DEF IInv
<1>1. TypeOK'
  <2>1. key' \in States
    BY <1>a, AuthAssumption DEF TypeOK, States, RequestRecords, Codes, Requests, SaveHalfway, Ends, Ended, Request, State, NoState, NoUser
  <2>2. req' \in [Requests -> RequestRecords]
    BY <1>a, AuthAssumption DEF TypeOK, States, RequestRecords, Codes, Requests, SaveHalfway, Ends, Ended, Request, State, NoState, NoUser
  <2>3. QED
    BY <1>a, <2>1, <2>2 DEF TypeOK, SaveHalfway
<1>2. StoredIsAuthorized' /\ StatesMatch'
  BY <1>a DEF IInv, TypeOK, States, RequestRecords, StoredIsAuthorized, StatesMatch, SaveHalfway, Ends, Ended, Request, State, NoState, NoUser
<1>3. CleanCodeIsCurrent' /\ CleanStates'
  BY <1>a DEF IInv, TypeOK, States, RequestRecords, CleanCodeIsCurrent, CleanStates, SaveHalfway, Ends, Ended, Request, State, NoState, NoUser
<1>4. OneHolder' /\ AccountFound' /\ OneAccount' /\ HasUser'
  BY <1>a DEF IInv, TypeOK, States, RequestRecords, OneHolder, AccountFound, OneAccount, HasUser, SaveHalfway, Ends, Ended, Request, State, NoState, NoUser
<1>5. IdsGrow'
  BY <1>a DEF IInv, TypeOK, States, RequestRecords, IdsGrow, RowsOf, SaveHalfway, Ends, Ended, Request, State, NoState, NoUser
<1>6. QED
  BY <1>1, <1>2, <1>3, <1>4, <1>5 DEF IInv

\* The password is right.
LEMMA SignInPasswordInv ==
    ASSUME IInv, NEW r \in Requests, SignInPassword(r)
    PROVE  IInv'
<1>a. TypeOK
  BY DEF IInv
<1>1. TypeOK'
  <2>1. key' \in States
    BY <1>a, AuthAssumption DEF TypeOK, States, RequestRecords, Codes, Requests, SignInPassword, Goes, Request, State, NoState, NoUser
  <2>2. req' \in [Requests -> RequestRecords]
    <3>1. req[r] \in RequestRecords
      BY <1>a DEF TypeOK
    <3>3. QED
      BY <1>a, <3>1 DEF TypeOK, RequestRecords, SignInPassword, Goes
  <2>3. loggedIn' \subseteq Codes
    BY <1>a DEF TypeOK, States, RequestRecords, SignInPassword
  <2>4. QED
    BY <1>a, <2>1, <2>2, <2>3 DEF TypeOK, SignInPassword
<1>2. StoredIsAuthorized' /\ StatesMatch'
  BY <1>a DEF IInv, TypeOK, States, RequestRecords, StoredIsAuthorized, StatesMatch, SignInPassword, Goes, Request, State, NoState, NoUser
<1>3. CleanCodeIsCurrent' /\ CleanStates'
  BY <1>a DEF IInv, TypeOK, States, RequestRecords, CleanCodeIsCurrent, CleanStates, SignInPassword, Goes, Request, State, NoState, NoUser
<1>4. OneHolder' /\ AccountFound' /\ OneAccount' /\ HasUser'
  BY <1>a DEF IInv, TypeOK, States, RequestRecords, OneHolder, AccountFound, OneAccount, HasUser, SignInPassword, Goes, Request, State, NoState, NoUser
<1>5. IdsGrow'
  BY <1>a DEF IInv, TypeOK, States, RequestRecords, IdsGrow, RowsOf, SignInPassword, Goes, Request, State, NoState, NoUser
<1>6. QED
  BY <1>1, <1>2, <1>3, <1>4, <1>5 DEF IInv

\* get_or_create reads the user.
LEMMA LookUpUserInv ==
    ASSUME IInv, NEW r \in Requests, LookUpUser(r)
    PROVE  IInv'
<1>a. TypeOK
  BY DEF IInv
<1>1. TypeOK'
  <2>1. key' \in States
    BY <1>a, AuthAssumption DEF TypeOK, States, RequestRecords, Codes, Requests, LookUpUser, Request, State, NoState, NoUser
  <2>2. req' \in [Requests -> RequestRecords]
    <3>1. req[r] \in RequestRecords
      BY <1>a DEF TypeOK
    <3>2. (req[r].tg \notin users) \in BOOLEAN
      OBVIOUS
    <3>3. QED
      BY <1>a, <3>1, <3>2 DEF TypeOK, RequestRecords, LookUpUser
  <2>3. QED
    BY <1>a, <2>1, <2>2 DEF TypeOK, LookUpUser
<1>2. StoredIsAuthorized' /\ StatesMatch'
  BY <1>a DEF IInv, TypeOK, States, RequestRecords, StoredIsAuthorized, StatesMatch, LookUpUser, Request, State, NoState, NoUser
<1>3. CleanCodeIsCurrent' /\ CleanStates'
  BY <1>a DEF IInv, TypeOK, States, RequestRecords, CleanCodeIsCurrent, CleanStates, LookUpUser, Request, State, NoState, NoUser
<1>4. OneHolder' /\ AccountFound' /\ OneAccount' /\ HasUser'
  BY <1>a DEF IInv, TypeOK, States, RequestRecords, OneHolder, AccountFound, OneAccount, HasUser, LookUpUser, Request, State, NoState, NoUser
<1>5. IdsGrow'
  BY <1>a DEF IInv, TypeOK, States, RequestRecords, IdsGrow, RowsOf, LookUpUser, Request, State, NoState, NoUser
<1>6. QED
  BY <1>1, <1>2, <1>3, <1>4, <1>5 DEF IInv

\* The transaction holds the user's row from here on.
LEMMA WriteRowsInv ==
    ASSUME IInv, NEW r \in Requests, WriteRows(r)
    PROVE  IInv'
<1>a. TypeOK
  BY DEF IInv
<1>1. TypeOK'
  <2>1. key' \in States
    BY <1>a, AuthAssumption DEF TypeOK, States, RequestRecords, Codes, Requests, WriteRows, Inserts, Holders, Request, State, NoState, NoUser
  <2>2. req' \in [Requests -> RequestRecords]
    <3>1. req[r] \in RequestRecords
      BY <1>a DEF TypeOK
    <3>2. (accounts[req[r].tg] = 0) \in BOOLEAN
      OBVIOUS
    <3>3. QED
      BY <1>a, <3>1, <3>2 DEF TypeOK, RequestRecords, WriteRows, Inserts
  <2>3. QED
    BY <1>a, <2>1, <2>2 DEF TypeOK, WriteRows, Inserts
<1>2. StoredIsAuthorized' /\ StatesMatch'
  BY <1>a DEF IInv, TypeOK, States, RequestRecords, StoredIsAuthorized, StatesMatch, WriteRows, Inserts, Holders, Request, State, NoState, NoUser
<1>3. CleanCodeIsCurrent' /\ CleanStates'
  BY <1>a DEF IInv, TypeOK, States, RequestRecords, CleanCodeIsCurrent, CleanStates, WriteRows, Inserts, Holders, Request, State, NoState, NoUser
<1>4. OneHolder' /\ AccountFound' /\ OneAccount' /\ HasUser'
  BY <1>a DEF IInv, TypeOK, States, RequestRecords, OneHolder, AccountFound, OneAccount, HasUser, WriteRows, Inserts, Holders, Request, State, NoState, NoUser
<1>5. IdsGrow'
  BY <1>a DEF IInv, TypeOK, States, RequestRecords, IdsGrow, RowsOf, WriteRows, Inserts, Holders, Request, State, NoState, NoUser
<1>6. QED
  BY <1>1, <1>2, <1>3, <1>4, <1>5 DEF IInv

\* The rows are committed and the lock is given back.
LEMMA CommitInv ==
    ASSUME IInv, NEW r \in Requests, Commit(r)
    PROVE  IInv'
<1>a. TypeOK
  BY DEF IInv
<1>1. TypeOK'
  <2>1. key' \in States
    BY <1>a, AuthAssumption DEF TypeOK, States, RequestRecords, Codes, Requests, Commit, Ends, Ended, Request, State, NoState, NoUser
  <2>2. req' \in [Requests -> RequestRecords]
    BY <1>a, AuthAssumption DEF TypeOK, States, RequestRecords, Codes, Requests, Commit, Ends, Ended, Request, State, NoState, NoUser
  <2>3. req[r].tg \in Users /\ req[r].st.session \in Codes /\ req[r].id \in Nat
    BY <1>a DEF IInv, HasUser, TypeOK, States, RequestRecords, Commit
  <2>4. users' \subseteq Users /\ last' \in [Users -> Codes]
    BY <1>a, <2>3 DEF TypeOK, Commit
  <2>5. accounts' \in [Users -> Nat]
    BY <1>a, <2>3 DEF TypeOK, Commit
  <2>6. rows' \subseteq [id : Nat, tg : Users, session : Codes]
    BY <1>a, <2>3 DEF TypeOK, Commit
  <2>7. QED
    BY <1>a, <2>1, <2>2, <2>4, <2>5, <2>6 DEF TypeOK, Commit
<1>2. StoredIsAuthorized' /\ StatesMatch'
  <2>1. StoredIsAuthorized'
    BY <1>a DEF IInv, TypeOK, States, RequestRecords, StoredIsAuthorized, StatesMatch, Commit
  <2>2. \A q \in Requests : req'[q] = req[q] \/ req'[q] = Ended(req[r].kind)
    BY <1>a DEF TypeOK, Commit, Ends
  <2>3. StatesMatch'
    BY <2>2 DEF IInv, StatesMatch, Commit, Ended, Request, State, NoState
  <2>4. QED
    BY <2>1, <2>3
<1>3. CleanCodeIsCurrent' /\ CleanStates'
  BY <1>a DEF IInv, TypeOK, States, RequestRecords, CleanCodeIsCurrent, CleanStates, Commit, Ends, Ended, Request, State, NoState, NoUser
<1>4. OneHolder' /\ AccountFound' /\ OneAccount' /\ HasUser'
  BY <1>a DEF IInv, TypeOK, States, RequestRecords, OneHolder, AccountFound, OneAccount, HasUser, Commit, Ends, Ended, Request, State, NoState, NoUser
<1>5. IdsGrow'
  <2> DEFINE new == [id |-> req[r].id, tg |-> req[r].tg, session |-> req[r].st.session]
  <2>1. /\ req[r].tg \in Users /\ req[r].id \in Nat /\ req[r].id < nextId
        /\ \A row \in rows : row.tg = req[r].tg => row.id < req[r].id
    BY <1>a DEF IInv, HasUser, IdsGrow, TypeOK, RequestRecords, Commit
  <2>2. rows' = rows \cup {new} /\ nextId' = nextId
    BY DEF Commit
  <2>3. \A q \in Requests : req'[q].pc = "commit" => req'[q] = req[q] /\ q # r
    BY <1>a DEF TypeOK, Commit, Ends, Ended, Request
  <2>4. \A q \in Requests : req'[q].pc = "commit" => req[q].tg # req[r].tg
    BY <2>3 DEF IInv, OneHolder, Commit
  <2>5. \A row \in rows' : row.id < nextId'
    BY <2>1, <2>2 DEF IInv, IdsGrow
  <2>6. ASSUME NEW q \in Requests, req'[q].pc = "commit"
        PROVE  /\ req'[q].id < nextId'
               /\ \A row \in rows' : row.tg = req'[q].tg => row.id < req'[q].id
    BY <2>2, <2>3, <2>4, <2>6 DEF IInv, IdsGrow
  <2>7. ASSUME NEW tg \in Users, RowsOf(tg)' # {}
        PROVE  \E row \in RowsOf(tg)' :
                   row.session = last'[tg] /\ \A other \in RowsOf(tg)' : other = row \/ other.id < row.id
    <3>1. CASE tg = req[r].tg
      <4>1. new \in RowsOf(tg)' /\ new.session = last'[tg]
        BY <1>a, <2>1, <2>2, <3>1 DEF RowsOf, TypeOK, Commit
      <4>2. \A other \in RowsOf(tg)' : other = new \/ other.id < new.id
        BY <2>1, <2>2, <3>1 DEF RowsOf
      <4>3. QED
        BY <4>1, <4>2
    <3>2. CASE tg # req[r].tg
      <4>1. RowsOf(tg)' = RowsOf(tg)
        BY <2>2, <3>2 DEF RowsOf
      <4>2. last'[tg] = last[tg]
        BY <1>a, <3>2 DEF TypeOK, Commit
      <4>3. QED
        BY <2>7, <4>1, <4>2 DEF IInv, IdsGrow
    <3>3. QED
      BY <3>1, <3>2
  <2>8. QED
    BY <2>5, <2>6, <2>7 DEF IdsGrow
<1>6. QED
  BY <1>1, <1>2, <1>3, <1>4, <1>5 DEF IInv

\* The key expires.
LEMMA ExpireInv ==
    ASSUME IInv, Expire
    PROVE  IInv'
<1>a. TypeOK
  BY DEF IInv
<1>1. TypeOK'
  <2>1. key' \in States
    BY <1>a, AuthAssumption DEF TypeOK, States, RequestRecords, Codes, Requests, Expire, Request, State, NoState, NoUser
  <2>2. req' \in [Requests -> RequestRecords]
    BY <1>a, AuthAssumption DEF TypeOK, States, RequestRecords, Codes, Requests, Expire, Request, State, NoState, NoUser
  <2>3. QED
    BY <1>a, <2>1, <2>2 DEF TypeOK, Expire
<1>2. StoredIsAuthorized' /\ StatesMatch'
  BY <1>a DEF IInv, TypeOK, States, RequestRecords, StoredIsAuthorized, StatesMatch, Expire, Request, State, NoState, NoUser
<1>3. CleanCodeIsCurrent' /\ CleanStates'
  BY <1>a DEF IInv, TypeOK, States, RequestRecords, CleanCodeIsCurrent, CleanStates, Expire, Request, State, NoState, NoUser
<1>4. OneHolder' /\ AccountFound' /\ OneAccount' /\ HasUser'
  BY <1>a DEF IInv, TypeOK, States, RequestRecords, OneHolder, AccountFound, OneAccount, HasUser, Expire, Request, State, NoState, NoUser
<1>5. IdsGrow'
  BY <1>a DEF IInv, TypeOK, States, RequestRecords, IdsGrow, RowsOf, Expire, Request, State, NoState, NoUser
<1>6. QED
  BY <1>1, <1>2, <1>3, <1>4, <1>5 DEF IInv

\* IInv is inductive: every step of the forms, of the service, of Redis and of
\* the transaction keeps it.
THEOREM Inductive == Spec => []IInv
<1>1. Init => IInv
  BY InitInv
<1>2. IInv /\ [Next]_vars => IInv'
  <2> SUFFICES ASSUME IInv, [Next]_vars PROVE IInv'
    OBVIOUS
  <2>1. CASE \E r \in Requests, tg \in Users :
                \/ PostPhone(r, tg)
                \/ \E code \in Codes : PostCode(r, tg, code)
                \/ \E password \in BOOLEAN : PostPassword(r, tg, password)
    BY <2>1, PostPhoneInv, PostCodeInv, PostPasswordInv
  <2>2. CASE \E r \in Requests : Handle(r)
    BY <2>2, FailInv, SendCodeInv, SaveCodeInv, LoadInv, SignInInv, SaveHalfwayInv,
       SignInPasswordInv, LookUpUserInv, WriteRowsInv, CommitInv DEF Handle
  <2>3. CASE Expire
    BY <2>3, ExpireInv
  <2>4. CASE UNCHANGED vars
    BY <2>4 DEF vars, IInv, TypeOK, StoredIsAuthorized, OneAccount, CleanCodeIsCurrent, StatesMatch,
        CleanStates, OneHolder, AccountFound, HasUser, IdsGrow, RowsOf
  <2>5. QED
    BY <2>1, <2>2, <2>3, <2>4 DEF Next
<1>3. QED
  BY <1>1, <1>2, PTL DEF Spec

\* The key, the requests and the tables keep their types: no request ends in a
\* state that the pages do not answer.
THEOREM TypeCorrect == Spec => []TypeOK
<1>1. IInv => TypeOK
  BY DEF IInv
<1>2. QED
  BY <1>1, Inductive, PTL

\* Every session row holds an authorized auth key, for any number of overlapping
\* requests of any users.
THEOREM StoredCorrect == Spec => []StoredIsAuthorized
<1>1. IInv => StoredIsAuthorized
  BY DEF IInv
<1>2. QED
  BY <1>1, Inductive, PTL

\* Overlapping logins leave one account of a user: the row of users that
\* get_or_create writes serializes them.
THEOREM AccountCorrect == Spec => []OneAccount
<1>1. IInv => OneAccount
  BY DEF IInv
<1>2. QED
  BY <1>1, Inductive, PTL

\* An undisturbed code stays the one that the key belongs to.
THEOREM CleanCorrect == Spec => []CleanCodeIsCurrent
<1>1. IInv => CleanCodeIsCurrent
  BY DEF IInv
<1>2. QED
  BY <1>1, Inductive, PTL

\* A worker connects with the session of the login committed last: ids are taken
\* under the lock on the user's row, so the highest id is the last commit.
THEOREM LastLoginCorrect == Spec => []WorkerUsesLastLogin
<1>1. IInv => WorkerUsesLastLogin
  <2> SUFFICES ASSUME IInv, NEW tg \in Users, RowsOf(tg) # {}
               PROVE  ActiveSession(tg) = last[tg]
    BY DEF WorkerUsesLastLogin
  <2>1. PICK row \in RowsOf(tg) :
            row.session = last[tg] /\ \A other \in RowsOf(tg) : other = row \/ other.id < row.id
    BY DEF IInv, IdsGrow
  <2>2. \A other \in RowsOf(tg) : other.id \in Nat
    BY DEF IInv, TypeOK, RowsOf
  <2> DEFINE Highest(x) == \A other \in RowsOf(tg) : other.id <= x.id
  <2>3. Highest(row)
    BY <2>1, <2>2
  <2>4. \A x \in RowsOf(tg) : Highest(x) => x = row
    BY <2>1, <2>2
  <2> HIDE DEF Highest
  <2>5. (CHOOSE x \in RowsOf(tg) : Highest(x)) = row
    BY <2>3, <2>4
  <2>6. QED
    BY <2>1, <2>5 DEF ActiveSession, Highest
<1>2. QED
  BY <1>1, Inductive, PTL
=============================================================================
