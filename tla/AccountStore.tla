------------------------------- MODULE AccountStore -------------------------------
(***************************************************************************)
(* What services auth and feedback keep: accounts (auth/store.go),         *)
(* settings (auth/settings.go) and feedback (feedback/store.go), on files  *)
(* or on PostgreSQL. The accounts and settings of PostgreSQL are rows; its *)
(* feedback is rewritten as a whole from memory by every change.           *)
(*                                                                         *)
(* An account is its id and its Google identity, settings are the active   *)
(* ticker and one other preference, an item of feedback is its status.     *)
(* Passwords, sessions and the import of old files are left out.           *)
(***************************************************************************)
EXTENDS Naturals, FiniteSets

CONSTANTS
    Emails, GoogleSubs,
    AccountValues, FirstValue,  \* what a ticker or a preference may be, and its default
    Feedbacks, FeedbackStates,  \* ids of feedback, and their states; "new" is the first
    Clients,                    \* requests in flight that have read something
    MaxAccountWrites, MaxAccountFaults, MaxAccountStarts    \* bounds

ASSUME AccountAssumption ==
    /\ FirstValue \in AccountValues /\ "none" \notin AccountValues
    /\ "new" \in FeedbackStates

VARIABLES
    accountRows,    \* on PostgreSQL
    accounts,       \* durable: email -> account
    settings,       \* durable: the user's settings, or NoSettings
    settingsMem,    \* memory, files: byID
    feedback,       \* durable: item -> status
    feedbackMem,    \* memory: items
    reqs,       \* what each client's request has read
    accountWrites, accountFaults, accountStarts,    \* bounds
    toldAccounts, toldSettings, toldFeedback,   \* history: what each may be, going by the answers
    tickers,        \* history: the tickers the user may be on, going by what was asked
    misread         \* history: a file could not be read at a start

accountVars == <<accountRows, accounts, settings, settingsMem, feedback, feedbackMem, reqs,
                 accountWrites, accountFaults, accountStarts, toldAccounts, toldSettings,
                 toldFeedback, tickers, misread>>
NoAccount == [id |-> 0, sub |-> "none"]
NoSettings == [ticker |-> "none", other |-> "none"]
DefaultSettings == [ticker |-> FirstValue, other |-> FirstValue]
NoItem == "none"
AtRest == [step |-> "idle", on |-> "none", seen |-> "none"]

AccountInit ==
    /\ accountRows \in BOOLEAN
    /\ accounts = [e \in Emails |-> NoAccount]
    /\ settings = NoSettings /\ settingsMem = NoSettings
    /\ feedback = [i \in Feedbacks |-> NoItem] /\ feedbackMem = feedback
    /\ reqs = [c \in Clients |-> AtRest]
    /\ accountWrites = 0 /\ accountFaults = 0 /\ accountStarts = 0
    /\ toldAccounts = [e \in Emails |-> {NoAccount}]
    /\ toldSettings = {NoSettings} /\ toldFeedback = [i \in Feedbacks |-> {NoItem}]
    /\ tickers = {FirstValue} /\ misread = FALSE

\* How a write ends. A file that was not renamed was not written; a commit may lose its answer.
EndsOfWrite == {"done"} \cup IF accountFaults = MaxAccountFaults THEN {}
                      ELSE {"refused"} \cup IF accountRows THEN {"lost"} ELSE {}
Writes(end) ==
    /\ accountWrites < MaxAccountWrites /\ end \in EndsOfWrite
    /\ accountWrites' = accountWrites + 1
    /\ accountFaults' = accountFaults + IF end = "done" THEN 0 ELSE 1
After(end, old, new) == IF end = "refused" THEN old ELSE new
ToldOf(end, told, new) == IF end = "done" THEN {new} ELSE IF end = "lost" THEN told \cup {new} ELSE told

-----------------------------------------------------------------------------
\* Accounts: the lock or the unique index lets one in per email.
SetAccount(e, account, end) ==
    /\ Writes(end)
    /\ accounts' = [accounts EXCEPT ![e] = After(end, @, account)]
    /\ toldAccounts' = [toldAccounts EXCEPT ![e] = ToldOf(end, @, account)]
    /\ UNCHANGED <<accountRows, settings, settingsMem, feedback, feedbackMem, reqs, accountStarts,
                   toldSettings, toldFeedback, tickers, misread>>

CreateUser(e, end) ==
    /\ accounts[e] = NoAccount
    /\ SetAccount(e, [id |-> accountWrites + 1, sub |-> "none"], end)

\* An identity is linked to the account of its email, or makes one; a link that is there stays.
FindOrLinkGoogleUser(e, sub, end) ==
    LET old == accounts[e] IN
    SetAccount(e, IF old = NoAccount THEN [id |-> accountWrites + 1, sub |-> sub]
                  ELSE IF old.sub = "none" THEN [old EXCEPT !.sub = sub] ELSE old, end)

-----------------------------------------------------------------------------
\* Settings.
ReadSettings ==
    LET value == IF accountRows THEN settings ELSE settingsMem IN
    IF value = NoSettings THEN DefaultSettings ELSE value

\* Mutant: a client without a ticker resets it.
TickerOrDefault(in, current) == IF in = "none" THEN FirstValue ELSE in

\* "A stale/rolling frontend does not know activeTicker yet. Preserve the user's current company."
TickerOf(in, current) == IF in = "none" THEN current ELSE in

\* PutSettings reads before it takes the lock, when it has to.
ReadForPut(c) ==
    /\ reqs[c].step = "idle"
    /\ reqs' = [reqs EXCEPT ![c] = [step |-> "put", on |-> "none", seen |-> ReadSettings.ticker]]
    /\ UNCHANGED <<accountRows, accounts, settings, settingsMem, feedback, feedbackMem, accountWrites,
                   accountFaults, accountStarts, toldAccounts, toldSettings, toldFeedback, tickers, misread>>

StoreSettings(in, current, other, end) ==
    LET new == [ticker |-> TickerOf(in, current), other |-> other] IN
    /\ Writes(end)
    /\ settings' = After(end, settings, new)
    /\ settingsMem' = IF accountRows THEN settingsMem ELSE After(end, settingsMem, new)
    /\ toldSettings' = ToldOf(end, toldSettings, new)
    /\ tickers' = CASE in # "none" -> ToldOf(end, tickers, in)
                    [] in = "none" /\ current \in tickers -> tickers
                    [] OTHER -> ToldOf(end, tickers, current)     \* a PUT that crossed another
    /\ UNCHANGED <<accountRows, accounts, feedback, feedbackMem, accountStarts, toldAccounts,
                   toldFeedback, misread>>

PutSettings(ticker, other, end) ==
    StoreSettings(ticker, ticker, other, end) /\ UNCHANGED reqs
PutWithoutTicker(c, other, end) ==
    /\ reqs[c].step = "put"
    /\ StoreSettings("none", reqs[c].seen, other, end)
    /\ reqs' = [reqs EXCEPT ![c] = AtRest]

-----------------------------------------------------------------------------
\* Feedback: memory is put back after an error, whatever the database has.
StoreFeedback(i, status, end) ==
    LET new == [feedbackMem EXCEPT ![i] = status] IN
    /\ Writes(end)
    /\ feedback' = After(end, feedback, new)
    /\ feedbackMem' = IF end = "done" THEN new ELSE feedbackMem
    /\ toldFeedback' = [toldFeedback EXCEPT ![i] = ToldOf(end, @, status)]
    /\ UNCHANGED <<accountRows, accounts, settings, settingsMem, accountStarts, toldAccounts,
                   toldSettings, tickers, misread>>

AddFeedback(i, end) ==
    /\ toldFeedback[i] = {NoItem} /\ feedback[i] = NoItem
    /\ StoreFeedback(i, "new", end) /\ UNCHANGED reqs

DeleteFeedback(i, end) ==
    /\ feedbackMem[i] # NoItem
    /\ StoreFeedback(i, NoItem, end) /\ UNCHANGED reqs

\* handleUpdate: Get, then ReplaceE of the whole item with or without a new status.
GetFeedback(c, i) ==
    /\ reqs[c].step = "idle" /\ feedbackMem[i] # NoItem
    /\ reqs' = [reqs EXCEPT ![c] = [step |-> "patch", on |-> i, seen |-> feedbackMem[i]]]
    /\ UNCHANGED <<accountRows, accounts, settings, settingsMem, feedback, feedbackMem, accountWrites,
                   accountFaults, accountStarts, toldAccounts, toldSettings, toldFeedback, tickers, misread>>

ReplaceFeedback(c, status, end) ==
    LET i == reqs[c].on IN
    /\ reqs[c].step = "patch" /\ feedbackMem[i] # NoItem
    /\ StoreFeedback(i, IF status = "none" THEN reqs[c].seen ELSE status, end)
    /\ reqs' = [reqs EXCEPT ![c] = AtRest]

-----------------------------------------------------------------------------
\* The services start again. The accounts' file has to be readable, and so does the database; a
\* file of settings or feedback that cannot be read counts as none.
StartServices(unread) ==
    /\ accountStarts < MaxAccountStarts /\ accountStarts' = accountStarts + 1
    /\ unread => ~accountRows /\ accountFaults < MaxAccountFaults
    /\ accountFaults' = accountFaults + IF unread THEN 1 ELSE 0
    /\ settingsMem' = IF accountRows \/ unread THEN NoSettings ELSE settings
    /\ feedbackMem' = IF unread THEN [i \in Feedbacks |-> NoItem] ELSE feedback
    /\ reqs' = [c \in Clients |-> AtRest]
    /\ misread' = (misread \/ unread)
    /\ UNCHANGED <<accountRows, accounts, settings, feedback, accountWrites, toldAccounts,
                   toldSettings, toldFeedback, tickers>>

AccountNext ==
    \/ \E unread \in BOOLEAN : StartServices(unread)
    \/ \E c \in Clients : ReadForPut(c) \/ \E i \in Feedbacks : GetFeedback(c, i)
    \/ \E end \in EndsOfWrite :
         \/ \E e \in Emails : CreateUser(e, end) \/ \E sub \in GoogleSubs : FindOrLinkGoogleUser(e, sub, end)
         \/ \E ticker, other \in AccountValues : PutSettings(ticker, other, end)
         \/ \E c \in Clients, other \in AccountValues : PutWithoutTicker(c, other, end)
         \/ \E c \in Clients, status \in FeedbackStates \cup {"none"} : ReplaceFeedback(c, status, end)
         \/ \E i \in Feedbacks : AddFeedback(i, end) \/ DeleteFeedback(i, end)

AccountSpec == AccountInit /\ [][AccountNext]_accountVars

-----------------------------------------------------------------------------
\* What the user was told of the account, the settings and the feedback is what there is, through
\* requests that cross, writes that fail or lose their answer and starts that import nothing anew:
\* an identity once linked stays, an item that was deleted does not come back with the table that
\* memory writes, and the active company is the one last asked for, also when a client saves that
\* does not know of it. A file that could not be read at a start is overwritten (settings.go load,
\* feedback/store.go load), so from then on only the accounts are safe.
AccountsStand ==
    /\ \A e \in Emails : accounts[e] \in toldAccounts[e]
    /\ ~misread =>
         /\ settings \in toldSettings
         /\ ReadSettings.ticker \in tickers
         /\ \A i \in Feedbacks : {feedback[i], feedbackMem[i]} \subseteq toldFeedback[i]
=============================================================================
