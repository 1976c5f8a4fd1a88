------------------------------ MODULE Sessions ------------------------------
(***************************************************************************)
(* Registration, login, refresh and logout: AuthService over the tables    *)
(* users and sessions.                                                     *)
(*                                                                         *)
(* No handler uses a transaction: each statement commits by itself, and an *)
(* action runs from one statement's answer to the next one's.  A refresh   *)
(* token is a JWT of the user and the second it was signed in, with no     *)
(* nonce, so two tokens of one user and one second are the same string;    *)
(* sessions stores its hash, unique among the active rows.                 *)
(***************************************************************************)
EXTENDS Integers

CONSTANTS
    Registers, Logins, Refreshes, Logouts,  \* requests
    Traffic,        \* the sets of requests of which one is sent
    Accounts,       \* the rows of users at the start
    Seeded,         \* those that db:seed:down deletes
    Addresses,
    AddressOf,      \* [Registers \cup Logins \cup Accounts -> Addresses]
    Life,           \* JWT_REFRESH_EXPIRY, in ticks of the clock
    MaxTime,        \* bound on the clock
    MaxFaults,      \* bound on the faults
    Nobody, NoToken

Requests == Registers \cup Logins \cup Refreshes \cup Logouts

\* A row of users is named by the request that inserts it.
Users == Registers \cup Accounts

\* buildAuthResponse signs { sub, type: 'refresh' } with iat in whole seconds.
Token == [user : Users, iat : 0 .. MaxTime]

InitTokens == [user : Accounts, iat : {0}]

Answers == {"none", "OK", "Taken", "Unauthorized", "Error", "Lost"}

PcValues == {"Idle", "FindEmail", "InsertUser", "Sign", "InsertSession", "FindSession",
             "FindUser", "Deactivate", "Cleanup", "Done"}

ASSUME RequestAssumption ==
    /\ Registers \cap (Logins \cup Refreshes \cup Logouts \cup Accounts) = {}
    /\ Logins \cap (Refreshes \cup Logouts) = {} /\ Refreshes \cap Logouts = {}
    /\ Traffic \subseteq SUBSET Requests /\ Seeded \subseteq Accounts
    /\ AddressOf \in [Registers \cup Logins \cup Accounts -> Addresses]
    /\ \A u, v \in Accounts : AddressOf[u] = AddressOf[v] => u = v
    /\ Nobody \notin Users /\ NoToken \notin Token
ASSUME BoundAssumption == Life \in Nat \ {0} /\ MaxTime \in Nat /\ MaxFaults \in Nat

VARIABLES
    now,              \* the clock, which PostgreSQL and the servers share
    users,            \* the rows of users
    active, retired,  \* the tokens of the rows of sessions, by status
    issued,           \* the tokens that clients have been given
    pc, who,          \* where a request is, and the user it works for
    presented, fresh, \* the token it came with, and the one it has signed
    reply, faults

rows  == <<users, active, retired>>
local == <<who, presented, fresh>>
vars  == <<now, users, active, retired, issued, pc, who, presented, fresh, reply, faults>>

-----------------------------------------------------------------------------
(* The statements of UserRepository and SessionRepository. *)

AccountAt(address) == {u \in users : AddressOf[u] = address}

AlwaysFree(address) == TRUE
AddressFree(address) == AccountAt(address) = {}

\* INSERT INTO sessions: the user must exist, and no active row may have the token.
OnlyUnique(t) == t \notin active
OneSessionEach(t) == t.user \in users /\ \A s \in active : s.user # t.user
Insertable(t) == t \notin active /\ t.user \in users

CreateSession(t) == active' = active \cup {t} /\ UNCHANGED <<users, retired>>

DeactivateUser(t) ==
    LET mine == {s \in active : s.user = t.user} IN
    /\ active' = active \ mine
    /\ retired' = retired \cup mine
    /\ UNCHANGED users
DeleteByTokenHash(t) ==
    /\ active' = active \ {t}
    /\ retired' = retired \cup (active \cap {t})
    /\ UNCHANGED users

\* status = 'active' AND expires_at > NOW(): expires_at has a fraction that NOW()
\* may or may not have passed in the second of the expiry.
FoundAnyStatus(t) == IF t \in active \cup retired /\ now <= t.iat + Life
                     THEN {TRUE} ELSE {FALSE}
Found(t) == IF t \notin active \/ now > t.iat + Life THEN {FALSE}
            ELSE IF now = t.iat + Life THEN {TRUE, FALSE} ELSE {TRUE}

\* jwt.verify refuses from the second of the expiry on.
Verified(t) == now < t.iat + Life

-----------------------------------------------------------------------------
(* The handlers of AuthController and AuthService. *)

Goto(r, label) == pc' = [pc EXCEPT ![r] = label]

Answer(r, a) == Goto(r, "Done") /\ reply' = [reply EXCEPT ![r] = a]

First(r) == IF r \in Registers \cup Logins THEN "FindEmail"
            ELSE IF r \in Refreshes THEN "FindSession" ELSE "Deactivate"

\* Refresh and logout take the token from the body: any one that was handed out.
Start(r) ==
    /\ pc[r] = "Idle"
    /\ IF r \in Refreshes \cup Logouts
       THEN \E t \in issued : presented' = [presented EXCEPT ![r] = t]
       ELSE UNCHANGED presented
    /\ Goto(r, First(r))
    /\ UNCHANGED <<now, rows, issued, who, fresh, reply, faults>>

\* For a login, bcrypt.compare follows; it touches nothing others see.
FindEmail(r) ==
    /\ pc[r] = "FindEmail"
    /\ \/ /\ r \in Registers
          /\ IF AccountAt(AddressOf[r]) = {} THEN Goto(r, "InsertUser") /\ UNCHANGED reply
                                             ELSE Answer(r, "Taken")
          /\ UNCHANGED who
       \/ /\ r \in Logins /\ Answer(r, "Unauthorized") /\ UNCHANGED who
       \/ \E u \in AccountAt(AddressOf[r]) :
            /\ r \in Logins
            /\ who' = [who EXCEPT ![r] = u]
            /\ Goto(r, "Sign") /\ UNCHANGED reply
    /\ UNCHANGED <<now, rows, issued, presented, fresh, faults>>

\* UserRepository.create: users.email is UNIQUE.
AddUser(r) == users' = users \cup {r} /\ UNCHANGED <<active, retired>>
InsertUser(r) ==
    /\ pc[r] = "InsertUser"
    /\ IF AddressFree(AddressOf[r])
       THEN /\ AddUser(r)
            /\ who' = [who EXCEPT ![r] = r]
            /\ Goto(r, "Sign") /\ UNCHANGED reply
       ELSE Answer(r, "Error") /\ UNCHANGED <<rows, who>>
    /\ UNCHANGED <<now, issued, presented, fresh, faults>>

\* buildAuthResponse.
SignMillis(u) == [user |-> u, iat |-> now * 1000]
SignToken(u) == [user |-> u, iat |-> now]

Sign(r) ==
    /\ pc[r] = "Sign"
    /\ fresh' = [fresh EXCEPT ![r] = SignToken(who[r])]
    /\ Goto(r, "InsertSession")
    /\ UNCHANGED <<now, rows, issued, who, presented, reply, faults>>

\* An error inside the try of refresh ends in its catch, any other in a 500.
InTry == {"FindUser", "Deactivate", "InsertSession"}
InsertAgain(r) == Goto(r, pc[r]) /\ UNCHANGED reply
Fail(r) == IF r \in Refreshes /\ pc[r] \in InTry
           THEN Goto(r, "Cleanup") /\ UNCHANGED reply
           ELSE Answer(r, "Error")

InsertSession(r) ==
    /\ pc[r] = "InsertSession"
    /\ IF Insertable(fresh[r])
       THEN CreateSession(fresh[r]) /\ Answer(r, "OK") /\ issued' = issued \cup {fresh[r]}
       ELSE Fail(r) /\ UNCHANGED <<rows, issued>>
    /\ UNCHANGED <<now, local, faults>>

\* findByTokenHash, and jwt.verify when it answers.
FindSession(r) ==
    /\ pc[r] = "FindSession"
    /\ \E found \in Found(presented[r]) :
          IF found
          THEN /\ Goto(r, IF Verified(presented[r]) THEN "FindUser" ELSE "Cleanup")
               /\ who' = [who EXCEPT ![r] = presented[r].user]
               /\ UNCHANGED reply
          ELSE Answer(r, "Unauthorized") /\ UNCHANGED who
    /\ UNCHANGED <<now, rows, issued, presented, fresh, faults>>

FindUser(r) ==
    /\ pc[r] = "FindUser"
    /\ Goto(r, IF who[r] \in users THEN "Deactivate" ELSE "Cleanup")
    /\ UNCHANGED <<now, rows, issued, local, reply, faults>>

Deactivate(r) ==
    /\ pc[r] = "Deactivate"
    /\ DeleteByTokenHash(presented[r])
    /\ IF r \in Refreshes THEN Goto(r, "Sign") /\ UNCHANGED reply ELSE Answer(r, "OK")
    /\ UNCHANGED <<now, issued, local, faults>>

\* The catch of refresh, whatever was thrown.
Cleanup(r) ==
    /\ pc[r] = "Cleanup"
    /\ DeleteByTokenHash(presented[r])
    /\ Answer(r, "Unauthorized")
    /\ UNCHANGED <<now, issued, local, faults>>

-----------------------------------------------------------------------------
(* The environment. *)

Fault == faults < MaxFaults /\ faults' = faults + 1

\* A statement fails; the server may have carried it out.
StatementFault(r) ==
    /\ pc[r] \notin {"Idle", "Sign", "Done"}
    /\ Fault
    /\ Fail(r)
    /\ \/ UNCHANGED rows
       \/ pc[r] = "InsertUser" /\ AddressFree(AddressOf[r]) /\ AddUser(r)
       \/ pc[r] = "InsertSession" /\ Insertable(fresh[r]) /\ CreateSession(fresh[r])
       \/ pc[r] \in {"Deactivate", "Cleanup"} /\ DeleteByTokenHash(presented[r])
    /\ UNCHANGED <<now, issued, local>>

\* The process that serves r dies.
Crash(r) ==
    /\ pc[r] \notin {"Idle", "Done"}
    /\ Fault
    /\ Answer(r, "Lost")
    /\ UNCHANGED <<now, rows, issued, local>>

\* npm run db:seed:down: one transaction over the sessions and the users.
SeedDown ==
    /\ users \cap Seeded # {}
    /\ users' = users \ Seeded
    /\ active' = {t \in active : t.user \notin Seeded}
    /\ retired' = {t \in retired : t.user \notin Seeded}
    /\ UNCHANGED <<now, issued, pc, local, reply, faults>>

Tick == now < MaxTime /\ now' = now + 1
        /\ UNCHANGED <<rows, issued, pc, local, reply, faults>>

-----------------------------------------------------------------------------
Init ==
    /\ now = 0 /\ users = Accounts
    /\ active = InitTokens /\ retired = {} /\ issued = InitTokens
    /\ \E sent \in Traffic :
          pc = [r \in Requests |-> IF r \in sent THEN "Idle" ELSE "Done"]
    /\ who = [r \in Requests |-> Nobody]
    /\ presented = [r \in Requests |-> NoToken]
    /\ fresh = [r \in Requests |-> NoToken]
    /\ reply = [r \in Requests |-> "none"]
    /\ faults = 0

Step(r) == \/ FindEmail(r) \/ InsertUser(r) \/ Sign(r) \/ InsertSession(r)
           \/ FindSession(r) \/ FindUser(r) \/ Deactivate(r) \/ Cleanup(r)

AllAnswered == \A r \in Requests : pc[r] = "Done"
Finished == AllAnswered /\ UNCHANGED vars

Next == \/ \E r \in Requests : Start(r) \/ Step(r) \/ StatementFault(r) \/ Crash(r)
        \/ SeedDown \/ Tick \/ Finished

Spec == Init /\ [][Next]_vars

\* The event loop runs every continuation and PostgreSQL answers every statement;
\* nobody has to send a request, and the clock may stop at its bound.
FairSpec == Spec /\ \A r \in Requests : WF_vars(Step(r))

-----------------------------------------------------------------------------
(* Properties *)

\* Every variable keeps its shape, and a request works for the user of its tokens.
TypeOK ==
    /\ now \in 0 .. MaxTime /\ users \subseteq Users
    /\ active \subseteq Token /\ retired \subseteq Token /\ issued \subseteq Token
    /\ pc \in [Requests -> PcValues]
    /\ who \in [Requests -> Users \cup {Nobody}]
    /\ presented \in [Requests -> Token \cup {NoToken}]
    /\ fresh \in [Requests -> Token \cup {NoToken}]
    /\ reply \in [Requests -> Answers]
    /\ faults \in 0 .. MaxFaults

\* However db:seed:down races with logins and refreshes, no session outlives its
\* user: a request that has read the user before inserts nothing after.
SessionsHaveOwners == \A t \in active \cup retired : t.user \in users

\* Logging out or refreshing on one device leaves the others alone: a token that was
\* handed out works until somebody presents it, however its requests interleave
\* and fail (deleteByTokenHash, and the catch of refresh).
UnusedTokenLives ==
    \A t \in issued \ active :
        \/ t.user \notin users
        \/ \E r \in Refreshes \cup Logouts :
              presented[r] = t /\ pc[r] \in {"Sign", "InsertSession", "Cleanup", "Done"}

Owners(address) == {q \in Registers : AddressOf[q] = address /\ reply[q] = "OK"}

\* The answers to simultaneous registrations agree with the rows: a 201 has its
\* account and its session and is the only one of its address; a 409 has a rival;
\* and a 500 that no fault explains lost a race, either for the address or, with
\* an account of its own, for the token that a login or refresh of the same second
\* has stored.
RegistrationsAgree ==
    \A r \in Registers :
        /\ reply[r] = "OK" => /\ r \in users /\ fresh[r] \in active \cup retired
                              /\ Owners(AddressOf[r]) = {r}
        /\ reply[r] = "Taken" \/ (reply[r] = "Error" /\ faults = 0) =>
              \/ AccountAt(AddressOf[r]) \ {r} # {}
              \/ \E u \in Seeded : AddressOf[u] = AddressOf[r] /\ u \notin users
              \/ r \in users /\ \E q \in Logins \cup Refreshes : fresh[q] = fresh[r] /\ reply[q] = "OK"

\* A refresh that fails after it has given up the token it came with has a reason other
\* than a sibling's session: the user is gone, or the string it signed had already been
\* handed out in the same second, at the start or by another request, and insertion
\* was refused for that (whose holder the catch of refresh leaves alone).
RefreshKeepsLogin ==
    faults = 0 =>
        \A r \in Refreshes :
            fresh[r] # NoToken /\ (pc[r] = "Cleanup" \/ reply[r] \notin {"none", "OK"}) =>
                \/ fresh[r].user \notin users
                \/ fresh[r] \in InitTokens
                \/ \E q \in Requests \ {r} : fresh[q] = fresh[r] /\ reply[q] = "OK"

\* No two requests have signed t, and none has if it is of the initial database.
SignedOnce(t) ==
    \A r, q \in Requests : fresh[r] = t /\ fresh[q] = t => r = q /\ t \notin InitTokens

\* A refresh token is good for one refresh: from the moment a refresh has deactivated
\* it, long before its answer, and from a logout's answer on, no lookup finds it again,
\* unless the same string was signed again within its second.  (That leaves one window:
\* refreshes that have all looked it up before the first of them deactivates it, which
\* deleteByTokenHash does not notice, all succeed.)
TokenFoundAfterUse ==
    \E r, q \in Refreshes \cup Logouts :
        /\ r # q /\ pc[r] = "FindSession" /\ pc'[r] = "FindUser"
        /\ pc[q] \in {"Sign", "InsertSession"} \/ reply[q] = "OK"
        /\ presented[q] = presented[r] /\ SignedOnce(presented[r])
NoReuse == [][~TokenFoundAfterUse]_vars

\* Every request that starts is answered, whichever statement fails or is refused.
Answered == \A r \in Requests : pc[r] # "Idle" ~> pc[r] = "Done"
-----------------------------------------------------------------------------
(* The inductive invariant of SessionsProofs *)

\* Each kind of request keeps to its path, and a statement has the token and the user it
\* works with.
PathsKept ==
    \A r \in Requests :
        /\ pc[r] = "FindEmail" => r \in Registers \cup Logins
        /\ pc[r] = "InsertUser" => r \in Registers
        /\ pc[r] \in {"FindSession", "FindUser", "Cleanup"} => r \in Refreshes
        /\ pc[r] = "Deactivate" => r \in Refreshes \cup Logouts
        /\ pc[r] = "Sign" => r \notin Logouts
        /\ r \in Refreshes \cup Logouts /\ pc[r] \notin {"Idle", "Done"} => presented[r] \in issued
        /\ pc[r] \in {"FindUser", "Sign"} \/ (pc[r] = "Deactivate" /\ r \in Refreshes) => who[r] \in Users
        /\ pc[r] = "InsertSession" => fresh[r] \in Token
        /\ fresh[r] # NoToken => pc[r] \in {"InsertSession", "Cleanup", "Done"} /\ r \notin Logouts
        /\ reply[r] # "none" => pc[r] = "Done"
        /\ presented[r] # NoToken => presented[r] \in issued

\* Nobody knows an account before the INSERT that makes it, and after it the request
\* that made it works for it.
AccountsAreNew ==
    \A r \in Registers :
        /\ pc[r] \in {"Idle", "FindEmail", "InsertUser"} =>
              /\ r \notin users
              /\ \A t \in issued : t.user # r
              /\ \A q \in Requests : who[q] # r
              /\ \A q \in Requests : fresh[q] # NoToken => fresh[q].user # r
        /\ pc[r] \in {"Sign", "InsertSession"} => r \in users
        /\ pc[r] = "Sign" => who[r] = r
        /\ fresh[r] # NoToken => fresh[r].user = r

OneAccountPerAddress == \A u, v \in users : AddressOf[u] = AddressOf[v] => u = v

\* Where tokens come from: a client has those of the start and those of answered
\* requests; and so has the table as long as no statement failed.
TokensHaveSigners ==
    /\ \A t \in issued \ InitTokens : \E r \in Requests : fresh[r] = t /\ pc[r] = "Done"
    /\ faults = 0 =>
          \A t \in active \ InitTokens : \E r \in Requests : fresh[r] = t /\ reply[r] = "OK"

\* What a refresh has deactivated, or a logout, is not active again unless it was
\* signed again.
UsedUp ==
    \A q \in Refreshes \cup Logouts :
        /\ pc[q] \in {"Sign", "InsertSession"} \/ reply[q] = "OK"
        /\ presented[q] # NoToken /\ SignedOnce(presented[q])
        => presented[q] \notin active

IInv == /\ TypeOK /\ PathsKept /\ AccountsAreNew /\ OneAccountPerAddress
        /\ SessionsHaveOwners /\ TokensHaveSigners /\ UsedUp
        /\ UnusedTokenLives /\ RegistrationsAgree /\ RefreshKeepsLogin
=============================================================================
