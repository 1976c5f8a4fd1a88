--------------------------- MODULE SessionsProofs ---------------------------
(***************************************************************************)
(* Proofs, for every set of requests and users, that sessions never        *)
(* outlive their users, that a token nobody presented stays good and one   *)
(* that was used does not, and that the answers of registrations agree     *)
(* with the rows.                                                          *)
(***************************************************************************)
EXTENDS Sessions, TLAPS

USE DEF Requests, Users

-----------------------------------------------------------------------------
(* The initial states *)

\* The database of the start, before any request, satisfies the invariant.
LEMMA InitInv == Init => IInv
<1> SUFFICES ASSUME Init PROVE IInv  OBVIOUS
<1> USE RequestAssumption, BoundAssumption
<1>1. TypeOK
  <2>1. InitTokens \subseteq Token  BY DEF InitTokens, Token
  <2>2. pc \in [Requests -> PcValues]  BY DEF Init, PcValues
  <2>. QED  BY <2>1, <2>2 DEF Init, TypeOK, Answers
<1>2. PathsKept  BY DEF Init, PathsKept
<1>3. AccountsAreNew  BY DEF Init, AccountsAreNew, InitTokens
<1>4. OneAccountPerAddress  BY DEF Init, OneAccountPerAddress
<1>5. SessionsHaveOwners  BY DEF Init, SessionsHaveOwners, InitTokens
<1>6. TokensHaveSigners  BY DEF Init, TokensHaveSigners
<1>7. UsedUp  BY DEF Init, UsedUp
<1>8. UnusedTokenLives  BY DEF Init, UnusedTokenLives
<1>9. RegistrationsAgree  BY DEF Init, RegistrationsAgree
<1>10. RefreshKeepsLogin  BY DEF Init, RefreshKeepsLogin
<1>. QED  BY <1>1, <1>2, <1>3, <1>4, <1>5, <1>6, <1>7, <1>8, <1>9, <1>10 DEF IInv

\* A request that arrives brings a token of issued or none.
LEMMA StartInv ==
  ASSUME NEW r \in Requests, IInv, Start(r)
  PROVE  IInv'
<1> USE RequestAssumption, BoundAssumption
    DEF Start, First, IInv, Goto, rows
<1>1. TypeOK'  BY DEF TypeOK, PathsKept, PcValues, Answers
<1>2. PathsKept'  BY DEF PathsKept, TypeOK
<1>3. AccountsAreNew'  BY DEF AccountsAreNew, TypeOK, PathsKept
<1>4. OneAccountPerAddress'  BY DEF OneAccountPerAddress
<1>5. SessionsHaveOwners'  BY DEF SessionsHaveOwners
<1>6. TokensHaveSigners'  BY DEF TokensHaveSigners, TypeOK, PathsKept
<1>7. UsedUp'  BY DEF UsedUp, TypeOK, PathsKept, SignedOnce, TokensHaveSigners
<1>8. UnusedTokenLives'  BY DEF UnusedTokenLives, TypeOK, PathsKept, AccountsAreNew
<1>9. RegistrationsAgree'  BY DEF RegistrationsAgree, TypeOK, PathsKept, AccountsAreNew, Owners, AccountAt
<1>10. RefreshKeepsLogin'  BY DEF RefreshKeepsLogin, TypeOK, PathsKept, AccountsAreNew
<1>. QED  BY <1>1, <1>2, <1>3, <1>4, <1>5, <1>6, <1>7, <1>8, <1>9, <1>10

\* findByEmail decides for a registration or a login; it writes no row.
LEMMA FindEmailInv ==
  ASSUME NEW r \in Requests, IInv, FindEmail(r)
  PROVE  IInv'
<1> USE RequestAssumption, BoundAssumption
    DEF FindEmail, IInv, Goto, Answer, rows, AccountAt
<1>1. TypeOK'  BY DEF TypeOK, PathsKept, PcValues, Answers
<1>2. PathsKept'  BY DEF PathsKept, TypeOK
<1>3. AccountsAreNew'  BY DEF AccountsAreNew, TypeOK, PathsKept
<1>4. OneAccountPerAddress'  BY DEF OneAccountPerAddress
<1>5. SessionsHaveOwners'  BY DEF SessionsHaveOwners
<1>6. TokensHaveSigners'  BY DEF TokensHaveSigners, TypeOK, PathsKept
<1>7. UsedUp'  BY DEF UsedUp, TypeOK, PathsKept, SignedOnce, TokensHaveSigners
<1>8. UnusedTokenLives'  BY DEF UnusedTokenLives, TypeOK, PathsKept, AccountsAreNew
<1>9. RegistrationsAgree'  BY DEF RegistrationsAgree, TypeOK, PathsKept, AccountsAreNew, Owners, AccountAt
<1>10. RefreshKeepsLogin'  BY DEF RefreshKeepsLogin, TypeOK, PathsKept, AccountsAreNew
<1>. QED  BY <1>1, <1>2, <1>3, <1>4, <1>5, <1>6, <1>7, <1>8, <1>9, <1>10

\* The UNIQUE index on users.email keeps the addresses apart, and the new account is
\* one nobody has a token of.
LEMMA InsertUserInv ==
  ASSUME NEW r \in Requests, IInv, InsertUser(r)
  PROVE  IInv'
<1> USE RequestAssumption, BoundAssumption
    DEF InsertUser, AddUser, AddressFree, AccountAt, IInv, Goto, Answer, rows
<1>0. r \in Registers  BY DEF PathsKept
<1> USE <1>0
<1>1. TypeOK'  BY DEF TypeOK, PathsKept, PcValues, Answers
<1>2. PathsKept'  BY DEF PathsKept, TypeOK
<1>3. AccountsAreNew'  BY DEF AccountsAreNew, TypeOK, PathsKept
<1>4. OneAccountPerAddress'  BY DEF OneAccountPerAddress
<1>5. SessionsHaveOwners'  BY DEF SessionsHaveOwners
<1>6. TokensHaveSigners'  BY DEF TokensHaveSigners, TypeOK, PathsKept
<1>7. UsedUp'  BY DEF UsedUp, TypeOK, PathsKept, SignedOnce, TokensHaveSigners
<1>8. UnusedTokenLives'  BY DEF UnusedTokenLives, TypeOK, PathsKept, AccountsAreNew
<1>9. RegistrationsAgree'  BY DEF RegistrationsAgree, TypeOK, PathsKept, AccountsAreNew, Owners, AccountAt
<1>10. RefreshKeepsLogin'  BY DEF RefreshKeepsLogin, TypeOK, PathsKept, AccountsAreNew
<1>. QED  BY <1>1, <1>2, <1>3, <1>4, <1>5, <1>6, <1>7, <1>8, <1>9, <1>10

\* Signing makes a token of the user the request works for.
LEMMA SignInv ==
  ASSUME NEW r \in Requests, IInv, Sign(r)
  PROVE  IInv'
<1> USE RequestAssumption, BoundAssumption
    DEF Sign, SignToken, IInv, Goto, rows
<1>0. SignToken(who[r]) \in Token /\ who[r] \in Users  BY DEF TypeOK, PathsKept, Token
<1> USE <1>0
<1>1. TypeOK'  BY DEF TypeOK, PathsKept, PcValues, Answers
<1>2. PathsKept'  BY DEF PathsKept, TypeOK
<1>3. AccountsAreNew'  BY DEF AccountsAreNew, TypeOK, PathsKept
<1>4. OneAccountPerAddress'  BY DEF OneAccountPerAddress
<1>5. SessionsHaveOwners'  BY DEF SessionsHaveOwners
<1>6. TokensHaveSigners'  BY DEF TokensHaveSigners, TypeOK, PathsKept
<1>7. UsedUp'  BY DEF UsedUp, TypeOK, PathsKept, SignedOnce, TokensHaveSigners
<1>8. UnusedTokenLives'  BY DEF UnusedTokenLives, TypeOK, PathsKept, AccountsAreNew
<1>9. RegistrationsAgree'  BY DEF RegistrationsAgree, TypeOK, PathsKept, AccountsAreNew, Owners, AccountAt
<1>10. RefreshKeepsLogin'  BY DEF RefreshKeepsLogin, TypeOK, PathsKept, AccountsAreNew
<1>. QED  BY <1>1, <1>2, <1>3, <1>4, <1>5, <1>6, <1>7, <1>8, <1>9, <1>10

\* The INSERT of the session, and its refusal: without a fault, a registration is
\* refused only for the token that another request of its new user has stored.
LEMMA InsertSessionInv ==
  ASSUME NEW r \in Requests, IInv, InsertSession(r)
  PROVE  IInv'
<1> USE RequestAssumption, BoundAssumption
    DEF InsertSession, Insertable, CreateSession, Fail, InTry, IInv, Goto, Answer, rows, local
<1>1. TypeOK'  BY DEF TypeOK, PathsKept, PcValues, Answers
<1>2. PathsKept'  BY DEF PathsKept, TypeOK
<1>3. AccountsAreNew'  BY DEF AccountsAreNew, TypeOK, PathsKept
<1>4. OneAccountPerAddress'  BY DEF OneAccountPerAddress
<1>5. SessionsHaveOwners'  BY DEF SessionsHaveOwners
<1>6. TokensHaveSigners'  BY DEF TokensHaveSigners, TypeOK, PathsKept
<1>7. UsedUp'  BY DEF UsedUp, TypeOK, PathsKept, SignedOnce, TokensHaveSigners
<1>8. UnusedTokenLives'  BY DEF UnusedTokenLives, TypeOK, PathsKept, AccountsAreNew
<1>9. RegistrationsAgree'
  <2>1. ASSUME NEW q \in Registers, reply'[q] = "OK"
        PROVE  q \in users' /\ fresh'[q] \in active' \cup retired'
    BY <2>1 DEF RegistrationsAgree, TypeOK, PathsKept, AccountsAreNew
  <2>2. ASSUME NEW q \in Registers, reply'[q] = "OK"
        PROVE  Owners(AddressOf[q])' = {q}
    BY <2>1, <2>2, <1>4 DEF OneAccountPerAddress, Owners
  <2>3. ASSUME NEW q \in Registers, q # r,
               reply'[q] = "Taken" \/ (reply'[q] = "Error" /\ faults' = 0)
        PROVE  \/ AccountAt(AddressOf[q])' \ {q} # {}
               \/ \E u \in Seeded : AddressOf[u] = AddressOf[q] /\ u \notin users'
               \/ q \in users' /\ \E o \in Logins \cup Refreshes : fresh'[o] = fresh'[q] /\ reply'[o] = "OK"
    <3>1. reply[q] = "Taken" \/ (reply[q] = "Error" /\ faults = 0)
      BY <2>3 DEF TypeOK
    <3>2. ASSUME NEW o \in Logins \cup Refreshes, reply[o] = "OK"
          PROVE  reply'[o] = "OK"
      BY <3>2 DEF TypeOK, PathsKept
    <3>. QED  BY <3>1, <3>2 DEF RegistrationsAgree, AccountAt
  <2>4. ASSUME r \in Registers, reply'[r] = "Error", faults' = 0
        PROVE  r \in users' /\ \E o \in Logins \cup Refreshes : fresh'[o] = fresh'[r] /\ reply'[o] = "OK"
    <3>1. r \in users /\ fresh[r] \in active /\ fresh[r].user = r /\ fresh[r] \notin InitTokens
      BY <2>4 DEF PathsKept, AccountsAreNew, TypeOK, InitTokens, Token
    <3>2. PICK o \in Requests : fresh[o] = fresh[r] /\ reply[o] = "OK"
      BY <2>4, <3>1 DEF TokensHaveSigners
    <3>3. o \in Logins \cup Refreshes
      BY <3>1, <3>2 DEF PathsKept, AccountsAreNew, TypeOK
    <3>. QED  BY <3>1, <3>2, <3>3 DEF TypeOK, PathsKept
  <2>5. reply'[r] # "Taken"  BY DEF TypeOK, PathsKept
  <2>. QED  BY <2>1, <2>2, <2>3, <2>4, <2>5 DEF RegistrationsAgree
<1>10. RefreshKeepsLogin'
  <2> SUFFICES ASSUME faults' = 0, NEW q \in Refreshes,
                      fresh'[q] # NoToken, pc'[q] = "Cleanup" \/ reply'[q] \notin {"none", "OK"}
               PROVE  \/ fresh'[q].user \notin users'
                      \/ fresh'[q] \in InitTokens
                      \/ \E o \in Requests \ {q} : fresh'[o] = fresh'[q] /\ reply'[o] = "OK"
    BY DEF RefreshKeepsLogin
  <2>1. /\ faults = 0 /\ fresh' = fresh /\ users' = users
        /\ reply[r] = "none" /\ \A o \in Requests : reply[o] = "OK" => reply'[o] = "OK"
    BY DEF TypeOK, PathsKept
  <2>2. CASE q # r
    <3>1. pc[q] = "Cleanup" \/ reply[q] \notin {"none", "OK"}
      BY <2>2 DEF TypeOK
    <3>. QED  BY <2>1, <3>1 DEF RefreshKeepsLogin
  <2>3. CASE q = r
    <3>1. fresh[r].user \notin users \/ fresh[r] \in active
      BY <2>3 DEF TypeOK, PathsKept
    <3>2. fresh[r] \in active \ InitTokens => \E o \in Requests : fresh[o] = fresh[r] /\ reply[o] = "OK"
      BY <2>1 DEF TokensHaveSigners
    <3>. QED  BY <2>1, <2>3, <3>1, <3>2
  <2>. QED  BY <2>2, <2>3
<1>. QED  BY <1>1, <1>2, <1>3, <1>4, <1>5, <1>6, <1>7, <1>8, <1>9, <1>10

\* findByTokenHash and jwt.verify find the user of the token.
LEMMA FindSessionInv ==
  ASSUME NEW r \in Requests, IInv, FindSession(r)
  PROVE  IInv'
<1> USE RequestAssumption, BoundAssumption
    DEF FindSession, IInv, Goto, Answer, rows
<1>0. presented[r] \in issued /\ presented[r].user \in Users  BY DEF PathsKept, TypeOK, Token
<1> USE <1>0
<1>1. TypeOK'  BY DEF TypeOK, PathsKept, PcValues, Answers
<1>2. PathsKept'  BY DEF PathsKept, TypeOK
<1>3. AccountsAreNew'  BY DEF AccountsAreNew, TypeOK, PathsKept
<1>4. OneAccountPerAddress'  BY DEF OneAccountPerAddress
<1>5. SessionsHaveOwners'  BY DEF SessionsHaveOwners
<1>6. TokensHaveSigners'  BY DEF TokensHaveSigners, TypeOK, PathsKept
<1>7. UsedUp'  BY DEF UsedUp, TypeOK, PathsKept, SignedOnce, TokensHaveSigners
<1>8. UnusedTokenLives'  BY DEF UnusedTokenLives, TypeOK, PathsKept, AccountsAreNew
<1>9. RegistrationsAgree'  BY DEF RegistrationsAgree, TypeOK, PathsKept, AccountsAreNew, Owners, AccountAt
<1>10. RefreshKeepsLogin'  BY DEF RefreshKeepsLogin, TypeOK, PathsKept, AccountsAreNew
<1>. QED  BY <1>1, <1>2, <1>3, <1>4, <1>5, <1>6, <1>7, <1>8, <1>9, <1>10

\* findById writes nothing.
LEMMA FindUserInv ==
  ASSUME NEW r \in Requests, IInv, FindUser(r)
  PROVE  IInv'
<1> USE RequestAssumption, BoundAssumption
    DEF FindUser, IInv, Goto, rows, local
<1>1. TypeOK'  BY DEF TypeOK, PathsKept, PcValues, Answers
<1>2. PathsKept'  BY DEF PathsKept, TypeOK
<1>3. AccountsAreNew'  BY DEF AccountsAreNew, TypeOK, PathsKept
<1>4. OneAccountPerAddress'  BY DEF OneAccountPerAddress
<1>5. SessionsHaveOwners'  BY DEF SessionsHaveOwners
<1>6. TokensHaveSigners'  BY DEF TokensHaveSigners, TypeOK, PathsKept
<1>7. UsedUp'  BY DEF UsedUp, TypeOK, PathsKept, SignedOnce, TokensHaveSigners
<1>8. UnusedTokenLives'  BY DEF UnusedTokenLives, TypeOK, PathsKept, AccountsAreNew
<1>9. RegistrationsAgree'  BY DEF RegistrationsAgree, TypeOK, PathsKept, AccountsAreNew, Owners, AccountAt
<1>10. RefreshKeepsLogin'  BY DEF RefreshKeepsLogin, TypeOK, PathsKept, AccountsAreNew
<1>. QED  BY <1>1, <1>2, <1>3, <1>4, <1>5, <1>6, <1>7, <1>8, <1>9, <1>10

\* Deactivating takes one token away, the one that was presented.
LEMMA DeactivateInv ==
  ASSUME NEW r \in Requests, IInv, Deactivate(r) \/ Cleanup(r)
  PROVE  IInv'
<1> USE RequestAssumption, BoundAssumption
    DEF Deactivate, Cleanup, DeleteByTokenHash, IInv, Goto, Answer, rows, local
<1>0. r \in Refreshes \cup Logouts /\ (pc[r] = "Cleanup" => r \in Refreshes)  BY DEF PathsKept
<1> USE <1>0
<1>1. TypeOK'  BY DEF TypeOK, PathsKept, PcValues, Answers
<1>2. PathsKept'  BY DEF PathsKept, TypeOK
<1>3. AccountsAreNew'  BY DEF AccountsAreNew, TypeOK, PathsKept
<1>4. OneAccountPerAddress'  BY DEF OneAccountPerAddress
<1>5. SessionsHaveOwners'  BY DEF SessionsHaveOwners
<1>6. TokensHaveSigners'  BY DEF TokensHaveSigners, TypeOK, PathsKept
<1>7. UsedUp'  BY DEF UsedUp, TypeOK, PathsKept, SignedOnce, TokensHaveSigners
<1>8. UnusedTokenLives'  BY DEF UnusedTokenLives, TypeOK, PathsKept, AccountsAreNew
<1>9. RegistrationsAgree'  BY DEF RegistrationsAgree, TypeOK, PathsKept, AccountsAreNew, Owners, AccountAt
<1>10. RefreshKeepsLogin'  BY DEF RefreshKeepsLogin, TypeOK, PathsKept, AccountsAreNew
<1>. QED  BY <1>1, <1>2, <1>3, <1>4, <1>5, <1>6, <1>7, <1>8, <1>9, <1>10

\* A request whose process dies leaves its rows as they are.
LEMMA CrashInv ==
  ASSUME NEW r \in Requests, IInv, Crash(r)
  PROVE  IInv'
<1> USE RequestAssumption, BoundAssumption
    DEF Crash, Fault, IInv, Goto, Answer, rows, local
<1>1. TypeOK'  BY DEF TypeOK, PathsKept, PcValues, Answers
<1>2. PathsKept'  BY DEF PathsKept, TypeOK
<1>3. AccountsAreNew'  BY DEF AccountsAreNew, TypeOK, PathsKept
<1>4. OneAccountPerAddress'  BY DEF OneAccountPerAddress
<1>5. SessionsHaveOwners'  BY DEF SessionsHaveOwners
<1>6. TokensHaveSigners'  BY DEF TokensHaveSigners, TypeOK, PathsKept
<1>7. UsedUp'  BY DEF UsedUp, TypeOK, PathsKept, SignedOnce, TokensHaveSigners
<1>8. UnusedTokenLives'  BY DEF UnusedTokenLives, TypeOK, PathsKept, AccountsAreNew
<1>9. RegistrationsAgree'  BY DEF RegistrationsAgree, TypeOK, PathsKept, AccountsAreNew, Owners, AccountAt
<1>10. RefreshKeepsLogin'  BY DEF RefreshKeepsLogin, TypeOK, PathsKept, AccountsAreNew
<1>. QED  BY <1>1, <1>2, <1>3, <1>4, <1>5, <1>6, <1>7, <1>8, <1>9, <1>10

\* A statement that fails, carried out or not, ends the request or leads to the catch.
LEMMA StatementFaultInv ==
  ASSUME NEW r \in Requests, IInv, StatementFault(r)
  PROVE  IInv'
<1> USE RequestAssumption, BoundAssumption
    DEF StatementFault, Fault, Fail, InTry, AddressFree, AccountAt, AddUser, Insertable, CreateSession,
        DeleteByTokenHash, IInv, Goto, Answer, rows, local
<1>1. TypeOK'  BY DEF TypeOK, PathsKept, PcValues, Answers
<1>2. PathsKept'  BY DEF PathsKept, TypeOK
<1>3. AccountsAreNew'  BY DEF AccountsAreNew, TypeOK, PathsKept
<1>4. OneAccountPerAddress'  BY DEF OneAccountPerAddress
<1>5. SessionsHaveOwners'  BY DEF SessionsHaveOwners
<1>6. TokensHaveSigners'  BY DEF TokensHaveSigners, TypeOK, PathsKept
<1>7. UsedUp'  BY DEF UsedUp, TypeOK, PathsKept, SignedOnce, TokensHaveSigners
<1>8. UnusedTokenLives'  BY DEF UnusedTokenLives, TypeOK, PathsKept, AccountsAreNew
<1>9. RegistrationsAgree'  BY DEF RegistrationsAgree, TypeOK, PathsKept, AccountsAreNew, Owners, AccountAt
<1>10. RefreshKeepsLogin'  BY DEF RefreshKeepsLogin, TypeOK, PathsKept, AccountsAreNew
<1>. QED  BY <1>1, <1>2, <1>3, <1>4, <1>5, <1>6, <1>7, <1>8, <1>9, <1>10

\* db:seed:down takes the sessions of its users with them; the clock moves no row.
LEMMA EnvironmentInv ==
  ASSUME IInv, SeedDown \/ Tick \/ UNCHANGED vars
  PROVE  IInv'
<1> USE RequestAssumption, BoundAssumption
    DEF SeedDown, Tick, vars, IInv, rows, local
<1>1. TypeOK'  BY DEF TypeOK, PathsKept, PcValues, Answers
<1>2. PathsKept'  BY DEF PathsKept, TypeOK
<1>3. AccountsAreNew'  BY DEF AccountsAreNew, TypeOK, PathsKept
<1>4. OneAccountPerAddress'  BY DEF OneAccountPerAddress
<1>5. SessionsHaveOwners'  BY DEF SessionsHaveOwners
<1>6. TokensHaveSigners'  BY DEF TokensHaveSigners, TypeOK, PathsKept
<1>7. UsedUp'  BY DEF UsedUp, TypeOK, PathsKept, SignedOnce, TokensHaveSigners
<1>8. UnusedTokenLives'  BY DEF UnusedTokenLives, TypeOK, PathsKept, AccountsAreNew
<1>9. RegistrationsAgree'  BY DEF RegistrationsAgree, TypeOK, PathsKept, AccountsAreNew, Owners, AccountAt
<1>10. RefreshKeepsLogin'  BY DEF RefreshKeepsLogin, TypeOK, PathsKept, AccountsAreNew
<1>. QED  BY <1>1, <1>2, <1>3, <1>4, <1>5, <1>6, <1>7, <1>8, <1>9, <1>10

\* Every step keeps the invariant.
LEMMA NextInv == IInv /\ [Next]_vars => IInv'
<1> SUFFICES ASSUME IInv, [Next]_vars PROVE IInv'  OBVIOUS
<1>1. ASSUME NEW r \in Requests, Start(r) \/ Step(r) \/ StatementFault(r) \/ Crash(r)
      PROVE  IInv'
  BY <1>1, StartInv, FindEmailInv, InsertUserInv, SignInv, InsertSessionInv, FindSessionInv,
     FindUserInv, DeactivateInv, StatementFaultInv, CrashInv DEF Step
<1>. QED  BY <1>1, EnvironmentInv DEF Next, Finished

-----------------------------------------------------------------------------
(* The theorems *)

\* The inductive invariant holds in every reachable state.
THEOREM AlwaysIInv == Spec => []IInv
<1>. QED  BY InitInv, NextInv, PTL DEF Spec

\* Every variable keeps its shape: a request that needs a token or a user has one.
THEOREM TypeCorrect == Spec => []TypeOK
<1>1. IInv => TypeOK  BY DEF IInv
<1>. QED  BY <1>1, AlwaysIInv, PTL

\* No session outlives its user, however db:seed:down races with the handlers that have
\* read the user before (the foreign key of sessions).
THEOREM NoOrphanedSession == Spec => []SessionsHaveOwners
<1>1. IInv => SessionsHaveOwners  BY DEF IInv
<1>. QED  BY <1>1, AlwaysIInv, PTL

\* A token that was handed out stays active until somebody presents it
\* (deleteByTokenHash and the catch of refresh touch no other row).
THEOREM TokensLastUntilUsed == Spec => []UnusedTokenLives
<1>1. IInv => UnusedTokenLives  BY DEF IInv
<1>. QED  BY <1>1, AlwaysIInv, PTL

\* The answers of simultaneous registrations agree with the rows (register, the UNIQUE
\* indexes on users.email and on the active sessions).
THEOREM AnswersAgree == Spec => []RegistrationsAgree
<1>1. IInv => RegistrationsAgree  BY DEF IInv
<1>. QED  BY <1>1, AlwaysIInv, PTL

\* A refresh that gave up its token and got no new one has lost its user, or the string
\* it signed had been handed out in the same second (refresh, the unique index of the
\* active sessions): never does a sibling's session stand in its way.
THEOREM RefreshLosesNoLogin == Spec => []RefreshKeepsLogin
<1>1. IInv => RefreshKeepsLogin  BY DEF IInv
<1>. QED  BY <1>1, AlwaysIInv, PTL

\* A lookup that finds a token finds it active, which UsedUp excludes for one that a
\* refresh or a logout has used.
LEMMA UsedTokenIsNotFound == IInv /\ [Next]_vars => ~TokenFoundAfterUse
<1> SUFFICES ASSUME IInv, [Next]_vars, TokenFoundAfterUse PROVE FALSE  OBVIOUS
<1> USE RequestAssumption
<1>1. PICK r \in Refreshes \cup Logouts, q \in Refreshes \cup Logouts :
        /\ r # q /\ pc[r] = "FindSession" /\ pc'[r] = "FindUser"
        /\ pc[q] \in {"Sign", "InsertSession"} \/ reply[q] = "OK"
        /\ presented[q] = presented[r] /\ SignedOnce(presented[r])
  BY DEF TokenFoundAfterUse
<1>2. presented[r] # NoToken /\ presented[r] \in issued
  BY <1>1 DEF IInv, TypeOK, PathsKept, Token
<1>3. presented[r] \notin active
  BY <1>1, <1>2 DEF IInv, UsedUp
<1>4. ~FindSession(r)
  BY <1>1, <1>3 DEF FindSession, Found, Goto, Answer, IInv, TypeOK
<1>5. ASSUME NEW o \in Requests, Start(o) \/ Step(o) \/ StatementFault(o) \/ Crash(o)
      PROVE  FALSE
  <2>1. o = r
    BY <1>1, <1>5 DEF IInv, TypeOK, Start, Step, FindEmail, InsertUser, Sign, InsertSession,
       FindSession, FindUser, Deactivate, Cleanup, StatementFault, Crash, Goto, Answer, Fail
  <2>2. CASE Start(r) \/ Crash(r) \/ StatementFault(r)
    BY <1>1, <2>2 DEF IInv, TypeOK, Start, Crash, StatementFault, Fail, InTry, Goto, Answer
  <2>3. CASE Step(r)
    BY <1>1, <1>4, <2>3 DEF Step, FindEmail, InsertUser, Sign, InsertSession, FindUser,
       Deactivate, Cleanup
  <2>. QED  BY <1>5, <2>1, <2>2, <2>3
<1>. QED  BY <1>1, <1>5 DEF Next, Finished, SeedDown, Tick, vars

\* A refresh token is good for one refresh: after a refresh has deactivated it or
\* a logout of it was answered, findByTokenHash finds it no more, whatever fails.
THEOREM RefreshOnce == Spec => NoReuse
<1>. QED  BY AlwaysIInv, UsedTokenIsNotFound, PTL DEF Spec, NoReuse
=============================================================================
