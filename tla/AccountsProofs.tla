----------------------------- MODULE AccountsProofs -----------------------------
(* Proofs about Accounts, for every number of requests, sessions and tokens *)
(* and every limit.                                                         *)
EXTENDS Accounts, TLAPS

-----------------------------------------------------------------------------
(* Types and locks.                                                        *)

Transaction == [pc : Pcs, guess : Gens, read : Credential, active : BOOLEAN,
                tokens : SUBSET Tokens]

\* The types alone, without the locks.
Types ==
  /\ cred \in Credential /\ active \in BOOLEAN
  /\ session \in [Sessions -> Session] /\ token \in [Tokens -> Token]
  /\ req \in [Requests -> Transaction]
  /\ tries \in Nat /\ latest \in SUBSET Invites /\ lockouts \in 0 .. MaxLockouts

\* Row locks exclude one another: on a token, the person (for a password, or
\* shared with a reset that is issued), the credential, and the address of the
\* account whose credential is being inserted.
Compatible(x, y) ==
  /\ x.tokens \cap y.tokens = {}
  /\ ~(x.pc \in HasPerson /\ y.pc \in HasPerson \cup SharesPerson)
  /\ ~(x.pc \in SharesPerson /\ y.pc \in HasPerson)
  /\ ~(x.pc \in HasCredential /\ y.pc \in HasCredential)
  /\ ~(x.pc = "inserted" /\ y.pc = "inserted")

Exclusive == \A r, o \in Requests : r # o => Compatible(req[r], req[o])

\* What a request knows of the account: whether it has a password, the row it
\* has locked, the password its reset token is inserted under.
Informed(x) ==
  /\ x.pc \in {"typed", "checked", "wants", "person", "holding", "asked", "asking"} => Exists
  /\ x.pc = "inserted" => ~Exists
  /\ x.pc = "checked" => x.read = cred
  /\ x.pc = "asking" => x.guess = cred.gen /\ x.tokens \subseteq Resets
  /\ x.pc = "inviting" => x.tokens \subseteq Invites

Knows == \A r \in Requests : Informed(req[r])

\* Nothing was opened before the first password.
Unopened ==
  ~Exists => /\ \A s \in Sessions : session[s].state = "none"
             /\ \A t \in Resets : token[t].state = "none"

\* The counter of the row is never behind the passwords compared.
Counted == tries <= cred.failed /\ TriesBounded

IInv == Types /\ Exclusive /\ Knows /\ Unopened /\ Counted /\ OldPasswordRetired /\ InviteStands

USE LimitsAssumption, PoolsAssumption

LEMMA DoneTyped == Done \in Transaction
  BY DEF Done, Transaction, Pcs, Gens, Credential

\* Spending tokens keeps them well typed.
LEMMA UseType ==
  ASSUME Types, NEW set
  PROVE  Use(set) \in [Tokens -> Token]
  BY DEF Use, Types, Token

\* Nothing that has ended excludes anything.
LEMMA DoneCompatible ==
  ASSUME NEW x \in Transaction
  PROVE  Compatible(Done, x)
  BY DEF Compatible, Done, HasPerson, SharesPerson, HasCredential

\* One request moves on, holding nothing that another holds.
LEMMA Moved ==
  ASSUME Types, Exclusive, NEW r \in Requests, NEW x \in Transaction,
         req' = [req EXCEPT ![r] = x],
         \A o \in Requests \ {r} : Compatible(x, req[o])
  PROVE  /\ req' \in [Requests -> Transaction] /\ req'[r] = x
         /\ \A o \in Requests \ {r} : req'[o] = req[o]
         /\ Exclusive'
<1>1. /\ req' \in [Requests -> Transaction] /\ req'[r] = x
      /\ \A o \in Requests \ {r} : req'[o] = req[o]
  BY DEF Types
<1>2. \A o \in Requests \ {r} : Compatible(req[o], x)
  BY DEF Compatible
<1> QED  BY <1>1, <1>2 DEF Exclusive

\* The same for one that ends.
LEMMA Ended ==
  ASSUME Types, Exclusive, NEW r \in Requests, Commit(r)
  PROVE  /\ req' \in [Requests -> Transaction] /\ req'[r] = Done
         /\ \A o \in Requests \ {r} : req'[o] = req[o]
         /\ Exclusive'
<1>1. \A o \in Requests : Compatible(Done, req[o])  BY DoneCompatible DEF Types
<1> QED  BY <1>1, DoneTyped, Moved DEF Commit

LEMMA InitInv == Init => IInv
<1> SUFFICES ASSUME Init PROVE IInv  OBVIOUS
<1>1. Types  BY DoneTyped DEF Init, Types, Credential, Session, Token, Gens
<1>2. Exclusive  BY DoneTyped, DoneCompatible DEF Init, Exclusive
<1>3. Knows  BY DEF Init, Knows, Informed, Done
<1>4. Unopened /\ Counted  BY DEF Init, Unopened, Counted, TriesBounded, Tokens
<1>5. OldPasswordRetired /\ InviteStands
  BY DEF Init, OldPasswordRetired, InviteStands, Tokens
<1> QED  BY <1>1, <1>2, <1>3, <1>4, <1>5 DEF IInv

\* A step that only moves one request on, to where it excludes and knows what
\* it should.
LEMMA Advanced ==
  ASSUME IInv, NEW r \in Requests, NEW x \in Transaction,
         req' = [req EXCEPT ![r] = x],
         UNCHANGED <<cred, active, session, token, tries, latest, lockouts>>,
         \A o \in Requests \ {r} : Compatible(x, req[o]),
         Informed(x)
  PROVE  IInv'
<1> USE DEF IInv
<1>1. /\ req' \in [Requests -> Transaction] /\ req'[r] = x
      /\ \A o \in Requests \ {r} : req'[o] = req[o]
      /\ Exclusive'
  BY Moved
<1>2. Types'  BY <1>1 DEF Types
<1>3. Knows'  BY <1>1 DEF Knows, Informed, Exists
<1>4. Unopened' /\ Counted'  BY DEF Unopened, Exists, Counted, TriesBounded
<1>5. OldPasswordRetired' /\ InviteStands'  BY DEF OldPasswordRetired, InviteStands
<1> QED  BY <1>1, <1>2, <1>3, <1>4, <1>5

-----------------------------------------------------------------------------
(* Sign-in.                                                                *)

LEMMA SignInInv ==
  ASSUME IInv, NEW r \in Requests, SignIn(r)
  PROVE  IInv'
<1>1. PICK g \in {0, cred.gen} :
        req' = [req EXCEPT ![r] = [Done EXCEPT !.pc = "typed", !.guess = g, !.active = active]]
  BY DEF SignIn
<1> DEFINE x == [Done EXCEPT !.pc = "typed", !.guess = g, !.active = active]
<1>2. g \in Gens /\ active \in BOOLEAN  BY DEF IInv, Types, Credential, Gens
<1>3. x \in Transaction  BY <1>2, DoneTyped DEF Transaction, Pcs
<1>4. \A o \in Requests : Compatible(x, req[o])
  BY DEF Compatible, Done, HasPerson, SharesPerson, HasCredential
<1>5. Informed(x)  BY DEF Informed, SignIn, Done
<1> QED  BY <1>1, <1>3, <1>4, <1>5, Advanced DEF SignIn

\* The row is read under its lock, so that what was read is what there is.
LEMMA LockCredentialInv ==
  ASSUME IInv, NEW r \in Requests, LockCredential(r)
  PROVE  IInv'
<1> DEFINE x == [req[r] EXCEPT !.pc = "checked", !.read = cred]
<1>1. req[r] \in Transaction /\ cred \in Credential  BY DEF IInv, Types
<1>2. x \in Transaction  BY <1>1 DEF Transaction, Pcs
<1>3. req' = [req EXCEPT ![r] = x]  BY DEF LockCredential, IInv, Types
<1>4. /\ x.pc = "checked" /\ x.read = cred /\ x.tokens = req[r].tokens
  BY <1>1 DEF Transaction
<1>5. \A o \in Requests \ {r} : Compatible(x, req[o])
  BY <1>4 DEF LockCredential, CredentialFree, IInv, Exclusive, Compatible, HasPerson,
              SharesPerson, HasCredential
<1>6. Informed(x)  BY <1>4 DEF Informed, LockCredential, IInv, Knows
<1> QED  BY <1>2, <1>3, <1>5, <1>6, Advanced DEF LockCredential

LEMMA AbortInv ==
  ASSUME IInv, NEW r \in Requests, RefuseLocked(r) \/ Abort(r)
  PROVE  IInv'
<1>1. \A o \in Requests : Compatible(Done, req[o])  BY DoneCompatible DEF IInv, Types
<1>2. Informed(Done)  BY DEF Informed, Done
<1> QED  BY <1>1, <1>2, DoneTyped, Advanced DEF RefuseLocked, Abort, Commit

\* Only the holder of the row's lock writes the counter, from what it read.
LEMMA WrongPasswordInv ==
  ASSUME IInv, NEW r \in Requests, WrongPassword(r)
  PROVE  IInv'
<1> USE DEF IInv
<1>1. /\ req' \in [Requests -> Transaction] /\ req'[r] = Done
      /\ \A o \in Requests \ {r} : req'[o] = req[o]
      /\ Exclusive'
  BY Ended DEF WrongPassword
<1>2. req[r].read = cred  BY DEF WrongPassword, Knows, Informed
<1> DEFINE n == cred.failed + 1
           over == cred.locked \/ n >= MaxFailed
<1>3. cred' = [cred EXCEPT !.failed = n, !.locked = over]
  BY <1>2 DEF WrongPassword
<1>4. cred.failed \in Nat /\ n \in Nat /\ over \in BOOLEAN /\ ~cred.locked
  BY <1>2 DEF WrongPassword, Types, Credential
<1> HIDE DEF over
<1>5. /\ cred' \in Credential /\ cred'.gen = cred.gen /\ cred'.failed = n /\ cred'.locked = over
  BY <1>3, <1>4 DEF Types, Credential
<1>6. n >= MaxFailed => cred'.locked  BY <1>5 DEF over
<1>7. Types'  BY <1>1, <1>5 DEF WrongPassword, Types
<1>8. Counted'  BY <1>4, <1>5, <1>6 DEF WrongPassword, Types, Counted, TriesBounded
<1>9. Knows'
  <2>1. req[r].pc \in HasCredential  BY DEF WrongPassword, HasCredential
  <2>2. ASSUME NEW o \in Requests \ {r} PROVE req[o].pc # "checked"
    BY <2>1 DEF Exclusive, Compatible, HasCredential
  <2> QED  BY <1>1, <1>5, <2>2 DEF Knows, Informed, Exists, Done
<1>10. Unopened' /\ OldPasswordRetired' /\ InviteStands'
  BY <1>5 DEF WrongPassword, Unopened, Exists, OldPasswordRetired, InviteStands
<1> QED  BY <1>1, <1>7, <1>8, <1>9, <1>10

\* A session opens under the password that the lock keeps in place.
LEMMA RightPasswordInv ==
  ASSUME IInv, NEW r \in Requests, RightPassword(r)
  PROVE  IInv'
<1> USE DEF IInv
<1>1. /\ req' \in [Requests -> Transaction] /\ req'[r] = Done
      /\ \A o \in Requests \ {r} : req'[o] = req[o]
      /\ Exclusive'
  BY Ended DEF RightPassword
<1>2. req[r].read = cred /\ req[r].guess = cred.gen /\ Exists
  BY DEF RightPassword, Verified, Knows, Informed
<1>3. /\ cred' \in Credential /\ cred'.gen = cred.gen /\ cred'.failed = 0 /\ ~cred'.locked
  BY DEF RightPassword, Types, Credential
<1>4. \/ session' = session
      \/ \E s \in Sessions : session' = [session EXCEPT ![s] = [state |-> "live", gen |-> cred.gen]]
  BY <1>2 DEF RightPassword
<1>5. cred.gen \in Gens  BY DEF Types, Credential
<1>6. session' \in [Sessions -> Session]  BY <1>4, <1>5 DEF Types, Session
<1>7. Types'  BY <1>1, <1>3, <1>6 DEF RightPassword, Types
<1>8. Counted'  BY <1>3 DEF RightPassword, Counted, TriesBounded
<1>9. Knows'
  <2>1. req[r].pc \in HasCredential  BY DEF RightPassword, HasCredential
  <2>2. ASSUME NEW o \in Requests \ {r} PROVE req[o].pc # "checked"
    BY <2>1 DEF Exclusive, Compatible, HasCredential
  <2> QED  BY <1>1, <1>3, <2>2 DEF Knows, Informed, Exists, Done
<1>10. Unopened'  BY <1>2, <1>3 DEF Unopened, Exists
<1>11. OldPasswordRetired'
  <2>1. \A s \in Sessions : session'[s].state = "live" => session'[s].gen = cred.gen
    BY <1>4 DEF OldPasswordRetired, Types, Session
  <2> QED  BY <2>1, <1>3 DEF RightPassword, OldPasswordRetired
<1>12. InviteStands'  BY <1>2, <1>3 DEF InviteStands, Exists
<1> QED  BY <1>1, <1>7, <1>8, <1>9, <1>10, <1>11, <1>12

-----------------------------------------------------------------------------
(* Passwords.                                                              *)

\* A request that keeps its row locks and tokens and takes those of pc.
LEMMA StepInv ==
  ASSUME IInv, NEW r \in Requests, NEW pc \in Pcs, Step(r, pc), pc \notin {"checked", "asking", "inviting"},
         UNCHANGED <<cred, active, session, token, tries, latest, lockouts>>,
         \A o \in Requests \ {r} : Compatible([req[r] EXCEPT !.pc = pc], req[o]),
         pc \in {"typed", "wants", "person", "holding", "asked"} => Exists,
         pc = "inserted" => ~Exists
  PROVE  IInv'
<1> DEFINE x == [req[r] EXCEPT !.pc = pc]
<1>1. req[r] \in Transaction  BY DEF IInv, Types
<1>2. x \in Transaction /\ x.pc = pc  BY <1>1 DEF Transaction
<1>3. req' = [req EXCEPT ![r] = x]  BY DEF Step, IInv, Types
<1>4. Informed(x)  BY <1>2 DEF Informed
<1> QED  BY <1>2, <1>3, <1>4, Advanced

LEMMA ChangePasswordInv ==
  ASSUME IInv, NEW r \in Requests, ChangePassword(r)
  PROVE  IInv'
<1> DEFINE x == [Done EXCEPT !.pc = "wants", !.read = cred]
<1>1. x \in Transaction  BY DoneTyped DEF Transaction, Pcs, IInv, Types
<1>2. \A o \in Requests : Compatible(x, req[o])
  BY DEF Compatible, Done, HasPerson, SharesPerson, HasCredential
<1>3. Informed(x)  BY DEF Informed, ChangePassword, Done
<1> QED  BY <1>1, <1>2, <1>3, Advanced DEF ChangePassword

LEMMA RequestResetInv ==
  ASSUME IInv, NEW r \in Requests, RequestReset(r)
  PROVE  IInv'
<1> DEFINE x == [Done EXCEPT !.pc = "asked"]
<1>1. x \in Transaction  BY DoneTyped DEF Transaction, Pcs
<1>2. \A o \in Requests : Compatible(x, req[o])
  BY DEF Compatible, Done, HasPerson, SharesPerson, HasCredential
<1>3. Informed(x)  BY DEF Informed, RequestReset, Done
<1> QED  BY <1>1, <1>2, <1>3, Advanced DEF RequestReset

\* The token's row shares a lock on the person, which keeps the password.
LEMMA InsertResetInv ==
  ASSUME IInv, NEW r \in Requests, NEW t \in Resets, InsertReset(r, t)
  PROVE  IInv'
<1> DEFINE x == [req[r] EXCEPT !.pc = "asking", !.guess = cred.gen, !.tokens = {t}]
<1>1. req[r] \in Transaction /\ cred.gen \in Gens /\ {t} \in SUBSET Tokens
  BY DEF IInv, Types, Credential, Tokens
<1>2. /\ x \in Transaction /\ x.pc = "asking" /\ x.guess = cred.gen /\ x.tokens = {t}
  BY <1>1 DEF Transaction, Pcs
<1>3. req' = [req EXCEPT ![r] = x]  BY DEF InsertReset, IInv, Types
<1> HIDE DEF x
<1>4. \A o \in Requests \ {r} : Compatible(x, req[o])
  BY <1>2 DEF InsertReset, PersonFree, TokenFree, Compatible, HasPerson, SharesPerson,
              HasCredential
<1>5. Exists  BY DEF InsertReset, IInv, Knows, Informed
<1>6. Informed(x)  BY <1>2, <1>5 DEF Informed
<1> QED  BY <1>2, <1>3, <1>4, <1>6, Advanced DEF InsertReset

LEMMA IssueResetInv ==
  ASSUME IInv, NEW r \in Requests, IssueReset(r)
  PROVE  IInv'
<1> USE DEF IInv
<1>1. /\ req' \in [Requests -> Transaction] /\ req'[r] = Done
      /\ \A o \in Requests \ {r} : req'[o] = req[o]
      /\ Exclusive'
  BY Ended DEF IssueReset
<1>2. Exists /\ req[r].guess = cred.gen  BY DEF IssueReset, Knows, Informed
<1>3. token' = [t \in Tokens |-> IF t \in req[r].tokens
                                 THEN [state |-> "live", gen |-> cred.gen] ELSE token[t]]
  BY <1>2 DEF IssueReset
<1>4. token' \in [Tokens -> Token]  BY <1>3 DEF Types, Token, Credential
<1>5. Types'  BY <1>1, <1>4 DEF IssueReset, Types
<1>6. Knows'  BY <1>1 DEF IssueReset, Knows, Informed, Exists, Done
<1>7. Unopened' /\ InviteStands'
  BY <1>2 DEF IssueReset, Unopened, Exists, InviteStands
<1>8. OldPasswordRetired'
  BY <1>3 DEF IssueReset, OldPasswordRetired, Tokens
<1>9. Counted'  BY DEF IssueReset, Counted, TriesBounded
<1> QED  BY <1>1, <1>5, <1>6, <1>7, <1>8, <1>9

LEMMA ResetPasswordInv ==
  ASSUME IInv, NEW r \in Requests, NEW t \in Resets, ResetPassword(r, t)
  PROVE  IInv'
<1> DEFINE x == [Done EXCEPT !.pc = "wants", !.tokens = {t}]
<1>1. {t} \in SUBSET Tokens  BY DEF Tokens
<1>2. x \in Transaction  BY <1>1, DoneTyped DEF Transaction, Pcs
<1>3. \A o \in Requests \ {r} : Compatible(x, req[o])
  BY DEF ResetPassword, TokenFree, Compatible, Done, HasPerson, SharesPerson, HasCredential
<1>4. Exists  BY DEF ResetPassword, IInv, Unopened
<1>5. Informed(x)  BY <1>4 DEF Informed, Done
<1> QED  BY <1>2, <1>3, <1>5, Advanced DEF ResetPassword

LEMMA LockPersonInv ==
  ASSUME IInv, NEW r \in Requests, LockPerson(r) \/ LockCredentials(r)
  PROVE  IInv'
<1>1. req[r] \in Transaction  BY DEF IInv, Types
<1>2. Exists  BY DEF LockPerson, LockCredentials, IInv, Knows, Informed
<1>3. CASE LockPerson(r)
  <2>1. \A o \in Requests \ {r} : Compatible([req[r] EXCEPT !.pc = "person"], req[o])
    BY <1>1, <1>3 DEF LockPerson, PersonFree, PersonUnshared, IInv, Exclusive, Compatible,
       Transaction, HasPerson, SharesPerson, HasCredential
  <2> QED  BY <1>2, <1>3, <2>1, StepInv DEF LockPerson, Pcs
<1>4. CASE LockCredentials(r)
  <2>1. \A o \in Requests \ {r} : Compatible([req[r] EXCEPT !.pc = "holding"], req[o])
    BY <1>1, <1>4 DEF LockCredentials, CredentialFree, IInv, Exclusive, Compatible,
       Transaction, HasPerson, SharesPerson, HasCredential
  <2> QED  BY <1>2, <1>4, <2>1, StepInv DEF LockCredentials, Pcs
<1> QED  BY <1>3, <1>4

\* Whoever holds both locks ends what the old password opened and issued; no reset
\* token is inserted and no sign-in checked meanwhile. The row's failures are
\* reset or those it had; none are counted against the new password yet.
LEMMA SetPasswordInv ==
  ASSUME IInv, NEW r \in Requests, SetPassword(r)
  PROVE  IInv'
<1> USE DEF IInv
<1>1. /\ req' \in [Requests -> Transaction] /\ req'[r] = Done
      /\ \A o \in Requests \ {r} : req'[o] = req[o]
      /\ Exclusive'
  BY Ended DEF SetPassword
<1>2. Exists  BY DEF SetPassword, Knows, Informed
<1>3. /\ cred' \in Credential /\ cred'.gen = cred.gen + 1 /\ cred'.gen > 0
  <2>1. PICK stays \in {FALSE, ~Loaded(r).locked} :
          cred' = [gen |-> cred.gen + 1,
                   failed |-> IF Loaded(r).failed = 0 THEN cred.failed ELSE 0,
                   locked |-> cred.locked /\ stays]
    BY DEF SetPassword
  <2> DEFINE n == IF Loaded(r).failed = 0 THEN cred.failed ELSE 0
             l == cred.locked /\ stays
  <2>2. cred.gen + 1 \in Gens /\ cred.gen + 1 > 0
    BY <1>2 DEF SetPassword, Types, Credential, Gens, Exists
  <2>3. n \in Nat /\ l \in BOOLEAN  BY DEF Types, Credential
  <2>4. cred' = [gen |-> cred.gen + 1, failed |-> n, locked |-> l]  BY <2>1
  <2> HIDE DEF n, l
  <2> QED  BY <2>2, <2>3, <2>4 DEF Credential
<1>4. session' \in [Sessions -> Session]
  BY DEF SetPassword, Revoked, Types, Session
<1>5. token' \in [Tokens -> Token]  BY UseType DEF SetPassword
<1>6. Types'  BY <1>1, <1>3, <1>4, <1>5 DEF SetPassword, Types
<1>7. Knows'
  <2>1. req[r].pc \in HasCredential /\ req[r].pc \in HasPerson
    BY DEF SetPassword, HasCredential, HasPerson
  <2>2. ASSUME NEW o \in Requests \ {r}
        PROVE  req[o].pc # "checked" /\ req[o].pc # "asking"
    BY <2>1 DEF Exclusive, Compatible, HasCredential, SharesPerson
  <2>3. ASSUME NEW o \in Requests \ {r} PROVE req[o].pc # "inserted"
    BY <1>2 DEF Knows, Informed
  <2> QED  BY <1>1, <1>3, <2>2, <2>3 DEF Knows, Informed, Exists, Done
<1>8. Unopened' /\ InviteStands'  BY <1>3 DEF Unopened, Exists, InviteStands, Types, Credential, Gens
<1>9. Counted'  BY <1>3 DEF SetPassword, Counted, TriesBounded, Credential
<1>10. OldPasswordRetired'
  <2>1. \A s \in Sessions : session'[s].state # "live"
    BY DEF SetPassword, Revoked, Types, Session
  <2>2. ASSUME NEW t \in Resets PROVE token'[t].state # "live"
    <3>1. t \in Tokens /\ (token[t].state = "live" => t \in Live(Resets))
      BY DEF Tokens, Live
    <3> QED  BY <3>1 DEF SetPassword, Use, Types, Token
  <2> QED  BY <2>1, <2>2 DEF OldPasswordRetired
<1> QED  BY <1>1, <1>6, <1>7, <1>8, <1>9, <1>10

-----------------------------------------------------------------------------
(* Invitations.                                                            *)

LEMMA InviteInv ==
  ASSUME IInv, NEW r \in Requests, Invite(r)
  PROVE  IInv'
<1> DEFINE x == [Done EXCEPT !.pc = "inviting", !.tokens = Live(Invites)]
<1>1. Live(Invites) \in SUBSET Tokens  BY DEF Live, Tokens
<1>2. x \in Transaction /\ x.pc = "inviting" /\ x.tokens = Live(Invites)
  BY <1>1, DoneTyped DEF Transaction, Pcs
<1>3. \A o \in Requests \ {r} : Compatible(x, req[o])
  BY <1>2 DEF Invite, TokenFree, Compatible, HasPerson, SharesPerson, HasCredential
<1>4. Informed(x)  BY <1>2 DEF Informed, Live
<1> QED  BY <1>2, <1>3, <1>4, Advanced DEF Invite

LEMMA IssueInviteInv ==
  ASSUME IInv, NEW r \in Requests, NEW t \in Invites, IssueInvite(r, t)
  PROVE  IInv'
<1> USE DEF IInv
<1>1. /\ req' \in [Requests -> Transaction] /\ req'[r] = Done
      /\ \A o \in Requests \ {r} : req'[o] = req[o]
      /\ Exclusive'
  BY Ended DEF IssueInvite
<1>2. t \in Tokens /\ t \notin Resets  BY DEF Tokens
<1>3. Use(req[r].tokens) \in [Tokens -> Token]  BY UseType
<1>4. /\ token' = [Use(req[r].tokens) EXCEPT ![t] = [state |-> "live", gen |-> cred.gen]]
      /\ token' \in [Tokens -> Token]
  BY <1>3 DEF IssueInvite, Issued, Types, Token, Credential
<1>5. Types'  BY <1>1, <1>4 DEF IssueInvite, Types
<1>6. Knows'  BY <1>1 DEF IssueInvite, Knows, Informed, Exists, Done
<1>7. ASSUME NEW u \in Resets PROVE u \in Tokens /\ token'[u] = token[u]
  <2>1. u \notin req[r].tokens
    BY PoolsAssumption DEF IssueInvite, Knows, Informed
  <2> QED  BY <1>2, <1>3, <1>4, <2>1 DEF Use, Tokens
<1>8. Unopened'  BY <1>7 DEF IssueInvite, Unopened, Exists
<1>9. OldPasswordRetired'  BY <1>7 DEF IssueInvite, OldPasswordRetired
<1>10. InviteStands'  BY <1>2, <1>3, <1>4 DEF IssueInvite, InviteStands
<1>11. Counted'  BY DEF IssueInvite, Counted, TriesBounded
<1> QED  BY <1>1, <1>5, <1>6, <1>8, <1>9, <1>10, <1>11

LEMMA AcceptInviteInv ==
  ASSUME IInv, NEW r \in Requests, NEW t \in Invites, AcceptInvite(r, t)
  PROVE  IInv'
<1> DEFINE x == [Done EXCEPT !.pc = "consumed", !.tokens = {t}]
<1>1. {t} \in SUBSET Tokens  BY DEF Tokens
<1>2. x \in Transaction  BY <1>1, DoneTyped DEF Transaction, Pcs
<1>3. \A o \in Requests \ {r} : Compatible(x, req[o])
  BY DEF AcceptInvite, TokenFree, Compatible, Done, HasPerson, SharesPerson, HasCredential
<1>4. Informed(x)  BY DEF Informed, Done
<1> QED  BY <1>2, <1>3, <1>4, Advanced DEF AcceptInvite

LEMMA AcceptConflictsInv ==
  ASSUME IInv, NEW r \in Requests, AcceptConflicts(r)
  PROVE  IInv'
<1> USE DEF IInv
<1>1. /\ req' \in [Requests -> Transaction] /\ req'[r] = Done
      /\ \A o \in Requests \ {r} : req'[o] = req[o]
      /\ Exclusive'
  BY Ended DEF AcceptConflicts
<1>2. Types'  BY <1>1, UseType DEF AcceptConflicts, Types
<1>3. Knows'  BY <1>1 DEF AcceptConflicts, Knows, Informed, Exists, Done
<1>4. Unopened' /\ InviteStands'  BY DEF AcceptConflicts, Unopened, Exists, InviteStands, Types, Credential, Gens
<1>5. OldPasswordRetired'
  BY DEF AcceptConflicts, OldPasswordRetired, Use, Types, Token, Tokens
<1>6. Counted'  BY DEF AcceptConflicts, Counted, TriesBounded
<1> QED  BY <1>1, <1>2, <1>3, <1>4, <1>5, <1>6

LEMMA InsertCredentialInv ==
  ASSUME IInv, NEW r \in Requests, InsertCredential(r) \/ CredentialInserted(r)
  PROVE  IInv'
<1>1. req[r] \in Transaction  BY DEF IInv, Types
<1>2. CASE InsertCredential(r)
  <2>1. \A o \in Requests \ {r} : Compatible([req[r] EXCEPT !.pc = "inserting"], req[o])
    BY <1>1, <1>2 DEF InsertCredential, IInv, Exclusive, Compatible, Transaction, HasPerson,
       SharesPerson, HasCredential
  <2> QED  BY <1>2, <2>1, StepInv DEF InsertCredential, Pcs
<1>3. CASE CredentialInserted(r)
  <2>1. \A o \in Requests \ {r} : Compatible([req[r] EXCEPT !.pc = "inserted"], req[o])
    BY <1>1, <1>3 DEF CredentialInserted, First, IInv, Exclusive, Compatible, Transaction,
       HasPerson, SharesPerson, HasCredential
  <2> QED  BY <1>3, <2>1, StepInv DEF CredentialInserted, Pcs
<1> QED  BY <1>2, <1>3

\* The first password: nothing is open under none, and nobody has another
\* credential inserted.
LEMMA ActivateInv ==
  ASSUME IInv, NEW r \in Requests, Activate(r)
  PROVE  IInv'
<1> USE DEF IInv
<1>1. /\ req' \in [Requests -> Transaction] /\ req'[r] = Done
      /\ \A o \in Requests \ {r} : req'[o] = req[o]
      /\ Exclusive'
  BY Ended DEF Activate
<1>2. ~Exists  BY DEF Activate, Knows, Informed
<1>3. /\ cred' \in Credential /\ cred'.gen = 1 /\ cred'.failed = cred.failed
      /\ cred'.locked = cred.locked
  BY DEF Activate, Types, Credential, Gens
<1>4. token' \in [Tokens -> Token]  BY UseType DEF Activate
<1>5. Types'  BY <1>1, <1>3, <1>4 DEF Activate, Types
<1>6. Knows'
  <2>1. ASSUME NEW o \in Requests \ {r}
        PROVE  req[o].pc \notin {"typed", "checked", "wants", "person", "holding", "asked",
                                 "asking", "inserted"}
    BY <1>2 DEF Activate, Knows, Informed, Exclusive, Compatible
  <2> QED  BY <1>1, <2>1 DEF Knows, Informed, Done
<1>7. Unopened' /\ InviteStands'  BY <1>3 DEF Unopened, Exists, InviteStands
<1>8. OldPasswordRetired'
  <2>1. \A s \in Sessions : session[s].state # "live"  BY <1>2 DEF Unopened
  <2>2. \A t \in Resets : token[t].state # "live"  BY <1>2 DEF Unopened
  <2>3. \A t \in Resets : token'[t].state # "live"
    BY <2>2 DEF Activate, Use, Types, Token, Tokens
  <2> QED  BY <2>1, <2>3 DEF Activate, OldPasswordRetired
<1>9. Counted'  BY <1>3 DEF Activate, Counted, TriesBounded
<1> QED  BY <1>1, <1>5, <1>6, <1>7, <1>8, <1>9

-----------------------------------------------------------------------------
(* What no request does.                                                   *)

\* A step that leaves the requests and the password alone, ends sessions and
\* tokens at most, and counts from nothing.
LEMMA Around ==
  ASSUME IInv, UNCHANGED req,
         cred' \in Credential, cred'.gen = cred.gen, Knows', Counted',
         active' \in BOOLEAN, session' \in [Sessions -> Session],
         token' \in [Tokens -> Token], tries' \in Nat, latest' \in SUBSET Invites,
         lockouts' \in 0 .. MaxLockouts,
         \A s \in Sessions : session'[s] = session[s] \/ (session[s].state = "live" /\ session'[s].state = "revoked"),
         \A t \in Resets : token'[t] = token[t] \/ (token[t].state = "live" /\ token'[t].state = "used"),
         InviteStands'
  PROVE  IInv'
<1> USE DEF IInv
<1>1. Types'  BY DEF Types
<1>2. Exclusive'  BY DEF Exclusive
<1>3. Unopened'  BY DEF Unopened, Exists
<1>4. OldPasswordRetired'  BY DEF OldPasswordRetired
<1> QED  BY <1>1, <1>2, <1>3, <1>4

LEMMA SignOutInv ==
  ASSUME IInv, NEW s \in Sessions, SignOut(s)
  PROVE  IInv'
<1> USE DEF IInv
<1>1. Knows' /\ Counted' /\ InviteStands'
  BY DEF SignOut, Knows, Informed, Exists, Counted, TriesBounded, InviteStands
<1>2. session' \in [Sessions -> Session]  BY DEF SignOut, Types, Session
<1>3. \A o \in Sessions : session'[o] = session[o]
                          \/ (session[o].state = "live" /\ session'[o].state = "revoked")
  BY DEF SignOut, Types, Session
<1> QED  BY <1>1, <1>2, <1>3, Around DEF SignOut, Types

LEMMA TokenExpiresInv ==
  ASSUME IInv, NEW t \in Tokens, TokenExpires(t)
  PROVE  IInv'
<1> USE DEF IInv
<1>1. Knows' /\ Counted'
  BY DEF TokenExpires, Knows, Informed, Exists, Counted, TriesBounded
<1>2. token' \in [Tokens -> Token]  BY DEF TokenExpires, Types, Token
<1>3. \A u \in Tokens : token'[u] = token[u]
                        \/ (u = t /\ token[u].state = "live" /\ token'[u].state = "used")
  BY DEF TokenExpires, Types, Token
<1>4. InviteStands'
  BY <1>3 DEF TokenExpires, InviteStands, Types, Tokens
<1> QED  BY <1>1, <1>2, <1>3, <1>4, Around DEF TokenExpires, Types, Tokens

LEMMA ReinviteInv ==
  ASSUME IInv, NEW t \in Invites, Reinvite(t)
  PROVE  IInv'
<1> USE DEF IInv
<1>1. Knows' /\ Counted'
  BY DEF Reinvite, Knows, Informed, Exists, Counted, TriesBounded
<1>2. t \in Tokens /\ t \notin Resets  BY DEF Tokens
<1>3. token' \in [Tokens -> Token]  BY DEF Reinvite, Types, Token, Credential
<1>4. InviteStands'  BY <1>2 DEF Reinvite, InviteStands, Types
<1>5. \A u \in Resets : token'[u] = token[u]  BY <1>2 DEF Reinvite, Types, Tokens
<1> QED  BY <1>1, <1>3, <1>4, <1>5, Around DEF Reinvite, Types

\* The lock-out ends with the counter where it was.
LEMMA LockoutEndsInv ==
  ASSUME IInv, LockoutEnds
  PROVE  IInv'
<1> USE DEF IInv
<1>1. cred' \in Credential /\ cred'.gen = cred.gen /\ cred'.failed = cred.failed
  BY DEF LockoutEnds, Types, Credential
<1>2. \A r \in Requests : req[r].pc # "checked"  BY DEF LockoutEnds, HasCredential
<1>3. Knows'  BY <1>1, <1>2 DEF LockoutEnds, Knows, Informed, Exists
<1>4. Counted'  BY <1>1 DEF LockoutEnds, Types, Credential, Counted, TriesBounded
<1>5. InviteStands'  BY <1>1 DEF LockoutEnds, InviteStands
<1>6. lockouts' \in 0 .. MaxLockouts  BY DEF LockoutEnds, Types
<1> QED  BY <1>1, <1>3, <1>4, <1>5, <1>6, Around DEF LockoutEnds, Types

LEMMA SetStatusInv ==
  ASSUME IInv, SetStatus
  PROVE  IInv'
<1> USE DEF IInv
<1>1. Knows' /\ Counted' /\ InviteStands'
  BY DEF SetStatus, Knows, Informed, Exists, Counted, TriesBounded, InviteStands
<1>2. /\ session' \in [Sessions -> Session]
      /\ \A s \in Sessions : session'[s] = session[s]
                             \/ (session[s].state = "live" /\ session'[s].state = "revoked")
  BY DEF SetStatus, Revoked, Types, Session
<1> QED  BY <1>1, <1>2, Around DEF SetStatus, Types

-----------------------------------------------------------------------------

LEMMA Invariance == Spec => []IInv
<1>1. ASSUME IInv, [Next]_vars PROVE IInv'
  <2>1. ASSUME NEW r \in Requests, SignInStep(r) PROVE IInv'
    BY <1>1, <2>1, SignInInv, LockCredentialInv, AbortInv, WrongPasswordInv, RightPasswordInv
    DEF SignInStep
  <2>2. ASSUME NEW r \in Requests, PasswordStep(r) PROVE IInv'
    BY <1>1, <2>2, ChangePasswordInv, RequestResetInv, InsertResetInv, IssueResetInv, ResetPasswordInv,
       LockPersonInv, SetPasswordInv DEF PasswordStep
  <2>3. ASSUME NEW r \in Requests, InviteStep(r) PROVE IInv'
    BY <1>1, <2>3, InviteInv, IssueInviteInv, AcceptInviteInv, AcceptConflictsInv,
       InsertCredentialInv, ActivateInv DEF InviteStep
  <2>4. CASE UNCHANGED vars
    BY <1>1, <2>4 DEF vars, IInv, Types, Exclusive, Knows, Informed, Exists, Unopened, Counted,
       TriesBounded, OldPasswordRetired, InviteStands
  <2> QED
    BY <1>1, <2>1, <2>2, <2>3, <2>4, AbortInv, SignOutInv, TokenExpiresInv, ReinviteInv,
       LockoutEndsInv, SetStatusInv DEF Next
<1> QED  BY <1>1, InitInv, PTL DEF Spec

\* Every variable keeps its type and every row lock has one holder, whatever the
\* requests do in whatever order.
THEOREM AccountsTypeCorrect == Spec => []TypeOK
<1>1. IInv => TypeOK
  BY DEF IInv, Types, Transaction, Exclusive, Compatible, Unopened, Exists, Credential, Gens, TypeOK
<1> QED  BY <1>1, Invariance, PTL

\* However many sign-ins run at once, they do not compare more wrong passwords
\* than the limit before the lock-out.
THEOREM TriesBoundedAlways == Spec => []TriesBounded
<1>1. IInv => TriesBounded  BY DEF IInv, Counted
<1> QED  BY <1>1, Invariance, PTL

\* However sign-ins, resets, changes and invitations interleave: a session that is open was
\* opened with the current password, a reset token that is live was inserted under it, and
\* the invitation issued last opens the account until it expires.
THEOREM SecretsCurrentAlways == Spec => []SecretsCurrent
<1>1. IInv => SecretsCurrent  BY DEF IInv, SecretsCurrent
<1> QED  BY <1>1, Invariance, PTL
=============================================================================
