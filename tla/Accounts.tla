------------------------------- MODULE Accounts -------------------------------
(***************************************************************************)
(* One account and the requests that work on it at the same time: sign-in, *)
(* password change, password reset, invitation and activation, suspension. *)
(* Each request is a database transaction that takes row locks step by     *)
(* step: the credential (sign-in, password), the person (password), single *)
(* tokens (reset, activation); a foreign key to the person takes a shared  *)
(* lock.  Sign-in and password change take two of them in opposite order,  *)
(* so PostgreSQL may have to abort one of them.                            *)
(*                                                                         *)
(* Simplified: a password is the generation it was set in; tokens and      *)
(* sessions come from small pools; tokens and lock-outs expire when time   *)
(* wants; names, addresses and roles are left out.                         *)
(***************************************************************************)
EXTENDS Naturals, FiniteSets

CONSTANTS
  Requests,      \* requests in flight at once
  Sessions,      \* pool of session rows
  Resets,        \* pool of password-reset tokens
  Invites,       \* pool of invitation tokens
  MaxFailed,     \* wrong passwords before the lock-out (5 in the source)
  MaxGen,        \* passwords the account may have, one after the other
  MaxLockouts    \* lock-outs that may run out

ASSUME PoolsAssumption == Resets \cap Invites = {}
ASSUME LimitsAssumption == MaxFailed \in Nat \ {0} /\ MaxGen \in Nat \ {0} /\ MaxLockouts \in Nat

VARIABLES
  cred,      \* the credential: password generation (0: none yet), failures, lock
  active,    \* the person's status
  session,   \* [Sessions -> state and the password it was opened with]
  token,     \* [Tokens -> state and the password it was issued under]
  req,       \* [Requests -> the open transaction]
  tries,     \* wrong passwords compared since the last success, reset or lock-out
  latest,    \* the invitation issued last
  lockouts   \* lock-outs that have run out

vars == <<cred, active, session, token, req, tries, latest, lockouts>>

Tokens == Resets \cup Invites
Gens == 0 .. MaxGen

Credential == [gen : Gens, failed : Nat, locked : BOOLEAN]
Session == [state : {"none", "live", "revoked"}, gen : Gens]
Token == [state : {"none", "live", "used"}, gen : Gens]

-----------------------------------------------------------------------------
(* Transactions and locks.                                                 *)

\* A request: where it is, the password it typed or inserted its token under,
\* the credential it read, and the tokens it has locked or inserted.
Done == [pc |-> "done", guess |-> 0, read |-> [gen |-> 0, failed |-> 0, locked |-> FALSE],
         active |-> FALSE, tokens |-> {}]

Exists == cred.gen > 0

\* Row locks: on the credential, the person (exclusive, shared), a token.
HasCredential == {"checked", "holding"}
HasPerson == {"person", "holding"}
SharesPerson == {"asking"}

\* Mutant: the credential is read without FOR UPDATE.
CredentialFree_NoLock(r) == TRUE

CredentialFree(r) == \A o \in Requests \ {r} : req[o].pc \notin HasCredential

PersonFree(r) == \A o \in Requests \ {r} : req[o].pc \notin HasPerson

\* Mutant: a password change does not lock the person.
PersonUnshared_NoLock(r) == TRUE

PersonUnshared(r) == \A o \in Requests \ {r} : req[o].pc \notin SharesPerson

\* Mutant: a token is read without FOR UPDATE.
TokenFree_NoLock(r, t) == TRUE

TokenFree(r, t) == \A o \in Requests \ {r} : t \notin req[o].tokens

Commit(r) == req' = [req EXCEPT ![r] = Done]
Step(r, pc) == req' = [req EXCEPT ![r].pc = pc]

-----------------------------------------------------------------------------
(* Sign-in: authenticate and start_session.                                *)

\* The statement reads the person at its start and waits for the credential.
\* The password typed is the current one, or a wrong one.
SignIn(r) ==
  /\ req[r].pc = "done" /\ Exists
  /\ \E g \in {0, cred.gen} :
       req' = [req EXCEPT ![r] = [Done EXCEPT !.pc = "typed", !.guess = g, !.active = active]]
  /\ UNCHANGED <<cred, active, session, token, tries, latest, lockouts>>

\* The row is locked and read as last committed.
LockCredential(r) ==
  /\ req[r].pc = "typed" /\ CredentialFree(r)
  /\ req' = [req EXCEPT ![r].pc = "checked", ![r].read = cred]
  /\ UNCHANGED <<cred, active, session, token, tries, latest, lockouts>>

\* Locked out: the password is not compared.
RefuseLocked(r) ==
  /\ req[r].pc = "checked" /\ req[r].read.locked
  /\ Commit(r)
  /\ UNCHANGED <<cred, active, session, token, tries, latest, lockouts>>

Verified(r) == ~req[r].read.locked /\ req[r].guess = req[r].read.gen

\* A wrong password counts; the last one allowed starts the lock-out.
WrongPassword(r) ==
  /\ req[r].pc = "checked" /\ ~req[r].read.locked /\ ~Verified(r)
  /\ cred' = [cred EXCEPT !.failed = req[r].read.failed + 1,
                          !.locked = @ \/ req[r].read.failed + 1 >= MaxFailed]
  /\ tries' = tries + 1
  /\ Commit(r)
  /\ UNCHANGED <<active, session, token, latest, lockouts>>

\* Right: the counter is reset and, for an active person, a session opened,
\* which shares a lock on the person.
RightPassword(r) ==
  /\ req[r].pc = "checked" /\ Verified(r)
  /\ cred' = [cred EXCEPT !.failed = 0, !.locked = FALSE]
  /\ tries' = 0
  /\ IF req[r].active
     THEN /\ PersonFree(r)
          /\ \E s \in Sessions :
               /\ session[s].state = "none"
               /\ session' = [session EXCEPT ![s] = [state |-> "live", gen |-> req[r].guess]]
     ELSE UNCHANGED session
  /\ Commit(r)
  /\ UNCHANGED <<active, token, latest, lockouts>>

\* revoke_session.
SignOut(s) ==
  /\ session[s].state = "live"
  /\ session' = [session EXCEPT ![s].state = "revoked"]
  /\ UNCHANGED <<cred, active, token, req, tries, latest, lockouts>>

\* The fifteen minutes pass; the counter stays where it is.
LockoutEnds ==
  /\ cred.locked /\ lockouts < MaxLockouts
  /\ \A r \in Requests : req[r].pc \notin HasCredential
  /\ cred' = [cred EXCEPT !.locked = FALSE]
  /\ tries' = 0 /\ lockouts' = lockouts + 1
  /\ UNCHANGED <<active, session, token, req, latest>>

-----------------------------------------------------------------------------
(* Password change and reset: set_account_password.                        *)

\* password_change compares the current password with the credential it loads
\* without a lock, and keeps in its identity map.
ChangePassword(r) ==
  /\ req[r].pc = "done" /\ Exists
  /\ \E s \in Sessions : session[s].state = "live" /\ active
  /\ req' = [req EXCEPT ![r] = [Done EXCEPT !.pc = "wants", !.read = cred]]
  /\ UNCHANGED <<cred, active, session, token, tries, latest, lockouts>>

\* request_password_reset finds person and credential without a lock.
RequestReset(r) ==
  /\ req[r].pc = "done" /\ Exists
  /\ req' = [req EXCEPT ![r] = [Done EXCEPT !.pc = "asked"]]
  /\ UNCHANGED <<cred, active, session, token, tries, latest, lockouts>>

\* _issue_token: the inserted row shares a lock on the person, or waits for it.
InsertReset(r, t) ==
  /\ req[r].pc = "asked" /\ PersonFree(r)
  /\ t \in Resets /\ token[t].state = "none" /\ TokenFree(r, t)
  /\ req' = [req EXCEPT ![r].pc = "asking", ![r].guess = cred.gen, ![r].tokens = {t}]
  /\ UNCHANGED <<cred, active, session, token, tries, latest, lockouts>>

IssueReset(r) ==
  /\ req[r].pc = "asking"
  /\ token' = [t \in Tokens |-> IF t \in req[r].tokens
                                THEN [state |-> "live", gen |-> req[r].guess] ELSE token[t]]
  /\ Commit(r)
  /\ UNCHANGED <<cred, active, session, tries, latest, lockouts>>

\* reset_password consumes its token first.
ResetPassword(r, t) ==
  /\ req[r].pc = "done" /\ t \in Resets
  /\ TokenFree(r, t) /\ token[t].state = "live"
  /\ req' = [req EXCEPT ![r] = [Done EXCEPT !.pc = "wants", !.tokens = {t}]]
  /\ UNCHANGED <<cred, active, session, token, tries, latest, lockouts>>

LockPerson(r) ==
  /\ req[r].pc = "wants" /\ PersonFree(r) /\ PersonUnshared(r)
  /\ Step(r, "person")
  /\ UNCHANGED <<cred, active, session, token, tries, latest, lockouts>>

LockCredentials(r) ==
  /\ req[r].pc = "person" /\ CredentialFree(r)
  /\ Step(r, "holding")
  /\ UNCHANGED <<cred, active, session, token, tries, latest, lockouts>>

Live(pool) == {t \in pool : token[t].state = "live"}
Use(set) == [t \in Tokens |-> IF t \in set THEN [token[t] EXCEPT !.state = "used"] ELSE token[t]]

\* Mutant: open sessions are kept.
Revoked_None == session

\* Every session that is open.
Revoked == [s \in Sessions |-> IF session[s].state = "live"
                               THEN [session[s] EXCEPT !.state = "revoked"] ELSE session[s]]

\* The row as the transaction knows it: a change loaded it before the lock, and
\* locking it does not load it again; a reset loads it with the lock.
Loaded(r) == IF req[r].tokens = {} THEN req[r].read ELSE cred

\* The new password ends the sessions, the reset tokens and the lock-out. What was
\* loaded as zero, or as no lock-out, is not written: failures and a lock-out that
\* were committed in between stay. A stamp that has run out is loaded, and cleared.
SetPassword(r) ==
  /\ req[r].pc = "holding" /\ cred.gen < MaxGen
  /\ \A t \in Live(Resets) : TokenFree(r, t)
  /\ \E stays \in {FALSE, ~Loaded(r).locked} :
       cred' = [gen |-> cred.gen + 1,
                failed |-> IF Loaded(r).failed = 0 THEN cred.failed ELSE 0,
                locked |-> cred.locked /\ stays]
  /\ tries' = 0
  /\ session' = Revoked
  /\ token' = Use(Live(Resets) \cup req[r].tokens)
  /\ Commit(r)
  /\ UNCHANGED <<active, latest, lockouts>>

-----------------------------------------------------------------------------
(* Invitation and activation.                                              *)

\* issue_invite_for_person, on an account the handler saw without a credential:
\* the outstanding invitations are locked and invalidated.
Invite(r) ==
  /\ req[r].pc = "done" /\ ~Exists
  /\ \A t \in Live(Invites) : TokenFree(r, t)
  /\ req' = [req EXCEPT ![r] = [Done EXCEPT !.pc = "inviting", !.tokens = Live(Invites)]]
  /\ UNCHANGED <<cred, active, session, token, tries, latest, lockouts>>

\* Mutant: the new invitation is issued before the outstanding ones are ended.
Issued_ThenEnded(r, t) == Use(req[r].tokens \cup Live(Invites) \cup {t})

\* The invitations locked above are used up, and a new one is live.
Issued(r, t) == [Use(req[r].tokens) EXCEPT ![t] = [state |-> "live", gen |-> cred.gen]]

IssueInvite(r, t) ==
  /\ req[r].pc = "inviting"
  /\ t \in Invites /\ token[t].state = "none"
  /\ token' = Issued(r, t)
  /\ latest' = {t}
  /\ Commit(r)
  /\ UNCHANGED <<cred, active, session, tries, lockouts>>

\* reinvite_stranded issues one more and leaves the outstanding ones alone.
Reinvite(t) ==
  /\ ~Exists /\ active
  /\ t \in Invites /\ token[t].state = "none"
  /\ token' = [token EXCEPT ![t] = [state |-> "live", gen |-> cred.gen]]
  /\ latest' = {t}
  /\ UNCHANGED <<cred, active, session, req, tries, lockouts>>

\* accept_invite consumes the token.
AcceptInvite(r, t) ==
  /\ req[r].pc = "done" /\ t \in Invites
  /\ TokenFree(r, t) /\ token[t].state = "live"
  /\ req' = [req EXCEPT ![r] = [Done EXCEPT !.pc = "consumed", !.tokens = {t}]]
  /\ UNCHANGED <<cred, active, session, token, tries, latest, lockouts>>

\* The account has a credential: refused, and the token stays consumed.
AcceptConflicts(r) ==
  /\ req[r].pc = "consumed" /\ Exists
  /\ token' = Use(req[r].tokens)
  /\ Commit(r)
  /\ UNCHANGED <<cred, active, session, tries, latest, lockouts>>

\* No credential is seen, and one inserted; the unique address makes it wait
\* for another that is being inserted. That one waits for this one's token when
\* it ends the outstanding invitations, so the database aborts one of the two.
InsertCredential(r) ==
  /\ req[r].pc = "consumed" /\ ~Exists
  /\ Step(r, "inserting")
  /\ UNCHANGED <<cred, active, session, token, tries, latest, lockouts>>

First(r) == \A o \in Requests \ {r} : req[o].pc # "inserted"

CredentialInserted(r) ==
  /\ req[r].pc = "inserting" /\ ~Exists /\ First(r)
  /\ Step(r, "inserted")
  /\ UNCHANGED <<cred, active, session, token, tries, latest, lockouts>>

Activate(r) ==
  /\ req[r].pc = "inserted"
  /\ \A t \in Live(Invites) : TokenFree(r, t)
  /\ cred' = [cred EXCEPT !.gen = 1]
  /\ token' = Use(Live(Invites) \cup req[r].tokens)
  /\ Commit(r)
  /\ UNCHANGED <<active, session, tries, latest, lockouts>>

-----------------------------------------------------------------------------
(* Suspension, time, failure.                                              *)

\* set_account_status; the write waits for a lock on the person.
SetStatus ==
  /\ \A r \in Requests : req[r].pc \notin HasPerson
  /\ active' = ~active
  /\ session' = IF active THEN Revoked ELSE session
  /\ UNCHANGED <<cred, token, req, tries, latest, lockouts>>

\* A token's time is over; for the checks it is as good as used.
TokenExpires(t) ==
  /\ token[t].state = "live" /\ \A r \in Requests : TokenFree(r, t)
  /\ token' = [token EXCEPT ![t].state = "used"]
  /\ latest' = latest \ {t}
  /\ UNCHANGED <<cred, active, session, req, tries, lockouts>>

\* An exception, a closed connection, or PostgreSQL breaking a deadlock:
\* nothing of the transaction stays.
Abort(r) ==
  /\ req[r].pc # "done"
  /\ Commit(r)
  /\ UNCHANGED <<cred, active, session, token, tries, latest, lockouts>>

Init ==
  /\ cred = [gen |-> 0, failed |-> 0, locked |-> FALSE] /\ active = TRUE
  /\ session = [s \in Sessions |-> [state |-> "none", gen |-> 0]]
  /\ token = [t \in Tokens |-> [state |-> "none", gen |-> 0]]
  /\ req = [r \in Requests |-> Done]
  /\ tries = 0 /\ latest = {} /\ lockouts = 0

SignInStep(r) == \/ SignIn(r) \/ LockCredential(r) \/ RefuseLocked(r)
                 \/ WrongPassword(r) \/ RightPassword(r)
PasswordStep(r) == \/ ChangePassword(r) \/ RequestReset(r) \/ IssueReset(r)
                   \/ LockPerson(r) \/ LockCredentials(r) \/ SetPassword(r)
                   \/ \E t \in Resets : InsertReset(r, t) \/ ResetPassword(r, t)
InviteStep(r) == \/ Invite(r) \/ AcceptConflicts(r) \/ InsertCredential(r)
                 \/ CredentialInserted(r) \/ Activate(r)
                 \/ \E t \in Invites : IssueInvite(r, t) \/ AcceptInvite(r, t)

Next ==
  \/ \E r \in Requests : SignInStep(r) \/ PasswordStep(r) \/ InviteStep(r) \/ Abort(r)
  \/ \E s \in Sessions : SignOut(s)
  \/ \E t \in Tokens : TokenExpires(t)
  \/ \E t \in Invites : Reinvite(t)
  \/ LockoutEnds \/ SetStatus

Spec == Init /\ [][Next]_vars

-----------------------------------------------------------------------------
(* Properties.                                                             *)

Pcs == {"done", "typed", "checked", "wants", "person", "holding", "asked", "asking",
        "inviting", "consumed", "inserting", "inserted"}

\* Every variable has its type; no row lock has two holders; an account
\* without a credential has no session and no reset token (models.auth).
TypeOK ==
  /\ cred \in Credential /\ active \in BOOLEAN
  /\ session \in [Sessions -> Session] /\ token \in [Tokens -> Token]
  /\ req \in [Requests -> [pc : Pcs, guess : Gens, read : Credential,
                           active : BOOLEAN, tokens : SUBSET Tokens]]
  /\ tries \in Nat /\ latest \in SUBSET Invites /\ lockouts \in 0 .. MaxLockouts
  /\ \A r, o \in Requests :
       r # o => /\ req[r].tokens \cap req[o].tokens = {}
                /\ ~(req[r].pc \in HasPerson /\ req[o].pc \in HasPerson)
  /\ cred.gen = 0 => /\ \A s \in Sessions : session[s].state = "none"
                     /\ \A t \in Resets : token[t].state = "none"

\* No more wrong passwords are compared than the limit before a lock-out,
\* however many sign-ins run at once: the credential row is locked between
\* reading the counter and writing it (authenticate).
TriesBounded == tries <= MaxFailed /\ (tries = MaxFailed => cred.locked)

\* A password change retires what was opened or issued under the old password: a
\* live session was opened with the current one, and a live reset token was
\* inserted under it (set_account_password against a sign-in, or a token inserted
\* and not yet committed). Of a reset only asked for under the old password it says
\* nothing: such a request inserts its token after the change, and the token lives.
OldPasswordRetired ==
  /\ \A s \in Sessions : session[s].state = "live" => session[s].gen = cred.gen
  /\ \A t \in Resets : token[t].state = "live" => token[t].gen = cred.gen

\* An account that waits for its activation can be activated with the link
\* issued last, until that expires: no reissue, failed activation or deadlock
\* takes it away (issue_invite_for_person, accept_invite).
InviteStands == cred.gen = 0 => \A t \in latest : token[t].state = "live"

\* What opens the account is what its password and its last invitation say.
SecretsCurrent == OldPasswordRetired /\ InviteStands
=============================================================================
