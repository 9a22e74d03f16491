-------------------------------- MODULE Auth --------------------------------
(***************************************************************************)
(* Registration, login, passkeys and sessions: src/src/auth/webauthn.ts    *)
(* and src/src/auth/sessions.ts over the D1 statements of                  *)
(* src/src/auth/challenges.ts and src/src/auth/repository.ts, called by    *)
(* the handlers of src/src/auth/routes.ts.                                 *)
(*                                                                         *)
(* A ceremony is one WebAuthn exchange: the challenge row the options      *)
(* handler stores together with the answer the authenticator gives to it.  *)
(* A ceremony names the account it would create and the session it opens.  *)
(* A client is one request; every action is one D1 statement or batch, and *)
(* a request may stop between two.  The options handlers only decide and   *)
(* insert the challenge; what happens between the two is the same as what  *)
(* happens between the challenge and its use, so each is one action.       *)
(*                                                                         *)
(* Data: an authenticator counts its assertions (one that always reports 0 *)
(* is never compared).  The expiry of an invite and of a challenge is      *)
(* checked once, where a ceremony begins and where its answer is first     *)
(* read: it can only keep StartInvite and Present from happening, and a    *)
(* behaviour in which they do not happen is one of the model.  Rate        *)
(* limits, Turnstile, the daily caps and the CSRF check likewise.          *)
(***************************************************************************)
EXTENDS Integers, FiniteSets, Sequences, SequencesExt

CONSTANTS
  Ceremony,     \* challenges, positive integers
  Passkey,      \* credential ids
  FirstKey,     \* the founder's passkey
  Invite,
  NoInvite,
  Client,       \* requests in progress
  MaxAccounts,  \* resolveMaxTotalAccounts
  MaxPasskeys,  \* resolveMaxPasskeysPerAccount
  MaxSessions,  \* resolveMaxActiveSessionsPerAccount
  MaxStops      \* bound on the requests that stop half-way

ASSUME CeremonyAssumption == Ceremony \subseteq Nat \ {0} /\ IsFiniteSet(Ceremony)
ASSUME PasskeyAssumption == FirstKey \in Passkey /\ IsFiniteSet(Passkey)
ASSUME InviteAssumption == NoInvite \notin Invite
ASSUME ClientAssumption == IsFiniteSet(Client) /\ Client # {}
ASSUME LimitAssumption ==
  /\ MaxAccounts \in Nat \ {0}
  /\ MaxPasskeys \in Nat \ {0}
  /\ MaxSessions \in Nat \ {0}
  /\ MaxStops \in Nat

\* The founder's account and the session of its registration are named 0.
Founder == 0
Account == Ceremony \union {Founder}
Kinds == {"none", "invite", "open", "add", "login"}
NoCeremony == [kind |-> "none", who |-> Founder, invite |-> NoInvite,
               key |-> FirstKey, count |-> 0]
Labels == {"idle", "claim", "commit", "undo", "cap", "find", "store",
           "login", "owner", "bump", "count", "oldest", "revoke", "insert",
           "delete", "close"}

VARIABLES
  mode,       \* REGISTRATION_MODE of the deployed worker
  usedBy,     \* the ceremony that consumed an invite, 0 while consumed_at is NULL
  \* auth_challenges and the authenticators' answers
  ceremony,   \* purpose, metadata and answer
  state,      \* "new" before the insert, "live" or "used"
  assertions, \* how often an authenticator has signed
  \* accounts, webauthn_credentials, sessions
  accounts,
  owner,      \* webauthn_credentials.account_id, -1 without a row
  signCount,  \* webauthn_credentials.sign_count
  settled,    \* history: the highest counter that a login wrote while no other login
              \* with the passkey was between its verification and its write
  active,     \* sessions neither revoked nor expired, oldest first
  \* requests
  pc,
  cer,        \* the ceremony the request answers
  acc,        \* the account it works for
  env,        \* REGISTRATION_MODE of the worker that runs it
  target,     \* session to revoke, or passkey to delete
  stops,
  \* history
  refused,    \* ceremonies answered REGISTRATION_CLOSED
  stranded,   \* accounts whose undo stopped
  crowded,    \* accounts with two passkey additions under way at once
  raced       \* two open registrations have been past the count at once

ceremonies == <<ceremony, state, assertions>>
credentials == <<owner, signCount, settled>>
tables == <<accounts, credentials, active>>
locals == <<cer, acc, env, target>>
history == <<refused, stranded, crowded, raced>>
vars == <<mode, usedBy, ceremonies, tables, pc, locals, stops, history>>

Keys(a) == {k \in Passkey : owner[k] = a}

\* A list of sessions without one of them.
Without(list, s) == RemoveAt(list, CHOOSE i \in 1 .. Len(list) : list[i] = s)

\* Additions of a passkey to a that were offered and may still be stored.
Adding(a) ==
  {ch \in Ceremony :
     /\ ceremony[ch].kind = "add" /\ ceremony[ch].who = a
     /\ \/ state[ch] = "live"
        \/ \E c \in Client : cer[c] = ch /\ pc[c] \in {"find", "store"}}

TypeOK ==
  /\ mode \in {"invite", "open", "closed"}
  /\ usedBy \in [Invite -> Account]
  /\ ceremony \in [Ceremony -> [kind : Kinds, who : Account,
       invite : Invite \union {NoInvite}, key : Passkey, count : Nat]]
  /\ state \in [Ceremony -> {"new", "live", "used"}]
  /\ assertions \in [Passkey -> Nat]
  /\ accounts \subseteq Account
  /\ owner \in [Passkey -> accounts \union {-1}]
  /\ signCount \in [Passkey -> Nat]
  /\ settled \in [Passkey -> Nat]
  /\ active \in [Account -> Seq(Account)]
  /\ \A a \in Account \ accounts : active[a] = <<>>
  /\ pc \in [Client -> Labels]
  /\ cer \in [Client -> Account]
  /\ acc \in [Client -> Account]
  /\ env \in [Client -> {"invite", "open", "closed"}]
  /\ target \in [Client -> Account \union Passkey]
  /\ stops \in 0 .. MaxStops
  /\ refused \subseteq Ceremony
  /\ stranded \subseteq Account
  /\ crowded \subseteq Account
  /\ raced \in BOOLEAN

\* One account exists: its passkey and the session of its registration.
Init ==
  /\ mode \in {"invite", "open", "closed"}
  /\ usedBy = [i \in Invite |-> 0]
  /\ ceremony = [ch \in Ceremony |-> NoCeremony]
  /\ state = [ch \in Ceremony |-> "new"]
  /\ assertions = [k \in Passkey |-> 0]
  /\ accounts = {Founder}
  /\ owner = [k \in Passkey |-> IF k = FirstKey THEN Founder ELSE -1]
  /\ signCount = [k \in Passkey |-> 0]
  /\ settled = [k \in Passkey |-> 0]
  /\ active = [a \in Account |-> IF a = Founder THEN <<Founder>> ELSE <<>>]
  /\ pc = [c \in Client |-> "idle"]
  /\ cer = [c \in Client |-> 0]
  /\ acc = [c \in Client |-> Founder]
  /\ env = [c \in Client |-> "invite"]
  /\ target = [c \in Client |-> Founder]
  /\ stops = 0
  /\ refused = {} /\ stranded = {} /\ crowded = {} /\ raced = FALSE

Goto(c, label) == pc' = [pc EXCEPT ![c] = label]

\* The request ends; nothing of it is kept.
Answer(c) ==
  /\ Goto(c, "idle")
  /\ cer' = [cer EXCEPT ![c] = 0]
  /\ acc' = [acc EXCEPT ![c] = Founder]
  /\ env' = [env EXCEPT ![c] = "invite"]
  /\ target' = [target EXCEPT ![c] = Founder]

-----------------------------------------------------------------------------
(* The options handlers: a challenge, and the authenticator's answer.      *)

\* issueChallenge; ceremonies are taken in order.
Issue(ch, record) ==
  /\ state[ch] = "new"
  /\ \A other \in Ceremony : other < ch => state[other] # "new"
  /\ ceremony' = [ceremony EXCEPT ![ch] = record]
  /\ state' = [state EXCEPT ![ch] = "live"]

\* An invite-based registration: the invite is not consumed.
StartInvite(ch, i, k) ==
  /\ mode # "closed"
  /\ usedBy[i] = 0
  /\ Issue(ch, [NoCeremony EXCEPT !.kind = "invite", !.invite = i, !.key = k])
  /\ UNCHANGED <<mode, usedBy, assertions, tables, pc, locals, stops, history>>

\* An open registration: the total of accounts is below the cap.
StartOpen(ch, k) ==
  /\ mode = "open"
  /\ Cardinality(accounts) < MaxAccounts
  /\ Issue(ch, [NoCeremony EXCEPT !.kind = "open", !.key = k])
  /\ UNCHANGED <<mode, usedBy, assertions, tables, pc, locals, stops, history>>

UnderPasskeyQuota(a) == Cardinality(Keys(a)) < MaxPasskeys

\* A logged-in account adds a passkey; in every mode.
StartAdd(ch, a, k) ==
  /\ active[a] # <<>>
  /\ UnderPasskeyQuota(a)
  /\ k \notin Keys(a)
  /\ Issue(ch, [NoCeremony EXCEPT !.kind = "add", !.who = a, !.key = k])
  /\ crowded' = IF Adding(a) = {} THEN crowded ELSE crowded \union {a}
  /\ UNCHANGED <<mode, usedBy, assertions, tables, pc, locals, stops, refused, stranded, raced>>

\* A login: the authenticator signs with a passkey it holds, and counts it.
StartLogin(ch, k) ==
  /\ owner[k] # -1
  /\ assertions' = [assertions EXCEPT ![k] = @ + 1]
  /\ Issue(ch, [NoCeremony EXCEPT !.kind = "login", !.key = k, !.count = assertions'[k]])
  /\ UNCHANGED <<mode, usedBy, tables, pc, locals, stops, history>>

-----------------------------------------------------------------------------
(* The verify handlers.                                                    *)

\* consumeChallenge, the SELECT: the answer may be presented more than once.
Present(c, ch) ==
  /\ pc[c] = "idle"
  /\ state[ch] = "live"
  /\ Goto(c, "claim")
  /\ cer' = [cer EXCEPT ![c] = ch]
  /\ env' = [env EXCEPT ![c] = mode]
  /\ UNCHANGED <<mode, usedBy, ceremonies, tables, acc, target, stops, history>>

\* Mutant: the UPDATE of a login does not repeat "consumed_at IS NULL".
ClaimableTwice(ch) == state[ch] # "used" \/ ceremony[ch].kind = "login"
\* consumeChallenge, the UPDATE's condition.
Claimable(ch) == state[ch] # "used"

\* Mutant: the mode is read before the challenge is consumed.
ConsumedBeforeModeCheck(ch, closed) == IF closed THEN state ELSE [state EXCEPT ![ch] = "used"]
Consumed(ch, closed) == [state EXCEPT ![ch] = "used"]

FirstLabel(kind) ==
  CASE kind = "invite" -> "commit" [] kind = "open" -> "cap"
    [] kind = "add" -> "find"      [] OTHER -> "login"

\* The loser of the claim fails; a new account is refused in closed mode; the
\* rest go on with the account of their ceremony.
Claim(c) ==
  LET ch == cer[c]
      closed == ceremony[ch].kind \in {"invite", "open"} /\ env[c] = "closed"
  IN /\ pc[c] = "claim"
     /\ \/ ~Claimable(ch) /\ Answer(c) /\ UNCHANGED <<state, refused>>
        \/ Claimable(ch) /\ closed
           /\ state' = Consumed(ch, closed)
           /\ refused' = refused \union {ch}
           /\ Answer(c)
        \/ Claimable(ch) /\ ~closed
           /\ state' = Consumed(ch, closed)
           /\ Goto(c, FirstLabel(ceremony[ch].kind))
           /\ acc' = [acc EXCEPT ![c] =
                        IF ceremony[ch].kind = "add" THEN ceremony[ch].who ELSE ch]
           /\ UNCHANGED <<refused, cer, env, target>>
     /\ UNCHANGED <<mode, usedBy, ceremony, assertions, tables, stops, stranded, crowded, raced>>

\* INSERT INTO webauthn_credentials, credential_id being UNIQUE.
InsertCredential(k, a) ==
  /\ owner[k] = -1
  /\ owner' = [owner EXCEPT ![k] = a]
  /\ signCount' = [signCount EXCEPT ![k] = 0]
  /\ settled' = [settled EXCEPT ![k] = 0]

\* INSERT INTO accounts.
CreateAccount(a) == a \notin accounts /\ accounts' = accounts \union {a}

\* DELETE FROM accounts; credentials and sessions cascade.
DeleteAccount(a) ==
  /\ accounts' = accounts \ {a}
  /\ owner' = [k \in Passkey |-> IF owner[k] = a THEN -1 ELSE owner[k]]
  /\ signCount' = [k \in Passkey |-> IF owner[k] = a THEN 0 ELSE signCount[k]]
  /\ settled' = [k \in Passkey |-> IF owner[k] = a THEN 0 ELSE settled[k]]
  /\ active' = [active EXCEPT ![a] = <<>>]

\* A batch that throws commits nothing; the answer is 409.
BatchFails(c) ==
  /\ acc[c] \in accounts \/ owner[ceremony[cer[c]].key] # -1
  /\ Answer(c)
  /\ UNCHANGED <<usedBy, tables>>

\* runNewAccountRegistrationBatch and runOpenAccountRegistrationBatch.
Commit(c) ==
  LET ch == cer[c]
      i == ceremony[ch].invite
      invited == ceremony[ch].kind = "invite"
  IN /\ pc[c] = "commit"
     /\ \/ BatchFails(c)
        \/ /\ CreateAccount(acc[c])
           /\ InsertCredential(ceremony[ch].key, acc[c])
           /\ usedBy' = IF invited /\ usedBy[i] = 0 THEN [usedBy EXCEPT ![i] = ch] ELSE usedBy
           /\ Goto(c, IF invited /\ usedBy[i] # 0 THEN "undo" ELSE "count")
           /\ UNCHANGED <<active, locals>>
     /\ UNCHANGED <<mode, ceremonies, stops, history>>

\* Mutant: a registration that lost its invite keeps the account.
KeepAccount(a) == UNCHANGED tables
UndoAccount(a) == DeleteAccount(a)

\* The invite was consumed by another request: the account is removed, 409.
Undo(c) ==
  /\ pc[c] = "undo"
  /\ UndoAccount(acc[c])
  /\ Answer(c)
  /\ UNCHANGED <<mode, usedBy, ceremonies, stops, history>>

\* countTotalAccounts against the cap, again at verify.
UnderCap == Cardinality(accounts) < MaxAccounts

CheckCap(c) ==
  /\ pc[c] = "cap"
  /\ IF UnderCap THEN Goto(c, "commit") /\ UNCHANGED locals ELSE Answer(c)
  /\ raced' = (raced \/ (UnderCap /\ \E o \in Client :
                           pc[o] = "commit" /\ ceremony[cer[o]].kind = "open"))
  /\ UNCHANGED <<mode, usedBy, ceremonies, tables, stops, refused, stranded, crowded>>

\* An added passkey: getAccountById, then insertCredential.
FindAccount(c) ==
  /\ pc[c] = "find"
  /\ IF acc[c] \in accounts THEN Goto(c, "store") /\ UNCHANGED locals ELSE Answer(c)
  /\ UNCHANGED <<mode, usedBy, ceremonies, tables, stops, history>>

StoreKey(c) ==
  LET k == ceremony[cer[c]].key
  IN /\ pc[c] = "store"
     /\ \/ acc[c] \in accounts /\ InsertCredential(k, acc[c])
        \/ (acc[c] \notin accounts \/ owner[k] # -1) /\ UNCHANGED credentials
     /\ Answer(c)
     /\ UNCHANGED <<mode, usedBy, ceremonies, accounts, active, stops, history>>

\* Mutant: the counter of the assertion is not compared.
CounterIgnored(count, stored) == TRUE
\* verifyAuthenticationResponse refuses a counter that has not moved on.
CounterMovedOn(count, stored) == count > stored

\* findCredentialByCredentialId and the verification of the assertion.
FindCredential(c) ==
  LET k == ceremony[cer[c]].key
  IN /\ pc[c] = "login"
     /\ IF owner[k] # -1 /\ CounterMovedOn(ceremony[cer[c]].count, signCount[k])
        THEN /\ Goto(c, "owner")
             /\ acc' = [acc EXCEPT ![c] = owner[k]]
             /\ UNCHANGED <<cer, env, target>>
        ELSE Answer(c)
     /\ UNCHANGED <<mode, usedBy, ceremonies, tables, stops, history>>

\* getAccountById.
FindOwner(c) ==
  /\ pc[c] = "owner"
  /\ IF acc[c] \in accounts THEN Goto(c, "bump") /\ UNCHANGED locals ELSE Answer(c)
  /\ UNCHANGED <<mode, usedBy, ceremonies, tables, stops, history>>

\* A login with k between its verification and its write.
LoggingIn(c, k) == pc[c] \in {"owner", "bump"} /\ ceremony[cer[c]].key = k

\* updateCredentialAfterLogin: no condition on the stored counter.
BumpCounter(c) ==
  LET k == ceremony[cer[c]].key
      count == ceremony[cer[c]].count
      alone == \A o \in Client \ {c} : ~LoggingIn(o, k)
  IN /\ pc[c] = "bump"
     /\ IF owner[k] = -1
        THEN UNCHANGED <<signCount, settled>>
        ELSE /\ signCount' = [signCount EXCEPT ![k] = count]
             /\ settled' = IF alone THEN [settled EXCEPT ![k] = count] ELSE settled
     /\ Goto(c, "count")
     /\ UNCHANGED <<mode, usedBy, ceremonies, accounts, owner, active, locals, stops, history>>

-----------------------------------------------------------------------------
(* createSession.                                                          *)

\* Mutant: the session quota is not looked at.
UnderSessionQuotaUnchecked(a) == TRUE
UnderSessionQuota(a) == Len(active[a]) < MaxSessions

\* countActiveSessions.
CountSessions(c) ==
  /\ pc[c] = "count"
  /\ Goto(c, IF UnderSessionQuota(acc[c]) THEN "insert" ELSE "oldest")
  /\ UNCHANGED <<mode, usedBy, ceremonies, tables, locals, stops, history>>

\* revokeOldestActiveSession, the SELECT.
SelectOldest(c) ==
  /\ pc[c] = "oldest"
  /\ IF active[acc[c]] = <<>>
     THEN Answer(c)
     ELSE /\ target' = [target EXCEPT ![c] = Head(active[acc[c]])]
          /\ Goto(c, "revoke")
          /\ UNCHANGED <<cer, acc, env>>
  /\ UNCHANGED <<mode, usedBy, ceremonies, tables, stops, history>>

\* revokeOldestActiveSession, the UPDATE; a session that ended meanwhile: 409.
RevokeOldest(c) ==
  LET a == acc[c]
  IN /\ pc[c] = "revoke"
     /\ IF Contains(active[a], target[c])
        THEN /\ active' = [active EXCEPT ![a] = Without(@, target[c])]
             /\ Goto(c, "insert")
             /\ UNCHANGED locals
        ELSE Answer(c) /\ UNCHANGED active
     /\ UNCHANGED <<mode, usedBy, ceremonies, accounts, credentials, stops, history>>

\* INSERT INTO sessions; account_id must exist.
InsertSession(c) ==
  /\ pc[c] = "insert"
  /\ active' = IF acc[c] \in accounts
               THEN [active EXCEPT ![acc[c]] = Append(@, cer[c])] ELSE active
  /\ Answer(c)
  /\ UNCHANGED <<mode, usedBy, ceremonies, accounts, credentials, stops, history>>

-----------------------------------------------------------------------------
(* Logged-in requests.                                                     *)

\* revokeSessionByToken, revokeSessionById, and a session passing expires_at.
EndSession(a, s) ==
  /\ Contains(active[a], s)
  /\ active' = [active EXCEPT ![a] = Without(@, s)]
  /\ UNCHANGED <<mode, usedBy, ceremonies, accounts, credentials, pc, locals, stops, history>>

\* requireSession of DELETE /api/me/passkeys/:passkeyId.
BeginDeleteKey(c, a, k) ==
  /\ pc[c] = "idle"
  /\ active[a] # <<>>
  /\ k \in Keys(a)
  /\ Goto(c, "delete")
  /\ acc' = [acc EXCEPT ![c] = a]
  /\ target' = [target EXCEPT ![c] = k]
  /\ UNCHANGED <<mode, usedBy, ceremonies, tables, cer, env, stops, history>>

\* Mutant: the DELETE's subquery is evaluated by the caller, before.
AnyKeyDeletable(a) == TRUE
KeyDeletable(a) == Cardinality(Keys(a)) > 1

\* deleteCredentialById; otherwise 404 or 409.
DeleteKey(c) ==
  /\ pc[c] = "delete"
  /\ IF owner[target[c]] = acc[c] /\ KeyDeletable(acc[c])
     THEN /\ owner' = [owner EXCEPT ![target[c]] = -1]
          /\ signCount' = [signCount EXCEPT ![target[c]] = 0]
          /\ settled' = [settled EXCEPT ![target[c]] = 0]
     ELSE UNCHANGED credentials
  /\ Answer(c)
  /\ UNCHANGED <<mode, usedBy, ceremonies, accounts, active, stops, history>>

\* DELETE /api/me/account: the session is checked, and the last statement of
\* deleteAccountCompletely removes the row.
BeginDeleteAccount(c, a) ==
  /\ pc[c] = "idle"
  /\ active[a] # <<>>
  /\ Goto(c, "close")
  /\ acc' = [acc EXCEPT ![c] = a]
  /\ UNCHANGED <<mode, usedBy, ceremonies, tables, cer, env, target, stops, history>>

CloseAccount(c) ==
  /\ pc[c] = "close"
  /\ DeleteAccount(acc[c])
  /\ Answer(c)
  /\ UNCHANGED <<mode, usedBy, ceremonies, stops, history>>

-----------------------------------------------------------------------------
(* Deployments and requests that stop.                                     *)

\* A deployment with another REGISTRATION_MODE; requests keep the old one.
Deploy(m) ==
  /\ mode # m
  /\ mode' = m
  /\ UNCHANGED <<usedBy, ceremonies, tables, pc, locals, stops, history>>

Stop(c) ==
  /\ pc[c] # "idle"
  /\ stops < MaxStops
  /\ stops' = stops + 1
  /\ stranded' = IF pc[c] = "undo" THEN stranded \union {acc[c]} ELSE stranded
  /\ Answer(c)
  /\ UNCHANGED <<mode, usedBy, ceremonies, tables, refused, crowded, raced>>

Request(c) ==
  \/ \E ch \in Ceremony : Present(c, ch)
  \/ Claim(c) \/ Commit(c) \/ Undo(c) \/ CheckCap(c)
  \/ FindAccount(c) \/ StoreKey(c)
  \/ FindCredential(c) \/ FindOwner(c) \/ BumpCounter(c)
  \/ CountSessions(c) \/ SelectOldest(c) \/ RevokeOldest(c) \/ InsertSession(c)
  \/ \E a \in accounts, k \in Passkey : BeginDeleteKey(c, a, k)
  \/ \E a \in accounts : BeginDeleteAccount(c, a)
  \/ DeleteKey(c) \/ CloseAccount(c)
  \/ Stop(c)

Next ==
  \/ \E c \in Client : Request(c)
  \/ \E ch \in Ceremony, k \in Passkey :
       \/ \E i \in Invite : StartInvite(ch, i, k)
       \/ StartOpen(ch, k)
       \/ \E a \in accounts : StartAdd(ch, a, k)
       \/ StartLogin(ch, k)
  \/ \E m \in {"invite", "open", "closed"} : Deploy(m)
  \/ \E a \in accounts : \E s \in Account : EndSession(a, s)

Spec == Init /\ [][Next]_vars

-----------------------------------------------------------------------------
(* Properties.                                                             *)

\* An invite brings in one account: an account in the table whose ceremony
\* showed an invite that another ceremony consumed is one its request is about
\* to remove, or one whose request stopped before it could
\* (finishRegistration's undo after the batch).
InviteAdmitsOne ==
  \A ch \in accounts \ {Founder} :
    (ceremony[ch].kind = "invite" /\ usedBy[ceremony[ch].invite] # ch)
      => \/ ch \in stranded
         \/ \E c \in Client : pc[c] = "undo" /\ acc[c] = ch

\* No interleaving of passkey deletions, failed registrations and cascades
\* leaves an account no passkey can log in to (deleteCredentialById, and the
\* batches that insert the account with its first passkey).
EveryAccountHasAPasskey == \A a \in accounts : Keys(a) # {}

\* An answer presented twice opens one session (consumeChallenge).
OneSessionPerCeremony == \A a \in Account : IsInjective(active[a])

\* A ceremony refused because registration was closed never creates its
\* account, not even after registration is opened again (finishRegistration
\* consumes the challenge before it reads the mode).
RefusedStaysRefused == accounts \intersect refused = {}

\* Requests that have passed the session check of a and not yet inserted.
Counted(a) == {c \in Client : pc[c] = "insert" /\ acc[c] = a}

\* Active sessions exceed the quota only by the logins that overlap in
\* createSession: each of them may have counted before the others inserted.
SessionBound ==
  \A a \in Account : Len(active[a]) <= MaxSessions - 1 + Cardinality(Client)

\* Accounts brought in by an invite are not counted against the cap.
Uninvited == {a \in accounts : a = Founder \/ ceremony[a].kind # "invite"}

\* Open registration fills the places an account cap leaves and no more, as
\* long as no two requests were between the repeated count and the insert at
\* once (finishRegistration counts again after registration/options did).
AccountCapUnlessRaced == raced \/ Cardinality(Uninvited) <= MaxAccounts

\* The passkey quota, checked when a ceremony begins, holds for every account
\* that never had two additions under way at once.
PasskeyQuotaUnlessCrowded ==
  \A a \in accounts \ crowded : Cardinality(Keys(a)) <= MaxPasskeys

\* The three quotas of an account, none of which its check and its insert
\* enforce together (createSession, finishRegistration, registration/options):
\* each is exceeded by overlap only.
QuotasHold == SessionBound /\ AccountCapUnlessRaced /\ PasskeyQuotaUnlessCrowded

\* Replays are told from what has settled: once a login has written its counter
\* while no other login with the passkey was between check and write, the stored
\* counter does not fall below it again as long as the row is there, although
\* the UPDATE is unconditional, and no answer as old as that one is still on its
\* way to the write (finishLogin, updateCredentialAfterLogin).  Without the
\* "settled" the comment at repository.ts:213 would be false: of two logins that
\* overlap between check and write, the slower puts the counter back.
SettledCountersHold ==
  \A k \in Passkey :
    /\ signCount[k] >= settled[k]
    /\ \A c \in Client : LoggingIn(c, k) => ceremony[cer[c]].count > settled[k]

\* The claim of src/src/auth/webauthn.ts:440-443: the count repeated at verify
\* closes the race of two open registrations for the last place.
AccountCapHolds == Cardinality(Uninvited) <= MaxAccounts

\* What holds instead: each request in progress but one takes a place too many.
AccountBound == Cardinality(Uninvited) <= MaxAccounts - 1 + Cardinality(Client)
=============================================================================
