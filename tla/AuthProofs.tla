----------------------------- MODULE AuthProofs -----------------------------
(***************************************************************************)
(* What Auth's runs check, proved for any number of requests, ceremonies,  *)
(* passkeys and invites and for every limit.  The inductive invariant says *)
(* which request may still use a ceremony and for which account; each      *)
(* theorem adds what its property needs and rests on one lemma that goes   *)
(* through the actions.                                                    *)
(***************************************************************************)
EXTENDS Auth, FiniteSetTheorems, SequenceTheorems, TLAPS

\* Taking a session out of a list: one fewer, none new, none twice.
LEMMA WithoutFacts ==
  ASSUME NEW S, NEW s \in Seq(S), NEW x, Contains(s, x)
  PROVE  /\ Without(s, x) \in Seq(S)
         /\ Len(Without(s, x)) = Len(s) - 1
         /\ \A j \in 1 .. Len(Without(s, x)) : \E i \in 1 .. Len(s) : Without(s, x)[j] = s[i]
         /\ IsInjective(s) => IsInjective(Without(s, x))
<1> DEFINE i == CHOOSE i \in 1 .. Len(s) : s[i] = x
<1>1. i \in 1 .. Len(s)
  BY DEF Contains
<1> HIDE DEF i
<1> DEFINE before == SubSeq(s, 1, i - 1)
           after == SubSeq(s, i + 1, Len(s))
           t == before \o after
<1>2. Without(s, x) = t
  BY DEF Without, RemoveAt, i
<1>3. /\ before \in Seq(S) /\ Len(before) = i - 1
      /\ \A j \in 1 .. i - 1 : before[j] = s[j]
  <2>1. \A j \in 1 .. i - 1 : s[j] \in S
    BY <1>1, ElementOfSeq
  <2> QED
    BY <1>1, <2>1, SubSeqProperties
<1>4. /\ after \in Seq(S) /\ Len(after) = Len(s) - i
      /\ \A j \in 1 .. Len(s) - i : after[j] = s[i + j]
  <2>1. \A j \in i + 1 .. Len(s) : s[j] \in S
    BY <1>1, ElementOfSeq
  <2>2. \A j \in 1 .. Len(s) - (i + 1) + 1 : after[j] = s[(i + 1) + j - 1]
    BY <1>1, <2>1, SubSeqProperties
  <2>3. after \in Seq(S) /\ Len(after) = IF i + 1 <= Len(s) THEN Len(s) - (i + 1) + 1 ELSE 0
    BY <1>1, <2>1, SubSeqProperties
  <2> QED
    BY <1>1, <2>2, <2>3
<1> HIDE DEF before, after
<1>5. /\ t \in Seq(S) /\ Len(t) = Len(s) - 1
      /\ \A j \in 1 .. Len(s) - 1 : t[j] = IF j < i THEN s[j] ELSE s[j + 1]
  <2>1. /\ t \in Seq(S) /\ Len(t) = Len(before) + Len(after)
        /\ \A j \in 1 .. Len(before) + Len(after) :
             t[j] = IF j <= Len(before) THEN before[j] ELSE after[j - Len(before)]
    BY <1>3, <1>4, ConcatProperties
  <2> QED
    BY <1>1, <1>3, <1>4, <2>1
<1> HIDE DEF t
<1>6. \A j \in 1 .. Len(t) : \E m \in 1 .. Len(s) : t[j] = s[m]
  BY <1>1, <1>5
<1>7. IsInjective(s) => IsInjective(t)
  <2> SUFFICES ASSUME IsInjective(s), NEW a \in 1 .. Len(t), NEW b \in 1 .. Len(t), t[a] = t[b]
               PROVE  a = b
    BY <1>5, LenProperties DEF IsInjective
  <2> DEFINE at(j) == IF j < i THEN j ELSE j + 1
  <2>1. \A j \in 1 .. Len(t) : at(j) \in 1 .. Len(s) /\ t[j] = s[at(j)]
    BY <1>1, <1>5
  <2>2. at(a) = at(b)
    BY <2>1, LenProperties DEF IsInjective
  <2> QED
    BY <1>1, <1>5, <2>2
<1> QED
  BY <1>2, <1>5, <1>6, <1>7

-----------------------------------------------------------------------------
(* The inductive invariant.                                                *)

\* Requests that have claimed their ceremony and not answered.
Past == {"commit", "undo", "cap", "find", "store", "login", "owner", "bump",
         "count", "oldest", "revoke", "insert"}

\* What a label says of the locals it is reached with.
Labelled ==
  \A c \in Client :
    /\ pc[c] = "delete" => target[c] \in Passkey
    /\ pc[c] = "claim" => cer[c] \in Ceremony /\ state[cer[c]] # "new"

\* A ceremony is claimed by one request at most, and used from then on.
Claimed ==
  \A c \in Client : pc[c] \in Past =>
    /\ cer[c] \in Ceremony /\ state[cer[c]] = "used"
    /\ \A d \in Client : (pc[d] \in Past /\ cer[d] = cer[c]) => d = c

\* A registration works for the account of its ceremony, which exists only
\* after the commit; an addition works for the account that began it.
Purposeful ==
  \A c \in Client :
    /\ pc[c] \in {"commit", "cap", "undo"} =>
         acc[c] = cer[c] /\ ceremony[cer[c]].kind \in {"invite", "open"}
    /\ pc[c] \in {"commit", "cap"} => acc[c] \notin accounts
    /\ pc[c] = "cap" => ceremony[cer[c]].kind = "open"
    /\ pc[c] \in {"find", "store"} =>
         ceremony[cer[c]].kind = "add" /\ ceremony[cer[c]].who = acc[c]

\* An account is created by a ceremony that is used; a challenge is not filled
\* in before it is issued.
Recorded ==
  /\ \A a \in accounts \ {Founder} : state[a] = "used"
  /\ \A ch \in Ceremony :
       /\ state[ch] = "new" => ceremony[ch].kind = "none"
       /\ ceremony[ch].kind = "invite" => ceremony[ch].invite \in Invite

\* The types, in three parts.
TableTypes ==
  /\ mode \in {"invite", "open", "closed"}
  /\ usedBy \in [Invite -> Account]
  /\ ceremony \in [Ceremony -> [kind : Kinds, who : Account,
       invite : Invite \union {NoInvite}, key : Passkey, count : Nat]]
  /\ state \in [Ceremony -> {"new", "live", "used"}]
  /\ assertions \in [Passkey -> Nat]
  /\ accounts \subseteq Account
  /\ owner \in [Passkey -> accounts \union {-1}]
  /\ signCount \in [Passkey -> Nat]
  /\ settled \in [Passkey -> Nat]

SessionTypes ==
  /\ active \in [Account -> Seq(Account)]
  /\ \A a \in Account \ accounts : active[a] = <<>>

RequestTypes ==
  /\ pc \in [Client -> Labels]
  /\ cer \in [Client -> Account]
  /\ acc \in [Client -> Account]
  /\ env \in [Client -> {"invite", "open", "closed"}]
  /\ target \in [Client -> Account \union Passkey]

HistoryTypes ==
  /\ stops \in 0 .. MaxStops
  /\ refused \subseteq Ceremony
  /\ stranded \subseteq Account
  /\ crowded \subseteq Account
  /\ raced \in BOOLEAN

\* The type invariant is its parts.
LEMMA TypeParts == TypeOK <=> TableTypes /\ SessionTypes /\ RequestTypes /\ HistoryTypes
  BY DEF TypeOK, TableTypes, SessionTypes, RequestTypes, HistoryTypes

IInv == TypeOK /\ Labelled /\ Claimed /\ Purposeful /\ Recorded

\* An account name is 0 or a ceremony, and 0 is no ceremony.
LEMMA Names == /\ Ceremony \subseteq Nat /\ Founder \notin Ceremony /\ Account \subseteq Nat
               /\ -1 \notin Account /\ Founder \in Account /\ 0 \in Account /\ Ceremony \subseteq Account
               /\ \A a \in Account : a = Founder \/ a \in Ceremony
  BY CeremonyAssumption DEF Account, Founder

\* A request that answers, or goes on to the next statement, is typed.
LEMMA AnswerTypes ==
  ASSUME RequestTypes, NEW c \in Client, Answer(c)
  PROVE  RequestTypes'
<1>1. pc' \in [Client -> Labels]
  BY DEF RequestTypes, Answer, Goto, Labels
<1>2. cer' \in [Client -> Account] /\ acc' \in [Client -> Account]
  BY Names DEF RequestTypes, Answer
<1>3. env' \in [Client -> {"invite", "open", "closed"}]
  BY DEF RequestTypes, Answer
<1>4. target' \in [Client -> Account \union Passkey]
  <2>1. Founder \in Account \union Passkey
    BY Names
  <2> QED
    BY <2>1 DEF RequestTypes, Answer
<1> QED
  BY <1>1, <1>2, <1>3, <1>4 DEF RequestTypes

\* A label is a label.
LEMMA GotoTypes ==
  ASSUME RequestTypes, NEW c \in Client, NEW label \in Labels, Goto(c, label)
  PROVE  pc' \in [Client -> Labels]
  BY DEF RequestTypes, Goto

\* Every step keeps the types of the tables.
LEMMA TablesStep ==
  ASSUME TableTypes, SessionTypes, RequestTypes, HistoryTypes, Labelled, Claimed, [Next]_vars
  PROVE  TableTypes'
<1> USE DEF TableTypes, RequestTypes, Labelled, Claimed, Past, Kinds, ceremonies, credentials, tables, locals, history
<1>1. ASSUME NEW c \in Client, NEW ch \in Ceremony, Present(c, ch) PROVE TableTypes'
  BY <1>1, Names, PasskeyAssumption DEF Present, Goto
<1>2. ASSUME NEW c \in Client, Claim(c) PROVE TableTypes'
  BY <1>2, Names, PasskeyAssumption DEF Claim, Goto, Answer, Claimable, Consumed, FirstLabel
<1>3. ASSUME NEW c \in Client, Commit(c) PROVE TableTypes'
  <2>1. CASE UNCHANGED <<usedBy, tables>>
    BY <1>3, <2>1 DEF Commit
  <2>2. CASE /\ CreateAccount(acc[c])
             /\ InsertCredential(ceremony[cer[c]].key, acc[c])
             /\ usedBy' \in {usedBy, [usedBy EXCEPT ![ceremony[cer[c]].invite] = cer[c]]}
    <3>1. /\ acc[c] \in Account /\ cer[c] \in Account
          /\ accounts' = accounts \union {acc[c]}
      BY <2>2 DEF CreateAccount
    <3>2. usedBy' \in [Invite -> Account]
      BY <2>2, <3>1
    <3>3. /\ owner' \in [Passkey -> accounts' \union {-1}]
          /\ signCount' \in [Passkey -> Nat] /\ settled' \in [Passkey -> Nat]
      BY <2>2, <3>1 DEF InsertCredential
    <3> QED
      BY <1>3, <3>1, <3>2, <3>3 DEF Commit
  <2> QED
    BY <1>3, <2>1, <2>2 DEF Commit, BatchFails
<1>4. ASSUME NEW c \in Client, Undo(c) PROVE TableTypes'
  BY <1>4, Names, PasskeyAssumption DEF Undo, Goto, Answer, UndoAccount, DeleteAccount
<1>5. ASSUME NEW c \in Client, CheckCap(c) PROVE TableTypes'
  BY <1>5, Names, PasskeyAssumption DEF CheckCap, Goto, Answer
<1>6. ASSUME NEW c \in Client, FindAccount(c) PROVE TableTypes'
  BY <1>6, Names, PasskeyAssumption DEF FindAccount, Goto, Answer
<1>7. ASSUME NEW c \in Client, StoreKey(c) PROVE TableTypes'
  BY <1>7, Names, PasskeyAssumption DEF StoreKey, Goto, Answer, InsertCredential
<1>8. ASSUME NEW c \in Client, FindCredential(c) PROVE TableTypes'
  BY <1>8, Names, PasskeyAssumption DEF FindCredential, Goto, Answer, CounterMovedOn
<1>9. ASSUME NEW c \in Client, FindOwner(c) PROVE TableTypes'
  BY <1>9, Names, PasskeyAssumption DEF FindOwner, Goto, Answer
<1>10. ASSUME NEW c \in Client, BumpCounter(c) PROVE TableTypes'
  <2> DEFINE j == ceremony[cer[c]].key
             count == ceremony[cer[c]].count
  <2>1. UNCHANGED <<mode, usedBy, ceremony, state, assertions, accounts, owner>>
    BY <1>10 DEF BumpCounter
  <2>2. j \in Passkey /\ count \in Nat
    BY <1>10 DEF BumpCounter
  <2>3. /\ signCount' \in {signCount, [signCount EXCEPT ![j] = count]}
        /\ settled' \in {settled, [settled EXCEPT ![j] = count]}
    BY <1>10 DEF BumpCounter
  <2> QED
    BY <2>1, <2>2, <2>3
<1>11. ASSUME NEW c \in Client, CountSessions(c) PROVE TableTypes'
  BY <1>11, Names, PasskeyAssumption DEF CountSessions, Goto
<1>12. ASSUME NEW c \in Client, SelectOldest(c) PROVE TableTypes'
  BY <1>12, Names, PasskeyAssumption DEF SelectOldest, Goto, Answer
<1>13. ASSUME NEW c \in Client, RevokeOldest(c) PROVE TableTypes'
  BY <1>13, Names, PasskeyAssumption DEF RevokeOldest, Goto, Answer
<1>14. ASSUME NEW c \in Client, InsertSession(c) PROVE TableTypes'
  BY <1>14, Names, PasskeyAssumption DEF InsertSession, Goto, Answer
<1>15. ASSUME NEW c \in Client, NEW a \in accounts, NEW k \in Passkey, BeginDeleteKey(c, a, k) PROVE TableTypes'
  BY <1>15, Names, PasskeyAssumption DEF BeginDeleteKey, Goto
<1>16. ASSUME NEW c \in Client, NEW a \in accounts, BeginDeleteAccount(c, a) PROVE TableTypes'
  BY <1>16, Names, PasskeyAssumption DEF BeginDeleteAccount, Goto
<1>17. ASSUME NEW c \in Client, DeleteKey(c) PROVE TableTypes'
  BY <1>17, Names, PasskeyAssumption DEF DeleteKey, Goto, Answer
<1>18. ASSUME NEW c \in Client, CloseAccount(c) PROVE TableTypes'
  BY <1>18, Names, PasskeyAssumption DEF CloseAccount, Goto, Answer, DeleteAccount
<1>19. ASSUME NEW c \in Client, Stop(c) PROVE TableTypes'
  BY <1>19, Names, PasskeyAssumption DEF Stop, Goto, Answer
<1>20. ASSUME NEW ch \in Ceremony, NEW k \in Passkey, NEW i \in Invite, StartInvite(ch, i, k) PROVE TableTypes'
  BY <1>20, Names, PasskeyAssumption DEF StartInvite, Issue, NoCeremony
<1>21. ASSUME NEW ch \in Ceremony, NEW k \in Passkey, StartOpen(ch, k) PROVE TableTypes'
  BY <1>21, Names, PasskeyAssumption DEF StartOpen, Issue, NoCeremony
<1>22. ASSUME NEW ch \in Ceremony, NEW k \in Passkey, NEW a \in accounts, StartAdd(ch, a, k) PROVE TableTypes'
  BY <1>22, Names, PasskeyAssumption DEF StartAdd, Issue, NoCeremony
<1>23. ASSUME NEW ch \in Ceremony, NEW k \in Passkey, StartLogin(ch, k) PROVE TableTypes'
  <2>1. assertions' \in [Passkey -> Nat] /\ assertions'[k] \in Nat
    BY <1>23 DEF StartLogin
  <2> DEFINE record == [NoCeremony EXCEPT !.kind = "login", !.key = k, !.count = assertions'[k]]
  <2>2. ceremony' = [ceremony EXCEPT ![ch] = record]
    BY <1>23 DEF StartLogin, Issue
  <2>3. record \in [kind : Kinds, who : Account,
           invite : Invite \union {NoInvite}, key : Passkey, count : Nat]
    BY <2>1, Names, PasskeyAssumption DEF NoCeremony
  <2> HIDE DEF record
  <2>4. ceremony' \in [Ceremony -> [kind : Kinds, who : Account,
           invite : Invite \union {NoInvite}, key : Passkey, count : Nat]]
    BY <2>2, <2>3
  <2>5. state' \in [Ceremony -> {"new", "live", "used"}]
    BY <1>23 DEF StartLogin, Issue
  <2> QED
    BY <1>23, <2>1, <2>4, <2>5 DEF StartLogin
<1>24. ASSUME NEW m \in {"invite", "open", "closed"}, Deploy(m) PROVE TableTypes'
  BY <1>24, Names, PasskeyAssumption DEF Deploy
<1>25. ASSUME NEW a \in accounts, NEW s \in Account, EndSession(a, s) PROVE TableTypes'
  BY <1>25, Names, PasskeyAssumption DEF EndSession
<1>26. ASSUME UNCHANGED vars PROVE TableTypes'
  BY <1>26 DEF vars
<1> QED
  BY <1>1, <1>2, <1>3, <1>4, <1>5, <1>6, <1>7, <1>8, <1>9, <1>10, <1>11, <1>12, <1>13, <1>14, <1>15, <1>16, <1>17, <1>18, <1>19, <1>20, <1>21, <1>22, <1>23, <1>24, <1>25, <1>26 DEF Next, Request

\* Every step keeps the lists of sessions.
LEMMA SessionsStep ==
  ASSUME TableTypes, SessionTypes, RequestTypes, HistoryTypes, Labelled, Claimed, [Next]_vars
  PROVE  SessionTypes'
<1> USE DEF SessionTypes, TableTypes, RequestTypes, Labelled, Claimed, Past, ceremonies, credentials, tables, locals, history
<1>1. ASSUME NEW c \in Client, NEW ch \in Ceremony, Present(c, ch) PROVE SessionTypes'
  BY <1>1, Names DEF Present, Goto
<1>2. ASSUME NEW c \in Client, Claim(c) PROVE SessionTypes'
  BY <1>2, Names DEF Claim, Goto, Answer, Claimable, Consumed, FirstLabel
<1>3. ASSUME NEW c \in Client, Commit(c) PROVE SessionTypes'
  BY <1>3, Names DEF Commit, Goto, Answer, BatchFails, CreateAccount, InsertCredential
<1>4. ASSUME NEW c \in Client, Undo(c) PROVE SessionTypes'
  BY <1>4, Names DEF Undo, Goto, Answer, UndoAccount, DeleteAccount
<1>5. ASSUME NEW c \in Client, CheckCap(c) PROVE SessionTypes'
  BY <1>5, Names DEF CheckCap, Goto, Answer
<1>6. ASSUME NEW c \in Client, FindAccount(c) PROVE SessionTypes'
  BY <1>6, Names DEF FindAccount, Goto, Answer
<1>7. ASSUME NEW c \in Client, StoreKey(c) PROVE SessionTypes'
  BY <1>7, Names DEF StoreKey, Goto, Answer, InsertCredential
<1>8. ASSUME NEW c \in Client, FindCredential(c) PROVE SessionTypes'
  BY <1>8, Names DEF FindCredential, Goto, Answer, CounterMovedOn
<1>9. ASSUME NEW c \in Client, FindOwner(c) PROVE SessionTypes'
  BY <1>9, Names DEF FindOwner, Goto, Answer
<1>10. ASSUME NEW c \in Client, BumpCounter(c) PROVE SessionTypes'
  BY <1>10, Names DEF BumpCounter, Goto
<1>11. ASSUME NEW c \in Client, CountSessions(c) PROVE SessionTypes'
  BY <1>11, Names DEF CountSessions, Goto
<1>12. ASSUME NEW c \in Client, SelectOldest(c) PROVE SessionTypes'
  BY <1>12, Names DEF SelectOldest, Goto, Answer
<1>13. ASSUME NEW c \in Client, RevokeOldest(c) PROVE SessionTypes'
  <2>1. CASE Contains(active[acc[c]], target[c])
    <3>1. active' = [active EXCEPT ![acc[c]] = Without(active[acc[c]], target[c])] /\ UNCHANGED accounts
      BY <1>13, <2>1 DEF RevokeOldest
    <3>2. Without(active[acc[c]], target[c]) \in Seq(Account)
      BY <2>1, WithoutFacts
    <3>3. active[acc[c]] # <<>>
      BY <2>1, EmptySeq DEF Contains
    <3> QED
      BY <3>1, <3>2, <3>3
  <2>2. CASE ~ Contains(active[acc[c]], target[c])
    BY <1>13, <2>2 DEF RevokeOldest
  <2> QED
    BY <2>1, <2>2
<1>14. ASSUME NEW c \in Client, InsertSession(c) PROVE SessionTypes'
  <2>1. acc[c] \in Account /\ cer[c] \in Account /\ UNCHANGED accounts
    BY <1>14 DEF InsertSession
  <2>2. Append(active[acc[c]], cer[c]) \in Seq(Account)
    BY <2>1, AppendProperties
  <2> QED
    BY <1>14, <2>1, <2>2 DEF InsertSession
<1>15. ASSUME NEW c \in Client, NEW a \in accounts, NEW k \in Passkey, BeginDeleteKey(c, a, k) PROVE SessionTypes'
  BY <1>15, Names DEF BeginDeleteKey, Goto
<1>16. ASSUME NEW c \in Client, NEW a \in accounts, BeginDeleteAccount(c, a) PROVE SessionTypes'
  BY <1>16, Names DEF BeginDeleteAccount, Goto
<1>17. ASSUME NEW c \in Client, DeleteKey(c) PROVE SessionTypes'
  BY <1>17, Names DEF DeleteKey, Goto, Answer
<1>18. ASSUME NEW c \in Client, CloseAccount(c) PROVE SessionTypes'
  BY <1>18, Names DEF CloseAccount, Goto, Answer, DeleteAccount
<1>19. ASSUME NEW c \in Client, Stop(c) PROVE SessionTypes'
  BY <1>19, Names DEF Stop, Goto, Answer
<1>20. ASSUME NEW ch \in Ceremony, NEW k \in Passkey, NEW i \in Invite, StartInvite(ch, i, k) PROVE SessionTypes'
  BY <1>20, Names DEF StartInvite, Issue, NoCeremony
<1>21. ASSUME NEW ch \in Ceremony, NEW k \in Passkey, StartOpen(ch, k) PROVE SessionTypes'
  BY <1>21, Names DEF StartOpen, Issue, NoCeremony
<1>22. ASSUME NEW ch \in Ceremony, NEW k \in Passkey, NEW a \in accounts, StartAdd(ch, a, k) PROVE SessionTypes'
  BY <1>22, Names DEF StartAdd, Issue, NoCeremony
<1>23. ASSUME NEW ch \in Ceremony, NEW k \in Passkey, StartLogin(ch, k) PROVE SessionTypes'
  BY <1>23, Names DEF StartLogin, Issue, NoCeremony
<1>24. ASSUME NEW m \in {"invite", "open", "closed"}, Deploy(m) PROVE SessionTypes'
  BY <1>24, Names DEF Deploy
<1>25. ASSUME NEW a \in accounts, NEW s \in Account, EndSession(a, s) PROVE SessionTypes'
  <2>1. active' = [active EXCEPT ![a] = Without(active[a], s)] /\ UNCHANGED accounts
    BY <1>25 DEF EndSession
  <2>2. a \in Account /\ Without(active[a], s) \in Seq(Account)
    BY <1>25, WithoutFacts DEF EndSession
  <2> QED
    BY <2>1, <2>2
<1>26. ASSUME UNCHANGED vars PROVE SessionTypes'
  BY <1>26 DEF vars
<1> QED
  BY <1>1, <1>2, <1>3, <1>4, <1>5, <1>6, <1>7, <1>8, <1>9, <1>10, <1>11, <1>12, <1>13, <1>14, <1>15, <1>16, <1>17, <1>18, <1>19, <1>20, <1>21, <1>22, <1>23, <1>24, <1>25, <1>26 DEF Next, Request

\* Every step keeps the types of the requests.
LEMMA RequestsStep ==
  ASSUME TableTypes, SessionTypes, RequestTypes, HistoryTypes, Labelled, Claimed, [Next]_vars
  PROVE  RequestTypes'
<1> USE DEF RequestTypes, TableTypes, SessionTypes, Labels, ceremonies, credentials, tables, locals, history
<1>1. ASSUME NEW c \in Client, NEW ch \in Ceremony, Present(c, ch) PROVE RequestTypes'
  BY <1>1, Names, PasskeyAssumption DEF Present, Goto
<1>2. ASSUME NEW c \in Client, Claim(c) PROVE RequestTypes'
  <2>1. CASE Answer(c)
    BY <2>1, AnswerTypes
  <2>2. CASE /\ Goto(c, FirstLabel(ceremony[cer[c]].kind))
             /\ acc' = [acc EXCEPT ![c] = IF ceremony[cer[c]].kind = "add"
                                          THEN ceremony[cer[c]].who ELSE cer[c]]
             /\ UNCHANGED <<cer, env, target>>
    <3>1. FirstLabel(ceremony[cer[c]].kind) \in Labels
      BY DEF FirstLabel, Labels
    <3>2. ceremony[cer[c]].who \in Account /\ cer[c] \in Account
      BY <1>2 DEF Claim, Labelled, TableTypes, RequestTypes
    <3> QED
      BY <2>2, <3>1, <3>2 DEF RequestTypes, Goto
  <2> QED
    BY <1>2, <2>1, <2>2 DEF Claim
<1>3. ASSUME NEW c \in Client, Commit(c) PROVE RequestTypes'
  <2>1. CASE Answer(c)
    BY <2>1, AnswerTypes
  <2>2. CASE \E label \in {"undo", "count"} : Goto(c, label) /\ UNCHANGED locals
    BY <2>2 DEF RequestTypes, Goto, Labels
  <2> QED
    BY <1>3, <2>1, <2>2 DEF Commit, BatchFails
<1>4. ASSUME NEW c \in Client, Undo(c) PROVE RequestTypes'
  BY <1>4, Names, PasskeyAssumption DEF Undo, Goto, Answer, UndoAccount, DeleteAccount
<1>5. ASSUME NEW c \in Client, CheckCap(c) PROVE RequestTypes'
  <2>1. CASE Answer(c)
    BY <2>1, AnswerTypes
  <2>2. CASE Goto(c, "commit") /\ UNCHANGED locals
    BY <2>2 DEF RequestTypes, Goto, Labels
  <2> QED
    BY <1>5, <2>1, <2>2 DEF CheckCap
<1>6. ASSUME NEW c \in Client, FindAccount(c) PROVE RequestTypes'
  <2>1. CASE Answer(c)
    BY <2>1, AnswerTypes
  <2>2. CASE Goto(c, "store") /\ UNCHANGED locals
    BY <2>2 DEF RequestTypes, Goto, Labels
  <2> QED
    BY <1>6, <2>1, <2>2 DEF FindAccount
<1>7. ASSUME NEW c \in Client, StoreKey(c) PROVE RequestTypes'
  BY <1>7, AnswerTypes DEF StoreKey
<1>8. ASSUME NEW c \in Client, FindCredential(c) PROVE RequestTypes'
  <2>1. CASE Answer(c)
    BY <2>1, AnswerTypes
  <2>2. CASE ~ Answer(c)
    <3>1. /\ Goto(c, "owner") /\ owner[ceremony[cer[c]].key] # -1
          /\ acc' = [acc EXCEPT ![c] = owner[ceremony[cer[c]].key]]
          /\ UNCHANGED <<cer, env, target>>
      BY <1>8, <2>2 DEF FindCredential
    <3>2. ceremony[cer[c]].key \in Passkey
      BY <1>8 DEF FindCredential, Claimed, Past, TableTypes
    <3>3. owner[ceremony[cer[c]].key] \in Account
      BY <3>1, <3>2 DEF TableTypes
    <3> QED
      BY <3>1, <3>3 DEF RequestTypes, Goto, Labels
  <2> QED
    BY <2>1, <2>2
<1>9. ASSUME NEW c \in Client, FindOwner(c) PROVE RequestTypes'
  <2>1. CASE Answer(c)
    BY <2>1, AnswerTypes
  <2>2. CASE Goto(c, "bump") /\ UNCHANGED locals
    BY <2>2 DEF RequestTypes, Goto, Labels
  <2> QED
    BY <1>9, <2>1, <2>2 DEF FindOwner
<1>10. ASSUME NEW c \in Client, BumpCounter(c) PROVE RequestTypes'
  BY <1>10, Names, PasskeyAssumption DEF BumpCounter, Goto
<1>11. ASSUME NEW c \in Client, CountSessions(c) PROVE RequestTypes'
  BY <1>11, Names, PasskeyAssumption DEF CountSessions, Goto
<1>12. ASSUME NEW c \in Client, SelectOldest(c) PROVE RequestTypes'
  <2>1. CASE Answer(c)
    BY <2>1, AnswerTypes
  <2>2. CASE ~ Answer(c)
    <3>1. /\ Goto(c, "revoke") /\ active[acc[c]] # <<>>
          /\ target' = [target EXCEPT ![c] = Head(active[acc[c]])]
          /\ UNCHANGED <<cer, acc, env>>
      BY <1>12, <2>2 DEF SelectOldest
    <3>2. Head(active[acc[c]]) \in Account
      BY <3>1 DEF SessionTypes, RequestTypes
    <3> QED
      BY <3>1, <3>2 DEF RequestTypes, Goto, Labels
  <2> QED
    BY <2>1, <2>2
<1>13. ASSUME NEW c \in Client, RevokeOldest(c) PROVE RequestTypes'
  <2>1. CASE Answer(c)
    BY <2>1, AnswerTypes
  <2>2. CASE Goto(c, "insert") /\ UNCHANGED locals
    BY <2>2 DEF RequestTypes, Goto, Labels
  <2> QED
    BY <1>13, <2>1, <2>2 DEF RevokeOldest
<1>14. ASSUME NEW c \in Client, InsertSession(c) PROVE RequestTypes'
  BY <1>14, AnswerTypes DEF InsertSession
<1>15. ASSUME NEW c \in Client, NEW a \in accounts, NEW k \in Passkey, BeginDeleteKey(c, a, k) PROVE RequestTypes'
  BY <1>15, Names, PasskeyAssumption DEF BeginDeleteKey, Goto
<1>16. ASSUME NEW c \in Client, NEW a \in accounts, BeginDeleteAccount(c, a) PROVE RequestTypes'
  BY <1>16, Names, PasskeyAssumption DEF BeginDeleteAccount, Goto
<1>17. ASSUME NEW c \in Client, DeleteKey(c) PROVE RequestTypes'
  BY <1>17, AnswerTypes DEF DeleteKey
<1>18. ASSUME NEW c \in Client, CloseAccount(c) PROVE RequestTypes'
  BY <1>18, AnswerTypes DEF CloseAccount
<1>19. ASSUME NEW c \in Client, Stop(c) PROVE RequestTypes'
  BY <1>19, AnswerTypes DEF Stop
<1>20. ASSUME NEW ch \in Ceremony, NEW k \in Passkey, NEW i \in Invite, StartInvite(ch, i, k) PROVE RequestTypes'
  BY <1>20, Names, PasskeyAssumption DEF StartInvite, Issue, NoCeremony
<1>21. ASSUME NEW ch \in Ceremony, NEW k \in Passkey, StartOpen(ch, k) PROVE RequestTypes'
  BY <1>21, Names, PasskeyAssumption DEF StartOpen, Issue, NoCeremony
<1>22. ASSUME NEW ch \in Ceremony, NEW k \in Passkey, NEW a \in accounts, StartAdd(ch, a, k) PROVE RequestTypes'
  BY <1>22, Names, PasskeyAssumption DEF StartAdd, Issue, NoCeremony
<1>23. ASSUME NEW ch \in Ceremony, NEW k \in Passkey, StartLogin(ch, k) PROVE RequestTypes'
  BY <1>23, Names, PasskeyAssumption DEF StartLogin, Issue, NoCeremony
<1>24. ASSUME NEW m \in {"invite", "open", "closed"}, Deploy(m) PROVE RequestTypes'
  BY <1>24, Names, PasskeyAssumption DEF Deploy
<1>25. ASSUME NEW a \in accounts, NEW s \in Account, EndSession(a, s) PROVE RequestTypes'
  BY <1>25, Names, PasskeyAssumption DEF EndSession
<1>26. ASSUME UNCHANGED vars PROVE RequestTypes'
  BY <1>26 DEF vars
<1> QED
  BY <1>1, <1>2, <1>3, <1>4, <1>5, <1>6, <1>7, <1>8, <1>9, <1>10, <1>11, <1>12, <1>13, <1>14, <1>15, <1>16, <1>17, <1>18, <1>19, <1>20, <1>21, <1>22, <1>23, <1>24, <1>25, <1>26 DEF Next, Request

\* Every step keeps the types of the history.
LEMMA HistoryStep ==
  ASSUME TableTypes, SessionTypes, RequestTypes, HistoryTypes, Labelled, Claimed, [Next]_vars
  PROVE  HistoryTypes'
<1> USE DEF HistoryTypes, RequestTypes, Labelled, ceremonies, credentials, tables, locals, history
<1>1. ASSUME NEW c \in Client, NEW ch \in Ceremony, Present(c, ch) PROVE HistoryTypes'
  BY <1>1, Names, LimitAssumption DEF Present, Goto
<1>2. ASSUME NEW c \in Client, Claim(c) PROVE HistoryTypes'
  BY <1>2, Names, LimitAssumption DEF Claim, Goto, Answer, Claimable, Consumed, FirstLabel
<1>3. ASSUME NEW c \in Client, Commit(c) PROVE HistoryTypes'
  BY <1>3, Names, LimitAssumption DEF Commit, Goto, Answer, BatchFails, CreateAccount, InsertCredential
<1>4. ASSUME NEW c \in Client, Undo(c) PROVE HistoryTypes'
  BY <1>4, Names, LimitAssumption DEF Undo, Goto, Answer, UndoAccount, DeleteAccount
<1>5. ASSUME NEW c \in Client, CheckCap(c) PROVE HistoryTypes'
  BY <1>5, Names, LimitAssumption DEF CheckCap, Goto, Answer
<1>6. ASSUME NEW c \in Client, FindAccount(c) PROVE HistoryTypes'
  BY <1>6, Names, LimitAssumption DEF FindAccount, Goto, Answer
<1>7. ASSUME NEW c \in Client, StoreKey(c) PROVE HistoryTypes'
  BY <1>7, Names, LimitAssumption DEF StoreKey, Goto, Answer, InsertCredential
<1>8. ASSUME NEW c \in Client, FindCredential(c) PROVE HistoryTypes'
  BY <1>8, Names, LimitAssumption DEF FindCredential, Goto, Answer, CounterMovedOn
<1>9. ASSUME NEW c \in Client, FindOwner(c) PROVE HistoryTypes'
  BY <1>9, Names, LimitAssumption DEF FindOwner, Goto, Answer
<1>10. ASSUME NEW c \in Client, BumpCounter(c) PROVE HistoryTypes'
  BY <1>10, Names, LimitAssumption DEF BumpCounter, Goto
<1>11. ASSUME NEW c \in Client, CountSessions(c) PROVE HistoryTypes'
  BY <1>11, Names, LimitAssumption DEF CountSessions, Goto
<1>12. ASSUME NEW c \in Client, SelectOldest(c) PROVE HistoryTypes'
  BY <1>12, Names, LimitAssumption DEF SelectOldest, Goto, Answer
<1>13. ASSUME NEW c \in Client, RevokeOldest(c) PROVE HistoryTypes'
  BY <1>13, Names, LimitAssumption DEF RevokeOldest, Goto, Answer
<1>14. ASSUME NEW c \in Client, InsertSession(c) PROVE HistoryTypes'
  BY <1>14, Names, LimitAssumption DEF InsertSession, Goto, Answer
<1>15. ASSUME NEW c \in Client, NEW a \in accounts, NEW k \in Passkey, BeginDeleteKey(c, a, k) PROVE HistoryTypes'
  BY <1>15, Names, LimitAssumption DEF BeginDeleteKey, Goto
<1>16. ASSUME NEW c \in Client, NEW a \in accounts, BeginDeleteAccount(c, a) PROVE HistoryTypes'
  BY <1>16, Names, LimitAssumption DEF BeginDeleteAccount, Goto
<1>17. ASSUME NEW c \in Client, DeleteKey(c) PROVE HistoryTypes'
  BY <1>17, Names, LimitAssumption DEF DeleteKey, Goto, Answer
<1>18. ASSUME NEW c \in Client, CloseAccount(c) PROVE HistoryTypes'
  BY <1>18, Names, LimitAssumption DEF CloseAccount, Goto, Answer, DeleteAccount
<1>19. ASSUME NEW c \in Client, Stop(c) PROVE HistoryTypes'
  <2>1. stops' = stops + 1 /\ stops < MaxStops /\ acc[c] \in Account
    BY <1>19 DEF Stop
  <2>2. stranded' \subseteq Account
    BY <1>19, <2>1 DEF Stop
  <2> QED
    BY <1>19, <2>1, <2>2, LimitAssumption DEF Stop
<1>20. ASSUME NEW ch \in Ceremony, NEW k \in Passkey, NEW i \in Invite, StartInvite(ch, i, k) PROVE HistoryTypes'
  BY <1>20, Names, LimitAssumption DEF StartInvite, Issue, NoCeremony
<1>21. ASSUME NEW ch \in Ceremony, NEW k \in Passkey, StartOpen(ch, k) PROVE HistoryTypes'
  BY <1>21, Names, LimitAssumption DEF StartOpen, Issue, NoCeremony
<1>22. ASSUME NEW ch \in Ceremony, NEW k \in Passkey, NEW a \in accounts, StartAdd(ch, a, k) PROVE HistoryTypes'
  <2>1. crowded' \subseteq Account
    BY <1>22 DEF StartAdd, TableTypes
  <2> QED
    BY <1>22, <2>1 DEF StartAdd
<1>23. ASSUME NEW ch \in Ceremony, NEW k \in Passkey, StartLogin(ch, k) PROVE HistoryTypes'
  BY <1>23, Names, LimitAssumption DEF StartLogin, Issue, NoCeremony
<1>24. ASSUME NEW m \in {"invite", "open", "closed"}, Deploy(m) PROVE HistoryTypes'
  BY <1>24, Names, LimitAssumption DEF Deploy
<1>25. ASSUME NEW a \in accounts, NEW s \in Account, EndSession(a, s) PROVE HistoryTypes'
  BY <1>25, Names, LimitAssumption DEF EndSession
<1>26. ASSUME UNCHANGED vars PROVE HistoryTypes'
  BY <1>26 DEF vars
<1> QED
  BY <1>1, <1>2, <1>3, <1>4, <1>5, <1>6, <1>7, <1>8, <1>9, <1>10, <1>11, <1>12, <1>13, <1>14, <1>15, <1>16, <1>17, <1>18, <1>19, <1>20, <1>21, <1>22, <1>23, <1>24, <1>25, <1>26 DEF Next, Request

\* What a label says of a request's locals stays true.
LEMMA LabelledStep ==
  ASSUME TypeOK, Labelled, [Next]_vars
  PROVE  Labelled'
<1> USE DEF Labelled, TableTypes, RequestTypes, ceremonies, credentials, tables, locals, history
<1>1. ASSUME NEW c \in Client, NEW ch \in Ceremony, Present(c, ch) PROVE Labelled'
  BY <1>1, Names, TypeParts DEF Present, Goto
<1>2. ASSUME NEW c \in Client, Claim(c) PROVE Labelled'
  BY <1>2, Names, TypeParts DEF Claim, Goto, Answer, Claimable, Consumed, FirstLabel
<1>3. ASSUME NEW c \in Client, Commit(c) PROVE Labelled'
  BY <1>3, Names, TypeParts DEF Commit, Goto, Answer, BatchFails, CreateAccount, InsertCredential
<1>4. ASSUME NEW c \in Client, Undo(c) PROVE Labelled'
  BY <1>4, Names, TypeParts DEF Undo, Goto, Answer, UndoAccount, DeleteAccount
<1>5. ASSUME NEW c \in Client, CheckCap(c) PROVE Labelled'
  BY <1>5, Names, TypeParts DEF CheckCap, Goto, Answer
<1>6. ASSUME NEW c \in Client, FindAccount(c) PROVE Labelled'
  BY <1>6, Names, TypeParts DEF FindAccount, Goto, Answer
<1>7. ASSUME NEW c \in Client, StoreKey(c) PROVE Labelled'
  BY <1>7, Names, TypeParts DEF StoreKey, Goto, Answer, InsertCredential
<1>8. ASSUME NEW c \in Client, FindCredential(c) PROVE Labelled'
  BY <1>8, Names, TypeParts DEF FindCredential, Goto, Answer, CounterMovedOn
<1>9. ASSUME NEW c \in Client, FindOwner(c) PROVE Labelled'
  BY <1>9, Names, TypeParts DEF FindOwner, Goto, Answer
<1>10. ASSUME NEW c \in Client, BumpCounter(c) PROVE Labelled'
  BY <1>10, Names, TypeParts DEF BumpCounter, Goto
<1>11. ASSUME NEW c \in Client, CountSessions(c) PROVE Labelled'
  BY <1>11, Names, TypeParts DEF CountSessions, Goto
<1>12. ASSUME NEW c \in Client, SelectOldest(c) PROVE Labelled'
  <2>1. CASE Answer(c)
    <3>1. pc[c] = "oldest" /\ UNCHANGED <<accounts, ceremony, state>>
      BY <1>12 DEF SelectOldest
    <3> QED
      BY <2>1, <3>1, Names, TypeParts DEF Answer, Goto
  <2>2. CASE ~ Answer(c)
    <3>1. pc[c] = "oldest" /\ Goto(c, "revoke") /\ UNCHANGED <<cer, acc, accounts, ceremony, state>>
      BY <1>12, <2>2 DEF SelectOldest
    <3>2. \A d \in Client : d # c => target'[d] = target[d]
      BY <1>12, <2>2, TypeParts DEF SelectOldest
    <3> QED
      BY <3>1, <3>2, Names, TypeParts DEF Goto
  <2> QED
    BY <2>1, <2>2
<1>13. ASSUME NEW c \in Client, RevokeOldest(c) PROVE Labelled'
  BY <1>13, Names, TypeParts DEF RevokeOldest, Goto, Answer
<1>14. ASSUME NEW c \in Client, InsertSession(c) PROVE Labelled'
  BY <1>14, Names, TypeParts DEF InsertSession, Goto, Answer
<1>15. ASSUME NEW c \in Client, NEW a \in accounts, NEW k \in Passkey, BeginDeleteKey(c, a, k) PROVE Labelled'
  BY <1>15, Names, TypeParts DEF BeginDeleteKey, Goto
<1>16. ASSUME NEW c \in Client, NEW a \in accounts, BeginDeleteAccount(c, a) PROVE Labelled'
  BY <1>16, Names, TypeParts DEF BeginDeleteAccount, Goto
<1>17. ASSUME NEW c \in Client, DeleteKey(c) PROVE Labelled'
  BY <1>17, Names, TypeParts DEF DeleteKey, Goto, Answer
<1>18. ASSUME NEW c \in Client, CloseAccount(c) PROVE Labelled'
  BY <1>18, Names, TypeParts DEF CloseAccount, Goto, Answer, DeleteAccount
<1>19. ASSUME NEW c \in Client, Stop(c) PROVE Labelled'
  BY <1>19, Names, TypeParts DEF Stop, Goto, Answer
<1>20. ASSUME NEW ch \in Ceremony, NEW k \in Passkey, NEW i \in Invite, StartInvite(ch, i, k) PROVE Labelled'
  BY <1>20, Names, TypeParts DEF StartInvite, Issue, NoCeremony
<1>21. ASSUME NEW ch \in Ceremony, NEW k \in Passkey, StartOpen(ch, k) PROVE Labelled'
  BY <1>21, Names, TypeParts DEF StartOpen, Issue, NoCeremony
<1>22. ASSUME NEW ch \in Ceremony, NEW k \in Passkey, NEW a \in accounts, StartAdd(ch, a, k) PROVE Labelled'
  BY <1>22, Names, TypeParts DEF StartAdd, Issue, NoCeremony
<1>23. ASSUME NEW ch \in Ceremony, NEW k \in Passkey, StartLogin(ch, k) PROVE Labelled'
  BY <1>23, Names, TypeParts DEF StartLogin, Issue, NoCeremony
<1>24. ASSUME NEW m \in {"invite", "open", "closed"}, Deploy(m) PROVE Labelled'
  BY <1>24, Names, TypeParts DEF Deploy
<1>25. ASSUME NEW a \in accounts, NEW s \in Account, EndSession(a, s) PROVE Labelled'
  BY <1>25, Names, TypeParts DEF EndSession
<1>26. ASSUME UNCHANGED vars PROVE Labelled'
  BY <1>26 DEF vars
<1> QED
  BY <1>1, <1>2, <1>3, <1>4, <1>5, <1>6, <1>7, <1>8, <1>9, <1>10, <1>11, <1>12, <1>13, <1>14, <1>15, <1>16, <1>17, <1>18, <1>19, <1>20, <1>21, <1>22, <1>23, <1>24, <1>25, <1>26 DEF Next, Request

\* No two requests get past the claim of one ceremony.
LEMMA ClaimedStep ==
  ASSUME TypeOK, Labelled, Claimed, [Next]_vars
  PROVE  Claimed'
<1> USE DEF Claimed, Labelled, Past, TableTypes, RequestTypes, Labels, ceremonies, credentials, tables, locals, history
<1>1. ASSUME NEW c \in Client, NEW ch \in Ceremony, Present(c, ch) PROVE Claimed'
  BY <1>1, Names, TypeParts DEF Present, Goto
<1>2. ASSUME NEW c \in Client, Claim(c) PROVE Claimed'
  BY <1>2, Names, TypeParts DEF Claim, Goto, Answer, Claimable, Consumed, FirstLabel
<1>3. ASSUME NEW c \in Client, Commit(c) PROVE Claimed'
  BY <1>3, Names, TypeParts DEF Commit, Goto, Answer, BatchFails, CreateAccount, InsertCredential
<1>4. ASSUME NEW c \in Client, Undo(c) PROVE Claimed'
  BY <1>4, Names, TypeParts DEF Undo, Goto, Answer, UndoAccount, DeleteAccount
<1>5. ASSUME NEW c \in Client, CheckCap(c) PROVE Claimed'
  BY <1>5, Names, TypeParts DEF CheckCap, Goto, Answer
<1>6. ASSUME NEW c \in Client, FindAccount(c) PROVE Claimed'
  BY <1>6, Names, TypeParts DEF FindAccount, Goto, Answer
<1>7. ASSUME NEW c \in Client, StoreKey(c) PROVE Claimed'
  BY <1>7, Names, TypeParts DEF StoreKey, Goto, Answer, InsertCredential
<1>8. ASSUME NEW c \in Client, FindCredential(c) PROVE Claimed'
  BY <1>8, Names, TypeParts DEF FindCredential, Goto, Answer, CounterMovedOn
<1>9. ASSUME NEW c \in Client, FindOwner(c) PROVE Claimed'
  BY <1>9, Names, TypeParts DEF FindOwner, Goto, Answer
<1>10. ASSUME NEW c \in Client, BumpCounter(c) PROVE Claimed'
  BY <1>10, Names, TypeParts DEF BumpCounter, Goto
<1>11. ASSUME NEW c \in Client, CountSessions(c) PROVE Claimed'
  BY <1>11, Names, TypeParts DEF CountSessions, Goto
<1>12. ASSUME NEW c \in Client, SelectOldest(c) PROVE Claimed'
  <2>1. CASE Answer(c)
    <3>1. pc[c] = "oldest" /\ UNCHANGED <<accounts, ceremony, state>>
      BY <1>12 DEF SelectOldest
    <3> QED
      BY <2>1, <3>1, Names, TypeParts DEF Answer, Goto
  <2>2. CASE ~ Answer(c)
    <3>1. pc[c] = "oldest" /\ Goto(c, "revoke") /\ UNCHANGED <<cer, acc, accounts, ceremony, state>>
      BY <1>12, <2>2 DEF SelectOldest
    <3>2. \A d \in Client : d # c => target'[d] = target[d]
      BY <1>12, <2>2, TypeParts DEF SelectOldest
    <3> QED
      BY <3>1, <3>2, Names, TypeParts DEF Goto
  <2> QED
    BY <2>1, <2>2
<1>13. ASSUME NEW c \in Client, RevokeOldest(c) PROVE Claimed'
  BY <1>13, Names, TypeParts DEF RevokeOldest, Goto, Answer
<1>14. ASSUME NEW c \in Client, InsertSession(c) PROVE Claimed'
  BY <1>14, Names, TypeParts DEF InsertSession, Goto, Answer
<1>15. ASSUME NEW c \in Client, NEW a \in accounts, NEW k \in Passkey, BeginDeleteKey(c, a, k) PROVE Claimed'
  BY <1>15, Names, TypeParts DEF BeginDeleteKey, Goto
<1>16. ASSUME NEW c \in Client, NEW a \in accounts, BeginDeleteAccount(c, a) PROVE Claimed'
  BY <1>16, Names, TypeParts DEF BeginDeleteAccount, Goto
<1>17. ASSUME NEW c \in Client, DeleteKey(c) PROVE Claimed'
  BY <1>17, Names, TypeParts DEF DeleteKey, Goto, Answer
<1>18. ASSUME NEW c \in Client, CloseAccount(c) PROVE Claimed'
  BY <1>18, Names, TypeParts DEF CloseAccount, Goto, Answer, DeleteAccount
<1>19. ASSUME NEW c \in Client, Stop(c) PROVE Claimed'
  BY <1>19, Names, TypeParts DEF Stop, Goto, Answer
<1>20. ASSUME NEW ch \in Ceremony, NEW k \in Passkey, NEW i \in Invite, StartInvite(ch, i, k) PROVE Claimed'
  BY <1>20, Names, TypeParts DEF StartInvite, Issue, NoCeremony
<1>21. ASSUME NEW ch \in Ceremony, NEW k \in Passkey, StartOpen(ch, k) PROVE Claimed'
  BY <1>21, Names, TypeParts DEF StartOpen, Issue, NoCeremony
<1>22. ASSUME NEW ch \in Ceremony, NEW k \in Passkey, NEW a \in accounts, StartAdd(ch, a, k) PROVE Claimed'
  <2>1. /\ UNCHANGED <<pc, cer, acc, accounts>>
        /\ state[ch] = "new"
        /\ \A other \in Ceremony : other # ch => state'[other] = state[other] /\ ceremony'[other] = ceremony[other]
    BY <1>22, TypeParts DEF StartAdd, Issue
  <2>2. \A d \in Client : pc[d] \in Past =>
          /\ cer[d] \in Ceremony /\ state'[cer[d]] = "used"
          /\ ceremony'[cer[d]] = ceremony[cer[d]]
    BY <2>1
  <2> QED
    BY <2>1, <2>2
<1>23. ASSUME NEW ch \in Ceremony, NEW k \in Passkey, StartLogin(ch, k) PROVE Claimed'
  BY <1>23, Names, TypeParts DEF StartLogin, Issue, NoCeremony
<1>24. ASSUME NEW m \in {"invite", "open", "closed"}, Deploy(m) PROVE Claimed'
  BY <1>24, Names, TypeParts DEF Deploy
<1>25. ASSUME NEW a \in accounts, NEW s \in Account, EndSession(a, s) PROVE Claimed'
  BY <1>25, Names, TypeParts DEF EndSession
<1>26. ASSUME UNCHANGED vars PROVE Claimed'
  BY <1>26 DEF vars
<1> QED
  BY <1>1, <1>2, <1>3, <1>4, <1>5, <1>6, <1>7, <1>8, <1>9, <1>10, <1>11, <1>12, <1>13, <1>14, <1>15, <1>16, <1>17, <1>18, <1>19, <1>20, <1>21, <1>22, <1>23, <1>24, <1>25, <1>26 DEF Next, Request

\* A request past its claim works for the account of its ceremony, and the account
\* of a registration does not exist before its commit.
LEMMA PurposefulStep ==
  ASSUME TypeOK, Labelled, Claimed, Purposeful, Recorded, [Next]_vars
  PROVE  Purposeful'
<1> USE DEF Purposeful, Claimed, Recorded, Labelled, Past, TableTypes, RequestTypes, Labels, ceremonies, credentials, tables, locals, history
<1>1. ASSUME NEW c \in Client, NEW ch \in Ceremony, Present(c, ch) PROVE Purposeful'
  BY <1>1, Names, TypeParts DEF Present, Goto
<1>2. ASSUME NEW c \in Client, Claim(c) PROVE Purposeful'
  BY <1>2, Names, TypeParts DEF Claim, Goto, Answer, Claimable, Consumed, FirstLabel
<1>3. ASSUME NEW c \in Client, Commit(c) PROVE Purposeful'
  BY <1>3, Names, TypeParts DEF Commit, Goto, Answer, BatchFails, CreateAccount, InsertCredential
<1>4. ASSUME NEW c \in Client, Undo(c) PROVE Purposeful'
  BY <1>4, Names, TypeParts DEF Undo, Goto, Answer, UndoAccount, DeleteAccount
<1>5. ASSUME NEW c \in Client, CheckCap(c) PROVE Purposeful'
  BY <1>5, Names, TypeParts DEF CheckCap, Goto, Answer
<1>6. ASSUME NEW c \in Client, FindAccount(c) PROVE Purposeful'
  BY <1>6, Names, TypeParts DEF FindAccount, Goto, Answer
<1>7. ASSUME NEW c \in Client, StoreKey(c) PROVE Purposeful'
  BY <1>7, Names, TypeParts DEF StoreKey, Goto, Answer, InsertCredential
<1>8. ASSUME NEW c \in Client, FindCredential(c) PROVE Purposeful'
  BY <1>8, Names, TypeParts DEF FindCredential, Goto, Answer, CounterMovedOn
<1>9. ASSUME NEW c \in Client, FindOwner(c) PROVE Purposeful'
  BY <1>9, Names, TypeParts DEF FindOwner, Goto, Answer
<1>10. ASSUME NEW c \in Client, BumpCounter(c) PROVE Purposeful'
  BY <1>10, Names, TypeParts DEF BumpCounter, Goto
<1>11. ASSUME NEW c \in Client, CountSessions(c) PROVE Purposeful'
  BY <1>11, Names, TypeParts DEF CountSessions, Goto
<1>12. ASSUME NEW c \in Client, SelectOldest(c) PROVE Purposeful'
  <2>1. CASE Answer(c)
    <3>1. pc[c] = "oldest" /\ UNCHANGED <<accounts, ceremony, state>>
      BY <1>12 DEF SelectOldest
    <3> QED
      BY <2>1, <3>1, Names, TypeParts DEF Answer, Goto
  <2>2. CASE ~ Answer(c)
    <3>1. pc[c] = "oldest" /\ Goto(c, "revoke") /\ UNCHANGED <<cer, acc, accounts, ceremony, state>>
      BY <1>12, <2>2 DEF SelectOldest
    <3>2. \A d \in Client : d # c => target'[d] = target[d]
      BY <1>12, <2>2, TypeParts DEF SelectOldest
    <3> QED
      BY <3>1, <3>2, Names, TypeParts DEF Goto
  <2> QED
    BY <2>1, <2>2
<1>13. ASSUME NEW c \in Client, RevokeOldest(c) PROVE Purposeful'
  BY <1>13, Names, TypeParts DEF RevokeOldest, Goto, Answer
<1>14. ASSUME NEW c \in Client, InsertSession(c) PROVE Purposeful'
  BY <1>14, Names, TypeParts DEF InsertSession, Goto, Answer
<1>15. ASSUME NEW c \in Client, NEW a \in accounts, NEW k \in Passkey, BeginDeleteKey(c, a, k) PROVE Purposeful'
  BY <1>15, Names, TypeParts DEF BeginDeleteKey, Goto
<1>16. ASSUME NEW c \in Client, NEW a \in accounts, BeginDeleteAccount(c, a) PROVE Purposeful'
  BY <1>16, Names, TypeParts DEF BeginDeleteAccount, Goto
<1>17. ASSUME NEW c \in Client, DeleteKey(c) PROVE Purposeful'
  BY <1>17, Names, TypeParts DEF DeleteKey, Goto, Answer
<1>18. ASSUME NEW c \in Client, CloseAccount(c) PROVE Purposeful'
  BY <1>18, Names, TypeParts DEF CloseAccount, Goto, Answer, DeleteAccount
<1>19. ASSUME NEW c \in Client, Stop(c) PROVE Purposeful'
  BY <1>19, Names, TypeParts DEF Stop, Goto, Answer
<1>20. ASSUME NEW ch \in Ceremony, NEW k \in Passkey, NEW i \in Invite, StartInvite(ch, i, k) PROVE Purposeful'
  BY <1>20, Names, TypeParts DEF StartInvite, Issue, NoCeremony
<1>21. ASSUME NEW ch \in Ceremony, NEW k \in Passkey, StartOpen(ch, k) PROVE Purposeful'
  BY <1>21, Names, TypeParts DEF StartOpen, Issue, NoCeremony
<1>22. ASSUME NEW ch \in Ceremony, NEW k \in Passkey, NEW a \in accounts, StartAdd(ch, a, k) PROVE Purposeful'
  <2>1. /\ UNCHANGED <<pc, cer, acc, accounts>>
        /\ state[ch] = "new"
        /\ \A other \in Ceremony : other # ch => state'[other] = state[other] /\ ceremony'[other] = ceremony[other]
    BY <1>22, TypeParts DEF StartAdd, Issue
  <2>2. \A d \in Client : pc[d] \in Past =>
          /\ cer[d] \in Ceremony /\ state'[cer[d]] = "used"
          /\ ceremony'[cer[d]] = ceremony[cer[d]]
    BY <2>1
  <2> QED
    BY <2>1, <2>2
<1>23. ASSUME NEW ch \in Ceremony, NEW k \in Passkey, StartLogin(ch, k) PROVE Purposeful'
  BY <1>23, Names, TypeParts DEF StartLogin, Issue, NoCeremony
<1>24. ASSUME NEW m \in {"invite", "open", "closed"}, Deploy(m) PROVE Purposeful'
  BY <1>24, Names, TypeParts DEF Deploy
<1>25. ASSUME NEW a \in accounts, NEW s \in Account, EndSession(a, s) PROVE Purposeful'
  BY <1>25, Names, TypeParts DEF EndSession
<1>26. ASSUME UNCHANGED vars PROVE Purposeful'
  BY <1>26 DEF vars
<1> QED
  BY <1>1, <1>2, <1>3, <1>4, <1>5, <1>6, <1>7, <1>8, <1>9, <1>10, <1>11, <1>12, <1>13, <1>14, <1>15, <1>16, <1>17, <1>18, <1>19, <1>20, <1>21, <1>22, <1>23, <1>24, <1>25, <1>26 DEF Next, Request

\* An account's ceremony is used.
LEMMA RecordedStep ==
  ASSUME TypeOK, Labelled, Claimed, Purposeful, Recorded, [Next]_vars
  PROVE  Recorded'
<1> USE DEF Recorded, Claimed, Purposeful, Past, TableTypes, RequestTypes, ceremonies, credentials, tables, locals, history
<1>1. ASSUME NEW c \in Client, NEW ch \in Ceremony, Present(c, ch) PROVE Recorded'
  BY <1>1, Names, TypeParts DEF Present, Goto
<1>2. ASSUME NEW c \in Client, Claim(c) PROVE Recorded'
  BY <1>2, Names, TypeParts DEF Claim, Goto, Answer, Claimable, Consumed, FirstLabel
<1>3. ASSUME NEW c \in Client, Commit(c) PROVE Recorded'
  BY <1>3, Names, TypeParts DEF Commit, Goto, Answer, BatchFails, CreateAccount, InsertCredential
<1>4. ASSUME NEW c \in Client, Undo(c) PROVE Recorded'
  BY <1>4, Names, TypeParts DEF Undo, Goto, Answer, UndoAccount, DeleteAccount
<1>5. ASSUME NEW c \in Client, CheckCap(c) PROVE Recorded'
  BY <1>5, Names, TypeParts DEF CheckCap, Goto, Answer
<1>6. ASSUME NEW c \in Client, FindAccount(c) PROVE Recorded'
  BY <1>6, Names, TypeParts DEF FindAccount, Goto, Answer
<1>7. ASSUME NEW c \in Client, StoreKey(c) PROVE Recorded'
  BY <1>7, Names, TypeParts DEF StoreKey, Goto, Answer, InsertCredential
<1>8. ASSUME NEW c \in Client, FindCredential(c) PROVE Recorded'
  BY <1>8, Names, TypeParts DEF FindCredential, Goto, Answer, CounterMovedOn
<1>9. ASSUME NEW c \in Client, FindOwner(c) PROVE Recorded'
  BY <1>9, Names, TypeParts DEF FindOwner, Goto, Answer
<1>10. ASSUME NEW c \in Client, BumpCounter(c) PROVE Recorded'
  BY <1>10, Names, TypeParts DEF BumpCounter, Goto
<1>11. ASSUME NEW c \in Client, CountSessions(c) PROVE Recorded'
  BY <1>11, Names, TypeParts DEF CountSessions, Goto
<1>12. ASSUME NEW c \in Client, SelectOldest(c) PROVE Recorded'
  <2>1. CASE Answer(c)
    <3>1. pc[c] = "oldest" /\ UNCHANGED <<accounts, ceremony, state>>
      BY <1>12 DEF SelectOldest
    <3> QED
      BY <2>1, <3>1, Names, TypeParts DEF Answer, Goto
  <2>2. CASE ~ Answer(c)
    <3>1. pc[c] = "oldest" /\ Goto(c, "revoke") /\ UNCHANGED <<cer, acc, accounts, ceremony, state>>
      BY <1>12, <2>2 DEF SelectOldest
    <3>2. \A d \in Client : d # c => target'[d] = target[d]
      BY <1>12, <2>2, TypeParts DEF SelectOldest
    <3> QED
      BY <3>1, <3>2, Names, TypeParts DEF Goto
  <2> QED
    BY <2>1, <2>2
<1>13. ASSUME NEW c \in Client, RevokeOldest(c) PROVE Recorded'
  BY <1>13, Names, TypeParts DEF RevokeOldest, Goto, Answer
<1>14. ASSUME NEW c \in Client, InsertSession(c) PROVE Recorded'
  BY <1>14, Names, TypeParts DEF InsertSession, Goto, Answer
<1>15. ASSUME NEW c \in Client, NEW a \in accounts, NEW k \in Passkey, BeginDeleteKey(c, a, k) PROVE Recorded'
  BY <1>15, Names, TypeParts DEF BeginDeleteKey, Goto
<1>16. ASSUME NEW c \in Client, NEW a \in accounts, BeginDeleteAccount(c, a) PROVE Recorded'
  BY <1>16, Names, TypeParts DEF BeginDeleteAccount, Goto
<1>17. ASSUME NEW c \in Client, DeleteKey(c) PROVE Recorded'
  BY <1>17, Names, TypeParts DEF DeleteKey, Goto, Answer
<1>18. ASSUME NEW c \in Client, CloseAccount(c) PROVE Recorded'
  BY <1>18, Names, TypeParts DEF CloseAccount, Goto, Answer, DeleteAccount
<1>19. ASSUME NEW c \in Client, Stop(c) PROVE Recorded'
  BY <1>19, Names, TypeParts DEF Stop, Goto, Answer
<1>20. ASSUME NEW ch \in Ceremony, NEW k \in Passkey, NEW i \in Invite, StartInvite(ch, i, k) PROVE Recorded'
  BY <1>20, Names, TypeParts DEF StartInvite, Issue, NoCeremony
<1>21. ASSUME NEW ch \in Ceremony, NEW k \in Passkey, StartOpen(ch, k) PROVE Recorded'
  BY <1>21, Names, TypeParts DEF StartOpen, Issue, NoCeremony
<1>22. ASSUME NEW ch \in Ceremony, NEW k \in Passkey, NEW a \in accounts, StartAdd(ch, a, k) PROVE Recorded'
  BY <1>22, Names, TypeParts DEF StartAdd, Issue, NoCeremony
<1>23. ASSUME NEW ch \in Ceremony, NEW k \in Passkey, StartLogin(ch, k) PROVE Recorded'
  BY <1>23, Names, TypeParts DEF StartLogin, Issue, NoCeremony
<1>24. ASSUME NEW m \in {"invite", "open", "closed"}, Deploy(m) PROVE Recorded'
  BY <1>24, Names, TypeParts DEF Deploy
<1>25. ASSUME NEW a \in accounts, NEW s \in Account, EndSession(a, s) PROVE Recorded'
  BY <1>25, Names, TypeParts DEF EndSession
<1>26. ASSUME UNCHANGED vars PROVE Recorded'
  BY <1>26 DEF vars
<1> QED
  BY <1>1, <1>2, <1>3, <1>4, <1>5, <1>6, <1>7, <1>8, <1>9, <1>10, <1>11, <1>12, <1>13, <1>14, <1>15, <1>16, <1>17, <1>18, <1>19, <1>20, <1>21, <1>22, <1>23, <1>24, <1>25, <1>26 DEF Next, Request

\* The inductive invariant holds in every reachable state.
THEOREM Invariance == Spec => []IInv
<1>1. Init => IInv
  <2> SUFFICES ASSUME Init PROVE IInv
    OBVIOUS
  <2>1. TableTypes
    BY Names, PasskeyAssumption DEF Init, TableTypes, NoCeremony, Kinds
  <2>2. SessionTypes
    <3>1. <<>> \in Seq(Account) /\ <<Founder>> \in Seq(Account)
      BY Names
    <3> QED
      BY <3>1 DEF Init, SessionTypes
  <2>3. RequestTypes /\ HistoryTypes
    <3>1. RequestTypes
      BY Names DEF Init, RequestTypes, Labels
    <3> QED
      <4>1. stops \in 0 .. MaxStops
        BY LimitAssumption DEF Init
      <4> QED
        BY <3>1, <4>1 DEF Init, HistoryTypes
  <2>4. Labelled /\ Claimed /\ Purposeful /\ Recorded
    BY DEF Init, Labelled, Claimed, Past, Purposeful, Recorded, NoCeremony
  <2> QED
    BY <2>1, <2>2, <2>3, <2>4, TypeParts DEF IInv
<1>2. IInv /\ [Next]_vars => IInv'
  <2> SUFFICES ASSUME IInv, [Next]_vars PROVE IInv'
    OBVIOUS
  <2>1. TableTypes' /\ SessionTypes' /\ RequestTypes' /\ HistoryTypes'
    BY TypeParts, TablesStep, SessionsStep, RequestsStep, HistoryStep DEF IInv
  <2>2. TypeOK'
    BY <2>1, TypeParts, PTL
  <2> QED
    BY <2>2, LabelledStep, ClaimedStep, PurposefulStep, RecordedStep DEF IInv
<1> QED
  BY <1>1, <1>2, PTL DEF Spec

\* The tables, the lists of sessions and the requests keep their types.
THEOREM TypeCorrectness == Spec => []TypeOK
  BY Invariance, PTL DEF IInv

-----------------------------------------------------------------------------
(* Accounts.                                                               *)

\* Whatever removes a passkey leaves its account another, or removes the account.
LEMMA PasskeyStep ==
  ASSUME IInv, EveryAccountHasAPasskey, [Next]_vars
  PROVE  EveryAccountHasAPasskey'
<1> USE DEF EveryAccountHasAPasskey, Keys, IInv, Labelled, TableTypes, RequestTypes, ceremonies, credentials, tables, locals, history
<1>1. ASSUME NEW c \in Client, NEW ch \in Ceremony, Present(c, ch) PROVE EveryAccountHasAPasskey'
  BY <1>1, Names, TypeParts DEF Present, Goto
<1>2. ASSUME NEW c \in Client, Claim(c) PROVE EveryAccountHasAPasskey'
  BY <1>2, Names, TypeParts DEF Claim, Goto, Answer, Claimable, Consumed, FirstLabel
<1>3. ASSUME NEW c \in Client, Commit(c) PROVE EveryAccountHasAPasskey'
  <2>1. CASE UNCHANGED tables
    BY <2>1
  <2>2. CASE CreateAccount(acc[c]) /\ InsertCredential(ceremony[cer[c]].key, acc[c])
    <3>1. ceremony[cer[c]].key \in Passkey /\ acc[c] \in Account
      BY <1>3, TypeParts DEF Commit, Claimed, Past
    <3>2. \A k \in Passkey : owner'[k] = IF k = ceremony[cer[c]].key THEN acc[c] ELSE owner[k]
      BY <2>2, <3>1, TypeParts DEF InsertCredential
    <3>3. \A a \in accounts' : a = acc[c] => Keys(a)' # {}
      BY <3>1, <3>2
    <3>4. \A a \in accounts : Keys(a) \subseteq Keys(a)'
      <4>1. \A a \in accounts : a # -1
        BY Names, TypeParts
      <4> QED
        BY <2>2, <3>2, <4>1 DEF InsertCredential
    <3>5. accounts' = accounts \union {acc[c]}
      BY <2>2 DEF CreateAccount
    <3> HIDE DEF Keys
    <3> QED
      BY <3>3, <3>4, <3>5
  <2> QED
    BY <1>3, <2>1, <2>2 DEF Commit, BatchFails
<1>4. ASSUME NEW c \in Client, Undo(c) PROVE EveryAccountHasAPasskey'
  BY <1>4, Names, TypeParts DEF Undo, Goto, Answer, UndoAccount, DeleteAccount
<1>5. ASSUME NEW c \in Client, CheckCap(c) PROVE EveryAccountHasAPasskey'
  BY <1>5, Names, TypeParts DEF CheckCap, Goto, Answer
<1>6. ASSUME NEW c \in Client, FindAccount(c) PROVE EveryAccountHasAPasskey'
  BY <1>6, Names, TypeParts DEF FindAccount, Goto, Answer
<1>7. ASSUME NEW c \in Client, StoreKey(c) PROVE EveryAccountHasAPasskey'
  BY <1>7, Names, TypeParts DEF StoreKey, Goto, Answer, InsertCredential
<1>8. ASSUME NEW c \in Client, FindCredential(c) PROVE EveryAccountHasAPasskey'
  BY <1>8, Names, TypeParts DEF FindCredential, Goto, Answer, CounterMovedOn
<1>9. ASSUME NEW c \in Client, FindOwner(c) PROVE EveryAccountHasAPasskey'
  BY <1>9, Names, TypeParts DEF FindOwner, Goto, Answer
<1>10. ASSUME NEW c \in Client, BumpCounter(c) PROVE EveryAccountHasAPasskey'
  BY <1>10, Names, TypeParts DEF BumpCounter, Goto
<1>11. ASSUME NEW c \in Client, CountSessions(c) PROVE EveryAccountHasAPasskey'
  BY <1>11, Names, TypeParts DEF CountSessions, Goto
<1>12. ASSUME NEW c \in Client, SelectOldest(c) PROVE EveryAccountHasAPasskey'
  BY <1>12, Names, TypeParts DEF SelectOldest, Goto, Answer
<1>13. ASSUME NEW c \in Client, RevokeOldest(c) PROVE EveryAccountHasAPasskey'
  BY <1>13, Names, TypeParts DEF RevokeOldest, Goto, Answer
<1>14. ASSUME NEW c \in Client, InsertSession(c) PROVE EveryAccountHasAPasskey'
  BY <1>14, Names, TypeParts DEF InsertSession, Goto, Answer
<1>15. ASSUME NEW c \in Client, NEW a \in accounts, NEW k \in Passkey, BeginDeleteKey(c, a, k) PROVE EveryAccountHasAPasskey'
  BY <1>15, Names, TypeParts DEF BeginDeleteKey, Goto
<1>16. ASSUME NEW c \in Client, NEW a \in accounts, BeginDeleteAccount(c, a) PROVE EveryAccountHasAPasskey'
  BY <1>16, Names, TypeParts DEF BeginDeleteAccount, Goto
<1>17. ASSUME NEW c \in Client, DeleteKey(c) PROVE EveryAccountHasAPasskey'
  <2>1. CASE owner[target[c]] = acc[c] /\ KeyDeletable(acc[c])
    <3>1. /\ target[c] \in Passkey /\ owner' = [owner EXCEPT ![target[c]] = -1]
          /\ UNCHANGED accounts
      BY <1>17, <2>1 DEF DeleteKey
    <3>2. \A a \in accounts : a # acc[c] => Keys(a) \subseteq Keys(a)'
      BY <2>1, <3>1, TypeParts
    <3>3. \A a \in accounts : a = acc[c] => Keys(a) \ {target[c]} \subseteq Keys(a)'
      BY <3>1, TypeParts
    <3>4. Keys(acc[c]) \ {target[c]} # {}
      <4> DEFINE K == Keys(acc[c])
      <4>1. IsFiniteSet(K) /\ Cardinality(K) > 1 /\ Cardinality(K) \in Nat
        BY <2>1, PasskeyAssumption, FS_Subset, FS_CardinalityType DEF KeyDeletable
      <4>2. K # {} /\ K # {target[c]}
        BY <4>1, FS_EmptySet, FS_Singleton
      <4> QED
        BY <4>2
    <3> HIDE DEF Keys
    <3>5. \A a \in accounts : Keys(a)' # {}
      BY <3>2, <3>3, <3>4
    <3> QED
      BY <3>1, <3>5
  <2>2. CASE ~ (owner[target[c]] = acc[c] /\ KeyDeletable(acc[c]))
    BY <1>17, <2>2 DEF DeleteKey
  <2> QED
    BY <2>1, <2>2
<1>18. ASSUME NEW c \in Client, CloseAccount(c) PROVE EveryAccountHasAPasskey'
  BY <1>18, Names, TypeParts DEF CloseAccount, Goto, Answer, DeleteAccount
<1>19. ASSUME NEW c \in Client, Stop(c) PROVE EveryAccountHasAPasskey'
  BY <1>19, Names, TypeParts DEF Stop, Goto, Answer
<1>20. ASSUME NEW ch \in Ceremony, NEW k \in Passkey, NEW i \in Invite, StartInvite(ch, i, k) PROVE EveryAccountHasAPasskey'
  BY <1>20, Names, TypeParts DEF StartInvite, Issue, NoCeremony
<1>21. ASSUME NEW ch \in Ceremony, NEW k \in Passkey, StartOpen(ch, k) PROVE EveryAccountHasAPasskey'
  BY <1>21, Names, TypeParts DEF StartOpen, Issue, NoCeremony
<1>22. ASSUME NEW ch \in Ceremony, NEW k \in Passkey, NEW a \in accounts, StartAdd(ch, a, k) PROVE EveryAccountHasAPasskey'
  BY <1>22, Names, TypeParts DEF StartAdd, Issue, NoCeremony
<1>23. ASSUME NEW ch \in Ceremony, NEW k \in Passkey, StartLogin(ch, k) PROVE EveryAccountHasAPasskey'
  BY <1>23, Names, TypeParts DEF StartLogin, Issue, NoCeremony
<1>24. ASSUME NEW m \in {"invite", "open", "closed"}, Deploy(m) PROVE EveryAccountHasAPasskey'
  BY <1>24, Names, TypeParts DEF Deploy
<1>25. ASSUME NEW a \in accounts, NEW s \in Account, EndSession(a, s) PROVE EveryAccountHasAPasskey'
  BY <1>25, Names, TypeParts DEF EndSession
<1>26. ASSUME UNCHANGED vars PROVE EveryAccountHasAPasskey'
  BY <1>26 DEF vars
<1> QED
  BY <1>1, <1>2, <1>3, <1>4, <1>5, <1>6, <1>7, <1>8, <1>9, <1>10, <1>11, <1>12, <1>13, <1>14, <1>15, <1>16, <1>17, <1>18, <1>19, <1>20, <1>21, <1>22, <1>23, <1>24, <1>25, <1>26 DEF Next, Request

\* No account is left without a passkey to log in with (repository.ts:189).
THEOREM NobodyIsLockedOut == Spec => []EveryAccountHasAPasskey
<1>1. Init => EveryAccountHasAPasskey
  BY PasskeyAssumption DEF Init, EveryAccountHasAPasskey, Keys
<1>2. IInv /\ EveryAccountHasAPasskey /\ [Next]_vars => EveryAccountHasAPasskey'
  BY PasskeyStep DEF IInv
<1> QED
  BY <1>1, <1>2, Invariance, PTL DEF Spec

\* A ceremony refused in closed mode is used, has no account and no request that
\* may still create one.
Refused ==
  /\ accounts \intersect refused = {}
  /\ \A ch \in refused : state[ch] = "used"
  /\ \A c \in Client : pc[c] \in {"cap", "commit"} => cer[c] \notin refused

\* A refusal is final.
LEMMA RefusedStep ==
  ASSUME IInv, Refused, [Next]_vars
  PROVE  Refused'
<1> USE DEF Refused, IInv, Labelled, Claimed, Purposeful, Recorded, Past, TableTypes, RequestTypes, ceremonies, credentials, tables, locals, history
<1>1. ASSUME NEW c \in Client, NEW ch \in Ceremony, Present(c, ch) PROVE Refused'
  BY <1>1, Names, TypeParts DEF Present, Goto
<1>2. ASSUME NEW c \in Client, Claim(c) PROVE Refused'
  <2> DEFINE ch == cer[c]
  <2>1. /\ ch \in Ceremony /\ UNCHANGED accounts
        /\ \A x \in Ceremony : state[x] = "used" => state'[x] = "used"
        /\ \A d \in Client : d # c => pc'[d] = pc[d] /\ cer'[d] = cer[d]
    BY <1>2, TypeParts DEF Claim, Labelled, Consumed, Answer, Goto
  <2>2. CASE ~ Claimable(ch)
    BY <1>2, <2>2, TypeParts DEF Claim, Answer, Goto
  <2>3. CASE Claimable(ch) /\ refused' = refused
    <3>1. ch \notin refused
      BY <2>3 DEF Claimable
    <3>2. \A d \in Client : pc'[d] \in {"cap", "commit"} => cer'[d] \notin refused
      BY <1>2, <2>1, <2>3, <3>1, TypeParts DEF Claim, Answer, Goto
    <3>3. refused \subseteq Ceremony
      BY TypeParts DEF HistoryTypes
    <3> QED
      BY <2>1, <2>3, <3>2, <3>3
  <2>4. CASE Claimable(ch) /\ refused' = refused \union {ch} /\ refused' # refused
    <3>1. Answer(c) /\ state' = [state EXCEPT ![ch] = "used"]
      BY <1>2, <2>4 DEF Claim, Consumed
    <3>2. ch \notin accounts
      BY <2>1, <2>4, Names DEF Claimable
    <3>3. \A d \in Client : pc[d] \in {"cap", "commit"} => cer[d] # ch
      BY <2>4 DEF Claimable
    <3>4. pc'[c] = "idle" /\ refused \subseteq Ceremony
      BY <3>1, TypeParts DEF Answer, Goto, HistoryTypes
    <3>5. \A x \in refused' : state'[x] = "used"
      BY <2>1, <2>4, <3>1, <3>4, TypeParts
    <3>6. accounts \intersect refused' = {}
      BY <2>4, <3>2
    <3>7. \A d \in Client : pc'[d] \in {"cap", "commit"} => cer'[d] \notin refused'
      BY <2>1, <2>4, <3>3, <3>4
    <3> QED
      BY <2>1, <3>5, <3>6, <3>7
  <2> QED
    BY <1>2, <2>2, <2>3, <2>4 DEF Claim
<1>3. ASSUME NEW c \in Client, Commit(c) PROVE Refused'
  BY <1>3, Names, TypeParts DEF Commit, Goto, Answer, BatchFails, CreateAccount, InsertCredential
<1>4. ASSUME NEW c \in Client, Undo(c) PROVE Refused'
  BY <1>4, Names, TypeParts DEF Undo, Goto, Answer, UndoAccount, DeleteAccount
<1>5. ASSUME NEW c \in Client, CheckCap(c) PROVE Refused'
  BY <1>5, Names, TypeParts DEF CheckCap, Goto, Answer
<1>6. ASSUME NEW c \in Client, FindAccount(c) PROVE Refused'
  BY <1>6, Names, TypeParts DEF FindAccount, Goto, Answer
<1>7. ASSUME NEW c \in Client, StoreKey(c) PROVE Refused'
  BY <1>7, Names, TypeParts DEF StoreKey, Goto, Answer, InsertCredential
<1>8. ASSUME NEW c \in Client, FindCredential(c) PROVE Refused'
  BY <1>8, Names, TypeParts DEF FindCredential, Goto, Answer, CounterMovedOn
<1>9. ASSUME NEW c \in Client, FindOwner(c) PROVE Refused'
  BY <1>9, Names, TypeParts DEF FindOwner, Goto, Answer
<1>10. ASSUME NEW c \in Client, BumpCounter(c) PROVE Refused'
  BY <1>10, Names, TypeParts DEF BumpCounter, Goto
<1>11. ASSUME NEW c \in Client, CountSessions(c) PROVE Refused'
  BY <1>11, Names, TypeParts DEF CountSessions, Goto
<1>12. ASSUME NEW c \in Client, SelectOldest(c) PROVE Refused'
  <2>1. CASE Answer(c)
    <3>1. pc[c] = "oldest" /\ UNCHANGED <<accounts, ceremony, state, refused>>
      BY <1>12 DEF SelectOldest
    <3> QED
      BY <2>1, <3>1, Names, TypeParts DEF Answer, Goto
  <2>2. CASE ~ Answer(c)
    <3>1. pc[c] = "oldest" /\ Goto(c, "revoke") /\ UNCHANGED <<cer, acc, accounts, ceremony, state, refused>>
      BY <1>12, <2>2 DEF SelectOldest
    <3>2. \A d \in Client : d # c => target'[d] = target[d]
      BY <1>12, <2>2, TypeParts DEF SelectOldest
    <3> QED
      BY <3>1, <3>2, Names, TypeParts DEF Goto
  <2> QED
    BY <2>1, <2>2
<1>13. ASSUME NEW c \in Client, RevokeOldest(c) PROVE Refused'
  BY <1>13, Names, TypeParts DEF RevokeOldest, Goto, Answer
<1>14. ASSUME NEW c \in Client, InsertSession(c) PROVE Refused'
  BY <1>14, Names, TypeParts DEF InsertSession, Goto, Answer
<1>15. ASSUME NEW c \in Client, NEW a \in accounts, NEW k \in Passkey, BeginDeleteKey(c, a, k) PROVE Refused'
  BY <1>15, Names, TypeParts DEF BeginDeleteKey, Goto
<1>16. ASSUME NEW c \in Client, NEW a \in accounts, BeginDeleteAccount(c, a) PROVE Refused'
  BY <1>16, Names, TypeParts DEF BeginDeleteAccount, Goto
<1>17. ASSUME NEW c \in Client, DeleteKey(c) PROVE Refused'
  BY <1>17, Names, TypeParts DEF DeleteKey, Goto, Answer
<1>18. ASSUME NEW c \in Client, CloseAccount(c) PROVE Refused'
  BY <1>18, Names, TypeParts DEF CloseAccount, Goto, Answer, DeleteAccount
<1>19. ASSUME NEW c \in Client, Stop(c) PROVE Refused'
  BY <1>19, Names, TypeParts DEF Stop, Goto, Answer
<1>20. ASSUME NEW ch \in Ceremony, NEW k \in Passkey, NEW i \in Invite, StartInvite(ch, i, k) PROVE Refused'
  BY <1>20, Names, TypeParts DEF StartInvite, Issue, NoCeremony
<1>21. ASSUME NEW ch \in Ceremony, NEW k \in Passkey, StartOpen(ch, k) PROVE Refused'
  BY <1>21, Names, TypeParts DEF StartOpen, Issue, NoCeremony
<1>22. ASSUME NEW ch \in Ceremony, NEW k \in Passkey, NEW a \in accounts, StartAdd(ch, a, k) PROVE Refused'
  BY <1>22, Names, TypeParts DEF StartAdd, Issue, NoCeremony
<1>23. ASSUME NEW ch \in Ceremony, NEW k \in Passkey, StartLogin(ch, k) PROVE Refused'
  BY <1>23, Names, TypeParts DEF StartLogin, Issue, NoCeremony
<1>24. ASSUME NEW m \in {"invite", "open", "closed"}, Deploy(m) PROVE Refused'
  BY <1>24, Names, TypeParts DEF Deploy
<1>25. ASSUME NEW a \in accounts, NEW s \in Account, EndSession(a, s) PROVE Refused'
  BY <1>25, Names, TypeParts DEF EndSession
<1>26. ASSUME UNCHANGED vars PROVE Refused'
  BY <1>26 DEF vars
<1> QED
  BY <1>1, <1>2, <1>3, <1>4, <1>5, <1>6, <1>7, <1>8, <1>9, <1>10, <1>11, <1>12, <1>13, <1>14, <1>15, <1>16, <1>17, <1>18, <1>19, <1>20, <1>21, <1>22, <1>23, <1>24, <1>25, <1>26 DEF Next, Request

\* A ceremony refused in closed mode never creates its account
\* (webauthn.ts:351-369).
THEOREM RefusalsAreFinal == Spec => []RefusedStaysRefused
<1>1. Init => Refused
  BY DEF Init, Refused
<1>2. IInv /\ Refused /\ [Next]_vars => Refused'
  BY RefusedStep DEF IInv
<1> QED
  BY <1>1, <1>2, Invariance, PTL DEF Spec, Refused, RefusedStaysRefused

\* A second account of an invite is one its request is about to remove.
LEMMA InviteStep ==
  ASSUME IInv, InviteAdmitsOne, [Next]_vars
  PROVE  InviteAdmitsOne'
<1> USE DEF InviteAdmitsOne, HistoryTypes, IInv, Labelled, Claimed, Purposeful, Recorded, Past, TableTypes, RequestTypes, ceremonies, credentials, tables, locals, history
<1>1. ASSUME NEW c \in Client, NEW ch \in Ceremony, Present(c, ch) PROVE InviteAdmitsOne'
  BY <1>1, Names, TypeParts, InviteAssumption DEF Present, Goto
<1>2. ASSUME NEW c \in Client, Claim(c) PROVE InviteAdmitsOne'
  BY <1>2, Names, TypeParts, InviteAssumption DEF Claim, Goto, Answer, Claimable, Consumed, FirstLabel
<1>3. ASSUME NEW c \in Client, Commit(c) PROVE InviteAdmitsOne'
  <2> DEFINE ch == cer[c]
             i == ceremony[ch].invite
             invited == ceremony[ch].kind = "invite"
  <2>1. ch \in Ceremony /\ acc[c] = ch /\ UNCHANGED <<ceremony, stranded>>
    BY <1>3 DEF Commit
  <2>2. CASE UNCHANGED <<usedBy, accounts>>
    <3>1. \A d \in Client : pc[d] = "undo" => pc'[d] = "undo" /\ acc'[d] = acc[d]
      BY <1>3, <2>2, TypeParts DEF Commit, BatchFails, Answer, Goto, CreateAccount
    <3> QED
      BY <2>1, <2>2, <3>1
  <2>3. CASE CreateAccount(acc[c])
    <3>1. /\ accounts' = accounts \union {ch} /\ ch \notin accounts
          /\ usedBy' = IF invited /\ usedBy[i] = 0 THEN [usedBy EXCEPT ![i] = ch] ELSE usedBy
          /\ Goto(c, IF invited /\ usedBy[i] # 0 THEN "undo" ELSE "count")
          /\ UNCHANGED <<cer, acc>>
      BY <1>3, <2>1, <2>3 DEF Commit, BatchFails, CreateAccount
    <3>2. \A d \in Client : pc[d] = "undo" => pc'[d] = "undo" /\ acc'[d] = acc[d]
      BY <1>3, <3>1, TypeParts DEF Goto, Commit
    <3>3. \A j \in Invite : usedBy[j] # 0 => usedBy'[j] = usedBy[j]
      BY <3>1, TypeParts
    <3>4. \A a \in accounts \ {Founder} :
            (ceremony[a].kind = "invite" /\ usedBy'[ceremony[a].invite] # a)
              => usedBy[ceremony[a].invite] # a
      BY <3>3, Names, TypeParts DEF Founder
    <3>5. (invited /\ usedBy'[i] # ch) => pc'[c] = "undo" /\ acc'[c] = ch
      <4>1. invited => i \in Invite
        BY <2>1
      <4> QED
        BY <2>1, <3>1, <4>1, TypeParts DEF Goto
    <3> QED
      BY <2>1, <3>1, <3>2, <3>4, <3>5
  <2> QED
    BY <1>3, <2>2, <2>3 DEF Commit, BatchFails
<1>4. ASSUME NEW c \in Client, Undo(c) PROVE InviteAdmitsOne'
  BY <1>4, Names, TypeParts, InviteAssumption DEF Undo, Goto, Answer, UndoAccount, DeleteAccount
<1>5. ASSUME NEW c \in Client, CheckCap(c) PROVE InviteAdmitsOne'
  BY <1>5, Names, TypeParts, InviteAssumption DEF CheckCap, Goto, Answer
<1>6. ASSUME NEW c \in Client, FindAccount(c) PROVE InviteAdmitsOne'
  BY <1>6, Names, TypeParts, InviteAssumption DEF FindAccount, Goto, Answer
<1>7. ASSUME NEW c \in Client, StoreKey(c) PROVE InviteAdmitsOne'
  BY <1>7, Names, TypeParts, InviteAssumption DEF StoreKey, Goto, Answer, InsertCredential
<1>8. ASSUME NEW c \in Client, FindCredential(c) PROVE InviteAdmitsOne'
  BY <1>8, Names, TypeParts, InviteAssumption DEF FindCredential, Goto, Answer, CounterMovedOn
<1>9. ASSUME NEW c \in Client, FindOwner(c) PROVE InviteAdmitsOne'
  BY <1>9, Names, TypeParts, InviteAssumption DEF FindOwner, Goto, Answer
<1>10. ASSUME NEW c \in Client, BumpCounter(c) PROVE InviteAdmitsOne'
  BY <1>10, Names, TypeParts, InviteAssumption DEF BumpCounter, Goto
<1>11. ASSUME NEW c \in Client, CountSessions(c) PROVE InviteAdmitsOne'
  BY <1>11, Names, TypeParts, InviteAssumption DEF CountSessions, Goto
<1>12. ASSUME NEW c \in Client, SelectOldest(c) PROVE InviteAdmitsOne'
  <2>1. CASE Answer(c)
    <3>1. pc[c] = "oldest" /\ UNCHANGED <<accounts, ceremony, state, usedBy, stranded>>
      BY <1>12 DEF SelectOldest
    <3> QED
      BY <2>1, <3>1, Names, TypeParts DEF Answer, Goto
  <2>2. CASE ~ Answer(c)
    <3>1. pc[c] = "oldest" /\ Goto(c, "revoke") /\ UNCHANGED <<cer, acc, accounts, ceremony, state, usedBy, stranded>>
      BY <1>12, <2>2 DEF SelectOldest
    <3>2. \A d \in Client : d # c => target'[d] = target[d]
      BY <1>12, <2>2, TypeParts DEF SelectOldest
    <3> QED
      BY <3>1, <3>2, Names, TypeParts DEF Goto
  <2> QED
    BY <2>1, <2>2
<1>13. ASSUME NEW c \in Client, RevokeOldest(c) PROVE InviteAdmitsOne'
  BY <1>13, Names, TypeParts, InviteAssumption DEF RevokeOldest, Goto, Answer
<1>14. ASSUME NEW c \in Client, InsertSession(c) PROVE InviteAdmitsOne'
  BY <1>14, Names, TypeParts, InviteAssumption DEF InsertSession, Goto, Answer
<1>15. ASSUME NEW c \in Client, NEW a \in accounts, NEW k \in Passkey, BeginDeleteKey(c, a, k) PROVE InviteAdmitsOne'
  BY <1>15, Names, TypeParts, InviteAssumption DEF BeginDeleteKey, Goto
<1>16. ASSUME NEW c \in Client, NEW a \in accounts, BeginDeleteAccount(c, a) PROVE InviteAdmitsOne'
  BY <1>16, Names, TypeParts, InviteAssumption DEF BeginDeleteAccount, Goto
<1>17. ASSUME NEW c \in Client, DeleteKey(c) PROVE InviteAdmitsOne'
  BY <1>17, Names, TypeParts, InviteAssumption DEF DeleteKey, Goto, Answer
<1>18. ASSUME NEW c \in Client, CloseAccount(c) PROVE InviteAdmitsOne'
  BY <1>18, Names, TypeParts, InviteAssumption DEF CloseAccount, Goto, Answer, DeleteAccount
<1>19. ASSUME NEW c \in Client, Stop(c) PROVE InviteAdmitsOne'
  BY <1>19, Names, TypeParts, InviteAssumption DEF Stop, Goto, Answer
<1>20. ASSUME NEW ch \in Ceremony, NEW k \in Passkey, NEW i \in Invite, StartInvite(ch, i, k) PROVE InviteAdmitsOne'
  BY <1>20, Names, TypeParts, InviteAssumption DEF StartInvite, Issue, NoCeremony
<1>21. ASSUME NEW ch \in Ceremony, NEW k \in Passkey, StartOpen(ch, k) PROVE InviteAdmitsOne'
  BY <1>21, Names, TypeParts, InviteAssumption DEF StartOpen, Issue, NoCeremony
<1>22. ASSUME NEW ch \in Ceremony, NEW k \in Passkey, NEW a \in accounts, StartAdd(ch, a, k) PROVE InviteAdmitsOne'
  BY <1>22, Names, TypeParts, InviteAssumption DEF StartAdd, Issue, NoCeremony
<1>23. ASSUME NEW ch \in Ceremony, NEW k \in Passkey, StartLogin(ch, k) PROVE InviteAdmitsOne'
  BY <1>23, Names, TypeParts, InviteAssumption DEF StartLogin, Issue, NoCeremony
<1>24. ASSUME NEW m \in {"invite", "open", "closed"}, Deploy(m) PROVE InviteAdmitsOne'
  BY <1>24, Names, TypeParts, InviteAssumption DEF Deploy
<1>25. ASSUME NEW a \in accounts, NEW s \in Account, EndSession(a, s) PROVE InviteAdmitsOne'
  BY <1>25, Names, TypeParts, InviteAssumption DEF EndSession
<1>26. ASSUME UNCHANGED vars PROVE InviteAdmitsOne'
  BY <1>26 DEF vars
<1> QED
  BY <1>1, <1>2, <1>3, <1>4, <1>5, <1>6, <1>7, <1>8, <1>9, <1>10, <1>11, <1>12, <1>13, <1>14, <1>15, <1>16, <1>17, <1>18, <1>19, <1>20, <1>21, <1>22, <1>23, <1>24, <1>25, <1>26 DEF Next, Request

\* An invite admits one account (webauthn.ts:421-430).
THEOREM InvitesAdmitOne == Spec => []InviteAdmitsOne
<1>1. Init => InviteAdmitsOne
  BY DEF Init, InviteAdmitsOne, Founder
<1>2. IInv /\ InviteAdmitsOne /\ [Next]_vars => InviteAdmitsOne'
  BY InviteStep DEF IInv
<1> QED
  BY <1>1, <1>2, Invariance, PTL DEF Spec

-----------------------------------------------------------------------------
(* Sessions.                                                               *)

\* The empty list repeats nothing.
LEMMA EmptyIsInjective == IsInjective(<<>>)
<1>1. DOMAIN <<>> = {}
  OBVIOUS
<1> QED
  BY <1>1 DEF IsInjective

\* A list that gets an element it does not have repeats nothing.
LEMMA AppendKeepsInjective ==
  ASSUME NEW S, NEW s \in Seq(S), NEW e \in S, IsInjective(s),
         \A j \in 1 .. Len(s) : s[j] # e
  PROVE  IsInjective(Append(s, e))
<1> DEFINE t == Append(s, e)
<1>1. /\ t \in Seq(S) /\ Len(t) = Len(s) + 1 /\ DOMAIN t = 1 .. Len(t)
      /\ \A j \in 1 .. Len(s) : t[j] = s[j]
      /\ t[Len(s) + 1] = e
  BY AppendProperties, LenProperties
<1>2. \A a, b \in 1 .. Len(s) : s[a] = s[b] => a = b
  BY LenProperties DEF IsInjective
<1> HIDE DEF t
<1>3. SUFFICES ASSUME NEW a \in 1 .. Len(t), NEW b \in 1 .. Len(t), t[a] = t[b]
               PROVE  a = b
  BY <1>1 DEF IsInjective, t
<1>4. Len(s) \in Nat
  BY LenProperties
<1> QED
  BY <1>1, <1>2, <1>3, <1>4

\* The sessions of a list are distinct, and no request may still open them.
Opened(a) == {active[a][j] : j \in 1 .. Len(active[a])}
Distinct ==
  /\ \A a \in Account : IsInjective(active[a])
  /\ \A a \in Account : \A s \in Opened(a) :
       s = Founder \/ (/\ s \in Ceremony /\ state[s] = "used"
                       /\ \A c \in Client : pc[c] \in Past => cer[c] # s)

Fewer ==
  \A a \in Account : IsInjective(active'[a]) /\ Opened(a)' \subseteq Opened(a)

\* Past, used and the lists of sessions: what every step does to them.
ListsKept ==
  /\ \A x \in Ceremony : state[x] = "used" => state'[x] = "used"
  /\ \A c \in Client : pc'[c] \in Past =>
       \/ pc[c] \in Past /\ cer'[c] = cer[c]
       \/ cer'[c] \in Ceremony /\ state[cer'[c]] # "used"

\* A request gets past its claim with a ceremony nobody has claimed.
LEMMA ListsKeptStep ==
  ASSUME IInv, [Next]_vars
  PROVE  ListsKept
<1> USE DEF ListsKept, IInv, Labelled, Claimed, TableTypes, RequestTypes, Past, Labels, ceremonies, credentials, tables, locals, history
<1>1. ASSUME NEW c \in Client, NEW ch \in Ceremony, Present(c, ch) PROVE ListsKept
  BY <1>1, Names, TypeParts DEF Present, Goto
<1>2. ASSUME NEW c \in Client, Claim(c) PROVE ListsKept
  BY <1>2, Names, TypeParts DEF Claim, Goto, Answer, Claimable, Consumed, FirstLabel
<1>3. ASSUME NEW c \in Client, Commit(c) PROVE ListsKept
  BY <1>3, Names, TypeParts DEF Commit, Goto, Answer, BatchFails, CreateAccount, InsertCredential
<1>4. ASSUME NEW c \in Client, Undo(c) PROVE ListsKept
  BY <1>4, Names, TypeParts DEF Undo, Goto, Answer, UndoAccount, DeleteAccount
<1>5. ASSUME NEW c \in Client, CheckCap(c) PROVE ListsKept
  BY <1>5, Names, TypeParts DEF CheckCap, Goto, Answer
<1>6. ASSUME NEW c \in Client, FindAccount(c) PROVE ListsKept
  BY <1>6, Names, TypeParts DEF FindAccount, Goto, Answer
<1>7. ASSUME NEW c \in Client, StoreKey(c) PROVE ListsKept
  BY <1>7, Names, TypeParts DEF StoreKey, Goto, Answer, InsertCredential
<1>8. ASSUME NEW c \in Client, FindCredential(c) PROVE ListsKept
  BY <1>8, Names, TypeParts DEF FindCredential, Goto, Answer, CounterMovedOn
<1>9. ASSUME NEW c \in Client, FindOwner(c) PROVE ListsKept
  BY <1>9, Names, TypeParts DEF FindOwner, Goto, Answer
<1>10. ASSUME NEW c \in Client, BumpCounter(c) PROVE ListsKept
  BY <1>10, Names, TypeParts DEF BumpCounter, Goto
<1>11. ASSUME NEW c \in Client, CountSessions(c) PROVE ListsKept
  BY <1>11, Names, TypeParts DEF CountSessions, Goto
<1>12. ASSUME NEW c \in Client, SelectOldest(c) PROVE ListsKept
  <2>1. CASE Answer(c)
    BY <1>12, <2>1, TypeParts DEF SelectOldest, Answer, Goto
  <2>2. CASE ~ Answer(c)
    <3>1. pc[c] = "oldest" /\ Goto(c, "revoke") /\ UNCHANGED <<cer, state>>
      BY <1>12, <2>2 DEF SelectOldest
    <3> QED
      BY <3>1, TypeParts DEF Goto
  <2> QED
    BY <2>1, <2>2
<1>13. ASSUME NEW c \in Client, RevokeOldest(c) PROVE ListsKept
  BY <1>13, Names, TypeParts DEF RevokeOldest, Goto, Answer
<1>14. ASSUME NEW c \in Client, InsertSession(c) PROVE ListsKept
  BY <1>14, Names, TypeParts DEF InsertSession, Goto, Answer
<1>15. ASSUME NEW c \in Client, NEW a \in accounts, NEW k \in Passkey, BeginDeleteKey(c, a, k) PROVE ListsKept
  BY <1>15, Names, TypeParts DEF BeginDeleteKey, Goto
<1>16. ASSUME NEW c \in Client, NEW a \in accounts, BeginDeleteAccount(c, a) PROVE ListsKept
  BY <1>16, Names, TypeParts DEF BeginDeleteAccount, Goto
<1>17. ASSUME NEW c \in Client, DeleteKey(c) PROVE ListsKept
  BY <1>17, Names, TypeParts DEF DeleteKey, Goto, Answer
<1>18. ASSUME NEW c \in Client, CloseAccount(c) PROVE ListsKept
  BY <1>18, Names, TypeParts DEF CloseAccount, Goto, Answer, DeleteAccount
<1>19. ASSUME NEW c \in Client, Stop(c) PROVE ListsKept
  BY <1>19, Names, TypeParts DEF Stop, Goto, Answer
<1>20. ASSUME NEW ch \in Ceremony, NEW k \in Passkey, NEW i \in Invite, StartInvite(ch, i, k) PROVE ListsKept
  BY <1>20, Names, TypeParts DEF StartInvite, Issue, NoCeremony
<1>21. ASSUME NEW ch \in Ceremony, NEW k \in Passkey, StartOpen(ch, k) PROVE ListsKept
  BY <1>21, Names, TypeParts DEF StartOpen, Issue, NoCeremony
<1>22. ASSUME NEW ch \in Ceremony, NEW k \in Passkey, NEW a \in accounts, StartAdd(ch, a, k) PROVE ListsKept
  BY <1>22, Names, TypeParts DEF StartAdd, Issue, NoCeremony
<1>23. ASSUME NEW ch \in Ceremony, NEW k \in Passkey, StartLogin(ch, k) PROVE ListsKept
  BY <1>23, Names, TypeParts DEF StartLogin, Issue, NoCeremony
<1>24. ASSUME NEW m \in {"invite", "open", "closed"}, Deploy(m) PROVE ListsKept
  BY <1>24, Names, TypeParts DEF Deploy
<1>25. ASSUME NEW a \in accounts, NEW s \in Account, EndSession(a, s) PROVE ListsKept
  BY <1>25, Names, TypeParts DEF EndSession
<1>26. ASSUME UNCHANGED vars PROVE ListsKept
  BY <1>26 DEF vars
<1> QED
  BY <1>1, <1>2, <1>3, <1>4, <1>5, <1>6, <1>7, <1>8, <1>9, <1>10, <1>11, <1>12, <1>13, <1>14, <1>15, <1>16, <1>17, <1>18, <1>19, <1>20, <1>21, <1>22, <1>23, <1>24, <1>25, <1>26 DEF Next, Request

\* Only InsertSession adds to a list.
LEMMA FewerStep ==
  ASSUME IInv, Distinct, [Next]_vars
  PROVE  (Fewer \/ \E x \in Client : InsertSession(x))
<1> USE DEF Fewer, ceremonies, credentials, tables, locals, history
<1>1. ASSUME NEW c \in Client, NEW ch \in Ceremony, Present(c, ch) PROVE (Fewer \/ \E x \in Client : InsertSession(x))
  <2>1. UNCHANGED active
    BY <1>1 DEF Present
  <2> QED
    BY <2>1 DEF Distinct, Opened
<1>2. ASSUME NEW c \in Client, Claim(c) PROVE (Fewer \/ \E x \in Client : InsertSession(x))
  <2>1. UNCHANGED active
    BY <1>2 DEF Claim
  <2> QED
    BY <2>1 DEF Distinct, Opened
<1>3. ASSUME NEW c \in Client, Commit(c) PROVE (Fewer \/ \E x \in Client : InsertSession(x))
  <2>1. UNCHANGED active
    BY <1>3 DEF Commit, Goto, Answer, BatchFails, CreateAccount, InsertCredential
  <2> QED
    BY <2>1 DEF Distinct, Opened
<1>4. ASSUME NEW c \in Client, Undo(c) PROVE (Fewer \/ \E x \in Client : InsertSession(x))
  <2>1. \A a \in Account : active'[a] = active[a] \/ active'[a] = <<>>
    BY <1>4, TypeParts DEF Undo, UndoAccount, DeleteAccount, IInv, SessionTypes
  <2>2. \A a \in Account : IsInjective(active'[a])
    BY <2>1, EmptyIsInjective DEF Distinct
  <2>3. \A a \in Account : Opened(a)' \subseteq Opened(a)
    BY <2>1 DEF Opened
  <2> QED
    BY <2>2, <2>3
<1>5. ASSUME NEW c \in Client, CheckCap(c) PROVE (Fewer \/ \E x \in Client : InsertSession(x))
  <2>1. UNCHANGED active
    BY <1>5 DEF CheckCap
  <2> QED
    BY <2>1 DEF Distinct, Opened
<1>6. ASSUME NEW c \in Client, FindAccount(c) PROVE (Fewer \/ \E x \in Client : InsertSession(x))
  <2>1. UNCHANGED active
    BY <1>6 DEF FindAccount
  <2> QED
    BY <2>1 DEF Distinct, Opened
<1>7. ASSUME NEW c \in Client, StoreKey(c) PROVE (Fewer \/ \E x \in Client : InsertSession(x))
  <2>1. UNCHANGED active
    BY <1>7 DEF StoreKey, Answer
  <2> QED
    BY <2>1 DEF Distinct, Opened
<1>8. ASSUME NEW c \in Client, FindCredential(c) PROVE (Fewer \/ \E x \in Client : InsertSession(x))
  <2>1. UNCHANGED active
    BY <1>8 DEF FindCredential
  <2> QED
    BY <2>1 DEF Distinct, Opened
<1>9. ASSUME NEW c \in Client, FindOwner(c) PROVE (Fewer \/ \E x \in Client : InsertSession(x))
  <2>1. UNCHANGED active
    BY <1>9 DEF FindOwner
  <2> QED
    BY <2>1 DEF Distinct, Opened
<1>10. ASSUME NEW c \in Client, BumpCounter(c) PROVE (Fewer \/ \E x \in Client : InsertSession(x))
  <2>1. UNCHANGED active
    BY <1>10 DEF BumpCounter
  <2> QED
    BY <2>1 DEF Distinct, Opened
<1>11. ASSUME NEW c \in Client, CountSessions(c) PROVE (Fewer \/ \E x \in Client : InsertSession(x))
  <2>1. UNCHANGED active
    BY <1>11 DEF CountSessions
  <2> QED
    BY <2>1 DEF Distinct, Opened
<1>12. ASSUME NEW c \in Client, SelectOldest(c) PROVE (Fewer \/ \E x \in Client : InsertSession(x))
  <2>1. UNCHANGED active
    BY <1>12 DEF SelectOldest
  <2> QED
    BY <2>1 DEF Distinct, Opened
<1>13. ASSUME NEW c \in Client, RevokeOldest(c) PROVE (Fewer \/ \E x \in Client : InsertSession(x))
  <2>1. CASE Contains(active[acc[c]], target[c])
    <3> DEFINE s == active[acc[c]]
    <3>1. acc[c] \in Account /\ s \in Seq(Account) /\ active' = [active EXCEPT ![acc[c]] = Without(s, target[c])]
      BY <1>13, <2>1, TypeParts DEF RevokeOldest, IInv, TableTypes, SessionTypes, RequestTypes
    <3>2. /\ IsInjective(Without(s, target[c]))
          /\ \A j \in 1 .. Len(Without(s, target[c])) : \E m \in 1 .. Len(s) : Without(s, target[c])[j] = s[m]
      <4>1. IsInjective(s) /\ Contains(s, target[c])
        BY <2>1, <3>1 DEF Distinct
      <4> HIDE DEF s
      <4> QED
        BY <3>1, <4>1, WithoutFacts
    <3>3. \A a \in Account : active'[a] = IF a = acc[c] THEN Without(s, target[c]) ELSE active[a]
      BY <3>1, TypeParts DEF IInv, SessionTypes
    <3>4. \A a \in Account : IsInjective(active'[a])
      BY <3>2, <3>3 DEF Distinct
    <3>5. \A a \in Account : Opened(a)' \subseteq Opened(a)
      BY <3>2, <3>3 DEF Opened
    <3> QED
      BY <3>4, <3>5
  <2>2. CASE ~ Contains(active[acc[c]], target[c])
    <3>1. UNCHANGED active
      BY <1>13, <2>2 DEF RevokeOldest
    <3> QED
      BY <3>1 DEF Distinct, Opened
  <2> QED
    BY <2>1, <2>2
<1>14. ASSUME NEW c \in Client, InsertSession(c) PROVE (Fewer \/ \E x \in Client : InsertSession(x))
  BY <1>14
<1>15. ASSUME NEW c \in Client, NEW a \in accounts, NEW k \in Passkey, BeginDeleteKey(c, a, k) PROVE (Fewer \/ \E x \in Client : InsertSession(x))
  <2>1. UNCHANGED active
    BY <1>15 DEF BeginDeleteKey
  <2> QED
    BY <2>1 DEF Distinct, Opened
<1>16. ASSUME NEW c \in Client, NEW a \in accounts, BeginDeleteAccount(c, a) PROVE (Fewer \/ \E x \in Client : InsertSession(x))
  <2>1. UNCHANGED active
    BY <1>16 DEF BeginDeleteAccount
  <2> QED
    BY <2>1 DEF Distinct, Opened
<1>17. ASSUME NEW c \in Client, DeleteKey(c) PROVE (Fewer \/ \E x \in Client : InsertSession(x))
  <2>1. UNCHANGED active
    BY <1>17 DEF DeleteKey
  <2> QED
    BY <2>1 DEF Distinct, Opened
<1>18. ASSUME NEW c \in Client, CloseAccount(c) PROVE (Fewer \/ \E x \in Client : InsertSession(x))
  <2>1. \A a \in Account : active'[a] = active[a] \/ active'[a] = <<>>
    BY <1>18, TypeParts DEF CloseAccount, DeleteAccount, IInv, SessionTypes
  <2>2. \A a \in Account : IsInjective(active'[a])
    BY <2>1, EmptyIsInjective DEF Distinct
  <2>3. \A a \in Account : Opened(a)' \subseteq Opened(a)
    BY <2>1 DEF Opened
  <2> QED
    BY <2>2, <2>3
<1>19. ASSUME NEW c \in Client, Stop(c) PROVE (Fewer \/ \E x \in Client : InsertSession(x))
  <2>1. UNCHANGED active
    BY <1>19 DEF Stop
  <2> QED
    BY <2>1 DEF Distinct, Opened
<1>20. ASSUME NEW ch \in Ceremony, NEW k \in Passkey, NEW i \in Invite, StartInvite(ch, i, k) PROVE (Fewer \/ \E x \in Client : InsertSession(x))
  <2>1. UNCHANGED active
    BY <1>20 DEF StartInvite
  <2> QED
    BY <2>1 DEF Distinct, Opened
<1>21. ASSUME NEW ch \in Ceremony, NEW k \in Passkey, StartOpen(ch, k) PROVE (Fewer \/ \E x \in Client : InsertSession(x))
  <2>1. UNCHANGED active
    BY <1>21 DEF StartOpen
  <2> QED
    BY <2>1 DEF Distinct, Opened
<1>22. ASSUME NEW ch \in Ceremony, NEW k \in Passkey, NEW a \in accounts, StartAdd(ch, a, k) PROVE (Fewer \/ \E x \in Client : InsertSession(x))
  <2>1. UNCHANGED active
    BY <1>22 DEF StartAdd
  <2> QED
    BY <2>1 DEF Distinct, Opened
<1>23. ASSUME NEW ch \in Ceremony, NEW k \in Passkey, StartLogin(ch, k) PROVE (Fewer \/ \E x \in Client : InsertSession(x))
  <2>1. UNCHANGED active
    BY <1>23 DEF StartLogin
  <2> QED
    BY <2>1 DEF Distinct, Opened
<1>24. ASSUME NEW m \in {"invite", "open", "closed"}, Deploy(m) PROVE (Fewer \/ \E x \in Client : InsertSession(x))
  <2>1. UNCHANGED active
    BY <1>24 DEF Deploy
  <2> QED
    BY <2>1 DEF Distinct, Opened
<1>25. ASSUME NEW a \in accounts, NEW s \in Account, EndSession(a, s) PROVE (Fewer \/ \E x \in Client : InsertSession(x))
  <2> DEFINE list == active[a]
  <2>1. /\ a \in Account /\ list \in Seq(Account) /\ Contains(list, s)
        /\ active' = [active EXCEPT ![a] = Without(list, s)]
    BY <1>25, TypeParts DEF EndSession, IInv, TableTypes, SessionTypes
  <2>2. /\ IsInjective(Without(list, s))
        /\ \A j \in 1 .. Len(Without(list, s)) : \E m \in 1 .. Len(list) : Without(list, s)[j] = list[m]
    <3>1. IsInjective(list)
      BY <2>1 DEF Distinct
    <3> HIDE DEF list
    <3> QED
      BY <2>1, <3>1, WithoutFacts
  <2>3. \A b \in Account : active'[b] = IF b = a THEN Without(list, s) ELSE active[b]
    BY <2>1, TypeParts DEF IInv, SessionTypes
  <2>4. \A b \in Account : IsInjective(active'[b])
    BY <2>2, <2>3 DEF Distinct
  <2>5. \A b \in Account : Opened(b)' \subseteq Opened(b)
    BY <2>2, <2>3 DEF Opened
  <2> QED
    BY <2>4, <2>5
<1>26. ASSUME UNCHANGED vars PROVE (Fewer \/ \E x \in Client : InsertSession(x))
  BY <1>26 DEF vars, Distinct, Opened
<1> QED
  BY <1>1, <1>2, <1>3, <1>4, <1>5, <1>6, <1>7, <1>8, <1>9, <1>10, <1>11, <1>12, <1>13, <1>14, <1>15, <1>16, <1>17, <1>18, <1>19, <1>20, <1>21, <1>22, <1>23, <1>24, <1>25, <1>26 DEF Next, Request

\* The session a request opens is not in its account list.
LEMMA InsertStep ==
  ASSUME IInv, Distinct, NEW c \in Client, InsertSession(c)
  PROVE  Distinct'
<1> USE DEF tables, ceremonies, credentials, locals
<1> DEFINE s == active[acc[c]]
<1>1. /\ acc[c] \in Account /\ cer[c] \in Ceremony /\ cer[c] \in Account
      /\ pc[c] = "insert" /\ pc' = [pc EXCEPT ![c] = "idle"] /\ UNCHANGED state
      /\ \A d \in Client : d # c => cer'[d] = cer[d]
      /\ state[cer[c]] = "used"
  BY Names, TypeParts DEF InsertSession, Answer, Goto, IInv, Claimed, Past, RequestTypes
<1>2. \A d \in Client : pc'[d] \in Past => pc[d] \in Past /\ cer'[d] = cer[d] /\ cer'[d] # cer[c]
  BY <1>1, TypeParts DEF IInv, Claimed, Past, RequestTypes, Labels
<1>3. CASE acc[c] \in accounts
  <2>1. active' = [active EXCEPT ![acc[c]] = Append(s, cer[c])]
    BY <1>3 DEF InsertSession
  <2>2. s \in Seq(Account) /\ Len(s) \in Nat
    BY <1>1, TypeParts, LenProperties DEF IInv, SessionTypes
  <2>3. \A j \in 1 .. Len(s) : s[j] # cer[c]
    <3>1. \A j \in 1 .. Len(s) : s[j] \in Opened(acc[c])
      BY DEF Opened
    <3>2. pc[c] \in Past /\ cer[c] # Founder
      BY <1>1, Names DEF Past
    <3> QED
      BY <1>1, <3>1, <3>2 DEF Distinct
  <2>4. IsInjective(Append(s, cer[c]))
    BY <1>1, <2>2, <2>3, AppendKeepsInjective DEF Distinct
  <2> DEFINE t == Append(s, cer[c])
  <2>5. /\ Len(t) = Len(s) + 1
        /\ \A j \in 1 .. Len(t) : t[j] = cer[c] \/ (j \in 1 .. Len(s) /\ t[j] = s[j])
    BY <1>1, <2>2, AppendProperties
  <2> HIDE DEF t
  <2>6. \A a \in Account : active'[a] = IF a = acc[c] THEN t ELSE active[a]
    BY <1>1, <2>1, TypeParts DEF IInv, SessionTypes, t
  <2>7. \A a \in Account : IsInjective(active'[a])
    BY <2>4, <2>6 DEF Distinct, t
  <2>8. \A a \in Account : Opened(a)' \subseteq Opened(a) \union {cer[c]}
    <3> SUFFICES ASSUME NEW a \in Account, NEW j \in 1 .. Len(active'[a])
                 PROVE  active'[a][j] \in Opened(a) \union {cer[c]}
      BY DEF Opened
    <3>1. CASE a = acc[c]
      <4>1. active'[a] = t /\ active[a] = s
        BY <2>6, <3>1
      <4>2. t[j] = cer[c] \/ (j \in 1 .. Len(s) /\ t[j] = s[j])
        BY <2>5, <4>1
      <4> QED
        BY <4>1, <4>2 DEF Opened
    <3>2. CASE a # acc[c]
      BY <2>6, <3>2 DEF Opened
    <3> QED
      BY <3>1, <3>2
  <2> HIDE DEF Opened, s, Past
  <2> QED
    BY <1>1, <1>2, <2>7, <2>8 DEF Distinct
<1>4. CASE acc[c] \notin accounts
  <2>1. UNCHANGED active
    BY <1>4 DEF InsertSession
  <2>2. \A a \in Account : Opened(a)' = Opened(a)
    BY <2>1 DEF Opened
  <2> HIDE DEF Opened, s, Past
  <2> QED
    BY <1>1, <1>2, <2>1, <2>2 DEF Distinct
<1> QED
  BY <1>3, <1>4

\* A list of sessions stays without repetition, and no request may still open one
\* of its sessions.
LEMMA DistinctStep ==
  ASSUME IInv, Distinct, [Next]_vars
  PROVE  Distinct'
<1>1. CASE \E x \in Client : InsertSession(x)
  BY <1>1, InsertStep
<1>2. CASE Fewer
  <2>1. ListsKept
    BY ListsKeptStep
  <2>2. \A a \in Account : IsInjective(active'[a])
    BY <1>2 DEF Fewer
  <2>3. \A a \in Account : \A s \in Opened(a)' : s \in Opened(a)
    BY <1>2 DEF Fewer
  <2> HIDE DEF Opened, Past
  <2> QED
    BY <2>1, <2>2, <2>3 DEF Distinct, ListsKept
<1> QED
  BY <1>1, <1>2, FewerStep

\* An answer presented twice opens one session (challenges.ts:136).
THEOREM OneSessionForOneAnswer == Spec => []OneSessionPerCeremony
<1>1. Init => Distinct
  <2> SUFFICES ASSUME Init PROVE Distinct
    OBVIOUS
  <2>1. \A a \in Account : active[a] = <<>> \/ active[a] = <<Founder>>
    BY DEF Init
  <2>2. IsInjective(<<Founder>>)
    BY DEF IsInjective
  <2>3. \A a \in Account : \A s \in Opened(a) : s = Founder
    BY <2>1 DEF Opened
  <2> QED
    BY <2>1, <2>2, <2>3, EmptyIsInjective DEF Distinct
<1>2. IInv /\ Distinct /\ [Next]_vars => Distinct'
  BY DistinctStep DEF IInv
<1> QED
  BY <1>1, <1>2, Invariance, PTL DEF Spec, Distinct, OneSessionPerCeremony

-----------------------------------------------------------------------------
(* The signature counter.                                                  *)

\* A request past the claim answers a ceremony with a row, and its counter is a number.
LEMMA LoginTypes ==
  ASSUME IInv, NEW c \in Client, pc[c] \in {"login", "owner", "bump"}
  PROVE  /\ cer[c] \in Ceremony /\ state[cer[c]] = "used"
         /\ ceremony[cer[c]].key \in Passkey /\ ceremony[cer[c]].count \in Nat
  BY DEF IInv, TypeOK, Claimed, Past, Recorded

\* No login is between its verification and its write that was not there
\* before, and it answers the same ceremony.
Lingering ==
  \A c \in Client : pc'[c] \in {"owner", "bump"} =>
    /\ pc[c] \in {"owner", "bump"}
    /\ cer'[c] = cer[c]
    /\ ceremony'[cer[c]] = ceremony[cer[c]]

\* A step that lets no login through its verification and at most deletes or
\* inserts rows: what had settled is gone with the row.
LEMMA RowsOnly ==
  ASSUME IInv, SettledCountersHold, Lingering,
         \A k \in Passkey : \/ signCount'[k] = signCount[k] /\ settled'[k] = settled[k]
                            \/ signCount'[k] = 0 /\ settled'[k] = 0 /\ settled[k] >= 0
  PROVE  SettledCountersHold'
<1>1. \A k \in Passkey : signCount'[k] >= settled'[k] /\ (settled'[k] = settled[k] \/ settled'[k] = 0)
  BY DEF SettledCountersHold
<1>2. \A k \in Passkey : settled[k] \in Nat
  BY DEF IInv, TypeOK
<1>3. \A c \in Client : pc[c] \in {"owner", "bump"} => ceremony[cer[c]].count \in Nat
  BY LoginTypes
<1>4. ASSUME NEW k \in Passkey, NEW c \in Client, LoggingIn(c, k)'
      PROVE  ceremony'[cer'[c]].count > settled'[k]
  <2>1. LoggingIn(c, k) /\ ceremony'[cer'[c]] = ceremony[cer[c]]
    BY <1>4 DEF Lingering, LoggingIn
  <2>2. ceremony[cer[c]].count > settled[k]
    BY <2>1 DEF SettledCountersHold
  <2>3. ceremony[cer[c]].count \in Nat
    BY <1>3, <2>1 DEF LoggingIn
  <2> QED
    BY <1>1, <1>2, <2>1, <2>2, <2>3
<1> QED
  BY <1>1, <1>4 DEF SettledCountersHold

\* No step takes a stored counter, or the counter of a login still to be
\* written, below what has settled.
LEMMA SettledStep ==
  ASSUME IInv, SettledCountersHold, [Next]_vars
  PROVE  SettledCountersHold'
<1> USE DEF IInv, TableTypes, RequestTypes, ceremonies, credentials, tables, locals, history
<1>1. ASSUME NEW c \in Client, NEW ch \in Ceremony, Present(c, ch) PROVE SettledCountersHold'
  <2>1. Lingering
    BY <1>1, Names, TypeParts DEF Present, Goto, Claimed, Past, Recorded, Labelled, Lingering
  <2> QED
    BY <1>1, <2>1, TypeParts, RowsOnly DEF Present, Goto
<1>2. ASSUME NEW c \in Client, Claim(c) PROVE SettledCountersHold'
  <2>1. Lingering
    BY <1>2, Names, TypeParts DEF Claim, Goto, Answer, Claimable, Consumed, FirstLabel, Claimed, Past, Recorded, Labelled, Lingering
  <2> QED
    BY <1>2, <2>1, TypeParts, RowsOnly DEF Claim, Goto, Answer, Claimable, Consumed, FirstLabel
<1>3. ASSUME NEW c \in Client, Commit(c) PROVE SettledCountersHold'
  <2>1. Lingering
    BY <1>3, Names, TypeParts DEF Commit, BatchFails, Goto, Answer, Lingering
  <2>2. CASE UNCHANGED <<signCount, settled>>
    BY <2>1, <2>2, RowsOnly
  <2>3. CASE InsertCredential(ceremony[cer[c]].key, acc[c])
    BY <2>1, <2>3, TypeParts, RowsOnly DEF InsertCredential
  <2> QED
    BY <1>3, <2>2, <2>3 DEF Commit, BatchFails
<1>4. ASSUME NEW c \in Client, Undo(c) PROVE SettledCountersHold'
  <2>1. Lingering
    BY <1>4, Names, TypeParts DEF Undo, Goto, Answer, UndoAccount, DeleteAccount, Claimed, Past, Recorded, Labelled, Lingering
  <2> QED
    BY <1>4, <2>1, TypeParts, RowsOnly DEF Undo, Goto, Answer, UndoAccount, DeleteAccount
<1>5. ASSUME NEW c \in Client, CheckCap(c) PROVE SettledCountersHold'
  <2>1. Lingering
    BY <1>5, Names, TypeParts DEF CheckCap, Goto, Answer, Claimed, Past, Recorded, Labelled, Lingering
  <2> QED
    BY <1>5, <2>1, TypeParts, RowsOnly DEF CheckCap, Goto, Answer
<1>6. ASSUME NEW c \in Client, FindAccount(c) PROVE SettledCountersHold'
  <2>1. Lingering
    BY <1>6, Names, TypeParts DEF FindAccount, Goto, Answer, Claimed, Past, Recorded, Labelled, Lingering
  <2> QED
    BY <1>6, <2>1, TypeParts, RowsOnly DEF FindAccount, Goto, Answer
<1>7. ASSUME NEW c \in Client, StoreKey(c) PROVE SettledCountersHold'
  <2>1. Lingering
    BY <1>7, Names, TypeParts DEF StoreKey, Goto, Answer, InsertCredential, Claimed, Past, Recorded, Labelled, Lingering
  <2> QED
    BY <1>7, <2>1, TypeParts, RowsOnly DEF StoreKey, Goto, Answer, InsertCredential
<1>8. ASSUME NEW c \in Client, FindCredential(c) PROVE SettledCountersHold'
  <2>1. UNCHANGED <<ceremony, signCount, settled>> /\ pc[c] = "login"
    BY <1>8 DEF FindCredential
  <2>2. CASE Answer(c)
    <3>1. Lingering
      BY <2>1, <2>2, TypeParts DEF Answer, Goto, Lingering
    <3> QED
      BY <2>1, <3>1, RowsOnly
  <2>3. CASE ~ Answer(c)
    <3> DEFINE j == ceremony[cer[c]].key
    <3>1. CounterMovedOn(ceremony[cer[c]].count, signCount[j]) /\ Goto(c, "owner") /\ UNCHANGED cer
      BY <1>8, <2>3 DEF FindCredential
    <3>2. j \in Passkey /\ ceremony[cer[c]].count \in Nat
      BY <2>1, LoginTypes
    <3>3. ceremony[cer[c]].count > settled[j]
      <4>1. signCount[j] \in Nat /\ settled[j] \in Nat /\ signCount[j] >= settled[j]
        BY <3>2, TypeParts DEF SettledCountersHold
      <4> QED
        BY <3>1, <3>2, <4>1 DEF CounterMovedOn
    <3>4. \A d \in Client, k \in Passkey :
            LoggingIn(d, k)' => (d = c /\ k = j) \/ LoggingIn(d, k)
      BY <2>1, <3>1, TypeParts DEF LoggingIn, Goto
    <3> QED
      BY <2>1, <3>1, <3>3, <3>4 DEF SettledCountersHold
  <2> QED
    BY <2>2, <2>3
<1>9. ASSUME NEW c \in Client, FindOwner(c) PROVE SettledCountersHold'
  <2>1. Lingering
    BY <1>9, Names, TypeParts DEF FindOwner, Goto, Answer, Claimed, Past, Recorded, Labelled, Lingering
  <2> QED
    BY <1>9, <2>1, TypeParts, RowsOnly DEF FindOwner, Goto, Answer
<1>10. ASSUME NEW c \in Client, BumpCounter(c) PROVE SettledCountersHold'
  <2> DEFINE j == ceremony[cer[c]].key
             count == ceremony[cer[c]].count
  <2>1. /\ pc[c] = "bump" /\ UNCHANGED <<cer, ceremony>> /\ Goto(c, "count")
        /\ j \in Passkey /\ count \in Nat
    BY <1>10, LoginTypes DEF BumpCounter
  <2>2. \A d \in Client, k \in Passkey : LoggingIn(d, k)' => d # c /\ LoggingIn(d, k)
    BY <2>1, TypeParts DEF LoggingIn, Goto
  <2>3. CASE owner[j] = -1
    <3>1. UNCHANGED <<signCount, settled>>
      BY <1>10, <2>3 DEF BumpCounter
    <3> QED
      BY <2>1, <2>2, <3>1 DEF SettledCountersHold
  <2>4. CASE owner[j] # -1
    <3>1. signCount' = [signCount EXCEPT ![j] = count]
      BY <1>10, <2>4 DEF BumpCounter
    <3>2. count > settled[j]
      BY <2>1 DEF SettledCountersHold, LoggingIn
    <3>3. CASE settled' = settled
      BY <2>1, <2>2, <3>1, <3>2, <3>3, TypeParts DEF SettledCountersHold
    <3>4. CASE /\ settled' = [settled EXCEPT ![j] = count]
               /\ \A o \in Client \ {c} : ~LoggingIn(o, j)
      BY <2>1, <2>2, <3>1, <3>4, TypeParts DEF SettledCountersHold
    <3> QED
      BY <1>10, <2>4, <3>3, <3>4 DEF BumpCounter
  <2> QED
    BY <2>3, <2>4
<1>11. ASSUME NEW c \in Client, CountSessions(c) PROVE SettledCountersHold'
  <2>1. Lingering
    BY <1>11, Names, TypeParts DEF CountSessions, Goto, Claimed, Past, Recorded, Labelled, Lingering
  <2> QED
    BY <1>11, <2>1, TypeParts, RowsOnly DEF CountSessions, Goto
<1>12. ASSUME NEW c \in Client, SelectOldest(c) PROVE SettledCountersHold'
  <2>1. Lingering
    BY <1>12, Names, TypeParts DEF SelectOldest, Goto, Answer, Claimed, Past, Recorded, Labelled, Lingering
  <2> QED
    BY <1>12, <2>1, TypeParts, RowsOnly DEF SelectOldest, Goto, Answer
<1>13. ASSUME NEW c \in Client, RevokeOldest(c) PROVE SettledCountersHold'
  <2>1. Lingering
    BY <1>13, Names, TypeParts DEF RevokeOldest, Goto, Answer, Claimed, Past, Recorded, Labelled, Lingering
  <2> QED
    BY <1>13, <2>1, TypeParts, RowsOnly DEF RevokeOldest, Goto, Answer
<1>14. ASSUME NEW c \in Client, InsertSession(c) PROVE SettledCountersHold'
  <2>1. Lingering
    BY <1>14, Names, TypeParts DEF InsertSession, Goto, Answer, Claimed, Past, Recorded, Labelled, Lingering
  <2> QED
    BY <1>14, <2>1, TypeParts, RowsOnly DEF InsertSession, Goto, Answer
<1>15. ASSUME NEW c \in Client, NEW a \in accounts, NEW k \in Passkey, BeginDeleteKey(c, a, k) PROVE SettledCountersHold'
  <2>1. Lingering
    BY <1>15, Names, TypeParts DEF BeginDeleteKey, Goto, Claimed, Past, Recorded, Labelled, Lingering
  <2> QED
    BY <1>15, <2>1, TypeParts, RowsOnly DEF BeginDeleteKey, Goto
<1>16. ASSUME NEW c \in Client, NEW a \in accounts, BeginDeleteAccount(c, a) PROVE SettledCountersHold'
  <2>1. Lingering
    BY <1>16, Names, TypeParts DEF BeginDeleteAccount, Goto, Claimed, Past, Recorded, Labelled, Lingering
  <2> QED
    BY <1>16, <2>1, TypeParts, RowsOnly DEF BeginDeleteAccount, Goto
<1>17. ASSUME NEW c \in Client, DeleteKey(c) PROVE SettledCountersHold'
  <2>1. Lingering
    BY <1>17, Names, TypeParts DEF DeleteKey, Goto, Answer, Claimed, Past, Recorded, Labelled, Lingering
  <2> QED
    BY <1>17, <2>1, TypeParts, RowsOnly DEF DeleteKey, Goto, Answer
<1>18. ASSUME NEW c \in Client, CloseAccount(c) PROVE SettledCountersHold'
  <2>1. Lingering
    BY <1>18, Names, TypeParts DEF CloseAccount, Goto, Answer, DeleteAccount, Claimed, Past, Recorded, Labelled, Lingering
  <2> QED
    BY <1>18, <2>1, TypeParts, RowsOnly DEF CloseAccount, Goto, Answer, DeleteAccount
<1>19. ASSUME NEW c \in Client, Stop(c) PROVE SettledCountersHold'
  <2>1. Lingering
    BY <1>19, Names, TypeParts DEF Stop, Goto, Answer, Claimed, Past, Recorded, Labelled, Lingering
  <2> QED
    BY <1>19, <2>1, TypeParts, RowsOnly DEF Stop, Goto, Answer
<1>20. ASSUME NEW ch \in Ceremony, NEW k \in Passkey, NEW i \in Invite, StartInvite(ch, i, k) PROVE SettledCountersHold'
  <2>1. Lingering
    BY <1>20, Names, TypeParts DEF StartInvite, Issue, NoCeremony, Claimed, Past, Recorded, Labelled, Lingering
  <2> QED
    BY <1>20, <2>1, TypeParts, RowsOnly DEF StartInvite, Issue, NoCeremony
<1>21. ASSUME NEW ch \in Ceremony, NEW k \in Passkey, StartOpen(ch, k) PROVE SettledCountersHold'
  <2>1. Lingering
    BY <1>21, Names, TypeParts DEF StartOpen, Issue, NoCeremony, Claimed, Past, Recorded, Labelled, Lingering
  <2> QED
    BY <1>21, <2>1, TypeParts, RowsOnly DEF StartOpen, Issue, NoCeremony
<1>22. ASSUME NEW ch \in Ceremony, NEW k \in Passkey, NEW a \in accounts, StartAdd(ch, a, k) PROVE SettledCountersHold'
  <2>1. Lingering
    BY <1>22, Names, TypeParts DEF StartAdd, Issue, NoCeremony, Claimed, Past, Recorded, Labelled, Lingering
  <2> QED
    BY <1>22, <2>1, TypeParts, RowsOnly DEF StartAdd, Issue, NoCeremony
<1>23. ASSUME NEW ch \in Ceremony, NEW k \in Passkey, StartLogin(ch, k) PROVE SettledCountersHold'
  <2>1. Lingering
    BY <1>23, Names, TypeParts DEF StartLogin, Issue, NoCeremony, Claimed, Past, Recorded, Labelled, Lingering
  <2> QED
    BY <1>23, <2>1, TypeParts, RowsOnly DEF StartLogin, Issue, NoCeremony
<1>24. ASSUME NEW m \in {"invite", "open", "closed"}, Deploy(m) PROVE SettledCountersHold'
  <2>1. Lingering
    BY <1>24, Names, TypeParts DEF Deploy, Claimed, Past, Recorded, Labelled, Lingering
  <2> QED
    BY <1>24, <2>1, TypeParts, RowsOnly DEF Deploy
<1>25. ASSUME NEW a \in accounts, NEW s \in Account, EndSession(a, s) PROVE SettledCountersHold'
  <2>1. Lingering
    BY <1>25, Names, TypeParts DEF EndSession, Claimed, Past, Recorded, Labelled, Lingering
  <2> QED
    BY <1>25, <2>1, TypeParts, RowsOnly DEF EndSession
<1>26. ASSUME UNCHANGED vars PROVE SettledCountersHold'
  BY <1>26 DEF vars, SettledCountersHold, LoggingIn
<1> QED
  BY <1>1, <1>2, <1>3, <1>4, <1>5, <1>6, <1>7, <1>8, <1>9, <1>10, <1>11, <1>12, <1>13, <1>14, <1>15, <1>16, <1>17, <1>18, <1>19, <1>20, <1>21, <1>22, <1>23, <1>24, <1>25, <1>26 DEF Next, Request

\* The counter that a login wrote while no other login with the passkey was
\* between check and write is never fallen below, by the stored counter or by an
\* answer that passes the check (webauthn.ts:571-581).
THEOREM CountersSettle == Spec => []SettledCountersHold
<1>1. Init => SettledCountersHold
  BY DEF Init, SettledCountersHold, LoggingIn
<1>2. IInv /\ SettledCountersHold /\ [Next]_vars => SettledCountersHold'
  BY SettledStep
<1> QED
  BY <1>1, <1>2, Invariance, PTL DEF Spec

-----------------------------------------------------------------------------
(* The quotas.                                                             *)

\* Everything counted is finite.
LEMMA Finite ==
  /\ \A S \in SUBSET Client : IsFiniteSet(S) /\ Cardinality(S) \in 0 .. Cardinality(Client)
  /\ \A S \in SUBSET Passkey : IsFiniteSet(S) /\ Cardinality(S) \in Nat
  /\ \A S \in SUBSET Account : IsFiniteSet(S) /\ Cardinality(S) \in Nat
  /\ \A S \in SUBSET Ceremony : IsFiniteSet(S) /\ Cardinality(S) \in Nat
  /\ Cardinality(Client) \in Nat \ {0}
<1>1. IsFiniteSet(Account)
  BY CeremonyAssumption, FS_AddElement DEF Account
<1>2. Cardinality(Client) # 0
  BY ClientAssumption, FS_EmptySet
<1>3. \A S \in SUBSET Client : /\ IsFiniteSet(S) /\ Cardinality(S) \in Nat
                              /\ Cardinality(S) <= Cardinality(Client)
  BY ClientAssumption, FS_Subset, FS_CardinalityType
<1>4. \A S \in SUBSET Passkey : IsFiniteSet(S) /\ Cardinality(S) \in Nat
  BY PasskeyAssumption, FS_Subset, FS_CardinalityType
<1>5. \A S \in SUBSET Account : IsFiniteSet(S) /\ Cardinality(S) \in Nat
  BY <1>1, FS_Subset, FS_CardinalityType
<1>6. \A S \in SUBSET Ceremony : IsFiniteSet(S) /\ Cardinality(S) \in Nat
  BY CeremonyAssumption, FS_Subset, FS_CardinalityType
<1>7. Cardinality(Client) \in Nat
  BY ClientAssumption, FS_CardinalityType
<1> QED
  BY <1>2, <1>3, <1>4, <1>5, <1>6, <1>7

\* A subset is no larger.
LEMMA Smaller ==
  ASSUME NEW S, NEW T \in SUBSET S, IsFiniteSet(S)
  PROVE  Cardinality(T) <= Cardinality(S) /\ Cardinality(S) \in Nat /\ Cardinality(T) \in Nat
  BY FS_Subset, FS_CardinalityType

\* One element more.
LEMMA OneMore ==
  ASSUME NEW S, NEW x, NEW T \in SUBSET (S \union {x}), IsFiniteSet(S)
  PROVE  Cardinality(T) <= Cardinality(S) + 1 /\ Cardinality(S) \in Nat /\ Cardinality(T) \in Nat
<1>1. /\ IsFiniteSet(S \union {x}) /\ Cardinality(S) \in Nat
      /\ Cardinality(S \union {x}) = Cardinality(S) \/ Cardinality(S \union {x}) = Cardinality(S) + 1
  BY FS_AddElement, FS_CardinalityType
<1>2. Cardinality(T) <= Cardinality(S \union {x}) /\ Cardinality(T) \in Nat
  BY <1>1, FS_Subset, FS_CardinalityType
<1> QED
  BY <1>1, <1>2

\* One element fewer.
LEMMA OneLess ==
  ASSUME NEW S, NEW x \in S, NEW T \in SUBSET (S \ {x}), IsFiniteSet(S)
  PROVE  Cardinality(T) <= Cardinality(S) - 1 /\ Cardinality(S) \in Nat /\ Cardinality(T) \in Nat
  BY FS_RemoveElement, FS_Subset, FS_CardinalityType

\* The sessions of an account and the requests that have counted and not inserted.
Roomy(a) ==
  Len(active[a]) + Cardinality(Counted(a)) <= MaxSessions - 1 + Cardinality(Client)

\* What a step does to the two.
Shrinks(a) ==
  /\ Len(active'[a]) \in 0 .. Len(active[a])
  /\ Counted(a)' \subseteq Counted(a)

\* Three kinds of step add to the sum of an account: they stay within the bound.
LEMMA SessionsShrinkOrFit ==
  ASSUME IInv, NEW a \in Account, Roomy(a), [Next]_vars
  PROVE  (Shrinks(a) \/ Roomy(a)')
<1> USE DEF Shrinks, Counted, IInv, SessionTypes, TableTypes, RequestTypes, ceremonies, credentials, tables, locals, history
<1>1. ASSUME NEW c \in Client, NEW ch \in Ceremony, Present(c, ch) PROVE (Shrinks(a) \/ Roomy(a)')
  <2>1. active'[a] = active[a] /\ Len(active[a]) \in Nat
    BY <1>1, LenProperties, TypeParts DEF Present, Goto
  <2>2. Counted(a)' \subseteq Counted(a)
    BY <1>1, TypeParts DEF Present, Goto
  <2> QED
    BY <2>1, <2>2
<1>2. ASSUME NEW c \in Client, Claim(c) PROVE (Shrinks(a) \/ Roomy(a)')
  <2>1. active'[a] = active[a] /\ Len(active[a]) \in Nat
    BY <1>2, LenProperties, TypeParts DEF Claim, Goto, Answer, Claimable, Consumed, FirstLabel
  <2>2. Counted(a)' \subseteq Counted(a)
    BY <1>2, TypeParts DEF Claim, Goto, Answer, Claimable, Consumed, FirstLabel
  <2> QED
    BY <2>1, <2>2
<1>3. ASSUME NEW c \in Client, Commit(c) PROVE (Shrinks(a) \/ Roomy(a)')
  <2>1. active'[a] = active[a] /\ Len(active[a]) \in Nat
    BY <1>3, LenProperties, TypeParts DEF Commit, Goto, Answer, BatchFails, CreateAccount, InsertCredential
  <2>2. Counted(a)' \subseteq Counted(a)
    BY <1>3, TypeParts DEF Commit, Goto, Answer, BatchFails, CreateAccount, InsertCredential
  <2> QED
    BY <2>1, <2>2
<1>4. ASSUME NEW c \in Client, Undo(c) PROVE (Shrinks(a) \/ Roomy(a)')
  <2>1. active'[a] = active[a] \/ active'[a] = <<>>
    BY <1>4, TypeParts DEF Undo, UndoAccount, DeleteAccount
  <2>2. Counted(a)' \subseteq Counted(a)
    BY <1>4, TypeParts DEF Undo, Answer, Goto
  <2> QED
    BY <2>1, <2>2, LenProperties, TypeParts
<1>5. ASSUME NEW c \in Client, CheckCap(c) PROVE (Shrinks(a) \/ Roomy(a)')
  <2>1. active'[a] = active[a] /\ Len(active[a]) \in Nat
    BY <1>5, LenProperties, TypeParts DEF CheckCap, Goto, Answer
  <2>2. Counted(a)' \subseteq Counted(a)
    BY <1>5, TypeParts DEF CheckCap, Goto, Answer
  <2> QED
    BY <2>1, <2>2
<1>6. ASSUME NEW c \in Client, FindAccount(c) PROVE (Shrinks(a) \/ Roomy(a)')
  <2>1. active'[a] = active[a] /\ Len(active[a]) \in Nat
    BY <1>6, LenProperties, TypeParts DEF FindAccount, Goto, Answer
  <2>2. Counted(a)' \subseteq Counted(a)
    BY <1>6, TypeParts DEF FindAccount, Goto, Answer
  <2> QED
    BY <2>1, <2>2
<1>7. ASSUME NEW c \in Client, StoreKey(c) PROVE (Shrinks(a) \/ Roomy(a)')
  <2>1. active'[a] = active[a] /\ Len(active[a]) \in Nat
    BY <1>7, LenProperties, TypeParts DEF StoreKey, Goto, Answer, InsertCredential
  <2>2. Counted(a)' \subseteq Counted(a)
    BY <1>7, TypeParts DEF StoreKey, Goto, Answer, InsertCredential
  <2> QED
    BY <2>1, <2>2
<1>8. ASSUME NEW c \in Client, FindCredential(c) PROVE (Shrinks(a) \/ Roomy(a)')
  <2>1. active'[a] = active[a] /\ Len(active[a]) \in Nat
    BY <1>8, LenProperties, TypeParts DEF FindCredential, Goto, Answer, CounterMovedOn
  <2>2. Counted(a)' \subseteq Counted(a)
    BY <1>8, TypeParts DEF FindCredential, Goto, Answer, CounterMovedOn
  <2> QED
    BY <2>1, <2>2
<1>9. ASSUME NEW c \in Client, FindOwner(c) PROVE (Shrinks(a) \/ Roomy(a)')
  <2>1. active'[a] = active[a] /\ Len(active[a]) \in Nat
    BY <1>9, LenProperties, TypeParts DEF FindOwner, Goto, Answer
  <2>2. Counted(a)' \subseteq Counted(a)
    BY <1>9, TypeParts DEF FindOwner, Goto, Answer
  <2> QED
    BY <2>1, <2>2
<1>10. ASSUME NEW c \in Client, BumpCounter(c) PROVE (Shrinks(a) \/ Roomy(a)')
  <2>1. active'[a] = active[a] /\ Len(active[a]) \in Nat
    BY <1>10, LenProperties, TypeParts DEF BumpCounter, Goto
  <2>2. Counted(a)' \subseteq Counted(a)
    BY <1>10, TypeParts DEF BumpCounter, Goto
  <2> QED
    BY <2>1, <2>2
<1>11. ASSUME NEW c \in Client, CountSessions(c) PROVE (Shrinks(a) \/ Roomy(a)')
  <2>1. CASE UnderSessionQuota(acc[c])
    <3>1. \A b \in Account : active'[b] = active[b]
      BY <1>11 DEF CountSessions
    <3>2. CASE acc[c] = a
      <4>1. Len(active[a]) <= MaxSessions - 1 /\ Len(active[a]) \in Nat
        BY <2>1, <3>2, LimitAssumption, LenProperties, TypeParts DEF UnderSessionQuota
      <4>2. Counted(a)' \subseteq Client
        OBVIOUS
      <4>3. Cardinality(Counted(a)') <= Cardinality(Client) /\ Cardinality(Counted(a)') \in Nat
        BY <4>2, Finite
      <4> HIDE DEF Counted
      <4> QED
        BY <3>1, <4>1, <4>3, Finite, LimitAssumption DEF Roomy
    <3>3. CASE acc[c] # a
      <4>1. Shrinks(a)
        BY <1>11, <3>1, <3>3, LenProperties, TypeParts DEF CountSessions, Goto
      <4> QED
        BY <4>1
    <3> QED
      BY <3>2, <3>3
  <2>2. CASE ~ UnderSessionQuota(acc[c])
    BY <1>11, <2>2, LenProperties, TypeParts DEF CountSessions, Goto
  <2> QED
    BY <2>1, <2>2
<1>12. ASSUME NEW c \in Client, SelectOldest(c) PROVE (Shrinks(a) \/ Roomy(a)')
  <2>1. active'[a] = active[a] /\ Len(active[a]) \in Nat
    BY <1>12, LenProperties, TypeParts DEF SelectOldest, Goto, Answer
  <2>2. Counted(a)' \subseteq Counted(a)
    BY <1>12, TypeParts DEF SelectOldest, Goto, Answer
  <2> QED
    BY <2>1, <2>2
<1>13. ASSUME NEW c \in Client, RevokeOldest(c) PROVE (Shrinks(a) \/ Roomy(a)')
  <2>1. CASE Contains(active[acc[c]], target[c])
    <3> DEFINE s == active[acc[c]]
    <3>1. /\ acc[c] \in Account /\ s \in Seq(Account) /\ active' = [active EXCEPT ![acc[c]] = Without(s, target[c])]
          /\ Goto(c, "insert") /\ UNCHANGED acc
      BY <1>13, <2>1, TypeParts DEF RevokeOldest
    <3>2. Len(Without(s, target[c])) = Len(s) - 1 /\ Len(s) \in Nat /\ Len(Without(s, target[c])) \in Nat
      BY <2>1, <3>1, WithoutFacts, LenProperties
    <3>3. CASE acc[c] = a
      <4>1. Counted(a)' \subseteq Counted(a) \union {c}
        BY <3>1, TypeParts DEF Goto
      <4>2. active'[a] = Without(s, target[c]) /\ active[a] = s
        BY <3>1, <3>3, TypeParts
      <4>3. IsFiniteSet(Counted(a))
        BY Finite
      <4> HIDE DEF Counted, s
      <4>4. Cardinality(Counted(a)') <= Cardinality(Counted(a)) + 1 /\ Cardinality(Counted(a)) \in Nat /\ Cardinality(Counted(a)') \in Nat
        BY <4>1, <4>3, OneMore
      <4> QED
        BY <3>2, <4>2, <4>4, Finite, LimitAssumption DEF Roomy
    <3>4. CASE acc[c] # a
      <4>1. active'[a] = active[a] /\ Len(active[a]) \in Nat
        BY <3>1, <3>4, LenProperties, TypeParts
      <4>2. Counted(a)' \subseteq Counted(a)
        BY <3>1, <3>4, TypeParts DEF Goto
      <4> QED
        BY <4>1, <4>2
    <3> QED
      BY <3>3, <3>4
  <2>2. CASE ~ Contains(active[acc[c]], target[c])
    BY <1>13, <2>2, LenProperties, TypeParts DEF RevokeOldest, Answer, Goto
  <2> QED
    BY <2>1, <2>2
<1>14. ASSUME NEW c \in Client, InsertSession(c) PROVE (Shrinks(a) \/ Roomy(a)')
  <2>1. c \in Counted(acc[c]) /\ acc[c] \in Account /\ cer[c] \in Account
    BY <1>14, TypeParts DEF InsertSession
  <2>2. Counted(a)' \subseteq Counted(a) /\ (acc[c] = a => Counted(a)' \subseteq Counted(a) \ {c})
    BY <1>14, TypeParts DEF InsertSession, Answer, Goto
  <2>3. CASE acc[c] = a /\ acc[c] \in accounts
    <3> DEFINE s == active[a]
    <3>1. active'[a] = Append(s, cer[c]) /\ s \in Seq(Account)
      BY <1>14, <2>1, <2>3, TypeParts DEF InsertSession
    <3>2. Len(active'[a]) = Len(active[a]) + 1 /\ Len(active[a]) \in Nat
      BY <2>1, <3>1, AppendProperties, LenProperties
    <3>3. IsFiniteSet(Counted(a)) /\ c \in Counted(a)
      BY <2>1, <2>3, Finite
    <3> HIDE DEF Counted
    <3>4. Cardinality(Counted(a)') <= Cardinality(Counted(a)) - 1 /\ Cardinality(Counted(a)) \in Nat /\ Cardinality(Counted(a)') \in Nat
      BY <2>2, <2>3, <3>3, OneLess
    <3> QED
      BY <3>2, <3>4, Finite, LimitAssumption DEF Roomy
  <2>4. CASE ~ (acc[c] = a /\ acc[c] \in accounts)
    <3>1. active'[a] = active[a] /\ Len(active[a]) \in Nat
      BY <1>14, <2>1, <2>4, LenProperties, TypeParts DEF InsertSession
    <3> QED
      BY <2>2, <3>1
  <2> QED
    BY <2>3, <2>4
<1>15. ASSUME NEW c \in Client, NEW b \in accounts, NEW k \in Passkey, BeginDeleteKey(c, b, k) PROVE (Shrinks(a) \/ Roomy(a)')
  <2>1. active'[a] = active[a] /\ Len(active[a]) \in Nat
    BY <1>15, LenProperties, TypeParts DEF BeginDeleteKey, Goto
  <2>2. Counted(a)' \subseteq Counted(a)
    BY <1>15, TypeParts DEF BeginDeleteKey, Goto
  <2> QED
    BY <2>1, <2>2
<1>16. ASSUME NEW c \in Client, NEW b \in accounts, BeginDeleteAccount(c, b) PROVE (Shrinks(a) \/ Roomy(a)')
  <2>1. active'[a] = active[a] /\ Len(active[a]) \in Nat
    BY <1>16, LenProperties, TypeParts DEF BeginDeleteAccount, Goto
  <2>2. Counted(a)' \subseteq Counted(a)
    BY <1>16, TypeParts DEF BeginDeleteAccount, Goto
  <2> QED
    BY <2>1, <2>2
<1>17. ASSUME NEW c \in Client, DeleteKey(c) PROVE (Shrinks(a) \/ Roomy(a)')
  <2>1. active'[a] = active[a] /\ Len(active[a]) \in Nat
    BY <1>17, LenProperties, TypeParts DEF DeleteKey, Goto, Answer
  <2>2. Counted(a)' \subseteq Counted(a)
    BY <1>17, TypeParts DEF DeleteKey, Goto, Answer
  <2> QED
    BY <2>1, <2>2
<1>18. ASSUME NEW c \in Client, CloseAccount(c) PROVE (Shrinks(a) \/ Roomy(a)')
  <2>1. active'[a] = active[a] \/ active'[a] = <<>>
    BY <1>18, TypeParts DEF CloseAccount, DeleteAccount
  <2>2. Counted(a)' \subseteq Counted(a)
    BY <1>18, TypeParts DEF CloseAccount, Answer, Goto
  <2> QED
    BY <2>1, <2>2, LenProperties, TypeParts
<1>19. ASSUME NEW c \in Client, Stop(c) PROVE (Shrinks(a) \/ Roomy(a)')
  <2>1. active'[a] = active[a] /\ Len(active[a]) \in Nat
    BY <1>19, LenProperties, TypeParts DEF Stop, Goto, Answer
  <2>2. Counted(a)' \subseteq Counted(a)
    BY <1>19, TypeParts DEF Stop, Goto, Answer
  <2> QED
    BY <2>1, <2>2
<1>20. ASSUME NEW ch \in Ceremony, NEW k \in Passkey, NEW i \in Invite, StartInvite(ch, i, k) PROVE (Shrinks(a) \/ Roomy(a)')
  <2>1. active'[a] = active[a] /\ Len(active[a]) \in Nat
    BY <1>20, LenProperties, TypeParts DEF StartInvite, Issue, NoCeremony
  <2>2. Counted(a)' \subseteq Counted(a)
    BY <1>20, TypeParts DEF StartInvite, Issue, NoCeremony
  <2> QED
    BY <2>1, <2>2
<1>21. ASSUME NEW ch \in Ceremony, NEW k \in Passkey, StartOpen(ch, k) PROVE (Shrinks(a) \/ Roomy(a)')
  <2>1. active'[a] = active[a] /\ Len(active[a]) \in Nat
    BY <1>21, LenProperties, TypeParts DEF StartOpen, Issue, NoCeremony
  <2>2. Counted(a)' \subseteq Counted(a)
    BY <1>21, TypeParts DEF StartOpen, Issue, NoCeremony
  <2> QED
    BY <2>1, <2>2
<1>22. ASSUME NEW ch \in Ceremony, NEW k \in Passkey, NEW b \in accounts, StartAdd(ch, b, k) PROVE (Shrinks(a) \/ Roomy(a)')
  <2>1. active'[a] = active[a] /\ Len(active[a]) \in Nat
    BY <1>22, LenProperties, TypeParts DEF StartAdd, Issue, NoCeremony
  <2>2. Counted(a)' \subseteq Counted(a)
    BY <1>22, TypeParts DEF StartAdd, Issue, NoCeremony
  <2> QED
    BY <2>1, <2>2
<1>23. ASSUME NEW ch \in Ceremony, NEW k \in Passkey, StartLogin(ch, k) PROVE (Shrinks(a) \/ Roomy(a)')
  <2>1. active'[a] = active[a] /\ Len(active[a]) \in Nat
    BY <1>23, LenProperties, TypeParts DEF StartLogin, Issue, NoCeremony
  <2>2. Counted(a)' \subseteq Counted(a)
    BY <1>23, TypeParts DEF StartLogin, Issue, NoCeremony
  <2> QED
    BY <2>1, <2>2
<1>24. ASSUME NEW m \in {"invite", "open", "closed"}, Deploy(m) PROVE (Shrinks(a) \/ Roomy(a)')
  <2>1. active'[a] = active[a] /\ Len(active[a]) \in Nat
    BY <1>24, LenProperties, TypeParts DEF Deploy
  <2>2. Counted(a)' \subseteq Counted(a)
    BY <1>24, TypeParts DEF Deploy
  <2> QED
    BY <2>1, <2>2
<1>25. ASSUME NEW b \in accounts, NEW s \in Account, EndSession(b, s) PROVE (Shrinks(a) \/ Roomy(a)')
  <2>1. /\ b \in Account /\ active[b] \in Seq(Account) /\ Contains(active[b], s)
        /\ active' = [active EXCEPT ![b] = Without(active[b], s)]
    BY <1>25, TypeParts DEF EndSession
  <2>2. /\ Len(Without(active[b], s)) = Len(active[b]) - 1 /\ Len(active[b]) \in Nat
        /\ Len(Without(active[b], s)) \in Nat /\ Len(active[a]) \in Nat
    BY <2>1, WithoutFacts, LenProperties, TypeParts
  <2>3. active'[a] = IF a = b THEN Without(active[b], s) ELSE active[a]
    BY <2>1, TypeParts
  <2>4. Counted(a)' \subseteq Counted(a)
    BY <1>25 DEF EndSession
  <2> QED
    BY <2>2, <2>3, <2>4
<1>26. ASSUME UNCHANGED vars PROVE (Shrinks(a) \/ Roomy(a)')
  BY <1>26, LenProperties, TypeParts DEF vars, Shrinks
<1> QED
  BY <1>1, <1>2, <1>3, <1>4, <1>5, <1>6, <1>7, <1>8, <1>9, <1>10, <1>11, <1>12, <1>13, <1>14, <1>15, <1>16, <1>17, <1>18, <1>19, <1>20, <1>21, <1>22, <1>23, <1>24, <1>25, <1>26 DEF Next, Request

\* Every step keeps the sum of an account within the bound.
LEMMA RoomyStep ==
  ASSUME IInv, NEW a \in Account, Roomy(a), [Next]_vars
  PROVE  Roomy(a)'
<1>1. CASE Shrinks(a)
  <2>1. IsFiniteSet(Counted(a)) /\ Len(active[a]) \in Nat
    BY Finite, LenProperties, TypeParts DEF Counted, IInv, SessionTypes
  <2>2. /\ Cardinality(Counted(a)') <= Cardinality(Counted(a))
        /\ Cardinality(Counted(a)') \in Nat /\ Cardinality(Counted(a)) \in Nat
    BY <1>1, <2>1, Smaller DEF Shrinks
  <2> QED
    BY <1>1, <2>1, <2>2, Finite, LimitAssumption DEF Shrinks, Roomy
<1> QED
  BY <1>1, SessionsShrinkOrFit

\* Requests between the repeated count and the insert.
Opening == {c \in Client : pc[c] = "commit" /\ ceremony[cer[c]].kind = "open"}

CapKept ==
  /\ raced \/ Cardinality(Uninvited) + Cardinality(Opening) <= MaxAccounts
  /\ Cardinality(Uninvited) + Cardinality(Opening) <= MaxAccounts - 1 + Cardinality(Client)

LEMMA CapInit == Init => CapKept
<1> SUFFICES ASSUME Init PROVE CapKept
  OBVIOUS
<1>1. Uninvited = {Founder} /\ Opening = {}
  BY DEF Init, Uninvited, Opening
<1>2. Cardinality(Uninvited) = 1 /\ Cardinality(Opening) = 0
  BY <1>1, FS_EmptySet, FS_Singleton
<1>3. Cardinality(Client) \in Nat \ {0} /\ MaxAccounts \in Nat \ {0}
  BY Finite, LimitAssumption
<1> QED
  BY <1>2, <1>3 DEF CapKept

\* Two kinds of step matter to the cap: the repeated count and the insert.
LEMMA CapShrinksOrFits ==
  ASSUME IInv, CapKept, [Next]_vars
  PROVE  ((raced' = raced /\ Uninvited' \subseteq Uninvited /\ Opening' \subseteq Opening) \/ CapKept')
<1> USE DEF Uninvited, Opening, IInv, Claimed, Purposeful, Recorded, Past, TableTypes, RequestTypes, ceremonies, credentials, tables, locals, history
<1>1. ASSUME NEW c \in Client, NEW ch \in Ceremony, Present(c, ch) PROVE ((raced' = raced /\ Uninvited' \subseteq Uninvited /\ Opening' \subseteq Opening) \/ CapKept')
  BY <1>1, Names, TypeParts DEF Present, Goto
<1>2. ASSUME NEW c \in Client, Claim(c) PROVE ((raced' = raced /\ Uninvited' \subseteq Uninvited /\ Opening' \subseteq Opening) \/ CapKept')
  <2>1. UNCHANGED <<accounts, ceremony, raced>>
    BY <1>2 DEF Claim
  <2>2. Opening' \subseteq Opening
    BY <1>2, <2>1, Names, TypeParts DEF Claim, Goto, Answer, FirstLabel
  <2> QED
    BY <2>1, <2>2
<1>3. ASSUME NEW c \in Client, Commit(c) PROVE ((raced' = raced /\ Uninvited' \subseteq Uninvited /\ Opening' \subseteq Opening) \/ CapKept')
  <2>1. UNCHANGED <<ceremony, raced>> /\ pc[c] = "commit" /\ acc[c] = cer[c] /\ cer[c] \in Ceremony
        /\ pc'[c] # "commit" /\ \A d \in Client : d # c => pc'[d] = pc[d] /\ cer'[d] = cer[d]
    BY <1>3, TypeParts DEF Commit, BatchFails, CreateAccount, Goto, Answer
  <2>2. Opening' \subseteq Opening \ {c}
    BY <2>1
  <2>3. CASE accounts' = accounts \/ ceremony[cer[c]].kind # "open"
    <3>1. accounts' \subseteq accounts \union {cer[c]}
      BY <1>3, <2>1 DEF Commit, BatchFails, CreateAccount
    <3>2. accounts' = accounts \/ ceremony[cer[c]].kind = "invite"
      BY <1>3, <2>3 DEF Commit
    <3>3. Uninvited' \subseteq Uninvited
      BY <2>1, <3>1, <3>2, Names
    <3> QED
      BY <2>1, <2>2, <3>3
  <2>4. CASE accounts' # accounts /\ ceremony[cer[c]].kind = "open"
    <3>1. accounts' = accounts \union {cer[c]}
      BY <1>3, <2>1, <2>4 DEF Commit, BatchFails, CreateAccount
    <3>2. Uninvited' \subseteq Uninvited \union {cer[c]} /\ c \in Opening
      BY <2>1, <2>4, <3>1, Names
    <3>3. IsFiniteSet(Opening) /\ IsFiniteSet(Uninvited)
      BY Finite, TypeParts
    <3> HIDE DEF Opening, Uninvited
    <3>4. /\ Cardinality(Uninvited') <= Cardinality(Uninvited) + 1 /\ Cardinality(Uninvited) \in Nat
          /\ Cardinality(Uninvited') \in Nat
      BY <3>2, <3>3, OneMore
    <3>5. /\ Cardinality(Opening') <= Cardinality(Opening) - 1 /\ Cardinality(Opening) \in Nat
          /\ Cardinality(Opening') \in Nat
      BY <2>2, <3>2, <3>3, OneLess
    <3> QED
      BY <2>1, <3>4, <3>5, Finite, LimitAssumption DEF CapKept
  <2> QED
    BY <2>3, <2>4
<1>4. ASSUME NEW c \in Client, Undo(c) PROVE ((raced' = raced /\ Uninvited' \subseteq Uninvited /\ Opening' \subseteq Opening) \/ CapKept')
  BY <1>4, Names, TypeParts DEF Undo, Goto, Answer, UndoAccount, DeleteAccount
<1>5. ASSUME NEW c \in Client, CheckCap(c) PROVE ((raced' = raced /\ Uninvited' \subseteq Uninvited /\ Opening' \subseteq Opening) \/ CapKept')
  <2>1. CASE Answer(c)
    <3>1. pc[c] = "cap" /\ pc' = [pc EXCEPT ![c] = "idle"] /\ UNCHANGED <<accounts, ceremony>>
      BY <1>5, <2>1 DEF CheckCap, Answer, Goto
    <3>2. ~ UnderCap
      BY <1>5, <3>1, TypeParts DEF CheckCap, Goto
    <3>3. raced' = raced
      BY <1>5, <3>2, TypeParts DEF CheckCap, HistoryTypes
    <3>4. \A d \in Client : pc'[d] = "commit" => pc[d] = "commit" /\ cer'[d] = cer[d]
      BY <2>1, <3>1, TypeParts DEF Answer
    <3> QED
      BY <3>1, <3>3, <3>4
  <2>2. CASE ~ Answer(c)
    <3>1. /\ UnderCap /\ Goto(c, "commit") /\ UNCHANGED <<cer, accounts, ceremony>>
          /\ raced' \/ Opening = {}
      BY <1>5, <2>2 DEF CheckCap
    <3>2. /\ Opening' \subseteq Client /\ (~ raced' => Opening' \subseteq {c})
          /\ Uninvited' \subseteq accounts
      BY <3>1, TypeParts DEF Goto
    <3>3. /\ Cardinality(Opening') \in 0 .. Cardinality(Client)
          /\ ~ raced' => Cardinality(Opening') <= 1
          /\ Cardinality(Uninvited') <= Cardinality(accounts) /\ Cardinality(Uninvited') \in Nat
          /\ Cardinality(accounts) \in Nat
      <4>1. IsFiniteSet({c}) /\ Cardinality({c}) = 1 /\ IsFiniteSet(accounts)
        BY FS_Singleton, Finite, TypeParts
      <4> HIDE DEF Opening, Uninvited
      <4>2. Cardinality(Opening') \in 0 .. Cardinality(Client)
        BY <3>2, Finite
      <4>3. ~ raced' => Cardinality(Opening') <= 1
        BY <3>2, <4>1, Smaller
      <4>4. Cardinality(Uninvited') <= Cardinality(accounts) /\ Cardinality(Uninvited') \in Nat
            /\ Cardinality(accounts) \in Nat
        BY <3>2, <4>1, Smaller
      <4> QED
        BY <4>2, <4>3, <4>4
    <3> HIDE DEF Opening, Uninvited
    <3> QED
      BY <3>1, <3>3, Finite, LimitAssumption DEF UnderCap, CapKept
  <2> QED
    BY <2>1, <2>2
<1>6. ASSUME NEW c \in Client, FindAccount(c) PROVE ((raced' = raced /\ Uninvited' \subseteq Uninvited /\ Opening' \subseteq Opening) \/ CapKept')
  BY <1>6, Names, TypeParts DEF FindAccount, Goto, Answer
<1>7. ASSUME NEW c \in Client, StoreKey(c) PROVE ((raced' = raced /\ Uninvited' \subseteq Uninvited /\ Opening' \subseteq Opening) \/ CapKept')
  BY <1>7, Names, TypeParts DEF StoreKey, Goto, Answer, InsertCredential
<1>8. ASSUME NEW c \in Client, FindCredential(c) PROVE ((raced' = raced /\ Uninvited' \subseteq Uninvited /\ Opening' \subseteq Opening) \/ CapKept')
  BY <1>8, Names, TypeParts DEF FindCredential, Goto, Answer, CounterMovedOn
<1>9. ASSUME NEW c \in Client, FindOwner(c) PROVE ((raced' = raced /\ Uninvited' \subseteq Uninvited /\ Opening' \subseteq Opening) \/ CapKept')
  BY <1>9, Names, TypeParts DEF FindOwner, Goto, Answer
<1>10. ASSUME NEW c \in Client, BumpCounter(c) PROVE ((raced' = raced /\ Uninvited' \subseteq Uninvited /\ Opening' \subseteq Opening) \/ CapKept')
  BY <1>10, Names, TypeParts DEF BumpCounter, Goto
<1>11. ASSUME NEW c \in Client, CountSessions(c) PROVE ((raced' = raced /\ Uninvited' \subseteq Uninvited /\ Opening' \subseteq Opening) \/ CapKept')
  BY <1>11, Names, TypeParts DEF CountSessions, Goto
<1>12. ASSUME NEW c \in Client, SelectOldest(c) PROVE ((raced' = raced /\ Uninvited' \subseteq Uninvited /\ Opening' \subseteq Opening) \/ CapKept')
  BY <1>12, Names, TypeParts DEF SelectOldest, Goto, Answer
<1>13. ASSUME NEW c \in Client, RevokeOldest(c) PROVE ((raced' = raced /\ Uninvited' \subseteq Uninvited /\ Opening' \subseteq Opening) \/ CapKept')
  BY <1>13, Names, TypeParts DEF RevokeOldest, Goto, Answer
<1>14. ASSUME NEW c \in Client, InsertSession(c) PROVE ((raced' = raced /\ Uninvited' \subseteq Uninvited /\ Opening' \subseteq Opening) \/ CapKept')
  BY <1>14, Names, TypeParts DEF InsertSession, Goto, Answer
<1>15. ASSUME NEW c \in Client, NEW a \in accounts, NEW k \in Passkey, BeginDeleteKey(c, a, k) PROVE ((raced' = raced /\ Uninvited' \subseteq Uninvited /\ Opening' \subseteq Opening) \/ CapKept')
  BY <1>15, Names, TypeParts DEF BeginDeleteKey, Goto
<1>16. ASSUME NEW c \in Client, NEW a \in accounts, BeginDeleteAccount(c, a) PROVE ((raced' = raced /\ Uninvited' \subseteq Uninvited /\ Opening' \subseteq Opening) \/ CapKept')
  BY <1>16, Names, TypeParts DEF BeginDeleteAccount, Goto
<1>17. ASSUME NEW c \in Client, DeleteKey(c) PROVE ((raced' = raced /\ Uninvited' \subseteq Uninvited /\ Opening' \subseteq Opening) \/ CapKept')
  BY <1>17, Names, TypeParts DEF DeleteKey, Goto, Answer
<1>18. ASSUME NEW c \in Client, CloseAccount(c) PROVE ((raced' = raced /\ Uninvited' \subseteq Uninvited /\ Opening' \subseteq Opening) \/ CapKept')
  BY <1>18, Names, TypeParts DEF CloseAccount, Goto, Answer, DeleteAccount
<1>19. ASSUME NEW c \in Client, Stop(c) PROVE ((raced' = raced /\ Uninvited' \subseteq Uninvited /\ Opening' \subseteq Opening) \/ CapKept')
  BY <1>19, Names, TypeParts DEF Stop, Goto, Answer
<1>20. ASSUME NEW ch \in Ceremony, NEW k \in Passkey, NEW i \in Invite, StartInvite(ch, i, k) PROVE ((raced' = raced /\ Uninvited' \subseteq Uninvited /\ Opening' \subseteq Opening) \/ CapKept')
  BY <1>20, Names, TypeParts DEF StartInvite, Issue, NoCeremony
<1>21. ASSUME NEW ch \in Ceremony, NEW k \in Passkey, StartOpen(ch, k) PROVE ((raced' = raced /\ Uninvited' \subseteq Uninvited /\ Opening' \subseteq Opening) \/ CapKept')
  BY <1>21, Names, TypeParts DEF StartOpen, Issue, NoCeremony
<1>22. ASSUME NEW ch \in Ceremony, NEW k \in Passkey, NEW a \in accounts, StartAdd(ch, a, k) PROVE ((raced' = raced /\ Uninvited' \subseteq Uninvited /\ Opening' \subseteq Opening) \/ CapKept')
  BY <1>22, Names, TypeParts DEF StartAdd, Issue, NoCeremony
<1>23. ASSUME NEW ch \in Ceremony, NEW k \in Passkey, StartLogin(ch, k) PROVE ((raced' = raced /\ Uninvited' \subseteq Uninvited /\ Opening' \subseteq Opening) \/ CapKept')
  BY <1>23, Names, TypeParts DEF StartLogin, Issue, NoCeremony
<1>24. ASSUME NEW m \in {"invite", "open", "closed"}, Deploy(m) PROVE ((raced' = raced /\ Uninvited' \subseteq Uninvited /\ Opening' \subseteq Opening) \/ CapKept')
  BY <1>24, Names, TypeParts DEF Deploy
<1>25. ASSUME NEW a \in accounts, NEW s \in Account, EndSession(a, s) PROVE ((raced' = raced /\ Uninvited' \subseteq Uninvited /\ Opening' \subseteq Opening) \/ CapKept')
  BY <1>25, Names, TypeParts DEF EndSession
<1>26. ASSUME UNCHANGED vars PROVE ((raced' = raced /\ Uninvited' \subseteq Uninvited /\ Opening' \subseteq Opening) \/ CapKept')
  BY <1>26 DEF vars
<1> QED
  BY <1>1, <1>2, <1>3, <1>4, <1>5, <1>6, <1>7, <1>8, <1>9, <1>10, <1>11, <1>12, <1>13, <1>14, <1>15, <1>16, <1>17, <1>18, <1>19, <1>20, <1>21, <1>22, <1>23, <1>24, <1>25, <1>26 DEF Next, Request

\* Every step keeps the cap, unless two requests were past the count at once.
LEMMA CapStep ==
  ASSUME IInv, CapKept, [Next]_vars
  PROVE  CapKept'
<1>1. CASE raced' = raced /\ Uninvited' \subseteq Uninvited /\ Opening' \subseteq Opening
  <2>1. IsFiniteSet(Uninvited) /\ IsFiniteSet(Opening)
    BY Finite, TypeParts DEF Uninvited, Opening, IInv, TableTypes
  <2>2. /\ Cardinality(Uninvited') <= Cardinality(Uninvited) /\ Cardinality(Uninvited) \in Nat
        /\ Cardinality(Uninvited') \in Nat
    BY <1>1, <2>1, Smaller
  <2>3. /\ Cardinality(Opening') <= Cardinality(Opening) /\ Cardinality(Opening) \in Nat
        /\ Cardinality(Opening') \in Nat
    BY <1>1, <2>1, Smaller
  <2> QED
    BY <1>1, <2>2, <2>3, Finite, LimitAssumption DEF CapKept
<1> QED
  BY <1>1, CapShrinksOrFits

\* An addition is begun by an account that exists; no request creates that
\* account afterwards.
Offered ==
  \A ch \in Ceremony : ceremony[ch].kind = "add" =>
    LET a == ceremony[ch].who
    IN  a = Founder \/ (/\ a \in Ceremony /\ state[a] = "used"
                        /\ \A c \in Client : pc[c] \in {"cap", "commit"} => cer[c] # a)

\* Additions are begun by existing accounts.
LEMMA OfferedStep ==
  ASSUME IInv, Offered, [Next]_vars
  PROVE  Offered'
<1> USE DEF Offered, IInv, Labelled, Claimed, Purposeful, Recorded, Past, TableTypes, RequestTypes, ceremonies, credentials, tables, locals, history
<1>1. ASSUME NEW c \in Client, NEW ch \in Ceremony, Present(c, ch) PROVE Offered'
  BY <1>1, Names, TypeParts DEF Present, Goto
<1>2. ASSUME NEW c \in Client, Claim(c) PROVE Offered'
  BY <1>2, Names, TypeParts DEF Claim, Goto, Answer, Claimable, Consumed, FirstLabel
<1>3. ASSUME NEW c \in Client, Commit(c) PROVE Offered'
  BY <1>3, Names, TypeParts DEF Commit, Goto, Answer, BatchFails, CreateAccount, InsertCredential
<1>4. ASSUME NEW c \in Client, Undo(c) PROVE Offered'
  BY <1>4, Names, TypeParts DEF Undo, Goto, Answer, UndoAccount, DeleteAccount
<1>5. ASSUME NEW c \in Client, CheckCap(c) PROVE Offered'
  BY <1>5, Names, TypeParts DEF CheckCap, Goto, Answer
<1>6. ASSUME NEW c \in Client, FindAccount(c) PROVE Offered'
  BY <1>6, Names, TypeParts DEF FindAccount, Goto, Answer
<1>7. ASSUME NEW c \in Client, StoreKey(c) PROVE Offered'
  BY <1>7, Names, TypeParts DEF StoreKey, Goto, Answer, InsertCredential
<1>8. ASSUME NEW c \in Client, FindCredential(c) PROVE Offered'
  BY <1>8, Names, TypeParts DEF FindCredential, Goto, Answer, CounterMovedOn
<1>9. ASSUME NEW c \in Client, FindOwner(c) PROVE Offered'
  BY <1>9, Names, TypeParts DEF FindOwner, Goto, Answer
<1>10. ASSUME NEW c \in Client, BumpCounter(c) PROVE Offered'
  BY <1>10, Names, TypeParts DEF BumpCounter, Goto
<1>11. ASSUME NEW c \in Client, CountSessions(c) PROVE Offered'
  BY <1>11, Names, TypeParts DEF CountSessions, Goto
<1>12. ASSUME NEW c \in Client, SelectOldest(c) PROVE Offered'
  <2>1. CASE Answer(c)
    <3>1. pc[c] = "oldest" /\ UNCHANGED <<ceremony, state>>
      BY <1>12 DEF SelectOldest
    <3> QED
      BY <2>1, <3>1, Names, TypeParts DEF Answer, Goto
  <2>2. CASE ~ Answer(c)
    <3>1. pc[c] = "oldest" /\ Goto(c, "revoke") /\ UNCHANGED <<cer, ceremony, state>>
      BY <1>12, <2>2 DEF SelectOldest
    <3>2. \A d \in Client : d # c => target'[d] = target[d]
      BY <1>12, <2>2, TypeParts DEF SelectOldest
    <3> QED
      BY <3>1, <3>2, Names, TypeParts DEF Goto
  <2> QED
    BY <2>1, <2>2
<1>13. ASSUME NEW c \in Client, RevokeOldest(c) PROVE Offered'
  BY <1>13, Names, TypeParts DEF RevokeOldest, Goto, Answer
<1>14. ASSUME NEW c \in Client, InsertSession(c) PROVE Offered'
  BY <1>14, Names, TypeParts DEF InsertSession, Goto, Answer
<1>15. ASSUME NEW c \in Client, NEW a \in accounts, NEW k \in Passkey, BeginDeleteKey(c, a, k) PROVE Offered'
  BY <1>15, Names, TypeParts DEF BeginDeleteKey, Goto
<1>16. ASSUME NEW c \in Client, NEW a \in accounts, BeginDeleteAccount(c, a) PROVE Offered'
  BY <1>16, Names, TypeParts DEF BeginDeleteAccount, Goto
<1>17. ASSUME NEW c \in Client, DeleteKey(c) PROVE Offered'
  BY <1>17, Names, TypeParts DEF DeleteKey, Goto, Answer
<1>18. ASSUME NEW c \in Client, CloseAccount(c) PROVE Offered'
  BY <1>18, Names, TypeParts DEF CloseAccount, Goto, Answer, DeleteAccount
<1>19. ASSUME NEW c \in Client, Stop(c) PROVE Offered'
  BY <1>19, Names, TypeParts DEF Stop, Goto, Answer
<1>20. ASSUME NEW ch \in Ceremony, NEW k \in Passkey, NEW i \in Invite, StartInvite(ch, i, k) PROVE Offered'
  BY <1>20, Names, TypeParts DEF StartInvite, Issue, NoCeremony
<1>21. ASSUME NEW ch \in Ceremony, NEW k \in Passkey, StartOpen(ch, k) PROVE Offered'
  BY <1>21, Names, TypeParts DEF StartOpen, Issue, NoCeremony
<1>22. ASSUME NEW ch \in Ceremony, NEW k \in Passkey, NEW a \in accounts, StartAdd(ch, a, k) PROVE Offered'
  <2>1. /\ UNCHANGED <<pc, cer>> /\ state[ch] = "new" /\ state' = [state EXCEPT ![ch] = "live"]
        /\ \A x \in Ceremony : x # ch => ceremony'[x] = ceremony[x]
        /\ ceremony'[ch].who = a
    BY <1>22, TypeParts DEF StartAdd, Issue, NoCeremony
  <2>2. a = Founder \/ (/\ a \in Ceremony /\ state[a] = "used"
                        /\ \A d \in Client : pc[d] \in {"cap", "commit"} => cer[d] # a)
    <3>1. a \in accounts /\ a \in Account
      BY TypeParts
    <3>2. a = Founder \/ (a \in Ceremony /\ state[a] = "used")
      BY <3>1, Names
    <3>3. \A d \in Client : pc[d] \in {"cap", "commit"} => cer[d] # a
      BY <3>1
    <3> QED
      BY <3>2, <3>3
  <2>3. \A x \in Ceremony : state[x] = "used" => state'[x] = "used"
    BY <2>1, TypeParts
  <2> QED
    BY <2>1, <2>2, <2>3
<1>23. ASSUME NEW ch \in Ceremony, NEW k \in Passkey, StartLogin(ch, k) PROVE Offered'
  BY <1>23, Names, TypeParts DEF StartLogin, Issue, NoCeremony
<1>24. ASSUME NEW m \in {"invite", "open", "closed"}, Deploy(m) PROVE Offered'
  BY <1>24, Names, TypeParts DEF Deploy
<1>25. ASSUME NEW a \in accounts, NEW s \in Account, EndSession(a, s) PROVE Offered'
  BY <1>25, Names, TypeParts DEF EndSession
<1>26. ASSUME UNCHANGED vars PROVE Offered'
  BY <1>26 DEF vars
<1> QED
  BY <1>1, <1>2, <1>3, <1>4, <1>5, <1>6, <1>7, <1>8, <1>9, <1>10, <1>11, <1>12, <1>13, <1>14, <1>15, <1>16, <1>17, <1>18, <1>19, <1>20, <1>21, <1>22, <1>23, <1>24, <1>25, <1>26 DEF Next, Request

\* The passkeys of an account and the additions that may still store one.
KeysKept ==
  \A a \in accounts \ crowded :
    Cardinality(Keys(a)) + Cardinality(Adding(a)) <= MaxPasskeys

\* An account that has had two additions at once stays marked.
LEMMA CrowdedGrows ==
  ASSUME [Next]_vars
  PROVE  (crowded \subseteq crowded')
<1> USE DEF ceremonies, credentials, tables, locals, history
<1>1. ASSUME NEW c \in Client, NEW ch \in Ceremony, Present(c, ch) PROVE (crowded \subseteq crowded')
  BY <1>1 DEF Present, Goto
<1>2. ASSUME NEW c \in Client, Claim(c) PROVE (crowded \subseteq crowded')
  BY <1>2 DEF Claim, Goto, Answer, Claimable, Consumed, FirstLabel
<1>3. ASSUME NEW c \in Client, Commit(c) PROVE (crowded \subseteq crowded')
  BY <1>3 DEF Commit, Goto, Answer, BatchFails, CreateAccount, InsertCredential
<1>4. ASSUME NEW c \in Client, Undo(c) PROVE (crowded \subseteq crowded')
  BY <1>4 DEF Undo, Goto, Answer, UndoAccount, DeleteAccount
<1>5. ASSUME NEW c \in Client, CheckCap(c) PROVE (crowded \subseteq crowded')
  BY <1>5 DEF CheckCap, Goto, Answer
<1>6. ASSUME NEW c \in Client, FindAccount(c) PROVE (crowded \subseteq crowded')
  BY <1>6 DEF FindAccount, Goto, Answer
<1>7. ASSUME NEW c \in Client, StoreKey(c) PROVE (crowded \subseteq crowded')
  BY <1>7 DEF StoreKey, Goto, Answer, InsertCredential
<1>8. ASSUME NEW c \in Client, FindCredential(c) PROVE (crowded \subseteq crowded')
  BY <1>8 DEF FindCredential, Goto, Answer, CounterMovedOn
<1>9. ASSUME NEW c \in Client, FindOwner(c) PROVE (crowded \subseteq crowded')
  BY <1>9 DEF FindOwner, Goto, Answer
<1>10. ASSUME NEW c \in Client, BumpCounter(c) PROVE (crowded \subseteq crowded')
  BY <1>10 DEF BumpCounter, Goto
<1>11. ASSUME NEW c \in Client, CountSessions(c) PROVE (crowded \subseteq crowded')
  BY <1>11 DEF CountSessions, Goto
<1>12. ASSUME NEW c \in Client, SelectOldest(c) PROVE (crowded \subseteq crowded')
  BY <1>12 DEF SelectOldest, Goto, Answer
<1>13. ASSUME NEW c \in Client, RevokeOldest(c) PROVE (crowded \subseteq crowded')
  BY <1>13 DEF RevokeOldest, Goto, Answer
<1>14. ASSUME NEW c \in Client, InsertSession(c) PROVE (crowded \subseteq crowded')
  BY <1>14 DEF InsertSession, Goto, Answer
<1>15. ASSUME NEW c \in Client, NEW a \in accounts, NEW k \in Passkey, BeginDeleteKey(c, a, k) PROVE (crowded \subseteq crowded')
  BY <1>15 DEF BeginDeleteKey, Goto
<1>16. ASSUME NEW c \in Client, NEW a \in accounts, BeginDeleteAccount(c, a) PROVE (crowded \subseteq crowded')
  BY <1>16 DEF BeginDeleteAccount, Goto
<1>17. ASSUME NEW c \in Client, DeleteKey(c) PROVE (crowded \subseteq crowded')
  BY <1>17 DEF DeleteKey, Goto, Answer
<1>18. ASSUME NEW c \in Client, CloseAccount(c) PROVE (crowded \subseteq crowded')
  BY <1>18 DEF CloseAccount, Goto, Answer, DeleteAccount
<1>19. ASSUME NEW c \in Client, Stop(c) PROVE (crowded \subseteq crowded')
  BY <1>19 DEF Stop, Goto, Answer
<1>20. ASSUME NEW ch \in Ceremony, NEW k \in Passkey, NEW i \in Invite, StartInvite(ch, i, k) PROVE (crowded \subseteq crowded')
  BY <1>20 DEF StartInvite, Issue, NoCeremony
<1>21. ASSUME NEW ch \in Ceremony, NEW k \in Passkey, StartOpen(ch, k) PROVE (crowded \subseteq crowded')
  BY <1>21 DEF StartOpen, Issue, NoCeremony
<1>22. ASSUME NEW ch \in Ceremony, NEW k \in Passkey, NEW a \in accounts, StartAdd(ch, a, k) PROVE (crowded \subseteq crowded')
  BY <1>22 DEF StartAdd, Issue, NoCeremony
<1>23. ASSUME NEW ch \in Ceremony, NEW k \in Passkey, StartLogin(ch, k) PROVE (crowded \subseteq crowded')
  BY <1>23 DEF StartLogin, Issue, NoCeremony
<1>24. ASSUME NEW m \in {"invite", "open", "closed"}, Deploy(m) PROVE (crowded \subseteq crowded')
  BY <1>24 DEF Deploy
<1>25. ASSUME NEW a \in accounts, NEW s \in Account, EndSession(a, s) PROVE (crowded \subseteq crowded')
  BY <1>25 DEF EndSession
<1>26. ASSUME UNCHANGED vars PROVE (crowded \subseteq crowded')
  BY <1>26 DEF vars
<1> QED
  BY <1>1, <1>2, <1>3, <1>4, <1>5, <1>6, <1>7, <1>8, <1>9, <1>10, <1>11, <1>12, <1>13, <1>14, <1>15, <1>16, <1>17, <1>18, <1>19, <1>20, <1>21, <1>22, <1>23, <1>24, <1>25, <1>26 DEF Next, Request

\* What may add a passkey to an account is an addition already counted, or the
\* registration that creates the account.
LEMMA KeysShrinkOrFit ==
  ASSUME IInv, Offered, KeysKept, NEW a \in accounts', a \notin crowded', [Next]_vars
  PROVE  ((a \in accounts /\ Keys(a)' \subseteq Keys(a) /\ Adding(a)' \subseteq Adding(a)) \/ Cardinality(Keys(a)') + Cardinality(Adding(a)') <= MaxPasskeys)
<1> USE DEF Keys, Adding, IInv, Labelled, Claimed, Purposeful, Recorded, Past, TableTypes, RequestTypes, ceremonies, credentials, tables, locals, history
<1>1. ASSUME NEW c \in Client, NEW ch \in Ceremony, Present(c, ch) PROVE ((a \in accounts /\ Keys(a)' \subseteq Keys(a) /\ Adding(a)' \subseteq Adding(a)) \/ Cardinality(Keys(a)') + Cardinality(Adding(a)') <= MaxPasskeys)
  <2>1. a \in accounts /\ Keys(a)' \subseteq Keys(a)
    BY <1>1, Names, TypeParts DEF Present, Goto
  <2>2. Adding(a)' \subseteq Adding(a)
    BY <1>1, Names, TypeParts DEF Present, Goto
  <2> QED
    BY <2>1, <2>2
<1>2. ASSUME NEW c \in Client, Claim(c) PROVE ((a \in accounts /\ Keys(a)' \subseteq Keys(a) /\ Adding(a)' \subseteq Adding(a)) \/ Cardinality(Keys(a)') + Cardinality(Adding(a)') <= MaxPasskeys)
  <2>1. UNCHANGED <<accounts, owner, ceremony>> /\ cer[c] \in Ceremony
    BY <1>2 DEF Claim
  <2>2. Keys(a)' = Keys(a)
    BY <2>1
  <2>3. CASE ~ Claimable(cer[c])
    BY <1>2, <2>1, <2>2, <2>3, TypeParts DEF Claim, Answer, Goto
  <2>4. CASE Claimable(cer[c])
    <3>1. state[cer[c]] = "live" /\ state' = [state EXCEPT ![cer[c]] = "used"]
      BY <1>2, <2>1, <2>4, TypeParts DEF Claim, Claimable, Consumed
    <3>2. \A d \in Client : pc'[d] \in {"find", "store"} =>
            cer'[d] = cer[c] \/ (pc[d] = pc'[d] /\ cer'[d] = cer[d])
      <4>1. CASE Answer(c)
        BY <4>1, TypeParts DEF Answer, Goto
      <4>2. CASE UNCHANGED cer /\ \E l \in Labels : Goto(c, l)
        BY <4>2, TypeParts DEF Goto
      <4>3. FirstLabel(ceremony[cer[c]].kind) \in Labels
        BY DEF FirstLabel, Labels
      <4> QED
        BY <1>2, <4>1, <4>2, <4>3 DEF Claim
    <3>3. Adding(a)' \subseteq Adding(a)
      BY <2>1, <3>1, <3>2, TypeParts
    <3> QED
      BY <2>1, <2>2, <3>3
  <2> QED
    BY <2>3, <2>4
<1>3. ASSUME NEW c \in Client, Commit(c) PROVE ((a \in accounts /\ Keys(a)' \subseteq Keys(a) /\ Adding(a)' \subseteq Adding(a)) \/ Cardinality(Keys(a)') + Cardinality(Adding(a)') <= MaxPasskeys)
  <2>1. CASE UNCHANGED <<usedBy, tables>> /\ Answer(c)
    BY <1>3, <2>1, TypeParts DEF Commit, Answer, Goto
  <2>2. CASE CreateAccount(acc[c]) /\ InsertCredential(ceremony[cer[c]].key, acc[c])
    <3>1. /\ acc[c] = cer[c] /\ cer[c] \in Ceremony /\ acc[c] \notin accounts
          /\ accounts' = accounts \union {acc[c]}
          /\ ceremony[cer[c]].key \in Passkey
          /\ owner' = [owner EXCEPT ![ceremony[cer[c]].key] = acc[c]]
          /\ owner[ceremony[cer[c]].key] = -1
      BY <1>3, <2>2, TypeParts DEF Commit, CreateAccount, InsertCredential
    <3>2. /\ UNCHANGED <<ceremony, state>>
          /\ \A d \in Client : pc'[d] \in {"find", "store"} => pc[d] = pc'[d] /\ cer'[d] = cer[d]
      BY <1>3, TypeParts DEF Commit, BatchFails, Answer, Goto
    <3>3. Adding(a)' \subseteq Adding(a)
      BY <3>2
    <3>4. CASE a = acc[c]
      <4>1. Adding(a) = {}
        <5>1. pc[c] = "commit" /\ a # Founder
          BY <1>3, <3>1, <3>4, Names DEF Commit
        <5> QED
          BY <3>1, <3>4, <5>1 DEF Offered
      <4>2. Keys(a)' \subseteq {ceremony[cer[c]].key}
        <5>1. \A k \in Passkey : owner[k] # a
          BY <3>1, <3>4, Names, TypeParts
        <5> QED
          BY <3>1, <5>1
      <4>3. IsFiniteSet({ceremony[cer[c]].key}) /\ Cardinality({ceremony[cer[c]].key}) = 1
        BY FS_Singleton
      <4>4. Adding(a)' = {}
        BY <3>3, <4>1
      <4> HIDE DEF Adding, Keys
      <4>5. Cardinality(Keys(a)') <= 1 /\ Cardinality(Keys(a)') \in Nat
        BY <4>2, <4>3, Smaller
      <4> QED
        BY <4>4, <4>5, FS_EmptySet, LimitAssumption
    <3>5. CASE a # acc[c]
      <4>1. Keys(a)' \subseteq Keys(a) /\ a \in accounts
        BY <3>1, <3>5
      <4> QED
        BY <3>3, <4>1
    <3> QED
      BY <3>4, <3>5
  <2> QED
    BY <1>3, <2>1, <2>2 DEF Commit, BatchFails
<1>4. ASSUME NEW c \in Client, Undo(c) PROVE ((a \in accounts /\ Keys(a)' \subseteq Keys(a) /\ Adding(a)' \subseteq Adding(a)) \/ Cardinality(Keys(a)') + Cardinality(Adding(a)') <= MaxPasskeys)
  <2>1. a \in accounts /\ Keys(a)' \subseteq Keys(a)
    BY <1>4, Names, TypeParts DEF Undo, Goto, Answer, UndoAccount, DeleteAccount
  <2>2. Adding(a)' \subseteq Adding(a)
    BY <1>4, Names, TypeParts DEF Undo, Goto, Answer, UndoAccount, DeleteAccount
  <2> QED
    BY <2>1, <2>2
<1>5. ASSUME NEW c \in Client, CheckCap(c) PROVE ((a \in accounts /\ Keys(a)' \subseteq Keys(a) /\ Adding(a)' \subseteq Adding(a)) \/ Cardinality(Keys(a)') + Cardinality(Adding(a)') <= MaxPasskeys)
  <2>1. a \in accounts /\ Keys(a)' \subseteq Keys(a)
    BY <1>5, Names, TypeParts DEF CheckCap, Goto, Answer
  <2>2. Adding(a)' \subseteq Adding(a)
    BY <1>5, Names, TypeParts DEF CheckCap, Goto, Answer
  <2> QED
    BY <2>1, <2>2
<1>6. ASSUME NEW c \in Client, FindAccount(c) PROVE ((a \in accounts /\ Keys(a)' \subseteq Keys(a) /\ Adding(a)' \subseteq Adding(a)) \/ Cardinality(Keys(a)') + Cardinality(Adding(a)') <= MaxPasskeys)
  <2>1. a \in accounts /\ Keys(a)' \subseteq Keys(a)
    BY <1>6, Names, TypeParts DEF FindAccount, Goto, Answer
  <2>2. Adding(a)' \subseteq Adding(a)
    BY <1>6, Names, TypeParts DEF FindAccount, Goto, Answer
  <2> QED
    BY <2>1, <2>2
<1>7. ASSUME NEW c \in Client, StoreKey(c) PROVE ((a \in accounts /\ Keys(a)' \subseteq Keys(a) /\ Adding(a)' \subseteq Adding(a)) \/ Cardinality(Keys(a)') + Cardinality(Adding(a)') <= MaxPasskeys)
  <2>1. /\ pc[c] = "store" /\ cer[c] \in Ceremony /\ state[cer[c]] = "used"
        /\ ceremony[cer[c]].kind = "add" /\ ceremony[cer[c]].who = acc[c]
        /\ \A d \in Client : (pc[d] \in Past /\ cer[d] = cer[c]) => d = c
        /\ ceremony[cer[c]].key \in Passkey
    BY <1>7, TypeParts DEF StoreKey
  <2>2. /\ UNCHANGED <<ceremony, state, accounts, crowded>> /\ pc'[c] = "idle"
        /\ \A d \in Client : d # c => pc'[d] = pc[d] /\ cer'[d] = cer[d]
    BY <1>7, TypeParts DEF StoreKey, Answer, Goto
  <2>3. Adding(a)' \subseteq Adding(a) /\ cer[c] \notin Adding(a)'
    BY <2>1, <2>2
  <2>4. CASE UNCHANGED owner \/ a # acc[c]
    <3>1. Keys(a)' \subseteq Keys(a)
      BY <1>7, <2>1, <2>4, TypeParts DEF StoreKey, InsertCredential
    <3> QED
      BY <2>2, <2>3, <3>1
  <2>5. CASE ~ UNCHANGED owner /\ a = acc[c]
    <3>1. Keys(a)' \subseteq Keys(a) \union {ceremony[cer[c]].key}
      BY <1>7, <2>1, <2>5, TypeParts DEF StoreKey, InsertCredential
    <3>2. cer[c] \in Adding(a)
      BY <2>1, <2>5
    <3>3. IsFiniteSet(Keys(a)) /\ IsFiniteSet(Adding(a))
      BY Finite
    <3>4. Adding(a)' \subseteq Adding(a) \ {cer[c]}
      BY <2>3
    <3> HIDE DEF Adding, Keys
    <3>5. /\ Cardinality(Keys(a)') <= Cardinality(Keys(a)) + 1 /\ Cardinality(Keys(a)) \in Nat
          /\ Cardinality(Keys(a)') \in Nat
      BY <3>1, <3>3, OneMore
    <3>6. /\ Cardinality(Adding(a)') <= Cardinality(Adding(a)) - 1 /\ Cardinality(Adding(a)) \in Nat
          /\ Cardinality(Adding(a)') \in Nat
      BY <3>2, <3>3, <3>4, OneLess
    <3>7. Cardinality(Keys(a)) + Cardinality(Adding(a)) <= MaxPasskeys
      BY <2>2 DEF KeysKept
    <3> QED
      BY <3>5, <3>6, <3>7, LimitAssumption
  <2> QED
    BY <2>4, <2>5
<1>8. ASSUME NEW c \in Client, FindCredential(c) PROVE ((a \in accounts /\ Keys(a)' \subseteq Keys(a) /\ Adding(a)' \subseteq Adding(a)) \/ Cardinality(Keys(a)') + Cardinality(Adding(a)') <= MaxPasskeys)
  <2>1. a \in accounts /\ Keys(a)' \subseteq Keys(a)
    BY <1>8, Names, TypeParts DEF FindCredential, Goto, Answer, CounterMovedOn
  <2>2. Adding(a)' \subseteq Adding(a)
    BY <1>8, Names, TypeParts DEF FindCredential, Goto, Answer, CounterMovedOn
  <2> QED
    BY <2>1, <2>2
<1>9. ASSUME NEW c \in Client, FindOwner(c) PROVE ((a \in accounts /\ Keys(a)' \subseteq Keys(a) /\ Adding(a)' \subseteq Adding(a)) \/ Cardinality(Keys(a)') + Cardinality(Adding(a)') <= MaxPasskeys)
  <2>1. a \in accounts /\ Keys(a)' \subseteq Keys(a)
    BY <1>9, Names, TypeParts DEF FindOwner, Goto, Answer
  <2>2. Adding(a)' \subseteq Adding(a)
    BY <1>9, Names, TypeParts DEF FindOwner, Goto, Answer
  <2> QED
    BY <2>1, <2>2
<1>10. ASSUME NEW c \in Client, BumpCounter(c) PROVE ((a \in accounts /\ Keys(a)' \subseteq Keys(a) /\ Adding(a)' \subseteq Adding(a)) \/ Cardinality(Keys(a)') + Cardinality(Adding(a)') <= MaxPasskeys)
  <2>1. a \in accounts /\ Keys(a)' \subseteq Keys(a)
    BY <1>10, Names, TypeParts DEF BumpCounter, Goto
  <2>2. Adding(a)' \subseteq Adding(a)
    BY <1>10, Names, TypeParts DEF BumpCounter, Goto
  <2> QED
    BY <2>1, <2>2
<1>11. ASSUME NEW c \in Client, CountSessions(c) PROVE ((a \in accounts /\ Keys(a)' \subseteq Keys(a) /\ Adding(a)' \subseteq Adding(a)) \/ Cardinality(Keys(a)') + Cardinality(Adding(a)') <= MaxPasskeys)
  <2>1. a \in accounts /\ Keys(a)' \subseteq Keys(a)
    BY <1>11, Names, TypeParts DEF CountSessions, Goto
  <2>2. Adding(a)' \subseteq Adding(a)
    BY <1>11, Names, TypeParts DEF CountSessions, Goto
  <2> QED
    BY <2>1, <2>2
<1>12. ASSUME NEW c \in Client, SelectOldest(c) PROVE ((a \in accounts /\ Keys(a)' \subseteq Keys(a) /\ Adding(a)' \subseteq Adding(a)) \/ Cardinality(Keys(a)') + Cardinality(Adding(a)') <= MaxPasskeys)
  <2>1. UNCHANGED <<accounts, owner, ceremony, state>> /\ pc[c] = "oldest"
    BY <1>12 DEF SelectOldest
  <2>2. Keys(a)' = Keys(a)
    BY <2>1
  <2>3. \A d \in Client : pc'[d] \in {"find", "store"} => pc[d] = pc'[d] /\ cer'[d] = cer[d]
    <3>1. CASE Answer(c)
      BY <2>1, <3>1, TypeParts DEF Answer, Goto
    <3>2. CASE ~ Answer(c)
      <4>1. Goto(c, "revoke") /\ UNCHANGED cer
        BY <1>12, <3>2 DEF SelectOldest
      <4> QED
        BY <2>1, <4>1, TypeParts DEF Goto
    <3> QED
      BY <3>1, <3>2
  <2> QED
    BY <2>1, <2>2, <2>3
<1>13. ASSUME NEW c \in Client, RevokeOldest(c) PROVE ((a \in accounts /\ Keys(a)' \subseteq Keys(a) /\ Adding(a)' \subseteq Adding(a)) \/ Cardinality(Keys(a)') + Cardinality(Adding(a)') <= MaxPasskeys)
  <2>1. a \in accounts /\ Keys(a)' \subseteq Keys(a)
    BY <1>13, Names, TypeParts DEF RevokeOldest, Goto, Answer
  <2>2. Adding(a)' \subseteq Adding(a)
    BY <1>13, Names, TypeParts DEF RevokeOldest, Goto, Answer
  <2> QED
    BY <2>1, <2>2
<1>14. ASSUME NEW c \in Client, InsertSession(c) PROVE ((a \in accounts /\ Keys(a)' \subseteq Keys(a) /\ Adding(a)' \subseteq Adding(a)) \/ Cardinality(Keys(a)') + Cardinality(Adding(a)') <= MaxPasskeys)
  <2>1. a \in accounts /\ Keys(a)' \subseteq Keys(a)
    BY <1>14, Names, TypeParts DEF InsertSession, Goto, Answer
  <2>2. Adding(a)' \subseteq Adding(a)
    BY <1>14, Names, TypeParts DEF InsertSession, Goto, Answer
  <2> QED
    BY <2>1, <2>2
<1>15. ASSUME NEW c \in Client, NEW b \in accounts, NEW k \in Passkey, BeginDeleteKey(c, b, k) PROVE ((a \in accounts /\ Keys(a)' \subseteq Keys(a) /\ Adding(a)' \subseteq Adding(a)) \/ Cardinality(Keys(a)') + Cardinality(Adding(a)') <= MaxPasskeys)
  <2>1. a \in accounts /\ Keys(a)' \subseteq Keys(a)
    BY <1>15, Names, TypeParts DEF BeginDeleteKey, Goto
  <2>2. Adding(a)' \subseteq Adding(a)
    BY <1>15, Names, TypeParts DEF BeginDeleteKey, Goto
  <2> QED
    BY <2>1, <2>2
<1>16. ASSUME NEW c \in Client, NEW b \in accounts, BeginDeleteAccount(c, b) PROVE ((a \in accounts /\ Keys(a)' \subseteq Keys(a) /\ Adding(a)' \subseteq Adding(a)) \/ Cardinality(Keys(a)') + Cardinality(Adding(a)') <= MaxPasskeys)
  <2>1. a \in accounts /\ Keys(a)' \subseteq Keys(a)
    BY <1>16, Names, TypeParts DEF BeginDeleteAccount, Goto
  <2>2. Adding(a)' \subseteq Adding(a)
    BY <1>16, Names, TypeParts DEF BeginDeleteAccount, Goto
  <2> QED
    BY <2>1, <2>2
<1>17. ASSUME NEW c \in Client, DeleteKey(c) PROVE ((a \in accounts /\ Keys(a)' \subseteq Keys(a) /\ Adding(a)' \subseteq Adding(a)) \/ Cardinality(Keys(a)') + Cardinality(Adding(a)') <= MaxPasskeys)
  <2>1. a \in accounts /\ Keys(a)' \subseteq Keys(a)
    BY <1>17, Names, TypeParts DEF DeleteKey, Goto, Answer
  <2>2. Adding(a)' \subseteq Adding(a)
    BY <1>17, Names, TypeParts DEF DeleteKey, Goto, Answer
  <2> QED
    BY <2>1, <2>2
<1>18. ASSUME NEW c \in Client, CloseAccount(c) PROVE ((a \in accounts /\ Keys(a)' \subseteq Keys(a) /\ Adding(a)' \subseteq Adding(a)) \/ Cardinality(Keys(a)') + Cardinality(Adding(a)') <= MaxPasskeys)
  <2>1. a \in accounts /\ Keys(a)' \subseteq Keys(a)
    BY <1>18, Names, TypeParts DEF CloseAccount, Goto, Answer, DeleteAccount
  <2>2. Adding(a)' \subseteq Adding(a)
    BY <1>18, Names, TypeParts DEF CloseAccount, Goto, Answer, DeleteAccount
  <2> QED
    BY <2>1, <2>2
<1>19. ASSUME NEW c \in Client, Stop(c) PROVE ((a \in accounts /\ Keys(a)' \subseteq Keys(a) /\ Adding(a)' \subseteq Adding(a)) \/ Cardinality(Keys(a)') + Cardinality(Adding(a)') <= MaxPasskeys)
  <2>1. a \in accounts /\ Keys(a)' \subseteq Keys(a)
    BY <1>19, Names, TypeParts DEF Stop, Goto, Answer
  <2>2. Adding(a)' \subseteq Adding(a)
    BY <1>19, Names, TypeParts DEF Stop, Goto, Answer
  <2> QED
    BY <2>1, <2>2
<1>20. ASSUME NEW ch \in Ceremony, NEW k \in Passkey, NEW i \in Invite, StartInvite(ch, i, k) PROVE ((a \in accounts /\ Keys(a)' \subseteq Keys(a) /\ Adding(a)' \subseteq Adding(a)) \/ Cardinality(Keys(a)') + Cardinality(Adding(a)') <= MaxPasskeys)
  <2>1. a \in accounts /\ Keys(a)' \subseteq Keys(a)
    BY <1>20, Names, TypeParts DEF StartInvite, Issue, NoCeremony
  <2>2. Adding(a)' \subseteq Adding(a)
    BY <1>20, Names, TypeParts DEF StartInvite, Issue, NoCeremony
  <2> QED
    BY <2>1, <2>2
<1>21. ASSUME NEW ch \in Ceremony, NEW k \in Passkey, StartOpen(ch, k) PROVE ((a \in accounts /\ Keys(a)' \subseteq Keys(a) /\ Adding(a)' \subseteq Adding(a)) \/ Cardinality(Keys(a)') + Cardinality(Adding(a)') <= MaxPasskeys)
  <2>1. a \in accounts /\ Keys(a)' \subseteq Keys(a)
    BY <1>21, Names, TypeParts DEF StartOpen, Issue, NoCeremony
  <2>2. Adding(a)' \subseteq Adding(a)
    BY <1>21, Names, TypeParts DEF StartOpen, Issue, NoCeremony
  <2> QED
    BY <2>1, <2>2
<1>22. ASSUME NEW ch \in Ceremony, NEW k \in Passkey, NEW b \in accounts, StartAdd(ch, b, k) PROVE ((a \in accounts /\ Keys(a)' \subseteq Keys(a) /\ Adding(a)' \subseteq Adding(a)) \/ Cardinality(Keys(a)') + Cardinality(Adding(a)') <= MaxPasskeys)
  <2>1. /\ UnderPasskeyQuota(b) /\ UNCHANGED <<owner, accounts, pc, cer>>
        /\ state[ch] = "new" /\ state' = [state EXCEPT ![ch] = "live"]
        /\ \A x \in Ceremony : x # ch => ceremony'[x] = ceremony[x]
        /\ ceremony'[ch].who = b
        /\ crowded' = IF Adding(b) = {} THEN crowded ELSE crowded \union {b}
    BY <1>22, TypeParts DEF StartAdd, Issue, NoCeremony
  <2>2. Keys(a)' = Keys(a)
    BY <2>1
  <2>3. CASE a = b
    <3>1. Adding(a) = {}
      BY <2>1, <2>3
    <3>2. Adding(a)' \subseteq {ch}
      <4>1. \A x \in Adding(a)' : x # ch => x \in Adding(a)
        BY <2>1, TypeParts
      <4> QED
        BY <3>1, <4>1
    <3>3. Cardinality(Adding(a)') <= 1 /\ Cardinality(Adding(a)') \in Nat
      <4>1. IsFiniteSet({ch}) /\ Cardinality({ch}) = 1
        BY FS_Singleton
      <4> HIDE DEF Adding
      <4> QED
        BY <3>2, <4>1, Smaller
    <3>4. Cardinality(Keys(a)) < MaxPasskeys /\ Cardinality(Keys(a)) \in Nat
      BY <2>1, <2>3, Finite DEF UnderPasskeyQuota
    <3> HIDE DEF Adding, Keys
    <3> QED
      BY <2>2, <3>3, <3>4, LimitAssumption
  <2>4. CASE a # b
    <3>1. Adding(a)' \subseteq Adding(a)
      BY <2>1, <2>4, TypeParts
    <3> QED
      BY <2>1, <2>2, <3>1
  <2> QED
    BY <2>3, <2>4
<1>23. ASSUME NEW ch \in Ceremony, NEW k \in Passkey, StartLogin(ch, k) PROVE ((a \in accounts /\ Keys(a)' \subseteq Keys(a) /\ Adding(a)' \subseteq Adding(a)) \/ Cardinality(Keys(a)') + Cardinality(Adding(a)') <= MaxPasskeys)
  <2>1. a \in accounts /\ Keys(a)' \subseteq Keys(a)
    BY <1>23, Names, TypeParts DEF StartLogin, Issue, NoCeremony
  <2>2. Adding(a)' \subseteq Adding(a)
    BY <1>23, Names, TypeParts DEF StartLogin, Issue, NoCeremony
  <2> QED
    BY <2>1, <2>2
<1>24. ASSUME NEW m \in {"invite", "open", "closed"}, Deploy(m) PROVE ((a \in accounts /\ Keys(a)' \subseteq Keys(a) /\ Adding(a)' \subseteq Adding(a)) \/ Cardinality(Keys(a)') + Cardinality(Adding(a)') <= MaxPasskeys)
  <2>1. a \in accounts /\ Keys(a)' \subseteq Keys(a)
    BY <1>24, Names, TypeParts DEF Deploy
  <2>2. Adding(a)' \subseteq Adding(a)
    BY <1>24, Names, TypeParts DEF Deploy
  <2> QED
    BY <2>1, <2>2
<1>25. ASSUME NEW b \in accounts, NEW s \in Account, EndSession(b, s) PROVE ((a \in accounts /\ Keys(a)' \subseteq Keys(a) /\ Adding(a)' \subseteq Adding(a)) \/ Cardinality(Keys(a)') + Cardinality(Adding(a)') <= MaxPasskeys)
  <2>1. a \in accounts /\ Keys(a)' \subseteq Keys(a)
    BY <1>25, Names, TypeParts DEF EndSession
  <2>2. Adding(a)' \subseteq Adding(a)
    BY <1>25, Names, TypeParts DEF EndSession
  <2> QED
    BY <2>1, <2>2
<1>26. ASSUME UNCHANGED vars PROVE ((a \in accounts /\ Keys(a)' \subseteq Keys(a) /\ Adding(a)' \subseteq Adding(a)) \/ Cardinality(Keys(a)') + Cardinality(Adding(a)') <= MaxPasskeys)
  BY <1>26 DEF vars
<1> QED
  BY <1>1, <1>2, <1>3, <1>4, <1>5, <1>6, <1>7, <1>8, <1>9, <1>10, <1>11, <1>12, <1>13, <1>14, <1>15, <1>16, <1>17, <1>18, <1>19, <1>20, <1>21, <1>22, <1>23, <1>24, <1>25, <1>26 DEF Next, Request

\* Every step keeps the passkey quota of an account that was never crowded.
LEMMA KeysStep ==
  ASSUME IInv, Offered, KeysKept, [Next]_vars
  PROVE  KeysKept'
<1> SUFFICES ASSUME NEW a \in accounts', a \notin crowded'
             PROVE  Cardinality(Keys(a)') + Cardinality(Adding(a)') <= MaxPasskeys
  BY DEF KeysKept
<1>1. CASE a \in accounts /\ Keys(a)' \subseteq Keys(a) /\ Adding(a)' \subseteq Adding(a)
  <2>1. IsFiniteSet(Keys(a)) /\ IsFiniteSet(Adding(a))
    BY Finite DEF Keys, Adding
  <2>2. Cardinality(Keys(a)') <= Cardinality(Keys(a)) /\ Cardinality(Keys(a)) \in Nat
        /\ Cardinality(Keys(a)') \in Nat
    BY <1>1, <2>1, Smaller
  <2>3. Cardinality(Adding(a)') <= Cardinality(Adding(a)) /\ Cardinality(Adding(a)) \in Nat
        /\ Cardinality(Adding(a)') \in Nat
    BY <1>1, <2>1, Smaller
  <2>4. a \notin crowded
    BY CrowdedGrows
  <2> QED
    BY <1>1, <2>2, <2>3, <2>4, LimitAssumption DEF KeysKept
<1> QED
  BY <1>1, KeysShrinkOrFit

-----------------------------------------------------------------------------
\* The quotas are exceeded by overlap and no more (sessions.ts:177,
\* webauthn.ts:228, webauthn.ts:445).
THEOREM QuotasAreBounded == Spec => []QuotasHold
<1> DEFINE J == (\A a \in Account : Roomy(a)) /\ CapKept /\ Offered /\ KeysKept
<1>1. Init => J
  <2> SUFFICES ASSUME Init PROVE J
    OBVIOUS
  <2>1. ASSUME NEW a \in Account PROVE Roomy(a)
    <3>1. Counted(a) = {} /\ active[a] \in {<<>>, <<Founder>>}
      BY DEF Init, Counted
    <3>2. Len(active[a]) \in {0, 1} /\ Cardinality(Counted(a)) = 0
      BY <3>1, FS_EmptySet
    <3>3. Cardinality(Client) \in Nat /\ Cardinality(Client) >= 1
      BY Finite
    <3>4. MaxSessions \in Nat /\ MaxSessions >= 1
      BY LimitAssumption
    <3>5. \A n \in {0, 1} : n + 0 <= MaxSessions - 1 + Cardinality(Client)
      BY <3>3, <3>4
    <3>6. Len(active[a]) + Cardinality(Counted(a)) <= MaxSessions - 1 + Cardinality(Client)
      BY <3>2, <3>5
    <3> QED
      BY <3>6 DEF Roomy
  <2>2. CapKept
    BY CapInit
  <2>3. Offered
    BY DEF Init, Offered, NoCeremony
  <2>4. KeysKept
    <3>1. Keys(Founder) = {FirstKey} /\ Adding(Founder) = {}
      BY PasskeyAssumption DEF Init, Keys, Adding, NoCeremony, Founder
    <3>2. accounts = {Founder}
      BY DEF Init
    <3> QED
      BY <3>1, <3>2, FS_EmptySet, FS_Singleton, LimitAssumption DEF KeysKept
  <2> QED
    BY <2>1, <2>2, <2>3, <2>4
<1>2. IInv /\ J /\ [Next]_vars => J'
  BY RoomyStep, CapStep, OfferedStep, KeysStep
<1>3. IInv /\ J => QuotasHold
  <2> SUFFICES ASSUME IInv, J PROVE QuotasHold
    OBVIOUS
  <2>1. SessionBound
    <3> SUFFICES ASSUME NEW a \in Account
                 PROVE  Len(active[a]) <= MaxSessions - 1 + Cardinality(Client)
      BY DEF SessionBound
    <3>1. Counted(a) \subseteq Client /\ active[a] \in Seq(Account)
      BY TypeParts DEF Counted, IInv, SessionTypes
    <3>2. Cardinality(Counted(a)) \in Nat /\ Len(active[a]) \in Nat
      BY <3>1, Finite, LenProperties
    <3>3. Cardinality(Client) \in Nat /\ Cardinality(Client) >= 1
      BY Finite
    <3>4. MaxSessions \in Nat /\ MaxSessions >= 1
      BY LimitAssumption
    <3> QED
      BY <3>2, <3>3, <3>4 DEF Roomy
  <2>2. AccountCapUnlessRaced
    <3>1. Uninvited \subseteq Account /\ Opening \subseteq Client
      BY TypeParts DEF Uninvited, Opening, IInv, TableTypes
    <3>2. Cardinality(Uninvited) \in Nat /\ Cardinality(Opening) \in Nat
      BY <3>1, Finite
    <3> QED
      BY <3>2, LimitAssumption DEF CapKept, AccountCapUnlessRaced
  <2>3. PasskeyQuotaUnlessCrowded
    <3> SUFFICES ASSUME NEW a \in accounts \ crowded
                 PROVE  Cardinality(Keys(a)) <= MaxPasskeys
      BY DEF PasskeyQuotaUnlessCrowded
    <3>1. Keys(a) \subseteq Passkey /\ Adding(a) \subseteq Ceremony
      BY DEF Keys, Adding
    <3>2. Cardinality(Keys(a)) \in Nat /\ Cardinality(Adding(a)) \in Nat
      BY <3>1, Finite
    <3> QED
      BY <3>2, LimitAssumption DEF KeysKept
  <2> QED
    BY <2>1, <2>2, <2>3 DEF QuotasHold
<1> QED
  BY <1>1, <1>2, <1>3, Invariance, PTL DEF Spec

\* The race of open registrations for the last places (AccountCapHolds fails) is
\* bounded by the requests in progress, whatever the ceremonies begun before:
\* the count repeated at verify is what bounds it (webauthn.ts:440-447).
THEOREM RacesForPlacesAreBounded == Spec => []AccountBound
<1>1. Init => CapKept
  BY CapInit
<1>2. IInv /\ CapKept /\ [Next]_vars => CapKept'
  BY CapStep
<1>3. IInv /\ CapKept => AccountBound
  <2> SUFFICES ASSUME IInv, CapKept PROVE AccountBound
    OBVIOUS
  <2>1. Uninvited \subseteq Account /\ Opening \subseteq Client
    BY TypeParts DEF Uninvited, Opening, IInv, TableTypes
  <2>2. Cardinality(Uninvited) \in Nat /\ Cardinality(Opening) \in Nat
    BY <2>1, Finite
  <2> QED
    BY <2>2, Finite, LimitAssumption DEF CapKept, AccountBound
<1> QED
  BY <1>1, <1>2, <1>3, Invariance, PTL DEF Spec
=============================================================================
