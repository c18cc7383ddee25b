-------------------------- MODULE OAuthTokensProofs --------------------------
(***************************************************************************)
(* Theorems about OAuthTokens, for every set of users, clients, instances  *)
(* and concurrent requests, every lifetime and every bound.                *)
(***************************************************************************)
EXTENDS OAuthTokens, TLAPS

-----------------------------------------------------------------------------
(* Type correctness.                                                       *)

\* What a full replay memory forgets, it only forgets: nothing appears in it
\* but the new rotation.
LEMMA RememberOnlyAdds ==
  ASSUME NEW memory, NEW entry, NEW now
  PROVE  RememberRotation(memory, entry, now) \subseteq memory \cup {entry}
BY DEF RememberRotation

\* The part of TypeOK about requests.
RequestsOK ==
  /\ pc \in [Reqs -> Steps]
  /\ job \in [Reqs -> Job]
  /\ \A r \in Reqs : Carries(job[r], pc[r])

\* A request that moves to a step with what the step needs leaves every
\* request in order.
LEMMA OneRequestMoves ==
  ASSUME RequestsOK, NEW r \in Reqs, NEW s \in Steps, NEW j \in Job, Carries(j, s),
         pc' = [pc EXCEPT ![r] = s], job' = [job EXCEPT ![r] = j]
  PROVE  RequestsOK'
BY DEF RequestsOK

\* So does one that ends.
LEMMA OneRequestEnds ==
  ASSUME RequestsOK, NEW r \in Reqs, Finish(r)
  PROVE  RequestsOK'
<1>1. NoJob \in Job
  BY DEF NoJob, Job
<1>2. "idle" \in Steps /\ Carries(NoJob, "idle")
  BY DEF Steps, Carries, Minting
<1> QED BY <1>1, <1>2, OneRequestMoves DEF Finish

\* Steps that change no request.
LEMMA NoRequestMoves ==
  ASSUME RequestsOK, UNCHANGED <<pc, job>>
  PROVE  RequestsOK'
BY DEF RequestsOK

\* What a step finds in the job of the request it continues.
LEMMA JobFields ==
  ASSUME RequestsOK, NEW r \in Reqs
  PROVE  /\ job[r] \in Job
         /\ pc[r] \in Minting => /\ job[r].client \in Clients
                                 /\ job[r].user \in Users
                                 /\ {job[r].family, job[r].access, job[r].refresh} \subseteq Ids
                                 /\ job[r].old \in Ids \cup {0}
                                 /\ job[r].now \in Nat
         /\ pc[r] = "rotate" => job[r].old \in Ids
         /\ pc[r] = "missed" => job[r].client \in Clients
         /\ pc[r] \in {"loggingOut", "reuseDetected"} => job[r].family \in Ids
         /\ pc[r] \in {"recordUser", "deleteRow"} => job[r].user \in Users
BY DEF RequestsOK, Carries, Job, Minting

\* The requests are in order after every step.
LEMMA RequestsStep == TypeOK /\ [Next]_vars => RequestsOK'
<1> SUFFICES ASSUME TypeOK, [Next]_vars PROVE RequestsOK'
  OBVIOUS
<1>0. RequestsOK
  BY DEF TypeOK, RequestsOK
<1>1. ASSUME NEW r \in Reqs, NEW u \in Users, NEW c \in Clients, Approve(r, u, c)
      PROVE  RequestsOK'
  <2> DEFINE j == [NoJob EXCEPT !.user = u]
  <2>1. j \in Job /\ Carries(j, "recordUser")
    BY ConstantsAssumption DEF Job, NoJob, Carries, Minting
  <2> QED BY <1>0, <1>1, <2>1, OneRequestMoves DEF Approve, Goto, Steps
<1>2. ASSUME NEW r \in Reqs, NEW c \in Clients, NEW k \in codes, ExchangeCode(r, c, k)
      PROVE  RequestsOK'
  <2> DEFINE j == [client |-> c, user |-> k.user, family |-> lastId + 1, old |-> 0,
                   access |-> lastId + 2, refresh |-> lastId + 3, now |-> clock]
  <2>1. j \in Job /\ Carries(j, "putAccess")
    BY <1>2, ConstantsAssumption
    DEF TypeOK, ExchangeCode, AuthCode, Job, Ids, Carries, Minting
  <2> QED BY <1>0, <1>2, <2>1, OneRequestMoves DEF ExchangeCode, Goto, Steps
<1>3. ASSUME NEW r \in Reqs, NEW c \in Clients, NEW h \in held, Refresh(r, c, h.id)
      PROVE  RequestsOK'
  <2>1. PICK t \in GetToken(h.id, "refresh") :
          job' = [job EXCEPT ![r] =
            [client |-> c, user |-> t.user, family |-> t.family, old |-> h.id,
             access |-> lastId + 1, refresh |-> lastId + 2, now |-> clock]]
    BY <1>3 DEF Refresh
  <2> DEFINE j == [client |-> c, user |-> t.user, family |-> t.family, old |-> h.id,
                   access |-> lastId + 1, refresh |-> lastId + 2, now |-> clock]
  <2>2. t \in TokenRecord /\ h.id \in Ids
    BY DEF TypeOK, GetToken, Delivery
  <2>3. j \in Job /\ Carries(j, "putAccess")
    BY <1>3, <2>2, ConstantsAssumption
    DEF TypeOK, Refresh, TokenRecord, Job, Ids, Carries, Minting
  <2> QED BY <1>0, <1>3, <2>1, <2>3, OneRequestMoves DEF Refresh, Goto, Steps
<1>4. ASSUME NEW r \in Reqs, NEW c \in Clients, NEW h \in held, RefreshMisses(r, c, h.id)
      PROVE  RequestsOK'
  <2> DEFINE j == [NoJob EXCEPT !.client = c, !.old = h.id, !.now = clock]
  <2>1. j \in Job /\ Carries(j, "missed")
    BY ConstantsAssumption DEF TypeOK, Delivery, Job, NoJob, Ids, Carries, Minting
  <2> QED BY <1>0, <1>4, <2>1, OneRequestMoves DEF RefreshMisses, Goto, Steps
<1>5. ASSUME NEW r \in Reqs, NEW c \in Clients, NEW h \in held, Revoke(r, c, h.id, h.kind)
      PROVE  RequestsOK'
  <2>1. CASE \E t \in GetTokenAny(h.id, h.kind) :
               /\ job' = [job EXCEPT ![r] = [NoJob EXCEPT !.client = c, !.family = t.family]]
               /\ Goto(r, "loggingOut")
    <3> PICK t \in GetTokenAny(h.id, h.kind) :
               /\ job' = [job EXCEPT ![r] = [NoJob EXCEPT !.client = c, !.family = t.family]]
               /\ Goto(r, "loggingOut")
      BY <2>1
    <3> DEFINE j == [NoJob EXCEPT !.client = c, !.family = t.family]
    <3>1. t \in TokenRecord
      BY DEF TypeOK, GetTokenAny
    <3>2. j \in Job /\ Carries(j, "loggingOut")
      BY <3>1, ConstantsAssumption DEF Job, NoJob, TokenRecord, Carries, Minting
    <3> QED BY <1>0, <3>2, OneRequestMoves DEF Goto, Steps
  <2>2. CASE /\ job' = [job EXCEPT ![r] = [NoJob EXCEPT !.client = c, !.old = h.id]]
             /\ Goto(r, "revokeToken")
    <3> DEFINE j == [NoJob EXCEPT !.client = c, !.old = h.id]
    <3>1. j \in Job /\ Carries(j, "revokeToken")
      BY ConstantsAssumption DEF TypeOK, Delivery, Job, NoJob, Ids, Carries, Minting
    <3> QED BY <1>0, <2>2, <3>1, OneRequestMoves DEF Goto, Steps
  <2> QED BY <1>5, <2>1, <2>2 DEF Revoke
<1>6. ASSUME NEW r \in Reqs, NEW u \in Users, DeleteAccount(r, u)
      PROVE  RequestsOK'
  <2> DEFINE j == [NoJob EXCEPT !.user = u]
  <2>1. j \in Job /\ Carries(j, "deleteRow")
    BY ConstantsAssumption DEF Job, NoJob, Carries, Minting
  <2> QED BY <1>0, <1>6, <2>1, OneRequestMoves DEF DeleteAccount, Goto, Steps
<1>7. ASSUME NEW r \in Reqs, PutAccess(r) \/ PutRefresh(r) \/ Rotate(r)
      PROVE  RequestsOK'
  <2>1. job'[r] = job[r] /\ job' = [job EXCEPT ![r] = job[r]] /\ job[r] \in Job
    BY <1>0, <1>7 DEF RequestsOK, PutAccess, PutRefresh, Rotate
  <2>2. /\ pc[r] = "putAccess" => Carries(job[r], "putRefresh")
        /\ pc[r] = "putRefresh" => /\ Carries(job[r], "answer")
                                   /\ job[r].old # 0 => Carries(job[r], "rotate")
        /\ pc[r] = "rotate" => Carries(job[r], "answer")
    BY <1>0, <2>1 DEF RequestsOK, Carries, Minting, Job
  <2> QED BY <1>0, <1>7, <2>1, <2>2, OneRequestMoves
          DEF PutAccess, PutRefresh, Rotate, Goto, Steps
<1>8. ASSUME NEW r \in Reqs, TakeReplay(r)
      PROVE  RequestsOK'
  <2>1. CASE Finish(r)
    BY <1>0, <2>1, OneRequestEnds
  <2>2. CASE Goto(r, "reuse") /\ UNCHANGED job
    <3>1. job' = [job EXCEPT ![r] = job[r]] /\ job[r] \in Job
      BY <1>0, <2>2 DEF RequestsOK
    <3>2. Carries(job[r], "reuse")
      BY <1>0, <1>8 DEF RequestsOK, TakeReplay, Carries, Minting
    <3> QED BY <1>0, <2>2, <3>1, <3>2, OneRequestMoves DEF Goto, Steps
  <2> QED BY <1>8, <2>1, <2>2 DEF TakeReplay
<1>9. ASSUME NEW r \in Reqs, DetectReuse(r)
      PROVE  RequestsOK'
  <2>1. CASE Finish(r)
    BY <1>0, <2>1, OneRequestEnds
  <2>2. CASE \E t \in GetTokenAny(job[r].old, "refresh") :
               job' = [job EXCEPT ![r].family = t.family] /\ Goto(r, "reuseDetected")
    <3> PICK t \in GetTokenAny(job[r].old, "refresh") :
               job' = [job EXCEPT ![r].family = t.family] /\ Goto(r, "reuseDetected")
      BY <2>2
    <3> DEFINE j == [job[r] EXCEPT !.family = t.family]
    <3>1. t \in TokenRecord
      BY DEF TypeOK, GetTokenAny
    <3>2. j \in Job /\ Carries(j, "reuseDetected")
      BY <1>0, <3>1 DEF RequestsOK, Job, TokenRecord, Carries, Minting
    <3> QED BY <1>0, <3>2, OneRequestMoves DEF Goto, Steps
  <2> QED BY <1>9, <2>1, <2>2 DEF DetectReuse
<1>10. ASSUME NEW r \in Reqs, RecordUser(r) \/ Answer(r) \/ EndFamily(r) \/ EndToken(r)
                                \/ DeleteRow(r) \/ Abort(r)
       PROVE  RequestsOK'
  BY <1>0, <1>10, OneRequestEnds
  DEF RecordUser, Answer, EndFamily, EndToken, DeleteRow, Abort
<1>11. ASSUME NEW i \in Instances, Restart(i)
       PROVE  RequestsOK'
  BY <1>0, <1>11 DEF Restart, RequestsOK, NoJob, Job, Steps, Carries, Minting
<1>12. CASE UNCHANGED <<pc, job>>
  BY <1>0, <1>12, NoRequestMoves
<1> QED
  BY <1>1, <1>2, <1>3, <1>4, <1>5, <1>6, <1>7, <1>8, <1>9, <1>10, <1>11, <1>12
  DEF Next, TokenRequest, AccountRequest, Continue, RefuseCode, PurgeExpired, Tick, vars


\* The tables, the memories and the history keep their types. Only the steps
\* that add to them have anything to show.
LEMMA TypeStep == TypeOK /\ [Next]_vars => TypeOK'
<1> SUFFICES ASSUME TypeOK, [Next]_vars PROVE TypeOK'
  OBVIOUS
<1>0. RequestsOK /\ RequestsOK'
  BY RequestsStep DEF TypeOK, RequestsOK
<1> USE DEF store, history
<1>1. ASSUME NEW r \in Reqs, NEW u \in Users, NEW c \in Clients, Approve(r, u, c)
      PROVE  TypeOK'
  <2>1. [id |-> lastId + 1, client |-> c, user |-> u, expires |-> clock + CodeTTL]
          \in AuthCode
    BY <1>1, ConstantsAssumption DEF TypeOK, Approve, AuthCode, Ids
  <2> QED BY <1>0, <1>1, <2>1, ConstantsAssumption DEF TypeOK, RequestsOK, Approve
<1>2. ASSUME NEW r \in Reqs, NEW c \in Clients, NEW k \in codes, ExchangeCode(r, c, k)
      PROVE  TypeOK'
  <2>1. k.id \in Ids /\ lastId + 1 \in Ids
    BY <1>2, ConstantsAssumption DEF TypeOK, ExchangeCode, AuthCode, Ids
  <2> QED BY <1>0, <1>2, <2>1, ConstantsAssumption
          DEF TypeOK, RequestsOK, ExchangeCode, ConsumeCode
<1>3. ASSUME NEW r \in Reqs, NEW c \in Clients, NEW h \in held,
             \/ Refresh(r, c, h.id)
             \/ RefreshMisses(r, c, h.id)
             \/ Revoke(r, c, h.id, h.kind)
      PROVE  TypeOK'
  <2>1. CASE Refresh(r, c, h.id)
    <3>1. lastId' \in 0 .. MaxId
      BY <2>1, ConstantsAssumption DEF TypeOK, Refresh
    <3>2. UNCHANGED <<clock, store, replay, held, history>>
      BY <2>1 DEF Refresh
    <3> QED BY <1>0, <3>1, <3>2 DEF TypeOK, RequestsOK
  <2>2. CASE RefreshMisses(r, c, h.id) \/ Revoke(r, c, h.id, h.kind)
    <3>1. UNCHANGED <<clock, lastId, store, replay, held, history>>
      BY <2>2 DEF RefreshMisses, Revoke
    <3> QED BY <1>0, <3>1 DEF TypeOK, RequestsOK
  <2> QED BY <1>3, <2>1, <2>2
<1>4. ASSUME NEW r \in Reqs, NEW u \in Users, DeleteAccount(r, u)
      PROVE  TypeOK'
  BY <1>0, <1>4 DEF TypeOK, RequestsOK, DeleteAccount, RevokeForUser
<1>5. ASSUME NEW r \in Reqs, RecordUser(r) \/ DeleteRow(r) PROVE TypeOK'
  <2>1. job[r].user \in Users
    BY <1>0, <1>5, JobFields DEF RecordUser, DeleteRow
  <2> QED BY <1>0, <1>5, <2>1 DEF TypeOK, RequestsOK, RecordUser, DeleteRow, AuthCode
<1>6. ASSUME NEW r \in Reqs, PutAccess(r) \/ PutRefresh(r) PROVE TypeOK'
  <2>1. pc[r] \in Minting
    BY <1>6 DEF PutAccess, PutRefresh, Minting
  <2>2. /\ Minted(job[r], "access", job[r].access, AccessTTL) \in TokenRecord
        /\ Minted(job[r], "refresh", job[r].refresh, RefreshTTL) \in TokenRecord
    BY <1>0, <2>1, JobFields, ConstantsAssumption DEF Minted, TokenRecord
  <2> QED BY <1>0, <1>6, <2>2 DEF TypeOK, RequestsOK, PutAccess, PutRefresh
<1>7. ASSUME NEW r \in Reqs, Rotate(r) PROVE TypeOK'
  <2>1. \A t \in TokenRecord : [t EXCEPT !.revoked = TRUE] \in TokenRecord
    BY DEF TokenRecord
  <2> QED BY <1>0, <1>7, <2>1 DEF TypeOK, RequestsOK, Rotate, RotateToken
<1>8. ASSUME NEW r \in Reqs, Answer(r) PROVE TypeOK'
  <2>1. pc[r] \in Minting
    BY <1>8 DEF Answer, Minting
  <2>2. held' \subseteq Delivery
    BY <1>0, <1>8, <2>1, JobFields DEF TypeOK, Answer, Deliver, Delivery
  <2>3. replay' \in [Instances -> SUBSET Rotation]
    <3> DEFINE entry == [id |-> job[r].old, deadline |-> job[r].now + Grace,
                         client |-> job[r].client, access |-> job[r].access,
                         refresh |-> job[r].refresh]
    <3>1. job[r].old # 0 => entry \in Rotation
      BY <1>0, <2>1, JobFields, ConstantsAssumption DEF Rotation
    <3>2. \A i \in Instances : RememberRotation(replay[i], entry, job[r].now)
                                 \subseteq replay[i] \cup {entry}
      BY RememberOnlyAdds
    <3> QED BY <1>8, <3>1, <3>2, ConstantsAssumption DEF TypeOK, Answer
  <2> QED BY <1>0, <1>8, <2>2, <2>3 DEF TypeOK, RequestsOK, Answer
<1>9. ASSUME NEW r \in Reqs, TakeReplay(r) PROVE TypeOK'
  <2>1. job[r].client \in Clients
    BY <1>0, <1>9, JobFields DEF TakeReplay
  <2>2. held' \subseteq Delivery
    BY <1>9, <2>1, ConstantsAssumption
    DEF TypeOK, TakeReplay, Replayable, Deliver, Delivery, Rotation
  <2> QED BY <1>0, <1>9, <2>2 DEF TypeOK, RequestsOK, TakeReplay
<1>10. ASSUME NEW r \in Reqs, EndFamily(r) PROVE TypeOK'
  BY <1>0, <1>10, JobFields DEF TypeOK, RequestsOK, EndFamily, RevokeFamily
<1>11. ASSUME NEW r \in Reqs, DetectReuse(r) \/ EndToken(r) \/ Abort(r) PROVE TypeOK'
  BY <1>0, <1>11 DEF TypeOK, RequestsOK, DetectReuse, EndToken, Abort
<1>12. ASSUME NEW k \in codes, RefuseCode(k) PROVE TypeOK'
  BY <1>0, <1>12 DEF TypeOK, RequestsOK, RefuseCode, ConsumeCode
<1>13. ASSUME NEW i \in Instances, Restart(i) PROVE TypeOK'
  BY <1>0, <1>13 DEF TypeOK, RequestsOK, Restart
<1>14. CASE PurgeExpired \/ Tick \/ UNCHANGED vars
  BY <1>0, <1>14 DEF TypeOK, RequestsOK, PurgeExpired, Tick, vars
<1> QED
  BY <1>1, <1>2, <1>3, <1>4, <1>5, <1>6, <1>7, <1>8, <1>9, <1>10, <1>11, <1>12, <1>13,
     <1>14
  DEF Next, TokenRequest, AccountRequest, Continue

\* Every variable keeps its type: in particular every request carries what
\* its next step uses, whichever requests ran, died or restarted before it.
THEOREM TypeCorrect == Spec => []TypeOK
<1>1. Init => TypeOK
  BY ConstantsAssumption
  DEF Init, TypeOK, NoJob, Job, Steps, Carries, Minting
<1>2. TypeOK /\ [Next]_vars => TypeOK'
  BY TypeStep
<1> QED BY <1>1, <1>2, PTL DEF Spec


-----------------------------------------------------------------------------
(* The inductive invariant.                                                *)

Pair(r) == {job[r].access, job[r].refresh}

\* Everything minted so far is at most lastId, so the next value is new.
MintedSoFar ==
  /\ \A k \in consents : k.id <= lastId
  /\ \A t \in tokens : t.id <= lastId
  /\ \A g \in grants : g.family <= lastId
  /\ \A h \in held : h.id <= lastId
  /\ \A r \in Reqs : job[r].old <= lastId /\ job[r].access <= lastId /\ job[r].refresh <= lastId
  /\ \A i \in Instances : \A e \in replay[i] :
       e.id <= lastId /\ e.access <= lastId /\ e.refresh <= lastId

\* What users approved, and what became of it.
Approvals ==
  /\ codes \subseteq consents
  /\ \A k, l \in consents : k.id = l.id => k = l
  /\ \A g, h \in grants : g.family = h.family => g = h
  /\ \A g \in grants : \E k \in consents : g.code = k.id
  /\ CodeSingleUse

\* Family f was started by an approval of client c by user u.
Approved(f, c, u) ==
  \E g \in grants, k \in consents :
    g.family = f /\ g.code = k.id /\ c = k.client /\ u = k.user

JobsApproved ==
  \A r \in Reqs : pc[r] \in Minting =>
    /\ Approved(job[r].family, job[r].client, job[r].user)
    /\ job[r].access # job[r].refresh
    /\ job[r].now <= clock

TokensUnique == \A s, t \in tokens : s.id = t.id => s = t

\* A pair in the making is known to nobody: no client holds it, no request
\* presents it, no memory offers it and no other request is making it.
PairsPrivate ==
  \A r \in Reqs : pc[r] \in Minting =>
    /\ \A h \in held : h.id \notin Pair(r)
    /\ \A q \in Reqs : job[q].old \notin Pair(r)
    /\ \A q \in Reqs : q # r /\ pc[q] \in Minting => Pair(q) \cap Pair(r) = {}
    /\ \A i \in Instances : \A e \in replay[i] :
         {e.id, e.access, e.refresh} \cap Pair(r) = {}

\* The rows of a pair in the making: not there before their INSERT, and
\* carrying what the request carries after it.
PairsStored ==
  \A r \in Reqs, t \in tokens :
    /\ pc[r] = "putAccess" => t.id \notin Pair(r)
    /\ pc[r] = "putRefresh" => t.id # job[r].refresh
    /\ pc[r] \in Minting /\ t.id \in Pair(r) =>
         t.family = job[r].family /\ t.client = job[r].client
    /\ pc[r] \in Minting /\ t.id = job[r].access => t.kind = "access"
    /\ pc[r] \in Minting /\ t.id = job[r].refresh => t.kind = "refresh"

\* What clients were given is what the table says they were given.
HeldMatches ==
  \A h \in held, t \in tokens : t.id = h.id => t.kind = h.kind /\ t.client = h.client

ReplayMatches ==
  \A i \in Instances : \A e \in replay[i], t \in tokens :
    /\ t.id = e.access => t.kind = "access" /\ t.client = e.client
    /\ t.id = e.refresh => t.kind = "refresh" /\ t.client = e.client

\* No refresh token lives longer than one issued now would.
LifetimeBounded == \A t \in tokens : t.kind = "refresh" => t.expires <= clock + RefreshTTL

\* s can take the place of o.
Succeeds(s, o) ==
  s.kind = "refresh" /\ ~s.revoked /\ s.family = o.family /\ s.expires >= o.expires

\* A request is about to rotate a token only with its successor in the table.
RotationPrepared ==
  \A r \in Reqs, o \in tokens :
    /\ pc[r] \in {"putAccess", "putRefresh", "rotate"} /\ o.id = job[r].old =>
         /\ o.kind = "refresh"
         /\ o.family = job[r].family
         /\ o.expires <= job[r].now + RefreshTTL
    /\ pc[r] = "rotate" /\ o.id = job[r].old =>
         \E s \in tokens : s.id = job[r].refresh /\ Succeeds(s, o)
    /\ pc[r] = "answer" /\ o.id = job[r].old =>
         o.revoked /\ o.family = job[r].family

\* revoke_token only ever deletes an access token.
RevokesAccessOnly ==
  \A r \in Reqs, t \in tokens :
    pc[r] = "revokeToken" /\ t.id = job[r].old => t.kind = "access"

IInv ==
  /\ MintedSoFar /\ Approvals /\ JobsApproved /\ Provenance /\ TokensUnique
  /\ PairsPrivate /\ PairsStored /\ HeldMatches /\ ReplayMatches
  /\ LifetimeBounded /\ RotationPrepared /\ RevokesAccessOnly
  /\ NeverStranded /\ ReplayIsFaithful


-----------------------------------------------------------------------------
(* Steps that mint and store nothing.                                      *)

\* Rows and memories only go, no successor goes before the token it succeeds,
\* and a request that moves leaves the making of a pair.
Recedes ==
  /\ UNCHANGED <<lastId, held, consents, grants>>
  /\ clock' >= clock
  /\ codes' \subseteq codes
  /\ tokens' \subseteq tokens
  /\ \A o \in tokens', s \in tokens : Succeeds(s, o) => s \in tokens'
  /\ \A i \in Instances : replay'[i] \subseteq replay[i]
  /\ \A r \in Reqs :
       \/ pc'[r] = pc[r] /\ job'[r] = job[r]
       \/ /\ pc'[r] \notin Minting
          /\ job'[r].access \in {0, job[r].access}
          /\ job'[r].refresh \in {0, job[r].refresh}
          /\ \/ job'[r].old \in {0, job[r].old}
             \/ \E h \in held : job'[r].old = h.id
          /\ pc'[r] = "revokeToken" =>
               \A t \in tokens : t.id = job'[r].old => t.kind = "access"

\* Such a step keeps the invariant.
LEMMA RecedesKeeps ==
  ASSUME TypeOK, TypeOK', IInv, Recedes
  PROVE  IInv'
<1> USE DEF Recedes, IInv
<1>1. MintedSoFar'
  BY DEF MintedSoFar, TypeOK
<1>2. Approvals' /\ CodeSingleUse'
  BY DEF Approvals, CodeSingleUse
<1>3. JobsApproved'
  BY DEF JobsApproved, Approved, TypeOK, Job
<1>4. Provenance'
  BY DEF Provenance
<1>5. TokensUnique' /\ HeldMatches' /\ ReplayMatches'
  BY DEF TokensUnique, HeldMatches, ReplayMatches
<1>6. PairsPrivate'
  <2>1. ASSUME NEW r \in Reqs, pc'[r] \in Minting
        PROVE  pc[r] \in Minting /\ Pair(r)' = Pair(r)
    BY <2>1 DEF Pair
  <2>2. ASSUME NEW r \in Reqs, pc'[r] \in Minting, NEW q \in Reqs
        PROVE  job'[q].old \notin Pair(r)'
    <3>1. 0 \notin Pair(r)
      BY <2>1, <2>2 DEF TypeOK, Carries, Ids, Pair, Job
    <3> QED BY <2>1, <2>2, <3>1 DEF PairsPrivate
  <2>3. ASSUME NEW r \in Reqs, pc'[r] \in Minting, NEW q \in Reqs, q # r, pc'[q] \in Minting
        PROVE  (Pair(q) \cap Pair(r))' = {}
    BY <2>1, <2>3 DEF PairsPrivate
  <2>4. ASSUME NEW r \in Reqs, pc'[r] \in Minting, NEW i \in Instances, NEW e \in replay'[i]
        PROVE  {e.id, e.access, e.refresh} \cap Pair(r)' = {}
    BY <2>1, <2>4 DEF PairsPrivate
  <2>5. ASSUME NEW r \in Reqs, pc'[r] \in Minting, NEW h \in held'
        PROVE  h.id \notin Pair(r)'
    BY <2>1, <2>5 DEF PairsPrivate
  <2> QED BY <2>2, <2>3, <2>4, <2>5 DEF PairsPrivate
<1>7. PairsStored'
  BY DEF PairsStored, Pair, Minting
<1>8. LifetimeBounded'
  BY ConstantsAssumption DEF LifetimeBounded, TypeOK, TokenRecord
<1>9. RotationPrepared'
  BY DEF RotationPrepared, Minting, Succeeds
<1>10. RevokesAccessOnly'
  BY DEF RevokesAccessOnly
<1>11. NeverStranded'
  BY DEF NeverStranded, Succeeds
<1>12. ReplayIsFaithful'
  BY DEF ReplayIsFaithful
<1> QED BY <1>1, <1>2, <1>3, <1>4, <1>5, <1>6, <1>7, <1>8, <1>9, <1>10, <1>11, <1>12


\* All tokens of a family are the same user's.
LEMMA FamilyHasOneUser ==
  ASSUME IInv, NEW s \in tokens, NEW t \in tokens, s.family = t.family
  PROVE  s.user = t.user
BY DEF IInv, Provenance, Approvals

\* The steps that recede: requests that read, delete, fail or die, and the
\* environment.
LEMMA RecedingSteps ==
  ASSUME TypeOK, IInv,
         \/ \E r \in Reqs :
              \/ RecordUser(r) \/ DetectReuse(r) \/ EndFamily(r) \/ EndToken(r)
              \/ DeleteRow(r) \/ Abort(r)
              \/ TakeReplay(r) /\ UNCHANGED held
              \/ \E u \in Users : DeleteAccount(r, u)
              \/ \E c \in Clients, h \in held :
                   RefreshMisses(r, c, h.id) \/ Revoke(r, c, h.id, h.kind)
         \/ \E k \in codes : RefuseCode(k)
         \/ \E i \in Instances : Restart(i)
         \/ PurgeExpired \/ Tick \/ UNCHANGED vars
  PROVE  Recedes
<1> USE DEF Recedes, store, history
<1>1. ASSUME NEW r \in Reqs,
             RecordUser(r) \/ DeleteRow(r) \/ Abort(r)
      PROVE  Recedes
  BY <1>1 DEF TypeOK, RecordUser, DeleteRow, Abort, Finish, NoJob, Minting
<1>2. ASSUME NEW r \in Reqs, DetectReuse(r)
      PROVE  Recedes
  <2>1. \A q \in Reqs : \/ pc'[q] = pc[q] /\ job'[q] = job[q]
                        \/ /\ pc'[q] \in {"idle", "reuseDetected"}
                           /\ job'[q].access \in {0, job[q].access}
                           /\ job'[q].refresh \in {0, job[q].refresh}
                           /\ job'[q].old \in {0, job[q].old}
    BY <1>2 DEF TypeOK, DetectReuse, Goto, Finish, NoJob, Job
  <2>2. UNCHANGED <<clock, lastId, held, consents, grants, codes, tokens, replay>>
    BY <1>2 DEF DetectReuse
  <2> QED BY <2>1, <2>2 DEF TypeOK, Minting
<1>3. ASSUME NEW r \in Reqs, TakeReplay(r), UNCHANGED held
      PROVE  Recedes
  <2>1. \A q \in Reqs : \/ pc'[q] = pc[q] /\ job'[q] = job[q]
                        \/ pc'[q] = "reuse" /\ job'[q] = job[q]
                        \/ pc'[q] = "idle" /\ job'[q] = NoJob
    BY <1>3 DEF TypeOK, TakeReplay, Goto, Finish
  <2>2. UNCHANGED <<clock, lastId, held, consents, grants, codes, tokens>>
    BY <1>3 DEF TakeReplay
  <2>3. \A i \in Instances : replay'[i] \subseteq replay[i]
    BY <1>3, ConstantsAssumption DEF TypeOK, TakeReplay
  <2> QED BY <2>1, <2>2, <2>3 DEF TypeOK, NoJob, Minting
<1>4. ASSUME NEW r \in Reqs, EndFamily(r)
      PROVE  Recedes
  <2>1. \A q \in Reqs : \/ pc'[q] = pc[q] /\ job'[q] = job[q]
                        \/ pc'[q] = "idle" /\ job'[q] = NoJob
    BY <1>4 DEF TypeOK, EndFamily, Finish
  <2>2. UNCHANGED <<clock, lastId, held, consents, grants, codes, replay>>
    BY <1>4 DEF EndFamily
  <2>3. tokens' = {t \in tokens : t.family # job[r].family}
    BY <1>4 DEF EndFamily, RevokeFamily
  <2> QED BY <2>1, <2>2, <2>3 DEF TypeOK, NoJob, Minting, Succeeds
<1>5. ASSUME NEW r \in Reqs, EndToken(r)
      PROVE  Recedes
  <2>1. \A q \in Reqs : \/ pc'[q] = pc[q] /\ job'[q] = job[q]
                        \/ pc'[q] = "idle" /\ job'[q] = NoJob
    BY <1>5 DEF TypeOK, EndToken, Finish
  <2>2. UNCHANGED <<clock, lastId, held, consents, grants, codes, replay>>
    BY <1>5 DEF EndToken
  <2>3. \A s \in tokens : s.kind = "refresh" => s \in tokens'
    BY <1>5 DEF IInv, RevokesAccessOnly, EndToken
  <2>4. tokens' \subseteq tokens
    BY <1>5 DEF EndToken
  <2> QED BY <2>1, <2>2, <2>3, <2>4 DEF TypeOK, NoJob, Minting, Succeeds
<1>6. ASSUME NEW r \in Reqs, NEW u \in Users, DeleteAccount(r, u)
      PROVE  Recedes
  <2>1. /\ UNCHANGED <<clock, lastId, held, consents, grants, codes, replay>>
        /\ pc' = [pc EXCEPT ![r] = "deleteRow"]
        /\ job' = [job EXCEPT ![r] = [NoJob EXCEPT !.user = u]]
    BY <1>6 DEF DeleteAccount, Goto
  <2>2. \A q \in Reqs : \/ pc'[q] = pc[q] /\ job'[q] = job[q]
                        \/ /\ pc'[q] = "deleteRow"
                           /\ job'[q].access = 0 /\ job'[q].refresh = 0 /\ job'[q].old = 0
    BY <2>1 DEF TypeOK, NoJob
  <2>3. /\ tokens' \subseteq tokens
        /\ \A o \in tokens', s \in tokens : Succeeds(s, o) => s \in tokens'
    BY <1>6, FamilyHasOneUser DEF DeleteAccount, RevokeForUser, Succeeds
  <2> QED BY <2>1, <2>2, <2>3 DEF TypeOK, Minting
<1>7. ASSUME NEW r \in Reqs, NEW c \in Clients, NEW h \in held, RefreshMisses(r, c, h.id)
      PROVE  Recedes
  <2>1. /\ UNCHANGED <<clock, lastId, held, consents, grants, codes, tokens, replay>>
        /\ pc' = [pc EXCEPT ![r] = "missed"]
        /\ job' = [job EXCEPT ![r] = [NoJob EXCEPT !.client = c, !.old = h.id, !.now = clock]]
    BY <1>7 DEF RefreshMisses, Goto
  <2>2. \A q \in Reqs : \/ pc'[q] = pc[q] /\ job'[q] = job[q]
                        \/ /\ pc'[q] = "missed"
                           /\ job'[q].access = 0 /\ job'[q].refresh = 0 /\ job'[q].old = h.id
    BY <2>1 DEF TypeOK, NoJob
  <2> QED BY <2>1, <2>2 DEF TypeOK, Minting
<1>8. ASSUME NEW r \in Reqs, NEW c \in Clients, NEW h \in held, Revoke(r, c, h.id, h.kind)
      PROVE  Recedes
  <2>1. UNCHANGED <<clock, lastId, held, consents, grants, codes, tokens, replay>>
    BY <1>8 DEF Revoke
  <2>2. CASE \E t \in GetTokenAny(h.id, h.kind) :
               /\ job' = [job EXCEPT ![r] = [NoJob EXCEPT !.client = c, !.family = t.family]]
               /\ Goto(r, "loggingOut")
    <3>1. \A q \in Reqs : \/ pc'[q] = pc[q] /\ job'[q] = job[q]
                          \/ /\ pc'[q] = "loggingOut"
                             /\ job'[q].access = 0 /\ job'[q].refresh = 0 /\ job'[q].old = 0
      BY <2>2 DEF TypeOK, NoJob, Goto
    <3> QED BY <2>1, <3>1 DEF TypeOK, Minting
  <2>3. CASE /\ job' = [job EXCEPT ![r] = [NoJob EXCEPT !.client = c, !.old = h.id]]
             /\ Goto(r, "revokeToken")
             /\ \A t \in GetTokenAny(h.id, h.kind) : h.kind = "access"
    <3>1. \A q \in Reqs : \/ pc'[q] = pc[q] /\ job'[q] = job[q]
                          \/ /\ pc'[q] = "revokeToken"
                             /\ job'[q].access = 0 /\ job'[q].refresh = 0 /\ job'[q].old = h.id
      BY <2>3 DEF TypeOK, NoJob, Goto
    <3>2. \A t \in tokens : t.id = h.id => t.kind = "access"
      BY <2>3 DEF IInv, HeldMatches, GetTokenAny
    <3> QED BY <2>1, <3>1, <3>2 DEF TypeOK, Minting
  <2> QED BY <1>8, <2>2, <2>3 DEF Revoke
<1>9. ASSUME NEW k \in codes, RefuseCode(k)
      PROVE  Recedes
  BY <1>9 DEF TypeOK, RefuseCode, ConsumeCode
<1>10. ASSUME NEW i \in Instances, Restart(i)
       PROVE  Recedes
  BY <1>10 DEF TypeOK, Restart, NoJob, Minting
<1>11. CASE PurgeExpired
  <2>1. tokens' = {t \in tokens : t.expires >= clock} /\ codes' \subseteq codes
    BY <1>11 DEF PurgeExpired
  <2>2. \A o \in tokens', s \in tokens : Succeeds(s, o) => s \in tokens'
    BY <2>1 DEF Succeeds, TypeOK, TokenRecord
  <2> QED BY <1>11, <2>1, <2>2 DEF TypeOK, PurgeExpired
<1>12. CASE Tick \/ UNCHANGED vars
  BY <1>12 DEF TypeOK, Tick, vars
<1> QED BY <1>1, <1>2, <1>3, <1>4, <1>5, <1>6, <1>7, <1>8, <1>9, <1>10, <1>11, <1>12


-----------------------------------------------------------------------------
(* Steps that mint, store, rotate or answer.                               *)

LEMMA ApproveKeeps ==
  ASSUME TypeOK, TypeOK', IInv, NEW r \in Reqs, NEW u \in Users, NEW c \in Clients,
         Approve(r, u, c)
  PROVE  IInv'
<1> DEFINE code == [id |-> lastId + 1, client |-> c, user |-> u,
                    expires |-> clock + CodeTTL]
<1>1. /\ codes' = codes \cup {code} /\ consents' = consents \cup {code}
      /\ lastId' = lastId + 1 /\ lastId \in Nat
      /\ UNCHANGED <<clock, tokens, replay, held, grants>>
  BY ConstantsAssumption DEF Approve, TypeOK
<1>2. \A q \in Reqs : \/ pc'[q] = pc[q] /\ job'[q] = job[q]
                      \/ /\ pc'[q] = "recordUser" /\ job'[q].old = 0
                         /\ job'[q].access = 0 /\ job'[q].refresh = 0
  BY DEF Approve, Goto, TypeOK, NoJob
<1>3. code.id = lastId + 1
  OBVIOUS
<1> HIDE DEF code
<1> USE DEF IInv
<1>4. MintedSoFar'
  <2>1. \A q \in Reqs : /\ job[q].old \in Nat /\ job[q].access \in Nat
                         /\ job[q].refresh \in Nat
    BY DEF TypeOK, Job, Ids
  <2>2. \A q \in Reqs : job'[q].old <= lastId' /\ job'[q].access <= lastId'
                         /\ job'[q].refresh <= lastId'
    BY <1>1, <1>2, <2>1 DEF MintedSoFar
  <2>3. \A k \in consents' : k.id <= lastId'
    BY <1>1, <1>3 DEF MintedSoFar, TypeOK, AuthCode, Ids
  <2>4. /\ \A t \in tokens : t.id <= lastId'
        /\ \A g \in grants : g.family <= lastId'
        /\ \A h \in held : h.id <= lastId'
    BY <1>1 DEF MintedSoFar, TypeOK, TokenRecord, Delivery, Ids
  <2>5. \A i \in Instances : \A e \in replay[i] :
          e.id <= lastId' /\ e.access <= lastId' /\ e.refresh <= lastId'
    BY <1>1 DEF MintedSoFar, TypeOK, Rotation, Ids
  <2> QED BY <1>1, <2>2, <2>3, <2>4, <2>5 DEF MintedSoFar
<1>5. Approvals'
  <2>1. \A k \in consents : k.id # code.id
    BY <1>1, <1>3 DEF MintedSoFar, TypeOK, AuthCode
  <2>2. \A g \in grants : g.code # code.id
    BY <2>1 DEF Approvals
  <2> QED BY <1>1, <2>1, <2>2 DEF Approvals, CodeSingleUse
<1>6. JobsApproved' /\ Provenance'
  BY <1>1, <1>2 DEF JobsApproved, Approved, Provenance, Minting
<1>7. PairsPrivate'
  <2>1. \A q \in Reqs : pc[q] \in Minting => 0 \notin Pair(q)
    BY DEF TypeOK, Carries, Ids, Pair
  <2> QED BY <1>1, <1>2, <2>1 DEF PairsPrivate, Pair, Minting
<1>8. PairsStored' /\ RotationPrepared' /\ RevokesAccessOnly'
  BY <1>1, <1>2 DEF PairsStored, RotationPrepared, RevokesAccessOnly, Pair, Minting, Succeeds
<1>9. /\ TokensUnique' /\ HeldMatches' /\ ReplayMatches' /\ LifetimeBounded'
      /\ NeverStranded' /\ ReplayIsFaithful'
  BY <1>1 DEF TokensUnique, HeldMatches, ReplayMatches, LifetimeBounded, NeverStranded,
              ReplayIsFaithful
<1> QED BY <1>4, <1>5, <1>6, <1>7, <1>8, <1>9

\* What a request that starts a pair may find: nothing carries its ids yet.
LEMMA FreshPair ==
  ASSUME TypeOK, IInv, NEW r \in Reqs, lastId \in Nat,
         job'[r].access \in Nat, job'[r].refresh \in Nat,
         lastId < job'[r].access, job'[r].access < job'[r].refresh,
         job'[r].old = 0 \/ \E h \in held : h.id = job'[r].old,
         pc[r] = "idle",
         pc' = [pc EXCEPT ![r] = "putAccess"],
         \A q \in Reqs : q # r => job'[q] = job[q],
         UNCHANGED <<tokens, held, replay>>
  PROVE  PairsPrivate' /\ PairsStored'
<1> DEFINE a == job'[r].access
           b == job'[r].refresh
           o == job'[r].old
<1> USE DEF IInv
<1>1. \A q \in Reqs : \A x \in Pair(q) : x <= lastId /\ x \in Nat
  BY DEF MintedSoFar, TypeOK, Job, Ids, Pair
<1>2. Pair(r)' = {a, b} /\ \A q \in Reqs : q # r => Pair(q)' = Pair(q)
  BY DEF Pair
<1>3. \A q \in Reqs : q # r => pc'[q] = pc[q]
  BY DEF TypeOK
<1>4. \A t \in tokens : t.id \notin {a, b}
  BY DEF MintedSoFar, TypeOK, TokenRecord, Ids
<1>5. \A h \in held : h.id \notin {a, b}
  BY DEF MintedSoFar, TypeOK, Delivery, Ids
<1>6. \A i \in Instances : \A e \in replay[i] : {e.id, e.access, e.refresh} \cap {a, b} = {}
  BY DEF MintedSoFar, TypeOK, Rotation, Ids
<1>7. \A q \in Reqs : job'[q].old \notin {a, b}
  BY <1>5 DEF MintedSoFar, TypeOK, Job, Ids
<1>8. ASSUME NEW q \in Reqs, q # r, pc[q] \in Minting
      PROVE  o \notin Pair(q)
  BY <1>8 DEF PairsPrivate, TypeOK, Carries, Ids, Pair
<1>9. PairsPrivate'
  <2>1. ASSUME NEW q \in Reqs, pc'[q] \in Minting, NEW p \in Reqs
        PROVE  job'[p].old \notin Pair(q)'
    BY <1>2, <1>3, <1>7, <1>8, <2>1 DEF PairsPrivate
  <2>2. ASSUME NEW q \in Reqs, pc'[q] \in Minting, NEW p \in Reqs, p # q, pc'[p] \in Minting
        PROVE  Pair(p)' \cap Pair(q)' = {}
    BY <1>1, <1>2, <1>3, <2>2 DEF PairsPrivate, TypeOK
  <2>3. ASSUME NEW q \in Reqs, pc'[q] \in Minting
        PROVE  /\ \A h \in held' : h.id \notin Pair(q)'
               /\ \A i \in Instances : \A e \in replay'[i] :
                    {e.id, e.access, e.refresh} \cap Pair(q)' = {}
    <3>1. CASE q = r
      BY <1>2, <1>5, <1>6, <3>1
    <3>2. CASE q # r
      <4>1. pc[q] \in Minting /\ Pair(q)' = Pair(q)
        BY <1>2, <1>3, <2>3, <3>2
      <4> QED BY <4>1 DEF PairsPrivate
    <3> QED BY <3>1, <3>2
  <2> QED BY <2>1, <2>2, <2>3 DEF PairsPrivate
<1>10. PairsStored'
  <2>1. ASSUME NEW q \in Reqs, q # r
        PROVE  pc'[q] = pc[q] /\ job'[q] = job[q] /\ Pair(q)' = Pair(q)
    BY <1>2, <1>3, <2>1
  <2> QED BY <1>2, <1>4, <2>1 DEF PairsStored, TypeOK, Minting
<1> QED BY <1>9, <1>10

\* Minting leaves what was minted before where it was.
LEMMA StillMinted ==
  ASSUME TypeOK, IInv, lastId' \in Nat, lastId <= lastId',
         UNCHANGED <<tokens, held, replay>>
  PROVE  /\ \A t \in tokens' : t.id <= lastId'
         /\ \A h \in held' : h.id <= lastId'
         /\ \A i \in Instances : \A e \in replay'[i] :
              e.id <= lastId' /\ e.access <= lastId' /\ e.refresh <= lastId'
         /\ \A k \in consents : k.id <= lastId'
         /\ \A g \in grants : g.family <= lastId'
         /\ \A q \in Reqs : job[q].old <= lastId' /\ job[q].access <= lastId'
                            /\ job[q].refresh <= lastId'
<1> USE DEF IInv
<1>1. \A t \in tokens' : t.id <= lastId'
  BY DEF MintedSoFar, TypeOK, TokenRecord, Ids
<1>2. \A h \in held' : h.id <= lastId'
  BY DEF MintedSoFar, TypeOK, Delivery, Ids
<1>3. \A i \in Instances : \A e \in replay'[i] :
        e.id <= lastId' /\ e.access <= lastId' /\ e.refresh <= lastId'
  BY DEF MintedSoFar, TypeOK, Rotation, Ids
<1>4. /\ \A k \in consents : k.id <= lastId'
      /\ \A g \in grants : g.family <= lastId'
  BY DEF MintedSoFar, TypeOK, AuthCode, Ids
<1>5. \A q \in Reqs : job[q].old <= lastId' /\ job[q].access <= lastId'
                      /\ job[q].refresh <= lastId'
  BY DEF MintedSoFar, TypeOK, Job, Ids
<1> QED BY <1>1, <1>2, <1>3, <1>4, <1>5

LEMMA ExchangeCodeKeeps ==
  ASSUME TypeOK, TypeOK', IInv, NEW r \in Reqs, NEW c \in Clients, NEW k \in codes,
         ExchangeCode(r, c, k)
  PROVE  IInv'
<1> DEFINE g == [code |-> k.id, family |-> lastId + 1]
<1>1. /\ pc[r] = "idle" /\ pc' = [pc EXCEPT ![r] = "putAccess"]
      /\ codes' = codes \ {k} /\ grants' = grants \cup {g}
      /\ k.client = c
      /\ lastId' = lastId + 3 /\ lastId \in Nat
      /\ UNCHANGED <<clock, tokens, replay, held, consents>>
  BY DEF ExchangeCode, ConsumeCode, Goto, TypeOK
<1>2. /\ job'[r] = [client |-> c, user |-> k.user, family |-> lastId + 1, old |-> 0,
                    access |-> lastId + 2, refresh |-> lastId + 3, now |-> clock]
      /\ \A q \in Reqs : q # r => job'[q] = job[q] /\ pc'[q] = pc[q]
      /\ pc'[r] = "putAccess"
  BY DEF ExchangeCode, Goto, TypeOK
<1>3. /\ job'[r].client = c /\ job'[r].user = k.user /\ job'[r].family = lastId + 1
      /\ job'[r].old = 0 /\ job'[r].access = lastId + 2 /\ job'[r].refresh = lastId + 3
      /\ job'[r].now = clock
  BY <1>2
<1>4. g.code = k.id /\ g.family = lastId + 1
  OBVIOUS
<1>5. k \in consents /\ clock \in Nat
  BY DEF IInv, Approvals, TypeOK
<1> HIDE DEF g
<1> USE DEF IInv
<1>6. MintedSoFar'
  <2>1. lastId' \in Nat /\ lastId <= lastId'
    BY <1>1
  <2>2. \A q \in Reqs : job'[q].old <= lastId' /\ job'[q].access <= lastId'
                        /\ job'[q].refresh <= lastId'
    BY <1>1, <1>2, <1>3, <2>1, StillMinted
  <2>3. \A h \in grants' : h.family <= lastId'
    BY <1>1, <1>4, <2>1, StillMinted
  <2> QED BY <1>1, <2>1, <2>2, <2>3, StillMinted DEF MintedSoFar
<1>7. Approvals'
  <2>1. \A h \in grants : h.family # g.family /\ h.code # g.code
    BY <1>1, <1>4, <1>5 DEF MintedSoFar, TypeOK, Ids, Approvals, CodeSingleUse
  <2>2. \A l \in codes' : l.id # g.code
    BY <1>1, <1>4 DEF Approvals
  <2> QED BY <1>1, <1>4, <1>5, <2>1, <2>2 DEF Approvals, CodeSingleUse
<1>8. JobsApproved'
  <2>1. ASSUME NEW q \in Reqs, q # r, pc'[q] \in Minting
        PROVE  /\ Approved(job[q].family, job[q].client, job[q].user)'
               /\ job'[q].access # job'[q].refresh
               /\ job'[q].now <= clock'
    BY <1>1, <1>2, <2>1 DEF JobsApproved, Approved
  <2>2. /\ Approved(job[r].family, job[r].client, job[r].user)'
        /\ job'[r].access # job'[r].refresh
        /\ job'[r].now <= clock'
    BY <1>1, <1>3, <1>4, <1>5 DEF Approved
  <2> QED BY <1>2, <2>1, <2>2 DEF JobsApproved, Approved
<1>9. Provenance'
  BY <1>1 DEF Provenance
<1>10. PairsPrivate' /\ PairsStored'
  <2>1. /\ job'[r].access \in Nat /\ job'[r].refresh \in Nat
        /\ lastId < job'[r].access /\ job'[r].access < job'[r].refresh
    BY <1>1, <1>3
  <2> QED BY <1>1, <1>2, <1>3, <2>1, FreshPair
<1>11. RotationPrepared' /\ RevokesAccessOnly'
  <2>1. \A t \in tokens : t.id # 0
    BY DEF TypeOK, TokenRecord, Ids
  <2> QED BY <1>1, <1>2, <1>3, <2>1 DEF RotationPrepared, RevokesAccessOnly, Succeeds
<1>12. /\ TokensUnique' /\ HeldMatches' /\ ReplayMatches' /\ LifetimeBounded'
       /\ NeverStranded' /\ ReplayIsFaithful'
  BY <1>1 DEF TokensUnique, HeldMatches, ReplayMatches, LifetimeBounded, NeverStranded,
              ReplayIsFaithful
<1> QED BY <1>6, <1>7, <1>8, <1>9, <1>10, <1>11, <1>12

LEMMA RefreshKeeps ==
  ASSUME TypeOK, TypeOK', IInv, NEW r \in Reqs, NEW c \in Clients, NEW h \in held,
         Refresh(r, c, h.id)
  PROVE  IInv'
<1> PICK t \in GetToken(h.id, "refresh") :
      /\ t.client = c
      /\ job' = [job EXCEPT ![r] =
                   [client |-> c, user |-> t.user, family |-> t.family, old |-> h.id,
                    access |-> lastId + 1, refresh |-> lastId + 2, now |-> clock]]
  BY DEF Refresh
<1>1. /\ pc[r] = "idle" /\ pc' = [pc EXCEPT ![r] = "putAccess"]
      /\ lastId' = lastId + 2 /\ lastId \in Nat
      /\ UNCHANGED <<clock, codes, tokens, replay, held, consents, grants>>
  BY DEF Refresh, Goto, TypeOK, store, history
<1>2. /\ job'[r] = [client |-> c, user |-> t.user, family |-> t.family, old |-> h.id,
                    access |-> lastId + 1, refresh |-> lastId + 2, now |-> clock]
      /\ \A q \in Reqs : q # r => job'[q] = job[q] /\ pc'[q] = pc[q]
      /\ pc'[r] = "putAccess"
  BY <1>1 DEF TypeOK
<1>3. /\ job'[r].client = t.client /\ job'[r].user = t.user /\ job'[r].family = t.family
      /\ job'[r].old = h.id /\ job'[r].access = lastId + 1 /\ job'[r].refresh = lastId + 2
      /\ job'[r].now = clock
  BY <1>2
<1>4. t \in tokens /\ t.id = h.id /\ t.kind = "refresh" /\ h.id <= lastId /\ clock \in Nat
  BY DEF GetToken, IInv, MintedSoFar, TypeOK
<1>5. h.id \in Nat
  BY DEF TypeOK, Delivery, Ids
<1> USE DEF IInv
<1>6. MintedSoFar'
  <2>1. lastId' \in Nat /\ lastId <= lastId'
    BY <1>1
  <2>2. \A q \in Reqs : job'[q].old <= lastId' /\ job'[q].access <= lastId'
                        /\ job'[q].refresh <= lastId'
    BY <1>1, <1>2, <1>3, <1>4, <1>5, <2>1, StillMinted
  <2> QED BY <1>1, <2>1, <2>2, StillMinted DEF MintedSoFar
<1>7. Approvals' /\ Provenance'
  BY <1>1 DEF Approvals, CodeSingleUse, Provenance
<1>8. JobsApproved'
  <2>1. ASSUME NEW q \in Reqs, q # r, pc'[q] \in Minting
        PROVE  /\ Approved(job[q].family, job[q].client, job[q].user)'
               /\ job'[q].access # job'[q].refresh
               /\ job'[q].now <= clock'
    BY <1>1, <1>2, <2>1 DEF JobsApproved, Approved
  <2>2. /\ Approved(job[r].family, job[r].client, job[r].user)'
        /\ job'[r].access # job'[r].refresh
        /\ job'[r].now <= clock'
    BY <1>1, <1>3, <1>4 DEF Approved, Provenance
  <2> QED BY <1>2, <2>1, <2>2 DEF JobsApproved, Approved
<1>9. PairsPrivate' /\ PairsStored'
  <2>1. /\ job'[r].access \in Nat /\ job'[r].refresh \in Nat
        /\ lastId < job'[r].access /\ job'[r].access < job'[r].refresh
    BY <1>1, <1>3
  <2>2. \E d \in held : d.id = job'[r].old
    BY <1>3
  <2> QED BY <1>1, <1>2, <2>1, <2>2, FreshPair
<1>10. RotationPrepared' /\ RevokesAccessOnly'
  <2>1. \A o \in tokens : o.id = h.id => o = t
    BY <1>4 DEF TokensUnique
  <2>2. t.expires <= clock + RefreshTTL
    BY <1>4 DEF LifetimeBounded
  <2> QED BY <1>1, <1>2, <1>3, <1>4, <2>1, <2>2
          DEF RotationPrepared, RevokesAccessOnly, Succeeds
<1>11. /\ TokensUnique' /\ HeldMatches' /\ ReplayMatches' /\ LifetimeBounded'
       /\ NeverStranded' /\ ReplayIsFaithful'
  BY <1>1 DEF TokensUnique, HeldMatches, ReplayMatches, LifetimeBounded, NeverStranded,
              ReplayIsFaithful
<1> QED BY <1>6, <1>7, <1>8, <1>9, <1>10, <1>11

\* Writing one token of a pair.
LEMMA PutKeeps ==
  ASSUME TypeOK, TypeOK', IInv, NEW r \in Reqs, PutAccess(r) \/ PutRefresh(r)
  PROVE  IInv'
<1> DEFINE j == job[r]
           n == IF pc[r] = "putAccess" THEN Minted(j, "access", j.access, AccessTTL)
                ELSE Minted(j, "refresh", j.refresh, RefreshTTL)
<1>1. /\ tokens' = tokens \cup {n}
      /\ UNCHANGED <<clock, lastId, codes, replay, job, held, consents, grants>>
  BY DEF PutAccess, PutRefresh, history
<1>2. /\ pc[r] \in {"putAccess", "putRefresh"}
      /\ pc[r] = "putAccess" => pc'[r] = "putRefresh"
      /\ pc[r] = "putRefresh" => /\ j.old = 0 => pc'[r] = "answer"
                                 /\ j.old # 0 => pc'[r] = "rotate"
      /\ \A q \in Reqs : q # r => pc'[q] = pc[q]
  BY DEF PutAccess, PutRefresh, Goto, TypeOK
<1>3. /\ n.family = j.family /\ n.client = j.client /\ n.user = j.user /\ ~n.revoked
      /\ pc[r] = "putAccess" => n.id = j.access /\ n.kind = "access"
      /\ pc[r] = "putRefresh" => /\ n.id = j.refresh /\ n.kind = "refresh"
                                 /\ n.expires = j.now + RefreshTTL
  BY <1>2 DEF Minted
<1> HIDE DEF n
<1> USE DEF IInv
<1>4. n.id \in Pair(r) /\ pc[r] \in Minting /\ pc'[r] \in Minting
  BY <1>2, <1>3 DEF Pair, Minting
<1>5. \A q \in Reqs : /\ pc'[q] \in Minting <=> pc[q] \in Minting
                      /\ Pair(q)' = Pair(q)
  BY <1>1, <1>2, <1>4 DEF Pair
<1>6. \A t \in tokens : t.id # n.id
  BY <1>2, <1>3 DEF PairsStored, Pair
<1>7. /\ \A h \in held : h.id # n.id
      /\ \A q \in Reqs : job[q].old # n.id
      /\ \A i \in Instances : \A e \in replay[i] : n.id \notin {e.id, e.access, e.refresh}
      /\ \A q \in Reqs : q # r /\ pc[q] \in Minting => n.id \notin Pair(q)
  BY <1>4 DEF PairsPrivate
<1>8. MintedSoFar'
  BY <1>1, <1>4 DEF MintedSoFar, Pair
<1>9. Approvals'
  BY <1>1 DEF Approvals, CodeSingleUse
<1>10. JobsApproved'
  BY <1>1, <1>5 DEF JobsApproved, Approved
<1>11. Provenance'
  BY <1>1, <1>3, <1>4 DEF Provenance, JobsApproved, Approved
<1>12. TokensUnique' /\ HeldMatches' /\ ReplayMatches'
  BY <1>1, <1>6, <1>7 DEF TokensUnique, HeldMatches, ReplayMatches
<1>13. PairsPrivate'
  BY <1>1, <1>5 DEF PairsPrivate
<1>14. PairsStored'
  <2>1. ASSUME NEW q \in Reqs, q # r, NEW t \in tokens'
        PROVE  /\ pc'[q] = "putAccess" => t.id \notin Pair(q)'
               /\ pc'[q] = "putRefresh" => t.id # job'[q].refresh
               /\ pc'[q] \in Minting /\ t.id \in Pair(q)' =>
                    t.family = job'[q].family /\ t.client = job'[q].client
               /\ pc'[q] \in Minting /\ t.id = job'[q].access => t.kind = "access"
               /\ pc'[q] \in Minting /\ t.id = job'[q].refresh => t.kind = "refresh"
    BY <1>1, <1>2, <1>7, <2>1 DEF PairsStored, Pair, Minting
  <2>2. j.access # j.refresh
    BY <1>4 DEF JobsApproved
  <2>3. ASSUME NEW t \in tokens'
        PROVE  /\ pc'[r] = "putAccess" => t.id \notin Pair(r)'
               /\ pc'[r] = "putRefresh" => t.id # job'[r].refresh
               /\ pc'[r] \in Minting /\ t.id \in Pair(r)' =>
                    t.family = job'[r].family /\ t.client = job'[r].client
               /\ pc'[r] \in Minting /\ t.id = job'[r].access => t.kind = "access"
               /\ pc'[r] \in Minting /\ t.id = job'[r].refresh => t.kind = "refresh"
    BY <1>1, <1>2, <1>3, <1>4, <2>2, <2>3 DEF PairsStored, Pair
  <2> QED BY <2>1, <2>3 DEF PairsStored
<1>15. LifetimeBounded'
  <2>1. n.kind = "refresh" => n.expires <= clock + RefreshTTL
    BY <1>2, <1>3, <1>4, ConstantsAssumption DEF JobsApproved, TypeOK, Job
  <2> QED BY <1>1, <2>1 DEF LifetimeBounded
<1>16. RotationPrepared' /\ RevokesAccessOnly'
  <2>1. \A q \in Reqs, o \in tokens' : o.id = job[q].old => o \in tokens
    BY <1>1, <1>7
  <2>2. ASSUME NEW o \in tokens', pc'[r] = "rotate", o.id = job[r].old
        PROVE  n.id = job[r].refresh /\ Succeeds(n, o)
    <3>1. pc[r] = "putRefresh" /\ o \in tokens
      BY <1>2, <2>1, <2>2
    <3>2. o.family = j.family /\ o.expires <= j.now + RefreshTTL
      BY <1>2, <2>2, <3>1 DEF RotationPrepared
    <3> QED BY <1>3, <3>1, <3>2 DEF Succeeds
  <2>3. \A o \in tokens : o.id # 0
    BY DEF TypeOK, TokenRecord, Ids
  <2>4. ASSUME NEW q \in Reqs, NEW o \in tokens', o.id = job[q].old,
               pc'[q] \in {"putAccess", "putRefresh", "rotate"}
        PROVE  /\ o.kind = "refresh" /\ o.family = job[q].family
               /\ o.expires <= job[q].now + RefreshTTL
    BY <1>2, <2>1, <2>4 DEF RotationPrepared
  <2>5. ASSUME NEW q \in Reqs, NEW o \in tokens', o.id = job[q].old, pc'[q] = "rotate"
        PROVE  \E s \in tokens' : s.id = job[q].refresh /\ Succeeds(s, o)
    BY <1>1, <1>2, <2>1, <2>2, <2>5 DEF RotationPrepared
  <2>6. ASSUME NEW q \in Reqs, NEW o \in tokens', o.id = job[q].old, pc'[q] = "answer"
        PROVE  o.revoked /\ o.family = job[q].family
    BY <1>2, <2>1, <2>3, <2>6 DEF RotationPrepared
  <2>7. RotationPrepared'
    BY <1>1, <2>4, <2>5, <2>6 DEF RotationPrepared
  <2>8. RevokesAccessOnly'
    BY <1>1, <1>2, <2>1 DEF RevokesAccessOnly
  <2> QED BY <2>7, <2>8
<1>17. NeverStranded'
  BY <1>1, <1>3 DEF NeverStranded
<1>18. ReplayIsFaithful'
  BY <1>1, <1>7 DEF ReplayIsFaithful
<1> QED BY <1>8, <1>9, <1>10, <1>11, <1>12, <1>13, <1>14, <1>15, <1>16, <1>17, <1>18

LEMMA RotateKeeps ==
  ASSUME TypeOK, TypeOK', IInv, NEW r \in Reqs, Rotate(r)
  PROVE  IInv'
<1>1. /\ UNCHANGED <<clock, lastId, codes, replay, job, held, consents, grants>>
      /\ tokens' = {IF t.id = job[r].old THEN [t EXCEPT !.revoked = TRUE] ELSE t : t \in tokens}
  BY DEF Rotate, RotateToken, history
<1>2. /\ pc[r] = "rotate" /\ pc'[r] = "answer"
      /\ \A q \in Reqs : q # r => pc'[q] = pc[q]
  BY DEF Rotate, Goto, TypeOK
<1>3. \A n \in tokens' : \E t \in tokens :
        /\ n.id = t.id /\ n.kind = t.kind /\ n.client = t.client /\ n.user = t.user
        /\ n.family = t.family /\ n.expires = t.expires
        /\ t.id = job[r].old => n.revoked
        /\ t.id # job[r].old => n = t
        /\ t.revoked => n.revoked
  BY <1>1 DEF TypeOK, TokenRecord
<1>4. \A t \in tokens : t.id # job[r].old => t \in tokens'
  BY <1>1
<1> USE DEF IInv
<1>5. \A q \in Reqs : /\ pc'[q] \in Minting <=> pc[q] \in Minting
                      /\ Pair(q)' = Pair(q)
  BY <1>1, <1>2 DEF Pair, Minting
<1>6. MintedSoFar' /\ Approvals' /\ JobsApproved' /\ Provenance'
  <2>1. MintedSoFar'
    BY <1>1, <1>3 DEF MintedSoFar
  <2>2. Approvals' /\ JobsApproved'
    BY <1>1, <1>5 DEF Approvals, CodeSingleUse, JobsApproved, Approved
  <2>3. Provenance'
    BY <1>1, <1>3 DEF Provenance
  <2> QED BY <2>1, <2>2, <2>3
<1>7. TokensUnique'
  BY <1>1 DEF TokensUnique, TypeOK, TokenRecord
<1>8. HeldMatches' /\ ReplayMatches' /\ LifetimeBounded'
  BY <1>1, <1>3 DEF HeldMatches, ReplayMatches, LifetimeBounded
<1>9. PairsPrivate'
  BY <1>1, <1>5 DEF PairsPrivate
<1>10. PairsStored'
  BY <1>1, <1>2, <1>3, <1>5 DEF PairsStored, Minting
<1>11. RotationPrepared'
  <2>1. ASSUME NEW q \in Reqs, NEW n \in tokens',
               pc'[q] \in {"putAccess", "putRefresh", "rotate"}, n.id = job'[q].old
        PROVE  n.kind = "refresh" /\ n.family = job'[q].family
               /\ n.expires <= job'[q].now + RefreshTTL
    BY <1>1, <1>2, <1>3, <2>1 DEF RotationPrepared
  <2>2. ASSUME NEW q \in Reqs, NEW n \in tokens', pc'[q] = "rotate", n.id = job'[q].old
        PROVE  \E s \in tokens' : s.id = job'[q].refresh /\ Succeeds(s, n)
    <3>1. PICK t \in tokens : t.id = n.id /\ t.family = n.family /\ t.expires = n.expires
      BY <1>3
    <3>2. PICK s \in tokens : s.id = job[q].refresh /\ Succeeds(s, t)
      BY <1>1, <1>2, <2>2, <3>1 DEF RotationPrepared
    <3>3. s.id # job[r].old
      BY <1>2, <2>2, <3>2 DEF PairsPrivate, Pair, Minting
    <3> QED BY <1>1, <1>4, <3>1, <3>2, <3>3 DEF Succeeds
  <2>3. ASSUME NEW q \in Reqs, NEW n \in tokens', pc'[q] = "answer", n.id = job'[q].old
        PROVE  n.revoked /\ n.family = job'[q].family
    BY <1>1, <1>2, <1>3, <2>3 DEF RotationPrepared
  <2> QED BY <2>1, <2>2, <2>3 DEF RotationPrepared
<1>12. RevokesAccessOnly'
  BY <1>1, <1>2, <1>3 DEF RevokesAccessOnly
<1>13. NeverStranded'
  <2> SUFFICES ASSUME NEW n \in tokens', n.kind = "refresh", n.revoked
               PROVE  \E s \in tokens' : Succeeds(s, n)
    BY DEF NeverStranded, Succeeds
  <2>1. PICK o \in tokens : /\ o.id = n.id /\ o.kind = n.kind /\ o.family = n.family
                            /\ o.expires = n.expires
                            /\ o.id # job[r].old => n = o
    BY <1>3
  <2>2. ASSUME NEW t \in tokens, t.id = job[r].old
        PROVE  \E s \in tokens' : Succeeds(s, t)
    <3>1. PICK s \in tokens : s.id = job[r].refresh /\ Succeeds(s, t)
      BY <1>2, <2>2 DEF RotationPrepared
    <3>2. s.id # job[r].old
      BY <1>2, <3>1 DEF PairsPrivate, Pair, Minting
    <3> QED BY <1>4, <3>1, <3>2
  <2>3. CASE o.id = job[r].old
    BY <2>1, <2>2, <2>3 DEF Succeeds
  <2>4. CASE o.id # job[r].old
    <3>1. PICK t \in tokens : Succeeds(t, o)
      BY <2>1, <2>4 DEF NeverStranded, Succeeds
    <3>2. CASE t.id # job[r].old
      BY <1>4, <2>1, <3>1, <3>2 DEF Succeeds
    <3>3. CASE t.id = job[r].old
      <4>1. PICK s \in tokens' : Succeeds(s, t)
        BY <2>2, <3>3
      <4> QED BY <2>1, <3>1, <4>1 DEF Succeeds, TypeOK, TokenRecord
    <3> QED BY <3>2, <3>3
  <2> QED BY <2>3, <2>4
<1>14. ReplayIsFaithful'
  BY <1>1, <1>3 DEF ReplayIsFaithful
<1> QED BY <1>6, <1>7, <1>8, <1>9, <1>10, <1>11, <1>12, <1>13, <1>14

LEMMA AnswerKeeps ==
  ASSUME TypeOK, TypeOK', IInv, NEW r \in Reqs, Answer(r)
  PROVE  IInv'
<1> DEFINE j == job[r]
           entry == [id |-> j.old, deadline |-> j.now + Grace, client |-> j.client,
                     access |-> j.access, refresh |-> j.refresh]
<1>1. /\ UNCHANGED <<clock, lastId, codes, tokens, consents, grants>>
      /\ pc[r] = "answer" /\ pc'[r] = "idle" /\ job'[r] = NoJob
      /\ \A q \in Reqs : q # r => pc'[q] = pc[q] /\ job'[q] = job[q]
  BY DEF Answer, Finish, TypeOK, store, history
<1>2. /\ job'[r].old = 0 /\ job'[r].access = 0 /\ job'[r].refresh = 0
      /\ \A q \in Reqs : pc'[q] \in Minting => q # r
      /\ pc[r] \in Minting /\ lastId \in Nat
  BY <1>1 DEF NoJob, Minting, TypeOK
<1>3. entry.id = j.old /\ entry.client = j.client
      /\ entry.access = j.access /\ entry.refresh = j.refresh
  OBVIOUS
<1>4. \A h \in held' : \/ h \in held
                       \/ h.id = j.access /\ h.kind = "access" /\ h.client = j.client
                       \/ h.id = j.refresh /\ h.kind = "refresh" /\ h.client = j.client
  BY DEF Answer, Deliver
<1>5. \A i \in Instances : \A e \in replay'[i] : e \in replay[i] \/ e = entry
  <2>1. \A i \in Instances : RememberRotation(replay[i], entry, j.now)
                               \subseteq replay[i] \cup {entry}
    BY RememberOnlyAdds
  <2> QED BY <2>1 DEF Answer, TypeOK
<1> HIDE DEF entry
<1> USE DEF IInv
<1>6. MintedSoFar'
  <2>1. \A h \in held' : h.id <= lastId'
    BY <1>1, <1>4 DEF MintedSoFar
  <2>2. \A i \in Instances : \A e \in replay'[i] :
          e.id <= lastId' /\ e.access <= lastId' /\ e.refresh <= lastId'
    BY <1>1, <1>3, <1>5 DEF MintedSoFar
  <2>3. \A q \in Reqs : /\ job'[q].old <= lastId' /\ job'[q].access <= lastId'
                        /\ job'[q].refresh <= lastId'
    BY <1>1, <1>2 DEF MintedSoFar
  <2> QED BY <1>1, <2>1, <2>2, <2>3 DEF MintedSoFar
<1>7. Approvals' /\ Provenance' /\ TokensUnique' /\ LifetimeBounded' /\ NeverStranded'
  BY <1>1 DEF Approvals, CodeSingleUse, Provenance, TokensUnique, LifetimeBounded,
              NeverStranded
<1>8. JobsApproved'
  BY <1>1, <1>2 DEF JobsApproved, Approved
<1>9. PairsPrivate'
  <2>1. ASSUME NEW q \in Reqs, pc'[q] \in Minting
        PROVE  q # r /\ pc[q] \in Minting /\ Pair(q)' = Pair(q) /\ 0 \notin Pair(q)
    BY <1>1, <1>2, <2>1 DEF Pair, TypeOK, Carries, Ids
  <2>2. ASSUME NEW q \in Reqs, pc'[q] \in Minting, NEW h \in held'
        PROVE  h.id \notin Pair(q)'
    BY <1>2, <1>4, <2>1, <2>2 DEF PairsPrivate, Pair
  <2>3. ASSUME NEW q \in Reqs, pc'[q] \in Minting, NEW p \in Reqs
        PROVE  job'[p].old \notin Pair(q)'
    BY <1>1, <1>2, <2>1, <2>3 DEF PairsPrivate
  <2>4. ASSUME NEW q \in Reqs, pc'[q] \in Minting, NEW p \in Reqs, p # q, pc'[p] \in Minting
        PROVE  (Pair(p) \cap Pair(q))' = {}
    BY <2>1, <2>4 DEF PairsPrivate
  <2>5. ASSUME NEW q \in Reqs, pc'[q] \in Minting, NEW i \in Instances, NEW e \in replay'[i]
        PROVE  {e.id, e.access, e.refresh} \cap Pair(q)' = {}
    <3>1. CASE e \in replay[i]
      BY <2>1, <2>5, <3>1 DEF PairsPrivate
    <3>2. CASE e = entry
      <4>1. j.old \notin Pair(q) /\ j.access \notin Pair(q) /\ j.refresh \notin Pair(q)
        BY <1>2, <2>1, <2>5 DEF PairsPrivate, Pair
      <4> QED BY <1>3, <2>1, <2>5, <3>2, <4>1
    <3> QED BY <1>5, <3>1, <3>2
  <2> QED BY <2>2, <2>3, <2>4, <2>5 DEF PairsPrivate
<1>10. PairsStored'
  BY <1>1, <1>2 DEF PairsStored, Pair, Minting
<1>11. RotationPrepared' /\ RevokesAccessOnly'
  BY <1>1, <1>2 DEF RotationPrepared, RevokesAccessOnly, Minting, Succeeds
<1>12. \A t \in tokens : /\ t.id \in Pair(r) => t.family = j.family /\ t.client = j.client
                         /\ t.id = j.access => t.kind = "access"
                         /\ t.id = j.refresh => t.kind = "refresh"
  BY <1>2 DEF PairsStored
<1>13. HeldMatches'
  BY <1>1, <1>4, <1>12 DEF HeldMatches, Pair
<1>14. ReplayMatches'
  BY <1>1, <1>3, <1>5, <1>12 DEF ReplayMatches, Pair
<1>15. ReplayIsFaithful'
  <2>1. \A o \in tokens : o.id = j.old => o.revoked /\ o.family = j.family
    BY <1>1 DEF RotationPrepared
  <2> QED BY <1>1, <1>3, <1>5, <1>12, <2>1 DEF ReplayIsFaithful, Pair
<1> QED BY <1>6, <1>7, <1>8, <1>9, <1>10, <1>11, <1>13, <1>14, <1>15

LEMMA TakeReplayKeeps ==
  ASSUME TypeOK, TypeOK', IInv, NEW r \in Reqs, TakeReplay(r), held' # held
  PROVE  IInv'
<1>1. PICK e \in Replayable(replay[Host[r]], job[r].old, job[r].client, job[r].now) :
        Deliver(job[r].client, e.access, e.refresh) /\ Finish(r)
  BY DEF TakeReplay
<1>2. /\ Host[r] \in Instances /\ e \in replay[Host[r]] /\ e.client = job[r].client
  BY ConstantsAssumption DEF Replayable
<1>3. /\ UNCHANGED <<clock, lastId, codes, tokens, consents, grants>>
      /\ pc'[r] = "idle" /\ job'[r] = NoJob
      /\ \A q \in Reqs : q # r => pc'[q] = pc[q] /\ job'[q] = job[q]
  BY <1>1 DEF TakeReplay, Finish, TypeOK, store, history
<1>4. /\ job'[r].old = 0 /\ job'[r].access = 0 /\ job'[r].refresh = 0
      /\ \A q \in Reqs : pc'[q] \in Minting => q # r
      /\ lastId \in Nat
  BY <1>3 DEF NoJob, Minting, TypeOK
<1>5. \A h \in held' : \/ h \in held
                       \/ h.id = e.access /\ h.kind = "access" /\ h.client = e.client
                       \/ h.id = e.refresh /\ h.kind = "refresh" /\ h.client = e.client
  BY <1>1, <1>2 DEF Deliver
<1>6. \A i \in Instances : replay'[i] \subseteq replay[i]
  BY DEF TakeReplay, TypeOK
<1> USE DEF IInv
<1>7. MintedSoFar'
  <2>1. \A h \in held' : h.id <= lastId'
    BY <1>2, <1>3, <1>5 DEF MintedSoFar
  <2>2. \A q \in Reqs : /\ job'[q].old <= lastId' /\ job'[q].access <= lastId'
                        /\ job'[q].refresh <= lastId'
    BY <1>3, <1>4 DEF MintedSoFar
  <2> QED BY <1>3, <1>6, <2>1, <2>2 DEF MintedSoFar
<1>8. Approvals' /\ Provenance' /\ TokensUnique' /\ LifetimeBounded' /\ NeverStranded'
  BY <1>3 DEF Approvals, CodeSingleUse, Provenance, TokensUnique, LifetimeBounded,
              NeverStranded
<1>9. JobsApproved'
  BY <1>3, <1>4 DEF JobsApproved, Approved
<1>10. PairsPrivate'
  <2>1. ASSUME NEW q \in Reqs, pc'[q] \in Minting
        PROVE  q # r /\ pc[q] \in Minting /\ Pair(q)' = Pair(q) /\ 0 \notin Pair(q)
    BY <1>3, <1>4, <2>1 DEF Pair, TypeOK, Carries, Ids
  <2>2. ASSUME NEW q \in Reqs, pc'[q] \in Minting, NEW h \in held'
        PROVE  h.id \notin Pair(q)'
    BY <1>2, <1>5, <2>1, <2>2 DEF PairsPrivate
  <2>3. ASSUME NEW q \in Reqs, pc'[q] \in Minting, NEW p \in Reqs
        PROVE  job'[p].old \notin Pair(q)'
    BY <1>3, <1>4, <2>1, <2>3 DEF PairsPrivate
  <2>4. ASSUME NEW q \in Reqs, pc'[q] \in Minting, NEW p \in Reqs, p # q, pc'[p] \in Minting
        PROVE  (Pair(p) \cap Pair(q))' = {}
    BY <2>1, <2>4 DEF PairsPrivate
  <2>5. ASSUME NEW q \in Reqs, pc'[q] \in Minting, NEW i \in Instances, NEW d \in replay'[i]
        PROVE  {d.id, d.access, d.refresh} \cap Pair(q)' = {}
    BY <1>6, <2>1, <2>5 DEF PairsPrivate
  <2> QED BY <2>2, <2>3, <2>4, <2>5 DEF PairsPrivate
<1>11. PairsStored'
  BY <1>3, <1>4 DEF PairsStored, Pair, Minting
<1>12. RotationPrepared' /\ RevokesAccessOnly'
  BY <1>3, <1>4 DEF RotationPrepared, RevokesAccessOnly, Minting, Succeeds
<1>13. HeldMatches'
  BY <1>2, <1>3, <1>5 DEF HeldMatches, ReplayMatches
<1>14. ReplayMatches' /\ ReplayIsFaithful'
  BY <1>3, <1>6 DEF ReplayMatches, ReplayIsFaithful
<1> QED BY <1>7, <1>8, <1>9, <1>10, <1>11, <1>12, <1>13, <1>14

-----------------------------------------------------------------------------
(* The invariant, and what it gives.                                       *)

LEMMA IInvStep == TypeOK /\ TypeOK' /\ IInv /\ [Next]_vars => IInv'
<1> SUFFICES ASSUME TypeOK, TypeOK', IInv, [Next]_vars PROVE IInv'
  OBVIOUS
<1>1. ASSUME NEW r \in Reqs, NEW u \in Users, NEW c \in Clients, Approve(r, u, c)
      PROVE  IInv'
  BY <1>1, ApproveKeeps
<1>2. ASSUME NEW r \in Reqs, NEW c \in Clients, NEW k \in codes, ExchangeCode(r, c, k)
      PROVE  IInv'
  BY <1>2, ExchangeCodeKeeps
<1>3. ASSUME NEW r \in Reqs, NEW c \in Clients, NEW h \in held, Refresh(r, c, h.id)
      PROVE  IInv'
  BY <1>3, RefreshKeeps
<1>4. ASSUME NEW r \in Reqs, PutAccess(r) \/ PutRefresh(r) PROVE IInv'
  BY <1>4, PutKeeps
<1>5. ASSUME NEW r \in Reqs, Rotate(r) PROVE IInv'
  BY <1>5, RotateKeeps
<1>6. ASSUME NEW r \in Reqs, Answer(r) PROVE IInv'
  BY <1>6, AnswerKeeps
<1>7. ASSUME NEW r \in Reqs, TakeReplay(r), held' # held PROVE IInv'
  BY <1>7, TakeReplayKeeps
<1>8. CASE \/ \E r \in Reqs :
                \/ RecordUser(r) \/ DetectReuse(r) \/ EndFamily(r) \/ EndToken(r)
                \/ DeleteRow(r) \/ Abort(r)
                \/ TakeReplay(r) /\ UNCHANGED held
                \/ \E u \in Users : DeleteAccount(r, u)
                \/ \E c \in Clients, h \in held :
                     RefreshMisses(r, c, h.id) \/ Revoke(r, c, h.id, h.kind)
           \/ \E k \in codes : RefuseCode(k)
           \/ \E i \in Instances : Restart(i)
           \/ PurgeExpired \/ Tick \/ UNCHANGED vars
  <2>1. Recedes
    BY <1>8, RecedingSteps
  <2> QED BY <2>1, RecedesKeeps
<1> QED BY <1>1, <1>2, <1>3, <1>4, <1>5, <1>6, <1>7, <1>8
        DEF Next, TokenRequest, AccountRequest, Continue

LEMMA Invariant == Spec => [](TypeOK /\ IInv)
<1>1. Init => TypeOK
  BY ConstantsAssumption
  DEF Init, TypeOK, NoJob, Job, Steps, Carries, Minting
<1>2. Init => IInv
  <2> SUFFICES ASSUME Init PROVE IInv
    OBVIOUS
  <2> USE DEF Init
  <2>1. MintedSoFar /\ PairsPrivate /\ JobsApproved
    BY DEF MintedSoFar, PairsPrivate, JobsApproved, NoJob, Minting
  <2>2. Approvals /\ Provenance /\ TokensUnique
    BY DEF Approvals, CodeSingleUse, Provenance, TokensUnique
  <2>3. PairsStored /\ HeldMatches /\ ReplayMatches /\ LifetimeBounded
    BY DEF PairsStored, HeldMatches, ReplayMatches, LifetimeBounded
  <2>4. RotationPrepared /\ RevokesAccessOnly /\ NeverStranded /\ ReplayIsFaithful
    BY DEF RotationPrepared, RevokesAccessOnly, NeverStranded, ReplayIsFaithful
  <2> QED BY <2>1, <2>2, <2>3, <2>4 DEF IInv
<1>3. TypeOK /\ IInv /\ [Next]_vars => (TypeOK /\ IInv)'
  BY TypeStep, IInvStep
<1> QED BY <1>1, <1>2, <1>3, PTL DEF Spec

\* A code starts at most one family of tokens, however many requests present
\* it, die or are repeated.
THEOREM CodesAreSingleUse == Spec => []CodeSingleUse
<1>1. IInv => CodeSingleUse
  BY DEF IInv, Approvals
<1> QED BY <1>1, Invariant, PTL

\* Every token carries the client and the user of the approval its family
\* began with.
THEOREM TokensKeepProvenance == Spec => []Provenance
<1>1. IInv => Provenance
  BY DEF IInv
<1> QED BY <1>1, Invariant, PTL

\* A refresh token is rotated out only while a successor that lives as long
\* is in the table.
THEOREM ClientsAreNeverStranded == Spec => []NeverStranded
<1>1. IInv => NeverStranded
  BY DEF IInv
<1> QED BY <1>1, Invariant, PTL

\* A replayed response holds what its rotation minted, for the client that
\* asked.
THEOREM ReplaysAreFaithful == Spec => []ReplayIsFaithful
<1>1. IInv => ReplayIsFaithful
  BY DEF IInv
<1> QED BY <1>1, Invariant, PTL

\* A token reaches no client but the one it was issued to.
THEOREM TokensReachTheirOwner == Spec => []DeliveredToOwner
<1>1. IInv => DeliveredToOwner
  BY DEF IInv, HeldMatches, DeliveredToOwner
<1> QED BY <1>1, Invariant, PTL

-----------------------------------------------------------------------------
(* Action properties.                                                      *)

\* What one step does to the table of tokens.
LEMMA TokensStep ==
  ASSUME TypeOK, IInv, [Next]_vars
  PROVE  \/ tokens' \subseteq tokens
         \/ \E r \in Reqs : RotateToken(job[r].old)
         \/ \E r \in Reqs : \E n : /\ pc[r] \in Minting /\ n.id \in Pair(r)
                                   /\ n.family = job[r].family
                                   /\ pc[r] \in Issuing
                                   /\ \A t \in tokens : t.id # n.id
                                   /\ tokens' = tokens \cup {n}
<1>1. ASSUME NEW r \in Reqs, PutAccess(r)
      PROVE  \E n : /\ pc[r] \in Minting /\ n.id \in Pair(r) /\ n.family = job[r].family
                    /\ pc[r] \in Issuing
                    /\ \A t \in tokens : t.id # n.id
                    /\ tokens' = tokens \cup {n}
  BY <1>1 DEF PutAccess, Minted, Minting, Pair, Issuing, IInv, PairsStored
<1>2. ASSUME NEW r \in Reqs, PutRefresh(r)
      PROVE  \E n : /\ pc[r] \in Minting /\ n.id \in Pair(r) /\ n.family = job[r].family
                    /\ pc[r] \in Issuing
                    /\ \A t \in tokens : t.id # n.id
                    /\ tokens' = tokens \cup {n}
  BY <1>2 DEF PutRefresh, Minted, Minting, Pair, Issuing, IInv, PairsStored
<1>3. ASSUME NEW r \in Reqs, Rotate(r)
      PROVE  RotateToken(job[r].old)
  BY <1>3 DEF Rotate
<1>4. CASE Recedes
  BY <1>4 DEF Recedes
<1>5. ASSUME NEW r \in Reqs,
             \/ Answer(r) \/ TakeReplay(r)
             \/ \E u \in Users, c \in Clients : Approve(r, u, c)
             \/ \E c \in Clients, k \in codes : ExchangeCode(r, c, k)
             \/ \E c \in Clients, h \in held : Refresh(r, c, h.id)
      PROVE  tokens' \subseteq tokens
  BY <1>5 DEF Answer, TakeReplay, Approve, ExchangeCode, Refresh, store
<1> QED BY <1>1, <1>2, <1>3, <1>4, <1>5, RecedingSteps
        DEF Next, TokenRequest, AccountRequest, Continue

\* A rotation is final, and a token new to the table is new to every client.
THEOREM RotationsAreFinal == Spec => RotationIsFinal
<1> DEFINE Final ==
      /\ \A o \in tokens, n \in tokens' : o.id = n.id =>
           n = o \/ n = [o EXCEPT !.revoked = TRUE]
      /\ \A n \in tokens' : (\A o \in tokens : o.id # n.id)
                              => n.id \notin {h.id : h \in held}
<1>1. ASSUME TypeOK, IInv, [Next]_vars
      PROVE  Final
  <2> USE <1>1 DEF IInv
  <2>1. CASE tokens' \subseteq tokens
    BY <2>1 DEF TokensUnique
  <2>2. ASSUME NEW r \in Reqs, RotateToken(job[r].old)
        PROVE  Final
    BY <2>2 DEF RotateToken, TokensUnique, TypeOK, TokenRecord
  <2>3. ASSUME NEW r \in Reqs, NEW n, pc[r] \in Minting, n.id \in Pair(r),
               \A t \in tokens : t.id # n.id, tokens' = tokens \cup {n}
        PROVE  Final
    BY <2>3 DEF TokensUnique, PairsPrivate
  <2> QED BY <2>1, <2>2, <2>3, TokensStep
<1> QED BY <1>1, Invariant, PTL DEF Spec, RotationIsFinal

-----------------------------------------------------------------------------
(* The token endpoint implements GrantLifecycle.                           *)

\* Nothing but the exchange of its code brings a family to life.
LEMMA FamiliesOnlyEnd ==
  ASSUME TypeOK, IInv, [Next]_vars,
         ~ \E r \in Reqs, c \in Clients : \E k \in codes : ExchangeCode(r, c, k),
         NEW f, Alive(f)'
  PROVE  Alive(f)
<1>1. CASE \E t \in tokens' : t.family = f
  <2>1. CASE tokens' \subseteq tokens
    BY <1>1, <2>1 DEF Alive
  <2>2. ASSUME NEW r \in Reqs, RotateToken(job[r].old)
        PROVE  Alive(f)
    BY <1>1, <2>2 DEF Alive, RotateToken, TypeOK, TokenRecord
  <2>3. ASSUME NEW r \in Reqs, NEW n, pc[r] \in Issuing, n.family = job[r].family,
               tokens' = tokens \cup {n}
        PROVE  Alive(f)
    BY <1>1, <2>3 DEF Alive
  <2> QED BY <2>1, <2>2, <2>3, TokensStep
<1>2. ASSUME NEW q \in Reqs, pc'[q] \in Issuing, job'[q].family = f
      PROVE  Alive(f)
  <2>1. CASE pc'[q] = pc[q] /\ job'[q] = job[q]
    BY <1>2, <2>1 DEF Alive
  <2>2. ASSUME NEW r \in Reqs, PutAccess(r) \/ PutRefresh(r)
        PROVE  Alive(f)
    BY <1>2, <2>2 DEF PutAccess, PutRefresh, Alive, Issuing, Goto, TypeOK
  <2>3. ASSUME NEW r \in Reqs, NEW c \in Clients, NEW h \in held, Refresh(r, c, h.id)
        PROVE  Alive(f)
    <3>1. PICK t \in tokens : job' = [job EXCEPT ![r] =
             [client |-> c, user |-> t.user, family |-> t.family, old |-> h.id,
              access |-> lastId + 1, refresh |-> lastId + 2, now |-> clock]]
      BY <2>3 DEF Refresh, GetToken
    <3>2. pc' = [pc EXCEPT ![r] = "putAccess"]
      BY <2>3 DEF Refresh, Goto
    <3> QED BY <1>2, <3>1, <3>2 DEF Alive, TypeOK
  <2>4. CASE Recedes
    BY <1>2, <2>1, <2>4 DEF Recedes, Minting, Issuing
  <2>5. ASSUME NEW r \in Reqs, Rotate(r) \/ Answer(r) \/ TakeReplay(r)
        PROVE  Alive(f)
    BY <1>2, <2>1, <2>5
    DEF Rotate, Answer, TakeReplay, Goto, Finish, Issuing, TypeOK
  <2>6. ASSUME NEW r \in Reqs, NEW u \in Users, NEW c \in Clients, Approve(r, u, c)
        PROVE  Alive(f)
    <3>1. pc' = [pc EXCEPT ![r] = "recordUser"] /\ \A p \in Reqs : p # r => job'[p] = job[p]
      BY <2>6 DEF Approve, Goto, TypeOK
    <3> QED BY <1>2, <2>1, <3>1 DEF Issuing, TypeOK
  <2> QED BY <2>1, <2>2, <2>3, <2>4, <2>5, <2>6, RecedingSteps
          DEF Next, TokenRequest, AccountRequest, Continue
<1> QED BY <1>1, <1>2 DEF Alive

PhaseOf == [c \in Ids |-> Phase(c)]

\* A step that neither approves nor exchanges closes approvals, or none.
LEMMA OtherStepsClose ==
  ASSUME TypeOK, IInv, codes' \subseteq codes, UNCHANGED <<consents, grants>>,
         \A f : Alive(f)' => Alive(f)
  PROVE  \E S \in SUBSET Lifecycle!Open : Lifecycle!Close(S)
<1> DEFINE S == {c \in Ids : Phase(c)' # Phase(c)}
<1>1. ASSUME NEW c \in Ids, Phase(c)' # Phase(c)
      PROVE  Phase(c) \in {"offered", "active"} /\ Phase(c)' = "ended"
  <2>1. \A g \in grants, k \in codes : g.code # k.id
    BY DEF IInv, Approvals, CodeSingleUse
  <2> QED BY <1>1, <2>1 DEF Phase
<1>2. S \subseteq Lifecycle!Open
  BY <1>1 DEF Lifecycle!Open
<1>3. Lifecycle!Close(S)
  BY <1>1 DEF Lifecycle!Close
<1> QED BY <1>2, <1>3

LEMMA ApproveOffers ==
  ASSUME TypeOK, IInv, NEW r \in Reqs, NEW u \in Users, NEW c \in Clients, Approve(r, u, c)
  PROVE  \E d \in Ids : Lifecycle!Offer(d)
<1> PICK d \in Ids, code \in AuthCode :
      /\ d = lastId + 1 /\ code.id = d
      /\ codes' = codes \cup {code} /\ consents' = consents \cup {code}
  <2> DEFINE code == [id |-> lastId + 1, client |-> c, user |-> u,
                      expires |-> clock + CodeTTL]
  <2>1. lastId + 1 \in Ids /\ code \in AuthCode /\ code.id = lastId + 1
    BY ConstantsAssumption DEF Approve, TypeOK, Ids, AuthCode
  <2>2. codes' = codes \cup {code} /\ consents' = consents \cup {code}
    BY DEF Approve
  <2> QED BY <2>1, <2>2
<1>1. UNCHANGED <<tokens, grants>>
  BY DEF Approve
<1>2. \A q \in Reqs : \/ pc'[q] = pc[q] /\ job'[q] = job[q]
                      \/ pc[q] = "idle" /\ pc'[q] = "recordUser"
  BY DEF Approve, Goto, TypeOK
<1>3. \A f : Alive(f)' <=> Alive(f)
  BY <1>1, <1>2 DEF Alive, Issuing
<1>4. \A k \in consents : k.id # d
  BY DEF IInv, MintedSoFar, TypeOK, AuthCode, Ids
<1>5. Phase(d) = "none" /\ Phase(d)' = "offered"
  BY <1>1, <1>4 DEF Phase
<1>6. ASSUME NEW e \in Ids, e # d
      PROVE  Phase(e)' = Phase(e)
  BY <1>1, <1>3, <1>6 DEF Phase
<1>7. Lifecycle!Offer(d)
  BY <1>5, <1>6 DEF Lifecycle!Offer
<1> QED BY <1>7

LEMMA ExchangeRedeems ==
  ASSUME TypeOK, IInv, NEW r \in Reqs, NEW c \in Clients, NEW k \in codes,
         ExchangeCode(r, c, k)
  PROVE  \E d \in Ids : Lifecycle!Redeem(d)
<1> PICK g : g.code = k.id /\ g.family = lastId + 1 /\ grants' = grants \cup {g}
  <2> DEFINE g == [code |-> k.id, family |-> lastId + 1]
  <2>1. g.code = k.id /\ g.family = lastId + 1 /\ grants' = grants \cup {g}
    BY DEF ExchangeCode
  <2> QED BY <2>1
<1>1. /\ codes' = codes \ {k}
      /\ UNCHANGED <<tokens, consents>>
      /\ pc[r] = "idle" /\ pc'[r] = "putAccess" /\ job'[r].family = lastId + 1
      /\ \A q \in Reqs : q # r => pc'[q] = pc[q] /\ job'[q] = job[q]
  BY DEF ExchangeCode, ConsumeCode, Goto, TypeOK
<1>2. k.id \in Ids
  BY DEF TypeOK, AuthCode
<1>3. \A h \in grants : h.family # g.family /\ h.code # k.id
  BY <1>1 DEF IInv, MintedSoFar, TypeOK, Ids, Approvals, CodeSingleUse
<1>4. \A h \in grants : Alive(h.family)' <=> Alive(h.family)
  BY <1>1, <1>3 DEF Alive, Issuing
<1>5. Alive(g.family)'
  BY <1>1 DEF Alive, Issuing
<1>6. Phase(k.id) = "offered" /\ Phase(k.id)' = "active"
  <2>1. k \in consents /\ \A l \in codes : l.id = k.id => l = k
    BY DEF IInv, Approvals
  <2> QED BY <1>1, <1>5, <2>1 DEF Phase
<1>7. ASSUME NEW e \in Ids, e # k.id
      PROVE  Phase(e)' = Phase(e)
  BY <1>1, <1>4, <1>7 DEF Phase
<1>8. Lifecycle!Redeem(k.id)
  BY <1>2, <1>6, <1>7 DEF Lifecycle!Redeem
<1> QED BY <1>2, <1>8

\* No retry, replay, crash or late request brings a family that has ended
\* back, or starts a second one from the same approval.
THEOREM TokensImplementGrantLifecycle == Spec => ImplementsGrantLifecycle
<1>1. Init => Lifecycle!Init
  BY DEF Init, Lifecycle!Init, Phase
<1>2. ASSUME TypeOK, IInv, [Next]_vars
      PROVE  [Lifecycle!Next]_PhaseOf
  <2> USE <1>2
  <2>1. ASSUME NEW r \in Reqs, NEW c \in Clients, NEW k \in codes, ExchangeCode(r, c, k)
        PROVE  Lifecycle!Next
    BY <2>1, ExchangeRedeems DEF Lifecycle!Next
  <2>2. ASSUME NEW r \in Reqs, NEW u \in Users, NEW c \in Clients, Approve(r, u, c)
        PROVE  Lifecycle!Next
    BY <2>2, ApproveOffers DEF Lifecycle!Next
  <2>3. CASE /\ ~ \E r \in Reqs, c \in Clients : \E k \in codes : ExchangeCode(r, c, k)
             /\ ~ \E r \in Reqs, u \in Users, c \in Clients : Approve(r, u, c)
    <3>1. codes' \subseteq codes /\ UNCHANGED <<consents, grants>>
      <4>1. CASE Recedes
        BY <4>1 DEF Recedes
      <4>2. ASSUME NEW r \in Reqs,
                   \/ PutAccess(r) \/ PutRefresh(r) \/ Rotate(r) \/ Answer(r) \/ TakeReplay(r)
                   \/ \E c \in Clients, h \in held : Refresh(r, c, h.id)
            PROVE  UNCHANGED <<codes, consents, grants>>
        BY <4>2 DEF PutAccess, PutRefresh, Rotate, Answer, TakeReplay, Refresh, store, history
      <4> QED BY <2>3, <4>1, <4>2, RecedingSteps
              DEF Next, TokenRequest, AccountRequest, Continue
    <3>2. \A f : Alive(f)' => Alive(f)
      BY <2>3, FamiliesOnlyEnd
    <3> QED BY <3>1, <3>2, OtherStepsClose DEF Lifecycle!Next
  <2> QED BY <2>1, <2>2, <2>3
<1> QED BY <1>1, <1>2, Invariant, PTL
        DEF Spec, ImplementsGrantLifecycle, Lifecycle!Spec, PhaseOf

-----------------------------------------------------------------------------
(* One request at a time.                                                  *)

\* No request runs between two steps of another.
Alone == \A r, q \in Reqs : r = q

\* What a request is about to end, or has yet to write, was begun, and is not
\* of a family that has ended.
EndedForGood ==
  /\ RevokedFamilyIsDead
  /\ \A r \in Reqs : pc[r] \in Issuing => job[r].family \notin revoked
  /\ \A f \in revoked : f <= lastId
  /\ \A r \in Reqs : pc[r] \in {"loggingOut", "reuseDetected"} => job[r].family <= lastId

\* A family has a number that was given out.
LEMMA FamilyMinted ==
  ASSUME IInv, NEW t \in tokens
  PROVE  t.family <= lastId
BY DEF IInv, Provenance, MintedSoFar

LEMMA EndedStep ==
  ASSUME Alone, TypeOK, TypeOK', IInv, EndedForGood, [Next]_vars
  PROVE  EndedForGood'
<1> USE DEF EndedForGood
<1>0. lastId \in Nat /\ revoked \subseteq Ids
  BY ConstantsAssumption DEF TypeOK
<1>1. ASSUME NEW r \in Reqs, EndFamily(r)
      PROVE  EndedForGood'
  <2>1. /\ tokens' = {t \in tokens : t.family # job[r].family}
        /\ revoked' = revoked \cup {job[r].family}
        /\ job[r].family <= lastId /\ lastId' = lastId
        /\ pc' = [pc EXCEPT ![r] = "idle"]
    BY <1>1 DEF EndFamily, RevokeFamily, Finish
  <2>2. \A q \in Reqs : pc'[q] = "idle"
    BY <2>1 DEF Alone, TypeOK
  <2> QED BY <1>0, <2>1, <2>2 DEF RevokedFamilyIsDead, Issuing
<1>2. ASSUME NEW r \in Reqs, NEW c \in Clients, NEW k \in codes, ExchangeCode(r, c, k)
      PROVE  EndedForGood'
  <2>1. /\ UNCHANGED <<tokens, revoked>> /\ lastId' = lastId + 3
        /\ pc' = [pc EXCEPT ![r] = "putAccess"]
        /\ job' = [job EXCEPT ![r] = [client |-> c, user |-> k.user, family |-> lastId + 1,
                     old |-> 0, access |-> lastId + 2, refresh |-> lastId + 3, now |-> clock]]
    BY <1>2 DEF ExchangeCode, Goto
  <2>2. \A q \in Reqs : pc'[q] = "putAccess" /\ job'[q].family = lastId + 1
    BY <2>1 DEF Alone, TypeOK
  <2> QED BY <1>0, <2>1, <2>2 DEF RevokedFamilyIsDead, Ids
<1>3. ASSUME NEW r \in Reqs, NEW c \in Clients, NEW h \in held, Refresh(r, c, h.id)
      PROVE  EndedForGood'
  <2>1. PICK t \in tokens : job' = [job EXCEPT ![r] =
             [client |-> c, user |-> t.user, family |-> t.family, old |-> h.id,
              access |-> lastId + 1, refresh |-> lastId + 2, now |-> clock]]
    BY <1>3 DEF Refresh, GetToken
  <2>2. /\ UNCHANGED <<tokens, revoked>> /\ lastId' = lastId + 2
        /\ pc' = [pc EXCEPT ![r] = "putAccess"]
    BY <1>3 DEF Refresh, Goto, store, history
  <2>3. \A q \in Reqs : pc'[q] = "putAccess" /\ job'[q].family = t.family
    BY <2>1, <2>2 DEF Alone, TypeOK
  <2>4. \A q \in Reqs : job'[q].family \notin revoked'
    BY <2>2, <2>3 DEF RevokedFamilyIsDead
  <2>5. \A f \in revoked' : f <= lastId'
    BY <1>0, <2>2 DEF Ids
  <2> QED BY <2>2, <2>3, <2>4, <2>5 DEF RevokedFamilyIsDead
<1>4. ASSUME NEW r \in Reqs, PutAccess(r) \/ PutRefresh(r)
      PROVE  EndedForGood'
  <2>1. PICK n : n.family = job[r].family /\ tokens' = tokens \cup {n}
    BY <1>4 DEF PutAccess, PutRefresh, Minted
  <2>2. /\ pc[r] \in Issuing /\ UNCHANGED <<revoked, lastId, job>>
        /\ \A q \in Reqs : pc'[q] \in Issuing \cup {"rotate", "answer"}
    BY <1>4 DEF PutAccess, PutRefresh, Issuing, Goto, history, Alone, TypeOK
  <2>3. \A q \in Reqs : job'[q].family \notin revoked
    BY <2>2 DEF Alone
  <2> QED BY <2>1, <2>2, <2>3 DEF RevokedFamilyIsDead, Issuing
<1>5. ASSUME NEW r \in Reqs, Rotate(r)
      PROVE  EndedForGood'
  <2>1. \A n \in tokens' : \E t \in tokens : n.family = t.family
    BY <1>5 DEF Rotate, RotateToken, TypeOK, TokenRecord
  <2>2. UNCHANGED <<revoked, lastId>> /\ \A q \in Reqs : pc'[q] = "answer"
    BY <1>5 DEF Rotate, Goto, history, Alone, TypeOK
  <2> QED BY <2>1, <2>2 DEF RevokedFamilyIsDead, Issuing
<1>6. ASSUME NEW r \in Reqs, NEW c \in Clients, NEW h \in held, Revoke(r, c, h.id, h.kind)
      PROVE  EndedForGood'
  <2>1. UNCHANGED <<tokens, revoked, lastId>>
    BY <1>6 DEF Revoke, store, history
  <2>2. CASE Goto(r, "revokeToken")
    BY <2>1, <2>2 DEF Goto, Alone, TypeOK, RevokedFamilyIsDead, Issuing
  <2>3. CASE \E t \in tokens :
               /\ Goto(r, "loggingOut")
               /\ job' = [job EXCEPT ![r] = [NoJob EXCEPT !.client = c, !.family = t.family]]
    <3>1. \A q \in Reqs : pc'[q] = "loggingOut" /\ \E t \in tokens : job'[q].family = t.family
      BY <2>3 DEF Goto, Alone, TypeOK, NoJob
    <3> QED BY <2>1, <3>1, FamilyMinted DEF RevokedFamilyIsDead, Issuing
  <2> QED BY <1>6, <2>2, <2>3 DEF Revoke, GetTokenAny
<1>7. ASSUME NEW r \in Reqs, DetectReuse(r)
      PROVE  EndedForGood'
  <2>1. UNCHANGED <<tokens, revoked, lastId>>
    BY <1>7 DEF DetectReuse, store, history
  <2>2. CASE Finish(r)
    BY <2>1, <2>2 DEF Finish, Alone, TypeOK, RevokedFamilyIsDead, Issuing
  <2>3. CASE \E t \in tokens : /\ job' = [job EXCEPT ![r].family = t.family]
                               /\ Goto(r, "reuseDetected")
    <3>1. \A q \in Reqs : /\ pc'[q] = "reuseDetected"
                          /\ \E t \in tokens : job'[q].family = t.family
      BY <2>3 DEF Goto, Alone, TypeOK, Job
    <3> QED BY <2>1, <3>1, FamilyMinted DEF RevokedFamilyIsDead, Issuing
  <2> QED BY <1>7, <2>2, <2>3 DEF DetectReuse, GetTokenAny
<1>8. ASSUME tokens' \subseteq tokens, revoked' = revoked, lastId' \in Nat, lastId' >= lastId,
             \A q \in Reqs : \/ pc'[q] = pc[q] /\ job'[q] = job[q]
                             \/ pc'[q] \notin Issuing \cup {"loggingOut", "reuseDetected"}
      PROVE  EndedForGood'
  <2>1. \A r \in Reqs : job[r].family \in Nat
    BY DEF TypeOK, Job, Ids
  <2> QED BY <1>0, <1>8, <2>1 DEF RevokedFamilyIsDead, Ids
<1>9. ASSUME NEW r \in Reqs,
             \/ RecordUser(r) \/ Answer(r) \/ TakeReplay(r) \/ EndToken(r) \/ DeleteRow(r)
             \/ Abort(r)
      PROVE  EndedForGood'
  <2>1. tokens' \subseteq tokens /\ UNCHANGED <<revoked, lastId>>
    BY <1>9 DEF RecordUser, Answer, TakeReplay, EndToken, DeleteRow, Abort, store, history
  <2>2. \A q \in Reqs : pc'[q] \in {"idle", "reuse"}
    BY <1>9 DEF RecordUser, Answer, TakeReplay, EndToken, DeleteRow, Abort, Finish, Goto,
                Alone, TypeOK
  <2> QED BY <1>0, <1>8, <2>1, <2>2 DEF Issuing
<1>10. ASSUME NEW r \in Reqs,
              \/ \E u \in Users : DeleteAccount(r, u) \/ \E c \in Clients : Approve(r, u, c)
              \/ \E c \in Clients, h \in held : RefreshMisses(r, c, h.id)
       PROVE  EndedForGood'
  <2>1. tokens' \subseteq tokens /\ revoked' = revoked /\ lastId' \in {lastId, lastId + 1}
    BY <1>10 DEF DeleteAccount, RevokeForUser, Approve, RefreshMisses, store, history
  <2>2. \A q \in Reqs : pc'[q] \in {"recordUser", "deleteRow", "missed"}
    BY <1>10 DEF DeleteAccount, Approve, RefreshMisses, Goto, Alone, TypeOK
  <2> QED BY <1>0, <1>8, <2>1, <2>2 DEF Issuing
<1>11. CASE \/ \E k \in codes : RefuseCode(k)
            \/ \E i \in Instances : Restart(i)
            \/ PurgeExpired \/ Tick \/ UNCHANGED vars
  <2>1. tokens' \subseteq tokens /\ UNCHANGED <<revoked, lastId>>
    BY <1>11 DEF RefuseCode, Restart, PurgeExpired, Tick, vars, store, history
  <2>2. \A q \in Reqs : (pc'[q] = pc[q] /\ job'[q] = job[q]) \/ pc'[q] = "idle"
    BY <1>11 DEF RefuseCode, Restart, PurgeExpired, Tick, vars
  <2> QED BY <1>0, <1>8, <2>1, <2>2 DEF Issuing
<1> QED BY <1>1, <1>2, <1>3, <1>4, <1>5, <1>6, <1>7, <1>9, <1>10, <1>11
        DEF Next, TokenRequest, AccountRequest, Continue

\* Served one request at a time: once a family was revoked, by a logout or for
\* a reuse, no token of it exists again.
THEOREM RevokedFamiliesStayDead ==
  ASSUME Alone
  PROVE  Spec => []RevokedFamilyIsDead
<1>1. Init => EndedForGood
  BY DEF Init, EndedForGood, RevokedFamilyIsDead, Issuing
<1>2. TypeOK /\ TypeOK' /\ IInv /\ EndedForGood /\ [Next]_vars => EndedForGood'
  BY EndedStep
<1>3. EndedForGood => RevokedFamilyIsDead
  BY DEF EndedForGood
<1> QED BY <1>1, <1>2, <1>3, Invariant, PTL DEF Spec

\* A refresh token some client can still come by and would be served for.
Reachable(id) ==
  \/ \E h \in held : h.kind = "refresh" /\ h.id = id
  \/ \E i \in Instances : \E e \in replay[i] : e.refresh = id
  \/ \E r \in Reqs : pc[r] = "answer" /\ job[r].refresh = id

Fit(t) == t.kind = "refresh" /\ ~t.revoked /\ Reachable(t.id)

\* There is one in a family, and while its successor is made it is the token
\* the request will rotate out.
OneFit ==
  /\ \A s, t \in tokens : Fit(s) /\ Fit(t) /\ s.family = t.family => s = t
  /\ \A r \in Reqs, t \in tokens :
       pc[r] \in Issuing \cup {"rotate"} /\ Fit(t) /\ t.family = job[r].family
         => t.id = job[r].old

\* A step that makes nothing reachable, and no request begin to mint.
LEMMA FitShrinks ==
  ASSUME OneFit, tokens' \subseteq tokens, \A id : Reachable(id)' => Reachable(id),
         \A q \in Reqs : pc'[q] \in Issuing \cup {"rotate"} => pc'[q] = pc[q] /\ job'[q] = job[q]
  PROVE  OneFit'
<1>1. \A t : Fit(t)' => Fit(t)
  BY DEF Fit
<1> QED BY <1>1 DEF OneFit

\* The new pair is not reachable before it is answered with.
LEMMA NotYetReachable ==
  ASSUME Alone, TypeOK, IInv, NEW r \in Reqs, pc[r] \in Minting, pc[r] # "answer"
  PROVE  ~Reachable(job[r].refresh)
BY DEF Reachable, Alone, IInv, PairsPrivate, Pair

LEMMA OneFitStep ==
  ASSUME Alone, TypeOK, TypeOK', IInv, OneFit, [Next]_vars
  PROVE  OneFit'
<1>1. CASE Recedes
  <2>1. \A id : Reachable(id)' => Reachable(id)
    BY <1>1 DEF Recedes, Reachable, Minting
  <2>2. \A q \in Reqs : pc'[q] \in Issuing \cup {"rotate"} => pc'[q] = pc[q] /\ job'[q] = job[q]
    BY <1>1 DEF Recedes, Minting, Issuing
  <2> QED BY <1>1, <2>1, <2>2, FitShrinks DEF Recedes
<1>2. ASSUME NEW r \in Reqs, NEW u \in Users, NEW c \in Clients, Approve(r, u, c)
      PROVE  OneFit'
  <2>1. UNCHANGED <<tokens, held, replay>> /\ \A q \in Reqs : pc'[q] = "recordUser"
    BY <1>2 DEF Approve, Goto, Alone, TypeOK
  <2> QED BY <2>1, FitShrinks DEF Reachable, Issuing
<1>3. ASSUME NEW r \in Reqs, Answer(r)
      PROVE  OneFit'
  <2>1. tokens' = tokens /\ pc[r] = "answer" /\ \A q \in Reqs : pc'[q] = "idle"
    BY <1>3 DEF Answer, Finish, Alone, TypeOK, store
  <2>2. \A h \in held' : h \in held \/ h.id = job[r].refresh \/ h.kind = "access"
    BY <1>3 DEF Answer, Deliver
  <2>3. \A i \in Instances : \A e \in replay'[i] :
          e \in replay[i] \/ e.refresh = job[r].refresh
    <3> DEFINE entry == [id |-> job[r].old, deadline |-> job[r].now + Grace,
                         client |-> job[r].client, access |-> job[r].access,
                         refresh |-> job[r].refresh]
    <3>1. \A i \in Instances : replay'[i] \subseteq replay[i] \cup {entry}
      BY <1>3, RememberOnlyAdds DEF Answer, TypeOK
    <3> QED BY <3>1
  <2>4. \A id : Reachable(id)' => Reachable(id)
    BY <2>1, <2>2, <2>3 DEF Reachable
  <2> QED BY <2>1, <2>4, FitShrinks DEF Issuing
<1>4. ASSUME NEW r \in Reqs, TakeReplay(r), held' # held
      PROVE  OneFit'
  <2>1. PICK e \in replay[Host[r]] : Deliver(job[r].client, e.access, e.refresh)
    BY <1>4 DEF TakeReplay, Replayable
  <2>2. Host[r] \in Instances
    BY ConstantsAssumption
  <2>3. tokens' = tokens /\ \A q \in Reqs : pc'[q] = "idle"
    BY <1>4 DEF TakeReplay, Finish, Alone, TypeOK, store
  <2>4. \A i \in Instances : replay'[i] \subseteq replay[i]
    BY <1>4, <2>2 DEF TypeOK, TakeReplay
  <2>5. \A h \in held' : h \in held \/ h.id = e.refresh \/ h.kind = "access"
    BY <2>1 DEF Deliver
  <2>6. \A id : Reachable(id)' => Reachable(id)
    BY <2>2, <2>3, <2>4, <2>5 DEF Reachable
  <2> QED BY <2>3, <2>6, FitShrinks DEF Issuing
<1>5. ASSUME NEW r \in Reqs, NEW c \in Clients, NEW k \in codes, ExchangeCode(r, c, k)
      PROVE  OneFit'
  <2>1. /\ UNCHANGED <<tokens, held, replay>>
        /\ \A q \in Reqs : pc'[q] = "putAccess" /\ job'[q].family = lastId + 1
    BY <1>5 DEF ExchangeCode, Goto, Alone, TypeOK
  <2>2. \A t \in tokens : t.family # lastId + 1
    BY FamilyMinted, ConstantsAssumption DEF TypeOK, TokenRecord, Ids
  <2>3. \A t : Fit(t)' => Fit(t)
    BY <2>1 DEF Fit, Reachable
  <2> QED BY <2>1, <2>2, <2>3 DEF OneFit
<1>6. ASSUME NEW r \in Reqs, NEW c \in Clients, NEW h \in held, Refresh(r, c, h.id)
      PROVE  OneFit'
  <2>1. PICK t \in GetToken(h.id, "refresh") : job' = [job EXCEPT ![r] =
             [client |-> c, user |-> t.user, family |-> t.family, old |-> h.id,
              access |-> lastId + 1, refresh |-> lastId + 2, now |-> clock]]
    BY <1>6 DEF Refresh
  <2>2. /\ UNCHANGED <<tokens, held, replay>>
        /\ \A q \in Reqs : pc'[q] = "putAccess" /\ job'[q].family = t.family /\ job'[q].old = h.id
    BY <1>6, <2>1 DEF Refresh, Goto, Alone, TypeOK, store
  <2>3. t \in tokens /\ t.id = h.id /\ Fit(t)
    BY DEF GetToken, Fit, Reachable, IInv, HeldMatches
  <2>4. \A s : Fit(s)' => Fit(s)
    BY <2>2 DEF Fit, Reachable
  <2> QED BY <2>2, <2>3, <2>4 DEF OneFit
<1>7. ASSUME NEW r \in Reqs, PutAccess(r)
      PROVE  OneFit'
  <2>1. PICK n : n.kind = "access" /\ tokens' = tokens \cup {n}
    BY <1>7 DEF PutAccess, Minted
  <2>2. /\ UNCHANGED <<held, replay, job>> /\ pc[r] = "putAccess"
        /\ \A q \in Reqs : pc'[q] = "putRefresh"
    BY <1>7 DEF PutAccess, Goto, Alone, TypeOK
  <2>3. \A s : Fit(s)' => Fit(s) /\ s.kind = "refresh"
    BY <2>2 DEF Fit, Reachable
  <2>4. \A q \in Reqs : pc[q] \in Issuing
    BY <2>2 DEF Alone, Issuing
  <2> QED BY <2>1, <2>2, <2>3, <2>4 DEF OneFit
<1>8. ASSUME NEW r \in Reqs, PutRefresh(r)
      PROVE  OneFit'
  <2>1. PICK n : n.id = job[r].refresh /\ n.family = job[r].family /\ tokens' = tokens \cup {n}
    BY <1>8 DEF PutRefresh, Minted
  <2>2. /\ UNCHANGED <<held, replay, job>> /\ pc[r] = "putRefresh"
        /\ \A q \in Reqs : pc'[q] = IF job[r].old = 0 THEN "answer" ELSE "rotate"
    BY <1>8 DEF PutRefresh, Goto, Alone, TypeOK
  <2>3. ~Reachable(job[r].refresh)
    BY <2>2, NotYetReachable DEF Minting
  <2>4. \A t \in tokens : Fit(t) /\ t.family = job[r].family => t.id = job[r].old
    BY <2>2 DEF OneFit, Issuing
  <2>5. CASE job[r].old = 0
    <3>1. \A t \in tokens : ~(Fit(t) /\ t.family = job[r].family)
      BY <2>4, <2>5 DEF TypeOK, TokenRecord, Ids
    <3>2. \A s : Fit(s)' => Fit(s) \/ s.id = job[r].refresh
      BY <2>2, <2>5 DEF Fit, Reachable, Alone
    <3>3. \A t \in tokens : t.id # job[r].refresh
      BY <2>2 DEF IInv, PairsStored
    <3> QED BY <2>1, <2>2, <2>5, <3>1, <3>2, <3>3 DEF OneFit, Issuing
  <2>6. CASE job[r].old # 0
    <3>1. \A s : Fit(s)' => Fit(s)
      BY <2>2, <2>6 DEF Fit, Reachable
    <3>2. ~Fit(n)
      BY <2>1, <2>3 DEF Fit
    <3> QED BY <2>1, <2>2, <2>4, <3>1, <3>2 DEF OneFit, Alone
  <2> QED BY <2>5, <2>6
<1>9. ASSUME NEW r \in Reqs, Rotate(r)
      PROVE  OneFit'
  <2>1. /\ UNCHANGED <<held, replay, job>> /\ pc[r] = "rotate"
        /\ \A q \in Reqs : pc'[q] = "answer"
    BY <1>9 DEF Rotate, Goto, Alone, TypeOK
  <2>2. \A t \in tokens' : ~t.revoked => t \in tokens /\ t.id # job[r].old
    BY <1>9 DEF Rotate, RotateToken, TypeOK, TokenRecord
  <2>3. \A s : Fit(s)' => Fit(s) \/ s.id = job[r].refresh
    BY <2>1 DEF Fit, Reachable, Alone
  <2>4. \A t \in tokens : t.id = job[r].refresh => t.family = job[r].family
    BY <2>1 DEF IInv, PairsStored, Pair, Minting
  <2>5. \A t \in tokens' : Fit(t)' /\ t.family = job[r].family => t.id = job[r].refresh
    BY <2>1, <2>2, <2>3 DEF OneFit, Fit
  <2>6. ASSUME NEW s \in tokens', NEW t \in tokens', Fit(s)', Fit(t)', s.family = t.family
        PROVE  s = t
    <3>1. s \in tokens /\ t \in tokens
      BY <2>2, <2>6 DEF Fit
    <3>2. CASE s.family = job[r].family
      <4>1. s.id = t.id
        BY <2>5, <2>6, <3>2
      <4> QED BY <3>1, <4>1 DEF IInv, TokensUnique
    <3>3. CASE s.family # job[r].family
      <4>1. Fit(s) /\ Fit(t)
        BY <2>3, <2>4, <2>6, <3>1, <3>3
      <4> QED BY <2>6, <3>1, <4>1 DEF OneFit
    <3> QED BY <3>2, <3>3
  <2> QED BY <2>1, <2>6 DEF OneFit, Issuing
<1> QED BY <1>1, <1>2, <1>3, <1>4, <1>5, <1>6, <1>7, <1>8, <1>9, RecedingSteps
        DEF Next, TokenRequest, AccountRequest, Continue

\* Served one request at a time: clients hold at most one refresh token of a
\* family that still works, however many responses are lost or retried.
THEOREM OneRefreshWorks ==
  ASSUME Alone
  PROVE  Spec => []OneUsableRefresh
<1>1. Init => OneFit
  BY DEF Init, OneFit
<1>2. TypeOK /\ TypeOK' /\ IInv /\ OneFit /\ [Next]_vars => OneFit'
  BY OneFitStep
<1>3. TypeOK /\ IInv /\ OneFit => OneUsableRefresh
  BY DEF OneFit, Fit, Reachable, Usable, OneUsableRefresh, IInv, HeldMatches
<1> QED BY <1>1, <1>2, <1>3, Invariant, PTL DEF Spec

\* A deletion that goes for the account row has left no token of the account.
NothingLeft ==
  \A r \in Reqs, t \in tokens : pc[r] = "deleteRow" => t.user # job[r].user

\* Served one request at a time, by a store that does not fail: when the row
\* of an account goes, no live token of it is left.
THEOREM DeletedAccountsAreSignedOut ==
  ASSUME Alone, ~StoreFaults
  PROVE  Spec => AccountGoneMeansSignedOut
<1> DEFINE SignedOut == \A u \in accounts \ accounts' :
                          \A t \in tokens' : t.user = u => ~LiveAccess(t)
<1>1. Init => NothingLeft
  BY DEF Init, NothingLeft
<1>2. TypeOK /\ TypeOK' /\ NothingLeft /\ [Next]_vars => NothingLeft'
  <2> SUFFICES ASSUME TypeOK, TypeOK', NothingLeft, [Next]_vars
               PROVE  NothingLeft'
    OBVIOUS
  <2>1. ASSUME NEW r \in Reqs, NEW u \in Users, DeleteAccount(r, u)
        PROVE  NothingLeft'
    BY <2>1 DEF DeleteAccount, RevokeForUser, Goto, Alone, TypeOK, NoJob, NothingLeft
  <2>2. ASSUME NEW r \in Reqs, TokenRequest(r) \/ Continue(r) \/ Abort(r)
                               \/ \E u \in Users, c \in Clients : Approve(r, u, c)
        PROVE  NothingLeft'
    <3>1. pc'[r] # "deleteRow"
      BY <2>2
      DEF TokenRequest, ExchangeCode, Refresh, RefreshMisses, Revoke, Continue, RecordUser,
          PutAccess, PutRefresh, Rotate, Answer, TakeReplay, DetectReuse, EndFamily, EndToken,
          DeleteRow, Abort, Approve, Goto, Finish, TypeOK
    <3> QED BY <3>1 DEF Alone, NothingLeft
  <2>3. CASE \/ \E k \in codes : RefuseCode(k)
             \/ \E i \in Instances : Restart(i)
             \/ PurgeExpired \/ Tick \/ UNCHANGED vars
    <3>1. tokens' \subseteq tokens
      BY <2>3 DEF RefuseCode, Restart, PurgeExpired, Tick, vars, store
    <3>2. \A q \in Reqs : (pc'[q] = pc[q] /\ job'[q] = job[q]) \/ pc'[q] = "idle"
      BY <2>3 DEF RefuseCode, Restart, PurgeExpired, Tick, vars
    <3> QED BY <3>1, <3>2 DEF NothingLeft
  <2> QED BY <2>1, <2>2, <2>3 DEF Next, AccountRequest
<1>3. TypeOK /\ NothingLeft /\ [Next]_vars => SignedOut
  <2> SUFFICES ASSUME TypeOK, NothingLeft, [Next]_vars, NEW u \in accounts \ accounts',
                      NEW t \in tokens'
               PROVE  t.user # u
    OBVIOUS
  <2>1. ASSUME NEW r \in Reqs, TokenRequest(r) \/ AccountRequest(r) \/ Abort(r)
        PROVE  accounts' = accounts
    BY <2>1 DEF TokenRequest, ExchangeCode, Refresh, RefreshMisses, Revoke, AccountRequest,
                DeleteAccount, Approve, Abort, store
  <2>2. ASSUME NEW r \in Reqs, Continue(r), ~DeleteRow(r)
        PROVE  accounts \subseteq accounts'
    BY <2>2 DEF Continue, RecordUser, PutAccess, PutRefresh, Rotate, Answer, TakeReplay,
                DetectReuse, EndFamily, EndToken, store
  <2>3. CASE \/ \E k \in codes : RefuseCode(k)
             \/ \E i \in Instances : Restart(i)
             \/ PurgeExpired \/ Tick \/ UNCHANGED vars
    BY <2>3 DEF RefuseCode, Restart, PurgeExpired, Tick, vars, store
  <2>4. CASE \E r \in Reqs : DeleteRow(r)
    BY <2>4 DEF DeleteRow, NothingLeft
  <2>5. CASE \E r \in Reqs : TokenRequest(r) \/ AccountRequest(r) \/ Abort(r)
    BY <2>1, <2>5
  <2>6. CASE \E r \in Reqs : Continue(r) /\ ~DeleteRow(r)
    BY <2>2, <2>6
  <2> QED BY <2>3, <2>4, <2>5, <2>6 DEF Next
<1> QED BY <1>1, <1>2, <1>3, Invariant, PTL DEF Spec, AccountGoneMeansSignedOut

=============================================================================
