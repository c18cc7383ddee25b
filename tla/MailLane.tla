------------------------------ MODULE MailLane ------------------------------
(***************************************************************************)
(* Account rows and the mail they receive (src/freeusers.py,               *)
(* src/maillist.py, and their callers in oauthroutes.py and server.py):    *)
(* signing in for the first time, the contact sync and the welcome note,   *)
(* usage recorded behind a tool call, the cap note it may trigger,         *)
(* unsubscribing and deleting the account.                                 *)
(*                                                                         *)
(* Everything but unsubscribing is a task of several statements, each a    *)
(* transaction of its own: a hand-off after the first sign-in, a usage     *)
(* task after a tool call, a deletion. Each action below is one statement  *)
(* or one call to the mail provider. A task may die at any of them (an     *)
(* instance that freezes, a store that refuses: the code logs and goes).   *)
(* Both notes and the contact sync are switched on, every account has a    *)
(* verified address, and the days of the model lie in one month. A task    *)
(* takes seconds and a step of the clock is a day, so none spans two days. *)
(***************************************************************************)
EXTENDS Naturals, FiniteSets, FiniteSetsExt, Sequences

CONSTANTS
  Users,        \* Google accounts
  Tasks,        \* tasks that may be under way at the same time
  None,         \* no row, no stamp, no task
  NoteGap,      \* CAP_NOTE_MIN_GAP_DAYS
  WelcomeGap,   \* CAP_NOTE_WELCOME_GAP_HOURS, in days
  LaneCap,      \* CAP_NOTE_LANE_DAY_CAP
  Week,         \* the days in which refusals are counted
  MonthCap, MonthDays, SpareDays,  \* the month cap, the month, and how much
                \* of the month must be left (days_left_in_month >= 5)
  SettledContacts,  \* how the provider may know the accounts that are welcomed
  FirstDay, MaxDay, MaxJobs        \* bounds of the model: days, tasks begun

ASSUME MailAssumption ==
  /\ IsFiniteSet(Users) /\ IsFiniteSet(Tasks)
  /\ {NoteGap, WelcomeGap, LaneCap, Week, MonthCap, MonthDays, SpareDays,
      FirstDay, MaxDay, MaxJobs} \subseteq Nat
  /\ FirstDay <= MaxDay /\ MaxDay < MonthDays /\ MaxJobs > 0
  /\ NoteGap > 0 /\ Tasks # {}
  /\ SettledContacts \subseteq {"absent", "subscribed", "unsubscribed"}
  /\ None \notin Nat

VARIABLES
  day,       \* today, in UTC
  rows,      \* free_mcp_users
  usage,     \* free_mcp_user_days: searches and cap hits of a day
  contacts,  \* the audience at the provider
  pc, job,   \* where each task stands and what it carries
  \* History.
  births,    \* how often the row of an account was inserted
  sent,      \* the messages the provider took for each account
  begun,     \* how many tasks have begun
  deleted,   \* whether a row was deleted today
  undone     \* how often a post of the sync undid an unsubscribe at the provider

vars == <<day, rows, usage, contacts, pc, job, births, sent, begun, deleted, undone>>

-----------------------------------------------------------------------------
Days == 0 .. MaxDay

\* A row, without the columns that no step reads (last_seen, call_count,
\* client_kind, resend_state). Its unsubscribe token is fresh, so the number
\* of rows the account has had will do; an empty token is 0.
Row == [optOut : BOOLEAN, token : 1 .. MaxJobs, welcome : Days \cup {None},
        note : Days \cup {None}]

ASSUME NoRowAssumption == None \notin Row

Usage == [searches : 0 .. MaxJobs + 1, hits : 0 .. MaxJobs]
NoUsage == [searches |-> 0, hits |-> 0]

Contacts == {"absent", "subscribed", "unsubscribed"}

Message == [kind : {"welcome", "note"}, day : Days, token : 0 .. MaxJobs]

\* The locals of a task: the token of the row it read, whether the sync found
\* the address unsubscribed, and the lane's count its claim has seen.
Job == [user : Users, token : 0 .. MaxJobs, unsubscribed : BOOLEAN, lane : Nat]

NewJob(u) == [user |-> u, token |-> 0, unsubscribed |-> FALSE, lane |-> 0]

HandOffSteps == {"fetchToken", "lookUp", "create", "readRow", "claimWelcome",
                 "postWelcome", "releaseWelcome"}
UsageSteps == {"bumpSearch", "bumpHit", "signals", "readAccount", "countLane",
               "claimNote", "postNote", "releaseNote"}
DeleteSteps == {"deleteUsage", "deleteRow"}
Steps == {"idle"} \cup HandOffSteps \cup UsageSteps \cup DeleteSteps

TypeOK ==
  /\ day \in Days
  /\ rows \in [Users -> Row \cup {None}]
  /\ usage \in [Users -> [Days -> Usage]]
  /\ contacts \in [Users -> Contacts]
  /\ pc \in [Tasks -> Steps]
  /\ \A t \in Tasks : pc[t] # "idle" => job[t] \in Job
  /\ births \in [Users -> 0 .. MaxJobs]
  /\ \A u \in Users : \A i \in DOMAIN sent[u] : sent[u][i] \in Message
  /\ begun \in 0 .. MaxJobs
  /\ deleted \in BOOLEAN
  /\ undone \in [Users -> Nat]

\* The lane is found on its FirstDay: some accounts signed in on day 0, were
\* welcomed, and searched once that day; the others are new. Any of them may
\* have a history at the provider.
Settled == [optOut |-> FALSE, token |-> 1, welcome |-> 0, note |-> None]

Init ==
  /\ day = FirstDay
  /\ rows \in [Users -> {Settled, None}]
  /\ usage = [u \in Users |-> [d \in Days |->
               IF d = 0 /\ rows[u] # None THEN [NoUsage EXCEPT !.searches = 1]
                                           ELSE NoUsage]]
  /\ contacts \in {c \in [Users -> Contacts] :
                    \A u \in Users : rows[u] # None => c[u] \in SettledContacts}
  /\ pc = [t \in Tasks |-> "idle"]
  /\ job = [t \in Tasks |-> None]
  /\ births = [u \in Users |-> IF rows[u] = None THEN 0 ELSE 1]
  /\ sent = [u \in Users |-> IF rows[u] = None THEN << >>
                             ELSE <<[kind |-> "welcome", day |-> 0, token |-> 1]>>]
  /\ begun = 0
  /\ deleted = FALSE
  /\ undone = [u \in Users |-> 0]

-----------------------------------------------------------------------------
(* Statements.                                                             *)

HasRow(u) == rows[u] # None

\* An UPDATE of a column of the row of u, which may not be there.
UpdateRow(u, col, value) ==
  rows' = IF HasRow(u) THEN [rows EXCEPT ![u][col] = value] ELSE rows

\* Mutant: a sign-in that finds the row is reported as the first as well.
UpsertAnew(u) ==
  /\ births[u] < MaxJobs
  /\ IF HasRow(u)
     THEN UNCHANGED <<rows, births>>
     ELSE /\ births' = [births EXCEPT ![u] = @ + 1]
          /\ rows' = [rows EXCEPT ![u] =
               [optOut |-> FALSE, token |-> births[u] + 1, welcome |-> None,
                note |-> None]]

\* _UPSERT: inserts, or leaves a row as it is but for what no step reads.
Upsert(u) ==
  /\ ~HasRow(u)
  /\ births[u] < MaxJobs
  /\ births' = [births EXCEPT ![u] = @ + 1]
  /\ rows' = [rows EXCEPT ![u] =
       [optOut |-> FALSE, token |-> births[u] + 1, welcome |-> None,
        note |-> None]]

\* _MARK_WELCOME: who finds the stamp empty has claimed the note.
MarksWelcome(u) == HasRow(u) /\ rows[u].welcome = None

\* The lane's ceiling is counted in the snapshot the statement begins with.
LaneCount == Cardinality({u \in Users : HasRow(u) /\ rows[u].note = day})

\* _CLAIM_CAP_NOTE: the row is looked at again once it is locked.
GapOver(stamp, gap) == stamp = None \/ stamp + gap <= day

\* Mutants: a rule of the claim is missing.
ClaimsNoteOfOptedOut(u, lane) ==
  /\ HasRow(u)
  /\ GapOver(rows[u].note, NoteGap)
  /\ GapOver(rows[u].welcome, WelcomeGap)
  /\ lane < LaneCap

ClaimsNoteUncounted(u, lane) ==
  /\ HasRow(u)
  /\ ~rows[u].optOut
  /\ GapOver(rows[u].note, NoteGap)
  /\ GapOver(rows[u].welcome, WelcomeGap)

ClaimsNote(u, lane) ==
  /\ HasRow(u)
  /\ ~rows[u].optOut
  /\ GapOver(rows[u].note, NoteGap)
  /\ GapOver(rows[u].welcome, WelcomeGap)
  /\ lane < LaneCap

-----------------------------------------------------------------------------
(* cap_signals and cap_note_branch.                                        *)

ActiveDays(u) == {d \in Days : usage[u][d].searches > 0}
CapDays(u) == {d \in Days : usage[u][d].hits > 0 /\ d + Week > day}

MonthSearches(u) == MapThenSumSet(LAMBDA d : usage[u][d].searches, Days)

DailyBranch(u) == Cardinality(CapDays(u)) >= 2
MonthlyBranch(u) == /\ MonthCap > 0
                    /\ MonthSearches(u) * 100 >= MonthCap * 60
                    /\ MonthDays - 1 - day >= SpareDays

CapNoteDue(u) == Cardinality(ActiveDays(u)) >= 2 /\ (DailyBranch(u) \/ MonthlyBranch(u))

-----------------------------------------------------------------------------
(* Tasks.                                                                  *)

\* Mutant: the task keeps the locals of whatever ran in its place before.
BeginStale(t, u, step) ==
  /\ pc[t] = "idle"
  /\ begun < MaxJobs
  /\ begun' = begun + 1
  /\ pc' = [pc EXCEPT ![t] = step]
  /\ job' = job

Begin(t, u, step) ==
  /\ pc[t] = "idle"
  /\ begun < MaxJobs
  /\ begun' = begun + 1
  /\ pc' = [pc EXCEPT ![t] = step]
  /\ job' = [job EXCEPT ![t] = NewJob(u)]

Go(t, step) ==
  /\ pc' = [pc EXCEPT ![t] = step]
  /\ job' = IF step = "idle" THEN [job EXCEPT ![t] = None] ELSE job
  /\ UNCHANGED <<day, births, begun>>

\* The same, with a local set.
GoWith(t, step, field, value) ==
  /\ pc' = [pc EXCEPT ![t] = step]
  /\ job' = [job EXCEPT ![t][field] = value]
  /\ UNCHANGED <<day, births, begun>>

store == <<rows, usage>>
mail == <<contacts, sent, undone>>

Takes(t, kind) ==
  sent' = [sent EXCEPT ![job[t].user] =
             Append(@, [kind |-> kind, day |-> day, token |-> job[t].token])]

\* connect_callback and authorize_decision, by way of _remember: only the
\* insert begins a hand-off.
SignIn(t, u) ==
  /\ Upsert(u)
  /\ Begin(t, u, "fetchToken")
  /\ UNCHANGED <<day, usage, mail, deleted>>

FetchToken(t) ==
  /\ pc[t] = "fetchToken"
  /\ LET u == job[t].user
     IN GoWith(t, "lookUp", "token", IF HasRow(u) THEN rows[u].token ELSE 0)
  /\ UNCHANGED <<store, mail, deleted>>

\* sync_contact. An address that was found is left alone; one that was not,
\* or whose lookup is answered with 400 whatever there is to find, is posted;
\* after any other answer, or none, the sync gives up.
LookUpContact(t) ==
  /\ pc[t] = "lookUp"
  /\ LET found == contacts[job[t].user] IN
     \/ found = "absent" /\ Go(t, "create")                              \* 404
     \/ found # "absent" /\ GoWith(t, "readRow", "unsubscribed", found = "unsubscribed")
     \/ Go(t, "create")                                                  \* 400
     \/ Go(t, "readRow")
  /\ UNCHANGED <<store, mail, deleted>>

\* The provider upserts: a contact that is there is subscribed again. It
\* may also decline, or not be reached.
CreateContact(t) ==
  /\ pc[t] = "create"
  /\ \/ LET u == job[t].user IN
        /\ contacts' = [contacts EXCEPT ![u] = "subscribed"]
        /\ undone' = IF contacts[u] = "unsubscribed" THEN [undone EXCEPT ![u] = @ + 1]
                                                     ELSE undone
     \/ UNCHANGED <<contacts, undone>>
  /\ Go(t, "readRow")
  /\ UNCHANGED <<store, sent, deleted>>

\* remember_signin: a row that is gone, or cannot be read, is not opted out.
ReadRow(t) ==
  /\ pc[t] = "readRow"
  /\ \/ /\ HasRow(job[t].user) /\ rows[job[t].user].optOut
        /\ Go(t, "idle")
     \/ Go(t, "claimWelcome")
  /\ UNCHANGED <<store, mail, deleted>>

ClaimWelcome(t) ==
  /\ pc[t] = "claimWelcome"
  /\ LET u == job[t].user
     IN IF MarksWelcome(u) THEN UpdateRow(u, "welcome", day) /\ Go(t, "postWelcome")
                           ELSE rows' = rows /\ Go(t, "idle")
  /\ UNCHANGED <<usage, mail, deleted>>

\* Mutant: a send without an answer is given back too.
PostReleasesUnknown(t, kind, kept, refused) ==
  \/ Takes(t, kind) /\ Go(t, kept)
  \/ Takes(t, kind) /\ Go(t, refused)
  \/ sent' = sent /\ Go(t, refused)

\* _post: taken; taken or lost without an answer, and the claim stands;
\* refused, and the claim is given back.
Post(t, kind, kept, refused) ==
  \/ Takes(t, kind) /\ Go(t, kept)
  \/ sent' = sent /\ Go(t, kept)
  \/ sent' = sent /\ Go(t, refused)

PostWelcome(t) ==
  /\ pc[t] = "postWelcome"
  /\ Post(t, "welcome", "idle", "releaseWelcome")
  /\ UNCHANGED <<store, contacts, undone, deleted>>

ReleaseWelcome(t) ==
  /\ pc[t] = "releaseWelcome"
  /\ UpdateRow(job[t].user, "welcome", None)
  /\ Go(t, "idle")
  /\ UNCHANGED <<usage, mail, deleted>>

\* _note_signed_in_usage, after a call that spent a search or was refused by
\* the day cap.
ToolCall(t, u) ==
  /\ HasRow(u)
  /\ \/ Begin(t, u, "bumpSearch")
     \/ Begin(t, u, "bumpHit")
  /\ UNCHANGED <<day, store, mail, births, deleted>>

\* touch and note_cap_hit: the day row is inserted whether or not the account
\* is still there. A failed write is logged, and the pass goes on.
BumpUsage(t) ==
  /\ pc[t] \in {"bumpSearch", "bumpHit"}
  /\ LET field == IF pc[t] = "bumpHit" THEN "hits" ELSE "searches"
     IN usage' \in {usage, [usage EXCEPT ![job[t].user][day][field] = @ + 1]}
  /\ Go(t, "signals")
  /\ UNCHANGED <<rows, mail, deleted>>

\* maybe_send_cap_note: the signals, the row, the claim, the send.
ReadSignals(t) ==
  /\ pc[t] = "signals"
  /\ Go(t, IF CapNoteDue(job[t].user) THEN "readAccount" ELSE "idle")
  /\ UNCHANGED <<store, mail, deleted>>

ReadAccount(t) ==
  /\ pc[t] = "readAccount"
  /\ LET u == job[t].user
     IN IF HasRow(u) /\ ~rows[u].optOut
        THEN GoWith(t, "countLane", "token", rows[u].token)
        ELSE Go(t, "idle")
  /\ UNCHANGED <<store, mail, deleted>>

CountLane(t) ==
  /\ pc[t] = "countLane"
  /\ GoWith(t, "claimNote", "lane", LaneCount)
  /\ UNCHANGED <<store, mail, deleted>>

ClaimNote(t) ==
  /\ pc[t] = "claimNote"
  /\ LET u == job[t].user
     IN IF ClaimsNote(u, job[t].lane)
        THEN UpdateRow(u, "note", day) /\ Go(t, "postNote")
        ELSE rows' = rows /\ Go(t, "idle")
  /\ UNCHANGED <<usage, mail, deleted>>

PostNote(t) ==
  /\ pc[t] = "postNote"
  /\ Post(t, "note", "idle", "releaseNote")
  /\ UNCHANGED <<store, contacts, undone, deleted>>

ReleaseNote(t) ==
  /\ pc[t] = "releaseNote"
  /\ UpdateRow(job[t].user, "note", None)
  /\ Go(t, "idle")
  /\ UNCHANGED <<usage, mail, deleted>>

\* connect_delete, after the tokens: the usage rows, then the account.
DeleteAccount(t, u) ==
  /\ HasRow(u)
  /\ Begin(t, u, "deleteUsage")
  /\ UNCHANGED <<day, store, mail, births, deleted>>

DeleteUsage(t) ==
  /\ pc[t] = "deleteUsage"
  /\ usage' = [usage EXCEPT ![job[t].user] = [d \in Days |-> NoUsage]]
  /\ Go(t, "deleteRow")
  /\ UNCHANGED <<rows, mail, deleted>>

DeleteRow(t) ==
  /\ pc[t] = "deleteRow"
  /\ rows' = [rows EXCEPT ![job[t].user] = None]
  /\ deleted' = TRUE
  /\ Go(t, "idle")
  /\ UNCHANGED <<usage, mail>>

\* A task dies, or its statement fails and it gives up.
Abort(t) ==
  /\ pc[t] # "idle"
  /\ Go(t, "idle")
  /\ UNCHANGED <<store, mail, deleted>>

-----------------------------------------------------------------------------
(* The account holder, and time.                                           *)

\* The link in a message, used at any time later: it names a row, and a link
\* of a row that is gone does nothing.
Unsubscribe(u) ==
  /\ HasRow(u)
  /\ ~rows[u].optOut
  /\ \E i \in DOMAIN sent[u] : sent[u][i].token = rows[u].token
  /\ rows' = [rows EXCEPT ![u].optOut = TRUE]
  /\ UNCHANGED <<day, usage, contacts, pc, job, births, sent, begun, deleted, undone>>

\* The link of the provider, in a broadcast to the audience.
UnsubscribeAtProvider(u) ==
  /\ contacts[u] = "subscribed"
  /\ contacts' = [contacts EXCEPT ![u] = "unsubscribed"]
  /\ UNCHANGED <<day, rows, usage, pc, job, births, sent, begun, deleted, undone>>

NextDay ==
  /\ day < MaxDay
  /\ \A t \in Tasks : pc[t] = "idle"
  /\ day' = day + 1
  /\ deleted' = FALSE
  /\ UNCHANGED <<rows, usage, contacts, pc, job, births, sent, begun, undone>>

HandOff(t) ==
  \/ FetchToken(t) \/ LookUpContact(t) \/ CreateContact(t) \/ ReadRow(t)
  \/ ClaimWelcome(t) \/ PostWelcome(t) \/ ReleaseWelcome(t)

UsageTask(t) ==
  \/ BumpUsage(t) \/ ReadSignals(t) \/ ReadAccount(t) \/ CountLane(t)
  \/ ClaimNote(t) \/ PostNote(t) \/ ReleaseNote(t)

Next ==
  \/ \E t \in Tasks :
       \/ HandOff(t) \/ UsageTask(t) \/ DeleteUsage(t) \/ DeleteRow(t) \/ Abort(t)
       \/ \E u \in Users : SignIn(t, u) \/ ToolCall(t, u) \/ DeleteAccount(t, u)
  \/ \E u \in Users : Unsubscribe(u) \/ UnsubscribeAtProvider(u)
  \/ NextDay

Spec == Init /\ [][Next]_vars

-----------------------------------------------------------------------------
(* Properties.                                                             *)

NeverDeleted(u) == births[u] <= 1

Spacing(first, then) ==
  CASE first.kind = "welcome" /\ then.kind = "note" -> WelcomeGap
    [] first.kind = "note" /\ then.kind = "note"    -> NoteGap
    [] OTHER                                        -> 0

\* An account that was not deleted is welcomed once, and its notes keep their
\* distance from the welcome and from each other, whichever of its tasks run
\* together, die, or get no answer from the provider: the stamp is claimed
\* before the send and given back only when the provider declined.
Paced ==
  \A u \in Users : NeverDeleted(u) =>
    \A i, j \in DOMAIN sent[u] : i < j =>
      /\ sent[u][j].kind # "welcome"
      /\ sent[u][i].day + Spacing(sent[u][i], sent[u][j]) <= sent[u][j].day

\* The ceiling of the lane is counted before the stamp is written, so claims
\* of several accounts can pass it together: by no more than the other tasks
\* under way, on a day on which no account is deleted.
NotesOf(u) == {i \in DOMAIN sent[u] : sent[u][i].kind = "note" /\ sent[u][i].day = day}

NotesToday == UNION {{u} \X NotesOf(u) : u \in Users}

LaneCeiling == ~deleted => Cardinality(NotesToday) <= LaneCap + Cardinality(Tasks) - 1

\* Once an account has opted out no note is claimed for it any more, though
\* the task read the row before: what still goes out was claimed before. Its
\* welcome is held back too, unless the account was deleted and signed in
\* again (the mark does not look at the opt-out, only the read before it).
OptOutWins ==
  [][\A u \in Users :
       HasRow(u) /\ rows[u].optOut /\ rows'[u] # None
       => /\ rows'[u].optOut
          /\ rows'[u].note \in {rows[u].note, None}
          /\ NeverDeleted(u) => rows'[u].welcome \in {rows[u].welcome, None}]_vars

\* What a first sign-in can undo at the provider, it can undo once: an
\* address that unsubscribed is subscribed again at most as often as its
\* account was created, however syncs fail, overlap or find it, and whenever
\* the account is deleted and signs in again. Whoever unsubscribes after the
\* sync of a first sign-in is left alone.
ResubscribedOncePerRow == \A u \in Users : undone[u] <= births[u]

\* "200 + unsubscribed=true -> SKIP, forever. Never POST. [...] anything else
\* -> FAIL" (sync_contact): the sync never subscribes an address again that
\* has unsubscribed at the provider. The code posts after a lookup that is
\* answered with 400 as well.
NeverResubscribes ==
  [][\A u \in Users : contacts[u] = "unsubscribed" => contacts'[u] = "unsubscribed"]_vars

\* "an opt-out expressed anywhere means opted out everywhere"
\* (remember_signin): a hand-off that found the address unsubscribed at the
\* provider sends it no welcome. The code never copies what it found.
OptedOutEverywhere ==
  [][\A t \in Tasks : pc[t] = "postWelcome" /\ job[t].unsubscribed
        => sent'[job[t].user] = sent[job[t].user]]_vars

=============================================================================
