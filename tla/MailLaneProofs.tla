---------------------------- MODULE MailLaneProofs ----------------------------
(* Theorems about MailLane, for any accounts, tasks under way, gaps, caps and *)
(* days: an opt-out is final; an unsubscribe at the provider is undone once   *)
(* for every first sign-in; messages keep their distance; the lane keeps its  *)
(* ceiling.                                                                   *)
EXTENDS MailLane, FiniteSetTheorems, TLAPS

-----------------------------------------------------------------------------
(* The inductive invariant.                                                   *)

\* Task t is about account u.
Mine(t, u) == pc[t] # "idle" /\ job[t].user = u

\* A hand-off that has not posted the contact, and a usage pass that has read
\* that a note is due.
Unposted == {"fetchToken", "lookUp", "create"}
NoteSteps == {"readAccount", "countLane", "claimNote", "postNote", "releaseNote"}

\* What the tables and the tasks consist of.
StoreTyped ==
  /\ rows \in [Users -> Row \cup {None}]
  /\ usage \in [Users -> [Days -> [searches : Nat, hits : Nat]]]
  /\ contacts \in [Users -> Contacts]
  /\ sent \in [Users -> Seq(Message)]
  /\ births \in [Users -> 0 .. MaxJobs]
  /\ day \in Days

TasksTyped ==
  /\ pc \in [Tasks -> Steps]
  /\ job = [t \in Tasks |-> job[t]]
  /\ \A t \in Tasks : pc[t] # "idle" => job[t] \in Job

\* An account that never had a row has no usage, no mail and no task.
Unborn(u) ==
  births[u] = 0 =>
    /\ rows[u] = None /\ sent[u] = << >>
    /\ \A d \in Days : usage[u][d].searches = 0
    /\ \A t \in Tasks : ~Mine(t, u)

\* One row, one hand-off.
Single(u) ==
  births[u] = 1 =>
    \A t1, t2 \in Tasks :
      /\ Mine(t1, u) /\ pc[t1] \in HandOffSteps
      /\ Mine(t2, u) /\ pc[t2] \in HandOffSteps
      => t1 = t2

\* While its hand-off runs an account has received nothing, so that it has no
\* link to unsubscribe with; it has searched today only, so that no note is
\* due.
Young(u) ==
  births[u] = 1 /\ (\E t \in Tasks : Mine(t, u) /\ pc[t] \in HandOffSteps) =>
    /\ sent[u] = << >>
    /\ rows[u] # None => ~rows[u].optOut
    /\ \A d \in Days \ {day} : usage[u][d].searches = 0
    /\ \A t \in Tasks : Mine(t, u) => pc[t] \notin NoteSteps

MailInv ==
  /\ StoreTyped /\ TasksTyped
  /\ \A u \in Users : Unborn(u) /\ Single(u) /\ Young(u)

\* Nothing is under way when the lane is found.
LEMMA InitMail == Init => MailInv
  <1> SUFFICES ASSUME Init PROVE MailInv
    OBVIOUS
  <1> USE MailAssumption
  <1>1. StoreTyped /\ TasksTyped
    <2>1. Settled \in Row
      BY DEF Settled, Row, Days
    <2>2. rows \in [Users -> Row \cup {None}]
      BY <2>1 DEF Init
    <2>3. \A u \in Users : \A d \in Days : usage[u][d] \in [searches : Nat, hits : Nat]
      BY DEF Init, NoUsage
    <2>4. usage \in [Users -> [Days -> [searches : Nat, hits : Nat]]]
      BY <2>3 DEF Init
    <2>5. births \in [Users -> 0 .. MaxJobs] /\ day \in Days
      BY DEF Init, Days
    <2>8. sent \in [Users -> Seq(Message)]
      <3>1. [kind |-> "welcome", day |-> 0, token |-> 1] \in Message
        BY DEF Message, Days
      <3> HIDE DEF Message
      <3>2. <<[kind |-> "welcome", day |-> 0, token |-> 1]>> \in Seq(Message) /\ << >> \in Seq(Message)
        BY <3>1
      <3> QED BY <3>2 DEF Init
    <2>6. contacts \in [Users -> Contacts]
      BY DEF Init
    <2>7. TasksTyped
      BY DEF Init, TasksTyped, Steps
    <2> QED BY <2>2, <2>4, <2>5, <2>6, <2>7, <2>8 DEF StoreTyped
  <1>2. ASSUME NEW u \in Users
        PROVE  Unborn(u) /\ Single(u) /\ Young(u)
    <2>1. \A t \in Tasks : pc[t] = "idle" /\ ~Mine(t, u)
      BY DEF Init, Mine
    <2>2. births[u] = 0 => rows[u] = None
      BY DEF Init
    <2>3. rows[u] = None => sent[u] = << >> /\ \A d \in Days : usage[u][d].searches = 0
      BY DEF Init, NoUsage
    <2> QED BY <2>1, <2>2, <2>3 DEF Unborn, Single, Young
  <1> QED BY <1>1, <1>2 DEF MailInv

-----------------------------------------------------------------------------
(* Steps of a task.                                                           *)

\* A task goes on to another of its steps, or ends.
Moves(t, step) ==
  /\ pc[t] # "idle" /\ step \in Steps
  /\ pc' = [pc EXCEPT ![t] = step]
  /\ \E j : /\ job' = [job EXCEPT ![t] = j]
            /\ step # "idle" => j \in Job /\ j.user = job[t].user
  /\ UNCHANGED <<day, births>>
  /\ step \in HandOffSteps => pc[t] \in HandOffSteps
  /\ step \in Unposted => pc[t] \in Unposted

\* What a step may do to the tables, seen from the invariant: nobody gets a
\* row or has an opt-out changed; usage is counted today, messages are sent
\* where the code says, and a note is due before it is claimed.
Effects(t, step) ==
  LET u0 == job[t].user IN
  /\ \A u \in Users : rows'[u] # None =>
                        rows[u] # None /\ rows'[u].optOut = rows[u].optOut
  /\ \A u \in Users : \A d \in Days :
       usage[u][d].searches = 0 /\ ~(u = u0 /\ d = day) => usage'[u][d].searches = 0
  /\ \A u \in Users : sent'[u] = sent[u]
                        \/ (u = u0 /\ step = "idle" /\ pc[t] \in {"postWelcome", "postNote"})
  /\ step \in NoteSteps => pc[t] \in NoteSteps \/ Cardinality(ActiveDays(u0)) >= 2

\* Whose task it is does not change.
LEMMA MovesMine ==
  ASSUME MailInv, NEW t \in Tasks, NEW step, Moves(t, step)
  PROVE  /\ TasksTyped'
         /\ pc'[t] = step /\ \A k \in Tasks \ {t} : pc'[k] = pc[k]
         /\ \A k \in Tasks : \A u : Mine(k, u)' => Mine(k, u)
         /\ Mine(t, job[t].user)
         /\ job[t].user \in Users
  <1>1. TasksTyped
    BY DEF MailInv
  <1>2. pc'[t] = step /\ \A k \in Tasks \ {t} : pc'[k] = pc[k]
    BY <1>1 DEF Moves, TasksTyped
  <1>3. PICK j : /\ job' = [job EXCEPT ![t] = j]
                 /\ step # "idle" => j \in Job /\ j.user = job[t].user
    BY DEF Moves
  <1>4. job'[t] = j /\ \A k \in Tasks \ {t} : job'[k] = job[k]
    BY <1>1, <1>3 DEF TasksTyped
  <1>5. TasksTyped'
    BY <1>1, <1>2, <1>3, <1>4 DEF TasksTyped, Moves
  <1>6. \A k \in Tasks : \A u : Mine(k, u)' => Mine(k, u)
    BY <1>2, <1>3, <1>4 DEF Mine, Moves
  <1>7. Mine(t, job[t].user) /\ job[t].user \in Users
    BY <1>1 DEF Mine, Moves, TasksTyped, Job
  <1> QED BY <1>2, <1>5, <1>6, <1>7

\* A day is not two days.
LEMMA ActiveToday ==
  ASSUME NEW u \in Users, \A d \in Days \ {day} : usage[u][d].searches = 0
  PROVE  ~(Cardinality(ActiveDays(u)) >= 2)
  <1>1. ActiveDays(u) \subseteq {day}
    BY DEF ActiveDays
  <1>2. IsFiniteSet({day}) /\ Cardinality({day}) = 1
    BY FS_Singleton
  <1>3. Cardinality(ActiveDays(u)) <= 1 /\ Cardinality(ActiveDays(u)) \in Nat
    BY <1>1, <1>2, FS_Subset, FS_CardinalityType
  <1> QED BY <1>3

\* Such a step keeps the invariant.
LEMMA TaskStep ==
  ASSUME MailInv, NEW t \in Tasks, NEW step, Moves(t, step), Effects(t, step), StoreTyped'
  PROVE  MailInv'
  <1> DEFINE u0 == job[t].user
  <1>0. /\ TasksTyped'
        /\ pc'[t] = step /\ \A k \in Tasks \ {t} : pc'[k] = pc[k]
        /\ \A k \in Tasks : \A u : Mine(k, u)' => Mine(k, u)
        /\ Mine(t, u0) /\ u0 \in Users
        /\ births' = births /\ day' = day
    BY MovesMine DEF Moves
  <1>1. births[u0] # 0
    BY <1>0 DEF MailInv, Unborn
  <1> HIDE DEF u0
  <1>2. ASSUME NEW u \in Users
        PROVE  Unborn(u)'
    <2>1. SUFFICES ASSUME births[u] = 0 PROVE Unborn(u)'
      BY <1>0 DEF Unborn
    <2>2. Unborn(u) /\ u # u0
      BY <1>1, <2>1 DEF MailInv
    <2>3. rows'[u] = None /\ sent'[u] = sent[u]
          /\ \A d \in Days : usage'[u][d].searches = 0
      BY <2>1, <2>2 DEF Unborn, Effects, u0
    <2> QED BY <1>0, <2>1, <2>2, <2>3 DEF Unborn
  <1>3. ASSUME NEW u \in Users
        PROVE  Single(u)'
    <2>1. \A k \in Tasks : pc'[k] \in HandOffSteps => pc[k] \in HandOffSteps
      BY <1>0 DEF Moves
    <2>2. Single(u)
      BY DEF MailInv
    <2> QED BY <1>0, <2>1, <2>2 DEF Single
  <1>4. ASSUME NEW u \in Users
        PROVE  Young(u)'
    <2> SUFFICES ASSUME births[u] = 1, NEW k \in Tasks, Mine(k, u)', pc'[k] \in HandOffSteps
                 PROVE  /\ sent'[u] = << >>
                        /\ rows'[u] # None => ~rows'[u].optOut
                        /\ \A d \in Days \ {day} : usage'[u][d].searches = 0
                        /\ \A m \in Tasks : Mine(m, u)' => pc'[m] \notin NoteSteps
      BY <1>0 DEF Young
    <2>1. Mine(k, u) /\ pc[k] \in HandOffSteps
      BY <1>0 DEF Moves
    <2>2. /\ sent[u] = << >>
          /\ rows[u] # None => ~rows[u].optOut
          /\ \A d \in Days \ {day} : usage[u][d].searches = 0
          /\ \A m \in Tasks : Mine(m, u) => pc[m] \notin NoteSteps
      BY <2>1 DEF MailInv, Young
    <2>3. ~(u = u0 /\ step = "idle" /\ pc[t] \in {"postWelcome", "postNote"})
      <3>1. u = u0 => pc[t] \notin NoteSteps
        BY <1>0, <2>2
      <3>2. u = u0 /\ pc[t] = "postWelcome" => t = k
        BY <1>0, <2>1 DEF MailInv, Single, HandOffSteps
      <3> QED BY <1>0, <3>1, <3>2 DEF NoteSteps, HandOffSteps
    <2>4. sent'[u] = << >>
      BY <2>2, <2>3 DEF Effects, u0
    <2>5. rows'[u] # None => ~rows'[u].optOut
      BY <2>2 DEF Effects
    <2>6. \A d \in Days \ {day} : usage'[u][d].searches = 0
      BY <2>2 DEF Effects
    <2>7. ASSUME NEW m \in Tasks, Mine(m, u)'
          PROVE  pc'[m] \notin NoteSteps
      <3>1. Mine(m, u) /\ pc[m] \notin NoteSteps
        BY <1>0, <2>2, <2>7
      <3>2. CASE m # t
        BY <1>0, <3>1, <3>2
      <3>3. CASE m = t
        <4>1. u = u0
          BY <3>1, <3>3 DEF Mine, u0
        <4>2. ~(Cardinality(ActiveDays(u0)) >= 2)
          BY <2>2, <4>1, ActiveToday
        <4> QED BY <1>0, <3>1, <3>3, <4>2 DEF Effects, u0
      <3> QED BY <3>2, <3>3
    <2> QED BY <2>4, <2>5, <2>6, <2>7
  <1> QED BY <1>0, <1>2, <1>3, <1>4 DEF MailInv

\* An UPDATE changes one column, and inserts nothing.
LEMMA UpdateKeeps ==
  ASSUME MailInv, NEW u \in Users, NEW col \in {"welcome", "note"},
         NEW value \in Days \cup {None}, UpdateRow(u, col, value)
  PROVE  /\ rows' \in [Users -> Row \cup {None}]
         /\ \A v \in Users : rows'[v] # None =>
                               rows[v] # None /\ rows'[v].optOut = rows[v].optOut
  <1>1. rows \in [Users -> Row \cup {None}]
    BY DEF MailInv, StoreTyped
  <1>2. CASE ~HasRow(u)
    BY <1>1, <1>2 DEF UpdateRow
  <1>3. CASE HasRow(u)
    <2>1. rows[u] \in Row /\ rows' = [rows EXCEPT ![u][col] = value]
      BY <1>1, <1>3 DEF UpdateRow, HasRow
    <2>2. [rows[u] EXCEPT ![col] = value] \in Row
          /\ [rows[u] EXCEPT ![col] = value].optOut = rows[u].optOut
      <3>1. CASE col = "welcome"
        BY <2>1, <3>1 DEF Row
      <3>2. CASE col = "note"
        BY <2>1, <3>2 DEF Row
      <3> QED BY <3>1, <3>2
    <2>3. rows'[u] = [rows[u] EXCEPT ![col] = value]
          /\ \A v \in Users \ {u} : rows'[v] = rows[v]
      BY <1>1, <2>1
    <2>4. rows' \in [Users -> Row \cup {None}]
      BY <1>1, <2>1, <2>2
    <2> QED BY <1>3, <2>2, <2>3, <2>4 DEF HasRow
  <1> QED BY <1>2, <1>3

\* Going on, with or without setting a local.
LEMMA GoMoves ==
  ASSUME MailInv, NEW t \in Tasks, pc[t] # "idle", NEW step \in Steps,
         step \in HandOffSteps => pc[t] \in HandOffSteps,
         step \in Unposted => pc[t] \in Unposted,
         \/ Go(t, step)
         \/ \E n \in 0 .. MaxJobs : GoWith(t, step, "token", n)
         \/ \E b \in BOOLEAN : GoWith(t, step, "unsubscribed", b)
         \/ \E n \in Nat : GoWith(t, step, "lane", n)
  PROVE  Moves(t, step)
  <1>0. job[t] \in Job /\ job = [k \in Tasks |-> job[k]]
    BY DEF MailInv, TasksTyped
  <1>1. CASE Go(t, step)
    <2>1. CASE step = "idle"
      BY <1>1, <2>1 DEF Moves, Go
    <2>2. CASE step # "idle"
      <3>1. job' = [job EXCEPT ![t] = job[t]]
        BY <1>0, <1>1, <2>2 DEF Go
      <3> QED BY <1>0, <1>1, <3>1 DEF Moves, Go
    <2> QED BY <2>1, <2>2
  <1>2. CASE \E n \in 0 .. MaxJobs : GoWith(t, step, "token", n)
    <2>1. PICK n \in 0 .. MaxJobs : GoWith(t, step, "token", n)
      BY <1>2
    <2>2. [job[t] EXCEPT !["token"] = n] \in Job /\ [job[t] EXCEPT !["token"] = n].user = job[t].user
      BY <1>0 DEF Job
    <2>3. job' = [job EXCEPT ![t] = [job[t] EXCEPT !["token"] = n]]
      BY <1>0, <2>1 DEF GoWith
    <2> QED BY <2>1, <2>2, <2>3 DEF Moves, GoWith
  <1>3. CASE \E b \in BOOLEAN : GoWith(t, step, "unsubscribed", b)
    <2>1. PICK b \in BOOLEAN : GoWith(t, step, "unsubscribed", b)
      BY <1>3
    <2>2. [job[t] EXCEPT !["unsubscribed"] = b] \in Job
          /\ [job[t] EXCEPT !["unsubscribed"] = b].user = job[t].user
      BY <1>0 DEF Job
    <2>3. job' = [job EXCEPT ![t] = [job[t] EXCEPT !["unsubscribed"] = b]]
      BY <1>0, <2>1 DEF GoWith
    <2> QED BY <2>1, <2>2, <2>3 DEF Moves, GoWith
  <1>4. CASE \E n \in Nat : GoWith(t, step, "lane", n)
    <2>1. PICK n \in Nat : GoWith(t, step, "lane", n)
      BY <1>4
    <2>2. [job[t] EXCEPT !["lane"] = n] \in Job /\ [job[t] EXCEPT !["lane"] = n].user = job[t].user
      BY <1>0 DEF Job
    <2>3. job' = [job EXCEPT ![t] = [job[t] EXCEPT !["lane"] = n]]
      BY <1>0, <2>1 DEF GoWith
    <2> QED BY <2>1, <2>2, <2>3 DEF Moves, GoWith
  <1> QED BY <1>1, <1>2, <1>3, <1>4

\* A step that reads, sends nothing and writes nothing.
LEMMA CalmStep ==
  ASSUME MailInv, NEW t \in Tasks, NEW step, Moves(t, step),
         UNCHANGED <<rows, usage, contacts, sent>>,
         step \in NoteSteps => pc[t] \in NoteSteps \/ Cardinality(ActiveDays(job[t].user)) >= 2
  PROVE  MailInv'
  <1>1. StoreTyped'
    BY DEF MailInv, StoreTyped, Moves
  <1>2. Effects(t, step)
    BY DEF Effects
  <1> QED BY <1>1, <1>2, TaskStep

\* A step that updates the row of its account.
LEMMA UpdateStep ==
  ASSUME MailInv, NEW t \in Tasks, NEW step, Moves(t, step),
         NEW col \in {"welcome", "note"}, NEW value \in Days \cup {None},
         UpdateRow(job[t].user, col, value), UNCHANGED <<usage, contacts, sent>>,
         step \in NoteSteps => pc[t] \in NoteSteps
  PROVE  MailInv'
  <1>1. job[t].user \in Users
    BY MovesMine
  <1>2. StoreTyped'
    BY <1>1, UpdateKeeps DEF MailInv, StoreTyped, Moves
  <1>3. Effects(t, step)
    BY <1>1, UpdateKeeps DEF Effects
  <1> QED BY <1>2, <1>3, TaskStep

\* A message that is taken is the last of its account, and the only news.
LEMMA TakesOne ==
  ASSUME MailInv, NEW t \in Tasks, pc[t] # "idle", NEW kind \in {"welcome", "note"},
         Takes(t, kind)
  PROVE  LET letter == [kind |-> kind, day |-> day, token |-> job[t].token]
         IN /\ letter \in Message
            /\ sent' \in [Users -> Seq(Message)]
            /\ sent'[job[t].user] = Append(sent[job[t].user], letter)
            /\ \A u \in Users : u # job[t].user => sent'[u] = sent[u]
  <1> DEFINE letter == [kind |-> kind, day |-> day, token |-> job[t].token]
             u0 == job[t].user
  <1>1. letter \in Message /\ u0 \in Users /\ sent \in [Users -> Seq(Message)]
    BY DEF MailInv, StoreTyped, TasksTyped, Job, Message
  <1>2. sent' = [sent EXCEPT ![u0] = Append(sent[u0], letter)]
    BY <1>1 DEF Takes
  <1> HIDE DEF letter, u0
  <1>3. Append(sent[u0], letter) \in Seq(Message)
    BY <1>1
  <1>4. /\ sent' \in [Users -> Seq(Message)]
        /\ sent'[u0] = Append(sent[u0], letter)
        /\ \A u \in Users : u # u0 => sent'[u] = sent[u]
    BY <1>1, <1>2, <1>3
  <1> QED BY <1>1, <1>4 DEF letter, u0

\* Posting a message.
LEMMA PostStep ==
  ASSUME MailInv, NEW t \in Tasks, NEW kind \in {"welcome", "note"},
         \/ /\ pc[t] = "postWelcome"
            /\ Post(t, kind, "idle", "releaseWelcome")
         \/ /\ pc[t] = "postNote"
            /\ Post(t, kind, "idle", "releaseNote"),
         UNCHANGED <<rows, usage, contacts>>
  PROVE  MailInv'
  <1>1. PICK step \in {"idle", "releaseWelcome", "releaseNote"} :
          /\ Go(t, step)
          /\ sent' # sent => step = "idle" /\ Takes(t, kind)
          /\ step = "releaseWelcome" => pc[t] = "postWelcome"
          /\ step = "releaseNote" => pc[t] = "postNote"
    <2>1. ASSUME NEW refused, Post(t, kind, "idle", refused)
          PROVE  \/ Go(t, "idle") /\ (sent' # sent => Takes(t, kind))
                 \/ Go(t, refused) /\ sent' = sent
      BY <2>1, Zenon DEF Post
    <2>2. CASE pc[t] = "postWelcome" /\ Post(t, kind, "idle", "releaseWelcome")
      BY <2>1, <2>2
    <2>3. CASE pc[t] = "postNote" /\ Post(t, kind, "idle", "releaseNote")
      BY <2>1, <2>3
    <2> QED BY <2>2, <2>3
  <1>2. Moves(t, step)
    BY <1>1, GoMoves DEF Steps, HandOffSteps, UsageSteps, Unposted
  <1>3. StoreTyped' /\ \A u \in Users : sent'[u] = sent[u] \/ (step = "idle" /\ u = job[t].user)
    <2>1. sent' \in [Users -> Seq(Message)]
          /\ \A u \in Users : sent'[u] = sent[u] \/ (step = "idle" /\ u = job[t].user)
      <3>1. CASE sent' = sent
        BY <3>1 DEF MailInv, StoreTyped
      <3>2. CASE step = "idle" /\ Takes(t, kind)
        <4>1. pc[t] # "idle"
          OBVIOUS
        <4> QED BY <3>2, <4>1, TakesOne
      <3> QED BY <1>1, <3>1, <3>2
    <2> QED BY <1>2, <2>1 DEF MailInv, StoreTyped, Moves
  <1>4. Effects(t, step)
    BY <1>1, <1>3 DEF Effects, NoteSteps
  <1> QED BY <1>2, <1>3, <1>4, TaskStep

\* The hand-off after a first sign-in.
LEMMA HandOffKeeps ==
  ASSUME MailInv, NEW t \in Tasks, HandOff(t)
  PROVE  MailInv'
  <1> USE DEF Steps, HandOffSteps, UsageSteps, DeleteSteps, Unposted
  <1>0. /\ pc[t] # "idle" => job[t] \in Job /\ job[t].user \in Users
        /\ rows \in [Users -> Row \cup {None}] /\ day \in Days
        /\ contacts \in [Users -> Contacts]
    BY DEF MailInv, TasksTyped, StoreTyped, Job
  <1>1. CASE FetchToken(t)
    <2> DEFINE n == IF HasRow(job[t].user) THEN rows[job[t].user].token ELSE 0
    <2>1. n \in 0 .. MaxJobs
      BY <1>0, <1>1, MailAssumption DEF FetchToken, HasRow, Row
    <2>2. pc[t] = "fetchToken" /\ GoWith(t, "lookUp", "token", n)
          /\ UNCHANGED <<rows, usage, contacts, sent>>
      BY <1>1 DEF FetchToken, store, mail
    <2> HIDE DEF n
    <2>3. Moves(t, "lookUp")
      BY <2>1, <2>2, GoMoves
    <2> QED BY <2>2, <2>3, CalmStep DEF NoteSteps
  <1>2. CASE LookUpContact(t)
    <2>0. pc[t] = "lookUp" /\ UNCHANGED <<rows, usage, contacts, sent>>
      BY <1>2 DEF LookUpContact, store, mail
    <2>1. CASE Go(t, "create")
      <3>1. Moves(t, "create")
        BY <2>0, <2>1, GoMoves
      <3> QED BY <2>0, <2>1, <3>1, CalmStep DEF NoteSteps
    <2>2. CASE Go(t, "readRow") \/ \E b \in BOOLEAN : GoWith(t, "readRow", "unsubscribed", b)
      <3>1. Moves(t, "readRow")
        BY <2>0, <2>2, GoMoves
      <3> QED BY <2>0, <3>1, CalmStep DEF NoteSteps
    <2>3. (contacts[job[t].user] = "unsubscribed") \in BOOLEAN
      OBVIOUS
    <2> QED BY <1>2, <2>1, <2>2, <2>3 DEF LookUpContact
  <1>3. CASE CreateContact(t)
    <2>1. Moves(t, "readRow")
      BY <1>3, GoMoves DEF CreateContact
    <2>2. contacts' \in [Users -> Contacts]
      BY <1>0, <1>3 DEF CreateContact, Contacts
    <2>3. StoreTyped'
      BY <1>3, <2>1, <2>2 DEF CreateContact, store, MailInv, StoreTyped, Moves
    <2>4. Effects(t, "readRow")
      BY <1>3, <2>2 DEF CreateContact, store, Effects, NoteSteps
    <2> QED BY <2>1, <2>3, <2>4, TaskStep
  <1>4. CASE ReadRow(t)
    <2>1. PICK step \in {"idle", "claimWelcome"} : Go(t, step)
      BY <1>4 DEF ReadRow
    <2>2. Moves(t, step)
      BY <1>4, <2>1, GoMoves DEF ReadRow
    <2> QED BY <1>4, <2>1, <2>2, CalmStep DEF ReadRow, NoteSteps, store, mail
  <1>5. CASE ClaimWelcome(t)
    <2>1. CASE UpdateRow(job[t].user, "welcome", day) /\ Go(t, "postWelcome")
      <3>1. Moves(t, "postWelcome")
        BY <1>5, <2>1, GoMoves DEF ClaimWelcome
      <3> QED BY <1>0, <1>5, <2>1, <3>1, UpdateStep DEF ClaimWelcome, NoteSteps, mail
    <2>2. CASE rows' = rows /\ Go(t, "idle")
      <3>1. Moves(t, "idle")
        BY <1>5, <2>2, GoMoves DEF ClaimWelcome
      <3> QED BY <1>5, <2>2, <3>1, CalmStep DEF ClaimWelcome, NoteSteps, mail
    <2> QED BY <1>5, <2>1, <2>2 DEF ClaimWelcome
  <1>6. CASE PostWelcome(t)
    BY <1>6, PostStep DEF PostWelcome, store
  <1>7. CASE ReleaseWelcome(t)
    <2>1. Moves(t, "idle")
      BY <1>7, GoMoves DEF ReleaseWelcome
    <2> QED BY <1>7, <2>1, UpdateStep DEF ReleaseWelcome, NoteSteps, mail
  <1> QED BY <1>1, <1>2, <1>3, <1>4, <1>5, <1>6, <1>7 DEF HandOff

\* The usage pass behind a tool call, with the note it may claim.
LEMMA UsageKeeps ==
  ASSUME MailInv, NEW t \in Tasks, UsageTask(t)
  PROVE  MailInv'
  <1> USE DEF Steps, HandOffSteps, UsageSteps, DeleteSteps, Unposted
  <1>0. /\ pc[t] # "idle" => job[t] \in Job /\ job[t].user \in Users
        /\ rows \in [Users -> Row \cup {None}] /\ day \in Days
        /\ usage \in [Users -> [Days -> [searches : Nat, hits : Nat]]]
    BY DEF MailInv, TasksTyped, StoreTyped, Job
  <1>1. CASE BumpUsage(t)
    <2> DEFINE u == job[t].user
    <2>0. pc[t] \in {"bumpSearch", "bumpHit"} /\ u \in Users
      BY <1>0, <1>1 DEF BumpUsage
    <2>1. Moves(t, "signals")
      BY <1>1, GoMoves DEF BumpUsage
    <2>2. PICK field \in {"searches", "hits"} :
            usage' \in {usage, [usage EXCEPT ![u][day][field] = @ + 1]}
      BY <1>1 DEF BumpUsage
    <2> HIDE DEF u
    <2>3. /\ usage' \in [Users -> [Days -> [searches : Nat, hits : Nat]]]
          /\ \A v \in Users : \A d \in Days : usage'[v][d] = usage[v][d] \/ (v = u /\ d = day)
      <3> DEFINE n == [usage[u][day] EXCEPT ![field] = @ + 1]
      <3>1. usage[u][day] \in [searches : Nat, hits : Nat]
        BY <1>0, <2>0
      <3>2. n \in [searches : Nat, hits : Nat]
        <4>1. CASE field = "searches"
          BY <3>1, <4>1
        <4>2. CASE field = "hits"
          BY <3>1, <4>2
        <4> QED BY <4>1, <4>2
      <3>3. [usage EXCEPT ![u][day][field] = @ + 1]
              = [usage EXCEPT ![u] = [usage[u] EXCEPT ![day] = n]]
        BY <1>0, <2>0
      <3> HIDE DEF n
      <3>4. CASE usage' = usage
        BY <1>0, <3>4
      <3>5. CASE usage' = [usage EXCEPT ![u] = [usage[u] EXCEPT ![day] = n]]
        <4>1. /\ usage'[u] = [usage[u] EXCEPT ![day] = n]
              /\ \A v \in Users \ {u} : usage'[v] = usage[v]
          BY <1>0, <2>0, <3>5
        <4>2. [usage[u] EXCEPT ![day] = n] \in [Days -> [searches : Nat, hits : Nat]]
          BY <1>0, <2>0, <3>2
        <4>3. usage' \in [Users -> [Days -> [searches : Nat, hits : Nat]]]
          BY <1>0, <3>5, <4>2
        <4>4. \A d \in Days : usage'[u][d] = usage[u][d] \/ d = day
          BY <1>0, <2>0, <4>1
        <4> QED BY <4>1, <4>3, <4>4
      <3> QED BY <2>2, <3>3, <3>4, <3>5
    <2>4. StoreTyped'
      BY <1>1, <2>1, <2>3 DEF BumpUsage, mail, MailInv, StoreTyped, Moves
    <2>5. Effects(t, "signals")
      BY <1>1, <2>3 DEF BumpUsage, mail, Effects, NoteSteps, u
    <2> QED BY <2>1, <2>4, <2>5, TaskStep
  <1>2. CASE ReadSignals(t)
    <2>1. PICK step \in {"idle", "readAccount"} :
            /\ Go(t, step)
            /\ step = "readAccount" => Cardinality(ActiveDays(job[t].user)) >= 2
      BY <1>2, Zenon DEF ReadSignals, CapNoteDue
    <2>2. Moves(t, step)
      BY <1>2, <2>1, GoMoves DEF ReadSignals
    <2> QED BY <1>2, <2>1, <2>2, CalmStep DEF ReadSignals, NoteSteps, store, mail
  <1>3. CASE ReadAccount(t)
    <2>0. pc[t] = "readAccount" /\ UNCHANGED <<rows, usage, contacts, sent>>
      BY <1>3 DEF ReadAccount, store, mail
    <2>1. CASE Go(t, "idle")
      <3>1. Moves(t, "idle")
        BY <2>0, <2>1, GoMoves
      <3> QED BY <2>0, <3>1, CalmStep DEF NoteSteps
    <2>2. CASE HasRow(job[t].user) /\ GoWith(t, "countLane", "token", rows[job[t].user].token)
      <3>1. rows[job[t].user].token \in 0 .. MaxJobs
        BY <1>0, <2>0, <2>2, MailAssumption DEF HasRow, Row
      <3>2. Moves(t, "countLane")
        BY <2>0, <2>2, <3>1, GoMoves
      <3> QED BY <2>0, <3>2, CalmStep DEF NoteSteps
    <2> QED BY <1>3, <2>1, <2>2 DEF ReadAccount
  <1>4. CASE CountLane(t)
    <2>1. LaneCount \in Nat
      <3>1. IsFiniteSet({u \in Users : HasRow(u) /\ rows[u].note = day})
        BY MailAssumption, FS_Subset
      <3> QED BY <3>1, FS_CardinalityType DEF LaneCount
    <2>2. Moves(t, "claimNote")
      BY <1>4, <2>1, GoMoves DEF CountLane
    <2> QED BY <1>4, <2>2, CalmStep DEF CountLane, NoteSteps, store, mail
  <1>5. CASE ClaimNote(t)
    <2>1. CASE UpdateRow(job[t].user, "note", day) /\ Go(t, "postNote")
      <3>1. Moves(t, "postNote")
        BY <1>5, <2>1, GoMoves DEF ClaimNote
      <3> QED BY <1>0, <1>5, <2>1, <3>1, UpdateStep DEF ClaimNote, NoteSteps, mail
    <2>2. CASE rows' = rows /\ Go(t, "idle")
      <3>1. Moves(t, "idle")
        BY <1>5, <2>2, GoMoves DEF ClaimNote
      <3> QED BY <1>5, <2>2, <3>1, CalmStep DEF ClaimNote, NoteSteps, mail
    <2> QED BY <1>5, <2>1, <2>2 DEF ClaimNote
  <1>6. CASE PostNote(t)
    BY <1>6, PostStep DEF PostNote, store
  <1>7. CASE ReleaseNote(t)
    <2>1. Moves(t, "idle")
      BY <1>7, GoMoves DEF ReleaseNote
    <2> QED BY <1>7, <2>1, UpdateStep DEF ReleaseNote, NoteSteps, mail
  <1> QED BY <1>1, <1>2, <1>3, <1>4, <1>5, <1>6, <1>7 DEF UsageTask

\* A deletion under way, and the end of a task.
LEMMA DeletionKeeps ==
  ASSUME MailInv, NEW t \in Tasks, DeleteUsage(t) \/ DeleteRow(t) \/ Abort(t)
  PROVE  MailInv'
  <1> USE DEF Steps, HandOffSteps, UsageSteps, DeleteSteps, Unposted
  <1>0. /\ pc[t] # "idle" => job[t] \in Job /\ job[t].user \in Users
        /\ rows \in [Users -> Row \cup {None}]
        /\ usage \in [Users -> [Days -> [searches : Nat, hits : Nat]]]
    BY DEF MailInv, TasksTyped, StoreTyped, Job
  <1>1. CASE DeleteUsage(t)
    <2>1. Moves(t, "deleteRow")
      BY <1>1, GoMoves DEF DeleteUsage
    <2>2. [d \in Days |-> NoUsage] \in [Days -> [searches : Nat, hits : Nat]]
      BY DEF NoUsage
    <2>3. usage' \in [Users -> [Days -> [searches : Nat, hits : Nat]]]
      BY <1>0, <1>1, <2>2 DEF DeleteUsage
    <2>4. ASSUME NEW u \in Users, NEW d \in Days, usage[u][d].searches = 0
          PROVE  usage'[u][d].searches = 0
      <3>1. CASE u = job[t].user
        <4>1. usage'[u][d] = NoUsage
          BY <1>0, <1>1, <3>1 DEF DeleteUsage
        <4> QED BY <4>1 DEF NoUsage
      <3>2. CASE u # job[t].user
        BY <1>0, <1>1, <2>4, <3>2 DEF DeleteUsage
      <3> QED BY <3>1, <3>2
    <2>5. StoreTyped'
      BY <1>1, <2>1, <2>3 DEF DeleteUsage, mail, MailInv, StoreTyped, Moves
    <2>6. Effects(t, "deleteRow")
      BY <1>1, <2>4 DEF DeleteUsage, mail, Effects, NoteSteps
    <2> QED BY <2>1, <2>5, <2>6, TaskStep
  <1>2. CASE DeleteRow(t)
    <2>1. Moves(t, "idle")
      BY <1>2, GoMoves DEF DeleteRow
    <2>2. /\ rows' \in [Users -> Row \cup {None}]
          /\ \A u \in Users : rows'[u] \in {rows[u], None}
      BY <1>0, <1>2 DEF DeleteRow
    <2>3. StoreTyped'
      BY <1>2, <2>1, <2>2 DEF DeleteRow, mail, MailInv, StoreTyped, Moves
    <2>4. Effects(t, "idle")
      BY <1>2, <2>2 DEF DeleteRow, mail, Effects, NoteSteps
    <2> QED BY <2>1, <2>3, <2>4, TaskStep
  <1>3. CASE Abort(t)
    <2>1. Moves(t, "idle")
      BY <1>3, GoMoves DEF Abort
    <2> QED BY <1>3, <2>1, CalmStep DEF Abort, NoteSteps, store, mail
  <1> QED BY <1>1, <1>2, <1>3

-----------------------------------------------------------------------------
(* Steps that begin a task, or are not a task's.                              *)

\* Who a task that begins is about.
LEMMA BeginMine ==
  ASSUME MailInv, NEW t \in Tasks, NEW u \in Users, NEW step \in Steps \ {"idle"},
         Begin(t, u, step)
  PROVE  /\ TasksTyped' /\ pc'[t] = step /\ pc[t] = "idle"
         /\ \A k \in Tasks \ {t} : pc'[k] = pc[k]
         /\ \A v : Mine(t, v)' <=> v = u
         /\ \A k \in Tasks \ {t} : \A v : Mine(k, v)' <=> Mine(k, v)
  <1>1. TasksTyped /\ NewJob(u) \in Job /\ NewJob(u).user = u
    BY MailAssumption DEF MailInv, NewJob, Job
  <1>2. /\ pc'[t] = step /\ job'[t] = NewJob(u) /\ pc[t] = "idle"
        /\ \A k \in Tasks \ {t} : pc'[k] = pc[k] /\ job'[k] = job[k]
    BY <1>1 DEF Begin, TasksTyped
  <1>3. TasksTyped'
    BY <1>1, <1>2 DEF TasksTyped, Begin
  <1> QED BY <1>1, <1>2, <1>3 DEF Mine

\* A first sign-in begins the one hand-off of the first row.
LEMMA SignInKeeps ==
  ASSUME MailInv, NEW t \in Tasks, NEW u \in Users, SignIn(t, u)
  PROVE  MailInv'
  <1>0. /\ TasksTyped' /\ pc'[t] = "fetchToken" /\ pc[t] = "idle"
        /\ \A k \in Tasks \ {t} : pc'[k] = pc[k]
        /\ \A v : Mine(t, v)' <=> v = u
        /\ \A k \in Tasks \ {t} : \A v : Mine(k, v)' <=> Mine(k, v)
    BY BeginMine DEF SignIn, Steps, HandOffSteps
  <1>1. /\ births[u] \in 0 .. MaxJobs /\ births[u] < MaxJobs /\ births'[u] = births[u] + 1
        /\ \A v \in Users \ {u} : births'[v] = births[v] /\ rows'[v] = rows[v]
        /\ rows' = [rows EXCEPT ![u] = [optOut |-> FALSE, token |-> births[u] + 1,
                                        welcome |-> None, note |-> None]]
        /\ births' = [births EXCEPT ![u] = @ + 1]
        /\ UNCHANGED <<day, usage, contacts, sent>>
    BY DEF SignIn, Upsert, mail, MailInv, StoreTyped
  <1>2. MaxJobs \in Nat
    BY MailAssumption
  <1>3. StoreTyped'
    <2>1. [optOut |-> FALSE, token |-> births[u] + 1, welcome |-> None, note |-> None] \in Row
      BY <1>1, <1>2 DEF Row
    <2>2. rows' \in [Users -> Row \cup {None}]
      BY <1>1, <2>1 DEF MailInv, StoreTyped
    <2>3. births' \in [Users -> 0 .. MaxJobs]
      BY <1>1, <1>2 DEF MailInv, StoreTyped
    <2> QED BY <1>1, <2>2, <2>3 DEF MailInv, StoreTyped
  <1>4. ASSUME NEW v \in Users \ {u}
        PROVE  (Unborn(v) /\ Single(v) /\ Young(v))'
    <2>1. /\ Unborn(v) /\ Single(v) /\ Young(v)
          /\ births'[v] = births[v] /\ rows'[v] = rows[v]
          /\ \A k \in Tasks : Mine(k, v)' => Mine(k, v) /\ pc'[k] = pc[k]
      BY <1>0, <1>1 DEF MailInv
    <2> QED BY <1>1, <2>1 DEF Unborn, Single, Young
  <1>5. (Unborn(u) /\ Single(u) /\ Young(u))'
    <2>1. CASE births[u] # 0
      <3>1. births'[u] \notin {0, 1}
        BY <1>1, <2>1
      <3> QED BY <3>1 DEF Unborn, Single, Young
    <2>2. CASE births[u] = 0
      <3>1. births'[u] = 1 /\ Unborn(u)
        BY <1>1, <2>2 DEF MailInv
      <3>2. \A k \in Tasks : Mine(k, u)' => k = t
        BY <1>0, <2>2, <3>1 DEF Unborn
      <3>3. /\ sent'[u] = << >>
            /\ \A d \in Days : usage'[u][d].searches = 0
        BY <1>1, <2>2, <3>1 DEF Unborn
      <3>4. rows'[u].optOut = FALSE
        BY <1>1 DEF MailInv, StoreTyped
      <3> QED BY <1>0, <3>1, <3>2, <3>3, <3>4 DEF Unborn, Single, Young, NoteSteps
    <2> QED BY <2>1, <2>2
  <1> QED BY <1>0, <1>3, <1>4, <1>5 DEF MailInv

\* A tool call, or a deletion, is that of an account with a row.
LEMMA OtherBegin ==
  ASSUME MailInv, NEW t \in Tasks, NEW u \in Users, ToolCall(t, u) \/ DeleteAccount(t, u)
  PROVE  MailInv'
  <1>1. PICK step \in {"bumpSearch", "bumpHit", "deleteUsage"} : Begin(t, u, step)
    BY DEF ToolCall, DeleteAccount
  <1>2. rows[u] # None /\ births[u] # 0
    BY DEF ToolCall, DeleteAccount, HasRow, MailInv, Unborn
  <1>3. /\ TasksTyped' /\ pc'[t] = step /\ pc[t] = "idle"
        /\ \A k \in Tasks \ {t} : pc'[k] = pc[k]
        /\ \A v : Mine(t, v)' <=> v = u
        /\ \A k \in Tasks \ {t} : \A v : Mine(k, v)' <=> Mine(k, v)
    BY <1>1, BeginMine DEF Steps, UsageSteps, DeleteSteps
  <1>4. UNCHANGED <<day, rows, usage, contacts, sent, births>>
    BY DEF ToolCall, DeleteAccount, store, mail
  <1>5. StoreTyped'
    BY <1>4 DEF MailInv, StoreTyped
  <1>6. ASSUME NEW v \in Users
        PROVE  (Unborn(v) /\ Single(v) /\ Young(v))'
    <2>1. Unborn(v) /\ Single(v) /\ Young(v)
      BY DEF MailInv
    <2>2. /\ step \notin HandOffSteps \cup Unposted \cup NoteSteps
      BY DEF HandOffSteps, Unposted, NoteSteps
    <2>3. Unborn(v)'
      BY <1>2, <1>3, <1>4, <2>1 DEF Unborn
    <2>4. Single(v)'
      BY <1>3, <1>4, <2>1, <2>2 DEF Single
    <2>5. Young(v)'
      BY <1>3, <1>4, <2>1, <2>2 DEF Young
    <2> QED BY <2>3, <2>4, <2>5
  <1> QED BY <1>3, <1>5, <1>6 DEF MailInv

\* The account holder unsubscribes at one place or the other; a day passes.
LEMMA HolderKeeps ==
  ASSUME MailInv,
         \/ \E u \in Users : Unsubscribe(u) \/ UnsubscribeAtProvider(u)
         \/ NextDay
  PROVE  MailInv'
  <1>1. ASSUME NEW u \in Users, Unsubscribe(u)
        PROVE  MailInv'
    <2>1. /\ rows[u] \in Row /\ rows \in [Users -> Row \cup {None}]
          /\ rows' = [rows EXCEPT ![u].optOut = TRUE] /\ sent[u] # << >>
          /\ UNCHANGED <<day, usage, contacts, pc, job, births, sent>>
      BY <1>1 DEF Unsubscribe, HasRow, MailInv, StoreTyped
    <2>2. rows' \in [Users -> Row \cup {None}]
      BY <2>1 DEF Row
    <2>3. StoreTyped' /\ TasksTyped'
      BY <2>1, <2>2 DEF MailInv, StoreTyped, TasksTyped
    <2>4. ASSUME NEW v \in Users
          PROVE  (Unborn(v) /\ Single(v) /\ Young(v))'
      <3>1. /\ Unborn(v) /\ Single(v) /\ Young(v)
            /\ \A k \in Tasks : Mine(k, v)' <=> Mine(k, v)
            /\ v # u => rows'[v] = rows[v]
        BY <2>1 DEF MailInv, Mine
      <3> QED BY <1>1, <2>1, <3>1 DEF Unborn, Single, Young, Unsubscribe, HasRow
    <2> QED BY <2>3, <2>4 DEF MailInv
  <1>2. ASSUME NEW u \in Users, UnsubscribeAtProvider(u)
        PROVE  MailInv'
    <2>1. /\ contacts[u] = "subscribed" /\ contacts' = [contacts EXCEPT ![u] = "unsubscribed"]
          /\ UNCHANGED <<day, rows, usage, pc, job, births, sent>>
      BY <1>2 DEF UnsubscribeAtProvider
    <2>2. StoreTyped' /\ TasksTyped'
      BY <2>1 DEF MailInv, StoreTyped, TasksTyped, Contacts
    <2>3. ASSUME NEW v \in Users
          PROVE  (Unborn(v) /\ Single(v) /\ Young(v))'
      <3>1. /\ Unborn(v) /\ Single(v) /\ Young(v)
            /\ \A k \in Tasks : Mine(k, v)' <=> Mine(k, v)
        BY <2>1 DEF MailInv, Mine, StoreTyped
      <3> QED BY <2>1, <3>1 DEF Unborn, Single, Young, Unposted
    <2> QED BY <2>2, <2>3 DEF MailInv
  <1>3. CASE NextDay
    <2>1. /\ \A t \in Tasks : pc'[t] = "idle"
          /\ UNCHANGED <<rows, usage, contacts, pc, job, births, sent>>
      BY <1>3 DEF NextDay
    <2>2. day' \in Days
      BY <1>3, MailAssumption DEF NextDay, MailInv, StoreTyped, Days
    <2>3. StoreTyped' /\ TasksTyped'
      BY <2>1, <2>2 DEF MailInv, StoreTyped, TasksTyped
    <2>4. ASSUME NEW v \in Users
          PROVE  (Unborn(v) /\ Single(v) /\ Young(v))'
      <3>1. Unborn(v) /\ \A k \in Tasks : ~Mine(k, v)'
        BY <2>1 DEF MailInv, Mine
      <3> QED BY <2>1, <3>1 DEF Unborn, Single, Young
    <2> QED BY <2>3, <2>4 DEF MailInv
  <1> QED BY <1>1, <1>2, <1>3

\* Every step keeps the invariant.
LEMMA StepMail == MailInv /\ [Next]_vars => MailInv'
  <1> SUFFICES ASSUME MailInv, [Next]_vars PROVE MailInv'
    OBVIOUS
  <1>1. CASE UNCHANGED vars
    BY <1>1 DEF vars, MailInv, StoreTyped, TasksTyped, Unborn, Single, Young, Mine
  <1>2. CASE \E u \in Users : Unsubscribe(u) \/ UnsubscribeAtProvider(u)
    BY <1>2, HolderKeeps
  <1>3. CASE NextDay
    BY <1>3, HolderKeeps
  <1> QED BY <1>1, <1>2, <1>3, HandOffKeeps, UsageKeeps, DeletionKeeps, SignInKeeps, OtherBegin
          DEF Next

\* The inductive invariant.
THEOREM MailInvariant == Spec => []MailInv
  BY InitMail, StepMail, PTL DEF Spec

-----------------------------------------------------------------------------
(* The opt-outs.                                                              *)

\* Only the post of a hand-off undoes an unsubscribe, and only an insert gives
\* an account another row.
LEMMA UndoneChange ==
  ASSUME [Next]_vars
  PROVE  /\ undone' # undone => \E t \in Tasks : CreateContact(t)
         /\ births' # births => \E t \in Tasks, u \in Users : SignIn(t, u)
  <1>1. \A t \in Tasks : HandOff(t) => births' = births /\ (undone' = undone \/ CreateContact(t))
    BY Zenon DEF HandOff, FetchToken, LookUpContact, CreateContact, ReadRow, ClaimWelcome,
                 PostWelcome, ReleaseWelcome, Post, Go, GoWith, mail
  <1>2. \A t \in Tasks : UsageTask(t) => births' = births /\ undone' = undone
    BY Zenon DEF UsageTask, BumpUsage, ReadSignals, ReadAccount, CountLane, ClaimNote,
                 PostNote, ReleaseNote, Post, Go, GoWith, mail
  <1>3. \A t \in Tasks : DeleteUsage(t) \/ DeleteRow(t) \/ Abort(t) =>
                           births' = births /\ undone' = undone
    BY Zenon DEF DeleteUsage, DeleteRow, Abort, Go, mail
  <1>4. \A t \in Tasks, u \in Users :
          /\ SignIn(t, u) => undone' = undone
          /\ ToolCall(t, u) \/ DeleteAccount(t, u) => births' = births /\ undone' = undone
    BY Zenon DEF SignIn, ToolCall, DeleteAccount, mail
  <1>5. \A u \in Users : Unsubscribe(u) \/ UnsubscribeAtProvider(u) =>
                           births' = births /\ undone' = undone
    BY Zenon DEF Unsubscribe, UnsubscribeAtProvider
  <1>6. NextDay \/ UNCHANGED vars => births' = births /\ undone' = undone
    BY DEF NextDay, vars
  <1> QED BY <1>1, <1>2, <1>3, <1>4, <1>5, <1>6, Zenon DEF Next

\* A task about to look up or post an address was so before, for the same
\* account, or begins with a first sign-in.
LEMMA ReachUnposted ==
  ASSUME MailInv, [Next]_vars, NEW k \in Tasks, NEW u, Mine(k, u)', pc'[k] \in Unposted
  PROVE  (Mine(k, u) /\ pc[k] \in Unposted) \/ SignIn(k, u)
  <1> SUFFICES ASSUME ~(Mine(k, u) /\ pc[k] \in Unposted) PROVE SignIn(k, u)
    OBVIOUS
  <1> USE DEF Unposted
  <1>1. ASSUME NEW t \in Tasks, NEW step, step \notin Unposted \/ pc[t] \in Unposted,
               \/ Go(t, step)
               \/ \E field \in {"token", "unsubscribed", "lane"} :
                    \E value : GoWith(t, step, field, value)
        PROVE  FALSE
    <2>1. pc'[t] = step /\ \A j \in Tasks \ {t} : pc'[j] = pc[j] /\ job'[j] = job[j]
      BY <1>1 DEF Go, GoWith, MailInv, TasksTyped
    <2>2. t = k /\ step \in Unposted /\ pc[t] \in Unposted
      BY <1>1, <2>1 DEF Mine
    <2>3. job[t] \in Job
      BY <2>2 DEF MailInv, TasksTyped
    <2>4. job'[t].user = job[t].user
      <3>1. CASE Go(t, step)
        BY <2>2, <3>1 DEF Go
      <3>2. ASSUME NEW field \in {"token", "unsubscribed", "lane"}, NEW value,
                   GoWith(t, step, field, value)
            PROVE  job'[t].user = job[t].user
        <4>1. job'[t] = [job[t] EXCEPT ![field] = value]
          BY <3>2 DEF GoWith, MailInv, TasksTyped
        <4> QED BY <2>3, <4>1 DEF Job
      <3> QED BY <1>1, <3>1, <3>2
    <2> QED BY <2>2, <2>4 DEF Mine
  <1>2. ASSUME NEW t \in Tasks, HandOff(t)
        PROVE  FALSE
    BY <1>1, <1>2
    DEF HandOff, FetchToken, LookUpContact, CreateContact, ReadRow, ClaimWelcome, PostWelcome,
        ReleaseWelcome, Post
  <1>3. ASSUME NEW t \in Tasks, UsageTask(t)
        PROVE  FALSE
    BY <1>1, <1>3
    DEF UsageTask, BumpUsage, ReadSignals, ReadAccount, CountLane, ClaimNote, PostNote,
        ReleaseNote, Post
  <1>4. ASSUME NEW t \in Tasks, DeleteUsage(t) \/ DeleteRow(t) \/ Abort(t)
        PROVE  FALSE
    BY <1>1, <1>4 DEF DeleteUsage, DeleteRow, Abort
  <1>5. ASSUME NEW t \in Tasks, NEW v \in Users, NEW step \in Steps \ {"idle"}, Begin(t, v, step)
        PROVE  t = k /\ v = u /\ step \in Unposted
    BY <1>5, BeginMine
  <1>6. ASSUME NEW t \in Tasks, NEW v \in Users,
               SignIn(t, v) \/ ToolCall(t, v) \/ DeleteAccount(t, v)
        PROVE  SignIn(k, u)
    BY <1>5, <1>6 DEF SignIn, ToolCall, DeleteAccount, Steps, HandOffSteps, UsageSteps, DeleteSteps
  <1>7. ~NextDay /\ ~UNCHANGED vars /\ \A v \in Users : ~Unsubscribe(v) /\ ~UnsubscribeAtProvider(v)
    BY DEF NextDay, vars, Unsubscribe, UnsubscribeAtProvider, Mine
  <1> QED BY <1>2, <1>3, <1>4, <1>6, <1>7 DEF Next

\* The hand-offs of an account that may still post its contact: each of them
\* can undo one unsubscribe, and each has a row of its own.
Unposting(u) == {t \in Tasks : Mine(t, u) /\ pc[t] \in Unposted}

Sparing ==
  /\ undone \in [Users -> Nat]
  /\ \A u \in Users : undone[u] + Cardinality(Unposting(u)) <= births[u]

LEMMA UnpostingFinite ==
  ASSUME NEW u
  PROVE  /\ IsFiniteSet(Unposting(u)) /\ Cardinality(Unposting(u)) \in Nat
         /\ IsFiniteSet(Unposting(u)') /\ Cardinality(Unposting(u)') \in Nat
  <1>1. Unposting(u) \subseteq Tasks /\ Unposting(u)' \subseteq Tasks /\ IsFiniteSet(Tasks)
    BY MailAssumption DEF Unposting
  <1> QED BY <1>1, FS_Subset, FS_CardinalityType

LEMMA InitSparing == Init => Sparing
  <1> SUFFICES ASSUME Init PROVE Sparing
    OBVIOUS
  <1>1. ASSUME NEW u \in Users
        PROVE  undone[u] + Cardinality(Unposting(u)) <= births[u]
    <2>1. Unposting(u) = {}
      BY DEF Init, Unposting, Unposted
    <2>2. Cardinality(Unposting(u)) = 0
      BY <2>1, FS_EmptySet
    <2> QED BY <2>2 DEF Init
  <1>2. undone \in [Users -> Nat]
    BY DEF Init
  <1> QED BY <1>1, <1>2 DEF Sparing

LEMMA SparingStep ==
  ASSUME MailInv, Sparing, [Next]_vars
  PROVE  Sparing'
  <1>0. undone \in [Users -> Nat] /\ births \in [Users -> 0 .. MaxJobs] /\ MaxJobs \in Nat
    BY MailAssumption DEF Sparing, MailInv, StoreTyped
  <1>1. ASSUME NEW t \in Tasks, CreateContact(t)
        PROVE  Sparing'
    <2> DEFINE u0 == job[t].user
    <2>1. u0 \in Users /\ t \in Unposting(u0) /\ pc'[t] = "readRow"
          /\ \A k \in Tasks, u \in Users : ~SignIn(k, u)
      <3>1. pc[t] = "create" /\ pc'[t] = "readRow" /\ births' = births
        BY <1>1 DEF CreateContact, Go, MailInv, TasksTyped
      <3>2. u0 \in Users /\ t \in Unposting(u0)
        BY <3>1 DEF MailInv, TasksTyped, Job, Unposting, Mine, Unposted
      <3>3. \A u \in Users : births[u] \in Nat
        BY <1>0
      <3>4. \A k \in Tasks, u \in Users : ~SignIn(k, u)
        BY <1>0, <3>1, <3>3 DEF SignIn, Upsert
      <3> QED BY <3>1, <3>2, <3>4
    <2>2. births' = births /\ undone' \in {undone, [undone EXCEPT ![u0] = @ + 1]}
      BY <1>1 DEF CreateContact, Go
    <2> HIDE DEF u0
    <2>3. ASSUME NEW u \in Users
          PROVE  /\ Unposting(u)' \subseteq Unposting(u)
                 /\ t \notin Unposting(u)'
      BY <2>1, <2>3, ReachUnposted DEF Unposting, Unposted
    <2>4. ASSUME NEW u \in Users
          PROVE  undone'[u] + Cardinality(Unposting(u)') <= births'[u]
      <3> DEFINE before == Cardinality(Unposting(u))
                 after == Cardinality(Unposting(u)')
      <3>1. before \in Nat /\ after \in Nat /\ after <= before
        BY <2>3, UnpostingFinite, FS_Subset
      <3>2. undone[u] + before <= births[u] /\ undone[u] \in Nat /\ births[u] \in Nat
        BY <1>0 DEF Sparing
      <3>3. CASE u = u0
        <4>1. Unposting(u)' \subseteq Unposting(u) \ {t} /\ t \in Unposting(u)
          BY <2>1, <2>3, <3>3
        <4>2. Cardinality(Unposting(u) \ {t}) = before - 1 /\ IsFiniteSet(Unposting(u) \ {t})
          BY <4>1, UnpostingFinite, FS_RemoveElement
        <4>3. after <= before - 1
          BY <4>1, <4>2, FS_Subset
        <4>4. undone'[u] <= undone[u] + 1 /\ undone'[u] \in Nat
          BY <1>0, <2>1, <2>2, <3>3
        <4> HIDE DEF before, after
        <4> QED BY <2>2, <3>1, <3>2, <4>3, <4>4 DEF after
      <3>4. CASE u # u0
        <4>1. undone'[u] = undone[u]
          BY <1>0, <2>1, <2>2, <3>4
        <4> HIDE DEF before, after
        <4> QED BY <2>2, <3>1, <3>2, <4>1 DEF after
      <3> QED BY <3>3, <3>4
    <2>5. undone' \in [Users -> Nat]
      BY <1>0, <2>1, <2>2
    <2> QED BY <2>4, <2>5 DEF Sparing
  <1>2. ASSUME NEW t \in Tasks, NEW v \in Users, SignIn(t, v)
        PROVE  Sparing'
    <2>1. undone' = undone /\ births'[v] = births[v] + 1 /\ births[v] \in Nat
          /\ \A u \in Users \ {v} : births'[u] = births[u]
      BY <1>0, <1>2 DEF SignIn, Upsert, mail
    <2>2. \A k \in Tasks, u \in Users : SignIn(k, u) => k = t /\ u = v
      <3>1. ASSUME NEW k \in Tasks, NEW u \in Users, SignIn(k, u), k # t \/ u # v
            PROVE  FALSE
        <4>1. births' = [births EXCEPT ![v] = @ + 1] /\ births' = [births EXCEPT ![u] = @ + 1]
          BY <1>2, <3>1 DEF SignIn, Upsert
        <4>2. u = v
          BY <1>0, <4>1
        <4>3. pc' = [pc EXCEPT ![t] = "fetchToken"] /\ pc' = [pc EXCEPT ![k] = "fetchToken"]
              /\ pc[k] = "idle"
          BY <1>2, <3>1, Zenon DEF SignIn, Begin
        <4>4. k # t /\ DOMAIN pc = Tasks
          BY <3>1, <4>2 DEF MailInv, TasksTyped
        <4> QED BY <4>3, <4>4
      <3> QED BY <3>1
    <2>3. ASSUME NEW u \in Users
          PROVE  Unposting(u)' \subseteq Unposting(u) \cup {t}
                 /\ (u # v => Unposting(u)' \subseteq Unposting(u))
      BY <2>2, ReachUnposted DEF Unposting
    <2>4. ASSUME NEW u \in Users
          PROVE  undone'[u] + Cardinality(Unposting(u)') <= births'[u]
      <3> DEFINE before == Cardinality(Unposting(u))
                 after == Cardinality(Unposting(u)')
      <3>1. undone[u] + before <= births[u] /\ undone[u] \in Nat /\ births[u] \in Nat
            /\ before \in Nat /\ after \in Nat
        BY <1>0, UnpostingFinite DEF Sparing
      <3>2. CASE u = v
        <4>1. Cardinality(Unposting(u) \cup {t}) \in {before, before + 1}
              /\ IsFiniteSet(Unposting(u) \cup {t})
          BY UnpostingFinite, FS_AddElement
        <4>2. after <= before + 1
          BY <2>3, <3>1, <4>1, FS_Subset
        <4> HIDE DEF before, after
        <4> QED BY <2>1, <3>1, <3>2, <4>2 DEF after
      <3>3. CASE u # v
        <4>1. after <= before
          BY <2>3, <3>3, UnpostingFinite, FS_Subset
        <4> HIDE DEF before, after
        <4> QED BY <2>1, <3>1, <3>3, <4>1 DEF after
      <3> QED BY <3>2, <3>3
    <2> QED BY <1>0, <2>1, <2>4 DEF Sparing
  <1>3. CASE (\A t \in Tasks : ~CreateContact(t)) /\ \A t \in Tasks, u \in Users : ~SignIn(t, u)
    <2>1. undone' = undone /\ births' = births
      BY <1>3, UndoneChange
    <2>2. ASSUME NEW u \in Users
          PROVE  undone'[u] + Cardinality(Unposting(u)') <= births'[u]
      <3>1. Unposting(u)' \subseteq Unposting(u)
        BY <1>3, ReachUnposted DEF Unposting
      <3> DEFINE before == Cardinality(Unposting(u))
                 after == Cardinality(Unposting(u)')
      <3>2. before \in Nat /\ after \in Nat /\ after <= before
        BY <3>1, UnpostingFinite, FS_Subset
      <3>3. undone[u] + before <= births[u] /\ undone[u] \in Nat /\ births[u] \in Nat
        BY <1>0 DEF Sparing
      <3> HIDE DEF before, after
      <3> QED BY <2>1, <3>2, <3>3 DEF after
    <2> QED BY <1>0, <2>1, <2>2 DEF Sparing
  <1> QED BY <1>1, <1>2, <1>3

\* An address that unsubscribed at the provider is subscribed again at most
\* once for every row its account has had, however syncs fail or overlap and
\* whenever the account is deleted: the one hand-off a row has posts once.
THEOREM OncePerFirstSignIn == Spec => []ResubscribedOncePerRow
  <1>1. MailInv /\ Sparing => ResubscribedOncePerRow
    <2> SUFFICES ASSUME MailInv, Sparing, NEW u \in Users PROVE undone[u] <= births[u]
      BY DEF ResubscribedOncePerRow
    <2>1. undone[u] \in Nat /\ births[u] \in Nat /\ Cardinality(Unposting(u)) \in Nat
      BY UnpostingFinite, MailAssumption DEF Sparing, MailInv, StoreTyped
    <2>2. undone[u] + Cardinality(Unposting(u)) <= births[u]
      BY DEF Sparing
    <2> QED BY <2>1, <2>2
  <1> QED BY <1>1, InitSparing, SparingStep, MailInvariant, PTL DEF Spec

\* What OptOutWins says of one account.
Respected(u) ==
  HasRow(u) /\ rows[u].optOut /\ rows'[u] # None
    => /\ rows'[u].optOut
       /\ rows'[u].note \in {rows[u].note, None}
       /\ NeverDeleted(u) => rows'[u].welcome \in {rows[u].welcome, None}

\* A row is left alone, taken away, or has a note or welcome given back, or it
\* is claimed for an account that has not opted out.
LEMMA RowSteps ==
  ASSUME MailInv, NEW u \in Users, HasRow(u),
         \/ rows' = rows
         \/ \E v \in Users, col \in {"welcome", "note"} : UpdateRow(v, col, None)
         \/ \E v \in Users : rows' = [rows EXCEPT ![v] = None]
         \/ \E v \in Users : rows' = [rows EXCEPT ![v].optOut = TRUE]
         \/ \E v \in Users : ~HasRow(v) /\ \E r : rows' = [rows EXCEPT ![v] = r]
  PROVE  Respected(u)
  <1>0. rows \in [Users -> Row \cup {None}] /\ rows[u] \in Row
    BY DEF MailInv, StoreTyped, HasRow
  <1>1. CASE rows' = rows
    BY <1>1 DEF Respected
  <1>2. ASSUME NEW v \in Users, NEW col \in {"welcome", "note"}, UpdateRow(v, col, None)
        PROVE  Respected(u)
    <2>1. CASE ~HasRow(v) \/ v # u
      BY <1>0, <1>2, <2>1 DEF UpdateRow, Respected
    <2>2. CASE HasRow(v) /\ v = u
      <3>1. rows'[u] = [rows[u] EXCEPT ![col] = None]
        BY <1>0, <1>2, <2>2 DEF UpdateRow
      <3> QED BY <1>0, <3>1 DEF Respected, Row
    <2> QED BY <2>1, <2>2
  <1>3. ASSUME NEW v \in Users, rows' = [rows EXCEPT ![v] = None]
        PROVE  Respected(u)
    BY <1>0, <1>3 DEF Respected
  <1>4. ASSUME NEW v \in Users, rows' = [rows EXCEPT ![v].optOut = TRUE]
        PROVE  Respected(u)
    BY <1>0, <1>4 DEF Respected, Row
  <1>5. ASSUME NEW v \in Users, ~HasRow(v), NEW r, rows' = [rows EXCEPT ![v] = r]
        PROVE  Respected(u)
    BY <1>0, <1>5 DEF Respected, HasRow
  <1> QED BY <1>1, <1>2, <1>3, <1>4, <1>5

\* The claims.
LEMMA ClaimsRespect ==
  ASSUME MailInv, NEW u \in Users, NEW t \in Tasks, ClaimWelcome(t) \/ ClaimNote(t)
  PROVE  Respected(u)
  <1>0. /\ rows \in [Users -> Row \cup {None}] /\ births[u] \in 0 .. MaxJobs
        /\ job[t].user \in Users
    BY DEF MailInv, StoreTyped, TasksTyped, Job, ClaimWelcome, ClaimNote
  <1> DEFINE v == job[t].user
  <1>1. CASE rows' = rows
    BY <1>1 DEF Respected
  <1>2. CASE ClaimNote(t) /\ rows' # rows
    <2>1. ~rows[v].optOut /\ UpdateRow(v, "note", day)
      BY <1>2 DEF ClaimNote, ClaimsNote
    <2>2. rows' = [rows EXCEPT ![v]["note"] = day]
      BY <1>2, <2>1 DEF UpdateRow
    <2> HIDE DEF v
    <2> QED BY <1>0, <2>1, <2>2 DEF Respected, v
  <1>3. CASE ClaimWelcome(t) /\ rows' # rows
    <2>1. pc[t] = "claimWelcome" /\ UpdateRow(v, "welcome", day)
      BY <1>3 DEF ClaimWelcome
    <2>2. rows' = [rows EXCEPT ![v]["welcome"] = day] /\ HasRow(v)
      BY <1>3, <2>1 DEF UpdateRow
    <2>3. CASE v # u
      BY <1>0, <2>2, <2>3 DEF Respected
    <2>4. CASE v = u
      <3>1. rows[u] \in Row /\ rows'[u] = [rows[u] EXCEPT !["welcome"] = day]
        BY <1>0, <2>2, <2>4 DEF HasRow
      <3>2. rows'[u].optOut = rows[u].optOut /\ rows'[u].note = rows[u].note
        BY <3>1 DEF Row
      <3>3. ASSUME NeverDeleted(u) PROVE ~rows[u].optOut
        <4>1. Mine(t, u) /\ pc[t] \in HandOffSteps
          BY <2>1, <2>4 DEF Mine, HandOffSteps
        <4>2. births[u] = 1
          BY <1>0, <3>3, <4>1, MailAssumption DEF MailInv, Unborn, NeverDeleted
        <4> QED BY <2>2, <2>4, <4>1, <4>2 DEF MailInv, Young, HasRow
      <3> QED BY <3>2, <3>3 DEF Respected
    <2> QED BY <2>3, <2>4
  <1> QED BY <1>1, <1>2, <1>3

\* Once an account has opted out, no note is claimed for it any more, nor its
\* welcome while it keeps its first row, whatever a task had read before.
THEOREM OptOutStands == Spec => OptOutWins
  <1>1. MailInv /\ [Next]_vars => [\A u \in Users : Respected(u)]_vars
    <2> SUFFICES ASSUME MailInv, [Next]_vars, NEW u \in Users, HasRow(u)
                 PROVE  Respected(u)
      BY DEF Respected
    <2>0. \A t \in Tasks : pc[t] # "idle" => job[t].user \in Users
      BY DEF MailInv, TasksTyped, Job
    <2>1. ASSUME NEW t \in Tasks, HandOff(t) \/ UsageTask(t)
          PROVE  Respected(u)
      <3>1. CASE ReleaseWelcome(t) \/ ReleaseNote(t)
        BY <2>0, <3>1, RowSteps DEF ReleaseWelcome, ReleaseNote
      <3>2. CASE ClaimWelcome(t) \/ ClaimNote(t)
        BY <3>2, ClaimsRespect
      <3>3. CASE rows' = rows
        BY <3>3, RowSteps
      <3>4. rows' = rows \/ ReleaseWelcome(t) \/ ReleaseNote(t) \/ ClaimWelcome(t) \/ ClaimNote(t)
        BY <2>1, Zenon DEF HandOff, UsageTask, FetchToken, LookUpContact, CreateContact, ReadRow,
             PostWelcome, BumpUsage, ReadSignals, ReadAccount, CountLane, PostNote, store
      <3> QED BY <3>1, <3>2, <3>3, <3>4
    <2>2. ASSUME NEW t \in Tasks, DeleteUsage(t) \/ DeleteRow(t) \/ Abort(t)
          PROVE  Respected(u)
      BY <2>0, <2>2, RowSteps DEF DeleteUsage, DeleteRow, Abort, store
    <2>3. ASSUME NEW t \in Tasks, NEW v \in Users, SignIn(t, v) \/ ToolCall(t, v) \/ DeleteAccount(t, v)
          PROVE  Respected(u)
      BY <2>3, RowSteps DEF SignIn, Upsert, ToolCall, DeleteAccount, store
    <2>4. ASSUME NEW v \in Users, Unsubscribe(v) \/ UnsubscribeAtProvider(v)
          PROVE  Respected(u)
      BY <2>4, RowSteps DEF Unsubscribe, UnsubscribeAtProvider
    <2>5. CASE NextDay \/ UNCHANGED vars
      BY <2>5, RowSteps DEF NextDay, vars
    <2> QED BY <2>1, <2>2, <2>3, <2>4, <2>5 DEF Next
  <1>2. OptOutWins <=> [][\A u \in Users : Respected(u)]_vars
    BY DEF OptOutWins, Respected
  <1> QED BY <1>1, <1>2, MailInvariant, PTL DEF Spec

-----------------------------------------------------------------------------
(* Type correctness.                                                          *)

\* The tasks at a step.
At(step) == {t \in Tasks : pc[t] = step}

\* A usage row counts no more than the passes begun, those that have yet to
\* write left out; the account may have searched once before.
Counted ==
  /\ begun \in 0 .. MaxJobs /\ deleted \in BOOLEAN
  /\ \A u \in Users, d \in Days :
       /\ usage[u][d].searches + Cardinality(At("bumpSearch")) <= begun + 1
       /\ usage[u][d].hits + Cardinality(At("bumpHit")) <= begun

LEMMA AtFinite ==
  ASSUME NEW step
  PROVE  /\ IsFiniteSet(At(step)) /\ Cardinality(At(step)) \in Nat
         /\ IsFiniteSet(At(step)') /\ Cardinality(At(step)') \in Nat
  <1>1. At(step) \subseteq Tasks /\ At(step)' \subseteq Tasks /\ IsFiniteSet(Tasks)
    BY MailAssumption DEF At
  <1> QED BY <1>1, FS_Subset, FS_CardinalityType

\* A step that begins no task and counts nothing.
LEMMA QuietCount ==
  ASSUME MailInv, MailInv', Counted, begun' = begun, deleted' \in BOOLEAN,
         \A t \in Tasks : pc'[t] \in {"bumpSearch", "bumpHit"} => pc'[t] = pc[t],
         \A u \in Users, d \in Days : usage'[u][d] \in {usage[u][d], NoUsage}
  PROVE  Counted'
  <1>1. Cardinality(At("bumpSearch")') <= Cardinality(At("bumpSearch"))
        /\ Cardinality(At("bumpHit")') <= Cardinality(At("bumpHit"))
    <2>1. At("bumpSearch")' \subseteq At("bumpSearch") /\ At("bumpHit")' \subseteq At("bumpHit")
      BY DEF At
    <2> QED BY <2>1, AtFinite, FS_Subset
  <1>2. ASSUME NEW u \in Users, NEW d \in Days
        PROVE  /\ usage'[u][d].searches <= usage[u][d].searches
               /\ usage'[u][d].hits <= usage[u][d].hits
               /\ usage[u][d] \in [searches : Nat, hits : Nat]
               /\ usage'[u][d] \in [searches : Nat, hits : Nat]
    <2>1. usage[u][d] \in [searches : Nat, hits : Nat]
      BY DEF MailInv, StoreTyped
    <2>2. usage'[u][d] = usage[u][d] \/ usage'[u][d] = NoUsage
      OBVIOUS
    <2> QED BY <2>1, <2>2 DEF NoUsage
  <1>3. ASSUME NEW u \in Users, NEW d \in Days
        PROVE  /\ usage'[u][d].searches + Cardinality(At("bumpSearch")') <= begun + 1
               /\ usage'[u][d].hits + Cardinality(At("bumpHit")') <= begun
    <2>1. /\ usage[u][d].searches + Cardinality(At("bumpSearch")) <= begun + 1
          /\ usage[u][d].hits + Cardinality(At("bumpHit")) <= begun
          /\ begun \in Nat
      BY MailAssumption DEF Counted
    <2> QED BY <1>1, <1>2, <2>1, AtFinite
  <1> QED BY <1>3 DEF Counted

\* A task begins.
LEMMA BeginCount ==
  ASSUME Counted, NEW t \in Tasks, NEW u \in Users, NEW step, Begin(t, u, step),
         MailInv, usage' = usage, deleted' = deleted
  PROVE  Counted'
  <1>0. begun' = begun + 1 /\ begun' \in 0 .. MaxJobs /\ begun \in Nat
    BY MailAssumption DEF Begin, Counted
  <1>1. ASSUME NEW s
        PROVE  Cardinality(At(s)') <= Cardinality(At(s)) + 1
    <2>1. At(s)' \subseteq At(s) \cup {t}
      BY DEF At, Begin, MailInv, TasksTyped
    <2>2. /\ IsFiniteSet(At(s) \cup {t})
          /\ Cardinality(At(s) \cup {t}) <= Cardinality(At(s)) + 1
      <3>1. IsFiniteSet(At(s)) /\ Cardinality(At(s)) \in Nat
        BY AtFinite
      <3>2. /\ IsFiniteSet(At(s) \cup {t})
            /\ Cardinality(At(s) \cup {t})
                 = IF t \in At(s) THEN Cardinality(At(s)) ELSE Cardinality(At(s)) + 1
        BY <3>1, FS_AddElement, Zenon
      <3> QED BY <3>1, <3>2
    <2>3. Cardinality(At(s)') <= Cardinality(At(s) \cup {t})
      BY <2>1, <2>2, FS_Subset
    <2>4. Cardinality(At(s)') \in Nat /\ Cardinality(At(s)) \in Nat
          /\ Cardinality(At(s) \cup {t}) \in Nat
      BY <2>2, AtFinite, FS_CardinalityType
    <2> QED BY <2>2, <2>3, <2>4
  <1>2. ASSUME NEW v \in Users, NEW d \in Days
        PROVE  /\ usage'[v][d].searches + Cardinality(At("bumpSearch")') <= begun' + 1
               /\ usage'[v][d].hits + Cardinality(At("bumpHit")') <= begun'
    <2>1. /\ usage[v][d].searches + Cardinality(At("bumpSearch")) <= begun + 1
          /\ usage[v][d].hits + Cardinality(At("bumpHit")) <= begun
          /\ usage[v][d] \in [searches : Nat, hits : Nat]
      BY DEF Counted, MailInv, StoreTyped
    <2>2. usage'[v][d] = usage[v][d]
      OBVIOUS
    <2> QED BY <1>0, <1>1, <2>1, <2>2, AtFinite
  <1> QED BY <1>0, <1>2 DEF Counted

\* A usage pass writes what it counts.
LEMMA BumpCount ==
  ASSUME Counted, NEW t \in Tasks, BumpUsage(t), MailInv, MailInv', begun' = begun,
         deleted' = deleted
  PROVE  Counted'
  <1>1. /\ pc[t] \in {"bumpSearch", "bumpHit"} /\ pc'[t] = "signals"
        /\ \A k \in Tasks \ {t} : pc'[k] = pc[k]
    BY DEF BumpUsage, Go, MailInv, TasksTyped
  <1>2. ASSUME NEW s \in {"bumpSearch", "bumpHit"}
        PROVE  Cardinality(At(s)') = IF pc[t] = s THEN Cardinality(At(s)) - 1 ELSE Cardinality(At(s))
    <2>1. At(s)' = At(s) \ {t} /\ (t \in At(s) <=> pc[t] = s)
      BY <1>1 DEF At
    <2> QED BY <2>1, AtFinite, FS_RemoveElement
  <1>3. ASSUME NEW u \in Users, NEW d \in Days
        PROVE  /\ usage[u][d] \in [searches : Nat, hits : Nat]
               /\ usage'[u][d] \in [searches : Nat, hits : Nat]
               /\ usage'[u][d].searches <= usage[u][d].searches
                                            + IF pc[t] = "bumpSearch" THEN 1 ELSE 0
               /\ usage'[u][d].hits <= usage[u][d].hits + IF pc[t] = "bumpHit" THEN 1 ELSE 0
    <2> DEFINE u0 == job[t].user
    <2>1. u0 \in Users /\ day \in Days
          /\ usage \in [Users -> [Days -> [searches : Nat, hits : Nat]]]
          /\ usage' \in [Users -> [Days -> [searches : Nat, hits : Nat]]]
      BY <1>1 DEF MailInv, StoreTyped, TasksTyped, Job
    <2> HIDE DEF u0
    <2>2. CASE usage'[u][d] = usage[u][d]
      BY <2>1, <2>2
    <2>3. CASE usage'[u][d] # usage[u][d]
      <3>1. PICK field \in {"searches", "hits"} :
              /\ field = "searches" <=> pc[t] = "bumpSearch"
              /\ field = "hits" <=> pc[t] = "bumpHit"
              /\ usage' = [usage EXCEPT ![u0][day][field] = @ + 1]
        BY <1>1, <2>3 DEF BumpUsage, u0
      <3>2. u = u0 /\ d = day
        BY <2>1, <2>3, <3>1
      <3>3. usage'[u][d] = [usage[u][d] EXCEPT ![field] = @ + 1]
        BY <2>1, <3>1, <3>2
      <3>4. usage[u][d] \in [searches : Nat, hits : Nat]
        BY <2>1
      <3> QED BY <2>1, <3>1, <3>3, <3>4
    <2> QED BY <2>2, <2>3
  <1>4. ASSUME NEW u \in Users, NEW d \in Days
        PROVE  /\ usage'[u][d].searches + Cardinality(At("bumpSearch")') <= begun + 1
               /\ usage'[u][d].hits + Cardinality(At("bumpHit")') <= begun
    <2>1. /\ usage[u][d].searches + Cardinality(At("bumpSearch")) <= begun + 1
          /\ usage[u][d].hits + Cardinality(At("bumpHit")) <= begun
          /\ begun \in Nat
      BY MailAssumption DEF Counted
    <2> QED BY <1>2, <1>3, <2>1, AtFinite
  <1> QED BY <1>4 DEF Counted

LEMMA CountedStep ==
  ASSUME MailInv, MailInv', Counted, [Next]_vars
  PROVE  Counted'
  <1>0. usage \in [Users -> [Days -> [searches : Nat, hits : Nat]]]
    BY DEF MailInv, StoreTyped
  <1>1. ASSUME NEW t \in Tasks, HandOff(t)
        PROVE  Counted'
    <2>1. UNCHANGED <<begun, deleted, usage>>
      BY <1>1, Zenon
      DEF HandOff, FetchToken, LookUpContact, CreateContact, ReadRow, ClaimWelcome, PostWelcome,
          ReleaseWelcome, Post, Go, GoWith, store
    <2>2. \A k \in Tasks : pc'[k] \in {"bumpSearch", "bumpHit"} => pc'[k] = pc[k]
      BY <1>1
      DEF HandOff, FetchToken, LookUpContact, CreateContact, ReadRow, ClaimWelcome, PostWelcome,
          ReleaseWelcome, Post, Go, GoWith, MailInv, TasksTyped
    <2> QED BY <2>1, <2>2, QuietCount DEF Counted
  <1>2. ASSUME NEW t \in Tasks, UsageTask(t), ~BumpUsage(t)
        PROVE  Counted'
    <2>1. UNCHANGED <<begun, deleted, usage>>
      BY <1>2, Zenon
      DEF UsageTask, ReadSignals, ReadAccount, CountLane, ClaimNote, PostNote, ReleaseNote,
          Post, Go, GoWith, store
    <2>2. \A k \in Tasks : pc'[k] \in {"bumpSearch", "bumpHit"} => pc'[k] = pc[k]
      BY <1>2
      DEF UsageTask, ReadSignals, ReadAccount, CountLane, ClaimNote, PostNote, ReleaseNote,
          Post, Go, GoWith, MailInv, TasksTyped
    <2> QED BY <2>1, <2>2, QuietCount DEF Counted
  <1>3. ASSUME NEW t \in Tasks, BumpUsage(t)
        PROVE  Counted'
    BY <1>3, BumpCount DEF BumpUsage, Go
  <1>4. ASSUME NEW t \in Tasks, DeleteUsage(t) \/ DeleteRow(t) \/ Abort(t)
        PROVE  Counted'
    <2>1. /\ begun' = begun /\ deleted' \in BOOLEAN
          /\ \A k \in Tasks : pc'[k] \in {"bumpSearch", "bumpHit"} => pc'[k] = pc[k]
          /\ \A u \in Users, d \in Days : usage'[u][d] \in {usage[u][d], NoUsage}
      <3>1. begun' = begun /\ deleted' \in BOOLEAN
        BY <1>4 DEF DeleteUsage, DeleteRow, Abort, Go, Counted
      <3>2. \A k \in Tasks : pc'[k] \in {"bumpSearch", "bumpHit"} => pc'[k] = pc[k]
        BY <1>4 DEF DeleteUsage, DeleteRow, Abort, Go, MailInv, TasksTyped
      <3>3. \A u \in Users, d \in Days : usage'[u][d] \in {usage[u][d], NoUsage}
        BY <1>0, <1>4 DEF DeleteUsage, DeleteRow, Abort, store
      <3> QED BY <3>1, <3>2, <3>3
    <2> QED BY <2>1, QuietCount
  <1>5. ASSUME NEW t \in Tasks, NEW u \in Users,
               SignIn(t, u) \/ ToolCall(t, u) \/ DeleteAccount(t, u)
        PROVE  Counted'
    BY <1>5, BeginCount DEF SignIn, ToolCall, DeleteAccount, store
  <1>6. CASE NextDay \/ UNCHANGED vars \/ \E u \in Users : Unsubscribe(u) \/ UnsubscribeAtProvider(u)
    <2>1. UNCHANGED <<begun, usage, pc>> /\ deleted' \in BOOLEAN
      BY <1>6 DEF NextDay, vars, Unsubscribe, UnsubscribeAtProvider, Counted
    <2> QED BY <2>1, QuietCount
  <1> QED BY <1>1, <1>2, <1>3, <1>4, <1>5, <1>6 DEF Next

LEMMA InitCounted == Init => Counted
  <1> SUFFICES ASSUME Init PROVE Counted
    OBVIOUS
  <1>1. At("bumpSearch") = {} /\ At("bumpHit") = {}
    BY DEF Init, At
  <1>2. \A u \in Users, d \in Days : usage[u][d].searches \in {0, 1} /\ usage[u][d].hits = 0
    BY DEF Init, NoUsage
  <1>3. begun = 0 /\ begun \in 0 .. MaxJobs
    BY MailAssumption DEF Init
  <1>4. Cardinality(At("bumpSearch")) = 0 /\ Cardinality(At("bumpHit")) = 0
    BY <1>1, FS_EmptySet
  <1>5. ASSUME NEW u \in Users, NEW d \in Days
        PROVE  /\ usage[u][d].searches + Cardinality(At("bumpSearch")) <= begun + 1
               /\ usage[u][d].hits + Cardinality(At("bumpHit")) <= begun
    BY <1>2, <1>3, <1>4
  <1>6. deleted \in BOOLEAN
    BY Zenon DEF Init
  <1> QED BY <1>3, <1>5, <1>6 DEF Counted

\* Every variable keeps its type: the counters of a usage row stay within the
\* passes there were, and every message and task is about a row that was.
THEOREM TypeCorrect == Spec => []TypeOK
  <1>1. MailInv /\ Counted /\ Sparing => TypeOK
    <2> SUFFICES ASSUME MailInv, Counted, Sparing PROVE TypeOK
      OBVIOUS
    <2>1. ASSUME NEW u \in Users, NEW d \in Days
          PROVE  usage[u][d] \in Usage
      <3>1. usage[u][d] \in [searches : Nat, hits : Nat]
        BY DEF MailInv, StoreTyped
      <3>2. usage[u][d].searches <= MaxJobs + 1 /\ usage[u][d].hits <= MaxJobs
        BY <3>1, AtFinite, MailAssumption DEF Counted
      <3> QED BY <3>1, <3>2 DEF Usage
    <2>2. usage \in [Users -> [Days -> Usage]]
      BY <2>1 DEF MailInv, StoreTyped
    <2>3. ASSUME NEW u \in Users, NEW i \in DOMAIN sent[u]
          PROVE  sent[u][i] \in Message
      BY DEF MailInv, StoreTyped
    <2> QED BY <2>2, <2>3 DEF MailInv, StoreTyped, TasksTyped, Counted, Sparing, TypeOK
  <1> QED BY <1>1, InitCounted, CountedStep, InitSparing, SparingStep, MailInvariant, PTL DEF Spec

-----------------------------------------------------------------------------
(* What each step does to the stamps and the messages.                        *)

\* A task that holds a claim.
Sending == {"postWelcome", "releaseWelcome", "postNote", "releaseNote"}
NoteSending == {"postNote", "releaseNote"}

\* A step that neither stamps nor sends, for the tasks that hold claims.
Quiet ==
  /\ \A u \in Users : rows'[u] # None =>
       /\ rows[u] # None
       /\ rows'[u].welcome = rows[u].welcome /\ rows'[u].note = rows[u].note
  /\ ~deleted' => ~deleted /\ \A u \in Users : rows[u] # None => rows'[u] # None
  /\ \A k \in Tasks : pc'[k] \in Sending => pc'[k] = pc[k] /\ job'[k] = job[k]
  /\ UNCHANGED <<day, births, sent>>

\* A step of task t that sets one stamp.
Stamps(t, step, col, value) ==
  /\ Moves(t, step) /\ UNCHANGED <<sent, deleted>>
  /\ UpdateRow(job[t].user, col, value)

\* A step of task t with an answer of the provider.
Answers(t, step, kind) ==
  /\ Moves(t, step) /\ UNCHANGED <<rows, deleted>>
  /\ sent' # sent => step = "idle" /\ Takes(t, kind)

Send(t) ==
  \/ pc[t] = "claimWelcome" /\ Stamps(t, "postWelcome", "welcome", day) /\ MarksWelcome(job[t].user)
  \/ pc[t] = "releaseWelcome" /\ Stamps(t, "idle", "welcome", None)
  \/ pc[t] = "postWelcome" /\ \E step \in {"idle", "releaseWelcome"} : Answers(t, step, "welcome")
  \/ pc[t] = "claimNote" /\ Stamps(t, "postNote", "note", day) /\ ClaimsNote(job[t].user, job[t].lane)
  \/ pc[t] = "releaseNote" /\ Stamps(t, "idle", "note", None)
  \/ pc[t] = "postNote" /\ \E step \in {"idle", "releaseNote"} : Answers(t, step, "note")

LEMMA QuietTask ==
  ASSUME MailInv, NEW t \in Tasks, NEW step \in Steps \ {"postWelcome", "postNote", "releaseWelcome", "releaseNote"},
         pc' = [pc EXCEPT ![t] = step],
         \A k \in Tasks \ {t} : job'[k] = job[k],
         UNCHANGED <<day, births, sent, deleted, rows>>
  PROVE  Quiet
  <1>1. \A k \in Tasks : pc'[k] \in Sending => pc'[k] = pc[k] /\ job'[k] = job[k]
    BY DEF Sending, MailInv, TasksTyped
  <1> QED BY <1>1 DEF Quiet

LEMMA Posted ==
  ASSUME MailInv, NEW t \in Tasks, NEW kind \in {"welcome", "note"}, NEW from, NEW refused,
         \/ from = "postWelcome" /\ refused = "releaseWelcome"
         \/ from = "postNote" /\ refused = "releaseNote",
         pc[t] = from, Post(t, kind, "idle", refused), UNCHANGED <<rows, deleted>>
  PROVE  \E step \in {"idle", refused} : Answers(t, step, kind)
  <1>1. \/ Go(t, "idle") /\ (sent' # sent => Takes(t, kind))
        \/ Go(t, refused) /\ sent' = sent
    BY Zenon DEF Post
  <1>2. Go(t, "idle") => Moves(t, "idle")
    BY GoMoves DEF Steps, HandOffSteps, Unposted
  <1>3. Go(t, refused) => Moves(t, refused)
    BY GoMoves DEF Steps, HandOffSteps, UsageSteps, Unposted
  <1> QED BY <1>1, <1>2, <1>3 DEF Answers

LEMMA TaskSends ==
  ASSUME MailInv, NEW t \in Tasks, HandOff(t) \/ UsageTask(t) \/ DeleteUsage(t) \/ DeleteRow(t) \/ Abort(t)
  PROVE  Quiet \/ Send(t)
  <1> USE DEF Steps, HandOffSteps, UsageSteps, DeleteSteps, Unposted
  <1>1. ASSUME NEW step \in Steps \ {"postWelcome", "postNote", "releaseWelcome", "releaseNote"},
               \/ Go(t, step)
               \/ \E field, value : GoWith(t, step, field, value),
               UNCHANGED <<sent, deleted, rows>>
        PROVE  Quiet
    BY <1>1, QuietTask DEF Go, GoWith, MailInv, TasksTyped
  <1>2. CASE ClaimWelcome(t) \/ ReleaseWelcome(t) \/ PostWelcome(t)
    <2>1. CASE rows' = rows /\ Go(t, "idle") /\ UNCHANGED <<sent, deleted>>
      BY <1>1, <2>1
    <2>2. CASE /\ pc[t] = "claimWelcome" /\ MarksWelcome(job[t].user) /\ UNCHANGED <<sent, deleted>>
               /\ UpdateRow(job[t].user, "welcome", day) /\ Go(t, "postWelcome")
      <3>1. Moves(t, "postWelcome")
        BY <2>2, GoMoves
      <3> QED BY <2>2, <3>1 DEF Stamps, Send
    <2>3. CASE ReleaseWelcome(t)
      <3>1. Moves(t, "idle")
        BY <2>3, GoMoves DEF ReleaseWelcome
      <3> QED BY <2>3, <3>1 DEF Stamps, Send, ReleaseWelcome, mail
    <2>4. CASE PostWelcome(t)
      BY <2>4, Posted DEF PostWelcome, Send, store
    <2> QED BY <1>2, <2>1, <2>2, <2>3, <2>4 DEF ClaimWelcome, mail
  <1>3. CASE ClaimNote(t) \/ ReleaseNote(t) \/ PostNote(t)
    <2>1. CASE rows' = rows /\ Go(t, "idle") /\ UNCHANGED <<sent, deleted>>
      BY <1>1, <2>1
    <2>2. CASE /\ pc[t] = "claimNote" /\ ClaimsNote(job[t].user, job[t].lane) /\ UNCHANGED <<sent, deleted>>
               /\ UpdateRow(job[t].user, "note", day) /\ Go(t, "postNote")
      <3>1. Moves(t, "postNote")
        BY <2>2, GoMoves
      <3> QED BY <2>2, <3>1 DEF Stamps, Send
    <2>3. CASE ReleaseNote(t)
      <3>1. Moves(t, "idle")
        BY <2>3, GoMoves DEF ReleaseNote
      <3> QED BY <2>3, <3>1 DEF Stamps, Send, ReleaseNote, mail
    <2>4. CASE PostNote(t)
      BY <2>4, Posted DEF PostNote, Send, store
    <2> QED BY <1>3, <2>1, <2>2, <2>3, <2>4 DEF ClaimNote, mail
  <1>4. CASE FetchToken(t)
    BY <1>1, <1>4 DEF FetchToken, store, mail
  <1>5. CASE LookUpContact(t)
    BY <1>1, <1>5 DEF LookUpContact, store, mail
  <1>6. CASE CreateContact(t) \/ ReadRow(t)
    BY <1>1, <1>6 DEF CreateContact, ReadRow, store, mail
  <1>7. CASE BumpUsage(t) \/ ReadSignals(t)
    BY <1>1, <1>7 DEF BumpUsage, ReadSignals, store, mail
  <1>8. CASE ReadAccount(t)
    BY <1>1, <1>8 DEF ReadAccount, store, mail
  <1>9. CASE CountLane(t)
    BY <1>1, <1>9 DEF CountLane, store, mail
  <1>10. CASE DeleteUsage(t) \/ Abort(t)
    BY <1>1, <1>10 DEF DeleteUsage, Abort, store, mail
  <1>11. CASE DeleteRow(t)
    <2>1. \A u \in Users : rows'[u] \in {rows[u], None}
      BY <1>11 DEF DeleteRow, MailInv, StoreTyped
    <2>2. \A k \in Tasks : pc'[k] \in Sending => pc'[k] = pc[k] /\ job'[k] = job[k]
      BY <1>11 DEF DeleteRow, Go, Sending, MailInv, TasksTyped
    <2>3. deleted' = TRUE /\ UNCHANGED <<day, births, sent>>
      BY <1>11 DEF DeleteRow, Go, mail
    <2> QED BY <2>1, <2>2, <2>3 DEF Quiet
  <1> QED BY <1>2, <1>3, <1>4, <1>5, <1>6, <1>7, <1>8, <1>9, <1>10, <1>11 DEF HandOff, UsageTask

\* Every step sends, or is quiet, or lets an account in, or a day pass.
LEMMA StepSends ==
  ASSUME MailInv, [Next]_vars
  PROVE  \/ Quiet
         \/ \E t \in Tasks : Send(t)
         \/ \E t \in Tasks, u \in Users : SignIn(t, u)
         \/ NextDay
  <1>1. ASSUME NEW t \in Tasks, NEW u \in Users, ToolCall(t, u) \/ DeleteAccount(t, u)
        PROVE  Quiet
    <2>1. PICK step \in {"bumpSearch", "bumpHit", "deleteUsage"} : Begin(t, u, step)
      BY <1>1 DEF ToolCall, DeleteAccount
    <2> QED BY <1>1, <2>1, QuietTask
            DEF ToolCall, DeleteAccount, Begin, store, mail, Steps, UsageSteps, DeleteSteps,
                MailInv, TasksTyped
  <1>2. ASSUME NEW u \in Users, Unsubscribe(u)
        PROVE  Quiet
    <2>1. rows[u] # None /\ rows[u] \in Row
      BY <1>2 DEF Unsubscribe, HasRow, MailInv, StoreTyped
    <2>2. rows' = [rows EXCEPT ![u] = [rows[u] EXCEPT !.optOut = TRUE]]
      BY <1>2 DEF Unsubscribe
    <2>3. [rows[u] EXCEPT !.optOut = TRUE] \in Row
          /\ [rows[u] EXCEPT !.optOut = TRUE].welcome = rows[u].welcome
          /\ [rows[u] EXCEPT !.optOut = TRUE].note = rows[u].note
      BY <2>1 DEF Row
    <2>4. \A v \in Users : /\ rows'[v] # None <=> rows[v] # None
                           /\ rows[v] # None => /\ rows'[v].welcome = rows[v].welcome
                                                /\ rows'[v].note = rows[v].note
      <3> DEFINE n == [rows[u] EXCEPT !.optOut = TRUE]
      <3>1. n # None
        BY <2>3, NoRowAssumption
      <3> HIDE DEF n
      <3> QED BY <2>1, <2>2, <2>3, <3>1 DEF MailInv, StoreTyped, n
    <2> QED BY <1>2, <2>4 DEF Unsubscribe, Quiet
  <1>3. CASE (\E u \in Users : UnsubscribeAtProvider(u)) \/ UNCHANGED vars
    BY <1>3 DEF UnsubscribeAtProvider, vars, Quiet
  <1> QED BY <1>1, <1>2, <1>3, TaskSends DEF Next

\* What one step of a task leaves of the tasks of an account.
LEMMA OthersStay ==
  ASSUME MailInv, NEW t \in Tasks, NEW step, Moves(t, step)
  PROVE  /\ job[t].user \in Users /\ Mine(t, job[t].user) /\ pc'[t] = step
         /\ \A u \in Users, k \in Tasks : Mine(k, u)' =>
              /\ Mine(k, u)
              /\ k # t => pc'[k] = pc[k]
              /\ k = t => u = job[t].user
         /\ day' = day /\ births' = births
  <1>1. /\ pc'[t] = step /\ \A k \in Tasks \ {t} : pc'[k] = pc[k]
        /\ \A k \in Tasks : \A u : Mine(k, u)' => Mine(k, u)
        /\ Mine(t, job[t].user) /\ job[t].user \in Users
    BY MovesMine
  <1>2. \A u : Mine(t, u) => u = job[t].user
    BY DEF Mine
  <1> QED BY <1>1, <1>2 DEF Moves

\* What setting a stamp does to the rows.
LEMMA Stamped ==
  ASSUME MailInv, NEW u0 \in Users, NEW col \in {"welcome", "note"},
         NEW value \in Days \cup {None}, UpdateRow(u0, col, value)
  PROVE  /\ \A u \in Users : rows'[u] # None <=> rows[u] # None
         /\ \A u \in Users : u # u0 => rows'[u] = rows[u]
         /\ rows[u0] # None =>
              /\ rows'[u0].welcome = IF col = "welcome" THEN value ELSE rows[u0].welcome
              /\ rows'[u0].note = IF col = "note" THEN value ELSE rows[u0].note
  <1>1. rows \in [Users -> Row \cup {None}]
    BY DEF MailInv, StoreTyped
  <1>2. CASE ~HasRow(u0)
    BY <1>2 DEF UpdateRow, HasRow
  <1>3. CASE HasRow(u0)
    <2> DEFINE n == [rows[u0] EXCEPT ![col] = value]
    <2>1. rows[u0] \in Row /\ rows' = [rows EXCEPT ![u0] = n]
      BY <1>1, <1>3 DEF UpdateRow, HasRow
    <2>2. CASE col = "welcome"
      <3>1. n \in Row /\ n.welcome = value /\ n.note = rows[u0].note
        BY <2>1, <2>2 DEF Row
      <3>2. n # None
        BY <3>1, NoRowAssumption
      <3> HIDE DEF n
      <3> QED BY <1>1, <1>3, <2>1, <2>2, <3>1, <3>2 DEF HasRow
    <2>3. CASE col = "note"
      <3>1. n \in Row /\ n.note = value /\ n.welcome = rows[u0].welcome
        BY <2>1, <2>3 DEF Row
      <3>2. n # None
        BY <3>1, NoRowAssumption
      <3> HIDE DEF n
      <3> QED BY <1>1, <1>3, <2>1, <2>3, <3>1, <3>2 DEF HasRow
    <2> QED BY <2>2, <2>3
  <1> QED BY <1>2, <1>3

\* What an answer does to the messages.
LEMMA Answered ==
  ASSUME MailInv, NEW t \in Tasks, NEW step, NEW kind \in {"welcome", "note"},
         Answers(t, step, kind)
  PROVE  LET u0 == job[t].user
         IN /\ \A u \in Users : u # u0 => sent'[u] = sent[u]
            /\ \/ sent'[u0] = sent[u0]
               \/ /\ step = "idle"
                  /\ sent'[u0] = Append(sent[u0], [kind |-> kind, day |-> day, token |-> job[t].token])
            /\ sent[u0] \in Seq(Message)
  <1>1. sent[job[t].user] \in Seq(Message)
    BY OthersStay DEF Answers, MailInv, StoreTyped
  <1>2. CASE sent' = sent
    BY <1>1, <1>2
  <1>3. CASE step = "idle" /\ Takes(t, kind)
    <2>1. pc[t] # "idle"
      BY DEF Answers, Moves
    <2> QED BY <1>1, <1>3, <2>1, TakesOne
  <1> QED BY <1>2, <1>3 DEF Answers

-----------------------------------------------------------------------------
(* The distance between messages.                                             *)

\* Stamps and messages are not of days to come.
Dated ==
  \A u \in Users :
    /\ \A i \in DOMAIN sent[u] : sent[u][i].day <= day
    /\ rows[u] # None /\ rows[u].note # None => rows[u].note <= day

\* The distance a note keeps from a message before it.
Distance(m) == IF m.kind = "welcome" THEN WelcomeGap ELSE NoteGap

\* What the row of an account shows of the messages it received.
Recorded(u) ==
  rows[u] # None =>
    \A i \in DOMAIN sent[u] :
      /\ sent[u][i].kind = "welcome" => rows[u].welcome = sent[u][i].day
      /\ sent[u][i].kind = "note" =>
           \/ sent[u][i].day + NoteGap <= day
           \/ rows[u].note # None /\ sent[u][i].day <= rows[u].note

\* A claim is of today, it alone, and far enough from every message.
Claimed(u) ==
  \A t \in Tasks : Mine(t, u) =>
    /\ pc[t] = "postWelcome" /\ rows[u] # None => rows[u].welcome = day
    /\ pc[t] \in NoteSending =>
         /\ rows[u] # None => rows[u].note = day
         /\ \A i \in DOMAIN sent[u] : sent[u][i].day + Distance(sent[u][i]) <= day
         /\ \A k \in Tasks : Mine(k, u) /\ pc[k] \in NoteSending => k = t

\* The messages of an account are as Paced wants them.
Apart(s) ==
  \A i, j \in DOMAIN s : i < j =>
    /\ s[j].kind = "note"
    /\ s[i].day + Distance(s[i]) <= s[j].day

Steady(u) == NeverDeleted(u) => Apart(sent[u]) /\ Recorded(u) /\ Claimed(u)

LEMMA DatedStep ==
  ASSUME MailInv, Dated, [Next]_vars
  PROVE  Dated'
  <1>0. day \in Nat /\ sent \in [Users -> Seq(Message)]
    BY MailAssumption DEF MailInv, StoreTyped, Days
  <1>1. CASE Quiet
    BY <1>1 DEF Quiet, Dated
  <1>2. ASSUME NEW t \in Tasks, Send(t)
        PROVE  Dated'
    <2> DEFINE u0 == job[t].user
    <2>1. ASSUME NEW step, NEW col \in {"welcome", "note"}, NEW value \in {day, None},
                 Stamps(t, step, col, value)
          PROVE  Dated'
      <3>1. u0 \in Users /\ day' = day /\ sent' = sent
        BY <2>1, OthersStay DEF Stamps
      <3>2. value \in Days \cup {None}
        BY DEF MailInv, StoreTyped
      <3>3. \A u \in Users : rows'[u] # None /\ rows'[u].note # None => rows'[u].note <= day
        <4>1. /\ \A u \in Users : rows'[u] # None <=> rows[u] # None
              /\ \A u \in Users : u # u0 => rows'[u] = rows[u]
              /\ rows[u0] # None =>
                   rows'[u0].note = IF col = "note" THEN value ELSE rows[u0].note
          BY <2>1, <3>1, <3>2, Stamped DEF Stamps
        <4> HIDE DEF u0
        <4> QED BY <1>0, <3>1, <4>1 DEF Dated
      <3> QED BY <3>1, <3>3 DEF Dated
    <2>2. ASSUME NEW step, NEW kind \in {"welcome", "note"}, Answers(t, step, kind)
          PROVE  Dated'
      <3>1. u0 \in Users /\ day' = day /\ rows' = rows
        BY <2>2, OthersStay DEF Answers
      <3>2. /\ \A u \in Users : u # u0 => sent'[u] = sent[u]
            /\ \/ sent'[u0] = sent[u0]
               \/ sent'[u0] = Append(sent[u0], [kind |-> kind, day |-> day, token |-> job[t].token])
            /\ sent[u0] \in Seq(Message)
        BY <2>2, Answered
      <3>3. \A u \in Users : \A i \in DOMAIN sent'[u] : sent'[u][i].day <= day
        <4> DEFINE letter == [kind |-> kind, day |-> day, token |-> job[t].token]
        <4>1. letter.day = day
          OBVIOUS
        <4> HIDE DEF u0, letter
        <4>2. CASE sent'[u0] = sent[u0]
          BY <3>2, <4>2 DEF Dated
        <4>3. CASE sent'[u0] = Append(sent[u0], letter)
          <5>1. \A i \in DOMAIN sent'[u0] : \/ i \in DOMAIN sent[u0] /\ sent'[u0][i] = sent[u0][i]
                                            \/ sent'[u0][i] = letter
            BY <3>2, <4>3
          <5> QED BY <1>0, <3>1, <3>2, <4>1, <5>1 DEF Dated
        <4> QED BY <3>2, <4>2, <4>3 DEF letter
      <3> QED BY <3>1, <3>3 DEF Dated
    <2> QED BY <1>2, <2>1, <2>2 DEF Send
  <1>3. ASSUME NEW t \in Tasks, NEW u \in Users, SignIn(t, u)
        PROVE  Dated'
    BY <1>3 DEF SignIn, Upsert, mail, Dated, MailInv, StoreTyped
  <1>4. CASE NextDay
    <2>1. day' = day + 1 /\ UNCHANGED <<rows, sent>>
      BY <1>4 DEF NextDay
    <2>2. \A u \in Users : \A i \in DOMAIN sent[u] : sent[u][i].day \in Nat
      <3>1. \A u \in Users : \A i \in DOMAIN sent[u] : sent[u][i] \in Message
        BY <1>0
      <3> QED BY <3>1, MailAssumption DEF Message, Days
    <2>3. \A u \in Users : rows[u] # None /\ rows[u].note # None => rows[u].note \in Nat
      BY DEF MailInv, StoreTyped, Row, Days
    <2> QED BY <1>0, <2>1, <2>2, <2>3 DEF Dated
  <1> QED BY <1>1, <1>2, <1>3, <1>4, StepSends

\* Where neither the tasks that hold a claim nor the stamps or messages of an
\* account change.
LEMMA SteadyKept ==
  ASSUME NEW u \in Users, Steady(u), sent'[u] = sent[u], day' = day, births'[u] = births[u],
         rows'[u] # None => /\ rows[u] # None
                            /\ rows'[u].welcome = rows[u].welcome /\ rows'[u].note = rows[u].note,
         \A k \in Tasks : Mine(k, u)' /\ pc'[k] \in Sending => Mine(k, u) /\ pc'[k] = pc[k]
  PROVE  Steady(u)'
  <1> SUFFICES ASSUME NeverDeleted(u)' PROVE Apart(sent'[u]) /\ Recorded(u)' /\ Claimed(u)'
    BY DEF Steady
  <1>1. Apart(sent[u]) /\ Recorded(u) /\ Claimed(u)
    BY DEF Steady, NeverDeleted
  <1>2. Apart(sent'[u])
    BY <1>1
  <1>3. Recorded(u)'
    BY <1>1 DEF Recorded
  <1>4. Claimed(u)'
    BY <1>1 DEF Claimed, NoteSending, Sending
  <1> QED BY <1>2, <1>3, <1>4

\* A hand-off that claims the welcome, or holds it, finds an account that has
\* received nothing and no other task with a claim.
LEMMA WelcomeAlone ==
  ASSUME MailInv, NEW t \in Tasks, pc[t] \in HandOffSteps, NEW u, u = job[t].user,
         births[u] <= 1
  PROVE  /\ u \in Users /\ sent[u] = << >>
         /\ \A k \in Tasks \ {t} : Mine(k, u) => pc[k] \notin Sending
  <1>1. u \in Users /\ Mine(t, u)
    BY DEF MailInv, TasksTyped, Job, Mine, HandOffSteps
  <1>2. births[u] = 1
    <2>1. births[u] \in 0 .. MaxJobs /\ MaxJobs \in Nat /\ Unborn(u)
      BY <1>1, MailAssumption DEF MailInv, StoreTyped
    <2>2. births[u] # 0
      BY <1>1, <2>1 DEF Unborn
    <2> QED BY <2>1, <2>2
  <1>3. sent[u] = << >> /\ \A k \in Tasks : Mine(k, u) => pc[k] \notin NoteSteps
    BY <1>1, <1>2 DEF MailInv, Young
  <1>4. \A k \in Tasks \ {t} : Mine(k, u) => pc[k] \notin HandOffSteps
    BY <1>1, <1>2 DEF MailInv, Single
  <1> QED BY <1>1, <1>3, <1>4 DEF Sending, NoteSteps, HandOffSteps

LEMMA SteadyWelcome ==
  ASSUME MailInv, \A u \in Users : Steady(u), NEW t \in Tasks, Send(t),
         pc[t] \in {"claimWelcome", "postWelcome", "releaseWelcome"},
         NEW u, u = job[t].user, u \in Users
  PROVE  Steady(u)'
  <1> SUFFICES ASSUME births'[u] <= 1
               PROVE  Apart(sent'[u]) /\ Recorded(u)' /\ Claimed(u)'
    BY DEF Steady, NeverDeleted
  <1>1. births[u] <= 1
    BY OthersStay DEF Send, Stamps, Answers
  <1>2. sent[u] = << >> /\ \A k \in Tasks \ {t} : Mine(k, u) => pc[k] \notin Sending
    BY <1>1, WelcomeAlone DEF HandOffSteps
  <1>3. Claimed(u)
    BY <1>1 DEF Steady, NeverDeleted
  <1>4. ASSUME NEW step, Stamps(t, step, "welcome", day), step = "postWelcome"
        PROVE  Apart(sent'[u]) /\ Recorded(u)' /\ Claimed(u)'
    <2>1. sent'[u] = << >> /\ pc'[t] = step /\ day' = day
          /\ \A k \in Tasks \ {t} : Mine(k, u)' => pc'[k] \notin Sending
      BY <1>2, <1>4, OthersStay DEF Stamps
    <2>2. rows'[u] # None => rows'[u].welcome = day
      BY <1>4, Stamped DEF Stamps, MailInv, StoreTyped
    <2> QED BY <1>4, <2>1, <2>2 DEF Apart, Recorded, Claimed, Sending, NoteSending
  <1>5. ASSUME NEW value, Stamps(t, "idle", "welcome", value)
        PROVE  Apart(sent'[u]) /\ Recorded(u)' /\ Claimed(u)'
    <2>1. sent'[u] = << >> /\ pc'[t] = "idle"
          /\ \A k \in Tasks \ {t} : Mine(k, u)' => pc'[k] \notin Sending
      BY <1>2, <1>5, OthersStay DEF Stamps
    <2> QED BY <2>1 DEF Apart, Recorded, Claimed, Sending, NoteSending
  <1>6. ASSUME NEW step \in {"idle", "releaseWelcome"}, Answers(t, step, "welcome"), pc[t] = "postWelcome"
        PROVE  Apart(sent'[u]) /\ Recorded(u)' /\ Claimed(u)'
    <2>1. pc'[t] = step /\ rows' = rows /\ day' = day
          /\ \A k \in Tasks \ {t} : Mine(k, u)' => pc'[k] \notin Sending
      BY <1>2, <1>6, OthersStay DEF Answers
    <2>2. rows[u] # None => rows[u].welcome = day
      BY <1>3, <1>6 DEF Claimed, Mine
    <2>3. \/ sent'[u] = << >>
          \/ sent'[u] = <<[kind |-> "welcome", day |-> day, token |-> job[t].token]>>
      <3> DEFINE letter == [kind |-> "welcome", day |-> day, token |-> job[t].token]
      <3>1. sent'[u] = sent[u] \/ sent'[u] = Append(sent[u], letter)
        BY <1>6, Answered
      <3> HIDE DEF letter
      <3>2. Append(<< >>, letter) = <<letter>>
        OBVIOUS
      <3> QED BY <1>2, <3>1, <3>2 DEF letter
    <2>4. Apart(sent'[u])
      BY <2>3 DEF Apart
    <2>5. Recorded(u)'
      BY <2>1, <2>2, <2>3 DEF Recorded
    <2>6. Claimed(u)'
      BY <2>1 DEF Claimed, Sending, NoteSending
    <2> QED BY <2>4, <2>5, <2>6
  <1> QED BY <1>4, <1>5, <1>6 DEF Send

\* What a claim of a note has seen.
LEMMA ClaimSeesGaps ==
  ASSUME MailInv, Dated, NEW u \in Users, NEW lane, Recorded(u), ClaimsNote(u, lane)
  PROVE  /\ rows[u] # None
         /\ \A i \in DOMAIN sent[u] : sent[u][i].day + Distance(sent[u][i]) <= day
         /\ rows[u].note # day
  <1>1. rows[u] # None /\ GapOver(rows[u].note, NoteGap) /\ GapOver(rows[u].welcome, WelcomeGap)
    BY DEF ClaimsNote, HasRow
  <1>2. rows[u] \in Row /\ day \in Nat /\ None # day
    BY <1>1, MailAssumption DEF MailInv, StoreTyped, Days
  <1>3. rows[u].note # day
    BY <1>1, <1>2, MailAssumption DEF GapOver
  <1>4. ASSUME NEW i \in DOMAIN sent[u]
        PROVE  sent[u][i].day + Distance(sent[u][i]) <= day
    <2>1. sent[u][i] \in Message
      BY DEF MailInv, StoreTyped
    <2>2. sent[u][i].day \in Nat /\ sent[u][i].day <= day /\ sent[u][i].kind \in {"welcome", "note"}
      BY <2>1, MailAssumption DEF Message, Days, Dated
    <2>3. CASE sent[u][i].kind = "welcome"
      <3>1. rows[u].welcome = sent[u][i].day
        BY <1>1, <2>3 DEF Recorded
      <3>2. rows[u].welcome # None
        BY <2>2, <3>1, MailAssumption
      <3> QED BY <1>1, <2>3, <3>1, <3>2 DEF GapOver, Distance
    <2>4. CASE sent[u][i].kind = "note"
      <3>1. \/ sent[u][i].day + NoteGap <= day
            \/ rows[u].note # None /\ sent[u][i].day <= rows[u].note
        BY <1>1, <2>4 DEF Recorded
      <3>2. rows[u].note # None => rows[u].note \in Nat
        BY <1>2, MailAssumption DEF Row, Days
      <3>3. Distance(sent[u][i]) = NoteGap /\ NoteGap \in Nat
        BY <2>4, MailAssumption DEF Distance
      <3> QED BY <1>1, <1>2, <2>2, <3>1, <3>2, <3>3 DEF GapOver
    <2> QED BY <2>2, <2>3, <2>4
  <1> QED BY <1>1, <1>3, <1>4

LEMMA SteadyNote ==
  ASSUME MailInv, Dated, \A u \in Users : Steady(u), NEW t \in Tasks, Send(t),
         pc[t] \in {"claimNote", "postNote", "releaseNote"},
         NEW u, u = job[t].user, u \in Users
  PROVE  Steady(u)'
  <1> SUFFICES ASSUME births'[u] <= 1
               PROVE  Apart(sent'[u]) /\ Recorded(u)' /\ Claimed(u)'
    BY DEF Steady, NeverDeleted
  <1>1. births[u] <= 1
    BY OthersStay DEF Send, Stamps, Answers
  <1>2. Apart(sent[u]) /\ Recorded(u) /\ Claimed(u) /\ Mine(t, u)
    BY <1>1 DEF Steady, NeverDeleted, Mine
  <1>3. day \in Nat /\ sent[u] \in Seq(Message)
        /\ \A i \in DOMAIN sent[u] : sent[u][i].day \in Nat /\ sent[u][i].day <= day
    <2>1. sent[u] \in Seq(Message) /\ \A i \in DOMAIN sent[u] : sent[u][i] \in Message
      BY DEF MailInv, StoreTyped
    <2>2. day \in Nat /\ \A i \in DOMAIN sent[u] : sent[u][i].day \in Nat
      BY <2>1, MailAssumption DEF MailInv, StoreTyped, Message, Days
    <2> QED BY <2>1, <2>2 DEF Dated
  <1>4. ASSUME Stamps(t, "postNote", "note", day), ClaimsNote(u, job[t].lane), pc[t] = "claimNote"
        PROVE  Apart(sent'[u]) /\ Recorded(u)' /\ Claimed(u)'
    <2>1. /\ sent' = sent /\ pc'[t] = "postNote" /\ day' = day
          /\ \A k \in Tasks : Mine(k, u)' => Mine(k, u) /\ (k # t => pc'[k] = pc[k])
      BY <1>4, OthersStay DEF Stamps
    <2>2. /\ rows[u] # None
          /\ \A i \in DOMAIN sent[u] : sent[u][i].day + Distance(sent[u][i]) <= day
          /\ rows[u].note # day
      BY <1>2, <1>4, ClaimSeesGaps
    <2>3. rows'[u] # None /\ rows'[u].note = day /\ rows'[u].welcome = rows[u].welcome
      BY <1>4, <2>2, Stamped DEF Stamps, MailInv, StoreTyped
    <2>4. Recorded(u)'
      BY <1>2, <1>3, <2>1, <2>2, <2>3, MailAssumption DEF Recorded
    <2>5. \A k \in Tasks : Mine(k, u) => pc[k] \notin NoteSending
      BY <1>2, <2>2 DEF Claimed
    <2>6. Claimed(u)'
      BY <1>2, <2>1, <2>2, <2>3, <2>5 DEF Claimed, NoteSending
    <2> QED BY <1>2, <2>1, <2>4, <2>6
  <1>5. ASSUME Stamps(t, "idle", "note", None), pc[t] = "releaseNote"
        PROVE  Apart(sent'[u]) /\ Recorded(u)' /\ Claimed(u)'
    <2>1. /\ sent' = sent /\ pc'[t] = "idle" /\ day' = day
          /\ \A k \in Tasks : Mine(k, u)' => Mine(k, u) /\ (k # t => pc'[k] = pc[k])
      BY <1>5, OthersStay DEF Stamps
    <2>2. /\ \A i \in DOMAIN sent[u] : sent[u][i].day + Distance(sent[u][i]) <= day
          /\ \A k \in Tasks : Mine(k, u) /\ pc[k] \in NoteSending => k = t
      BY <1>2, <1>5 DEF Claimed, NoteSending
    <2>3. rows'[u] # None => rows[u] # None /\ rows'[u].welcome = rows[u].welcome
      BY <1>5, Stamped DEF Stamps
    <2>4. Recorded(u)'
      BY <1>2, <2>1, <2>2, <2>3 DEF Recorded, Distance
    <2>5. Claimed(u)'
      BY <1>2, <2>1, <2>2, <2>3 DEF Claimed, NoteSending
    <2> QED BY <1>2, <2>1, <2>4, <2>5
  <1>6. ASSUME NEW step \in {"idle", "releaseNote"}, Answers(t, step, "note"), pc[t] = "postNote"
        PROVE  Apart(sent'[u]) /\ Recorded(u)' /\ Claimed(u)'
    <2> DEFINE letter == [kind |-> "note", day |-> day, token |-> job[t].token]
    <2>1. /\ rows' = rows /\ pc'[t] = step /\ day' = day
          /\ \A k \in Tasks : Mine(k, u)' => Mine(k, u) /\ (k # t => pc'[k] = pc[k])
      BY <1>6, OthersStay DEF Answers
    <2>2. /\ rows[u] # None => rows[u].note = day
          /\ \A i \in DOMAIN sent[u] : sent[u][i].day + Distance(sent[u][i]) <= day
          /\ \A k \in Tasks : Mine(k, u) /\ pc[k] \in NoteSending => k = t
      BY <1>2, <1>6 DEF Claimed, NoteSending
    <2>3. CASE sent'[u] = sent[u]
      <3>1. Recorded(u)'
        BY <1>2, <2>1, <2>3 DEF Recorded
      <3>2. Claimed(u)'
        BY <1>2, <2>1, <2>2, <2>3 DEF Claimed, NoteSending
      <3> QED BY <1>2, <2>3, <3>1, <3>2
    <2>4. CASE step = "idle" /\ sent'[u] = Append(sent[u], letter)
      <3>1. letter.kind = "note" /\ letter.day = day
        OBVIOUS
      <3> HIDE DEF letter
      <3>2. \A i \in DOMAIN sent'[u] : \/ i \in DOMAIN sent[u] /\ sent'[u][i] = sent[u][i]
                                       \/ sent'[u][i] = letter /\ i = Len(sent[u]) + 1
        BY <1>3, <2>4
      <3>3. Recorded(u)'
        <4>1. SUFFICES ASSUME rows[u] # None, NEW i \in DOMAIN sent'[u]
                       PROVE  /\ sent'[u][i].kind = "welcome" => rows[u].welcome = sent'[u][i].day
                              /\ sent'[u][i].kind = "note" =>
                                   \/ sent'[u][i].day + NoteGap <= day
                                   \/ rows[u].note # None /\ sent'[u][i].day <= rows[u].note
          BY <2>1 DEF Recorded
        <4>2. CASE i \in DOMAIN sent[u] /\ sent'[u][i] = sent[u][i]
          BY <1>2, <4>1, <4>2 DEF Recorded
        <4>3. CASE sent'[u][i] = letter
          <5>1. rows[u].note = day /\ day # None
            BY <1>3, <2>2, <4>1, MailAssumption
          <5> QED BY <1>3, <3>1, <4>3, <5>1
        <4> QED BY <3>2, <4>2, <4>3
      <3>4. Apart(sent'[u])
        <4>1. SUFFICES ASSUME NEW i \in DOMAIN sent'[u], NEW j \in DOMAIN sent'[u], i < j
                       PROVE  /\ sent'[u][j].kind = "note"
                              /\ sent'[u][i].day + Distance(sent'[u][i]) <= sent'[u][j].day
          BY DEF Apart
        <4>2. DOMAIN sent[u] = 1 .. Len(sent[u]) /\ Len(sent[u]) \in Nat
              /\ DOMAIN sent'[u] = 1 .. Len(sent[u]) + 1
          BY <1>3, <2>4
        <4>3. i \in DOMAIN sent[u] /\ sent'[u][i] = sent[u][i]
          BY <1>3, <2>4, <4>1, <4>2
        <4>4. CASE j \in DOMAIN sent[u] /\ sent'[u][j] = sent[u][j]
          BY <1>2, <4>1, <4>3, <4>4 DEF Apart
        <4>5. CASE sent'[u][j] = letter
          BY <2>2, <3>1, <4>3, <4>5
        <4> QED BY <3>2, <4>4, <4>5
      <3>5. \A k \in Tasks : Mine(k, u)' => pc'[k] \notin NoteSending
        BY <2>1, <2>2, <2>4 DEF NoteSending
      <3>6. Claimed(u)'
        BY <1>2, <2>1, <2>4, <3>5 DEF Claimed
      <3> QED BY <3>3, <3>4, <3>6
    <2> QED BY <1>6, <2>3, <2>4, Answered
  <1> QED BY <1>4, <1>5, <1>6 DEF Send

LEMMA SteadyStep ==
  ASSUME MailInv, MailInv', Dated, \A u \in Users : Steady(u), [Next]_vars, NEW u \in Users
  PROVE  Steady(u)'
  <1>1. CASE Quiet
    <2>1. \A k \in Tasks : Mine(k, u)' /\ pc'[k] \in Sending => Mine(k, u) /\ pc'[k] = pc[k]
      BY <1>1 DEF Quiet, Mine, Sending
    <2> QED BY <1>1, <2>1, SteadyKept DEF Quiet
  <1>2. ASSUME NEW t \in Tasks, Send(t)
        PROVE  Steady(u)'
    <2>1. CASE u = job[t].user
      BY <1>2, <2>1, SteadyWelcome, SteadyNote DEF Send
    <2>2. CASE u # job[t].user
      <3> DEFINE u0 == job[t].user
      <3>1. ASSUME NEW step, NEW col \in {"welcome", "note"}, NEW value \in {day, None},
                   Stamps(t, step, col, value)
            PROVE  Steady(u)'
        <4>1. /\ day' = day /\ births' = births /\ sent' = sent
              /\ \A k \in Tasks : Mine(k, u)' => Mine(k, u) /\ pc'[k] = pc[k]
          BY <2>2, <3>1, OthersStay DEF Stamps
        <4>2. rows'[u] = rows[u]
          BY <2>2, <3>1, OthersStay, Stamped DEF Stamps, MailInv, StoreTyped
        <4> QED BY <4>1, <4>2, SteadyKept
      <3>2. ASSUME NEW step, NEW kind \in {"welcome", "note"}, Answers(t, step, kind)
            PROVE  Steady(u)'
        <4>1. /\ day' = day /\ births' = births /\ rows' = rows
              /\ \A k \in Tasks : Mine(k, u)' => Mine(k, u) /\ pc'[k] = pc[k]
          BY <2>2, <3>2, OthersStay DEF Answers
        <4>2. sent'[u] = sent[u]
          BY <2>2, <3>2, Answered
        <4> QED BY <4>1, <4>2, SteadyKept
      <3> QED BY <1>2, <3>1, <3>2 DEF Send
    <2> QED BY <2>1, <2>2
  <1>3. ASSUME NEW t \in Tasks, NEW v \in Users, SignIn(t, v)
        PROVE  Steady(u)'
    <2>1. /\ \A k \in Tasks \ {t} : \A w : Mine(k, w)' <=> Mine(k, w)
          /\ \A k \in Tasks \ {t} : pc'[k] = pc[k]
          /\ pc'[t] = "fetchToken"
      BY <1>3, BeginMine DEF SignIn, Steps, HandOffSteps
    <2>2. /\ births' = [births EXCEPT ![v] = @ + 1] /\ UNCHANGED <<sent, day>>
          /\ \A w \in Users : w # v => rows'[w] = rows[w]
      BY <1>3 DEF SignIn, Upsert, mail, MailInv, StoreTyped
    <2>3. CASE u # v
      <3>1. births'[u] = births[u] /\ rows'[u] = rows[u]
            /\ \A k \in Tasks : Mine(k, u)' /\ pc'[k] \in Sending => Mine(k, u) /\ pc'[k] = pc[k]
        BY <2>1, <2>2, <2>3 DEF Sending, MailInv, StoreTyped
      <3> QED BY <2>2, <3>1, SteadyKept
    <2>4. CASE u = v
      <3> SUFFICES ASSUME births'[u] <= 1 PROVE Apart(sent'[u]) /\ Recorded(u)' /\ Claimed(u)'
        BY DEF Steady, NeverDeleted
      <3>1. births[u] = 0
        BY <2>2, <2>4, MailAssumption DEF MailInv, StoreTyped
      <3>2. sent'[u] = << >> /\ \A k \in Tasks : Mine(k, u)' => k = t
        BY <2>1, <2>2, <3>1 DEF MailInv, Unborn
      <3> QED BY <2>1, <3>2 DEF Apart, Recorded, Claimed, NoteSending
    <2> QED BY <2>3, <2>4
  <1>4. CASE NextDay
    <2>1. /\ \A k \in Tasks : ~Mine(k, u)'
          /\ day' = day + 1 /\ UNCHANGED <<births, rows, sent>>
      BY <1>4 DEF NextDay, Mine
    <2>2. day \in Nat /\ \A i \in DOMAIN sent[u] : sent[u][i].day \in Nat
      <3>1. \A i \in DOMAIN sent[u] : sent[u][i] \in Message
        BY DEF MailInv, StoreTyped
      <3> QED BY <3>1, MailAssumption DEF MailInv, StoreTyped, Message, Days
    <2> SUFFICES ASSUME NeverDeleted(u)' PROVE Apart(sent'[u]) /\ Recorded(u)' /\ Claimed(u)'
      BY DEF Steady
    <2>3. Apart(sent[u]) /\ Recorded(u)
      BY <2>1 DEF Steady, NeverDeleted
    <2>4. Apart(sent'[u])
      BY <2>1, <2>3
    <2>5. Recorded(u)'
      BY <2>1, <2>2, <2>3, MailAssumption DEF Recorded
    <2>6. Claimed(u)'
      BY <2>1 DEF Claimed
    <2> QED BY <2>4, <2>5, <2>6
  <1> QED BY <1>1, <1>2, <1>3, <1>4, StepSends

LEMMA InitSteady ==
  ASSUME Init
  PROVE  Dated /\ \A u \in Users : Steady(u)
  <1>1. ASSUME NEW u \in Users
        PROVE  /\ \A t \in Tasks : ~Mine(t, u)
               /\ \/ rows[u] = None /\ sent[u] = << >>
                  \/ /\ rows[u] = Settled
                     /\ sent[u] = <<[kind |-> "welcome", day |-> 0, token |-> 1]>>
    BY DEF Init, Mine
  <1>2. day \in Nat
    BY MailAssumption DEF Init
  <1>3. ASSUME NEW u \in Users
        PROVE  /\ \A i \in DOMAIN sent[u] : sent[u][i].day <= day
               /\ rows[u] # None /\ rows[u].note # None => rows[u].note <= day
    BY <1>1, <1>2 DEF Settled
  <1>4. ASSUME NEW u \in Users
        PROVE  Apart(sent[u]) /\ Recorded(u) /\ Claimed(u)
    BY <1>1 DEF Settled, Apart, Recorded, Claimed
  <1> QED BY <1>3, <1>4 DEF Dated, Steady

\* An account that was not deleted is welcomed once, and its notes keep their
\* distance from the welcome and from each other, for any number of tasks that
\* run together, die, or get no answer.
THEOREM MailIsPaced == Spec => []Paced
  <1> DEFINE PacedInv == Dated /\ \A u \in Users : Steady(u)
  <1>1. Init => PacedInv
    BY InitSteady
  <1>2. MailInv /\ MailInv' /\ PacedInv /\ [Next]_vars => PacedInv'
    BY DatedStep, SteadyStep
  <1>3. MailInv /\ PacedInv => Paced
    <2> SUFFICES ASSUME MailInv, PacedInv, NEW u \in Users, NeverDeleted(u),
                        NEW i \in DOMAIN sent[u], NEW j \in DOMAIN sent[u], i < j
                 PROVE  /\ sent[u][j].kind # "welcome"
                        /\ sent[u][i].day + Spacing(sent[u][i], sent[u][j]) <= sent[u][j].day
      BY DEF Paced
    <2>1. sent[u][i].kind \in {"welcome", "note"}
      <3>1. sent[u][i] \in Message
        BY DEF MailInv, StoreTyped
      <3> QED BY <3>1 DEF Message
    <2>2. sent[u][j].kind = "note" /\ sent[u][i].day + Distance(sent[u][i]) <= sent[u][j].day
      BY DEF Steady, Apart
    <2> QED BY <2>1, <2>2 DEF Spacing, Distance
  <1> QED BY <1>1, <1>2, <1>3, MailInvariant, PTL DEF Spec

-----------------------------------------------------------------------------
(* The ceiling of the lane.                                                   *)

\* The accounts that count against the ceiling, and the claims that will pass it.
InLane == {u \in Users : HasRow(u) /\ rows[u].note = day}
Claimers == {t \in Tasks : pc[t] = "claimNote" /\ job[t].lane < LaneCap}

LaneFits == Cardinality(InLane) + Cardinality(Claimers) + 1 <= LaneCap + Cardinality(Tasks)

\* On a day without a deletion: an account with a note counts, and has one; a
\* claim counts before there is a note, and is the only one of its account.
Today(u) ==
  ~deleted =>
    /\ NotesOf(u) # {} => u \in InLane
    /\ \A i, j \in NotesOf(u) : i = j
    /\ \A t \in Tasks : Mine(t, u) /\ pc[t] \in NoteSending =>
         /\ u \in InLane /\ NotesOf(u) = {}
         /\ \A k \in Tasks : Mine(k, u) /\ pc[k] \in NoteSending => k = t

LEMMA LaneFinite ==
  /\ IsFiniteSet(InLane) /\ Cardinality(InLane) \in Nat
  /\ IsFiniteSet(InLane') /\ Cardinality(InLane') \in Nat
  /\ IsFiniteSet(Claimers) /\ Cardinality(Claimers) \in Nat
  /\ IsFiniteSet(Claimers') /\ Cardinality(Claimers') \in Nat
  /\ Cardinality(Claimers') <= Cardinality(Tasks) /\ Cardinality(Tasks) \in Nat
  /\ Cardinality(Tasks) > 0
  <1>1. InLane \subseteq Users /\ InLane' \subseteq Users /\ IsFiniteSet(Users)
    BY MailAssumption DEF InLane
  <1>2. Claimers \subseteq Tasks /\ Claimers' \subseteq Tasks /\ IsFiniteSet(Tasks)
    BY MailAssumption DEF Claimers
  <1>3. Cardinality(Tasks) # 0 /\ Cardinality(Tasks) \in Nat
    BY <1>2, FS_EmptySet, FS_CardinalityType, MailAssumption
  <1> QED BY <1>1, <1>2, <1>3, FS_Subset, FS_CardinalityType

\* Only the count brings a task before the claim.
LEMMA ReachClaim ==
  ASSUME MailInv, [Next]_vars, NEW k \in Tasks, pc'[k] = "claimNote",
         ~(pc[k] = "claimNote" /\ job'[k] = job[k])
  PROVE  CountLane(k)
  <1>1. ASSUME NEW t \in Tasks, NEW step, step # "claimNote",
               \/ Go(t, step)
               \/ \E field, value : GoWith(t, step, field, value)
               \/ \E u \in Users : Begin(t, u, step)
        PROVE  FALSE
    BY <1>1 DEF Go, GoWith, Begin, MailInv, TasksTyped
  <1>2. ASSUME NEW t \in Tasks, HandOff(t)
        PROVE  FALSE
    BY <1>1, <1>2, Zenon
    DEF HandOff, FetchToken, LookUpContact, CreateContact, ReadRow, ClaimWelcome, PostWelcome,
        ReleaseWelcome, Post
  <1>3. ASSUME NEW t \in Tasks, UsageTask(t), ~CountLane(t)
        PROVE  FALSE
    BY <1>1, <1>3
    DEF UsageTask, BumpUsage, ReadSignals, ReadAccount, ClaimNote, PostNote, ReleaseNote, Post
  <1>4. ASSUME NEW t \in Tasks, CountLane(t)
        PROVE  t = k
    BY <1>4 DEF CountLane, GoWith, MailInv, TasksTyped
  <1>5. ASSUME NEW t \in Tasks, DeleteUsage(t) \/ DeleteRow(t) \/ Abort(t)
        PROVE  FALSE
    BY <1>1, <1>5 DEF DeleteUsage, DeleteRow, Abort
  <1>6. ASSUME NEW t \in Tasks, NEW u \in Users,
               SignIn(t, u) \/ ToolCall(t, u) \/ DeleteAccount(t, u)
        PROVE  FALSE
    BY <1>1, <1>6 DEF SignIn, ToolCall, DeleteAccount
  <1>7. ~NextDay /\ ~UNCHANGED vars /\ \A u \in Users : ~Unsubscribe(u) /\ ~UnsubscribeAtProvider(u)
    BY DEF NextDay, vars, Unsubscribe, UnsubscribeAtProvider
  <1> QED BY <1>2, <1>3, <1>4, <1>5, <1>6, <1>7 DEF Next

\* Only a claim adds to the lane.
LEMMA LaneGrows ==
  ASSUME MailInv, Dated, [Next]_vars
  PROVE  \/ InLane' \subseteq InLane
         \/ \E t \in Tasks : /\ pc[t] = "claimNote" /\ pc'[t] = "postNote"
                             /\ ClaimsNote(job[t].user, job[t].lane)
                             /\ InLane' \subseteq InLane \cup {job[t].user}
  <1>0. day \in Nat /\ day # None /\ day \in Days
    BY MailAssumption DEF MailInv, StoreTyped, Days
  <1>1. CASE Quiet
    BY <1>1 DEF Quiet, InLane, HasRow
  <1>2. ASSUME NEW t \in Tasks, NEW step, NEW col \in {"welcome", "note"}, NEW value \in {day, None},
               Stamps(t, step, col, value), col = "welcome" \/ value = None
        PROVE  InLane' \subseteq InLane
    <2>1. job[t].user \in Users /\ day' = day
      BY <1>2, OthersStay DEF Stamps
    <2>2. \A u \in Users : rows'[u] # None => rows[u] # None
                                              /\ rows'[u].note \in {rows[u].note, None}
      <3>1. UpdateRow(job[t].user, col, value) /\ value \in Days \cup {None}
        BY <1>0, <1>2 DEF Stamps
      <3> DEFINE u0 == job[t].user
      <3>2. /\ \A u \in Users : rows'[u] # None <=> rows[u] # None
            /\ \A u \in Users : u # u0 => rows'[u] = rows[u]
            /\ rows[u0] # None => rows'[u0].note = IF col = "note" THEN value ELSE rows[u0].note
        BY <2>1, <3>1, Stamped
      <3> HIDE DEF u0
      <3> QED BY <1>2, <3>2
    <2> QED BY <1>0, <2>1, <2>2 DEF InLane, HasRow
  <1>3. ASSUME NEW t \in Tasks, NEW step, NEW kind, Answers(t, step, kind)
        PROVE  InLane' \subseteq InLane
    BY <1>3, OthersStay DEF Answers, InLane, HasRow
  <1>4. ASSUME NEW t \in Tasks, Stamps(t, "postNote", "note", day)
        PROVE  pc'[t] = "postNote" /\ InLane' \subseteq InLane \cup {job[t].user}
    <2>1. job[t].user \in Users /\ day' = day /\ pc'[t] = "postNote"
      BY <1>4, OthersStay DEF Stamps
    <2>2. \A u \in Users : u # job[t].user => rows'[u] = rows[u]
      BY <1>0, <1>4, <2>1, Stamped DEF Stamps
    <2> QED BY <2>1, <2>2 DEF InLane, HasRow
  <1>5. ASSUME NEW t \in Tasks, NEW u \in Users, SignIn(t, u)
        PROVE  InLane' \subseteq InLane
    <2>1. rows'[u].note = None /\ day' = day /\ \A v \in Users : v # u => rows'[v] = rows[v]
      BY <1>5 DEF SignIn, Upsert, mail, MailInv, StoreTyped
    <2> QED BY <1>0, <2>1 DEF InLane, HasRow
  <1>6. CASE NextDay
    <2>1. rows' = rows /\ day' = day + 1
      BY <1>6 DEF NextDay
    <2>2. ASSUME NEW u \in InLane' PROVE FALSE
      <3>1. u \in Users /\ rows[u] # None /\ rows[u].note = day + 1
        BY <2>1, <2>2 DEF InLane, HasRow
      <3>2. rows[u].note <= day
        BY <1>0, <3>1, MailAssumption DEF Dated
      <3> QED BY <1>0, <3>1, <3>2
    <2> QED BY <2>2
  <1> QED BY <1>1, <1>2, <1>3, <1>4, <1>5, <1>6, StepSends DEF Send

LEMMA LaneStep ==
  ASSUME MailInv, Dated, LaneFits, [Next]_vars
  PROVE  LaneFits'
  <1> USE LaneFinite
  <1>0. LaneCap \in Nat
    BY MailAssumption
  <1>1. ASSUME NEW t \in Tasks, CountLane(t), LaneCount < LaneCap
        PROVE  LaneFits'
    <2>1. InLane' = InLane
      BY <1>1 DEF CountLane, GoWith, store, InLane, HasRow
    <2>2. Cardinality(InLane) < LaneCap
      BY <1>1 DEF LaneCount, InLane
    <2> QED BY <1>0, <2>1, <2>2 DEF LaneFits
  <1>2. CASE \A t \in Tasks : CountLane(t) => ~(LaneCount < LaneCap)
    <2>1. Claimers' \subseteq Claimers
      <3> SUFFICES ASSUME NEW k \in Claimers' PROVE k \in Claimers
        OBVIOUS
      <3>1. k \in Tasks /\ pc'[k] = "claimNote" /\ job'[k].lane < LaneCap
        BY DEF Claimers
      <3>2. ASSUME CountLane(k) PROVE FALSE
        <4>1. job'[k].lane = LaneCount
          BY <3>1, <3>2 DEF CountLane, GoWith, MailInv, TasksTyped, Job
        <4> QED BY <1>2, <3>1, <3>2, <4>1
      <3>3. pc[k] = "claimNote" /\ job'[k] = job[k]
        BY <3>1, <3>2, ReachClaim
      <3> QED BY <3>1, <3>3 DEF Claimers
    <2>2. Cardinality(Claimers') <= Cardinality(Claimers)
      BY <2>1, FS_Subset
    <2>3. CASE InLane' \subseteq InLane
      <3>1. Cardinality(InLane') <= Cardinality(InLane)
        BY <2>3, FS_Subset
      <3> QED BY <1>0, <2>2, <3>1 DEF LaneFits
    <2>4. ASSUME NEW t \in Tasks, pc[t] = "claimNote", pc'[t] = "postNote",
                 ClaimsNote(job[t].user, job[t].lane),
                 InLane' \subseteq InLane \cup {job[t].user}
          PROVE  LaneFits'
      <3> DEFINE u0 == job[t].user
      <3>1. t \in Claimers /\ t \notin Claimers'
        BY <2>4 DEF Claimers, ClaimsNote
      <3>2. Cardinality(Claimers') <= Cardinality(Claimers) - 1
        <4>1. Claimers' \subseteq Claimers \ {t}
          BY <2>1, <3>1
        <4>2. /\ IsFiniteSet(Claimers \ {t})
              /\ Cardinality(Claimers \ {t}) = Cardinality(Claimers) - 1
          BY <3>1, FS_RemoveElement
        <4>3. Cardinality(Claimers') <= Cardinality(Claimers \ {t})
          BY <4>1, <4>2, FS_Subset
        <4> QED BY <4>2, <4>3
      <3> HIDE DEF u0
      <3>3. Cardinality(InLane') <= Cardinality(InLane) + 1
        <4>1. /\ IsFiniteSet(InLane \cup {u0})
              /\ Cardinality(InLane \cup {u0})
                   = IF u0 \in InLane THEN Cardinality(InLane) ELSE Cardinality(InLane) + 1
          BY FS_AddElement, Zenon
        <4>2. Cardinality(InLane') <= Cardinality(InLane \cup {u0})
          BY <2>4, <4>1, FS_Subset DEF u0
        <4>3. Cardinality(InLane \cup {u0}) \in Nat
          BY <4>1, FS_CardinalityType
        <4> QED BY <4>1, <4>2, <4>3
      <3> QED BY <1>0, <3>2, <3>3 DEF LaneFits
    <2> QED BY <2>3, <2>4, LaneGrows
  <1> QED BY <1>1, <1>2

\* Where a step leaves the claims, stamp and messages of an account alone.
LEMMA TodayKept ==
  ASSUME NEW u \in Users, Today(u), ~deleted' => ~deleted, NotesOf(u)' = NotesOf(u),
         ~deleted' /\ u \in InLane => u \in InLane',
         \A k \in Tasks : Mine(k, u)' /\ pc'[k] \in NoteSending => Mine(k, u) /\ pc[k] \in NoteSending
  PROVE  Today(u)'
  <1> SUFFICES ASSUME ~deleted' PROVE Today(u)'
    BY DEF Today
  <1>1. /\ NotesOf(u) # {} => u \in InLane
        /\ \A i, j \in NotesOf(u) : i = j
        /\ \A t \in Tasks : Mine(t, u) /\ pc[t] \in NoteSending =>
             /\ u \in InLane /\ NotesOf(u) = {}
             /\ \A k \in Tasks : Mine(k, u) /\ pc[k] \in NoteSending => k = t
    BY DEF Today
  <1> QED BY <1>1 DEF Today

\* What a claim of a note finds on a day without a deletion.
LEMMA TodayNote ==
  ASSUME MailInv, Dated, NEW t \in Tasks, Send(t), NEW u \in Users, u = job[t].user, Today(u)
  PROVE  Today(u)'
  <1> SUFFICES ASSUME ~deleted' PROVE Today(u)'
    BY DEF Today
  <1>0. ~deleted /\ Mine(t, u) /\ day \in Days /\ day # None
    BY MailAssumption DEF Send, Stamps, Answers, Mine, MailInv, StoreTyped, Days
  <1>1. /\ NotesOf(u) # {} => u \in InLane
        /\ \A i, j \in NotesOf(u) : i = j
        /\ \A k \in Tasks : Mine(k, u) /\ pc[k] \in NoteSending =>
             /\ u \in InLane /\ NotesOf(u) = {}
             /\ \A m \in Tasks : Mine(m, u) /\ pc[m] \in NoteSending => m = k
    BY <1>0 DEF Today
  <1>2. ASSUME NEW step \in {"idle", "postWelcome"}, NEW value \in {day, None},
               Stamps(t, step, "welcome", value)
        PROVE  Today(u)'
    <2>1. /\ sent' = sent /\ day' = day /\ pc'[t] = step
          /\ \A k \in Tasks : Mine(k, u)' => Mine(k, u) /\ (k # t => pc'[k] = pc[k])
      BY <1>2, OthersStay DEF Stamps
    <2>2. u \in InLane => u \in InLane'
      <3>1. rows[u] # None => rows'[u] # None /\ rows'[u].note = rows[u].note
        BY <1>0, <1>2, Stamped DEF Stamps
      <3> QED BY <2>1, <3>1 DEF InLane, HasRow
    <2> QED BY <1>0, <2>1, <2>2, TodayKept DEF NotesOf, NoteSending
  <1>3. ASSUME NEW step \in {"idle", "releaseWelcome"}, Answers(t, step, "welcome"),
               pc[t] = "postWelcome"
        PROVE  Today(u)'
    <2>1. /\ rows' = rows /\ day' = day /\ pc'[t] = step
          /\ \A k \in Tasks : Mine(k, u)' => Mine(k, u) /\ (k # t => pc'[k] = pc[k])
      BY <1>3, OthersStay DEF Answers
    <2>2. NotesOf(u)' = NotesOf(u)
      <3> DEFINE letter == [kind |-> "welcome", day |-> day, token |-> job[t].token]
      <3>1. sent[u] \in Seq(Message) /\ (sent'[u] = sent[u] \/ sent'[u] = Append(sent[u], letter))
        BY <1>3, Answered
      <3>2. letter.kind = "welcome"
        OBVIOUS
      <3> HIDE DEF letter
      <3>3. CASE sent'[u] = Append(sent[u], letter)
        <4>1. /\ DOMAIN sent'[u] = DOMAIN sent[u] \cup {Len(sent[u]) + 1}
              /\ \A i \in DOMAIN sent[u] : sent'[u][i] = sent[u][i]
              /\ sent'[u][Len(sent[u]) + 1] = letter
          BY <3>1, <3>3
        <4>2. \A i \in DOMAIN sent'[u] : i \in DOMAIN sent[u] \/ sent'[u][i].kind # "note"
          BY <3>2, <4>1
        <4> QED BY <2>1, <4>1, <4>2 DEF NotesOf
      <3> QED BY <2>1, <3>1, <3>3 DEF NotesOf
    <2>3. u \in InLane => u \in InLane'
      BY <2>1 DEF InLane, HasRow
    <2> QED BY <1>0, <1>3, <2>1, <2>2, <2>3, TodayKept DEF NoteSending
  <1>4. ASSUME Stamps(t, "postNote", "note", day), ClaimsNote(u, job[t].lane)
        PROVE  Today(u)'
    <2>1. /\ sent' = sent /\ day' = day /\ pc'[t] = "postNote"
          /\ \A k \in Tasks : Mine(k, u)' => Mine(k, u) /\ (k # t => pc'[k] = pc[k])
      BY <1>4, OthersStay DEF Stamps
    <2>2. rows[u] # None /\ rows[u].note # day
      BY <1>0, <1>4, MailAssumption DEF ClaimsNote, HasRow, GapOver, Days
    <2>3. u \notin InLane
      BY <2>2 DEF InLane
    <2>4. u \in InLane'
      <3>1. rows'[u] # None /\ rows'[u].note = day
        BY <1>0, <1>4, <2>2, Stamped DEF Stamps
      <3> QED BY <2>1, <3>1 DEF InLane, HasRow
    <2>5. NotesOf(u)' = {}
      BY <1>1, <2>1, <2>3 DEF NotesOf
    <2>6. \A k \in Tasks : Mine(k, u) => pc[k] \notin NoteSending
      BY <1>1, <2>3
    <2> QED BY <2>1, <2>4, <2>5, <2>6 DEF Today
  <1>5. ASSUME Stamps(t, "idle", "note", None), pc[t] = "releaseNote"
        PROVE  Today(u)'
    <2>1. /\ sent' = sent /\ day' = day /\ pc'[t] = "idle"
          /\ \A k \in Tasks : Mine(k, u)' => Mine(k, u) /\ (k # t => pc'[k] = pc[k])
      BY <1>5, OthersStay DEF Stamps
    <2>2. NotesOf(u)' = {} /\ \A k \in Tasks : Mine(k, u) /\ pc[k] \in NoteSending => k = t
      BY <1>0, <1>1, <1>5, <2>1 DEF NotesOf, NoteSending
    <2> QED BY <2>1, <2>2 DEF Today, NoteSending
  <1>6. ASSUME NEW step \in {"idle", "releaseNote"}, Answers(t, step, "note"), pc[t] = "postNote"
        PROVE  Today(u)'
    <2> DEFINE letter == [kind |-> "note", day |-> day, token |-> job[t].token]
    <2>1. /\ rows' = rows /\ day' = day /\ pc'[t] = step
          /\ \A k \in Tasks : Mine(k, u)' => Mine(k, u) /\ (k # t => pc'[k] = pc[k])
      BY <1>6, OthersStay DEF Answers
    <2>2. /\ u \in InLane /\ NotesOf(u) = {}
          /\ \A k \in Tasks : Mine(k, u) /\ pc[k] \in NoteSending => k = t
      BY <1>0, <1>1, <1>6 DEF NoteSending
    <2>3. u \in InLane'
      BY <2>1, <2>2 DEF InLane, HasRow
    <2>4. CASE sent'[u] = sent[u]
      <3>1. NotesOf(u)' = {}
        BY <2>1, <2>2, <2>4 DEF NotesOf
      <3> QED BY <2>1, <2>2, <2>3, <3>1 DEF Today
    <2>5. CASE step = "idle" /\ sent'[u] = Append(sent[u], letter)
      <3>1. sent[u] \in Seq(Message)
        BY DEF MailInv, StoreTyped
      <3> HIDE DEF letter
      <3>2. /\ DOMAIN sent'[u] = DOMAIN sent[u] \cup {Len(sent[u]) + 1}
            /\ \A i \in DOMAIN sent[u] : sent'[u][i] = sent[u][i]
        BY <2>5, <3>1
      <3>3. NotesOf(u)' \subseteq {Len(sent[u]) + 1}
        BY <2>1, <2>2, <3>2 DEF NotesOf
      <3>4. \A k \in Tasks : Mine(k, u)' => pc'[k] \notin NoteSending
        BY <2>1, <2>2, <2>5 DEF NoteSending
      <3> QED BY <2>3, <3>3, <3>4 DEF Today
    <2> QED BY <1>6, <2>4, <2>5, Answered
  <1> QED BY <1>2, <1>3, <1>4, <1>5, <1>6 DEF Send

LEMMA TodayStep ==
  ASSUME MailInv, Dated, [Next]_vars, NEW u \in Users, Today(u)
  PROVE  Today(u)'
  <1>1. CASE Quiet
    <2>1. ~deleted' /\ u \in InLane => u \in InLane'
      BY <1>1 DEF Quiet, InLane, HasRow
    <2>2. \A k \in Tasks : Mine(k, u)' /\ pc'[k] \in NoteSending => Mine(k, u) /\ pc[k] \in NoteSending
      BY <1>1 DEF Quiet, Mine, Sending, NoteSending
    <2> QED BY <1>1, <2>1, <2>2, TodayKept DEF Quiet, NotesOf
  <1>2. ASSUME NEW t \in Tasks, Send(t)
        PROVE  Today(u)'
    <2>1. CASE u = job[t].user
      BY <1>2, <2>1, TodayNote
    <2>2. CASE u # job[t].user
      <3>1. ASSUME NEW step, NEW col \in {"welcome", "note"}, NEW value \in {day, None},
                   Stamps(t, step, col, value)
            PROVE  Today(u)'
        <4>1. /\ day' = day /\ sent' = sent /\ deleted' = deleted
              /\ \A k \in Tasks : Mine(k, u)' => Mine(k, u) /\ pc'[k] = pc[k]
          BY <2>2, <3>1, OthersStay DEF Stamps
        <4>2. rows'[u] = rows[u]
          BY <2>2, <3>1, OthersStay, Stamped DEF Stamps, MailInv, StoreTyped
        <4> QED BY <4>1, <4>2, TodayKept DEF NotesOf, InLane, HasRow
      <3>2. ASSUME NEW step, NEW kind \in {"welcome", "note"}, Answers(t, step, kind)
            PROVE  Today(u)'
        <4>1. /\ day' = day /\ rows' = rows /\ deleted' = deleted
              /\ \A k \in Tasks : Mine(k, u)' => Mine(k, u) /\ pc'[k] = pc[k]
          BY <2>2, <3>2, OthersStay DEF Answers
        <4>2. sent'[u] = sent[u]
          BY <2>2, <3>2, Answered
        <4> QED BY <4>1, <4>2, TodayKept DEF NotesOf, InLane, HasRow
      <3> QED BY <1>2, <3>1, <3>2 DEF Send
    <2> QED BY <2>1, <2>2
  <1>3. ASSUME NEW t \in Tasks, NEW v \in Users, SignIn(t, v)
        PROVE  Today(u)'
    <2>1. /\ \A k \in Tasks \ {t} : (\A w : Mine(k, w)' <=> Mine(k, w)) /\ pc'[k] = pc[k]
          /\ pc'[t] = "fetchToken"
      BY <1>3, BeginMine DEF SignIn, Steps, HandOffSteps
    <2>2. /\ UNCHANGED <<sent, day, deleted>> /\ rows[v] = None
          /\ \A w \in Users : w # v => rows'[w] = rows[w]
      BY <1>3 DEF SignIn, Upsert, mail, HasRow, MailInv, StoreTyped
    <2>3. u \in InLane => u \in InLane'
      BY <2>2 DEF InLane, HasRow
    <2>4. \A k \in Tasks : Mine(k, u)' /\ pc'[k] \in NoteSending => Mine(k, u) /\ pc[k] \in NoteSending
      BY <2>1 DEF NoteSending
    <2> QED BY <2>2, <2>3, <2>4, TodayKept DEF NotesOf
  <1>4. CASE NextDay
    <2>1. (\A k \in Tasks : ~Mine(k, u)') /\ day' = day + 1 /\ sent' = sent
      BY <1>4 DEF NextDay, Mine
    <2>2. NotesOf(u)' = {}
      <3>1. \A i \in DOMAIN sent[u] : sent[u][i] \in Message
        BY DEF MailInv, StoreTyped
      <3>2. day \in Nat /\ \A i \in DOMAIN sent[u] : sent[u][i].day \in Nat
        BY <3>1, MailAssumption DEF MailInv, StoreTyped, Message, Days
      <3> QED BY <2>1, <3>2 DEF NotesOf, Dated
    <2> QED BY <2>1, <2>2 DEF Today
  <1> QED BY <1>1, <1>2, <1>3, <1>4, StepSends

\* The notes of a day are no more than the accounts in the lane.
LEMMA NotesInLane ==
  ASSUME ~deleted, \A u \in Users : Today(u)
  PROVE  Cardinality(NotesToday) \in Nat /\ Cardinality(NotesToday) <= Cardinality(InLane)
  <1> DEFINE f == [p \in NotesToday |-> p[1]]
  <1>1. ASSUME NEW p \in NotesToday
        PROVE  /\ p = <<p[1], p[2]>> /\ p[1] \in Users /\ p[2] \in NotesOf(p[1])
    BY DEF NotesToday
  <1>2. ASSUME NEW p \in NotesToday
        PROVE  f[p] \in InLane
    BY <1>1 DEF Today
  <1>3. ASSUME NEW p \in NotesToday, NEW q \in NotesToday, f[p] = f[q]
        PROVE  p = q
    <2>1. p[1] = q[1] /\ p[2] = q[2]
      BY <1>1, <1>3 DEF Today
    <2> QED BY <1>1, <2>1
  <1>4. f \in Injection(NotesToday, InLane)
    BY <1>2, <1>3 DEF Injection, IsInjective
  <1> QED BY <1>4, LaneFinite, FS_Injection, FS_CardinalityType

\* The ceiling of the lane is passed by no more than the other tasks under
\* way, on a day on which no account is deleted.
THEOREM LaneKeepsItsCeiling == Spec => []LaneCeiling
  <1> DEFINE LaneInv == Dated /\ LaneFits /\ \A u \in Users : Today(u)
  <1>1. Init => LaneInv
    <2> SUFFICES ASSUME Init PROVE LaneInv
      OBVIOUS
    <2>1. Claimers = {} /\ \A u \in Users, t \in Tasks : ~Mine(t, u)
      BY DEF Init, Claimers, Mine
    <2>2. day # None
      BY MailAssumption DEF Init
    <2>3. InLane = {}
      BY <2>2 DEF Init, InLane, HasRow, Settled
    <2>4. \A u \in Users : NotesOf(u) = {}
      BY DEF Init, NotesOf
    <2>5. LaneFits
      BY <2>1, <2>3, FS_EmptySet, LaneFinite, MailAssumption DEF LaneFits
    <2>6. \A u \in Users : Today(u)
      BY <2>1, <2>4 DEF Today
    <2> QED BY <2>5, <2>6, InitSteady
  <1>2. MailInv /\ LaneInv /\ [Next]_vars => LaneInv'
    BY DatedStep, LaneStep, TodayStep
  <1>3. LaneInv => LaneCeiling
    BY NotesInLane, LaneFinite, MailAssumption DEF LaneCeiling, LaneFits
  <1> QED BY <1>1, <1>2, <1>3, MailInvariant, PTL DEF Spec

===============================================================================
