------------------------------ MODULE MailOutbox ------------------------------
(***************************************************************************)
(* MailerService, MailOutboxService, MailOutboxSender and CronLockService: *)
(* the outbox of e-mails and the cron that hands it to the SMTP server.    *)
(*                                                                         *)
(* A run of the cron takes a lock in Redis that expires, reads the day's   *)
(* counter, and then claims one due mail after the other: the claim moves  *)
(* the mail's nextAttemptAt past a lease, so that a run that dies gives    *)
(* it back.  When Redis is down the cron runs without the lock.  `now' is  *)
(* read once, when the run starts, and not again for each claim.           *)
(*                                                                         *)
(* Time is counted in ticks and relative to the present: a mail is due in  *)
(* so many ticks, a lock has so many left.  The commands to MongoDB and    *)
(* Redis take no time, only the attempts to send do.  Alerts, the logs and *)
(* the removal of sent mails after 30 days are left out.                   *)
(***************************************************************************)
EXTENDS Integers, FiniteSets

CONSTANTS
  Mails, Waiting,        \* Waiting \subseteq Mails: in the outbox at the start
  HighPriority,          \* HighPriority \subseteq Mails: password resets
  Rank,                  \* the order of the claims: priority, then age
  Runs,                  \* runs of the cron, in any instance of the server
  NoMail, NoRun,
  BatchSize, MaxAttempts, DailyCap,
  AttemptMax,            \* the longest an attempt to send can take
  Lease, LockTtl, Backoff, DayLength, Margin,
  Faults,                \* subset of {"crash", "db", "redis", "timeout"}
  MaxFaults              \* bound: how many of them may happen

ASSUME MailAssumption ==
  /\ Waiting \subseteq Mails /\ HighPriority \subseteq Mails
  /\ Rank \in [Mails -> Nat]
  /\ \A m, n \in Mails : Rank[m] = Rank[n] => m = n
  /\ \A m \in HighPriority, n \in Mails \ HighPriority : Rank[m] < Rank[n]
  /\ NoMail \notin Mails /\ NoRun \notin Runs
  /\ {BatchSize, MaxAttempts, DailyCap, AttemptMax} \subseteq Nat \ {0}
  /\ {Lease, LockTtl, DayLength, Margin, MaxFaults} \subseteq Nat
  /\ AttemptMax < Lease /\ Lease < LockTtl
  /\ BatchSize * AttemptMax <= DayLength
  /\ Backoff \in [1..MaxAttempts -> Nat \ {0}]

VARIABLES
  mail,      \* the collection mail_outbox
  counted,   \* the counters of mail_daily_counter: of today and the day before
  midnight,  \* ticks until the next UTC day
  lock,      \* the key cron-lock:mail-outbox-sender
  run,       \* each run's program counter and local variables
  fired,     \* the runs the cron has started in this tick
  faults,    \* faults so far
  accepted,  \* history: how often the SMTP server took each mail
  lost,      \* history: how often that was not noted for want of an answer
  taken,     \* history: mails it took since midnight
  late,      \* history: a lease was too short for the attempt it was for
  drift      \* history: a fault, runs that overlap or a run past midnight

vars == <<mail, counted, midnight, lock, run, fired, faults,
          accepted, lost, taken, late, drift>>

history == <<accepted, lost, taken, late>>

Places == {"idle", "count", "claim", "defer", "send", "mark", "bump",
           "fail", "release"}

Idle == [pc |-> "idle", locked |-> FALSE, mail |-> NoMail, seen |-> 0,
         age |-> 0, tried |-> 0, sent |-> 0, today |-> TRUE, sending |-> 0]

NoLock == [owner |-> NoRun, ttl |-> 0]

MaxAge == BatchSize * AttemptMax     \* no run takes longer

Init ==
  /\ mail = [m \in Mails |->
               [status |-> IF m \in Waiting THEN "pending" ELSE "absent",
                attempts |-> 0, due |-> 0]]
  /\ counted = [today |-> 0, before |-> 0]
  /\ midnight = DayLength /\ lock = NoLock
  /\ run = [r \in Runs |-> Idle] /\ fired = {} /\ faults = 0
  /\ accepted = [m \in Mails |-> 0] /\ lost = [m \in Mails |-> 0]
  /\ taken = 0 /\ late = FALSE /\ drift = FALSE

-----------------------------------------------------------------------------
Fault(kind) ==
  /\ kind \in Faults /\ faults < MaxFaults
  /\ faults' = faults + 1 /\ drift' = TRUE

NoFault == UNCHANGED <<faults, drift>>

Active(r) == run[r].pc # "idle"
At(r, pc) == run[r].pc = pc
GoTo(r, pc) == run' = [run EXCEPT ![r].pc = pc]
Abort(r) == GoTo(r, "release")       \* an error leaves processBatch

(* The loop of processBatch: BATCH_SIZE mails at most. *)
NextRound(r, sent) ==
  run' = [run EXCEPT ![r].pc = IF run[r].tried = BatchSize THEN "release"
                                                           ELSE "claim",
                     ![r].mail = NoMail, ![r].seen = 0, ![r].sending = 0,
                     ![r].sent = sent]

Accept(m) ==
  /\ accepted' = [accepted EXCEPT ![m] = @ + 1]
  /\ taken' = taken + 1

-----------------------------------------------------------------------------
(* dispatch: the mail is put into the outbox. *)
Submit(m) ==
  /\ mail[m].status = "absent"
  /\ mail' = [mail EXCEPT ![m].status = "pending"]
  /\ NoFault /\ UNCHANGED <<counted, midnight, lock, run, fired, history>>

(***************************************************************************)
(* The insert fails, or seems to; the mail is sent directly, which fails   *)
(* as well or not, and is not counted.                                     *)
(***************************************************************************)
SubmitDirect(m) ==
  /\ mail[m].status = "absent" /\ Fault("db")
  /\ \E written, delivered \in BOOLEAN :
       /\ mail' = [mail EXCEPT ![m].status =
                     IF written THEN "pending" ELSE "direct"]
       /\ IF delivered THEN Accept(m) ELSE UNCHANGED <<accepted, taken>>
       /\ lost' = IF written /\ delivered THEN [lost EXCEPT ![m] = @ + 1]
                                          ELSE lost
  /\ UNCHANGED <<counted, midnight, lock, run, fired, late>>

(* withLock: SET NX PX, and the batch only with the lock. *)
FreshKey(r) == [owner |-> r, ttl |-> LockTtl]

Begin(r, locked) ==
  run' = [run EXCEPT ![r].pc = "count", ![r].locked = locked]

Fire(r) ==
  /\ ~Active(r) /\ r \notin fired
  /\ fired' = fired \cup {r}
  /\ IF lock.owner = NoRun
     THEN /\ lock' = FreshKey(r) /\ Begin(r, TRUE)
          /\ drift' = (drift \/ \E q \in Runs : Active(q))
     ELSE UNCHANGED <<lock, run, drift>>
  /\ UNCHANGED <<mail, counted, midnight, faults, history>>

(* Redis does not answer: the batch runs without the lock, and a key that  *)
(* was set all the same is left to expire.                                 *)
FireUnlocked(r) ==
  /\ ~Active(r) /\ r \notin fired /\ Fault("redis")
  /\ fired' = fired \cup {r} /\ Begin(r, FALSE)
  /\ \/ UNCHANGED lock
     \/ lock.owner = NoRun /\ lock' = FreshKey(r)
  /\ UNCHANGED <<mail, counted, midnight, history>>

(* getSent(day) *)
Count(r) ==
  /\ At(r, "count")
  /\ run' = [run EXCEPT ![r].pc = "claim", ![r].sent = counted.today]
  /\ NoFault /\ UNCHANGED <<mail, counted, midnight, lock, fired, history>>

-----------------------------------------------------------------------------
(* claimDue: the first mail that was due when the run started. *)
Claimable(r, m) == mail[m].status = "pending" /\ mail[m].due + run[r].age <= 0

(* Mutant: the claim leaves nextAttemptAt alone. *)
NotLeased(r, m) == mail

Leased(r, m) == [mail EXCEPT ![m].due = Lease - run[r].age]

(* Mutant: one mail too many. *)
CapPassed(r) == run[r].sent > DailyCap

CapReached(r) == run[r].sent >= DailyCap

Claim(r) ==
  /\ At(r, "claim")
  /\ \E m \in Mails :
       /\ Claimable(r, m)
       /\ \A n \in Mails : Claimable(r, n) => Rank[m] <= Rank[n]
       /\ mail' = Leased(r, m)
       /\ run' = [run EXCEPT ![r].mail = m, ![r].seen = mail[m].attempts,
                    ![r].tried = @ + 1,
                    ![r].pc = IF CapReached(r) /\ m \notin HighPriority
                              THEN "defer" ELSE "send"]
  /\ late' = (late \/ run[r].age + AttemptMax >= Lease)
  /\ NoFault
  /\ UNCHANGED <<counted, midnight, lock, fired, accepted, lost, taken>>

ClaimNothing(r) ==
  /\ At(r, "claim") /\ \A m \in Mails : ~Claimable(r, m)
  /\ GoTo(r, "release")
  /\ NoFault /\ UNCHANGED <<mail, counted, midnight, lock, fired, history>>

(* nextDayStart of the run's day: tomorrow, or today for a run of yesterday. *)
NextDay(r) ==
  Margin + IF run[r].today THEN midnight ELSE midnight - DayLength

Deferred(r) == [mail EXCEPT ![run[r].mail].due = NextDay(r)]

Defer(r) ==
  /\ At(r, "defer")
  /\ mail' = Deferred(r)
  /\ NextRound(r, run[r].sent)
  /\ NoFault /\ UNCHANGED <<counted, midnight, lock, fired, history>>

-----------------------------------------------------------------------------
(* sendRendered: the SMTP server takes the mail, or it refuses it. *)
SendAccepted(r) ==
  /\ At(r, "send")
  /\ Accept(run[r].mail) /\ GoTo(r, "mark")
  /\ NoFault
  /\ UNCHANGED <<mail, counted, midnight, lock, fired, lost, late>>

SendRefused(r) ==
  /\ At(r, "send") /\ GoTo(r, "fail")
  /\ NoFault /\ UNCHANGED <<mail, counted, midnight, lock, fired, history>>

(* The server took the mail but its answer did not arrive. *)
SendTimeout(r) ==
  /\ At(r, "send") /\ Fault("timeout")
  /\ Accept(run[r].mail) /\ GoTo(r, "fail")
  /\ lost' = [lost EXCEPT ![run[r].mail] = @ + 1]
  /\ UNCHANGED <<mail, counted, midnight, lock, fired, late>>

Sent(m) == [mail EXCEPT ![m].status = "sent", ![m].attempts = @ + 1]

(* markSent *)
Mark(r) ==
  /\ At(r, "mark")
  /\ mail' = Sent(run[r].mail) /\ GoTo(r, "bump")
  /\ NoFault /\ UNCHANGED <<counted, midnight, lock, fired, history>>

(* Mutant: an error of the bookkeeping is one of the sending. *)
MarkRetried(r) ==
  /\ At(r, "mark") /\ Fault("db")
  /\ GoTo(r, "fail")
  /\ UNCHANGED <<mail, counted, midnight, lock, fired, history>>

(* An error of markSent is logged, and the mail comes back with its lease. *)
MarkFails(r) ==
  /\ At(r, "mark") /\ Fault("db")
  /\ \/ mail' = Sent(run[r].mail) /\ UNCHANGED lost
     \/ UNCHANGED mail /\ lost' = [lost EXCEPT ![run[r].mail] = @ + 1]
  /\ NextRound(r, run[r].sent + 1)
  /\ UNCHANGED <<counted, midnight, lock, fired, accepted, taken, late>>

Day(r) == IF run[r].today THEN "today" ELSE "before"

(* incrementSent; the run goes on with the number it returns. *)
Bump(r) ==
  /\ At(r, "bump")
  /\ counted' = [counted EXCEPT ![Day(r)] = @ + 1]
  /\ NextRound(r, counted[Day(r)] + 1)
  /\ NoFault /\ UNCHANGED <<mail, midnight, lock, fired, history>>

BumpFails(r) ==
  /\ At(r, "bump") /\ Fault("db")
  /\ \/ UNCHANGED counted
     \/ counted' = [counted EXCEPT ![Day(r)] = @ + 1]
  /\ NextRound(r, run[r].sent + 1)
  /\ UNCHANGED <<mail, midnight, lock, fired, history>>

(* handleSendFailure: markFailed, or scheduleRetry with a backoff. *)
Failed(r) ==
  LET m == run[r].mail  attempts == run[r].seen + 1 IN
  IF attempts >= MaxAttempts
  THEN [mail EXCEPT ![m].status = "failed", ![m].attempts = attempts]
  ELSE [mail EXCEPT ![m].attempts = attempts,
                    ![m].due = Backoff[attempts] - run[r].age]

Fail(r) ==
  /\ At(r, "fail")
  /\ mail' = Failed(r)
  /\ NextRound(r, run[r].sent)
  /\ NoFault /\ UNCHANGED <<counted, midnight, lock, fired, history>>

(* MongoDB fails where nothing catches it: the batch ends. *)
BatchFails(r) ==
  /\ run[r].pc \in {"count", "claim", "defer", "fail"} /\ Fault("db")
  /\ Abort(r)
  /\ UNCHANGED <<mail, counted, midnight, lock, fired, history>>

-----------------------------------------------------------------------------
(* Mutant: DEL without comparing the token. *)
ReleasedBy(r) == NoLock

(* The script deletes the key only with the run's own token. *)
Released(r) == IF lock.owner = r THEN NoLock ELSE lock

Release(r) ==
  /\ At(r, "release")
  /\ lock' = IF run[r].locked THEN Released(r) ELSE lock
  /\ run' = [run EXCEPT ![r] = Idle]
  /\ NoFault /\ UNCHANGED <<mail, counted, midnight, fired, history>>

ReleaseFails(r) ==
  /\ At(r, "release") /\ run[r].locked /\ Fault("redis")
  /\ \/ UNCHANGED lock
     \/ lock' = Released(r)
  /\ run' = [run EXCEPT ![r] = Idle]
  /\ UNCHANGED <<mail, counted, midnight, fired, history>>

(* The process dies: what the run has written stays, its lock until it     *)
(* expires.                                                                *)
Crash(r) ==
  /\ Active(r) /\ Fault("crash")
  /\ run' = [run EXCEPT ![r] = Idle]
  /\ lost' = IF At(r, "mark") THEN [lost EXCEPT ![run[r].mail] = @ + 1] ELSE lost
  /\ UNCHANGED <<mail, counted, midnight, lock, fired, accepted, taken, late>>

(***************************************************************************)
(* A tick of the clock: only attempts to send last, and no longer than     *)
(* their timeouts allow.                                                   *)
(***************************************************************************)
(* Mutant: the key is set without an expiry. *)
Kept(key) == key

Expiring(key) == IF key.ttl <= 1 THEN NoLock ELSE [key EXCEPT !.ttl = @ - 1]

Older(m) ==   \* how long it has been due does not matter beyond MaxAge
  [m EXCEPT !.due = CASE m.status # "pending" -> 0
                      [] m.due > -MaxAge -> m.due - 1
                      [] OTHER -> m.due]

StillToday(r) == run[r].today /\ midnight > 1

Tick ==
  /\ \A r \in Runs : Active(r) => At(r, "send") /\ run[r].sending < AttemptMax
  /\ mail' = [m \in Mails |-> Older(mail[m])]
  /\ lock' = Expiring(lock)
  /\ run' = [r \in Runs |->
               IF ~Active(r) THEN run[r]
               ELSE [run[r] EXCEPT !.age = @ + 1, !.sending = @ + 1,
                                   !.today = StillToday(r)]]
  /\ fired' = {}
  /\ IF midnight = 1
     THEN /\ midnight' = DayLength /\ taken' = 0
          /\ counted' = [today |-> 0, before |-> counted.today]
          /\ drift' = (drift \/ \E r \in Runs : Active(r))
     ELSE /\ midnight' = midnight - 1
          /\ UNCHANGED <<counted, taken, drift>>
  /\ UNCHANGED <<faults, accepted, lost, late>>

Progress(r) ==
  \/ Fire(r) \/ Count(r) \/ Claim(r) \/ ClaimNothing(r) \/ Defer(r)
  \/ SendAccepted(r) \/ SendRefused(r) \/ Mark(r) \/ Bump(r) \/ Fail(r)
  \/ Release(r)

Disturb(r) ==
  \/ FireUnlocked(r) \/ SendTimeout(r) \/ MarkFails(r) \/ BumpFails(r)
  \/ BatchFails(r) \/ ReleaseFails(r) \/ Crash(r)

Next ==
  \/ \E m \in Mails : Submit(m) \/ SubmitDirect(m)
  \/ \E r \in Runs : Progress(r) \/ Disturb(r)
  \/ Tick

Spec == Init /\ [][Next]_vars

(***************************************************************************)
(* The cron fires again and again, a command is answered, an attempt ends, *)
(* and time passes.                                                        *)
(***************************************************************************)
Fairness == WF_vars(Tick) /\ \A r \in Runs : WF_vars(Progress(r))

FairSpec == Spec /\ Fairness

-----------------------------------------------------------------------------
(* Invariants *)

(* Type invariant; a mail that is still pending has an attempt left. *)
TypeOK ==
  /\ mail \in [Mails -> [status: {"absent", "pending", "sent", "failed", "direct"},
                         attempts: Nat, due: Int]]
  /\ counted \in [today: Nat, before: Nat] /\ midnight \in 1..DayLength
  /\ lock \in [owner: Runs \cup {NoRun}, ttl: 0..LockTtl]
  /\ run \in [Runs -> [pc: Places, locked: BOOLEAN, mail: Mails \cup {NoMail},
                       seen: 0..MaxAttempts - 1, age: 0..MaxAge,
                       tried: 0..BatchSize, sent: Nat, today: BOOLEAN,
                       sending: 0..AttemptMax]]
  /\ fired \subseteq Runs /\ faults \in 0..MaxFaults
  /\ {late, drift} \subseteq BOOLEAN

(***************************************************************************)
(* "only one instance sends a batch": two runs that got the lock overlap   *)
(* only when one of them has outlived it.                                  *)
(***************************************************************************)
LockExcludes ==
  \A r, q \in Runs :
    run[r].locked /\ run[q].locked /\ r # q =>
      run[r].age >= LockTtl \/ run[q].age >= LockTtl

(***************************************************************************)
(* "worst case = a duplicate": the SMTP server takes a mail once, and once *)
(* more for every time its taking it was not noted; with the lock or       *)
(* without, as long as the leases cover the attempts.                      *)
(***************************************************************************)
DuplicateExplained ==
  \A m \in Mails : ~late => accepted[m] <= 1 + lost[m]

(***************************************************************************)
(* "the claim moves nextAttemptAt ... two instances do not pick the mail   *)
(* up", "when Redis is down the lease covers the duplicate send": nothing  *)
(* lost, nothing twice.                                                    *)
(***************************************************************************)
NoDuplicate == \A m \in Mails : lost[m] = 0 => accepted[m] <= 1

-----------------------------------------------------------------------------
(* Action and liveness properties *)

(* What became of a mail stays: a slow run does not write over it. *)
OutcomeFinal ==
  [][~late => \A m \in Mails :
       mail[m].status \in {"sent", "failed"} =>
         mail'[m].status = mail[m].status]_vars

(***************************************************************************)
(* "after the cap only the high priority goes out": counting what the SMTP *)
(* server really took, unless a count was lost or two runs counted at once.*)
(***************************************************************************)
CapHeld ==
  [][\A m \in Mails \ HighPriority :
       accepted'[m] > accepted[m] /\ ~drift' => taken < DailyCap]_vars

(* Every mail in the outbox is sent or given up, whatever dies meanwhile. *)
Settled ==
  \A m \in Mails :
    mail[m].status = "pending" ~> mail[m].status \in {"sent", "failed"}

=============================================================================
