-------------------------- MODULE MailAndWorldProofs --------------------------
(***************************************************************************)
(* Two parts of the server that have no state in common.  First the outbox *)
(* of e-mails and its cron, for any number of mails, runs and faults.      *)
(*                                                                         *)
(*   Locks   a run that has not outlived its lock owns the key             *)
(*   Types   the types, and how long a run can take                        *)
(*   Leases  a mail that is being handled has one run that handles it, and *)
(*           its lease outlasts the attempt                                *)
(*   Noted   what the SMTP server took and nobody noted                    *)
(*   Tally   the day's counter is what the SMTP server took since midnight *)
(*                                                                         *)
(* Then the memberships of a world, for any number of users and requests.  *)
(*                                                                         *)
(*   Looks   steps that only read, and steps that write neither members    *)
(*           nor the world's owner and counter                             *)
(*   Members steps that write one membership                               *)
(*   World   steps that write the owner or the counter                     *)
(***************************************************************************)
EXTENDS MailOutbox, WorldMembership, FiniteSetTheorems, TLAPS

(***************************************************************************)
(* Locks                                                                   *)
(***************************************************************************)
Fields == {"pc", "locked", "mail", "seen", "age", "tried", "sent", "today",
           "sending"}

Shape ==
  /\ DOMAIN run = Runs
  /\ \A r \in Runs : DOMAIN run[r] = Fields /\ run[r].age \in Nat
  /\ \A r \in Runs : ~Active(r) => run[r].age = 0 /\ ~run[r].locked

Key(r) == [owner |-> r, ttl |-> LockTtl - run[r].age]

Owned == \A r \in Runs : run[r].locked /\ run[r].age < LockTtl => lock = Key(r)

(* The inductive invariant. *)
LockConsistent == Shape /\ Owned

-----------------------------------------------------------------------------
LEMMA LockInit == Init => LockConsistent
BY DEF Init, LockConsistent, Shape, Owned, Idle, Fields, Active

(* What a step of r that is neither its start nor its end does to the lock. *)
Quiet(r) ==
  /\ UNCHANGED lock
  /\ DOMAIN run' = Runs /\ DOMAIN run'[r] = Fields
  /\ \A q \in Runs \ {r} : run'[q] = run[q]
  /\ run[r].pc # "idle" /\ run'[r].pc # "idle"
  /\ run'[r].locked = run[r].locked /\ run'[r].age = run[r].age

(* The end of a run r. *)
Ended(r) ==
  /\ run' = [run EXCEPT ![r] = Idle]
  /\ lock' = lock \/ (run[r].locked /\ lock' = Released(r))

LEMMA RoundQuiet ==
  ASSUME Shape, NEW r \in Runs, NEW sent, NextRound(r, sent),
         run[r].pc # "idle", UNCHANGED lock
  PROVE  Quiet(r)
BY DEF Shape, NextRound, Quiet, Fields

LEMMA QuietSteps ==
  ASSUME Shape, NEW r \in Runs,
         \/ Count(r) \/ Claim(r) \/ ClaimNothing(r) \/ Defer(r)
         \/ SendAccepted(r) \/ SendRefused(r) \/ SendTimeout(r)
         \/ Mark(r) \/ MarkFails(r) \/ Bump(r) \/ BumpFails(r) \/ Fail(r)
         \/ BatchFails(r)
  PROVE  Quiet(r)
<1> USE DEF At
<1>1. CASE Count(r)
  BY <1>1 DEF Count, Quiet, Shape, Fields
<1>2. CASE Claim(r)
  <2>1. PICK m \in Mails :
          run' = [run EXCEPT ![r].mail = m, ![r].seen = mail[m].attempts,
                    ![r].tried = @ + 1,
                    ![r].pc = IF CapReached(r) /\ m \notin HighPriority
                              THEN "defer" ELSE "send"]
    BY <1>2 DEF Claim
  <2>2. run[r].pc = "claim" /\ UNCHANGED lock
    BY <1>2 DEF Claim
  <2> QED
    BY <2>1, <2>2 DEF Quiet, Shape, Fields
<1>3. CASE ClaimNothing(r) \/ SendAccepted(r) \/ SendRefused(r) \/ SendTimeout(r)
           \/ Mark(r) \/ BatchFails(r)
  BY <1>3 DEF ClaimNothing, SendAccepted, SendRefused, SendTimeout, Mark,
              BatchFails, Abort, GoTo, Quiet, Shape, Fields
<1>4. CASE Defer(r)
  BY <1>4, RoundQuiet DEF Defer
<1>5. CASE MarkFails(r)
  BY <1>5, RoundQuiet DEF MarkFails
<1>6. CASE Bump(r)
  BY <1>6, RoundQuiet DEF Bump
<1>7. CASE BumpFails(r)
  BY <1>7, RoundQuiet DEF BumpFails
<1>8. CASE Fail(r)
  BY <1>8, RoundQuiet DEF Fail
<1> QED
  BY <1>1, <1>2, <1>3, <1>4, <1>5, <1>6, <1>7, <1>8

LEMMA QuietKeeps ==
  ASSUME LockConsistent, NEW r \in Runs, Quiet(r)
  PROVE  LockConsistent'
BY DEF LockConsistent, Shape, Owned, Key, Active, Quiet

(* A run that ends deletes the key only if it is its own. *)
LEMMA EndKeeps ==
  ASSUME LockConsistent, NEW r \in Runs, Ended(r)
  PROVE  LockConsistent'
<1> USE DEF LockConsistent
<1>1. /\ \A q \in Runs \ {r} : run'[q] = run[q]
      /\ run'[r] = Idle /\ DOMAIN run' = Runs
  BY DEF Ended, Shape
<1>2. Shape'
  BY <1>1 DEF Shape, Active, Idle, Fields
<1>3. ASSUME NEW q \in Runs, run'[q].locked, run'[q].age < LockTtl
      PROVE  lock' = Key(q)'
  <2>1. q # r /\ run'[q] = run[q]
    BY <1>1, <1>3 DEF Idle
  <2>2. lock = Key(q)
    BY <1>3, <2>1 DEF Owned
  <2>3. lock' = lock
    BY <2>1, <2>2 DEF Ended, Released, Key
  <2> QED
    BY <2>1, <2>2, <2>3 DEF Key
<1> QED
  BY <1>2, <1>3 DEF Owned

(* A run starts with the lock only when the key is free. *)
LEMMA StartKeeps ==
  ASSUME LockConsistent, NEW r \in Runs, Fire(r) \/ FireUnlocked(r)
  PROVE  LockConsistent'
<1> USE DEF LockConsistent
<1>1. CASE UNCHANGED <<lock, run>>
  BY <1>1 DEF Shape, Owned, Key, Active
<1>2. ASSUME NEW locked \in BOOLEAN, Begin(r, locked), ~Active(r),
             \/ lock.owner = NoRun /\ lock' = FreshKey(r)
             \/ ~locked /\ UNCHANGED lock
      PROVE  LockConsistent'
  <2>1. /\ \A q \in Runs \ {r} : run'[q] = run[q]
        /\ DOMAIN run' = Runs /\ DOMAIN run'[r] = Fields
        /\ run'[r].pc = "count" /\ run'[r].locked = locked /\ run'[r].age = 0
    BY <1>2 DEF Begin, Shape, Fields
  <2>2. Shape'
    BY <2>1 DEF Shape, Active
  <2>3. ASSUME NEW q \in Runs, run'[q].locked, run'[q].age < LockTtl
        PROVE  lock' = Key(q)'
    <3>1. CASE q = r
      BY <1>2, <2>1, <2>3, <3>1, MailAssumption DEF Key, FreshKey
    <3>2. CASE q # r
      <4>1. lock = Key(q)
        BY <2>1, <2>3, <3>2 DEF Owned
      <4>2. lock.owner # NoRun
        BY <4>1, MailAssumption DEF Key
      <4> QED
        BY <1>2, <2>1, <3>2, <4>1, <4>2 DEF Key
    <3> QED
      BY <3>1, <3>2
  <2> QED
    BY <2>2, <2>3 DEF Owned
<1> QED
  BY <1>1, <1>2 DEF Fire, FireUnlocked

LEMMA TickKeeps ==
  ASSUME LockConsistent, Tick
  PROVE  LockConsistent'
<1> USE DEF LockConsistent
<1>1. DOMAIN run' = Runs
  BY DEF Tick
<1>2. \A r \in Runs : /\ run'[r].pc = run[r].pc
                      /\ run'[r].locked = run[r].locked
                      /\ DOMAIN run'[r] = Fields
                      /\ run'[r].age = IF Active(r) THEN run[r].age + 1 ELSE 0
  <2>1. run' = [r \in Runs |->
                  IF ~Active(r) THEN run[r]
                  ELSE [run[r] EXCEPT !.age = @ + 1, !.sending = @ + 1,
                                      !.today = StillToday(r)]]
    BY DEF Tick
  <2> QED
    BY <2>1 DEF Shape, Active, Fields
<1>3. Shape'
  BY <1>1, <1>2 DEF Shape, Active
<1>4. ASSUME NEW r \in Runs, run'[r].locked, run'[r].age < LockTtl
      PROVE  lock' = Key(r)'
  <2>1. run[r].age \in Nat /\ LockTtl \in Nat /\ run'[r].age = run[r].age + 1
    BY <1>2, <1>4, MailAssumption DEF Shape, Active
  <2>2. lock = Key(r)
    BY <1>2, <1>4, <2>1 DEF Owned
  <2>3. lock.ttl \in Int /\ ~(lock.ttl <= 1)
    BY <1>4, <2>1, <2>2 DEF Key
  <2>4. lock' = [lock EXCEPT !.ttl = @ - 1]
    <3>1. lock' = Expiring(lock)
      BY DEF Tick
    <3> QED
      BY <2>3, <3>1 DEF Expiring
  <2> QED
    BY <2>1, <2>2, <2>4 DEF Key
<1> QED
  BY <1>3, <1>4 DEF Owned

LEMMA LockNext == LockConsistent /\ [Next]_vars => LockConsistent'
<1> SUFFICES ASSUME LockConsistent, [Next]_vars PROVE LockConsistent'
  OBVIOUS
<1>1. CASE UNCHANGED vars
  BY <1>1 DEF vars, LockConsistent, Shape, Owned, Key, Active
<1>2. ASSUME NEW m \in Mails, Submit(m) \/ SubmitDirect(m) PROVE LockConsistent'
  BY <1>2 DEF Submit, SubmitDirect, LockConsistent, Shape, Owned, Key, Active
<1>3. ASSUME NEW r \in Runs, Progress(r) \/ Disturb(r) PROVE LockConsistent'
  <2>1. Shape
    BY DEF LockConsistent
  <2>2. CASE Fire(r) \/ FireUnlocked(r)
    BY <2>2, StartKeeps
  <2>3. CASE Release(r) \/ ReleaseFails(r) \/ Crash(r)
    <3>1. Ended(r)
      BY <2>3 DEF Release, ReleaseFails, Crash, Ended
    <3> QED
      BY <3>1, EndKeeps
  <2>4. CASE \/ Count(r) \/ Claim(r) \/ ClaimNothing(r) \/ Defer(r)
             \/ SendAccepted(r) \/ SendRefused(r) \/ SendTimeout(r)
             \/ Mark(r) \/ MarkFails(r) \/ Bump(r) \/ BumpFails(r) \/ Fail(r)
             \/ BatchFails(r)
    BY <2>1, <2>4, QuietSteps, QuietKeeps
  <2> QED
    BY <1>3, <2>2, <2>3, <2>4 DEF Progress, Disturb
<1>4. CASE Tick
  BY <1>4, TickKeeps
<1> QED
  BY <1>1, <1>2, <1>3, <1>4 DEF Next

-----------------------------------------------------------------------------
(***************************************************************************)
(* Two runs that got the lock overlap only when one has outlived it,       *)
(* whatever crashes and whenever Redis is down.                            *)
(***************************************************************************)
THEOREM LockMutex == Spec => []LockExcludes
<1>1. LockConsistent => LockExcludes
  <2> SUFFICES ASSUME LockConsistent, NEW r \in Runs, NEW q \in Runs,
                      run[r].locked, run[q].locked, r # q,
                      ~(run[r].age >= LockTtl), ~(run[q].age >= LockTtl)
               PROVE  FALSE
    BY DEF LockExcludes
  <2>1. run[r].age < LockTtl /\ run[q].age < LockTtl
    BY MailAssumption DEF LockConsistent, Shape
  <2>2. lock = Key(r) /\ lock = Key(q)
    BY <2>1 DEF LockConsistent, Owned
  <2> QED
    BY <2>2 DEF Key
<1> QED
  BY LockInit, LockNext, <1>1, PTL DEF Spec

-----------------------------------------------------------------------------
(***************************************************************************)
(* Types.  A run holds a mail from its claim until it has written what     *)
(* became of it.                                                           *)
(***************************************************************************)
Holding == {"defer", "send", "mark", "fail"}

Holds(r, m) == run[r].pc \in Holding /\ run[r].mail = m

MailRecord == [status: {"absent", "pending", "sent", "failed", "direct"},
               attempts: Nat, due: Int]

RunRecord == [pc: Places, locked: BOOLEAN, mail: Mails \cup {NoMail},
              seen: 0..MaxAttempts - 1, age: Nat, tried: 0..BatchSize,
              sent: Nat, today: BOOLEAN, sending: 0..AttemptMax]

(* A run ages only while it sends, for AttemptMax ticks per mail at most. *)
RunFits(q) ==
  /\ q.pc \in Holding \cup {"bump"} =>
       q.mail \in Mails /\ q.age + (AttemptMax - q.sending) <= q.tried * AttemptMax
  /\ q.pc = "idle" => q = Idle
  /\ q.pc = "claim" => q.sending = 0 /\ q.tried < BatchSize
  /\ q.pc = "count" => q.sending = 0 /\ q.tried = 0
  /\ q.age <= q.tried * AttemptMax

RunsTyped ==
  run \in [Runs -> RunRecord] /\ \A r \in Runs : RunFits(run[r])

MailTyped ==
  /\ mail \in [Mails -> MailRecord]
  /\ \A m \in Mails : mail[m].status \in {"absent", "pending"} =>
       mail[m].attempts < MaxAttempts

ClockTyped ==
  /\ counted \in [today: Nat, before: Nat] /\ midnight \in 1..DayLength
  /\ lock \in [owner: Runs \cup {NoRun}, ttl: 0..LockTtl]
  /\ fired \subseteq Runs /\ faults \in 0..MaxFaults
  /\ late \in BOOLEAN /\ drift \in BOOLEAN
  /\ accepted \in [Mails -> Nat] /\ lost \in [Mails -> Nat] /\ taken \in Nat

Typed == RunsTyped /\ MailTyped /\ ClockTyped

-----------------------------------------------------------------------------
LEMMA Bounds ==
  /\ BatchSize \in Nat \ {0} /\ MaxAttempts \in Nat \ {0}
  /\ DailyCap \in Nat \ {0} /\ AttemptMax \in Nat \ {0}
  /\ Lease \in Nat /\ LockTtl \in Nat /\ DayLength \in Nat
  /\ Margin \in Nat /\ MaxFaults \in Nat
  /\ MaxAge \in Nat /\ MaxAge <= DayLength
  /\ 1 <= DayLength /\ NoMail \notin Mails
<1>1. BatchSize \in Nat \ {0} /\ AttemptMax \in Nat \ {0} /\ DayLength \in Nat
  BY MailAssumption
<1>2. BatchSize * AttemptMax \in Nat /\ BatchSize * AttemptMax >= 1
  BY <1>1
<1> QED
  BY <1>1, <1>2, MailAssumption DEF MaxAge

LEMMA IdleFits == Idle \in RunRecord /\ RunFits(Idle)
BY Bounds DEF Idle, RunRecord, RunFits, Places, Holding

(* One run moves on, the others stay. *)
LEMMA RunMoves ==
  ASSUME RunsTyped, NEW r \in Runs, NEW q \in RunRecord, RunFits(q),
         run' = [run EXCEPT ![r] = q]
  PROVE  RunsTyped'
<1>1. run' \in [Runs -> RunRecord]
  BY DEF RunsTyped
<1>2. ASSUME NEW s \in Runs PROVE RunFits(run'[s])
  <2>1. run'[s] = IF s = r THEN q ELSE run[s]
    BY DEF RunsTyped
  <2> QED
    BY <2>1 DEF RunsTyped
<1>3. RunsTyped' <=> run' \in [Runs -> RunRecord] /\ \A s \in Runs : RunFits(run'[s])
  BY DEF RunsTyped, RunFits, RunRecord, Idle
<1> QED
  BY <1>1, <1>2, <1>3

LEMMA GoToFits ==
  ASSUME RunsTyped, NEW r \in Runs, NEW pc \in Places, GoTo(r, pc),
         \/ run[r].pc \in Holding /\ pc \in Holding \cup {"bump"}
         \/ run[r].pc # "idle" /\ pc = "release"
  PROVE  /\ RunsTyped' /\ run' = [run EXCEPT ![r] = [run[r] EXCEPT !.pc = pc]]
<1> DEFINE q == [run[r] EXCEPT !.pc = pc]
<1>1. run[r] \in RunRecord /\ RunFits(run[r])
  BY DEF RunsTyped
<1>2. q \in RunRecord
  BY <1>1 DEF RunRecord
<1>3. RunFits(q)
  BY <1>1, <1>2 DEF RunRecord, RunFits, Holding
<1>4. run' = [run EXCEPT ![r] = q]
  BY DEF GoTo
<1> QED
  BY <1>2, <1>3, <1>4, RunMoves

Round(r, sent) ==
  [run[r] EXCEPT !.pc = IF run[r].tried = BatchSize THEN "release" ELSE "claim",
                 !.mail = NoMail, !.seen = 0, !.sending = 0, !.sent = sent]

LEMMA RoundFits ==
  ASSUME RunsTyped, NEW r \in Runs, NEW sent \in Nat, NextRound(r, sent),
         run[r].pc \in Holding \cup {"bump"}
  PROVE  RunsTyped' /\ run' = [run EXCEPT ![r] = Round(r, sent)]
<1>1. run[r] \in RunRecord /\ RunFits(run[r])
  BY DEF RunsTyped
<1>2. Round(r, sent) \in RunRecord
  <2>1. 0 \in 0..MaxAttempts - 1 /\ 0 \in 0..AttemptMax
    BY Bounds
  <2>2. (IF run[r].tried = BatchSize THEN "release" ELSE "claim") \in Places
    BY DEF Places
  <2> QED
    BY <1>1, <2>1, <2>2 DEF RunRecord, Round
<1>3. RunFits(Round(r, sent))
  <2> DEFINE q == Round(r, sent)
  <2>1. /\ q.pc = IF run[r].tried = BatchSize THEN "release" ELSE "claim"
        /\ q.age = run[r].age /\ q.tried = run[r].tried /\ q.sending = 0
    BY <1>1 DEF RunRecord, Round
  <2>2. run[r].age + (AttemptMax - run[r].sending) <= run[r].tried * AttemptMax
    BY <1>1 DEF RunFits
  <2>3. /\ run[r].age \in Nat /\ run[r].tried \in 0..BatchSize
        /\ run[r].sending \in 0..AttemptMax /\ AttemptMax \in Nat /\ BatchSize \in Nat
    BY <1>1, Bounds DEF RunRecord
  <2>4. run[r].age <= run[r].tried * AttemptMax
    BY <1>1 DEF RunFits
  <2> QED
    BY <2>1, <2>3, <2>4 DEF RunFits, Holding
<1>4. run' = [run EXCEPT ![r] = Round(r, sent)]
  BY DEF NextRound, Round
<1> QED
  BY <1>2, <1>3, <1>4, RunMoves

LEMMA ClaimFits ==
  ASSUME RunsTyped, MailTyped, NEW r \in Runs, NEW m \in Mails, At(r, "claim"),
         mail[m].status = "pending", NEW pc \in {"defer", "send"},
         run' = [run EXCEPT ![r].mail = m, ![r].seen = mail[m].attempts,
                    ![r].tried = @ + 1, ![r].pc = pc]
  PROVE  RunsTyped'
<1> DEFINE q == [run[r] EXCEPT !.mail = m, !.seen = mail[m].attempts,
                    !.tried = @ + 1, !.pc = pc]
<1>1. run[r] \in RunRecord /\ RunFits(run[r]) /\ run[r].pc = "claim"
  BY DEF RunsTyped, At
<1>2. /\ run[r].age \in Nat /\ run[r].tried \in Nat /\ run[r].sending = 0
      /\ run[r].tried < BatchSize /\ run[r].age <= run[r].tried * AttemptMax
      /\ AttemptMax \in Nat /\ BatchSize \in Nat
  BY <1>1, Bounds DEF RunRecord, RunFits
<1>3. mail[m].attempts \in 0..MaxAttempts - 1
  BY Bounds DEF MailTyped, MailRecord
<1>4. q \in RunRecord
  <2>1. run[r].tried + 1 \in 0..BatchSize
    BY <1>2
  <2>2. pc \in Places
    BY DEF Places
  <2> QED
    BY <1>1, <1>3, <2>1, <2>2 DEF RunRecord
<1>5. /\ q.pc = pc /\ q.mail = m /\ q.tried = run[r].tried + 1 /\ q.age = run[r].age
      /\ q.sending = 0
  BY <1>1, <1>2 DEF RunRecord
<1>6. (run[r].tried + 1) * AttemptMax = run[r].tried * AttemptMax + AttemptMax
  BY <1>2
<1>7. run[r].tried * AttemptMax \in Nat
  BY <1>2
<1>8. q.age + (AttemptMax - q.sending) <= q.tried * AttemptMax
      /\ q.age <= q.tried * AttemptMax
  BY <1>2, <1>5, <1>6, <1>7
<1>9. RunFits(q)
  BY <1>5, <1>8 DEF RunFits, Holding
<1>10. run' = [run EXCEPT ![r] = q]
  OBVIOUS
<1> QED
  BY <1>4, <1>9, <1>10, RunMoves

(* What every step does to the run that takes it. *)
LEMMA RunsStep ==
  ASSUME Typed, NEW r \in Runs, Progress(r) \/ Disturb(r)
  PROVE  RunsTyped'
<1>0. RunsTyped /\ MailTyped /\ run[r] \in RunRecord /\ RunFits(run[r])
  BY DEF Typed, RunsTyped
<1>a. \A sent \in Nat : NextRound(r, sent) /\ run[r].pc \in Holding \cup {"bump"}
                          => RunsTyped'
  BY <1>0, RoundFits
<1>b. ASSUME run' = [run EXCEPT ![r] = Idle] PROVE RunsTyped'
  BY <1>0, <1>b, IdleFits, RunMoves
<1>c. ASSUME UNCHANGED run PROVE RunsTyped'
  BY <1>0, <1>c DEF RunsTyped
<1>d. ASSUME NEW locked \in BOOLEAN, Begin(r, locked), ~Active(r) PROVE RunsTyped'
  <2>1. run[r] = Idle
    BY <1>0, <1>d DEF Active, RunFits
  <2> DEFINE q == [Idle EXCEPT !.pc = "count", !.locked = locked]
  <2>2. q \in RunRecord /\ RunFits(q)
    <3>1. q \in RunRecord
      BY IdleFits DEF RunRecord, Places
    <3>2. AttemptMax \in Nat
      BY Bounds
    <3> QED  BY <3>1, <3>2 DEF RunFits, Idle, Holding
  <2>3. run' = [run EXCEPT ![r] = q]
    BY <1>0, <1>d, <2>1 DEF Begin, RunsTyped
  <2> QED  BY <1>0, <2>2, <2>3, RunMoves
<1>1. CASE Fire(r)
  BY <1>1, <1>c, <1>d DEF Fire
<1>2. CASE Count(r)
  <2> DEFINE q == [run[r] EXCEPT !.pc = "claim", !.sent = counted.today]
  <2>1. counted.today \in Nat
    BY DEF Typed, ClockTyped
  <2>2. q \in RunRecord
    BY <1>0, <2>1 DEF RunRecord, Places
  <2>3. RunFits(q)
    <3>1. 0 < BatchSize
      BY Bounds
    <3> QED  BY <1>0, <1>2, <2>2, <3>1 DEF RunFits, RunRecord, Count, At, Holding
  <2>4. run' = [run EXCEPT ![r] = q]
    BY <1>2 DEF Count
  <2> QED  BY <1>0, <2>2, <2>3, <2>4, RunMoves
<1>3. CASE Claim(r)
  BY <1>0, <1>3, ClaimFits DEF Claim, Claimable
<1>4. CASE Defer(r)
  BY <1>0, <1>4, <1>a DEF Defer, At, Holding, RunRecord
<1>5. CASE ClaimNothing(r) \/ BatchFails(r)
  BY <1>0, <1>5, GoToFits DEF ClaimNothing, BatchFails, Abort, At, Places
<1>6. CASE SendAccepted(r) \/ SendRefused(r) \/ SendTimeout(r) \/ Mark(r)
  BY <1>0, <1>6, GoToFits DEF SendAccepted, SendRefused, SendTimeout, Mark, At,
                              Holding, Places
<1>7. CASE MarkFails(r) \/ BumpFails(r)
  <2>1. run[r].sent + 1 \in Nat
    BY <1>0 DEF RunRecord
  <2> QED  BY <1>7, <1>a, <2>1 DEF MarkFails, BumpFails, At, Holding
<1>8. CASE Bump(r)
  <2>1. counted[Day(r)] + 1 \in Nat
    BY DEF Typed, ClockTyped, Day
  <2> QED  BY <1>8, <1>a, <2>1 DEF Bump, At, Holding
<1>9. CASE Fail(r)
  BY <1>0, <1>9, <1>a DEF Fail, At, Holding, RunRecord
<1>10. CASE Release(r) \/ ReleaseFails(r) \/ Crash(r)
  BY <1>10, <1>b DEF Release, ReleaseFails, Crash
<1>11. CASE FireUnlocked(r)
  BY <1>11, <1>d DEF FireUnlocked
<1> QED
  BY <1>1, <1>2, <1>3, <1>4, <1>5, <1>6, <1>7, <1>8, <1>9, <1>10, <1>11
     DEF Progress, Disturb

LEMMA ClockStep ==
  ASSUME Typed, \/ \E m \in Mails : Submit(m) \/ SubmitDirect(m)
                \/ \E r \in Runs : Progress(r) \/ Disturb(r)
  PROVE  ClockTyped'
<1>0. ClockTyped /\ RunsTyped
  BY DEF Typed
<1>a. ASSUME NEW kind, Fault(kind) PROVE faults' \in 0..MaxFaults /\ drift' \in BOOLEAN
  <2>1. faults \in 0..MaxFaults /\ MaxFaults \in Nat
    BY <1>0, Bounds DEF ClockTyped
  <2> QED  BY <1>a, <2>1 DEF Fault
<1>b. ASSUME NEW m \in Mails, Accept(m) PROVE accepted' \in [Mails -> Nat] /\ taken' \in Nat
  BY <1>0, <1>b DEF Accept, ClockTyped
<1>c. \A m \in Mails : [lost EXCEPT ![m] = @ + 1] \in [Mails -> Nat]
  BY <1>0 DEF ClockTyped
<1>d. \A r \in Runs : FreshKey(r) \in [owner: Runs \cup {NoRun}, ttl: 0..LockTtl]
  BY Bounds DEF FreshKey
<1>e. \A r \in Runs : Released(r) \in [owner: Runs \cup {NoRun}, ttl: 0..LockTtl]
  BY <1>0, Bounds DEF Released, NoLock, ClockTyped
<1>f. \A r \in Runs : run[r].pc \in Holding => run[r].mail \in Mails
  BY <1>0 DEF RunsTyped, RunFits
<1>1. ASSUME NEW m \in Mails, Submit(m) \/ SubmitDirect(m) PROVE ClockTyped'
  BY <1>0, <1>1, <1>a, <1>b, <1>c DEF Submit, SubmitDirect, NoFault, history, ClockTyped
<1>2. ASSUME NEW r \in Runs, Fire(r) \/ FireUnlocked(r) PROVE ClockTyped'
  BY <1>0, <1>2, <1>a, <1>d DEF Fire, FireUnlocked, history, ClockTyped
<1>3. ASSUME NEW r \in Runs, Count(r) \/ ClaimNothing(r) \/ Defer(r) \/ SendRefused(r)
                               \/ Mark(r) \/ Fail(r) \/ BatchFails(r)
      PROVE ClockTyped'
  BY <1>0, <1>3, <1>a DEF Count, ClaimNothing, Defer, SendRefused, Mark, Fail,
       BatchFails, NoFault, history, ClockTyped
<1>4. ASSUME NEW r \in Runs, Claim(r) PROVE ClockTyped'
  BY <1>0, <1>4 DEF Claim, NoFault, ClockTyped
<1>5. ASSUME NEW r \in Runs, SendAccepted(r) \/ SendTimeout(r) \/ MarkFails(r) \/ Crash(r)
      PROVE ClockTyped'
  BY <1>0, <1>5, <1>a, <1>b, <1>c, <1>f DEF SendAccepted, SendTimeout, MarkFails, Crash,
       At, Holding, NoFault, history, ClockTyped
<1>6. ASSUME NEW r \in Runs, Bump(r) \/ BumpFails(r) PROVE ClockTyped'
  <2>1. [counted EXCEPT ![Day(r)] = @ + 1] \in [today: Nat, before: Nat]
    BY <1>0 DEF ClockTyped, Day
  <2> QED  BY <1>0, <1>6, <1>a, <2>1 DEF Bump, BumpFails, NoFault, history, ClockTyped
<1>7. ASSUME NEW r \in Runs, Release(r) \/ ReleaseFails(r) PROVE ClockTyped'
  BY <1>0, <1>7, <1>a, <1>e DEF Release, ReleaseFails, NoFault, history, ClockTyped
<1> QED
  BY <1>1, <1>2, <1>3, <1>4, <1>5, <1>6, <1>7 DEF Progress, Disturb

LEMMA MailStep ==
  ASSUME Typed, \/ \E m \in Mails : Submit(m) \/ SubmitDirect(m)
                \/ \E r \in Runs : Progress(r) \/ Disturb(r)
  PROVE  MailTyped'
<1>0. ClockTyped /\ RunsTyped /\ MailTyped
  BY DEF Typed
<1>a. ASSUME NEW m \in Mails, NEW d \in MailRecord, mail' = [mail EXCEPT ![m] = d],
             d.status \in {"absent", "pending"} => d.attempts < MaxAttempts
      PROVE  MailTyped'
  BY <1>0, <1>a DEF MailTyped
<1>b. ASSUME UNCHANGED mail PROVE MailTyped'
  BY <1>0, <1>b DEF MailTyped
<1>c. ASSUME NEW m \in Mails, NEW s \in {"pending", "direct"}, mail[m].status = "absent",
             mail' = [mail EXCEPT ![m].status = s]
      PROVE  MailTyped'
  <2> DEFINE d == [mail[m] EXCEPT !.status = s]
  <2>1. d \in MailRecord /\ d.attempts = mail[m].attempts
    BY <1>0 DEF MailTyped, MailRecord
  <2>2. mail' = [mail EXCEPT ![m] = d]
    BY <1>c
  <2>3. mail[m].attempts < MaxAttempts
    BY <1>0, <1>c DEF MailTyped
  <2> HIDE DEF d
  <2> QED  BY <1>a, <2>1, <2>2, <2>3
<1>d. ASSUME NEW m \in Mails, NEW due \in Int, mail' = [mail EXCEPT ![m].due = due]
      PROVE  MailTyped'
  <2> DEFINE d == [mail[m] EXCEPT !.due = due]
  <2>1. /\ d \in MailRecord /\ d.attempts = mail[m].attempts /\ d.status = mail[m].status
    BY <1>0 DEF MailTyped, MailRecord
  <2>2. mail' = [mail EXCEPT ![m] = d]
    BY <1>d
  <2>3. mail[m].status \in {"absent", "pending"} => mail[m].attempts < MaxAttempts
    BY <1>0 DEF MailTyped
  <2> HIDE DEF d
  <2> QED  BY <1>a, <2>1, <2>2, <2>3
<1>e. ASSUME NEW m \in Mails, mail' = Sent(m) PROVE MailTyped'
  <2> DEFINE d == [mail[m] EXCEPT !.status = "sent", !.attempts = @ + 1]
  <2>1. mail[m] \in MailRecord /\ mail[m].attempts + 1 \in Nat
    BY <1>0 DEF MailTyped, MailRecord
  <2>3. d \in MailRecord /\ d.status = "sent"
    BY <2>1 DEF MailRecord
  <2>2. mail' = [mail EXCEPT ![m] = d]
    BY <1>e DEF Sent
  <2> HIDE DEF d
  <2> QED  BY <1>a, <2>2, <2>3
<1>f. ASSUME NEW r \in Runs
      PROVE  /\ run[r] \in RunRecord /\ run[r].age \in Nat
             /\ run[r].pc \in Holding => run[r].mail \in Mails
  BY <1>0 DEF RunsTyped, RunFits, RunRecord
<1>1. ASSUME NEW m \in Mails, Submit(m) \/ SubmitDirect(m) PROVE MailTyped'
  BY <1>1, <1>c DEF Submit, SubmitDirect
<1>2. ASSUME NEW r \in Runs, Claim(r) PROVE MailTyped'
  <2>1. Lease - run[r].age \in Int
    BY <1>f, Bounds
  <2> QED  BY <1>2, <1>d, <2>1 DEF Claim, Leased
<1>3. ASSUME NEW r \in Runs, Defer(r) PROVE MailTyped'
  <2>1. midnight \in Int /\ DayLength \in Int /\ Margin \in Int
    BY <1>0, Bounds DEF ClockTyped
  <2>2. NextDay(r) \in Int
    BY <2>1 DEF NextDay
  <2> QED  BY <1>3, <1>d, <1>f, <2>2 DEF Defer, Deferred, At, Holding
<1>4. ASSUME NEW r \in Runs, Mark(r) \/ MarkFails(r) PROVE MailTyped'
  BY <1>4, <1>b, <1>e, <1>f DEF Mark, MarkFails, At, Holding
<1>5. ASSUME NEW r \in Runs, Fail(r) PROVE MailTyped'
  <2> DEFINE m == run[r].mail
             attempts == run[r].seen + 1
             d == IF attempts >= MaxAttempts
                  THEN [mail[m] EXCEPT !.status = "failed", !.attempts = attempts]
                  ELSE [mail[m] EXCEPT !.attempts = attempts,
                                       !.due = Backoff[attempts] - run[r].age]
  <2>1. m \in Mails
    BY <1>5, <1>f DEF Fail, At, Holding
  <2>2. attempts \in 1..MaxAttempts /\ MaxAttempts \in Nat
    BY <1>f, Bounds DEF RunRecord
  <2>3. Backoff[attempts] - run[r].age \in Int
    BY <1>f, <2>2, MailAssumption
  <2>4. mail[m] \in MailRecord
    BY <1>0, <2>1 DEF MailTyped
  <2> HIDE DEF m, attempts
  <2>5. d \in MailRecord /\ (d.status \in {"absent", "pending"} => d.attempts < MaxAttempts)
    <3> DEFINE due == Backoff[attempts] - run[r].age
               f == [mail[m] EXCEPT !.status = "failed", !.attempts = attempts]
               g == [mail[m] EXCEPT !.attempts = attempts, !.due = due]
    <3>1. attempts \in Nat
      BY <2>2
    <3>2. f \in MailRecord /\ f.status = "failed"
      BY <2>4, <3>1 DEF MailRecord
    <3> HIDE DEF f
    <3>3. due \in Int
      BY <2>3
    <3> HIDE DEF due
    <3>4. g \in MailRecord /\ g.attempts = attempts
      BY <2>4, <3>1, <3>3 DEF MailRecord
    <3> HIDE DEF g
    <3>5. CASE attempts >= MaxAttempts
      <4>1. d = f
        BY <3>5 DEF f
      <4> QED  BY <3>2, <4>1
    <3>6. CASE ~(attempts >= MaxAttempts)
      <4>1. d = g
        BY <3>6 DEF g, due
      <4> QED  BY <2>2, <3>4, <3>6, <4>1
    <3> QED  BY <3>5, <3>6
  <2>6. mail' = [mail EXCEPT ![m] = d]
    BY <1>5 DEF Fail, Failed, m, attempts
  <2> HIDE DEF d
  <2> QED  BY <1>a, <2>1, <2>5, <2>6
<1>6. ASSUME NEW r \in Runs, ~Claim(r), ~Defer(r), ~Mark(r), ~MarkFails(r), ~Fail(r),
             Progress(r) \/ Disturb(r)
      PROVE  MailTyped'
  <2>1. UNCHANGED mail
    BY <1>6 DEF Progress, Disturb, Fire, Count, ClaimNothing, SendAccepted, SendRefused,
         Bump, Release, FireUnlocked, SendTimeout, BumpFails, BatchFails, ReleaseFails, Crash
  <2> QED  BY <1>b, <2>1
<1> QED
  BY <1>1, <1>2, <1>3, <1>4, <1>5, <1>6

LEMMA TickTyped == Typed /\ Tick => Typed'
<1> SUFFICES ASSUME Typed, Tick PROVE Typed'
  OBVIOUS
<1>0. ClockTyped /\ RunsTyped /\ MailTyped
  BY DEF Typed
<1>1. RunsTyped'
  <2>1. ASSUME NEW r \in Runs PROVE run'[r] \in RunRecord /\ RunFits(run'[r])
    <3>0. run[r] \in RunRecord /\ RunFits(run[r])
      BY <1>0 DEF RunsTyped
    <3>1. CASE ~Active(r)
      BY <3>0, <3>1 DEF Tick
    <3>2. CASE Active(r)
      <4> DEFINE q == [run[r] EXCEPT !.age = @ + 1, !.sending = @ + 1,
                                     !.today = StillToday(r)]
      <4>1. run'[r] = q
        BY <3>2 DEF Tick
      <4>2. run[r].pc = "send" /\ run[r].sending < AttemptMax
        BY <3>2 DEF Tick, At
      <4>3. StillToday(r) \in BOOLEAN
        BY <3>0 DEF StillToday, RunRecord
      <4>4. run[r].sending + 1 \in 0..AttemptMax /\ run[r].age + 1 \in Nat
        BY <3>0, <4>2, Bounds DEF RunRecord
      <4>5. q \in RunRecord /\ q.pc = "send" /\ q.mail = run[r].mail /\ q.tried = run[r].tried
            /\ q.age = run[r].age + 1 /\ q.sending = run[r].sending + 1
        BY <3>0, <4>2, <4>3, <4>4 DEF RunRecord
      <4>6. /\ run[r].mail \in Mails
            /\ run[r].age + (AttemptMax - run[r].sending) <= run[r].tried * AttemptMax
        BY <3>0, <4>2 DEF RunFits, Holding
      <4>7. /\ run[r].age \in Nat /\ run[r].sending \in Nat /\ AttemptMax \in Nat
            /\ run[r].tried * AttemptMax \in Nat
        BY <3>0, Bounds DEF RunRecord
      <4>8. RunFits(q)
        BY <4>2, <4>5, <4>6, <4>7 DEF RunFits, Holding
      <4> QED  BY <4>1, <4>5, <4>8
    <3> QED  BY <3>1, <3>2
  <2>2. run' = [r \in Runs |-> run'[r]]
    BY DEF Tick
  <2> QED  BY <2>1, <2>2 DEF RunsTyped, RunFits, RunRecord, Idle
<1>2. MailTyped'
  <2>1. ASSUME NEW m \in Mails
        PROVE  /\ Older(mail[m]) \in MailRecord
               /\ Older(mail[m]).status = mail[m].status
               /\ Older(mail[m]).attempts = mail[m].attempts
    <3>1. mail[m] \in MailRecord
      BY <1>0 DEF MailTyped
    <3>2. (CASE mail[m].status # "pending" -> 0
             [] mail[m].due > -MaxAge -> mail[m].due - 1
             [] OTHER -> mail[m].due) \in Int
      BY <3>1 DEF MailRecord
    <3> QED  BY <3>1, <3>2 DEF Older, MailRecord
  <2>2. mail' = [m \in Mails |-> Older(mail[m])]
    BY DEF Tick
  <2> QED  BY <1>0, <2>1, <2>2 DEF MailTyped
<1>3. ClockTyped'
  <2>1. Expiring(lock) \in [owner: Runs \cup {NoRun}, ttl: 0..LockTtl]
    BY <1>0, Bounds DEF ClockTyped, Expiring, NoLock
  <2>2. CASE midnight = 1
    <3>1. midnight' = DayLength /\ taken' = 0
          /\ counted' = [today |-> 0, before |-> counted.today]
          /\ drift' = (drift \/ \E r \in Runs : Active(r))
      BY <2>2 DEF Tick
    <3>2. midnight' \in 1..DayLength /\ taken' \in Nat /\ drift' \in BOOLEAN
      BY <1>0, <3>1, Bounds DEF ClockTyped
    <3>3. counted' \in [today: Nat, before: Nat]
      BY <1>0, <3>1 DEF ClockTyped
    <3> QED  BY <1>0, <2>1, <3>2, <3>3 DEF ClockTyped, Tick
  <2>3. CASE midnight # 1
    <3>1. midnight' = midnight - 1 /\ UNCHANGED <<counted, taken, drift>>
      BY <2>3 DEF Tick
    <3>2. midnight' \in 1..DayLength
      BY <1>0, <2>3, <3>1, Bounds DEF ClockTyped
    <3> QED  BY <1>0, <2>1, <3>1, <3>2 DEF ClockTyped, Tick
  <2> QED  BY <2>2, <2>3
<1> QED
  BY <1>1, <1>2, <1>3 DEF Typed

LEMMA TypedInit == Init => Typed
<1> SUFFICES ASSUME Init PROVE Typed
  OBVIOUS
<1>1. RunsTyped
  BY IdleFits DEF Init, RunsTyped
<1>2. MailTyped
  BY Bounds DEF Init, MailTyped, MailRecord
<1>3. ClockTyped
  <2>1. DayLength \in 1..DayLength /\ 0 \in 0..LockTtl /\ 0 \in 0..MaxFaults
    BY Bounds
  <2>2. NoLock \in [owner: Runs \cup {NoRun}, ttl: 0..LockTtl]
    BY <2>1 DEF NoLock
  <2>3. counted \in [today: Nat, before: Nat]
    BY DEF Init
  <2>4. accepted \in [Mails -> Nat] /\ lost \in [Mails -> Nat]
    BY DEF Init
  <2> QED  BY <2>1, <2>2, <2>3, <2>4 DEF Init, ClockTyped
<1> QED  BY <1>1, <1>2, <1>3 DEF Typed

LEMMA TypedNext == Typed /\ [Next]_vars => Typed'
<1> SUFFICES ASSUME Typed, [Next]_vars PROVE Typed'
  OBVIOUS
<1>1. CASE UNCHANGED vars
  BY <1>1 DEF vars, Typed, RunsTyped, MailTyped, ClockTyped
<1>2. CASE Tick
  BY <1>2, TickTyped
<1>3. ASSUME NEW m \in Mails, Submit(m) \/ SubmitDirect(m) PROVE Typed'
  <2>1. UNCHANGED run
    BY <1>3 DEF Submit, SubmitDirect
  <2>2. RunsTyped'
    BY <2>1 DEF Typed, RunsTyped
  <2> QED  BY <1>3, <2>2, ClockStep, MailStep DEF Typed
<1>4. ASSUME NEW r \in Runs, Progress(r) \/ Disturb(r) PROVE Typed'
  BY <1>4, RunsStep, ClockStep, MailStep DEF Typed
<1> QED
  BY <1>1, <1>2, <1>3, <1>4 DEF Next

LEMMA AlwaysTyped == Spec => []Typed
BY TypedInit, TypedNext, PTL DEF Spec

(* Every variable keeps its type: the retries stay below their bound, and  *)
(* no run of the cron takes longer than MaxAge.                            *)
THEOREM MailTypes == Spec => []TypeOK
<1>1. Typed => TypeOK
  <2> SUFFICES ASSUME Typed PROVE TypeOK
    OBVIOUS
  <2>1. ASSUME NEW r \in Runs PROVE run[r].age \in 0..MaxAge
    <3>1. /\ run[r].age \in Nat /\ run[r].tried \in 0..BatchSize
          /\ run[r].age <= run[r].tried * AttemptMax
      BY DEF Typed, RunsTyped, RunRecord, RunFits
    <3>2. run[r].tried * AttemptMax <= BatchSize * AttemptMax
          /\ run[r].tried * AttemptMax \in Nat /\ BatchSize * AttemptMax \in Nat
      <4>1. BatchSize \in Nat /\ AttemptMax \in Nat
        BY Bounds
      <4> DEFINE k == BatchSize - run[r].tried
      <4>2. k \in Nat /\ BatchSize = run[r].tried + k
        BY <3>1, <4>1
      <4> HIDE DEF k
      <4>3. BatchSize * AttemptMax = run[r].tried * AttemptMax + k * AttemptMax
        BY <3>1, <4>1, <4>2
      <4>4. k * AttemptMax \in Nat /\ run[r].tried * AttemptMax \in Nat
        BY <3>1, <4>1, <4>2
      <4> QED  BY <4>3, <4>4
    <3> QED  BY <3>1, <3>2 DEF MaxAge
  <2>2. run \in [Runs -> [pc: Places, locked: BOOLEAN, mail: Mails \cup {NoMail},
                       seen: 0..MaxAttempts - 1, age: 0..MaxAge,
                       tried: 0..BatchSize, sent: Nat, today: BOOLEAN,
                       sending: 0..AttemptMax]]
    BY <2>1 DEF Typed, RunsTyped, RunRecord
  <2> QED  BY <2>2 DEF Typed, MailTyped, MailRecord, ClockTyped, TypeOK
<1> QED  BY <1>1, AlwaysTyped, PTL

-----------------------------------------------------------------------------
(***************************************************************************)
(* Leases.  A mail that a run holds is pending, no other run holds it, and *)
(* it comes due only after the attempt must have ended - unless a lease    *)
(* was too short.                                                          *)
(***************************************************************************)
Secured(r, m) ==
  /\ mail[m].status = "pending" /\ mail[m].due > AttemptMax - run[r].sending
  /\ \A q \in Runs : Holds(q, m) => q = r

Leases == ~late => \A r \in Runs, m \in Mails : Holds(r, m) => Secured(r, m)

-----------------------------------------------------------------------------
(* The runs other than r stay where they are. *)
Alone(r) == \A q \in Runs \ {r} : run'[q] = run[q]

LEMMA OthersStay ==
  ASSUME RunsTyped, NEW r \in Runs, Progress(r) \/ Disturb(r)
  PROVE  Alone(r)
<1>1. run \in [Runs -> RunRecord]
  BY DEF RunsTyped
<1>2. (\E q : run' = [run EXCEPT ![r] = q]) => Alone(r)
  BY <1>1 DEF Alone
<1>3. run' = run => Alone(r)
  BY DEF Alone
<1>4. \A pc : GoTo(r, pc) => Alone(r)
  BY <1>1 DEF GoTo, Alone
<1>5. \A sent : NextRound(r, sent) => Alone(r)
  BY <1>1 DEF NextRound, Alone
<1>6. \A locked : Begin(r, locked) => Alone(r)
  BY <1>1 DEF Begin, Alone
<1>7. Count(r) => Alone(r)
  BY <1>1 DEF Count, Alone
<1>8. Claim(r) => Alone(r)
  BY <1>1 DEF Claim, Alone
<1>9. Release(r) \/ ReleaseFails(r) \/ Crash(r) => Alone(r)
  BY <1>2 DEF Release, ReleaseFails, Crash
<1>10. \/ ClaimNothing(r) \/ Defer(r) \/ SendAccepted(r) \/ SendRefused(r) \/ Mark(r)
       \/ Bump(r) \/ Fail(r) \/ SendTimeout(r) \/ MarkFails(r) \/ BumpFails(r) \/ BatchFails(r)
       => Alone(r)
  BY <1>4, <1>5 DEF ClaimNothing, Defer, SendAccepted, SendRefused, Mark, Bump, Fail,
       SendTimeout, MarkFails, BumpFails, BatchFails, Abort
<1>11. Fire(r) \/ FireUnlocked(r) => Alone(r)
  BY <1>3, <1>6 DEF Fire, FireUnlocked
<1> QED
  BY <1>7, <1>8, <1>9, <1>10, <1>11 DEF Progress, Disturb

(* Where the step of r leaves it. *)
LEMMA GoToLeaves ==
  ASSUME RunsTyped, NEW r \in Runs, NEW pc, GoTo(r, pc)
  PROVE  /\ run'[r].pc = pc /\ run'[r].mail = run[r].mail
         /\ run'[r].sending = run[r].sending /\ run'[r].sent = run[r].sent
         /\ run'[r].today = run[r].today
BY DEF RunsTyped, RunRecord, GoTo

LEMMA RoundLeaves ==
  ASSUME RunsTyped, NEW r \in Runs, NEW sent, NextRound(r, sent)
  PROVE  /\ run'[r].pc \in {"claim", "release"} /\ run'[r].sent = sent
         /\ run'[r].mail = NoMail /\ run'[r].today = run[r].today
BY DEF RunsTyped, RunRecord, NextRound

LEMMA EndLeaves ==
  ASSUME RunsTyped, NEW r \in Runs, run' = [run EXCEPT ![r] = Idle]
  PROVE  run'[r] = Idle
BY DEF RunsTyped

(* A mail is let go: what its holder writes to it is the last. *)
LetGo(r) ==
  /\ run[r].pc \in Holding /\ run'[r].pc \notin Holding
  /\ \A m \in Mails \ {run[r].mail} : mail'[m] = mail[m]

LEMMA LetGoSteps ==
  ASSUME Typed, NEW r \in Runs, Defer(r) \/ Mark(r) \/ MarkFails(r) \/ Fail(r)
  PROVE  LetGo(r) /\ late' = late
<1>1. RunsTyped /\ mail \in [Mails -> MailRecord]
  BY DEF Typed, MailTyped
<1>2. \A sent : NextRound(r, sent) => run'[r].pc \notin Holding
  BY <1>1, RoundLeaves DEF Holding
<1>3. GoTo(r, "bump") => run'[r].pc \notin Holding
  BY <1>1, GoToLeaves DEF Holding
<1>4. run[r].pc \in Holding /\ run'[r].pc \notin Holding /\ late' = late
  BY <1>2, <1>3 DEF Defer, Mark, MarkFails, Fail, At, Holding, history
<1>5. mail' \in {Deferred(r), Sent(run[r].mail), mail, Failed(r)}
  BY DEF Defer, Mark, MarkFails, Fail
<1>6. \A m \in Mails \ {run[r].mail} : mail'[m] = mail[m]
  BY <1>1, <1>5 DEF Deferred, Sent, Failed
<1> QED
  BY <1>4, <1>6 DEF LetGo

LEMMA LetGoLeases ==
  ASSUME Leases, NEW r \in Runs, LetGo(r), Alone(r), late' = late, run[r].mail \in Mails
  PROVE  Leases'
<1> SUFFICES ASSUME ~late', NEW q \in Runs, NEW m \in Mails, Holds(q, m)'
             PROVE  Secured(q, m)'
  BY DEF Leases
<1>0. /\ run[r].pc \in Holding /\ run'[r].pc \notin Holding
      /\ \A n \in Mails \ {run[r].mail} : mail'[n] = mail[n]
  BY DEF LetGo
<1>a. /\ Holds(q, m)' <=> run'[q].pc \in Holding /\ run'[q].mail = m
      /\ \A p \in Runs : Holds(p, m)' <=> run'[p].pc \in Holding /\ run'[p].mail = m
  BY DEF Holds, Holding
<1>1. q # r /\ run'[q] = run[q] /\ Holds(q, m)
  BY <1>0, <1>a DEF Alone, Holds
<1>2. Secured(q, m)
  BY <1>1 DEF Leases
<1>3. m # run[r].mail
  BY <1>0, <1>1, <1>2 DEF Secured, Holds
<1>4. mail'[m] = mail[m]
  BY <1>0, <1>3
<1>5. \A p \in Runs : Holds(p, m)' => p = q
  BY <1>0, <1>2, <1>a DEF Secured, Alone, Holds
<1> QED
  BY <1>1, <1>2, <1>4, <1>5 DEF Secured

(* A step that makes no run a holder and leaves the mails held alone. *)
LEMMA SameLeases ==
  ASSUME Leases, NEW r \in Runs, Alone(r), late' = late,
         run'[r].pc \in Holding => run[r].pc \in Holding /\ run'[r].mail = run[r].mail
                                   /\ run'[r].sending = run[r].sending,
         \A m \in Mails : mail[m].status = "pending" => mail'[m] = mail[m]
  PROVE  Leases'
<1> SUFFICES ASSUME ~late', NEW q \in Runs, NEW m \in Mails, Holds(q, m)'
             PROVE  Secured(q, m)'
  BY DEF Leases
<1>a. \A p \in Runs : Holds(p, m)' <=> run'[p].pc \in Holding /\ run'[p].mail = m
  BY DEF Holds, Holding
<1>1. \A p \in Runs : Holds(p, m)' => Holds(p, m) /\ run'[p].sending = run[p].sending
  <2> TAKE p \in Runs
  <2>1. CASE p = r
    BY <1>a, <2>1 DEF Holds
  <2>2. CASE p # r
    BY <1>a, <2>2 DEF Holds, Alone
  <2> QED  BY <2>1, <2>2
<1>2. Secured(q, m)
  BY <1>1 DEF Leases
<1>3. mail'[m] = mail[m]
  BY <1>2 DEF Secured
<1> QED
  BY <1>1, <1>2, <1>3 DEF Secured

(* The claim: the lease outlasts the attempt, and nobody else holds the    *)
(* mail, because the mails that are held are not due.                      *)
LEMMA ClaimLeases ==
  ASSUME Typed, Leases, NEW r \in Runs, Claim(r)
  PROVE  Leases'
<1> SUFFICES ASSUME ~late', NEW q \in Runs, NEW m \in Mails, Holds(q, m)'
             PROVE  Secured(q, m)'
  BY DEF Leases
<1>0. /\ run \in [Runs -> RunRecord] /\ mail \in [Mails -> MailRecord]
      /\ RunFits(run[r]) /\ run[r] \in RunRecord
  BY DEF Typed, RunsTyped, MailTyped
<1>1. PICK n \in Mails :
        /\ Claimable(r, n) /\ mail' = Leased(r, n)
        /\ run' = [run EXCEPT ![r].mail = n, ![r].seen = mail[n].attempts,
                     ![r].tried = @ + 1,
                     ![r].pc = IF CapReached(r) /\ n \notin HighPriority
                               THEN "defer" ELSE "send"]
  BY DEF Claim
<1>2. /\ ~late /\ ~(run[r].age + AttemptMax >= Lease)
      /\ run[r].pc = "claim" /\ run[r].sending = 0
  BY <1>0 DEF Claim, At, RunFits
<1>3. run[r].age \in Nat /\ AttemptMax \in Nat /\ Lease \in Nat
  BY <1>0, Bounds DEF RunRecord
<1>4. /\ run'[r].mail = n /\ run'[r].sending = 0
      /\ \A p \in Runs \ {r} : run'[p] = run[p]
  BY <1>0, <1>1, <1>2 DEF RunRecord
<1>5. /\ mail'[n].status = "pending" /\ mail'[n].due = Lease - run[r].age
      /\ \A k \in Mails \ {n} : mail'[k] = mail[k]
  BY <1>0, <1>1 DEF Leased, Claimable, MailRecord
<1>6. mail'[n].due > AttemptMax - run'[r].sending
  BY <1>2, <1>3, <1>4, <1>5
<1>7. \A p \in Runs : ~Holds(p, n)
  <2> SUFFICES ASSUME NEW p \in Runs, Holds(p, n) PROVE FALSE
    OBVIOUS
  <2>1. mail[n].due > AttemptMax - run[p].sending
    BY <1>2 DEF Leases, Secured
  <2>2. /\ run[p].sending \in 0..AttemptMax /\ mail[n].due \in Int
        /\ mail[n].due + run[r].age <= 0
    BY <1>0, <1>1 DEF RunRecord, MailRecord, Claimable
  <2> QED
    BY <1>3, <2>1, <2>2
<1>a. \A p \in Runs : Holds(p, m)' <=> run'[p].pc \in Holding /\ run'[p].mail = m
  BY DEF Holds, Holding
<1>8. CASE m = n
  <2>1. \A p \in Runs : Holds(p, m)' => p = r
    BY <1>4, <1>7, <1>8, <1>a DEF Holds
  <2> QED
    BY <1>5, <1>6, <1>8, <2>1 DEF Secured
<1>9. CASE m # n
  <2>1. \A p \in Runs : Holds(p, m)' => p # r /\ run'[p] = run[p] /\ Holds(p, m)
    BY <1>4, <1>9, <1>a DEF Holds
  <2>2. Secured(q, m)
    BY <1>2, <2>1 DEF Leases
  <2> QED
    BY <1>5, <1>9, <2>1, <2>2 DEF Secured
<1> QED
  BY <1>8, <1>9

LEMMA TickLeases ==
  ASSUME Typed, Leases, Tick
  PROVE  Leases'
<1> SUFFICES ASSUME ~late', NEW q \in Runs, NEW m \in Mails, Holds(q, m)'
             PROVE  Secured(q, m)'
  BY DEF Leases
<1>0. /\ run \in [Runs -> RunRecord] /\ mail \in [Mails -> MailRecord]
      /\ AttemptMax \in Nat /\ MaxAge \in Nat /\ ~late
  BY Bounds DEF Typed, RunsTyped, MailTyped, Tick
<1>1. \A p \in Runs : /\ run'[p].pc = run[p].pc /\ run'[p].mail = run[p].mail
                      /\ Active(p) => /\ run'[p].sending = run[p].sending + 1
                                      /\ run[p].sending < AttemptMax
  BY <1>0 DEF Tick, RunRecord
<1>a. \A p \in Runs : Holds(p, m)' <=> run'[p].pc \in Holding /\ run'[p].mail = m
  BY DEF Holds, Holding
<1>2. \A p \in Runs : Holds(p, m)' <=> Holds(p, m)
  BY <1>1, <1>a DEF Holds
<1>3. Secured(q, m)
  BY <1>0, <1>2 DEF Leases
<1>4. Active(q)
  BY <1>2 DEF Holds, Holding, Active
<1>5. mail'[m] = Older(mail[m])
  BY DEF Tick
<1>6. /\ mail[m].due \in Int /\ run[q].sending \in Nat /\ run[q].sending < AttemptMax
      /\ mail[m].due > AttemptMax - run[q].sending
  BY <1>0, <1>1, <1>3, <1>4 DEF RunRecord, MailRecord, Secured
<1>7. mail[m].due > -MaxAge
  BY <1>0, <1>6
<1>8. mail'[m].status = "pending" /\ mail'[m].due = mail[m].due - 1
  BY <1>0, <1>3, <1>5, <1>7 DEF Older, MailRecord, Secured
<1>9. mail'[m].due > AttemptMax - run'[q].sending
  <2>1. run'[q].sending = run[q].sending + 1
    BY <1>1, <1>4
  <2> QED  BY <1>0, <1>6, <1>8, <2>1
<1> QED
  BY <1>2, <1>3, <1>8, <1>9 DEF Secured

LEMMA LeasesInit == Init => Leases
BY DEF Init, Leases, Holds, Holding, Idle

LEMMA LeasesNext == Typed /\ Leases /\ [Next]_vars => Leases'
<1> SUFFICES ASSUME Typed, Leases, [Next]_vars PROVE Leases'
  OBVIOUS
<1>0. RunsTyped
  BY DEF Typed
<1>1. CASE UNCHANGED vars
  BY <1>1 DEF vars, Leases, Secured, Holds, Holding
<1>2. CASE Tick
  BY <1>2, TickLeases
<1>3. ASSUME NEW m \in Mails, Submit(m) \/ SubmitDirect(m) PROVE Leases'
  <2>1. UNCHANGED <<run, late>>
    BY <1>3 DEF Submit, SubmitDirect, history
  <2>2. mail[m].status = "absent" /\ \A n \in Mails \ {m} : mail'[n] = mail[n]
    BY <1>3 DEF Submit, SubmitDirect, Typed, MailTyped
  <2>3. \A n \in Mails : mail[n].status = "pending" => mail'[n] = mail[n]
    BY <2>2
  <2> QED
    BY <2>1, <2>3 DEF Leases, Secured, Holds, Holding
<1>4. ASSUME NEW r \in Runs, Progress(r) \/ Disturb(r) PROVE Leases'
  <2>0. Alone(r)
    BY <1>0, <1>4, OthersStay
  <2>1. CASE Claim(r)
    BY <2>1, ClaimLeases
  <2>2. CASE Defer(r) \/ Mark(r) \/ MarkFails(r) \/ Fail(r)
    <3>1. run[r].mail \in Mails
      BY <1>0, <2>2 DEF RunsTyped, RunFits, Defer, Mark, MarkFails, Fail, At, Holding
    <3> QED  BY <2>0, <2>2, <3>1, LetGoSteps, LetGoLeases
  <2>3. CASE SendAccepted(r) \/ SendRefused(r) \/ SendTimeout(r) \/ ClaimNothing(r)
             \/ BatchFails(r)
    <3>1. \E pc : GoTo(r, pc) /\ (pc = "release" \/ run[r].pc = "send")
      BY <2>3 DEF SendAccepted, SendRefused, SendTimeout, ClaimNothing, BatchFails, Abort, At
    <3>2. UNCHANGED <<mail, late>>
      BY <2>3 DEF SendAccepted, SendRefused, SendTimeout, ClaimNothing, BatchFails, history
    <3> QED  BY <1>0, <2>0, <3>1, <3>2, GoToLeaves, SameLeases DEF Holding
  <2>4. CASE Bump(r) \/ BumpFails(r)
    <3>1. \E sent : NextRound(r, sent)
      BY <2>4 DEF Bump, BumpFails
    <3>2. UNCHANGED <<mail, late>>
      BY <2>4 DEF Bump, BumpFails, history
    <3> QED  BY <1>0, <2>0, <3>1, <3>2, RoundLeaves, SameLeases DEF Holding
  <2>5. CASE Release(r) \/ ReleaseFails(r) \/ Crash(r)
    <3>1. run'[r] = Idle
      BY <1>0, <2>5, EndLeaves DEF Release, ReleaseFails, Crash
    <3>2. UNCHANGED <<mail, late>>
      BY <2>5 DEF Release, ReleaseFails, Crash, history
    <3> QED  BY <2>0, <3>1, <3>2, SameLeases DEF Holding, Idle
  <2>6. CASE Fire(r) \/ FireUnlocked(r) \/ Count(r)
    <3>1. run'[r].pc \in {"count", "claim", "idle"}
      BY <1>0, <2>6 DEF Fire, FireUnlocked, Count, Begin, RunsTyped, RunRecord, Active
    <3>2. UNCHANGED <<mail, late>>
      BY <2>6 DEF Fire, FireUnlocked, Count, history
    <3> QED  BY <2>0, <3>1, <3>2, SameLeases DEF Holding
  <2> QED
    BY <1>4, <2>1, <2>2, <2>3, <2>4, <2>5, <2>6 DEF Progress, Disturb
<1> QED
  BY <1>1, <1>2, <1>3, <1>4 DEF Next

-----------------------------------------------------------------------------
(***************************************************************************)
(* Noted.  While a mail may still be claimed, and no run is about to note  *)
(* that it was taken, every time it was taken is one that was lost.        *)
(***************************************************************************)
Marking(r, m) == At(r, "mark") /\ run[r].mail = m

Unsent(m) == mail[m].status \in {"absent", "pending"}

NotedOf(m) ==
  /\ accepted[m] <= 1 + lost[m]
  /\ Unsent(m) /\ (\A r \in Runs : ~Marking(r, m)) => accepted[m] <= lost[m]

Noted == ~late => \A m \in Mails : NotedOf(m)

-----------------------------------------------------------------------------
(* A step that neither sends a mail nor leaves it unsent and unmarked. *)
LEMMA SameNoted ==
  ASSUME NEW m \in Mails, NotedOf(m), accepted'[m] = accepted[m], lost'[m] = lost[m],
         Unsent(m)' => Unsent(m) /\ \A r \in Runs : Marking(r, m) => Marking(r, m)'
  PROVE  NotedOf(m)'
<1>1. NotedOf(m)' <=>
        /\ accepted'[m] <= 1 + lost'[m]
        /\ Unsent(m)' /\ (\A r \in Runs : ~Marking(r, m)') => accepted'[m] <= lost'[m]
  BY DEF NotedOf, Unsent, Marking, At
<1> QED
  BY <1>1 DEF NotedOf

LEMMA RunNoted ==
  ASSUME Typed, Leases, Noted, ~late, NEW r \in Runs, Progress(r) \/ Disturb(r),
         NEW m \in Mails
  PROVE  NotedOf(m)'
<1>0. /\ RunsTyped /\ run \in [Runs -> RunRecord] /\ mail \in [Mails -> MailRecord]
      /\ accepted \in [Mails -> Nat] /\ lost \in [Mails -> Nat] /\ NotedOf(m)
  BY DEF Typed, RunsTyped, MailTyped, ClockTyped, Noted
<1>1. \A q \in Runs : q # r => run'[q] = run[q]
  BY <1>0, OthersStay DEF Alone
<1>a. \A q \in Runs : Marking(q, m)' <=> run'[q].pc = "mark" /\ run'[q].mail = m
  BY DEF Marking, At
<1>b. Unsent(m)' <=> mail'[m].status \in {"absent", "pending"}
  BY DEF Unsent
<1>n. NotedOf(m)' <=>
        /\ accepted'[m] <= 1 + lost'[m]
        /\ Unsent(m)' /\ (\A q \in Runs : ~Marking(q, m)') => accepted'[m] <= lost'[m]
  BY DEF NotedOf, Unsent, Marking, At
<1>c. /\ accepted[m] \in Nat /\ lost[m] \in Nat
  BY <1>0
<1>d. ASSUME run[r].pc # "mark" \/ run[r].mail # m, mail'[m].status = mail[m].status
                  \/ ~Unsent(m)',
             UNCHANGED <<accepted, lost>>
      PROVE NotedOf(m)'
  <2>1. \A q \in Runs : Marking(q, m) => Marking(q, m)'
    BY <1>1, <1>a, <1>d DEF Marking, At
  <2>2. Unsent(m)' => Unsent(m)
    BY <1>b, <1>d DEF Unsent
  <2> QED
    BY <1>0, <1>d, <2>1, <2>2, SameNoted
<1>2. CASE Defer(r) \/ Fail(r)
  <2>1. Secured(r, run[r].mail) /\ run[r].mail \in Mails
    BY <1>0, <1>2 DEF Leases, Holds, Holding, Defer, Fail, At, RunsTyped, RunFits
  <2>2. /\ mail' \in {Deferred(r), Failed(r)} /\ UNCHANGED <<accepted, lost>>
        /\ run[r].pc # "mark"
    BY <1>2 DEF Defer, Fail, At, history
  <2>3. mail'[m].status = mail[m].status \/ mail'[m].status = "failed"
    <3>1. mail[m] \in MailRecord
      BY <1>0
    <3>2. CASE mail' = Deferred(r)
      BY <1>0, <3>1, <3>2 DEF Deferred, MailRecord
    <3>3. CASE mail' = Failed(r)
      BY <1>0, <2>1, <3>1, <3>3 DEF Failed, MailRecord
    <3> QED  BY <2>2, <3>2, <3>3
  <2> QED
    BY <1>b, <1>d, <2>2, <2>3
<1>3. CASE Mark(r)
  <2>1. run[r].mail \in Mails /\ run[r].pc = "mark" /\ mail' = Sent(run[r].mail)
        /\ UNCHANGED <<accepted, lost>>
    BY <1>0, <1>3 DEF Mark, At, Holding, RunsTyped, RunFits, history
  <2>2. CASE run[r].mail = m
    BY <1>0, <1>b, <1>c, <1>n, <2>1, <2>2 DEF Sent, MailRecord, NotedOf
  <2>3. CASE run[r].mail # m
    <3>1. mail'[m] = mail[m]
      BY <1>0, <2>1, <2>3 DEF Sent
    <3> QED  BY <1>d, <2>1, <2>3, <3>1
  <2> QED  BY <2>2, <2>3
<1>4. CASE MarkFails(r)
  <2>1. run[r].mail \in Mails /\ run[r].pc = "mark" /\ UNCHANGED accepted
    BY <1>0, <1>4 DEF MarkFails, At, Holding, RunsTyped, RunFits
  <2>2. CASE mail' = Sent(run[r].mail) /\ UNCHANGED lost
    <3>1. CASE run[r].mail = m
      BY <1>0, <1>b, <1>c, <1>n, <2>1, <2>2, <3>1 DEF Sent, MailRecord, NotedOf
    <3>2. CASE run[r].mail # m
      <4>1. mail'[m] = mail[m]
        BY <1>0, <2>2, <3>2 DEF Sent
      <4> QED  BY <1>d, <2>1, <2>2, <3>2, <4>1
    <3> QED  BY <3>1, <3>2
  <2>3. CASE UNCHANGED mail /\ lost' = [lost EXCEPT ![run[r].mail] = @ + 1]
    <3>1. CASE run[r].mail = m
      <4>1. lost'[m] = lost[m] + 1 /\ accepted'[m] = accepted[m]
        BY <1>0, <2>1, <2>3, <3>1
      <4> QED  BY <1>0, <1>c, <1>n, <4>1 DEF NotedOf
    <3>2. CASE run[r].mail # m
      <4>1. lost'[m] = lost[m] /\ accepted'[m] = accepted[m]
        BY <1>0, <2>1, <2>3, <3>2
      <4>2. \A q \in Runs : Marking(q, m) => Marking(q, m)'
        BY <1>1, <1>a, <3>2 DEF Marking, At
      <4> QED  BY <1>0, <2>3, <4>1, <4>2, SameNoted DEF Unsent
    <3> QED  BY <3>1, <3>2
  <2> QED  BY <1>4, <2>2, <2>3 DEF MarkFails
<1>5. CASE SendAccepted(r) \/ SendTimeout(r)
  <2>1. /\ run[r].mail \in Mails /\ run[r].pc = "send" /\ UNCHANGED mail
        /\ accepted' = [accepted EXCEPT ![run[r].mail] = @ + 1]
    BY <1>0, <1>5 DEF SendAccepted, SendTimeout, Accept, At, Holding, RunsTyped, RunFits
  <2>2. CASE run[r].mail = m
    <3>1. Secured(r, m)
      BY <2>1, <2>2 DEF Leases, Holds, Holding
    <3>2. Unsent(m) /\ \A q \in Runs : ~Marking(q, m)
      BY <2>1, <3>1 DEF Secured, Unsent, Marking, Holds, Holding, At
    <3>3. accepted[m] <= lost[m] /\ accepted'[m] = accepted[m] + 1
      BY <1>0, <2>1, <2>2, <3>2 DEF NotedOf
    <3>4. CASE SendAccepted(r)
      <4>1. run'[r].pc = "mark" /\ run'[r].mail = m
        BY <1>0, <2>2, <3>4, GoToLeaves DEF SendAccepted
      <4> QED  BY <1>a, <1>c, <1>n, <3>3, <3>4, <4>1 DEF SendAccepted
    <3>5. CASE SendTimeout(r)
      <4>1. lost'[m] = lost[m] + 1
        BY <1>0, <2>2, <3>5 DEF SendTimeout
      <4> QED  BY <1>c, <1>n, <3>3, <4>1
    <3> QED  BY <1>5, <3>4, <3>5
  <2>3. CASE run[r].mail # m
    <3>1. lost'[m] = lost[m] /\ accepted'[m] = accepted[m]
      BY <1>0, <1>5, <2>1, <2>3 DEF SendAccepted, SendTimeout
    <3>2. \A q \in Runs : Marking(q, m) => Marking(q, m)'
      BY <1>1, <1>a, <2>3 DEF Marking, At
    <3> QED  BY <1>0, <2>1, <3>1, <3>2, SameNoted DEF Unsent
  <2> QED  BY <2>2, <2>3
<1>6. CASE Crash(r)
  <2>1. UNCHANGED <<mail, accepted>>
    BY <1>6 DEF Crash
  <2>2. CASE Marking(r, m)
    <3>1. lost'[m] = lost[m] + 1
      BY <1>0, <1>6, <2>2 DEF Crash, Marking
    <3> QED  BY <1>0, <1>c, <1>n, <2>1, <3>1 DEF NotedOf
  <2>3. CASE ~Marking(r, m)
    <3>1. lost'[m] = lost[m]
      BY <1>0, <1>6, <2>3 DEF Crash, Marking
    <3>2. \A q \in Runs : Marking(q, m) => Marking(q, m)'
      BY <1>1, <1>a, <2>3 DEF Marking, At
    <3> QED  BY <1>0, <2>1, <3>1, <3>2, SameNoted DEF Unsent
  <2> QED  BY <2>2, <2>3
<1>7. CASE Claim(r)
  <2>1. run[r].pc # "mark" /\ UNCHANGED <<accepted, lost>>
    BY <1>7 DEF Claim, At
  <2>2. mail'[m].status = mail[m].status
    BY <1>0, <1>7 DEF Claim, Leased, MailRecord
  <2> QED  BY <1>d, <2>1, <2>2
<1>8. CASE \/ Fire(r) \/ Count(r) \/ ClaimNothing(r) \/ SendRefused(r) \/ Bump(r) \/ Release(r)
           \/ FireUnlocked(r) \/ BumpFails(r) \/ BatchFails(r) \/ ReleaseFails(r)
  <2>1. run[r].pc # "mark" /\ UNCHANGED <<mail, accepted, lost>>
    BY <1>8 DEF Fire, Count, ClaimNothing, SendRefused, Bump, Release, FireUnlocked,
         BumpFails, BatchFails, ReleaseFails, At, Active, history
  <2> QED  BY <1>d, <2>1
<1> QED
  BY <1>2, <1>3, <1>4, <1>5, <1>6, <1>7, <1>8 DEF Progress, Disturb

LEMMA SubmitNoted ==
  ASSUME Typed, Leases, Noted, ~late, NEW n \in Mails, Submit(n) \/ SubmitDirect(n),
         NEW m \in Mails
  PROVE  NotedOf(m)'
<1>0. /\ mail \in [Mails -> MailRecord] /\ accepted \in [Mails -> Nat]
      /\ lost \in [Mails -> Nat] /\ NotedOf(m)
  BY DEF Typed, RunsTyped, MailTyped, ClockTyped, Noted
<1>1. UNCHANGED run /\ mail[n].status = "absent"
  BY DEF Submit, SubmitDirect
<1>2. \A q \in Runs : Marking(q, m)' <=> Marking(q, m)
  BY <1>1 DEF Marking, At
<1>n. NotedOf(m)' <=>
        /\ accepted'[m] <= 1 + lost'[m]
        /\ Unsent(m)' /\ (\A q \in Runs : ~Marking(q, m)') => accepted'[m] <= lost'[m]
  BY DEF NotedOf, Unsent, Marking, At
<1>3. CASE m # n
  <2>1. mail'[m] = mail[m] /\ accepted'[m] = accepted[m] /\ lost'[m] = lost[m]
    BY <1>0, <1>3 DEF Submit, SubmitDirect, Accept, history
  <2> QED  BY <1>0, <1>2, <2>1, SameNoted DEF Unsent
<1>4. CASE m = n
  <2>1. \A q \in Runs : ~Marking(q, m)
    BY <1>1, <1>4 DEF Leases, Secured, Holds, Holding, Marking, At
  <2>2. accepted[m] <= lost[m] /\ accepted[m] \in Nat /\ lost[m] \in Nat
    BY <1>0, <1>1, <1>4, <2>1 DEF NotedOf, Unsent
  <2>3. CASE Submit(n)
    BY <1>n, <2>2, <2>3 DEF Submit, history
  <2>4. CASE SubmitDirect(n)
    <3>1. PICK written \in BOOLEAN, delivered \in BOOLEAN :
            /\ mail' = [mail EXCEPT ![n].status = IF written THEN "pending" ELSE "direct"]
            /\ IF delivered THEN Accept(n) ELSE UNCHANGED <<accepted, taken>>
            /\ lost' = IF written /\ delivered THEN [lost EXCEPT ![n] = @ + 1] ELSE lost
      BY <2>4 DEF SubmitDirect
    <3>2. CASE ~delivered
      BY <1>n, <2>2, <3>1, <3>2
    <3>3. CASE delivered /\ written
      BY <1>0, <1>4, <1>n, <2>2, <3>1, <3>3 DEF Accept
    <3>4. CASE delivered /\ ~written
      <4>1. mail'[m].status = "direct"
        BY <1>0, <1>4, <3>1, <3>4 DEF MailRecord
      <4>2. accepted'[m] = accepted[m] + 1 /\ lost' = lost
        BY <1>0, <1>4, <3>1, <3>4 DEF Accept
      <4> QED  BY <1>n, <2>2, <4>1, <4>2 DEF Unsent
    <3> QED  BY <3>2, <3>3, <3>4
  <2> QED  BY <2>3, <2>4
<1> QED  BY <1>3, <1>4

LEMMA TickNoted ==
  ASSUME Typed, Noted, ~late, Tick, NEW m \in Mails
  PROVE  NotedOf(m)'
<1>1. /\ run \in [Runs -> RunRecord] /\ mail \in [Mails -> MailRecord] /\ NotedOf(m)
  BY DEF Typed, RunsTyped, MailTyped, Noted
<1>2. \A q \in Runs : run'[q].pc = run[q].pc /\ run'[q].mail = run[q].mail
  BY <1>1 DEF Tick, RunRecord
<1>3. mail'[m].status = mail[m].status
  BY <1>1 DEF Tick, Older, MailRecord
<1>4. \A q \in Runs : Marking(q, m) => Marking(q, m)'
  BY <1>2 DEF Marking, At
<1>5. UNCHANGED <<accepted, lost>>
  BY DEF Tick
<1> QED
  BY <1>1, <1>3, <1>4, <1>5, SameNoted DEF Unsent

LEMMA NotedNext == Typed /\ Leases /\ Noted /\ [Next]_vars => Noted'
<1> SUFFICES ASSUME Typed, Leases, Noted, [Next]_vars, ~late', NEW m \in Mails
             PROVE  NotedOf(m)'
  BY DEF Noted
<1>1. CASE UNCHANGED vars
  BY <1>1 DEF vars, Noted, NotedOf, Unsent, Marking, At
<1>2. ASSUME Next PROVE ~late
  BY <1>2 DEF Next, Submit, SubmitDirect, Tick, Progress, Disturb, Fire, Count, Claim,
       ClaimNothing, Defer, SendAccepted, SendRefused, SendTimeout, Mark, MarkFails, Bump,
       BumpFails, Fail, BatchFails, Release, ReleaseFails, Crash, FireUnlocked, history
<1>3. CASE Tick
  BY <1>2, <1>3, TickNoted DEF Next
<1>4. ASSUME NEW n \in Mails, Submit(n) \/ SubmitDirect(n) PROVE NotedOf(m)'
  BY <1>2, <1>4, SubmitNoted DEF Next
<1>5. ASSUME NEW r \in Runs, Progress(r) \/ Disturb(r) PROVE NotedOf(m)'
  BY <1>2, <1>5, RunNoted DEF Next
<1> QED
  BY <1>1, <1>3, <1>4, <1>5 DEF Next

LEMMA NotedInit == Init => Noted
BY DEF Init, Noted, NotedOf, Unsent, Marking, At, Idle

LEMMA AlwaysLeased == Spec => [](Typed /\ Leases)
BY TypedInit, TypedNext, LeasesInit, LeasesNext, PTL DEF Spec

(***************************************************************************)
(* The SMTP server takes a mail once, and once more for each time its      *)
(* taking it was not noted, whatever crashes, times out or loses the lock. *)
(***************************************************************************)
THEOREM DuplicatesExplained == Spec => []DuplicateExplained
<1>1. Noted => DuplicateExplained
  BY DEF Noted, NotedOf, DuplicateExplained
<1> QED
  BY <1>1, AlwaysLeased, NotedInit, NotedNext, PTL DEF Spec

-----------------------------------------------------------------------------
Final(m) ==
  mail[m].status \in {"sent", "failed"} => mail'[m].status = mail[m].status

(* A mail that was sent or given up stays so: no slow run writes over it.  *)
THEOREM OutcomesFinal == Spec => OutcomeFinal
<1>1. ASSUME Typed, Leases, Next, ~late, NEW m \in Mails PROVE Final(m)
  <2>0. mail \in [Mails -> MailRecord] /\ RunsTyped
    BY <1>1 DEF Typed, MailTyped
  <2>1. CASE Tick
    BY <2>0, <2>1 DEF Tick, Older, Final, MailRecord
  <2>2. ASSUME NEW n \in Mails, Submit(n) \/ SubmitDirect(n) PROVE Final(m)
    BY <2>0, <2>2 DEF Submit, SubmitDirect, Final, MailRecord
  <2>3. ASSUME NEW r \in Runs, Progress(r) \/ Disturb(r) PROVE Final(m)
    <3>1. CASE Defer(r) \/ Mark(r) \/ MarkFails(r) \/ Fail(r)
      <4>1. LetGo(r) /\ run[r].mail \in Mails
        BY <1>1, <2>0, <3>1, LetGoSteps DEF RunsTyped, RunFits, LetGo
      <4>2. CASE m = run[r].mail
        BY <1>1, <4>1, <4>2 DEF Leases, Secured, Holds, LetGo, Final
      <4> QED  BY <4>1, <4>2 DEF LetGo, Final
    <3>2. CASE Claim(r)
      BY <2>0, <3>2 DEF Claim, Leased, Final, MailRecord
    <3>3. CASE ~(Defer(r) \/ Mark(r) \/ MarkFails(r) \/ Fail(r) \/ Claim(r))
      <4>1. UNCHANGED mail
        BY <2>3, <3>3 DEF Progress, Disturb, Fire, Count, ClaimNothing, SendAccepted,
             SendRefused, Bump, Release, FireUnlocked, SendTimeout, BumpFails, BatchFails,
             ReleaseFails, Crash
      <4> QED  BY <4>1 DEF Final
    <3> QED  BY <3>1, <3>2, <3>3
  <2> QED  BY <1>1, <2>1, <2>2, <2>3 DEF Next
<1>2. Typed /\ Leases /\ [Next]_vars =>
        [~late => \A m \in Mails :
           mail[m].status \in {"sent", "failed"} =>
             mail'[m].status = mail[m].status]_vars
  BY <1>1 DEF Final, vars
<1> QED
  BY <1>2, AlwaysLeased, PTL DEF Spec, OutcomeFinal

-----------------------------------------------------------------------------
(***************************************************************************)
(* Tally.  Without a fault and without a run past midnight there is one    *)
(* run; the counter of the day, and the run's number, are what the SMTP    *)
(* server took today.                                                      *)
(***************************************************************************)
Counted(r) ==
  /\ run[r].today
  /\ taken = counted.today + IF run[r].pc \in {"mark", "bump"} THEN 1 ELSE 0
  /\ run[r].pc \in {"claim", "defer", "send", "fail"} => run[r].sent = counted.today
  /\ At(r, "send") /\ run[r].mail \notin HighPriority => run[r].sent < DailyCap

Tally ==
  ~drift =>
    /\ \A r \in Runs : Active(r) => Counted(r) /\ \A q \in Runs : Active(q) => q = r
    /\ (\A r \in Runs : ~Active(r)) => taken = counted.today

-----------------------------------------------------------------------------
LEMMA TallyInit == Init => Tally
BY DEF Init, Tally, Active, Idle

(* The only run goes on, or it ends. *)
LEMMA TallyMoves ==
  ASSUME Tally, ~drift, NEW r \in Runs, Active(r), Alone(r),
         \/ Active(r)' /\ Counted(r)'
         \/ ~Active(r)' /\ taken' = counted'.today
  PROVE  Tally'
<1>1. \A q \in Runs : Active(q)' <=> run'[q].pc # "idle"
  BY DEF Active
<1>2. \A q \in Runs \ {r} : ~Active(q)'
  BY <1>1 DEF Tally, Alone, Active
<1>3. Tally' <=> (~drift' =>
        /\ \A s \in Runs : Active(s)' => Counted(s)' /\ \A q \in Runs : Active(q)' => q = s
        /\ (\A s \in Runs : ~Active(s)') => taken' = counted'.today)
  BY DEF Tally, Counted, At, Active
<1> QED
  BY <1>2, <1>3

LEMMA FireTally ==
  ASSUME Typed, Tally, ~drift, NEW r \in Runs, Fire(r), ~drift'
  PROVE  Tally'
<1>0. run \in [Runs -> RunRecord] /\ RunsTyped /\ counted.today \in Nat
  BY DEF Typed, RunsTyped, ClockTyped
<1>1. CASE UNCHANGED run
  BY <1>1 DEF Fire, Tally, Counted, At, Active, history
<1>2. CASE Begin(r, TRUE) /\ \A q \in Runs : ~Active(q)
  <2>1. run[r] = Idle
    BY <1>0, <1>2 DEF RunsTyped, RunFits, Active
  <2>2. run'[r].pc = "count" /\ run'[r].today
    BY <1>0, <1>2, <2>1 DEF Begin, Idle, RunRecord
  <2>3. taken = counted.today /\ UNCHANGED <<taken, counted>>
    BY <1>2 DEF Tally, Fire, history
  <2>4. Counted(r)'
    BY <1>0, <2>2, <2>3 DEF Counted, At
  <2>5. \A q \in Runs : Active(q)' => q = r
    BY <1>0, <1>2 DEF Begin, Active
  <2>6. Active(r)'
    BY <2>2 DEF Active
  <2>7. Tally' <=> (~drift' =>
          /\ \A s \in Runs : Active(s)' => Counted(s)' /\ \A q \in Runs : Active(q)' => q = s
          /\ (\A s \in Runs : ~Active(s)') => taken' = counted'.today)
    BY DEF Tally, Counted, At, Active
  <2> QED
    BY <2>4, <2>5, <2>6, <2>7
<1> QED
  BY <1>1, <1>2 DEF Fire

LEMMA RunTally ==
  ASSUME Typed, Tally, ~drift, NEW r \in Runs, Progress(r), ~drift'
  PROVE  Tally'
<1>0. /\ run \in [Runs -> RunRecord] /\ run[r] \in RunRecord /\ RunsTyped
      /\ counted \in [today: Nat, before: Nat] /\ taken \in Nat /\ DailyCap \in Nat
  BY Bounds DEF Typed, RunsTyped, ClockTyped
<1>1. CASE Fire(r)
  BY <1>1, FireTally
<1> SUFFICES ASSUME ~Fire(r) PROVE Tally'
  BY <1>1
<1>2. Active(r) /\ Alone(r)
  BY <1>0, OthersStay DEF Progress, Count, Claim, ClaimNothing, Defer, SendAccepted,
       SendRefused, Mark, Bump, Fail, Release, At, Active
<1>3. Counted(r)
  BY <1>2 DEF Tally
<1>a. /\ Active(r)' <=> run'[r].pc # "idle"
      /\ Counted(r)' <=>
           /\ run'[r].today
           /\ taken' = counted'.today + IF run'[r].pc \in {"mark", "bump"} THEN 1 ELSE 0
           /\ run'[r].pc \in {"claim", "defer", "send", "fail"} =>
                run'[r].sent = counted'.today
           /\ run'[r].pc = "send" /\ run'[r].mail \notin HighPriority =>
                run'[r].sent < DailyCap
  BY DEF Counted, At, Active
<1>b. ASSUME Active(r)', Counted(r)' PROVE Tally'
  BY <1>2, <1>b, TallyMoves
<1>c. taken = counted.today + IF run[r].pc \in {"mark", "bump"} THEN 1 ELSE 0
  BY <1>3 DEF Counted
<1>4. CASE Count(r)
  <2>1. /\ run'[r].pc = "claim" /\ run'[r].today = run[r].today
        /\ run'[r].sent = counted.today /\ run[r].pc = "count"
        /\ UNCHANGED <<taken, counted>>
    BY <1>0, <1>4 DEF Count, At, RunRecord, history
  <2> QED  BY <1>3, <1>a, <1>b, <1>c, <2>1 DEF Counted
<1>5. CASE Claim(r)
  <2>1. PICK n \in Mails :
          run' = [run EXCEPT ![r].mail = n, ![r].seen = mail[n].attempts,
                     ![r].tried = @ + 1,
                     ![r].pc = IF CapReached(r) /\ n \notin HighPriority
                               THEN "defer" ELSE "send"]
    BY <1>5 DEF Claim
  <2>2. /\ run'[r].pc = IF CapReached(r) /\ n \notin HighPriority THEN "defer" ELSE "send"
        /\ run'[r].mail = n /\ run'[r].sent = run[r].sent /\ run'[r].today = run[r].today
    BY <1>0, <2>1 DEF RunRecord
  <2>3. run[r].pc = "claim" /\ UNCHANGED <<taken, counted>>
    BY <1>5 DEF Claim, At
  <2>4. run[r].sent \in Nat /\ (~CapReached(r) => run[r].sent < DailyCap)
    BY <1>0 DEF CapReached, RunRecord
  <2>5. run[r].today /\ run[r].sent = counted.today
    BY <1>3, <2>3 DEF Counted
  <2>6. Active(r)' /\ Counted(r)'
    BY <1>a, <1>c, <2>2, <2>3, <2>4, <2>5
  <2> QED  BY <1>b, <2>6
<1>6. CASE ClaimNothing(r) \/ SendAccepted(r) \/ SendRefused(r) \/ Mark(r)
  <2>1. PICK pc : /\ GoTo(r, pc)
                  /\ \/ (ClaimNothing(r) /\ pc = "release")
                     \/ (SendAccepted(r) /\ pc = "mark")
                     \/ (SendRefused(r) /\ pc = "fail")
                     \/ (Mark(r) /\ pc = "bump")
    BY <1>6 DEF ClaimNothing, SendAccepted, SendRefused, Mark
  <2>2. /\ run'[r].pc = pc /\ run'[r].sent = run[r].sent /\ run'[r].today = run[r].today
    BY <1>0, <2>1, GoToLeaves
  <2>3. UNCHANGED counted
    BY <1>6 DEF ClaimNothing, SendAccepted, SendRefused, Mark
  <2>4. CASE (ClaimNothing(r) /\ pc = "release") \/ (SendRefused(r) /\ pc = "fail")
    <3>1. taken' = taken /\ run[r].pc \in {"claim", "send"}
      BY <2>4 DEF ClaimNothing, SendRefused, At, history
    <3> QED  BY <1>3, <1>a, <1>b, <1>c, <2>2, <2>3, <2>4, <3>1 DEF Counted
  <2>5. CASE SendAccepted(r) /\ pc = "mark"
    <3>1. taken' = taken + 1 /\ run[r].pc = "send"
      BY <2>5 DEF SendAccepted, Accept, At
    <3>2. run'[r].today
      BY <1>3, <2>2 DEF Counted
    <3>3. taken' = counted'.today + 1
      BY <1>0, <1>c, <2>3, <3>1
    <3>4. Active(r)' /\ Counted(r)'
      BY <1>a, <2>2, <2>5, <3>2, <3>3
    <3> QED  BY <1>b, <3>4
  <2>6. CASE Mark(r) /\ pc = "bump"
    <3>1. taken' = taken /\ run[r].pc = "mark"
      BY <2>6 DEF Mark, At, history
    <3> QED  BY <1>3, <1>a, <1>b, <1>c, <2>2, <2>3, <2>6, <3>1 DEF Counted
  <2> QED  BY <2>1, <2>4, <2>5, <2>6
<1>7. CASE Defer(r) \/ Fail(r)
  <2>1. /\ run'[r].pc \in {"claim", "release"} /\ run'[r].sent = run[r].sent
        /\ run'[r].today = run[r].today
    BY <1>0, <1>7, RoundLeaves DEF Defer, Fail
  <2>2. UNCHANGED <<taken, counted>> /\ run[r].pc \in {"defer", "fail"}
    BY <1>7 DEF Defer, Fail, At, history
  <2> QED  BY <1>3, <1>a, <1>b, <1>c, <2>1, <2>2 DEF Counted
<1>8. CASE Bump(r)
  <2>1. Day(r) = "today" /\ run[r].pc = "bump" /\ taken' = taken
    BY <1>3, <1>8 DEF Counted, Day, Bump, At, history
  <2>2. /\ counted' = [counted EXCEPT !["today"] = @ + 1]
        /\ NextRound(r, counted["today"] + 1)
    BY <1>8, <2>1 DEF Bump
  <2>3. counted'.today = counted.today + 1
    BY <1>0, <2>2
  <2>4. /\ run'[r].pc \in {"claim", "release"} /\ run'[r].sent = counted.today + 1
        /\ run'[r].today = run[r].today
    BY <1>0, <2>2, RoundLeaves
  <2> QED  BY <1>0, <1>3, <1>a, <1>b, <1>c, <2>1, <2>3, <2>4 DEF Counted
<1>9. CASE Release(r)
  <2>1. ~Active(r)'
    BY <1>0, <1>9, <1>a, EndLeaves DEF Release, Idle
  <2>2. taken' = counted'.today
    BY <1>0, <1>9, <1>c DEF Release, At, history
  <2> QED  BY <1>2, <2>1, <2>2, TallyMoves
<1> QED
  BY <1>4, <1>5, <1>6, <1>7, <1>8, <1>9 DEF Progress

LEMMA TickTally ==
  ASSUME Typed, Tally, ~drift, Tick, ~drift'
  PROVE  Tally'
<1>0. /\ run \in [Runs -> RunRecord] /\ counted \in [today: Nat, before: Nat]
      /\ midnight \in 1..DayLength /\ DayLength \in Nat
  BY Bounds DEF Typed, RunsTyped, ClockTyped
<1>1. Tally' <=> (~drift' =>
        /\ \A s \in Runs : Active(s)' => Counted(s)' /\ \A q \in Runs : Active(q)' => q = s
        /\ (\A s \in Runs : ~Active(s)') => taken' = counted'.today)
  BY DEF Tally, Counted, At, Active
<1>2. \A q \in Runs : /\ run'[q].pc = run[q].pc /\ run'[q].mail = run[q].mail
                      /\ run'[q].sent = run[q].sent
                      /\ run[q].today /\ midnight > 1 => run'[q].today
  BY <1>0 DEF Tick, RunRecord, StillToday
<1>3. \A q \in Runs : Active(q)' <=> Active(q)
  BY <1>2 DEF Active
<1>4. CASE midnight = 1
  <2>a. /\ taken' = 0 /\ counted' = [today |-> 0, before |-> counted.today]
        /\ drift' = (drift \/ \E r \in Runs : Active(r))
    BY <1>4 DEF Tick
  <2>b. counted'.today = 0
    BY <2>a
  <2>1. (\A q \in Runs : ~Active(q)) /\ taken' = counted'.today
    BY <2>a, <2>b
  <2> QED  BY <1>1, <1>3, <2>1
<1>5. CASE midnight # 1
  <2>a. UNCHANGED <<counted, taken>>
    BY <1>5 DEF Tick
  <2>1. midnight > 1 /\ UNCHANGED <<counted, taken>>
    BY <1>0, <1>5, <2>a
  <2>2. \A q \in Runs : Counted(q) => Counted(q)'
    BY <1>2, <2>1 DEF Counted, At
  <2> QED  BY <1>1, <1>3, <2>1, <2>2 DEF Tally
<1> QED
  BY <1>4, <1>5

(* A step without drift is one of the schedule, and none was before. *)
LEMMA Steady ==
  ASSUME Typed, Next, ~drift'
  PROVE  /\ ~drift
         /\ \/ Tick \/ (\E m \in Mails : Submit(m)) \/ \E r \in Runs : Progress(r)
<1>0. drift \in BOOLEAN
  BY DEF Typed, ClockTyped
<1>1. \A kind : ~Fault(kind)
  BY DEF Fault
<1>2. \A m \in Mails : ~SubmitDirect(m)
  BY <1>1 DEF SubmitDirect
<1>3. \A r \in Runs : ~Disturb(r)
  BY <1>1 DEF Disturb, FireUnlocked, SendTimeout, MarkFails, BumpFails, BatchFails,
       ReleaseFails, Crash
<1>4. \A r \in Runs : Progress(r) => ~drift
  BY <1>0 DEF Progress, Fire, Count, Claim, ClaimNothing, Defer, SendAccepted,
       SendRefused, Mark, Bump, Fail, Release, NoFault
<1>5. Tick => ~drift
  BY <1>0 DEF Tick
<1>6. \A m \in Mails : Submit(m) => ~drift
  BY <1>0 DEF Submit, NoFault
<1> QED
  BY <1>2, <1>3, <1>4, <1>5, <1>6 DEF Next

LEMMA TallyNext == Typed /\ Tally /\ [Next]_vars => Tally'
<1> SUFFICES ASSUME Typed, Tally, [Next]_vars PROVE Tally'
  OBVIOUS
<1>1. CASE UNCHANGED vars
  BY <1>1 DEF vars, Tally, Counted, At, Active
<1>2. CASE Next /\ ~drift'
  <2>1. ASSUME NEW m \in Mails, Submit(m) PROVE Tally'
    BY <2>1 DEF Submit, NoFault, Tally, Counted, At, Active, history
  <2> QED  BY <1>2, <2>1, Steady, TickTally, RunTally
<1>3. CASE drift'
  BY <1>3 DEF Tally
<1> QED
  BY <1>1, <1>2, <1>3

(***************************************************************************)
(* After the cap only mails of high priority go out, counting what the     *)
(* server really took.                                                     *)
(***************************************************************************)
THEOREM CapKept == Spec => CapHeld
<1>1. ASSUME Typed, Tally, Next, ~drift', NEW m \in Mails \ HighPriority,
             accepted'[m] > accepted[m]
      PROVE  taken < DailyCap
  <2>0. accepted \in [Mails -> Nat] /\ ~drift /\ RunsTyped /\ counted.today \in Nat
    BY <1>1, Steady DEF Typed, ClockTyped
  <2>1. ~UNCHANGED accepted
    BY <1>1, <2>0
  <2>2. PICK r \in Runs : SendAccepted(r)
    BY <1>1, <2>1, Steady DEF Tick, Submit, Progress, Fire, Count, Claim, ClaimNothing,
         Defer, SendRefused, Mark, Bump, Fail, Release, history
  <2>3. run[r].pc = "send" /\ run[r].mail \in Mails
    BY <2>0, <2>2 DEF SendAccepted, At, RunsTyped, RunFits, Holding
  <2>4. run[r].mail = m
    BY <1>1, <2>0, <2>2, <2>3 DEF SendAccepted, Accept
  <2>5. Counted(r)
    BY <1>1, <2>0, <2>3 DEF Tally, Active
  <2> QED
    BY <2>0, <2>3, <2>4, <2>5 DEF Counted, At
<1>2. Typed /\ Tally /\ [Next]_vars =>
        [\A m \in Mails \ HighPriority :
           accepted'[m] > accepted[m] /\ ~drift' => taken < DailyCap]_vars
  BY <1>1 DEF vars
<1>3. Spec => [](Typed /\ Tally)
  BY TypedInit, TypedNext, TallyInit, TallyNext, PTL DEF Spec
<1> QED
  BY <1>2, <1>3, PTL DEF Spec, CapHeld

-----------------------------------------------------------------------------
(***************************************************************************)
(* The memberships of a world.                                             *)
(***************************************************************************)
Answers == {"none", "ok", "refused", "failed", "crashed"}
Request == [op: Operation, pc: WorldPlaces, owner: Users, copy: Membership,
            old: Membership, delta: -1..1, answer: Answers]

(* Whoever is a member was let in, and so was the author of an application *)
(* whose approval is about to drop it.                                     *)
LetIn ==
  /\ \A u \in Users : IsMember(u) => u \in admitted
  /\ \A r \in Requests : Op(r).kind = "approve" /\ req[r].pc \in {"raise", "drop"} =>
       Op(r).on \in admitted

(* An owner without membership that nothing explains has just been handed  *)
(* the world, by a request that is to look at his membership again.        *)
Returning(r) == Op(r).kind = "transfer" /\ req[r].pc \in {"recheck", "giveBack"}

GhostNamed ==
  world.exists /\ ~IsMember(world.owner) =>
    orphaned \/ \E r \in Requests : Returning(r) /\ Op(r).on = world.owner

(* Only who is about to count holds an increment. *)
Counting == \A r \in Requests : req[r].delta # 0 => req[r].pc = "count"

(* The inductive invariant. *)
WorldConsistent == WorldTypeOK /\ LetIn /\ GhostNamed /\ Counting /\ PlayersCounted

(* What ApplicantKept says of one step. *)
Rightly ==
  \A u \in Users :
    applications[u].open /\ ~applications'[u].open =>
      \/ u \in admitted'
      \/ \E r \in Requests : Steps(r, {"cancel", "reject", "purge"})

-----------------------------------------------------------------------------
LEMMA Records ==
  /\ NoMember \in Membership /\ NoMember.role = Nobody
  /\ NoApplication \in Application /\ ~NoApplication.open
  /\ \A m \in Membership : m.role \in Roles \cup {Nobody} /\ m.id \in Ids
  /\ \A w \in World : w.owner \in Users /\ w.exists \in BOOLEAN /\ w.players \in Int
BY DEF NoMember, Membership, NoApplication, Application, World, Ids

(* What a request does, knows and answers has the type of it. *)
LEMMA Requested ==
  ASSUME WorldTypeOK, NEW r \in Requests
  PROVE  /\ req[r] \in Request /\ Op(r) \in Operation /\ req[r].pc \in WorldPlaces
         /\ Op(r).by \in Users /\ Op(r).on \in Users /\ Op(r).role \in Roles
         /\ Op(r).draft \in BOOLEAN /\ Op(r).invite \in InviteIds
         /\ Op(r).mode \in {"public", "open", "closed"}
         /\ req[r].owner \in Users /\ req[r].copy \in Membership
         /\ req[r].old \in Membership /\ req[r].delta \in -1..1
<1>1. req[r] \in Request
  BY DEF WorldTypeOK, Request, Answers
<1>2. /\ Op(r) \in Operation /\ req[r].owner \in Users /\ req[r].copy \in Membership
      /\ req[r].old \in Membership /\ req[r].delta \in -1..1 /\ req[r].pc \in WorldPlaces
  BY <1>1 DEF Request, Op
<1> QED
  BY <1>1, <1>2 DEF Operation

(* A step of one request. *)
Turn(r) ==
  /\ req' \in [Requests -> Request] /\ Op(r)' = Op(r)
  /\ \A q \in Requests \ {r} : req'[q] = req[q]

LEMMA TurnTo ==
  ASSUME WorldTypeOK, NEW r \in Requests, NEW new \in Request, new.op = Op(r),
         req' = [req EXCEPT ![r] = new]
  PROVE  Turn(r) /\ req'[r] = new
<1>1. req \in [Requests -> Request]
  BY DEF WorldTypeOK, Request, Answers
<1> QED
  BY <1>1 DEF Turn, Op

LEMMA GoneTo ==
  ASSUME WorldTypeOK, NEW r \in Requests, NEW place \in WorldPlaces, Goto(r, place)
  PROVE  Turn(r) /\ req'[r].pc = place /\ req'[r].delta = req[r].delta
<1> DEFINE new == [req[r] EXCEPT !.pc = place]
<1>1. req[r] \in Request
  BY Requested
<1>2. new \in Request /\ new.op = Op(r) /\ new.pc = place /\ new.delta = req[r].delta
  BY <1>1 DEF Request, Op
<1>3. req' = [req EXCEPT ![r] = new]
  BY DEF Goto
<1> QED
  BY <1>2, <1>3, TurnTo

LEMMA Finished ==
  ASSUME WorldTypeOK, NEW r \in Requests, NEW answer \in Answers, Finish(r, answer)
  PROVE  Turn(r) /\ req'[r].pc = "done" /\ req'[r].delta = 0
<1> DEFINE new == [req[r] EXCEPT !.pc = "done", !.answer = answer, !.delta = 0,
                                 !.copy = NoMember, !.old = NoMember]
<1>1. req[r] \in Request
  BY Requested
<1>2. /\ "done" \in WorldPlaces /\ 0 \in -1..1 /\ NoMember \in Membership
  BY Records DEF WorldPlaces
<1>3. new \in Request /\ new.op = Op(r) /\ new.pc = "done" /\ new.delta = 0
  BY <1>1, <1>2 DEF Request, Op
<1>4. req' = [req EXCEPT ![r] = new]
  BY DEF Finish
<1> HIDE DEF new
<1> QED
  BY <1>3, <1>4, TurnTo

LEMMA Counts ==
  ASSUME WorldTypeOK, NEW r \in Requests, NEW delta \in -1..1,
         req' = [req EXCEPT ![r].pc = "count", ![r].delta = delta]
  PROVE  Turn(r) /\ req'[r].pc = "count" /\ req'[r].delta = delta
<1> DEFINE new == [req[r] EXCEPT !.pc = "count", !.delta = delta]
<1>1. req[r] \in Request
  BY Requested
<1>2. new \in Request /\ new.op = Op(r) /\ new.pc = "count" /\ new.delta = delta
  BY <1>1 DEF Request, Op, WorldPlaces
<1>3. req' = [req EXCEPT ![r] = new]
  OBVIOUS
<1> HIDE DEF new
<1> QED
  BY <1>2, <1>3, TurnTo

-----------------------------------------------------------------------------
(***************************************************************************)
(* Most steps leave alone what the invariant speaks of: the members, who   *)
(* owns the world and how many players it counts.                          *)
(***************************************************************************)
SameWorld ==
  /\ world' \in World /\ world'.exists = world.exists /\ world'.owner = world.owner
  /\ world'.players = world.players

(* A request, neither counting nor looking at a transfer again, goes on. *)
Proceeds(r) ==
  /\ Turn(r) /\ req[r].pc # "count" /\ req'[r].pc # "count"
  /\ req'[r].delta \in {0, req[r].delta} /\ ~Returning(r)

Papers == applications' \in [Users -> Application] /\ invites' \in [InviteIds -> Invite]

(* It goes to where the application is dropped only from a membership. *)
Vouched(r) ==
  Op(r).kind = "approve" /\ req'[r].pc \in {"raise", "drop"} => Op(r).on \in admitted'

Aside(r) ==
  /\ Proceeds(r) /\ Vouched(r) /\ SameWorld /\ Papers
  /\ UNCHANGED <<members, worldHistory, replicaSet>>

(* Who holds an increment, after a request has gone on. *)
LEMMA PendingSame ==
  ASSUME WorldConsistent, NEW r \in Requests, Proceeds(r)
  PROVE  /\ Pending(1)' = Pending(1) /\ Pending(-1)' = Pending(-1)
         /\ Counting'
<1>1. req[r].delta = 0 /\ req'[r].delta = 0
  BY DEF WorldConsistent, Counting, Proceeds
<1>2. \A q \in Requests : req'[q].delta = req[q].delta /\ (q # r => req'[q] = req[q])
  BY <1>1 DEF Proceeds, Turn
<1>3. \A d \in {1, -1} : {q \in Requests : req'[q].delta = d} = {q \in Requests : req[q].delta = d}
  BY <1>2
<1> QED
  BY <1>1, <1>2, <1>3 DEF Pending, Counting, WorldConsistent

(* Who looks at a transfer again still does. *)
LEMMA ReturningSame ==
  ASSUME WorldConsistent, NEW r \in Requests, Turn(r), ~Returning(r), NEW q \in Requests,
         Returning(q)
  PROVE  Returning(q)' /\ Op(q)' = Op(q)
BY DEF Turn, Returning, Op

(* Who is about to drop an application still is one who was let in. *)
LEMMA VouchedStays ==
  ASSUME WorldConsistent, NEW r \in Requests, Turn(r), Vouched(r), admitted \subseteq admitted'
  PROVE  \A q \in Requests : Op(q)'.kind = "approve" /\ req'[q].pc \in {"raise", "drop"} =>
           Op(q)'.on \in admitted'
BY DEF WorldConsistent, LetIn, Turn, Vouched, Op

LEMMA AsideConsistent ==
  ASSUME WorldConsistent, NEW r \in Requests, Aside(r)
  PROVE  WorldConsistent'
<1>1. WorldTypeOK'
  BY DEF WorldConsistent, WorldTypeOK, Aside, SameWorld, Papers, Proceeds, Turn, Request,
         Answers, worldHistory
<1>2. LetIn'
  <2>1. \A u \in Users : IsMember(u)' => u \in admitted'
    BY DEF WorldConsistent, LetIn, Aside, worldHistory, IsMember, RoleOf
  <2>2. Turn(r) /\ Vouched(r) /\ admitted \subseteq admitted'
    BY DEF Aside, Proceeds, worldHistory
  <2> QED  BY <2>1, <2>2, VouchedStays DEF LetIn, Op
<1>3. GhostNamed'
  <2>1. Turn(r) /\ ~Returning(r)
    BY DEF Aside, Proceeds
  <2>2. \A q \in Requests : Returning(q) => Returning(q)' /\ Op(q)' = Op(q)
    BY <2>1, ReturningSame
  <2> QED  BY <2>2 DEF WorldConsistent, GhostNamed, Aside, SameWorld, worldHistory, IsMember, RoleOf
<1>4. Counting' /\ PlayersCounted'
  <2>1. Proceeds(r)
    BY DEF Aside
  <2> QED
    BY <2>1, PendingSame DEF WorldConsistent, PlayersCounted, Aside, SameWorld, worldHistory, RoleOf
<1> QED
  BY <1>1, <1>2, <1>3, <1>4 DEF WorldConsistent

-----------------------------------------------------------------------------
(* Steps that only look: how a request goes on from a place it may leave. *)
Calm(r) == req[r].pc # "count" /\ ~Returning(r)
Looks(r) == Proceeds(r) /\ Vouched(r) /\ UNCHANGED <<data, worldHistory, replicaSet>>

LEMMA LookAside ==
  ASSUME WorldTypeOK, NEW r \in Requests, Looks(r)
  PROVE  Aside(r) /\ Rightly
BY DEF WorldTypeOK, Looks, Aside, SameWorld, Papers, data, worldHistory, Rightly

LEMMA KeepLooks ==
  ASSUME WorldTypeOK, NEW r \in Requests, NEW place \in WorldPlaces, Keep(place, r), Calm(r),
         UNCHANGED replicaSet, place # "count",
         Op(r).kind = "approve" /\ place \in {"raise", "drop"} => Op(r).on \in admitted
  PROVE  Looks(r)
<1>1. Goto(r, place) /\ UNCHANGED <<data, worldHistory>>
  BY DEF Keep
<1>2. Turn(r) /\ req'[r].pc = place /\ req'[r].delta = req[r].delta
  BY <1>1, GoneTo
<1> QED
  BY <1>1, <1>2 DEF Looks, Proceeds, Calm, Vouched, worldHistory

LEMMA FinishLooks ==
  ASSUME WorldTypeOK, NEW r \in Requests, NEW answer \in Answers, Finish(r, answer), Calm(r),
         UNCHANGED <<data, worldHistory, replicaSet>>
  PROVE  Looks(r)
<1>1. Turn(r) /\ req'[r].pc = "done" /\ req'[r].delta = 0
  BY Finished
<1> QED
  BY <1>1 DEF Looks, Proceeds, Calm, Vouched

LEMMA RefuseLooks ==
  ASSUME WorldTypeOK, NEW r \in Requests, Refuse(r), Calm(r), UNCHANGED replicaSet
  PROVE  Looks(r)
<1>1. Finish(r, "refused") /\ UNCHANGED <<data, worldHistory, replicaSet>> /\ "refused" \in Answers
  BY DEF Refuse, Answers
<1> QED
  BY <1>1, FinishLooks

(* A request that goes on with more than its place changed. *)
LEMMA LearnLooks ==
  ASSUME WorldTypeOK, NEW r \in Requests, NEW new \in Request, new.op = Op(r),
         req' = [req EXCEPT ![r] = new], Calm(r), UNCHANGED <<data, worldHistory, replicaSet>>,
         new.pc # "count", new.delta = req[r].delta,
         Op(r).kind = "approve" /\ new.pc \in {"raise", "drop"} => Op(r).on \in admitted
  PROVE  Looks(r)
<1>1. Turn(r) /\ req'[r] = new
  BY TurnTo
<1> QED
  BY <1>1 DEF Looks, Proceeds, Calm, Vouched, worldHistory

LEMMA SeeWorldLooks ==
  ASSUME WorldTypeOK, NEW r \in Requests, NEW place \in WorldPlaces, SeeWorld(r, place), Calm(r),
         UNCHANGED replicaSet, place \notin {"count", "raise", "drop"}
  PROVE  Looks(r)
<1> DEFINE new == [req[r] EXCEPT !.pc = place, !.owner = world.owner]
<1>1. req[r] \in Request /\ world.owner \in Users
  BY Requested, Records DEF WorldTypeOK
<1>2. new \in Request /\ new.op = Op(r) /\ new.pc = place /\ new.delta = req[r].delta
  BY <1>1 DEF Request, Op
<1>3. req' = [req EXCEPT ![r] = new] /\ UNCHANGED <<data, worldHistory>>
  BY DEF SeeWorld
<1> HIDE DEF new
<1> QED
  BY <1>2, <1>3, LearnLooks

LEMMA SeeMemberLooks ==
  ASSUME WorldTypeOK, NEW r \in Requests, NEW u \in Users, NEW place \in WorldPlaces,
         SeeMember(r, u, place), Calm(r), UNCHANGED replicaSet,
         place \notin {"count", "raise", "drop"}
  PROVE  Looks(r)
<1> DEFINE new == [req[r] EXCEPT !.pc = place, !.copy = members[u]]
<1>1. req[r] \in Request /\ members[u] \in Membership
  BY Requested DEF WorldTypeOK
<1>2. new \in Request /\ new.op = Op(r) /\ new.pc = place /\ new.delta = req[r].delta
  BY <1>1 DEF Request, Op
<1>3. req' = [req EXCEPT ![r] = new] /\ UNCHANGED <<data, worldHistory>>
  BY DEF SeeMember
<1> HIDE DEF new
<1> QED
  BY <1>2, <1>3, LearnLooks

LEMMA FindLooks ==
  ASSUME WorldTypeOK, NEW r \in Requests, NEW u \in Users, NEW place \in WorldPlaces,
         FindApplication(r, u, place), Calm(r), UNCHANGED replicaSet, place # "count",
         Op(r).kind = "approve" => place \notin {"raise", "drop"}
  PROVE  Looks(r)
<1> DEFINE new == [req[r] EXCEPT !.pc = place,
                                 !.copy = [NoMember EXCEPT !.id = applications[u].id]]
<1>1. CASE ~applications[u].open
  BY <1>1, RefuseLooks DEF FindApplication
<1>2. CASE applications[u].open
  <2>1. req[r] \in Request /\ applications[u].id \in Ids
    BY Requested DEF WorldTypeOK, Application
  <2>2. [NoMember EXCEPT !.id = applications[u].id] \in Membership
    BY <2>1 DEF NoMember, Membership
  <2>3. new \in Request /\ new.op = Op(r) /\ new.pc = place /\ new.delta = req[r].delta
    BY <2>1, <2>2 DEF Request, Op
  <2>4. req' = [req EXCEPT ![r] = new] /\ UNCHANGED <<data, worldHistory>>
    BY <1>2 DEF FindApplication
  <2> HIDE DEF new
  <2> QED  BY <2>3, <2>4, LearnLooks
<1> QED
  BY <1>1, <1>2

(* The requests that enter ... *)
LEMMA EnteringLooks ==
  ASSUME WorldConsistent, NEW r \in Requests, UNCHANGED replicaSet,
         \/ Join(r) \/ JoinCheck(r) \/ RequestAccess(r) \/ RequestCheck(r) \/ CancelFind(r)
         \/ ApproveRead(r) \/ ApproveFind(r) \/ ApproveExisting(r) \/ ApprovePage(r)
         \/ ApproveClash(r) \/ RejectRead(r) \/ RejectFind(r)
  PROVE  Looks(r)
<1> USE DEF WorldConsistent, Is, Calm, Returning, WorldPlaces, Answers
<1>1. CASE Join(r)
  BY <1>1, KeepLooks, RefuseLooks DEF Join
<1>2. CASE JoinCheck(r)
  BY <1>2, KeepLooks, RefuseLooks DEF JoinCheck
<1>3. CASE RequestAccess(r)
  BY <1>3, KeepLooks, RefuseLooks DEF RequestAccess
<1>4. CASE RequestCheck(r)
  BY <1>4, KeepLooks, RefuseLooks DEF RequestCheck
<1>5. CASE CancelFind(r)
  BY <1>5, Requested, FindLooks DEF CancelFind
<1>6. CASE ApproveRead(r)
  BY <1>6, SeeWorldLooks, RefuseLooks DEF ApproveRead
<1>7. CASE ApproveFind(r)
  BY <1>7, Requested, FindLooks, RefuseLooks DEF ApproveFind
<1>8. CASE ApproveExisting(r)
  BY <1>8, Requested, KeepLooks, FinishLooks DEF ApproveExisting, LetIn
<1>9. CASE ApprovePage(r)
  BY <1>9, KeepLooks, FinishLooks DEF ApprovePage, Keep
<1>10. CASE ApproveClash(r)
  <2>1. Op(r).kind = "approve" /\ req[r].pc = "clash" /\ UNCHANGED <<data, worldHistory>>
    BY <1>10 DEF ApproveClash
  <2>2. CASE ~IsMember(Op(r).on)
    BY <1>10, <2>1, <2>2, FinishLooks DEF ApproveClash
  <2>3. CASE IsMember(Op(r).on)
    <3> DEFINE new == [req[r] EXCEPT !.pc = "raise", !.old = members[Op(r).on]]
    <3>1. req[r] \in Request /\ Op(r).on \in Users /\ members[Op(r).on] \in Membership
      BY Requested DEF WorldTypeOK
    <3>2. new \in Request /\ new.op = Op(r) /\ new.pc = "raise" /\ new.delta = req[r].delta
      BY <3>1 DEF Request, Op
    <3>3. req' = [req EXCEPT ![r] = new]
      BY <1>10, <2>3 DEF ApproveClash
    <3>4. Op(r).on \in admitted
      BY <2>3, <3>1 DEF LetIn
    <3> HIDE DEF new
    <3> QED  BY <2>1, <3>2, <3>3, <3>4, LearnLooks
  <2> QED  BY <2>2, <2>3
<1>11. CASE RejectRead(r)
  BY <1>11, SeeWorldLooks, RefuseLooks DEF RejectRead
<1>12. CASE RejectFind(r)
  BY <1>12, Requested, FindLooks, RefuseLooks DEF RejectFind
<1> QED
  BY <1>1, <1>2, <1>3, <1>4, <1>5, <1>6, <1>7, <1>8, <1>9, <1>10, <1>11, <1>12

(* ... that invite or are invited ... *)
LEMMA InvitingLooks ==
  ASSUME WorldConsistent, NEW r \in Requests, UNCHANGED replicaSet,
         \/ InviteRead(r) \/ InviteCheck(r) \/ RevokeRead(r) \/ RevokeFind(r)
         \/ AcceptFind(r) \/ AcceptExisting(r) \/ DeclineFind(r) \/ FollowFind(r)
         \/ FollowWorld(r) \/ FollowMember(r) \/ FollowExisting(r)
  PROVE  Looks(r)
<1> USE KeepLooks, RefuseLooks, FinishLooks, SeeWorldLooks
    DEF WorldConsistent, Is, Calm, Returning, WorldPlaces, Answers
<1>1. CASE InviteRead(r)
  BY <1>1 DEF InviteRead
<1>2. CASE InviteCheck(r)
  BY <1>2 DEF InviteCheck
<1>3. CASE RevokeRead(r)
  BY <1>3 DEF RevokeRead
<1>4. CASE RevokeFind(r)
  BY <1>4 DEF RevokeFind
<1>5. CASE AcceptFind(r)
  BY <1>5 DEF AcceptFind
<1>6. CASE AcceptExisting(r)
  BY <1>6 DEF AcceptExisting, Existing
<1>7. CASE DeclineFind(r)
  BY <1>7 DEF DeclineFind
<1>8. CASE FollowFind(r)
  BY <1>8 DEF FollowFind
<1>9. CASE FollowWorld(r)
  BY <1>9 DEF FollowWorld
<1>10. CASE FollowMember(r)
  BY <1>10 DEF FollowMember
<1>11. CASE FollowExisting(r)
  BY <1>11 DEF FollowExisting, Existing
<1> QED
  BY <1>1, <1>2, <1>3, <1>4, <1>5, <1>6, <1>7, <1>8, <1>9, <1>10, <1>11

(* ... that change a role, leave or hand the world over ... *)
LEMMA GoverningLooks ==
  ASSUME WorldConsistent, NEW r \in Requests, UNCHANGED replicaSet,
         \/ RoleMember(r) \/ RoleWorld(r) \/ RoleRights(r) \/ RoleCurrent(r)
         \/ LeaveMember(r) \/ LeaveWorld(r) \/ LeaveRights(r) \/ TransferRead(r)
         \/ TransferMember(r) \/ TransferOld(r) \/ HandoverAssess(r) \/ HandoverFind(r)
  PROVE  Looks(r)
<1> USE DEF WorldConsistent, Is, Calm, Returning, WorldPlaces, Answers
<1>0. Op(r).by \in Users /\ Op(r).on \in Users
  BY Requested
<1>1. CASE RoleMember(r)
  BY <1>0, <1>1, SeeMemberLooks, RefuseLooks DEF RoleMember
<1>2. CASE RoleWorld(r)
  BY <1>2, SeeWorldLooks, RefuseLooks DEF RoleWorld
<1>3. CASE RoleRights(r)
  BY <1>3, KeepLooks, RefuseLooks DEF RoleRights
<1>4. CASE RoleCurrent(r)
  BY <1>4, FinishLooks DEF RoleCurrent
<1>5. CASE LeaveMember(r)
  BY <1>0, <1>5, SeeMemberLooks, RefuseLooks DEF LeaveMember
<1>6. CASE LeaveWorld(r)
  BY <1>6, SeeWorldLooks, RefuseLooks DEF LeaveWorld
<1>7. CASE LeaveRights(r)
  BY <1>7, KeepLooks, RefuseLooks DEF LeaveRights
<1>8. CASE TransferRead(r)
  BY <1>8, SeeWorldLooks, RefuseLooks DEF TransferRead
<1>9. CASE TransferMember(r)
  BY <1>0, <1>9, SeeMemberLooks, RefuseLooks DEF TransferMember
<1>10. CASE TransferOld(r)
  <2> DEFINE place == IF members[req[r].owner].role = PJ THEN "demote" ELSE "owner"
             new == [req[r] EXCEPT !.old = members[req[r].owner], !.pc = place]
  <2>1. Op(r).kind = "transfer" /\ req[r].pc = "old" /\ UNCHANGED <<data, worldHistory>>
    BY <1>10 DEF TransferOld
  <2>2. req[r] \in Request /\ req[r].owner \in Users /\ members[req[r].owner] \in Membership
    BY Requested DEF WorldTypeOK
  <2>3. place \in WorldPlaces /\ place # "count"
    OBVIOUS
  <2> HIDE DEF place, WorldPlaces
  <2>4. new \in Request /\ new.op = Op(r) /\ new.pc = place /\ new.delta = req[r].delta
    BY <2>2, <2>3 DEF Request, Op
  <2>5. req' = [req EXCEPT ![r] = new]
    BY <1>10 DEF TransferOld, place
  <2> HIDE DEF new
  <2> QED  BY <2>1, <2>3, <2>4, <2>5, LearnLooks
<1>11. CASE HandoverAssess(r)
  BY <1>11, KeepLooks, RefuseLooks, FinishLooks DEF HandoverAssess
<1>12. CASE HandoverFind(r)
  BY <1>0, <1>12, SeeMemberLooks, FinishLooks DEF HandoverFind
<1> QED
  BY <1>1, <1>2, <1>3, <1>4, <1>5, <1>6, <1>7, <1>8, <1>9, <1>10, <1>11, <1>12

(* ... and that end the world or change its mode. *)
LEMMA EndingLooks ==
  ASSUME WorldConsistent, NEW r \in Requests, UNCHANGED replicaSet,
         \/ DeleteRead(r) \/ DeleteRights(r) \/ RestoreRead(r) \/ CloseAccount(r)
         \/ PurgeSelect(r) \/ PurgeCheck(r) \/ UpdateRead(r)
  PROVE  Looks(r)
<1> USE KeepLooks, RefuseLooks, SeeWorldLooks
    DEF WorldConsistent, Is, Calm, Returning, WorldPlaces
<1>1. CASE DeleteRead(r)
  BY <1>1 DEF DeleteRead
<1>2. CASE DeleteRights(r)
  BY <1>2 DEF DeleteRights
<1>3. CASE RestoreRead(r)
  BY <1>3 DEF RestoreRead
<1>4. CASE CloseAccount(r)
  BY <1>4 DEF CloseAccount
<1>5. CASE PurgeSelect(r)
  BY <1>5 DEF PurgeSelect
<1>6. CASE PurgeCheck(r)
  BY <1>6 DEF PurgeCheck
<1>7. CASE UpdateRead(r)
  BY <1>7 DEF UpdateRead
<1> QED
  BY <1>1, <1>2, <1>3, <1>4, <1>5, <1>6, <1>7

-----------------------------------------------------------------------------
(***************************************************************************)
(* Steps that write, but not to what the invariant speaks of.              *)
(***************************************************************************)
LEMMA WorldFields ==
  ASSUME WorldTypeOK
  PROVE  /\ world \in World /\ world.exists \in BOOLEAN /\ world.owner \in Users
         /\ world.players \in Int /\ members \in [Users -> Membership]
         /\ applications \in [Users -> Application] /\ invites \in [InviteIds -> Invite]
         /\ req \in [Requests -> Request]
<1>1. req \in [Requests -> Request]
  BY DEF WorldTypeOK, Request, Answers
<1>2. world \in World
  BY DEF WorldTypeOK
<1> QED
  BY <1>1, <1>2 DEF WorldTypeOK, World

(* The commands on the document of the world. *)
LEMMA WorldWrites ==
  ASSUME WorldTypeOK
  PROVE  /\ \A m \in {"public", "open", "closed"} : [world EXCEPT !.mode = m] \in World
         /\ \A d, o \in BOOLEAN : [world EXCEPT !.deleted = d, !.old = o] \in World
         /\ [world EXCEPT !.old = TRUE] \in World
         /\ \A v \in Users : [world EXCEPT !.owner = v] \in World
         /\ \A v \in Users :
              [world EXCEPT !.deleted = FALSE, !.old = FALSE, !.owner = v] \in World
         /\ \A d \in Int : [world EXCEPT !.players = @ + d] \in World
         /\ [world EXCEPT !.exists = FALSE] \in World
<1>1. world \in World
  BY DEF WorldTypeOK
<1>2. \A m \in {"public", "open", "closed"} : [world EXCEPT !.mode = m] \in World
  BY <1>1 DEF World
<1>3. \A d, o \in BOOLEAN : [world EXCEPT !.deleted = d, !.old = o] \in World
  BY <1>1 DEF World
<1>4. [world EXCEPT !.old = TRUE] \in World /\ [world EXCEPT !.exists = FALSE] \in World
  BY <1>1 DEF World
<1>5. \A v \in Users : [world EXCEPT !.owner = v] \in World
  BY <1>1 DEF World
<1>6. \A v \in Users : [world EXCEPT !.deleted = FALSE, !.old = FALSE, !.owner = v] \in World
  BY <1>1 DEF World
<1>7. \A d \in Int : [world EXCEPT !.players = @ + d] \in World
  BY <1>1 DEF World
<1> QED
  BY <1>2, <1>3, <1>4, <1>5, <1>6, <1>7

(* Somebody who finishes, or goes on to a place that is not "count", has   *)
(* proceeded. *)
LEMMA GoProceeds ==
  ASSUME WorldTypeOK, NEW r \in Requests, NEW place \in WorldPlaces, Goto(r, place), Calm(r),
         place # "count"
  PROVE  Proceeds(r) /\ req'[r].pc = place
BY GoneTo DEF Proceeds, Calm

LEMMA FinishProceeds ==
  ASSUME WorldTypeOK, NEW r \in Requests, NEW answer \in Answers, Finish(r, answer), Calm(r)
  PROVE  Proceeds(r) /\ req'[r].pc = "done" /\ Vouched(r)
BY Finished DEF Proceeds, Calm, Vouched

(* A request whose step is another step of its kind has moved. *)
LEMMA Moved ==
  ASSUME NEW r \in Requests, NEW kinds, Op(r).kind \in kinds, req'[r].pc # req[r].pc
  PROVE  Steps(r, kinds)
BY DEF Steps

(* An application that is dropped was the one found, and it was its        *)
(* author's or somebody with the right to reject who dropped it.           *)
LEMMA DropAside ==
  ASSUME WorldConsistent, NEW r \in Requests, NEW u \in Users, NEW answer \in Answers,
         UNCHANGED replicaSet, DropApplication(r, u), Finish(r, answer), Calm(r),
         req[r].pc = "drop",
         Op(r).kind \in {"cancel", "reject"} \/ (Op(r).kind = "approve" /\ u = Op(r).on)
  PROVE  Aside(r) /\ Rightly
<1>1. Proceeds(r) /\ req'[r].pc = "done" /\ Vouched(r)
  BY FinishProceeds DEF WorldConsistent
<1>2. /\ applications' \in [Users -> Application]
      /\ \A v \in Users \ {u} : applications'[v] = applications[v]
      /\ UNCHANGED <<world, members, invites, worldHistory>>
  BY WorldFields, Records DEF WorldConsistent, DropApplication
<1>3. Aside(r)
  BY <1>1, <1>2, WorldFields DEF WorldConsistent, Aside, SameWorld, Papers
<1>4. Rightly
  <2>1. CASE Op(r).kind \in {"cancel", "reject"}
    <3>1. Steps(r, {"cancel", "reject", "purge"})
      BY <1>1, <2>1, Moved
    <3> QED  BY <3>1 DEF Rightly
  <2>2. CASE Op(r).kind = "approve" /\ u = Op(r).on
    <3>1. u \in admitted'
      BY <1>2, <2>2 DEF WorldConsistent, LetIn, worldHistory
    <3> QED  BY <1>2, <3>1 DEF Rightly
  <2> QED  BY <2>1, <2>2
<1> QED
  BY <1>3, <1>4

LEMMA CreateAside ==
  ASSUME WorldConsistent, NEW r \in Requests, UNCHANGED replicaSet, RequestCreate(r)
  PROVE  Aside(r) /\ Rightly
<1> DEFINE u == Op(r).by
<1>1. Calm(r) /\ u \in Users /\ Op(r).draft \in BOOLEAN
  BY Requested DEF RequestCreate, Is, Calm, Returning, WorldConsistent
<1>2. CASE applications[u].open /\ Refuse(r)
  BY <1>1, <1>2, RefuseLooks, LookAside DEF WorldConsistent
<1>3. CASE /\ ~applications[u].open /\ Finish(r, "ok")
           /\ applications' = [applications EXCEPT ![u] =
                [open |-> TRUE, draft |-> Op(r).draft, id |-> r]]
           /\ UNCHANGED <<world, members, invites, worldHistory>>
  <2>1. Proceeds(r) /\ Vouched(r)
    BY <1>1, <1>3, FinishProceeds DEF WorldConsistent, Answers
  <2>2. [open |-> TRUE, draft |-> Op(r).draft, id |-> r] \in Application
    BY <1>1 DEF Application, Ids
  <2>3. applications' \in [Users -> Application]
    BY <1>3, <2>2, WorldFields DEF WorldConsistent
  <2>4. Aside(r)
    BY <1>3, <2>1, <2>3, WorldFields DEF WorldConsistent, Aside, SameWorld, Papers
  <2>5. \A v \in Users : applications[v].open => applications'[v].open
    BY <1>1, <1>3, WorldFields DEF WorldConsistent
  <2> QED  BY <2>4, <2>5 DEF Rightly
<1> QED
  BY <1>2, <1>3 DEF RequestCreate

(* Only invitations are written. *)
LEMMA InviteAside ==
  ASSUME WorldConsistent, NEW r \in Requests, UNCHANGED <<world, members, applications>>,
         UNCHANGED <<worldHistory, replicaSet>>, invites' \in [InviteIds -> Invite],
         Proceeds(r), Vouched(r)
  PROVE  Aside(r) /\ Rightly
BY WorldFields DEF WorldConsistent, Aside, SameWorld, Papers, Rightly

LEMMA StatusAside ==
  ASSUME WorldConsistent, NEW r \in Requests, NEW i \in InviteIds, NEW answer \in Answers,
         NEW status \in {"pending", "accepted", "declined", "revoked", "expired"},
         UNCHANGED replicaSet, SetStatus(i, status), Finish(r, answer), Calm(r)
  PROVE  Aside(r) /\ Rightly
<1>1. Proceeds(r) /\ Vouched(r)
  BY FinishProceeds DEF WorldConsistent
<1>2. invites' \in [InviteIds -> Invite]
  BY WorldFields DEF WorldConsistent, SetStatus, Invite
<1> QED
  BY <1>1, <1>2, InviteAside DEF SetStatus

LEMMA InvitesAside ==
  ASSUME WorldConsistent, NEW r \in Requests, UNCHANGED replicaSet,
         \/ InviteCreate(r) \/ RevokeSet(r) \/ AcceptSet(r) \/ DeclineSet(r)
         \/ FollowLate(r) \/ FollowUse(r) \/ FollowClose(r)
  PROVE  Aside(r) /\ Rightly
<1>0. Op(r).invite \in InviteIds /\ r \in InviteIds /\ Op(r).on \in Users /\ WorldTypeOK
  BY Requested DEF WorldConsistent, InviteIds
<1> USE DEF Is, Calm, Returning, WorldPlaces, Answers
<1>1. CASE InviteCreate(r)
  <2>1. CASE Refuse(r)
    BY <1>0, <1>1, <2>1, RefuseLooks, LookAside DEF InviteCreate
  <2>2. CASE ~Refuse(r)
    <3> DEFINE new == [kind |-> IF ForUser(r) THEN "user" ELSE "link", user |-> Op(r).on,
                       used |-> 0, max |-> 1, late |-> FALSE, status |-> "pending"]
    <3>1. /\ invites' = [invites EXCEPT ![r] = new] /\ Finish(r, "ok") /\ Calm(r)
          /\ UNCHANGED <<world, members, applications, worldHistory>>
      BY <1>1, <2>2 DEF InviteCreate
    <3>2. new \in Invite
      BY <1>0 DEF Invite
    <3> HIDE DEF new
    <3>3. invites' \in [InviteIds -> Invite]
      BY <1>0, <3>1, <3>2, WorldFields
    <3>4. Proceeds(r) /\ Vouched(r)
      BY <1>0, <3>1, FinishProceeds
    <3> QED  BY <3>1, <3>3, <3>4, InviteAside
  <2> QED  BY <2>1, <2>2
<1>2. CASE RevokeSet(r)
  BY <1>0, <1>2, StatusAside DEF RevokeSet
<1>3. CASE AcceptSet(r)
  BY <1>0, <1>3, StatusAside DEF AcceptSet
<1>4. CASE DeclineSet(r)
  BY <1>0, <1>4, StatusAside DEF DeclineSet
<1>5. CASE FollowLate(r)
  BY <1>0, <1>5, StatusAside DEF FollowLate
<1>6. CASE FollowUse(r)
  <2> DEFINE i == Op(r).invite
  <2>1. /\ invites' = [invites EXCEPT ![i].used = @ + 1] /\ Calm(r)
        /\ Goto(r, "close") \/ Finish(r, "ok")
        /\ UNCHANGED <<world, members, applications, worldHistory>>
        /\ Op(r).kind = "follow"
    BY <1>6 DEF FollowUse
  <2>2. invites' \in [InviteIds -> Invite]
    <3>1. invites[i] \in Invite
      BY <1>0, WorldFields
    <3>2. [invites[i] EXCEPT !.used = @ + 1] \in Invite
      BY <3>1 DEF Invite
    <3> QED  BY <1>0, <2>1, <3>2, WorldFields
  <2>3. Proceeds(r) /\ Vouched(r)
    BY <1>0, <2>1, FinishProceeds, GoProceeds DEF Vouched
  <2> QED  BY <2>1, <2>2, <2>3, InviteAside
<1>7. CASE FollowClose(r)
  BY <1>0, <1>7, StatusAside DEF FollowClose
<1> QED
  BY <1>1, <1>2, <1>3, <1>4, <1>5, <1>6, <1>7

(* What deletes the world for now, or changes its mode. *)
LEMMA EndingAside ==
  ASSUME WorldConsistent, NEW r \in Requests, UNCHANGED replicaSet,
         \/ DeleteWrite(r) \/ CloseAccountWrite(r) \/ UpdateWrite(r) \/ PurgeApplications(r)
  PROVE  Aside(r) /\ Rightly
<1>0. WorldTypeOK /\ Op(r).mode \in {"public", "open", "closed"}
  BY Requested DEF WorldConsistent
<1> USE DEF Is, Calm, Returning, Answers
<1>1. CASE UpdateWrite(r) /\ Refuse(r)
  BY <1>0, <1>1, RefuseLooks, LookAside DEF UpdateWrite
<1>2. CASE DeleteWrite(r) \/ CloseAccountWrite(r) \/ (UpdateWrite(r) /\ ~Refuse(r))
  <2>1. /\ Finish(r, "ok") /\ Calm(r) /\ UNCHANGED <<members, applications, invites, worldHistory>>
    BY <1>2 DEF DeleteWrite, CloseAccountWrite, UpdateWrite, MarkDeleted
  <2>2. SameWorld
    <3>1. \/ world' = world
          \/ world' = [world EXCEPT !.deleted = TRUE, !.old = FALSE]
          \/ world' = [world EXCEPT !.mode = Op(r).mode]
      BY <1>2 DEF DeleteWrite, CloseAccountWrite, UpdateWrite, MarkDeleted
    <3>2. world' \in World
      BY <1>0, <3>1, WorldFields, WorldWrites
    <3>3. /\ world'.exists = world.exists /\ world'.owner = world.owner
          /\ world'.players = world.players
      <4>1. CASE world' = world
        BY <4>1
      <4>2. CASE world' = [world EXCEPT !.deleted = TRUE, !.old = FALSE]
        BY <1>0, <4>2, WorldFields DEF World
      <4>3. CASE world' = [world EXCEPT !.mode = Op(r).mode]
        BY <1>0, <4>3, WorldFields DEF World
      <4> QED  BY <3>1, <4>1, <4>2, <4>3
    <3> QED  BY <3>2, <3>3 DEF SameWorld
  <2>3. Proceeds(r) /\ Vouched(r)
    BY <1>0, <2>1, FinishProceeds
  <2> QED  BY <1>0, <2>1, <2>2, <2>3, WorldFields DEF Aside, Papers, Rightly
<1>3. CASE PurgeApplications(r)
  <2>1. /\ Goto(r, "members") /\ Calm(r) /\ Op(r).kind = "purge" /\ req[r].pc = "applications"
        /\ UNCHANGED <<world, members, invites, worldHistory>>
        /\ applications' \in {applications, [u \in Users |-> NoApplication]}
    BY <1>3 DEF PurgeApplications
  <2>2. applications' \in [Users -> Application]
    BY <1>0, <2>1, Records, WorldFields
  <2>3. Proceeds(r) /\ req'[r].pc = "members"
    BY <1>0, <2>1, GoProceeds DEF WorldPlaces
  <2>4. Steps(r, {"cancel", "reject", "purge"})
    BY <2>1, <2>3, Moved
  <2> QED
    BY <1>0, <2>1, <2>2, <2>3, <2>4, WorldFields
       DEF Aside, SameWorld, Papers, Vouched, Rightly
<1> QED
  BY <1>1, <1>2, <1>3

-----------------------------------------------------------------------------
(***************************************************************************)
(* The members, and who counts as a player.                                *)
(***************************************************************************)
Players == {u \in Users : RoleOf(u) = Hrac}
Adding(d) == {r \in Requests : req[r].delta = d}

LEMMA Finite ==
  /\ IsFiniteSet(Players) /\ Cardinality(Players) \in Nat
  /\ \A d \in {1, -1} : IsFiniteSet(Adding(d)) /\ Pending(d) \in Nat
<1>1. IsFiniteSet(Players)
  <2>1. Players \in SUBSET Users
    BY DEF Players
  <2> QED  BY <2>1, FS_Subset, WorldAssumption
<1>2. \A d \in {1, -1} : IsFiniteSet(Adding(d)) /\ Pending(d) = Cardinality(Adding(d))
  <2> TAKE d \in {1, -1}
  <2>1. Adding(d) \in SUBSET Requests
    BY DEF Adding
  <2> QED  BY <2>1, FS_Subset, WorldAssumption DEF Pending, Adding
<1> QED
  BY <1>1, <1>2, FS_CardinalityType

LEMMA FiniteNext ==
  /\ Cardinality(Players)' \in Nat /\ Pending(1)' \in Nat /\ Pending(-1)' \in Nat
<1>1. Players' \in SUBSET Users /\ Adding(1)' \in SUBSET Requests
      /\ Adding(-1)' \in SUBSET Requests
  BY DEF Players, Adding
<1>2. IsFiniteSet(Players') /\ IsFiniteSet(Adding(1)') /\ IsFiniteSet(Adding(-1)')
  BY <1>1, FS_Subset, WorldAssumption
<1> QED
  BY <1>2, FS_CardinalityType DEF Pending, Adding

(* One membership is written: the number of players follows it. *)
LEMMA PlayersFollow ==
  ASSUME WorldTypeOK, NEW u \in Users, NEW m \in Membership, members' = [members EXCEPT ![u] = m]
  PROVE  Cardinality(Players') = Cardinality(Players) + CountAs(m.role) - CountAs(RoleOf(u))
<1>1. /\ RoleOf(u)' = m.role
      /\ \A v \in Users \ {u} : RoleOf(v)' = RoleOf(v)
  BY WorldFields DEF RoleOf
<1>2. u \in Players <=> RoleOf(u) = Hrac
  BY DEF Players
<1>3. CASE m.role = Hrac
  <2>1. Players' = Players \cup {u}
    BY <1>1, <1>3 DEF Players
  <2>2. Cardinality(Players \cup {u}) =
          IF u \in Players THEN Cardinality(Players) ELSE Cardinality(Players) + 1
    BY Finite, FS_AddElement
  <2> QED  BY <1>2, <1>3, <2>1, <2>2, Finite DEF CountAs
<1>4. CASE m.role # Hrac
  <2>1. Players' = Players \ {u}
    BY <1>1, <1>4 DEF Players
  <2>2. Cardinality(Players \ {u}) =
          IF u \in Players THEN Cardinality(Players) - 1 ELSE Cardinality(Players)
    BY Finite, FS_RemoveElement
  <2> QED  BY <1>2, <1>4, <2>1, <2>2, Finite DEF CountAs
<1> QED
  BY <1>3, <1>4

(* An increment that a request takes up, or lays down. *)
LEMMA PendingAdds ==
  ASSUME WorldConsistent, NEW r \in Requests, Turn(r), req[r].pc # "count",
         NEW d \in {-1, 1}, req'[r].delta = d
  PROVE  Pending(1)' - Pending(-1)' = Pending(1) - Pending(-1) + d
<1>1. req[r].delta = 0 /\ \A q \in Requests \ {r} : req'[q].delta = req[q].delta
  BY DEF WorldConsistent, Counting, Turn
<1>2. ASSUME NEW x \in {-1, 1}
      PROVE  Pending(x)' = IF x = d THEN Pending(x) + 1 ELSE Pending(x)
  <2>1. CASE x = d
    <3>1. Adding(x)' = Adding(x) \cup {r} /\ r \notin Adding(x)
      BY <1>1, <2>1 DEF Adding
    <3>2. Cardinality(Adding(x) \cup {r}) = Cardinality(Adding(x)) + 1
      BY <3>1, Finite, FS_AddElement
    <3> QED  BY <2>1, <3>1, <3>2 DEF Pending, Adding
  <2>2. CASE x # d
    <3>1. Adding(x)' = Adding(x)
      BY <1>1, <2>2 DEF Adding
    <3> QED  BY <2>2, <3>1 DEF Pending, Adding
  <2> QED  BY <2>1, <2>2
<1>3. /\ Pending(1)' = IF d = 1 THEN Pending(1) + 1 ELSE Pending(1)
      /\ Pending(-1)' = IF d = -1 THEN Pending(-1) + 1 ELSE Pending(-1)
  BY <1>2
<1> QED
  BY <1>3, Finite

LEMMA PendingDrops ==
  ASSUME WorldConsistent, NEW r \in Requests, Turn(r), NEW d \in {-1, 1},
         req[r].delta = d, req'[r].delta = 0
  PROVE  Pending(1)' - Pending(-1)' = Pending(1) - Pending(-1) - d
<1>1. \A q \in Requests \ {r} : req'[q].delta = req[q].delta
  BY DEF Turn
<1>2. ASSUME NEW x \in {-1, 1}
      PROVE  Pending(x)' = IF x = d THEN Pending(x) - 1 ELSE Pending(x)
  <2>1. CASE x = d
    <3>1. Adding(x)' = Adding(x) \ {r} /\ r \in Adding(x)
      BY <1>1, <2>1 DEF Adding
    <3>2. Cardinality(Adding(x) \ {r}) = Cardinality(Adding(x)) - 1
      BY <3>1, Finite, FS_RemoveElement
    <3> QED  BY <2>1, <3>1, <3>2 DEF Pending, Adding
  <2>2. CASE x # d
    <3>1. Adding(x)' = Adding(x)
      BY <1>1, <2>2 DEF Adding
    <3> QED  BY <2>2, <3>1 DEF Pending, Adding
  <2> QED  BY <2>1, <2>2
<1>3. /\ Pending(1)' = IF d = 1 THEN Pending(1) - 1 ELSE Pending(1)
      /\ Pending(-1)' = IF d = -1 THEN Pending(-1) - 1 ELSE Pending(-1)
  BY <1>2
<1> QED
  BY <1>3, Finite

(***************************************************************************)
(* A step of one request that writes at most one membership.               *)
(***************************************************************************)
LEMMA MembersLetIn ==
  ASSUME WorldConsistent, NEW r \in Requests, Turn(r), Vouched(r),
         NEW u \in Users, NEW m \in Membership, members' = [members EXCEPT ![u] = m],
         m.role # Nobody => u \in admitted', admitted \subseteq admitted'
  PROVE  LetIn'
<1>1. \A v \in Users : IsMember(v)' => v \in admitted'
  BY WorldFields DEF WorldConsistent, LetIn, IsMember, RoleOf
<1> QED
  BY <1>1, VouchedStays DEF LetIn, Op

(* It is not the owner who loses his membership, or that is on record. *)
LEMMA MembersGhost ==
  ASSUME WorldConsistent, NEW r \in Requests, Turn(r), ~Returning(r),
         NEW u \in Users, NEW m \in Membership, members' = [members EXCEPT ![u] = m],
         UNCHANGED world, orphaned => orphaned',
         IsMember(u) /\ m.role = Nobody /\ u = world.owner => orphaned'
  PROVE  GhostNamed'
<1>1. \A q \in Requests : Returning(q) => Returning(q)' /\ Op(q)' = Op(q)
  BY ReturningSame
<1>2. ~IsMember(world.owner)' => orphaned' \/ ~IsMember(world.owner)
  BY WorldFields DEF WorldConsistent, IsMember, RoleOf
<1> QED
  BY <1>1, <1>2 DEF WorldConsistent, GhostNamed

(* The counter keeps up with the players, or that is on record. *)
Keepsup(change) ==
  \/ uncounted'
  \/ /\ ~uncounted
     /\ Pending(1)' - Pending(-1)' = Pending(1) - Pending(-1) + change

Recorded ==
  /\ admitted \subseteq admitted' /\ admitted' \subseteq Users
  /\ orphaned' \in BOOLEAN /\ uncounted' \in BOOLEAN
  /\ orphaned => orphaned'

LEMMA MemberWritten ==
  ASSUME WorldConsistent, NEW r \in Requests, Turn(r), ~Returning(r), Vouched(r),
         NEW u \in Users, NEW m \in Membership, members' = [members EXCEPT ![u] = m],
         UNCHANGED <<world, replicaSet>>, Papers, Recorded, Counting',
         m.role # Nobody => u \in admitted',
         IsMember(u) /\ m.role = Nobody /\ u = world.owner => orphaned',
         Keepsup(CountAs(m.role) - CountAs(RoleOf(u)))
  PROVE  WorldConsistent'
<1>1. WorldTypeOK'
  BY WorldFields DEF WorldConsistent, WorldTypeOK, Papers, Recorded, Turn, Request, Answers
<1>2. LetIn' /\ GhostNamed'
  BY MembersLetIn, MembersGhost DEF Recorded
<1>3. PlayersCounted'
  <2>1. Cardinality(Players') = Cardinality(Players) + CountAs(m.role) - CountAs(RoleOf(u))
    BY PlayersFollow DEF WorldConsistent
  <2>2. CountAs(m.role) \in {0, 1} /\ CountAs(RoleOf(u)) \in {0, 1}
    BY DEF CountAs
  <2>3. /\ Pending(1)' \in Nat /\ Pending(-1)' \in Nat /\ Pending(1) \in Nat
        /\ Pending(-1) \in Nat /\ Cardinality(Players) \in Nat /\ world.players \in Int
    BY Finite, FiniteNext, WorldFields DEF WorldConsistent
  <2>4. world.exists /\ ~uncounted =>
          world.players + Pending(1) - Pending(-1) = Cardinality(Players)
    BY DEF WorldConsistent, PlayersCounted, Players
  <2>5. world.exists /\ ~uncounted' =>
          world.players + Pending(1)' - Pending(-1)' = Cardinality(Players')
    BY <2>1, <2>2, <2>3, <2>4 DEF Keepsup
  <2> QED  BY <2>5 DEF PlayersCounted, Players
<1> QED
  BY <1>1, <1>2, <1>3 DEF WorldConsistent

(* Proceeding takes up no increment. *)
LEMMA ProceedsKeeps ==
  ASSUME WorldConsistent, NEW r \in Requests, Proceeds(r)
  PROVE  /\ Turn(r) /\ ~Returning(r) /\ Counting'
         /\ Pending(1)' - Pending(-1)' = Pending(1) - Pending(-1)
BY PendingSame DEF Proceeds

(* A new member. *)
LEMMA InsertConsistent ==
  ASSUME WorldConsistent, NEW r \in Requests, Proceeds(r), NEW u \in Users,
         NEW role \in {Ctenar, Hrac}, ~IsMember(u), Insert(r, u, role),
         applications' \in [Users -> Application], UNCHANGED replicaSet,
         Op(r).kind = "approve" => u = Op(r).on
  PROVE  WorldConsistent' /\ u \in admitted'
<1> DEFINE m == [role |-> role, id |-> r]
<1>1. m \in Membership /\ m.role = role /\ role # Nobody /\ role \in Int
  BY DEF Membership, Ids, Roles, Zadatel, PJ, Ctenar, Hrac, Nobody
<1>2. /\ members' = [members EXCEPT ![u] = m] /\ admitted' = admitted \cup {u}
      /\ uncounted' = (uncounted \/ role = Hrac) /\ UNCHANGED <<world, invites, orphaned>>
  BY DEF Insert
<1> HIDE DEF m
<1>3. Papers /\ Recorded /\ u \in admitted'
  BY <1>2, WorldFields DEF WorldConsistent, WorldTypeOK, Papers, Recorded
<1>4. Vouched(r)
  BY <1>3 DEF Vouched
<1>5. Keepsup(CountAs(m.role) - CountAs(RoleOf(u)))
  <2>1. CountAs(RoleOf(u)) = 0
    BY DEF IsMember, CountAs, Nobody, Hrac
  <2>2. CASE role = Hrac
    BY <1>2, <2>2 DEF Keepsup
  <2>3. CASE role = Ctenar
    <3>0. CountAs(m.role) = 0
      BY <1>1, <2>3 DEF CountAs, Ctenar, Hrac
    <3>1. CountAs(m.role) - CountAs(RoleOf(u)) = 0
      BY <2>1, <3>0
    <3>2. uncounted' = uncounted
      BY <1>2, <2>3 DEF WorldConsistent, WorldTypeOK, Ctenar, Hrac
    <3>3. Pending(1) \in Nat /\ Pending(-1) \in Nat
      BY Finite
    <3> QED  BY <3>1, <3>2, <3>3, ProceedsKeeps DEF Keepsup
  <2> QED  BY <2>2, <2>3
<1> QED
  BY <1>1, <1>2, <1>3, <1>4, <1>5, ProceedsKeeps, MemberWritten

(* A role written by the membership's id, whichever it was. *)
LEMMA RoleConsistent ==
  ASSUME WorldConsistent, NEW r \in Requests, Proceeds(r), Vouched(r), NEW u \in Users,
         NEW id, NEW role \in Roles, WriteRole(u, id, role), UNCHANGED replicaSet
  PROVE  WorldConsistent' /\ Rightly
<1> DEFINE there == IsMember(u) /\ members[u].id = id
           m == IF there THEN [members[u] EXCEPT !.role = role] ELSE members[u]
<1>1. members[u] \in Membership /\ role \in Int /\ role # Nobody
  BY WorldFields DEF WorldConsistent, Roles, Zadatel, PJ, Nobody
<1>2. /\ m \in Membership /\ members' = [members EXCEPT ![u] = m]
      /\ m.role # Nobody => IsMember(u) /\ (IsMember(u) => m.role # Nobody)
      /\ IsMember(u) => m.role # Nobody
  BY <1>1, WorldFields DEF WorldConsistent, WriteRole, Membership, IsMember, RoleOf
<1>3. /\ uncounted' = (uncounted \/ (there /\ (RoleOf(u) = Hrac) # (role = Hrac)))
      /\ UNCHANGED <<world, applications, invites, admitted, orphaned>>
  BY DEF WriteRole
<1>4. Papers /\ Recorded
  BY <1>3, WorldFields DEF WorldConsistent, WorldTypeOK, Papers, Recorded
<1>5. Keepsup(CountAs(m.role) - CountAs(RoleOf(u)))
  <2>1. CASE there /\ (RoleOf(u) = Hrac) # (role = Hrac)
    BY <1>3, <2>1 DEF Keepsup
  <2>2. CASE ~(there /\ (RoleOf(u) = Hrac) # (role = Hrac))
    <3>1. CountAs(m.role) - CountAs(RoleOf(u)) = 0
      <4>1. (m.role = Hrac) <=> (RoleOf(u) = Hrac)
        BY <1>1, <2>2 DEF RoleOf, Membership
      <4> QED  BY <4>1 DEF CountAs
    <3>2. uncounted' = uncounted
      BY <1>3, <2>2 DEF WorldConsistent, WorldTypeOK
    <3>3. Pending(1) \in Nat /\ Pending(-1) \in Nat
      BY Finite
    <3> HIDE DEF m
    <3> QED  BY <3>1, <3>2, <3>3, ProceedsKeeps DEF Keepsup
  <2> QED  BY <2>1, <2>2
<1> HIDE DEF m
<1>6. m.role # Nobody => u \in admitted'
  BY <1>2, <1>3 DEF WorldConsistent, LetIn
<1>7. WorldConsistent'
  BY <1>2, <1>3, <1>4, <1>5, <1>6, ProceedsKeeps, MemberWritten
<1> QED
  BY <1>3, <1>7 DEF Rightly

LEMMA Entries ==
  ASSUME WorldConsistent, NEW r \in Requests, UNCHANGED replicaSet,
         \/ JoinSave(r) \/ ApproveTx(r) \/ ApproveSave(r) \/ ApproveSaveDraft(r)
         \/ AcceptSave(r) \/ FollowSave(r)
  PROVE  WorldConsistent' /\ Rightly
<1>0. WorldTypeOK /\ Op(r).by \in Users /\ Op(r).on \in Users
  BY Requested DEF WorldConsistent
<1>1. Calm(r)
  BY DEF JoinSave, ApproveTx, ApproveSave, ApproveSaveDraft, AcceptSave, FollowSave,
         Is, Calm, Returning
<1> DEFINE Enters(u) ==
      /\ ~IsMember(u) /\ (Op(r).kind = "approve" => u = Op(r).on)
      /\ \E role \in {Ctenar, Hrac} : Insert(r, u, role)
      /\ applications' \in [Users -> Application]
      /\ \A v \in Users \ {u} : applications'[v] = applications[v]
<1>2. ASSUME NEW u \in Users, Enters(u), Proceeds(r)
      PROVE  WorldConsistent' /\ Rightly
  <2>1. WorldConsistent' /\ u \in admitted'
    BY <1>2, InsertConsistent
  <2> QED  BY <1>2, <2>1 DEF Rightly
<1>3. ASSUME Looks(r)
      PROVE  WorldConsistent' /\ Rightly
  BY <1>0, <1>3, LookAside, AsideConsistent
<1>4. ASSUME UNCHANGED applications
      PROVE  applications' \in [Users -> Application]
  BY <1>0, <1>4, WorldFields
<1>5. CASE JoinSave(r)
  <2>1. CASE IsMember(Op(r).by)
    <3>1. Looks(r)
      BY <1>0, <1>1, <1>5, <2>1, FinishLooks DEF JoinSave, Answers
    <3> QED  BY <1>3, <3>1
  <2>2. CASE ~IsMember(Op(r).by)
    <3>1. /\ Insert(r, Op(r).by, Ctenar) /\ UNCHANGED applications /\ Finish(r, "ok")
          /\ Op(r).kind = "join"
      BY <1>5, <2>2 DEF JoinSave, Is
    <3>2. Proceeds(r)
      BY <1>0, <1>1, <3>1, FinishProceeds DEF Answers
    <3> QED  BY <1>0, <1>2, <1>4, <2>2, <3>1, <3>2
  <2> QED  BY <2>1, <2>2
<1>6. CASE ApproveTx(r)
  <2>1. CASE IsMember(Op(r).on)
    <3>1. Looks(r)
      BY <1>0, <1>1, <1>6, <2>1, KeepLooks DEF ApproveTx, WorldPlaces
    <3> QED  BY <1>3, <3>1
  <2>2. CASE ~IsMember(Op(r).on)
    <3>1. /\ Insert(r, Op(r).on, Ctenar) /\ Finish(r, "ok")
          /\ \/ UNCHANGED applications
             \/ applications' = [applications EXCEPT ![Op(r).on] = NoApplication]
      BY <1>6, <2>2 DEF ApproveTx
    <3>2. Proceeds(r)
      BY <1>0, <1>1, <3>1, FinishProceeds DEF Answers
    <3>3. /\ applications' \in [Users -> Application]
          /\ \A v \in Users \ {Op(r).on} : applications'[v] = applications[v]
      BY <1>0, <3>1, WorldFields, Records
    <3> QED  BY <1>0, <1>2, <2>2, <3>1, <3>2, <3>3
  <2> QED  BY <2>1, <2>2
<1>7. CASE ApproveSave(r) \/ ApproveSaveDraft(r)
  <2>1. CASE IsMember(Op(r).on)
    <3>1. Looks(r)
      BY <1>0, <1>1, <1>7, <2>1, KeepLooks DEF ApproveSave, ApproveSaveDraft, WorldPlaces
    <3> QED  BY <1>3, <3>1
  <2>2. CASE ~IsMember(Op(r).on)
    <3>1. /\ \E role \in {Ctenar, Hrac} : Insert(r, Op(r).on, role)
          /\ UNCHANGED applications /\ Goto(r, "drop")
      BY <1>7, <2>2 DEF ApproveSave, ApproveSaveDraft
    <3>2. Proceeds(r)
      BY <1>0, <1>1, <3>1, GoProceeds DEF WorldPlaces
    <3> QED  BY <1>0, <1>2, <1>4, <2>2, <3>1, <3>2
  <2> QED  BY <2>1, <2>2
<1>8. CASE AcceptSave(r) \/ FollowSave(r)
  <2>0. Op(r).kind # "approve" /\ (CreateCtenar(r, "set") \/ CreateCtenar(r, "use"))
    BY <1>8 DEF AcceptSave, FollowSave, Is
  <2>1. CASE IsMember(Op(r).by)
    <3>1. Looks(r)
      BY <1>0, <1>1, <2>0, <2>1, KeepLooks DEF CreateCtenar, WorldPlaces
    <3> QED  BY <1>3, <3>1
  <2>2. CASE ~IsMember(Op(r).by)
    <3>1. /\ Insert(r, Op(r).by, Ctenar) /\ UNCHANGED applications
          /\ Goto(r, "set") \/ Goto(r, "use")
      BY <2>0, <2>2 DEF CreateCtenar
    <3>2. Proceeds(r)
      BY <1>0, <1>1, <3>1, GoProceeds DEF WorldPlaces
    <3> QED  BY <1>0, <1>2, <1>4, <2>0, <2>2, <3>1, <3>2
  <2> QED  BY <2>1, <2>2
<1> QED
  BY <1>5, <1>6, <1>7, <1>8

(* Roles written without a look at what they replace: by an approval, a    *)
(* transfer and its rollback, and a hand-over.                             *)
LEMMA Rewrites ==
  ASSUME WorldConsistent, NEW r \in Requests, UNCHANGED replicaSet,
         \/ ApproveRaise(r) \/ TransferPromote(r) \/ TransferDemote(r)
         \/ (TransferRegrade(r) /\ ~Refuse(r)) \/ HandoverWrite(r)
  PROVE  WorldConsistent' /\ Rightly
<1>0. /\ WorldTypeOK /\ Op(r).by \in Users /\ Op(r).on \in Users /\ req[r].owner \in Users
      /\ {Hrac, PomocnyPJ, PJ} \subseteq Roles
  BY Requested DEF WorldConsistent, Roles, Zadatel, Hrac, PomocnyPJ, PJ
<1>1. Calm(r)
  BY DEF ApproveRaise, TransferPromote, TransferDemote, TransferRegrade, HandoverWrite,
         Is, Calm, Returning
<1>2. \E u \in Users, role \in Roles, id \in {req[r].old.id, req[r].copy.id} :
        WriteRole(u, id, role)
  BY <1>0 DEF ApproveRaise, TransferPromote, TransferDemote, TransferRegrade, HandoverWrite
<1>3. admitted' = admitted
  BY <1>2 DEF WriteRole
<1>4. Proceeds(r) /\ Vouched(r)
  <2>1. CASE TransferRegrade(r) \/ HandoverWrite(r)
    <3>1. PICK answer \in Answers : Finish(r, answer)
      BY <2>1 DEF TransferRegrade, HandoverWrite, Refuse, Answers
    <3> QED  BY <1>0, <1>1, <3>1, FinishProceeds
  <2>2. CASE TransferPromote(r) \/ TransferDemote(r)
    <3>1. Op(r).kind = "transfer" /\ (Goto(r, "old") \/ Goto(r, "owner"))
      BY <2>2 DEF TransferPromote, TransferDemote, Is
    <3> QED  BY <1>0, <1>1, <3>1, GoProceeds DEF WorldPlaces, Vouched
  <2>3. CASE ApproveRaise(r)
    <3>1. Op(r).kind = "approve" /\ req[r].pc = "raise" /\ Goto(r, "drop")
      BY <2>3 DEF ApproveRaise, Is
    <3>2. Op(r).on \in admitted'
      BY <1>3, <3>1 DEF WorldConsistent, LetIn
    <3> QED  BY <1>0, <1>1, <3>1, <3>2, GoProceeds DEF WorldPlaces, Vouched
  <2> QED  BY <2>1, <2>2, <2>3
<1> QED
  BY <1>2, <1>4, RoleConsistent

(* updateRoleIfChanged takes up the increment for what it replaces. *)
LEMMA RoleWriteConsistent ==
  ASSUME WorldConsistent, NEW r \in Requests, UNCHANGED replicaSet, RoleWrite(r)
  PROVE  WorldConsistent' /\ Rightly
<1> DEFINE u == Op(r).on
           hit == /\ IsMember(u) /\ members[u].id = req[r].copy.id
                  /\ RoleOf(u) # Op(r).role
           delta == CountAs(Op(r).role) - CountAs(RoleOf(u))
           m == [members[u] EXCEPT !.role = Op(r).role]
<1>0. /\ WorldTypeOK /\ u \in Users /\ Op(r).role \in Roles /\ members[u] \in Membership
      /\ Calm(r) /\ Op(r).kind # "approve"
  BY Requested, WorldFields DEF WorldConsistent, RoleWrite, Is, Calm, Returning
<1>1. CASE ~hit
  <2>1. Looks(r)
    BY <1>0, <1>1, KeepLooks DEF RoleWrite, WorldPlaces
  <2> QED  BY <1>0, <2>1, LookAside, AsideConsistent
<1>2. CASE hit
  <2>1. /\ members' = [members EXCEPT ![u].role = Op(r).role]
        /\ UNCHANGED <<world, applications, invites, worldHistory>>
        /\ IF delta = 0 THEN Finish(r, "ok")
           ELSE req' = [req EXCEPT ![r].pc = "count", ![r].delta = delta]
    BY <1>2 DEF RoleWrite
  <2>2. /\ m \in Membership /\ m.role = Op(r).role /\ m.role # Nobody
        /\ members' = [members EXCEPT ![u] = m]
    BY <1>0, <2>1, WorldFields DEF Membership, Roles, Zadatel, PJ, Nobody
  <2>3. delta \in -1..1 /\ delta = CountAs(m.role) - CountAs(RoleOf(u))
    BY <2>2 DEF CountAs
  <2>4. u \in admitted'
    BY <1>0, <1>2, <2>1 DEF WorldConsistent, LetIn, worldHistory
  <2>5. Papers /\ Recorded
    BY <1>0, <2>1, WorldFields DEF WorldTypeOK, Papers, Recorded, worldHistory
  <2> HIDE DEF delta, m
  <2>6. Turn(r) /\ Vouched(r) /\ Counting' /\ Keepsup(delta)
    <3>0. Pending(1) \in Nat /\ Pending(-1) \in Nat
      BY Finite
    <3>1. CASE delta = 0
      <4>1. Finish(r, "ok")
        BY <2>1, <3>1
      <4>2. Proceeds(r) /\ Vouched(r)
        BY <1>0, <4>1, FinishProceeds DEF Answers
      <4>3. uncounted' = uncounted
        BY <2>1 DEF worldHistory
      <4> QED  BY <1>0, <3>0, <3>1, <4>2, <4>3, ProceedsKeeps DEF Keepsup, WorldTypeOK
    <3>2. CASE delta # 0
      <4>1. Turn(r) /\ req'[r].pc = "count" /\ req'[r].delta = delta
        BY <1>0, <2>1, <2>3, <3>2, Counts
      <4>2. delta \in {-1, 1} /\ req[r].pc # "count"
        BY <1>0, <2>3, <3>2 DEF Calm
      <4>3. Pending(1)' - Pending(-1)' = Pending(1) - Pending(-1) + delta
        BY <4>1, <4>2, PendingAdds
      <4>4. Counting'
        BY <4>1 DEF WorldConsistent, Counting, Turn
      <4>5. uncounted' = uncounted
        BY <2>1 DEF worldHistory
      <4> QED  BY <1>0, <4>1, <4>3, <4>4, <4>5 DEF Keepsup, Vouched, WorldTypeOK
    <3> QED  BY <3>1, <3>2
  <2>7. WorldConsistent'
    BY <1>0, <2>1, <2>2, <2>3, <2>4, <2>5, <2>6, MemberWritten DEF Calm
  <2> QED  BY <2>1, <2>7 DEF Rightly
<1> QED
  BY <1>1, <1>2

(* leave takes one off for a player it has read, whatever it deletes. *)
LEMMA LeaveConsistent ==
  ASSUME WorldConsistent, NEW r \in Requests, UNCHANGED replicaSet, LeaveDelete(r)
  PROVE  WorldConsistent' /\ Rightly
<1> DEFINE u == Op(r).on
           there == IsMember(u) /\ members[u].id = req[r].copy.id
           player == req[r].copy.role = Hrac
           m == IF there THEN NoMember ELSE members[u]
<1>0. /\ WorldTypeOK /\ u \in Users /\ members[u] \in Membership
      /\ Calm(r) /\ Op(r).kind # "approve"
  BY Requested, WorldFields DEF WorldConsistent, LeaveDelete, Is, Calm, Returning
<1>1. /\ members' = [members EXCEPT ![u] = m]
      /\ orphaned' = (orphaned \/ (there /\ world.owner = u))
      /\ uncounted' = (uncounted \/ (there /\ RoleOf(u) = Hrac) # player)
      /\ UNCHANGED <<world, applications, invites, admitted>>
      /\ IF player THEN req' = [req EXCEPT ![r].pc = "count", ![r].delta = -1]
         ELSE Finish(r, "ok")
  BY <1>0, WorldFields DEF LeaveDelete
<1>2. /\ m \in Membership
      /\ m.role # Nobody => IsMember(u)
      /\ IsMember(u) /\ m.role = Nobody => there
  BY <1>0, Records DEF IsMember, RoleOf
<1>3. Papers /\ Recorded
  BY <1>0, <1>1, WorldFields DEF WorldTypeOK, Papers, Recorded
<1>4. CountAs(m.role) - CountAs(RoleOf(u)) = IF there /\ RoleOf(u) = Hrac THEN -1 ELSE 0
  BY <1>0, Records DEF CountAs, RoleOf, Nobody, Hrac
<1> HIDE DEF m, there
<1>5. Turn(r) /\ Vouched(r) /\ Counting' /\ Keepsup(CountAs(m.role) - CountAs(RoleOf(u)))
  <2>0. Pending(1) \in Nat /\ Pending(-1) \in Nat
    BY Finite
  <2>1. CASE player
    <3>1. Turn(r) /\ req'[r].pc = "count" /\ req'[r].delta = -1
      BY <1>0, <1>1, <2>1, Counts
    <3>2. Pending(1)' - Pending(-1)' = Pending(1) - Pending(-1) + -1
      BY <1>0, <3>1, PendingAdds DEF Calm
    <3>3. Counting'
      BY <3>1 DEF WorldConsistent, Counting, Turn
    <3>4. uncounted' \/ (~uncounted /\ there /\ RoleOf(u) = Hrac)
      BY <1>0, <1>1, <2>1 DEF WorldTypeOK
    <3> QED  BY <1>0, <1>4, <3>1, <3>2, <3>3, <3>4 DEF Keepsup, Vouched
  <2>2. CASE ~player
    <3>1. Proceeds(r) /\ Vouched(r)
      BY <1>0, <1>1, <2>2, FinishProceeds DEF Answers
    <3>2. uncounted' \/ (~uncounted /\ ~(there /\ RoleOf(u) = Hrac))
      BY <1>0, <1>1, <2>2 DEF WorldTypeOK
    <3> QED  BY <1>4, <2>0, <3>1, <3>2, ProceedsKeeps DEF Keepsup
  <2> QED  BY <2>1, <2>2
<1>6. m.role # Nobody => u \in admitted'
  BY <1>0, <1>1, <1>2 DEF WorldConsistent, LetIn
<1>7. WorldConsistent'
  BY <1>0, <1>1, <1>2, <1>3, <1>5, <1>6, MemberWritten DEF Calm
<1> QED
  BY <1>1, <1>7 DEF Rightly

-----------------------------------------------------------------------------
(***************************************************************************)
(* The document of the world: its owner, its counter, its end.             *)
(***************************************************************************)
LEMMA WorldWritten ==
  ASSUME WorldConsistent, NEW r \in Requests, Turn(r), Vouched(r),
         world' \in World, world'.exists => world.exists,
         UNCHANGED <<members, applications, invites, admitted, replicaSet>>,
         orphaned' \in BOOLEAN, uncounted' \in BOOLEAN, Counting', GhostNamed',
         \/ uncounted'
         \/ /\ ~uncounted
            /\ world'.exists =>
                 world'.players + Pending(1)' - Pending(-1)'
                   = world.players + Pending(1) - Pending(-1)
  PROVE  WorldConsistent' /\ Rightly
<1>1. WorldTypeOK'
  BY WorldFields DEF WorldConsistent, WorldTypeOK, Turn, Request, Answers
<1>2. LetIn'
  <2>1. \A u \in Users : IsMember(u)' => u \in admitted'
    BY DEF WorldConsistent, LetIn, IsMember, RoleOf
  <2> QED  BY <2>1, VouchedStays DEF LetIn, Op
<1>3. PlayersCounted'
  BY DEF WorldConsistent, PlayersCounted, RoleOf
<1> QED
  BY <1>1, <1>2, <1>3 DEF WorldConsistent, Rightly

(* The owner stays, and who looks at him again still does. *)
LEMMA OwnerStays ==
  ASSUME WorldConsistent, NEW r \in Requests, Turn(r), ~Returning(r),
         world'.exists => world.exists /\ world'.owner = world.owner,
         members' = members, orphaned => orphaned'
  PROVE  GhostNamed'
<1>1. \A q \in Requests : Returning(q) => Returning(q)' /\ Op(q)' = Op(q)
  BY ReturningSame
<1> QED
  BY <1>1 DEF WorldConsistent, GhostNamed, IsMember, RoleOf

(* Another owner: a member, one that is on record, or one that r is to     *)
(* look at again.                                                          *)
LEMMA OwnerWritten ==
  ASSUME WorldConsistent, NEW r \in Requests, Turn(r), members' = members,
         NEW v \in Users, world'.exists => world'.owner = v,
         IsMember(v) \/ orphaned' \/ (Returning(r)' /\ Op(r).on = v)
  PROVE  GhostNamed'
BY DEF GhostNamed, IsMember, RoleOf, Turn, Op

LEMMA CountConsistent ==
  ASSUME WorldConsistent, NEW r \in Requests, UNCHANGED replicaSet, CountPlayers(r)
  PROVE  WorldConsistent' /\ Rightly
<1> DEFINE d == req[r].delta
<1>0. WorldTypeOK /\ d \in -1..1 /\ ~Returning(r)
  BY Requested DEF WorldConsistent, CountPlayers, Returning
<1>1. /\ world' = IF world.exists THEN [world EXCEPT !.players = @ + d] ELSE world
      /\ Finish(r, "ok") /\ UNCHANGED <<members, applications, invites, worldHistory>>
  BY DEF CountPlayers
<1>2. Turn(r) /\ req'[r].pc = "done" /\ req'[r].delta = 0 /\ Vouched(r)
  BY <1>0, <1>1, Finished DEF Answers, Vouched
<1>3. world' \in World /\ world'.exists = world.exists /\ world'.owner = world.owner
      /\ (world.exists => world'.players = world.players + d)
  <2>1. CASE world.exists
    <3>1. world' = [world EXCEPT !.players = @ + d]
      BY <1>1, <2>1
    <3>2. d \in Int
      BY <1>0
    <3> HIDE DEF d
    <3>3. world' \in World
      BY <1>0, <3>1, <3>2, WorldWrites
    <3> QED  BY <1>0, <2>1, <3>1, <3>3, WorldFields DEF World
  <2>2. CASE ~world.exists
    BY <1>0, <1>1, <2>2, WorldFields
  <2> QED  BY <2>1, <2>2
<1>4. Counting' /\ GhostNamed'
  <2>1. Counting'
    BY <1>2 DEF WorldConsistent, Counting, Turn
  <2>2. orphaned => orphaned'
    BY <1>1 DEF worldHistory
  <2> QED  BY <1>0, <1>1, <1>2, <1>3, <2>1, <2>2, OwnerStays
<1>5. Pending(1)' - Pending(-1)' = Pending(1) - Pending(-1) - d
  <2>1. CASE d = 0
    <3>1. \A q \in Requests : req'[q].delta = req[q].delta
      BY <1>2, <2>1 DEF Turn
    <3>2. Pending(1)' = Pending(1) /\ Pending(-1)' = Pending(-1)
      BY <3>1 DEF Pending
    <3> QED  BY <2>1, <3>2, Finite
  <2>2. CASE d # 0
    <3>1. d \in {-1, 1}
      BY <1>0, <2>2
    <3> QED  BY <1>2, <3>1, PendingDrops
  <2> QED  BY <2>1, <2>2
<1>6. world.exists => world'.players + Pending(1)' - Pending(-1)'
                        = world.players + Pending(1) - Pending(-1)
  BY <1>0, <1>3, <1>5, Finite, FiniteNext, WorldFields
<1>7. uncounted' = uncounted /\ orphaned' = orphaned /\ orphaned \in BOOLEAN
      /\ uncounted \in BOOLEAN
  BY <1>0, <1>1 DEF worldHistory, WorldTypeOK
<1> QED
  BY <1>1, <1>2, <1>3, <1>4, <1>6, <1>7, WorldWritten DEF worldHistory

(* A world that gets an owner: the request proceeds, or looks again. *)
LEMMA OwnerConsistent ==
  ASSUME WorldConsistent, NEW r \in Requests, UNCHANGED replicaSet, Turn(r), Vouched(r),
         req[r].pc # "count", req'[r].delta \in {0, req[r].delta},
         UNCHANGED <<members, applications, invites, admitted, uncounted>>,
         world' \in World, world'.exists = world.exists,
         world.exists => world'.players = world.players,
         orphaned' \in BOOLEAN, GhostNamed'
  PROVE  WorldConsistent' /\ Rightly
<1>1. req[r].delta = 0 /\ \A q \in Requests : req'[q].delta = req[q].delta
  BY DEF WorldConsistent, Counting, Turn
<1>2. Pending(1)' = Pending(1) /\ Pending(-1)' = Pending(-1)
  BY <1>1 DEF Pending
<1>3. Counting'
  BY <1>1 DEF WorldConsistent, Counting, Turn
<1>4. uncounted' = uncounted /\ uncounted \in BOOLEAN
  BY DEF WorldConsistent, WorldTypeOK
<1> QED
  BY <1>2, <1>3, <1>4, WorldWritten

LEMMA TransferOwnerConsistent ==
  ASSUME WorldConsistent, NEW r \in Requests, UNCHANGED replicaSet, TransferOwner(r)
  PROVE  WorldConsistent' /\ Rightly
<1>0. /\ WorldTypeOK /\ Op(r).on \in Users /\ Op(r).kind = "transfer" /\ req[r].pc = "owner"
      /\ Calm(r) /\ UNCHANGED <<members, applications, invites, worldHistory>>
  BY Requested DEF WorldConsistent, TransferOwner, Is, Calm, Returning
<1>1. CASE ~world.exists
  <2>1. Finish(r, "refused") /\ world' = world
    BY <1>1 DEF TransferOwner
  <2>2. Looks(r)
    BY <1>0, <2>1, FinishLooks DEF data, Answers
  <2> QED  BY <1>0, <2>2, LookAside, AsideConsistent
<1>2. CASE world.exists
  <2>1. world' = [world EXCEPT !.owner = Op(r).on] /\ Goto(r, "recheck")
    BY <1>2 DEF TransferOwner
  <2>2. Turn(r) /\ req'[r].pc = "recheck" /\ req'[r].delta = req[r].delta
    BY <1>0, <2>1, GoneTo DEF WorldPlaces
  <2>3. Vouched(r) /\ Returning(r)'
    BY <1>0, <2>2 DEF Vouched, Returning, Turn
  <2>4. world' \in World
    BY <1>0, <2>1, WorldWrites
  <2>5. /\ world'.exists = world.exists /\ world'.owner = Op(r).on
        /\ world'.players = world.players
    BY <1>0, <2>1, WorldFields DEF World
  <2>6. GhostNamed'
    BY <1>0, <2>2, <2>3, <2>5, OwnerWritten
  <2> QED
    BY <1>0, <2>2, <2>3, <2>4, <2>5, <2>6, OwnerConsistent DEF Calm, worldHistory, WorldTypeOK
<1> QED
  BY <1>1, <1>2

LEMMA RecheckConsistent ==
  ASSUME WorldConsistent, NEW r \in Requests, UNCHANGED replicaSet, TransferRecheck(r)
  PROVE  WorldConsistent' /\ Rightly
<1>0. /\ WorldTypeOK /\ Op(r).on \in Users /\ Op(r).kind = "transfer" /\ req[r].pc = "recheck"
      /\ UNCHANGED <<data, worldHistory>>
      /\ IF IsMember(Op(r).on) THEN Finish(r, "ok") ELSE Goto(r, "giveBack")
  BY Requested DEF WorldConsistent, TransferRecheck, Is
<1>1. /\ Turn(r) /\ req'[r].delta \in {0, req[r].delta} /\ Vouched(r)
      /\ ~IsMember(Op(r).on) => req'[r].pc = "giveBack"
  BY <1>0, GoneTo, Finished DEF WorldPlaces, Answers, Vouched
<1>2. GhostNamed'
  <2>1. \A q \in Requests \ {r} : Returning(q) => Returning(q)' /\ Op(q)' = Op(q)
    BY <1>1 DEF Returning, Turn, Op
  <2>2. ~IsMember(Op(r).on) => Returning(r)' /\ Op(r)' = Op(r)
    BY <1>0, <1>1 DEF Returning, Turn
  <2> QED
    BY <1>0, <2>1, <2>2 DEF WorldConsistent, GhostNamed, IsMember, RoleOf, data, worldHistory
<1> QED
  BY <1>0, <1>1, <1>2, OwnerConsistent, WorldFields DEF data, worldHistory, WorldTypeOK

LEMMA GiveBackConsistent ==
  ASSUME WorldConsistent, NEW r \in Requests, UNCHANGED replicaSet, TransferGiveBack(r)
  PROVE  WorldConsistent' /\ Rightly
<1> DEFINE v == req[r].owner
<1>0. /\ WorldTypeOK /\ v \in Users /\ Op(r).kind = "transfer" /\ req[r].pc = "giveBack"
      /\ \/ /\ world' = IF world.exists THEN [world EXCEPT !.owner = v] ELSE world
            /\ orphaned' = (orphaned \/ ~IsMember(v))
         \/ /\ UNCHANGED world
            /\ orphaned' = (orphaned \/ (world.owner = Op(r).on /\ ~IsMember(Op(r).on)))
      /\ UNCHANGED <<members, applications, invites, admitted, uncounted>>
      /\ Goto(r, "regrade") \/ Finish(r, "refused")
  BY Requested DEF WorldConsistent, TransferGiveBack, Is
<1>1. Turn(r) /\ req'[r].delta \in {0, req[r].delta} /\ Vouched(r)
  BY <1>0, GoneTo, Finished DEF WorldPlaces, Answers, Vouched
<1>2. CASE /\ world' = IF world.exists THEN [world EXCEPT !.owner = v] ELSE world
           /\ orphaned' = (orphaned \/ ~IsMember(v))
  <2>1. world' \in World /\ world'.exists = world.exists
        /\ (world.exists => world'.owner = v /\ world'.players = world.players)
    <3>1. CASE world.exists
      <4>1. world' = [world EXCEPT !.owner = v]
        BY <1>2, <3>1
      <4>2. world' \in World
        BY <1>0, <4>1, WorldWrites
      <4> QED  BY <1>0, <3>1, <4>1, <4>2, WorldFields DEF World
    <3>2. CASE ~world.exists
      BY <1>0, <1>2, <3>2, WorldFields
    <3> QED  BY <3>1, <3>2
  <2>2. GhostNamed'
    BY <1>0, <1>1, <1>2, <2>1, OwnerWritten
  <2> QED
    BY <1>0, <1>1, <1>2, <2>1, <2>2, OwnerConsistent DEF WorldTypeOK
<1>3. CASE /\ UNCHANGED world
           /\ orphaned' = (orphaned \/ (world.owner = Op(r).on /\ ~IsMember(Op(r).on)))
  <2>1. \A q \in Requests \ {r} : Returning(q) => Returning(q)' /\ Op(q)' = Op(q)
    BY <1>1 DEF Returning, Turn, Op
  <2>2. GhostNamed'
    <3> SUFFICES ASSUME world'.exists, ~IsMember(world.owner)'
                 PROVE  orphaned' \/ \E q \in Requests : (Returning(q)' /\ Op(q)'.on = world'.owner)
      BY DEF GhostNamed
    <3>1. world.exists /\ ~IsMember(world.owner)
      BY <1>0, <1>3 DEF IsMember, RoleOf
    <3>2. CASE orphaned
      BY <1>3, <3>2
    <3>3. ASSUME NEW q \in Requests, Returning(q), Op(q).on = world.owner
          PROVE  orphaned' \/ (Returning(q)' /\ Op(q)'.on = world'.owner)
      <4>1. CASE q = r
        <5>1. world.owner = Op(r).on /\ ~IsMember(Op(r).on)
          BY <3>1, <3>3, <4>1
        <5>2. orphaned'
          BY <1>3, <5>1
        <5> QED  BY <5>2
      <4>2. CASE q # r
        BY <1>3, <2>1, <3>3, <4>2
      <4> QED  BY <4>1, <4>2
    <3> QED  BY <3>1, <3>2, <3>3 DEF WorldConsistent, GhostNamed
  <2> QED
    BY <1>0, <1>1, <1>3, <2>2, OwnerConsistent, WorldFields DEF WorldTypeOK
<1> QED
  BY <1>0, <1>2, <1>3

LEMMA RestoreConsistent ==
  ASSUME WorldConsistent, NEW r \in Requests, UNCHANGED replicaSet, RestoreWrite(r)
  PROVE  WorldConsistent' /\ Rightly
<1> DEFINE v == IF Op(r).on = Op(r).by THEN world.owner ELSE Op(r).on
<1>0. /\ WorldTypeOK /\ v \in Users /\ Op(r).kind = "restore" /\ req[r].pc = "write"
      /\ world' = IF world.exists
                  THEN [world EXCEPT !.deleted = FALSE, !.old = FALSE, !.owner = v]
                  ELSE world
      /\ orphaned' = (orphaned \/ ~IsMember(v))
      /\ UNCHANGED <<members, applications, invites, admitted, uncounted>>
      /\ Finish(r, "ok")
  BY Requested, WorldFields DEF WorldConsistent, RestoreWrite, Is
<1> HIDE DEF v
<1>1. Turn(r) /\ req'[r].delta = 0 /\ Vouched(r)
  BY <1>0, Finished DEF Answers, Vouched
<1>2. world' \in World /\ world'.exists = world.exists
      /\ (world.exists => world'.owner = v /\ world'.players = world.players)
  <2>1. CASE world.exists
    <3>1. world' = [world EXCEPT !.deleted = FALSE, !.old = FALSE, !.owner = v]
      BY <1>0, <2>1
    <3>2. world' \in World
      BY <1>0, <3>1, WorldWrites
    <3> QED  BY <1>0, <2>1, <3>1, <3>2, WorldFields DEF World
  <2>2. CASE ~world.exists
    BY <1>0, <2>2, WorldFields
  <2> QED  BY <2>1, <2>2
<1>3. GhostNamed'
  BY <1>0, <1>1, <1>2, OwnerWritten
<1> QED
  BY <1>0, <1>1, <1>2, <1>3, OwnerConsistent DEF WorldTypeOK

-----------------------------------------------------------------------------
(***************************************************************************)
(* The purge, a crash, and the steps together.                             *)
(***************************************************************************)
LEMMA DropsAside ==
  ASSUME WorldConsistent, NEW r \in Requests, UNCHANGED replicaSet,
         CancelDrop(r) \/ ApproveDrop(r) \/ RejectDrop(r)
  PROVE  Aside(r) /\ Rightly
<1>0. Op(r).by \in Users /\ Op(r).on \in Users
  BY Requested DEF WorldConsistent
<1> USE DEF Is, Calm, Returning, Answers
<1>1. CASE CancelDrop(r)
  BY <1>0, <1>1, DropAside DEF CancelDrop
<1>2. CASE ApproveDrop(r)
  BY <1>0, <1>2, DropAside DEF ApproveDrop
<1>3. CASE RejectDrop(r)
  BY <1>0, <1>3, DropAside DEF RejectDrop
<1> QED
  BY <1>1, <1>2, <1>3

LEMMA PurgeMembersConsistent ==
  ASSUME WorldConsistent, NEW r \in Requests, UNCHANGED replicaSet, PurgeMembers(r)
  PROVE  WorldConsistent' /\ Rightly
<1>1. /\ WorldTypeOK /\ Calm(r) /\ Op(r).kind # "approve" /\ Goto(r, "world")
      /\ members' \in {members, [u \in Users |-> NoMember]} /\ orphaned' /\ uncounted'
      /\ UNCHANGED <<world, applications, invites, admitted>>
  BY DEF WorldConsistent, PurgeMembers, Is, Calm, Returning
<1>2. Turn(r) /\ Vouched(r) /\ Counting'
  BY <1>1, GoProceeds, PendingSame DEF Proceeds, WorldPlaces, Vouched
<1>3. /\ members' \in [Users -> Membership]
      /\ \A u \in Users : IsMember(u)' => IsMember(u)
  BY <1>1, WorldFields, Records DEF IsMember, RoleOf
<1>4. WorldTypeOK'
  BY <1>1, <1>2, <1>3, WorldFields DEF PurgeMembers, WorldTypeOK, Turn, Request, Answers
<1>5. LetIn'
  <2>1. \A u \in Users : IsMember(u)' => u \in admitted'
    BY <1>1, <1>3 DEF WorldConsistent, LetIn
  <2> QED  BY <1>1, <1>2, <2>1, VouchedStays DEF LetIn, Op
<1> QED
  BY <1>1, <1>2, <1>4, <1>5 DEF WorldConsistent, GhostNamed, PlayersCounted, Rightly

LEMMA PurgeWorldConsistent ==
  ASSUME WorldConsistent, NEW r \in Requests, UNCHANGED replicaSet, PurgeWorld(r)
  PROVE  WorldConsistent' /\ Rightly
<1>1. /\ WorldTypeOK /\ Calm(r) /\ Finish(r, "ok")
      /\ world' = world \/ world' = [world EXCEPT !.exists = FALSE]
      /\ UNCHANGED <<members, applications, invites, worldHistory>>
  BY DEF WorldConsistent, PurgeWorld, Is, Calm, Returning
<1>2. /\ Proceeds(r) /\ Vouched(r) /\ Turn(r) /\ ~Returning(r) /\ Counting'
      /\ Pending(1)' = Pending(1) /\ Pending(-1)' = Pending(-1)
  BY <1>1, FinishProceeds, PendingSame DEF Answers, Proceeds
<1>3. world' \in World /\ (world'.exists => world' = world)
  <2>1. CASE world' = world
    BY <1>1, <2>1, WorldFields
  <2>2. CASE world' = [world EXCEPT !.exists = FALSE]
    <3>1. world' \in World
      BY <1>1, <2>2, WorldWrites
    <3> QED  BY <1>1, <2>2, <3>1, WorldFields DEF World
  <2> QED  BY <1>1, <2>1, <2>2
<1>4. GhostNamed'
  <2>1. members' = members /\ orphaned' = orphaned
    BY <1>1 DEF worldHistory
  <2>2. world'.exists => world.exists /\ world'.owner = world.owner
    BY <1>3
  <2> QED  BY <1>2, <2>1, <2>2, OwnerStays
<1>5. /\ world'.exists => world.exists
      /\ world'.exists => world'.players + Pending(1)' - Pending(-1)'
                           = world.players + Pending(1) - Pending(-1)
  BY <1>2, <1>3
<1>6. /\ UNCHANGED <<members, applications, invites, admitted, orphaned, uncounted>>
      /\ orphaned \in BOOLEAN /\ uncounted \in BOOLEAN
  BY <1>1 DEF worldHistory, WorldTypeOK
<1> QED
  BY <1>2, <1>3, <1>4, <1>5, <1>6, WorldWritten

(* A crash between the role or the membership and the counter, or between  *)
(* the owner and the second look, is on record.                            *)
LEMMA CrashConsistent ==
  ASSUME WorldConsistent, NEW r \in Requests, UNCHANGED replicaSet, RequestDies(r)
  PROVE  WorldConsistent' /\ Rightly
<1>1. /\ WorldTypeOK /\ Finish(r, "crashed")
      /\ UNCHANGED <<world, members, applications, invites, admitted>>
      /\ uncounted' = (uncounted \/ req[r].pc = "count")
      /\ orphaned' = (orphaned \/ Returning(r))
  BY DEF WorldConsistent, RequestDies, data, Returning
<1>2. Turn(r) /\ req'[r].pc = "done" /\ req'[r].delta = 0 /\ Vouched(r)
  BY <1>1, Finished DEF Answers, Vouched
<1>3. Counting'
  BY <1>2 DEF WorldConsistent, Counting, Turn
<1>4. GhostNamed'
  <2>1. CASE Returning(r)
    BY <1>1, <2>1 DEF GhostNamed
  <2>2. CASE ~Returning(r)
    BY <1>1, <1>2, <2>2, OwnerStays
  <2> QED  BY <2>1, <2>2
<1>5. \/ uncounted'
      \/ /\ ~uncounted
         /\ Pending(1)' = Pending(1) /\ Pending(-1)' = Pending(-1)
  <2>1. CASE req[r].pc = "count"
    BY <1>1, <2>1
  <2>2. CASE req[r].pc # "count"
    <3>1. \A q \in Requests : req'[q].delta = req[q].delta
      BY <1>2, <2>2 DEF WorldConsistent, Counting, Turn
    <3> QED  BY <1>1, <2>2, <3>1 DEF Pending, WorldTypeOK
  <2> QED  BY <2>1, <2>2
<1>6. orphaned' \in BOOLEAN /\ uncounted' \in BOOLEAN
  BY <1>1 DEF WorldTypeOK
<1> QED
  BY <1>1, <1>2, <1>3, <1>4, <1>5, <1>6, WorldFields, WorldWritten

LEMMA MonthConsistent ==
  ASSUME WorldConsistent, MonthPasses, UNCHANGED replicaSet
  PROVE  WorldConsistent' /\ Rightly
<1>1. /\ WorldTypeOK /\ world' = [world EXCEPT !.old = TRUE]
      /\ UNCHANGED <<members, applications, invites, req, admitted, orphaned, uncounted>>
  BY DEF WorldConsistent, MonthPasses, worldHistory
<1>2. /\ world' \in World /\ world'.exists = world.exists /\ world'.owner = world.owner
      /\ world'.players = world.players
  <2>1. world' \in World
    BY <1>1, WorldWrites
  <2> QED  BY <1>1, <2>1, WorldFields DEF World
<1>3. WorldTypeOK' /\ LetIn' /\ Counting'
  BY <1>1, <1>2 DEF WorldConsistent, WorldTypeOK, LetIn, Counting, IsMember, RoleOf, Op
<1>4. GhostNamed'
  BY <1>1, <1>2 DEF WorldConsistent, GhostNamed, IsMember, RoleOf, Returning, Op
<1>5. PlayersCounted'
  BY <1>1, <1>2 DEF WorldConsistent, PlayersCounted, RoleOf, Pending
<1> QED
  BY <1>1, <1>3, <1>4, <1>5 DEF WorldConsistent, Rightly

LEMMA StutterConsistent ==
  ASSUME WorldConsistent, UNCHANGED worldVars
  PROVE  WorldConsistent'
<1>1. UNCHANGED <<world, members, applications, invites, replicaSet, req,
                  admitted, orphaned, uncounted>>
  BY DEF worldVars, data, worldHistory
<1>2. WorldTypeOK' /\ LetIn' /\ Counting'
  BY <1>1 DEF WorldConsistent, WorldTypeOK, LetIn, Counting, IsMember, RoleOf, Op
<1>3. GhostNamed'
  BY <1>1 DEF WorldConsistent, GhostNamed, IsMember, RoleOf, Returning, Op
<1>4. PlayersCounted'
  BY <1>1 DEF WorldConsistent, PlayersCounted, RoleOf, Pending
<1> QED
  BY <1>2, <1>3, <1>4 DEF WorldConsistent

LEMMA InitConsistent ==
  ASSUME WorldInit
  PROVE  WorldConsistent
<1> PICK b \in Beginnings :
       /\ world = b.world /\ members = b.members /\ applications = b.applications
       /\ replicaSet = b.replicaSet
       /\ invites = [i \in InviteIds |-> IF i \in OldInvites THEN b.invites[i]
                      ELSE [kind |-> "none", user |-> world.owner, used |-> 0,
                            max |-> 0, late |-> FALSE, status |-> "pending"]]
  BY DEF WorldInit
<1> PICK plan \in Plans :
       req = [r \in Requests |->
                [op |-> plan[r], pc |-> "start", owner |-> world.owner,
                 copy |-> NoMember, old |-> NoMember, delta |-> 0,
                 answer |-> "none"]]
  BY DEF WorldInit
<1>1. /\ world \in World /\ members \in [Users -> Membership]
      /\ applications \in [Users -> Application] /\ replicaSet \in BOOLEAN
      /\ b.invites \in [OldInvites -> Invite] /\ plan \in [Requests -> Operation]
      /\ world.exists /\ members[world.owner].role = PJ
      /\ world.players = Cardinality({u \in Users : members[u].role = Hrac})
  BY WorldAssumption
<1>2. world.owner \in Users /\ world.players \in Int
  BY <1>1 DEF World
<1>3. invites \in [InviteIds -> Invite]
  <2>1. [kind |-> "none", user |-> world.owner, used |-> 0,
         max |-> 0, late |-> FALSE, status |-> "pending"] \in Invite
    BY <1>2 DEF Invite
  <2> QED  BY <1>1, <2>1
<1>4. \A r \in Requests : /\ req[r] \in Request
                          /\ req[r].pc = "start" /\ req[r].delta = 0
  <2> SUFFICES ASSUME NEW r \in Requests
               PROVE  req[r] \in Request /\ req[r].pc = "start" /\ req[r].delta = 0
    OBVIOUS
  <2>1. plan[r] \in Operation
    BY <1>1
  <2> QED  BY <1>2, <2>1, Records DEF Request, Answers, WorldPlaces
<1>5. WorldTypeOK
  BY <1>1, <1>3, <1>4 DEF WorldInit, WorldTypeOK, Request, Answers
<1>6. LetIn /\ GhostNamed /\ Counting
  BY <1>1, <1>4 DEF WorldInit, LetIn, GhostNamed, Counting, IsMember, RoleOf, PJ, Nobody
<1>7. PlayersCounted
  <2>1. Pending(1) = 0 /\ Pending(-1) = 0
    <3>1. \A d \in {1, -1} : {r \in Requests : req[r].delta = d} = {}
      BY <1>4
    <3> QED  BY <3>1, FS_EmptySet DEF Pending
  <2> QED  BY <1>1, <1>2, <2>1 DEF PlayersCounted, RoleOf
<1> QED
  BY <1>5, <1>6, <1>7 DEF WorldConsistent

LEMMA RequestConsistent ==
  ASSUME WorldConsistent, NEW r \in Requests, UNCHANGED replicaSet,
         Entering(r) \/ Inviting(r) \/ Governing(r) \/ Ending(r) \/ RequestDies(r)
  PROVE  WorldConsistent' /\ Rightly
<1>0. ASSUME Looks(r) \/ (Aside(r) /\ Rightly)
      PROVE  WorldConsistent' /\ Rightly
  BY <1>0, LookAside, AsideConsistent DEF WorldConsistent
<1>1. CASE Entering(r)
  <2>1. CASE \/ JoinSave(r) \/ ApproveTx(r) \/ ApproveSave(r) \/ ApproveSaveDraft(r)
    BY <2>1, Entries
  <2>2. CASE CancelDrop(r) \/ ApproveDrop(r) \/ RejectDrop(r)
    BY <1>0, <2>2, DropsAside
  <2>3. CASE ApproveRaise(r)
    BY <2>3, Rewrites
  <2>4. CASE RequestCreate(r)
    BY <1>0, <2>4, CreateAside
  <2>5. CASE
         \/ Join(r) \/ JoinCheck(r) \/ RequestAccess(r) \/ RequestCheck(r) \/ CancelFind(r)
         \/ ApproveRead(r) \/ ApproveFind(r) \/ ApproveExisting(r) \/ ApprovePage(r)
         \/ ApproveClash(r) \/ RejectRead(r) \/ RejectFind(r)
    BY <1>0, <2>5, EnteringLooks
  <2> QED  BY <1>1, <2>1, <2>2, <2>3, <2>4, <2>5 DEF Entering
<1>2. CASE Inviting(r)
  <2>1. CASE AcceptSave(r) \/ FollowSave(r)
    BY <2>1, Entries
  <2>2. CASE \/ InviteCreate(r) \/ RevokeSet(r) \/ AcceptSet(r) \/ DeclineSet(r)
             \/ FollowLate(r) \/ FollowUse(r) \/ FollowClose(r)
    BY <1>0, <2>2, InvitesAside
  <2>3. CASE
         \/ InviteRead(r) \/ InviteCheck(r) \/ RevokeRead(r) \/ RevokeFind(r)
         \/ AcceptFind(r) \/ AcceptExisting(r) \/ DeclineFind(r) \/ FollowFind(r)
         \/ FollowWorld(r) \/ FollowMember(r) \/ FollowExisting(r)
    BY <1>0, <2>3, InvitingLooks
  <2> QED  BY <1>2, <2>1, <2>2, <2>3 DEF Inviting
<1>3. CASE Governing(r)
  <2>1. CASE RoleWrite(r)
    BY <2>1, RoleWriteConsistent
  <2>2. CASE CountPlayers(r)
    BY <2>2, CountConsistent
  <2>3. CASE LeaveDelete(r)
    BY <2>3, LeaveConsistent
  <2>4. CASE \/ TransferPromote(r) \/ TransferDemote(r)
             \/ (TransferRegrade(r) /\ ~Refuse(r)) \/ HandoverWrite(r)
    BY <2>4, Rewrites
  <2>5. CASE TransferOwner(r)
    BY <2>5, TransferOwnerConsistent
  <2>6. CASE TransferRecheck(r)
    BY <2>6, RecheckConsistent
  <2>7. CASE TransferGiveBack(r)
    BY <2>7, GiveBackConsistent
  <2>8. CASE
         \/ RoleMember(r) \/ RoleWorld(r) \/ RoleRights(r) \/ RoleCurrent(r)
         \/ LeaveMember(r) \/ LeaveWorld(r) \/ LeaveRights(r) \/ TransferRead(r)
         \/ TransferMember(r) \/ TransferOld(r) \/ HandoverAssess(r) \/ HandoverFind(r)
    BY <1>0, <2>8, GoverningLooks
  <2>9. CASE TransferRegrade(r) /\ Refuse(r)
    <3>1. Calm(r)
      BY <2>9 DEF TransferRegrade, Is, Calm, Returning
    <3> QED  BY <1>0, <2>9, <3>1, RefuseLooks DEF WorldConsistent
  <2> QED  BY <1>3, <2>1, <2>2, <2>3, <2>4, <2>5, <2>6, <2>7, <2>8, <2>9 DEF Governing
<1>4. CASE Ending(r)
  <2>1. CASE RestoreWrite(r)
    BY <2>1, RestoreConsistent
  <2>2. CASE DeleteWrite(r) \/ CloseAccountWrite(r) \/ UpdateWrite(r) \/ PurgeApplications(r)
    BY <1>0, <2>2, EndingAside
  <2>3. CASE PurgeMembers(r)
    BY <2>3, PurgeMembersConsistent
  <2>4. CASE PurgeWorld(r)
    BY <2>4, PurgeWorldConsistent
  <2>5. CASE
         \/ DeleteRead(r) \/ DeleteRights(r) \/ RestoreRead(r) \/ CloseAccount(r)
         \/ PurgeSelect(r) \/ PurgeCheck(r) \/ UpdateRead(r)
    BY <1>0, <2>5, EndingLooks
  <2> QED  BY <1>4, <2>1, <2>2, <2>3, <2>4, <2>5 DEF Ending
<1>5. CASE RequestDies(r)
  BY <1>5, CrashConsistent
<1> QED
  BY <1>1, <1>2, <1>3, <1>4, <1>5

LEMMA StepConsistent ==
  ASSUME WorldConsistent, [WorldNext]_worldVars
  PROVE  WorldConsistent' /\ [Rightly]_worldVars
<1>1. CASE WorldNext
  BY <1>1, RequestConsistent, MonthConsistent DEF WorldNext
<1>2. CASE UNCHANGED worldVars
  BY <1>2, StutterConsistent
<1> QED
  BY <1>1, <1>2

-----------------------------------------------------------------------------
(* What the following theorems rest on: every step keeps WorldConsistent.  *)
THEOREM WorldKept == WorldSpec => [](WorldConsistent)
<1>1. WorldInit => WorldConsistent
  BY InitConsistent
<1>2. WorldConsistent /\ [WorldNext]_worldVars => WorldConsistent'
  BY StepConsistent
<1> QED
  BY <1>1, <1>2, PTL DEF WorldSpec

(* A membership, an application, an invitation, the world and what each    *)
(* request has read keep their types; the counter need not stay positive.  *)
THEOREM MembershipTypes == WorldSpec => []WorldTypeOK
<1>1. WorldConsistent => WorldTypeOK
  BY DEF WorldConsistent
<1> QED
  BY <1>1, WorldKept, PTL

(***************************************************************************)
(* transferOwnership looks at the new owner's membership again (RC-R3), so *)
(* an owner on record without one has a request under way that will give   *)
(* the world back, or is one of the cases on record: the owner was put out *)
(* by a manager, an administrator named him, he had left when the rollback *)
(* wrote him back, the rollback failed, the purge took his membership, or  *)
(* the process died.                                                       *)
(***************************************************************************)
THEOREM GhostsExplained == WorldSpec => []GhostExplained
<1>1. WorldConsistent => GhostExplained
  BY DEF WorldConsistent, GhostNamed, GhostExplained, Rechecking, Returning
<1> QED
  BY <1>1, WorldKept, PTL

(***************************************************************************)
(* playerCount plus the increments on their way is the number of players,  *)
(* however updateMemberRole and leave interleave, until one of the writes  *)
(* that do not count (approval of a draft, transfer, hand-over), a purge   *)
(* or a death between the membership and the counter.                      *)
(***************************************************************************)
THEOREM PlayersTallied == WorldSpec => []PlayersCounted
<1>1. WorldConsistent => PlayersCounted
  BY DEF WorldConsistent
<1> QED
  BY <1>1, WorldKept, PTL

(***************************************************************************)
(* An approval drops the application only after a membership of its author *)
(* was seen or made, on each of its three ways, through every clash with   *)
(* another approval, an invitation or a join.                              *)
(***************************************************************************)
THEOREM ApplicantsKept == WorldSpec => ApplicantKept
<1>1. WorldConsistent /\ [WorldNext]_worldVars => [Rightly]_worldVars
  BY StepConsistent
<1> QED
  BY <1>1, WorldKept, PTL DEF WorldSpec, ApplicantKept, Rightly

=============================================================================
