--------------------------- MODULE MailQueueProofs --------------------------
(***************************************************************************)
(* Proofs about MailQueue, for any number of workers, tasks, jobs and      *)
(* attempts, whatever the mail server answers and whoever stops.           *)
(***************************************************************************)
EXTENDS MailQueue, TLAPS

LEMMA AttemptsType == MaxAttempts \in Nat /\ MaxAttempts >= 1
  BY QueueAssumption DEF MaxAttempts

LEMMA InitInductive ==
  ASSUME Init
  PROVE  IndInv
<1>1. TypeOK
  BY AttemptsType, QueueAssumption DEF Init, TypeOK, Stages, Rest
<1>2. ASSUME NEW r \in Runners PROVE Holding(r)
  BY DEF Init, Holding, Working, Rest
<1>3. Locking /\ OneSender
  BY DEF Init, Locking, OneSender, Working, Rest
<1>4. ASSUME NEW j \in Jobs PROVE Fresh(j) /\ Counting(j) /\ Acked(j)
  BY DEF Init, Fresh, Counting, Acked, Exists
<1>5. NothingLost
  BY QueueAssumption DEF Init, NothingLost, Jobs
<1> QED
  BY <1>1, <1>2, <1>3, <1>4, <1>5 DEF IndInv

-----------------------------------------------------------------------------
(* Each action keeps the invariant.                                        *)

LEMMA AskInductive ==
  ASSUME IndInv, NEW t \in Tasks, Ask(t)
  PROVE  IndInv'
<1>1. t \in Runners
  BY DEF Runners
<1>2. TypeOK'
  <2>1. answered' \in 0..MaxJobs
    BY QueueAssumption DEF IndInv, TypeOK, Ask
  <2>2. pc' \in [Runners -> Stages]
    BY DEF IndInv, TypeOK, Ask, Stages
  <2> QED
    BY <2>1, <2>2 DEF IndInv, TypeOK, Ask
<1>3. ASSUME NEW r \in Runners PROVE Holding(r)'
  BY <1>1, RunnersAssumption DEF IndInv, TypeOK, Ask, Holding, Working, Exists
<1>4. Locking'
  BY <1>1 DEF IndInv, TypeOK, Ask, Locking
<1>5. ASSUME NEW j \in Jobs PROVE Fresh(j)' /\ Counting(j)'
  BY DEF IndInv, Ask, Fresh, Counting, Exists
<1>6. OneSender'
  BY <1>1 DEF IndInv, TypeOK, Ask, OneSender, Working
<1>7. NothingLost'
  BY DEF IndInv, Ask, NothingLost, Exists
<1>8. ASSUME NEW j \in Jobs PROVE Acked(j)'
  BY <1>8, <1>1 DEF IndInv, TypeOK, Ask, Acked, Exists
<1> QED
  BY <1>2, <1>3, <1>4, <1>5, <1>6, <1>7, <1>8 DEF IndInv

LEMMA EnqueueInductive ==
  ASSUME IndInv, NEW t \in Tasks, Enqueue(t)
  PROVE  IndInv'
<1>1. t \in Runners
  BY DEF Runners
<1>a. /\ nextId \in Jobs /\ nextId \in Nat
      /\ ~Exists(nextId) /\ delivered[nextId] = 0 /\ nextId \notin failed
  <2>1. nextId \in Jobs /\ nextId \in Nat
    BY QueueAssumption DEF Enqueue, Jobs
  <2>2. Fresh(nextId)
    BY <2>1 DEF IndInv
  <2> QED
    BY <2>1, <2>2 DEF Fresh, Counting, Exists
<1>b. [attempts |-> 0, reserved |-> FALSE, due |-> TRUE] \in Job
  BY AttemptsType DEF Job
<1>c. [attempts |-> 0, reserved |-> FALSE, due |-> TRUE] # None
  BY <1>b, RunnersAssumption
<1>2. TypeOK'
  <2>1. job' \in [Jobs -> Job \cup {None}]
    BY <1>b DEF IndInv, TypeOK, Enqueue
  <2>2. nextId' \in 1..(MaxJobs + 1)
    BY QueueAssumption DEF IndInv, TypeOK, Enqueue, Jobs
  <2>3. pc' \in [Runners -> Stages]
    BY DEF IndInv, TypeOK, Enqueue, Stages
  <2> QED
    BY <2>1, <2>2, <2>3 DEF IndInv, TypeOK, Enqueue
<1>3. ASSUME NEW r \in Runners PROVE Holding(r)'
  <2>1. Holding(r) /\ held[r] \in Jobs \cup {None}
    BY <1>3 DEF IndInv, TypeOK
  <2>2. ASSUME held[r] \in Jobs, Exists(held[r]) PROVE job'[held[r]] = job[held[r]]
    BY <2>2, <1>a DEF IndInv, TypeOK, Enqueue
  <2> QED
    BY <1>1, <2>1, <2>2, RunnersAssumption DEF IndInv, TypeOK, Enqueue, Holding, Working, Exists
<1>4. Locking'
  BY <1>1 DEF IndInv, TypeOK, Enqueue, Locking
<1>5. ASSUME NEW j \in Jobs PROVE Fresh(j)' /\ Counting(j)'
  BY <1>5, <1>a, AttemptsType DEF IndInv, TypeOK, Enqueue, Fresh, Counting, Exists, Jobs
<1>6. OneSender'
  BY <1>1 DEF IndInv, TypeOK, Enqueue, OneSender, Working
<1>7. NothingLost'
  BY <1>a, <1>c DEF IndInv, TypeOK, Enqueue, NothingLost, Exists, Jobs
<1>8. ASSUME NEW j \in Jobs PROVE Acked(j)'
  BY <1>8, <1>1, <1>a DEF IndInv, TypeOK, Enqueue, Fresh, Acked, Exists
<1> QED
  BY <1>2, <1>3, <1>4, <1>5, <1>6, <1>7, <1>8 DEF IndInv

LEMMA NothingToClaimInductive ==
  ASSUME IndInv, NEW t \in Tasks, NothingToClaim(t)
  PROVE  IndInv'
<1>1. t \in Runners
  BY DEF Runners
<1>2. TypeOK'
  BY DEF IndInv, TypeOK, NothingToClaim, Stages
<1>3. ASSUME NEW r \in Runners PROVE Holding(r)'
  BY <1>1 DEF IndInv, TypeOK, NothingToClaim, Holding, Working, Exists
<1>4. Locking'
  BY <1>1 DEF IndInv, TypeOK, NothingToClaim, Locking
<1>5. ASSUME NEW j \in Jobs PROVE Fresh(j)' /\ Counting(j)'
  BY DEF IndInv, NothingToClaim, Fresh, Counting, Exists
<1>6. OneSender'
  BY <1>1 DEF IndInv, TypeOK, NothingToClaim, OneSender, Working
<1>7. NothingLost'
  BY DEF IndInv, NothingToClaim, NothingLost, Exists
<1>8. ASSUME NEW j \in Jobs PROVE Acked(j)'
  BY <1>8, <1>1 DEF IndInv, TypeOK, NothingToClaim, Acked, Exists
<1> QED
  BY <1>2, <1>3, <1>4, <1>5, <1>6, <1>7, <1>8 DEF IndInv

LEMMA SelectJobInductive ==
  ASSUME IndInv, NEW r \in Runners, SelectJob(r)
  PROVE  IndInv'
<1>0. PICK j \in Jobs :
        /\ Claimable(j)
        /\ held' = [held EXCEPT ![r] = j]
        /\ \E scanned \in SUBSET {k \in Jobs : Exists(k) /\ jobLock[k] = None} :
             jobLock' = [k \in Jobs |-> IF k \in scanned \cup {j} THEN r ELSE jobLock[k]]
  BY DEF SelectJob
<1>1. PICK scanned \in SUBSET {k \in Jobs : Exists(k) /\ jobLock[k] = None} :
        jobLock' = [k \in Jobs |-> IF k \in scanned \cup {j} THEN r ELSE jobLock[k]]
  BY <1>0
<1>2. \A k \in Jobs : jobLock[k] # None => jobLock'[k] = jobLock[k]
  BY <1>0, <1>1 DEF Claimable
<1>3. \A k \in Jobs : jobLock'[k] = jobLock[k] \/ jobLock'[k] = r
  BY <1>1
<1>4. pc[r] = "polling" /\ pc' = [pc EXCEPT ![r] = "claiming"]
      /\ UNCHANGED <<job, nextId, failed, answered, delivered, acked>>
  BY DEF SelectJob
<1>5. TypeOK'
  <2>1. jobLock' \in [Jobs -> Runners \cup {None}]
    BY <1>1 DEF IndInv, TypeOK
  <2>2. held' \in [Runners -> Jobs \cup {None}]
    BY <1>0 DEF IndInv, TypeOK
  <2>3. pc' \in [Runners -> Stages]
    BY <1>4 DEF IndInv, TypeOK, Stages
  <2> QED
    BY <1>4, <2>1, <2>2, <2>3 DEF IndInv, TypeOK
<1>6. ASSUME NEW s \in Runners PROVE Holding(s)'
  <2>1. CASE s = r
    <3>1. j # None
      BY RunnersAssumption, QueueAssumption DEF Jobs
    <3>2. jobLock'[j] = r
      BY <1>1
    <3> QED
      BY <1>0, <1>4, <2>1, <3>1, <3>2 DEF IndInv, TypeOK, Holding, Working, Claimable, Exists
  <2>2. CASE s # r
    <3>1. pc'[s] = pc[s] /\ held'[s] = held[s] /\ held[s] \in Jobs \cup {None} /\ Holding(s)
      BY <1>0, <1>4, <2>2, <1>6 DEF IndInv, TypeOK
    <3>2. pc[s] = "claiming" => jobLock'[held[s]] = s
      <4>1. pc[s] = "claiming" => held[s] \in Jobs /\ jobLock[held[s]] = s
        BY <3>1 DEF Holding
      <4> QED
        BY <4>1, <1>2, <1>6, RunnersAssumption
    <3> QED
      BY <1>4, <3>1, <3>2 DEF Holding, Working, Exists
  <2> QED
    BY <2>1, <2>2
<1>7. Locking'
  BY <1>3, <1>4 DEF IndInv, TypeOK, Locking
<1>8. ASSUME NEW k \in Jobs PROVE Fresh(k)' /\ Counting(k)'
  BY <1>4 DEF IndInv, Fresh, Counting, Exists
<1>9. OneSender'
  BY <1>0, <1>4 DEF IndInv, TypeOK, OneSender, Working
<1>10. NothingLost'
  BY <1>4 DEF IndInv, NothingLost, Exists
<1>11. ASSUME NEW k \in Jobs PROVE Acked(k)'
  BY <1>11, <1>0, <1>4 DEF IndInv, TypeOK, Acked, Exists
<1> QED
  BY <1>5, <1>6, <1>7, <1>8, <1>9, <1>10, <1>11 DEF IndInv

\* A runner that holds a job holds a row that exists.
LEMMA HeldRow ==
  ASSUME IndInv, NEW r \in Runners, pc[r] \in {"claiming", "sending", "accepted", "refused"}
  PROVE  /\ held[r] \in Jobs
         /\ Exists(held[r])
         /\ job[held[r]] \in Job
         /\ held[r] # None
         /\ job[held[r]].attempts \in Nat
         /\ delivered[held[r]] \in Nat
<1>1. Holding(r) /\ held[r] \in Jobs \cup {None}
  BY DEF IndInv, TypeOK
<1>2. held[r] \in Jobs /\ held[r] # None
  BY <1>1 DEF Holding
<1>3. Exists(held[r])
  BY <1>1 DEF Holding, Working
<1>4. job[held[r]] \in Job
  BY <1>2, <1>3 DEF IndInv, TypeOK, Exists
<1>5. job[held[r]].attempts \in Nat /\ delivered[held[r]] \in Nat
  BY <1>2, <1>4, AttemptsType DEF IndInv, TypeOK, Job
<1> QED
  BY <1>2, <1>3, <1>4, <1>5

LEMMA ReserveJobInductive ==
  ASSUME IndInv, NEW r \in Runners, ReserveJob(r)
  PROVE  IndInv'
<1> DEFINE h == held[r]
<1>1. /\ pc[r] = "claiming"
      /\ job' = [job EXCEPT ![h].reserved = TRUE, ![h].attempts = @ + 1]
      /\ pc' = [pc EXCEPT ![r] = "sending"]
      /\ jobLock' = [j \in Jobs |-> IF jobLock[j] = r THEN None ELSE jobLock[j]]
      /\ UNCHANGED <<nextId, failed, held, answered, delivered, acked>>
  BY DEF ReserveJob, Unlock
<1>2. /\ h \in Jobs /\ h # None /\ Exists(h) /\ job[h] \in Job
      /\ job[h].attempts \in Nat /\ delivered[h] \in Nat
  BY <1>1, HeldRow
<1>3. Holding(r) /\ Fresh(h) /\ Counting(h) /\ Acked(h) /\ TypeOK
  BY <1>2 DEF IndInv
<1>4. /\ ~job[h].reserved /\ jobLock[h] = r
      /\ ~(h >= nextId) /\ h \notin failed
      /\ delivered[h] <= job[h].attempts /\ job[h].attempts < MaxAttempts
  BY <1>1, <1>2, <1>3 DEF Holding, Fresh, Counting
<1>a. h \notin acked
  BY <1>2, <1>3, <1>4 DEF Acked
<1>5. job'[h] = [job[h] EXCEPT !.reserved = TRUE, !.attempts = @ + 1]
  BY <1>1, <1>2, <1>3 DEF TypeOK
<1>6. /\ job'[h] \in Job /\ job'[h].reserved /\ job'[h].attempts = job[h].attempts + 1
  <2>1. job[h].attempts + 1 \in 0..MaxAttempts
    BY <1>2, <1>4, AttemptsType
  <2> QED
    BY <1>2, <1>5, <2>1 DEF Job
<1>7. job'[h] # None
  BY <1>6, RunnersAssumption
<1>8. \A j \in Jobs : j # h => job'[j] = job[j]
  BY <1>1, <1>3 DEF TypeOK
<1> HIDE DEF h
<1>9. TypeOK'
  <2>1. job' \in [Jobs -> Job \cup {None}]
    BY <1>1, <1>3, <1>6, <1>8 DEF TypeOK
  <2>2. jobLock' \in [Jobs -> Runners \cup {None}]
    BY <1>1, <1>3 DEF TypeOK
  <2>3. pc' \in [Runners -> Stages]
    BY <1>1, <1>3 DEF TypeOK, Stages
  <2> QED
    BY <1>1, <1>3, <2>1, <2>2, <2>3 DEF TypeOK
<1>10. ASSUME NEW s \in Runners PROVE Holding(s)'
  <2>1. CASE s = r
    <3>1. pc'[s] = "sending" /\ held'[s] = h
      BY <1>1, <1>3, <2>1 DEF TypeOK, h
    <3>2. delivered'[h] < job'[h].attempts
      BY <1>1, <1>2, <1>4, <1>6
    <3> QED
      BY <1>2, <1>6, <1>7, <3>1, <3>2 DEF Holding, Working, Exists
  <2>2. CASE s # r
    <3>1. pc'[s] = pc[s] /\ held'[s] = held[s] /\ held[s] \in Jobs \cup {None} /\ Holding(s)
      BY <1>1, <1>3, <2>2, <1>10 DEF TypeOK, IndInv
    <3>2. pc[s] \in {"claiming", "sending", "accepted", "refused"} =>
            /\ held[s] \in Jobs /\ held[s] # h
            /\ job'[held[s]] = job[held[s]]
      BY <1>4, <1>8, <2>2, <3>1 DEF Holding, Working
    <3>3. pc[s] = "claiming" => jobLock'[held[s]] = s
      BY <1>1, <2>2, <3>1, <3>2 DEF Holding
    <3> QED
      BY <1>1, <3>1, <3>2, <3>3 DEF Holding, Working, Exists
  <2> QED
    BY <2>1, <2>2
<1>11. Locking'
  BY <1>1, <1>3 DEF IndInv, TypeOK, Locking
<1>12. ASSUME NEW j \in Jobs PROVE Fresh(j)' /\ Counting(j)'
  <2>1. CASE j = h
    <3>1. delivered[h] <= job[h].attempts + 1
      BY <1>2, <1>4
    <3> QED
      BY <1>1, <1>4, <1>6, <2>1, <3>1 DEF Fresh, Counting
  <2>2. CASE j # h
    BY <1>1, <1>8, <1>12, <2>2 DEF IndInv, Fresh, Counting, Exists
  <2> QED
    BY <2>1, <2>2
<1>13. OneSender'
  <2>1. \A s \in Runners : s # r /\ Working(s) => held[s] # h
    BY <1>4 DEF IndInv, Holding
  <2> QED
    BY <1>1, <1>3, <2>1 DEF IndInv, TypeOK, OneSender, Working, h
<1>14. NothingLost'
  BY <1>1, <1>7, <1>8 DEF IndInv, NothingLost, Exists
<1>15. ASSUME NEW j \in Jobs PROVE Acked(j)'
  <2>1. CASE j = h
    BY <1>1, <1>a, <2>1 DEF Acked
  <2>2. CASE j # h
    <3>1. Acked(j) /\ \A s \in Runners : pc'[s] \in {"sending", "refused"} =>
            pc[s] \in {"sending", "refused"} \/ held[s] = h
      BY <1>1, <1>3, <1>15 DEF IndInv, TypeOK, h
    <3> QED
      BY <1>1, <1>8, <2>2, <3>1 DEF Acked, Exists
  <2> QED
    BY <2>1, <2>2
<1> QED
  BY <1>9, <1>10, <1>11, <1>12, <1>13, <1>14, <1>15 DEF IndInv

LEMMA SendInductive ==
  ASSUME IndInv, NEW r \in Runners, Send(r)
  PROVE  IndInv'
<1> DEFINE h == held[r]
<1>1. PICK answer \in Answers :
        /\ pc' = [pc EXCEPT ![r] = IF answer = "accepted" THEN "accepted" ELSE "refused"]
        /\ delivered' = IF answer = "refused" THEN delivered
                        ELSE [delivered EXCEPT ![h] = @ + 1]
        /\ acked' = IF answer = "accepted" THEN acked \cup {h} ELSE acked
  BY DEF Send
<1>2. pc[r] = "sending" /\ UNCHANGED <<job, nextId, failed, jobLock, held, answered>>
  BY DEF Send
<1>3. /\ h \in Jobs /\ Exists(h) /\ job[h] \in Job
      /\ job[h].attempts \in Nat /\ delivered[h] \in Nat
  BY <1>2, HeldRow
<1>4. Holding(r) /\ Fresh(h) /\ Counting(h) /\ Acked(h) /\ TypeOK
  BY <1>3 DEF IndInv
<1>5. delivered[h] < job[h].attempts /\ job[h].attempts <= MaxAttempts /\ job[h].reserved
  <2>1. job[h].attempts \in 0..MaxAttempts
    BY <1>3 DEF Job
  <2> QED
    BY <1>2, <1>4, <2>1, AttemptsType DEF Holding, Working
<1>6. \A j \in Jobs : j # h => delivered'[j] = delivered[j]
  BY <1>1, <1>4 DEF TypeOK
<1>7. /\ delivered'[h] \in Nat /\ delivered'[h] <= job[h].attempts
      /\ delivered[h] <= delivered'[h]
      /\ pc'[r] = "accepted" => delivered'[h] > 0
  BY <1>1, <1>3, <1>4, <1>5 DEF TypeOK
<1>8. pc'[r] \in {"accepted", "refused"} /\ \A s \in Runners : s # r => pc'[s] = pc[s]
  BY <1>1, <1>4 DEF TypeOK
<1>a. /\ acked' \subseteq acked \cup {h}
      /\ pc'[r] = "refused" => acked' = acked
      /\ h \notin acked
  BY <1>1, <1>2, <1>4 DEF TypeOK, Acked
<1> HIDE DEF h
<1>9. TypeOK'
  <2>1. delivered'[h] \in 0..MaxAttempts
    BY <1>3, <1>5, <1>7, AttemptsType
  <2>2. delivered' \in [Jobs -> 0..MaxAttempts]
    BY <1>1, <1>3, <1>4, <2>1 DEF TypeOK
  <2>3. pc' \in [Runners -> Stages]
    BY <1>1, <1>4 DEF TypeOK, Stages
  <2> QED
    BY <1>2, <1>3, <1>4, <1>a, <2>2, <2>3 DEF TypeOK
<1>10. ASSUME NEW s \in Runners PROVE Holding(s)'
  <2>1. CASE s = r
    <3>1. held'[s] = h /\ h # None
      BY <1>2, <1>4, <2>1 DEF Holding, h
    <3> QED
      BY <1>2, <1>3, <1>5, <1>7, <1>8, <2>1, <3>1 DEF Holding, Working, Exists
  <2>2. CASE s # r
    <3>1. pc'[s] = pc[s] /\ Holding(s) /\ held[s] \in Jobs \cup {None}
      BY <1>4, <1>8, <1>10, <2>2 DEF IndInv, TypeOK
    <3>2. Working(s) => held[s] \in Jobs /\ held[s] # h
      BY <1>2, <1>10, <2>2, <3>1 DEF IndInv, OneSender, Working, Holding, h
    <3>3. Working(s) => delivered'[held[s]] = delivered[held[s]]
      BY <1>6, <3>2
    <3> QED
      BY <1>2, <3>1, <3>3 DEF Holding, Working, Exists
  <2> QED
    BY <2>1, <2>2
<1>11. Locking'
  <2>1. \A j \in Jobs : jobLock[j] # None => jobLock[j] \in Runners /\ jobLock[j] # r
    BY <1>2, <1>4 DEF IndInv, TypeOK, Locking
  <2> QED
    BY <1>2, <1>8, <2>1 DEF IndInv, Locking
<1>12. ASSUME NEW j \in Jobs PROVE Fresh(j)' /\ Counting(j)'
  <2>1. CASE j = h
    BY <1>2, <1>3, <1>4, <1>5, <1>7, <1>a, <2>1 DEF Fresh, Counting, Exists
  <2>2. CASE j # h
    BY <1>2, <1>6, <1>12, <1>a, <2>2 DEF IndInv, Fresh, Counting, Exists
  <2> QED
    BY <2>1, <2>2
<1>13. OneSender'
  BY <1>2, <1>8 DEF IndInv, OneSender, Working
<1>14. NothingLost'
  <2>1. \A j \in Jobs : ~Exists(j) => j # h
    BY <1>3
  <2> QED
    BY <1>2, <1>6, <2>1 DEF IndInv, NothingLost, Exists
<1>15. ASSUME NEW j \in Jobs PROVE Acked(j)'
  <2>1. CASE j = h
    <3>1. ASSUME NEW s \in Runners, pc'[s] \in {"sending", "refused"}, held[s] = h
          PROVE  j \notin acked'
      <4>1. CASE s = r
        BY <1>8, <1>a, <2>1, <3>1, <4>1
      <4>2. CASE s # r
        BY <1>2, <1>8, <3>1, <4>2 DEF IndInv, OneSender, Working, h
      <4> QED
        BY <4>1, <4>2
    <3> QED
      BY <1>2, <1>5, <2>1, <3>1 DEF Acked, Exists
  <2>2. CASE j # h
    <3>1. \A s \in Runners : pc'[s] \in {"sending", "refused"} =>
            pc[s] \in {"sending", "refused"}
      BY <1>2, <1>8
    <3>2. j \in acked' => j \in acked
      BY <1>a, <2>2
    <3> QED
      BY <1>2, <1>15, <3>1, <3>2 DEF IndInv, Acked, Exists
  <2> QED
    BY <2>1, <2>2
<1> QED
  BY <1>9, <1>10, <1>11, <1>12, <1>13, <1>14, <1>15 DEF IndInv

\* What a settled job leaves behind: r rests, the others hold other rows.
LEMMA SettleKeeps ==
  ASSUME IndInv, NEW r \in Runners, Working(r), Settle(r),
         NEW h \in Jobs, h = held[r],
         \A j \in Jobs : j # h => job'[j] = job[j]
  PROVE  /\ \A s \in Runners : Holding(s)'
         /\ Locking' /\ OneSender'
         /\ pc' \in [Runners -> Stages] /\ held' \in [Runners -> Jobs \cup {None}]
         /\ \A s \in Runners : pc'[s] \in {"sending", "refused"} =>
              pc[s] \in {"sending", "refused"} /\ held'[s] = held[s]
<1>1. /\ jobLock[h] = None
      /\ pc' = [pc EXCEPT ![r] = Rest(r)]
      /\ held' = [held EXCEPT ![r] = None]
      /\ UNCHANGED <<nextId, jobLock, answered, delivered, acked>>
  BY DEF Settle
<1>2. TypeOK
  BY DEF IndInv
<1>3. pc'[r] \in {"idle", "polling"} /\ held'[r] = None
  BY <1>1, <1>2 DEF TypeOK, Rest
<1>4. \A s \in Runners : s # r => pc'[s] = pc[s] /\ held'[s] = held[s]
  BY <1>1, <1>2 DEF TypeOK
<1>5. ASSUME NEW s \in Runners PROVE Holding(s)'
  <2>1. CASE s = r
    BY <1>3, <2>1 DEF Holding, Working
  <2>2. CASE s # r
    <3>1. pc'[s] = pc[s] /\ held'[s] = held[s] /\ Holding(s) /\ held[s] \in Jobs \cup {None}
      BY <1>2, <1>4, <1>5, <2>2 DEF IndInv, TypeOK
    <3>2. pc[s] \in {"claiming", "sending", "accepted", "refused"} =>
            held[s] \in Jobs /\ held[s] # h
      <4>1. Working(s) => held[s] # h
        BY <1>5, <2>2 DEF IndInv, OneSender
      <4>2. pc[s] = "claiming" => jobLock[held[s]] = s /\ s # None
        BY <3>1, <1>5, RunnersAssumption DEF Holding
      <4> QED
        BY <1>1, <3>1, <4>1, <4>2 DEF Holding, Working
    <3>3. pc[s] \in {"claiming", "sending", "accepted", "refused"} => job'[held[s]] = job[held[s]]
      BY <3>2
    <3> QED
      BY <1>1, <3>1, <3>3 DEF Holding, Working, Exists
  <2> QED
    BY <2>1, <2>2
<1>6. Locking'
  <2>1. \A j \in Jobs : jobLock[j] # None => jobLock[j] \in Runners /\ jobLock[j] # r
    BY <1>2 DEF IndInv, TypeOK, Locking, Working
  <2> QED
    BY <1>1, <1>4, <2>1 DEF IndInv, Locking
<1>7. OneSender'
  <2>1. \A s \in Runners : Working(s)' => s # r /\ Working(s)
    BY <1>3, <1>4 DEF Working
  <2> QED
    BY <1>4, <2>1 DEF IndInv, OneSender
<1>8. pc' \in [Runners -> Stages] /\ held' \in [Runners -> Jobs \cup {None}]
  BY <1>1, <1>2 DEF TypeOK, Stages, Rest
<1>9. \A s \in Runners : pc'[s] \in {"sending", "refused"} =>
        pc[s] \in {"sending", "refused"} /\ held'[s] = held[s]
  BY <1>3, <1>4
<1> QED
  BY <1>5, <1>6, <1>7, <1>8, <1>9

\* A job that leaves the queue was sent, or is now in failed_mail_jobs.
LEMMA RemoveInductive ==
  ASSUME IndInv, NEW r \in Runners, Working(r), Settle(r),
         job' = [job EXCEPT ![held[r]] = None],
         \/ failed' = failed /\ delivered[held[r]] > 0
         \/ failed' = failed \cup {held[r]}
  PROVE  IndInv'
<1> DEFINE h == held[r]
<1>1. /\ h \in Jobs /\ Exists(h)
  BY HeldRow DEF Working
<1>2. TypeOK /\ Fresh(h) /\ UNCHANGED <<nextId, jobLock, answered, delivered, acked>>
  BY <1>1 DEF IndInv, Settle
<1>3. job'[h] = None /\ \A j \in Jobs : j # h => job'[j] = job[j]
  BY <1>1, <1>2 DEF TypeOK
<1>4. /\ \A j \in Jobs : j # h => (j \in failed' <=> j \in failed)
      /\ h \in failed' \/ delivered[h] > 0
      /\ failed' \subseteq Jobs
  BY <1>1, <1>2 DEF TypeOK
<1>5. /\ \A s \in Runners : Holding(s)'
      /\ Locking' /\ OneSender'
      /\ pc' \in [Runners -> Stages] /\ held' \in [Runners -> Jobs \cup {None}]
      /\ \A s \in Runners : pc'[s] \in {"sending", "refused"} =>
           pc[s] \in {"sending", "refused"} /\ held'[s] = held[s]
  BY <1>1, <1>3, SettleKeeps
<1> HIDE DEF h
<1>6. TypeOK'
  <2>1. job' \in [Jobs -> Job \cup {None}]
    BY <1>2 DEF TypeOK
  <2> QED
    BY <1>2, <1>4, <1>5, <2>1 DEF TypeOK
<1>7. ASSUME NEW j \in Jobs PROVE Fresh(j)' /\ Counting(j)'
  <2>1. CASE j = h
    BY <1>1, <1>2, <1>3, <2>1 DEF Fresh, Counting, Exists
  <2>2. CASE j # h
    BY <1>2, <1>3, <1>4, <1>7, <2>2 DEF IndInv, Fresh, Counting, Exists
  <2> QED
    BY <2>1, <2>2
<1>8. NothingLost'
  BY <1>2, <1>3, <1>4 DEF IndInv, NothingLost, Exists
<1>9. ASSUME NEW j \in Jobs PROVE Acked(j)'
  BY <1>2, <1>3, <1>5, <1>9 DEF IndInv, Acked, Exists
<1> QED
  BY <1>5, <1>6, <1>7, <1>8, <1>9 DEF IndInv

LEMMA CompleteInductive ==
  ASSUME IndInv, NEW r \in Runners, Complete(r)
  PROVE  IndInv'
<1>1. Working(r) /\ Settle(r) /\ job' = [job EXCEPT ![held[r]] = None] /\ failed' = failed
  BY DEF Complete, Working
<1>2. delivered[held[r]] > 0
  BY DEF Complete, IndInv, Holding
<1> QED
  BY <1>1, <1>2, RemoveInductive

LEMMA GiveUpInductive ==
  ASSUME IndInv, NEW r \in Runners, GiveUp(r)
  PROVE  IndInv'
<1>1. /\ Working(r) /\ Settle(r) /\ job' = [job EXCEPT ![held[r]] = None]
      /\ failed' = failed \cup {held[r]}
  BY DEF GiveUp, Working
<1> QED
  BY <1>1, RemoveInductive

LEMMA RetryInductive ==
  ASSUME IndInv, NEW r \in Runners, Retry(r)
  PROVE  IndInv'
<1> DEFINE h == held[r]
<1>1. /\ pc[r] = "refused" /\ job[h].attempts < MaxAttempts /\ Settle(r) /\ failed' = failed
      /\ job' = [job EXCEPT ![h].reserved = FALSE, ![h].due = FALSE]
  BY DEF Retry
<1>2. /\ h \in Jobs /\ Exists(h) /\ job[h] \in Job
  BY <1>1, HeldRow
<1>3. TypeOK /\ Fresh(h) /\ Counting(h) /\ UNCHANGED <<nextId, jobLock, answered, delivered, acked>>
  BY <1>1, <1>2 DEF IndInv, Settle
<1>4. job'[h] = [job[h] EXCEPT !.reserved = FALSE, !.due = FALSE]
  BY <1>1, <1>2, <1>3 DEF TypeOK
<1>5. job'[h] \in Job /\ job'[h].attempts = job[h].attempts
  BY <1>2, <1>4 DEF Job
<1>6. \A j \in Jobs : j # h => job'[j] = job[j]
  BY <1>1, <1>3 DEF TypeOK
<1>7. /\ \A s \in Runners : Holding(s)'
      /\ Locking' /\ OneSender'
      /\ pc' \in [Runners -> Stages] /\ held' \in [Runners -> Jobs \cup {None}]
      /\ \A s \in Runners : pc'[s] \in {"sending", "refused"} =>
           pc[s] \in {"sending", "refused"} /\ held'[s] = held[s]
  <2>1. Working(r)
    BY <1>1 DEF Working
  <2> QED
    BY <1>1, <1>2, <1>6, <2>1, SettleKeeps
<1> HIDE DEF h
<1>8. TypeOK'
  <2>1. job' \in [Jobs -> Job \cup {None}]
    BY <1>1, <1>3, <1>5, <1>6 DEF TypeOK
  <2> QED
    BY <1>1, <1>3, <1>7, <2>1 DEF TypeOK
<1>9. ASSUME NEW j \in Jobs PROVE Fresh(j)' /\ Counting(j)'
  <2>1. CASE j = h
    BY <1>1, <1>2, <1>3, <1>5, <2>1 DEF Fresh, Counting, Exists
  <2>2. CASE j # h
    BY <1>1, <1>3, <1>6, <1>9, <2>2 DEF IndInv, Fresh, Counting, Exists
  <2> QED
    BY <2>1, <2>2
<1>10. NothingLost'
  <2>1. job'[h] # None
    BY <1>5, RunnersAssumption
  <2> QED
    BY <1>1, <1>3, <1>6, <2>1 DEF IndInv, NothingLost, Exists
<1>11. ASSUME NEW j \in Jobs PROVE Acked(j)'
  <2>1. CASE j = h
    <3>1. h \notin acked
      BY <1>1, <1>2 DEF IndInv, Acked, h
    <3> QED
      BY <1>3, <2>1, <3>1 DEF Acked
  <2>2. CASE j # h
    BY <1>3, <1>6, <1>7, <1>11, <2>2 DEF IndInv, Acked, Exists
  <2> QED
    BY <2>1, <2>2
<1> QED
  BY <1>7, <1>8, <1>9, <1>10, <1>11 DEF IndInv

LEMMA BackoffEndsInductive ==
  ASSUME IndInv, NEW h \in Jobs, BackoffEnds(h)
  PROVE  IndInv'
<1>1. /\ Exists(h) /\ job' = [job EXCEPT ![h].due = TRUE]
      /\ UNCHANGED <<nextId, failed, jobLock, pc, held, answered, delivered, acked>>
  BY DEF BackoffEnds
<1>2. TypeOK /\ job[h] \in Job
  BY <1>1 DEF IndInv, TypeOK, Exists
<1>3. job'[h] = [job[h] EXCEPT !.due = TRUE] /\ \A j \in Jobs : j # h => job'[j] = job[j]
  BY <1>1, <1>2 DEF TypeOK
<1>4. /\ job'[h] \in Job /\ job'[h].attempts = job[h].attempts
      /\ job'[h].reserved = job[h].reserved /\ job'[h] # None
  BY <1>2, <1>3, RunnersAssumption DEF Job
<1>5. \A j \in Jobs : /\ Exists(j)' <=> Exists(j)
                      /\ Exists(j) => job'[j].attempts = job[j].attempts
                      /\ Exists(j) => job'[j].reserved = job[j].reserved
  BY <1>1, <1>3, <1>4 DEF Exists
<1>6. TypeOK'
  <2>1. job' \in [Jobs -> Job \cup {None}]
    BY <1>1, <1>2, <1>3, <1>4 DEF TypeOK
  <2> QED
    BY <1>1, <1>2, <2>1 DEF TypeOK
<1>7. ASSUME NEW s \in Runners PROVE Holding(s)'
  <2>1. Holding(s) /\ held[s] \in Jobs \cup {None}
    BY <1>2, <1>7 DEF IndInv, TypeOK
  <2> QED
    BY <1>1, <1>5, <2>1, RunnersAssumption DEF Holding, Working
<1>8. Locking' /\ OneSender'
  BY <1>1 DEF IndInv, Locking, OneSender, Working
<1>9. ASSUME NEW j \in Jobs PROVE Fresh(j)' /\ Counting(j)'
  BY <1>1, <1>5, <1>9 DEF IndInv, Fresh, Counting
<1>10. NothingLost'
  BY <1>1, <1>5 DEF IndInv, NothingLost
<1>11. ASSUME NEW j \in Jobs PROVE Acked(j)'
  BY <1>1, <1>5, <1>11 DEF IndInv, Acked
<1> QED
  BY <1>6, <1>7, <1>8, <1>9, <1>10, <1>11 DEF IndInv

\* A runner that stops leaves the rows as they are.
LEMMA StopInductive ==
  ASSUME IndInv, NEW r \in Runners, Stop(r)
  PROVE  IndInv'
<1>1. /\ pc' = [pc EXCEPT ![r] = Rest(r)]
      /\ held' = [held EXCEPT ![r] = None]
      /\ jobLock' = [j \in Jobs |-> IF jobLock[j] = r THEN None ELSE jobLock[j]]
      /\ UNCHANGED <<job, nextId, failed, answered, delivered, acked>>
  BY DEF Stop, Unlock
<1>2. TypeOK
  BY DEF IndInv
<1>3. pc'[r] \in {"idle", "polling"} /\ held'[r] = None
  BY <1>1, <1>2 DEF TypeOK, Rest
<1>4. \A s \in Runners : s # r => pc'[s] = pc[s] /\ held'[s] = held[s]
  BY <1>1, <1>2 DEF TypeOK
<1>5. TypeOK'
  <2>1. pc' \in [Runners -> Stages] /\ held' \in [Runners -> Jobs \cup {None}]
    BY <1>1, <1>2 DEF TypeOK, Stages, Rest
  <2>2. jobLock' \in [Jobs -> Runners \cup {None}]
    BY <1>1, <1>2 DEF TypeOK
  <2> QED
    BY <1>1, <1>2, <2>1, <2>2 DEF TypeOK
<1>6. ASSUME NEW s \in Runners PROVE Holding(s)'
  <2>1. CASE s = r
    BY <1>3, <2>1 DEF Holding, Working
  <2>2. CASE s # r
    <3>1. pc'[s] = pc[s] /\ held'[s] = held[s] /\ Holding(s) /\ held[s] \in Jobs \cup {None}
      BY <1>2, <1>4, <1>6, <2>2 DEF IndInv, TypeOK
    <3>2. pc[s] = "claiming" => jobLock'[held[s]] = s
      BY <1>1, <2>2, <3>1 DEF Holding
    <3> QED
      BY <1>1, <3>1, <3>2 DEF Holding, Working, Exists
  <2> QED
    BY <2>1, <2>2
<1>7. Locking'
  <2>1. \A j \in Jobs : jobLock'[j] # None =>
          jobLock'[j] = jobLock[j] /\ jobLock[j] # r /\ jobLock[j] \in Runners
    BY <1>1, <1>2 DEF TypeOK
  <2> QED
    BY <1>4, <2>1 DEF IndInv, Locking
<1>8. OneSender'
  <2>1. \A s \in Runners : Working(s)' => s # r /\ Working(s)
    BY <1>3, <1>4 DEF Working
  <2> QED
    BY <1>4, <2>1 DEF IndInv, OneSender
<1>9. ASSUME NEW j \in Jobs PROVE Fresh(j)' /\ Counting(j)'
  BY <1>1, <1>9 DEF IndInv, Fresh, Counting, Exists
<1>10. NothingLost'
  BY <1>1 DEF IndInv, NothingLost, Exists
<1>11. ASSUME NEW j \in Jobs PROVE Acked(j)'
  <2>1. \A s \in Runners : pc'[s] \in {"sending", "refused"} =>
          pc[s] \in {"sending", "refused"} /\ held'[s] = held[s]
    BY <1>3, <1>4
  <2> QED
    BY <1>1, <1>11, <2>1 DEF IndInv, Acked, Exists
<1> QED
  BY <1>5, <1>6, <1>7, <1>8, <1>9, <1>10, <1>11 DEF IndInv

-----------------------------------------------------------------------------
(* The invariant, and what it implies.                                     *)

\* Rows, claims, tries and copies agree with each other, always: the
\* strengthening that makes the next three theorems inductive.
THEOREM QueueInductive == Spec => []IndInv
<1>1. ASSUME IndInv, [Next]_vars PROVE IndInv'
  <2>1. CASE UNCHANGED vars
    BY <1>1, <2>1 DEF vars, IndInv, TypeOK, Holding, Working, Exists, Locking, Fresh, Counting, Acked,
                      OneSender, NothingLost
  <2>2. ASSUME NEW t \in Tasks, Ask(t) PROVE IndInv'
    BY <1>1, <2>2, AskInductive
  <2>3. ASSUME NEW t \in Tasks, Enqueue(t) PROVE IndInv'
    BY <1>1, <2>3, EnqueueInductive
  <2>4. ASSUME NEW t \in Tasks, NothingToClaim(t) PROVE IndInv'
    BY <1>1, <2>4, NothingToClaimInductive
  <2>5. ASSUME NEW r \in Runners, Work(r) PROVE IndInv'
    BY <1>1, <2>5, SelectJobInductive, ReserveJobInductive, SendInductive, CompleteInductive,
       GiveUpInductive, RetryInductive DEF Work
  <2>6. ASSUME NEW r \in Runners, Stop(r) PROVE IndInv'
    BY <1>1, <2>6, StopInductive
  <2>7. ASSUME NEW j \in Jobs, BackoffEnds(j) PROVE IndInv'
    BY <1>1, <2>7, BackoffEndsInductive
  <2> QED
    BY <1>1, <2>1, <2>2, <2>3, <2>4, <2>5, <2>6, <2>7 DEF Next
<1> QED
  BY <1>1, InitInductive, PTL DEF Spec

\* Jobs, runners and locks keep their type.
THEOREM QueueTypes == Spec => []TypeOK
<1>1. IndInv => TypeOK
  BY DEF IndInv
<1> QED
  BY <1>1, QueueInductive, PTL

\* No two runners ever send the same job, with any number of workers and
\* inline tasks, stops included.
THEOREM OneSenderPerJob == Spec => []OneSender
<1>1. IndInv => OneSender
  BY DEF IndInv
<1> QED
  BY <1>1, QueueInductive, PTL

\* A mail whose row is gone was sent or is in failed_mail_jobs.
THEOREM NoMailLost == Spec => []NothingLost
<1>1. IndInv => NothingLost
  BY DEF IndInv
<1> QED
  BY <1>1, QueueInductive, PTL

\* A mail the server was heard to take is never sent again nor given up,
\* whoever stops before its job is deleted.
THEOREM AckedMailIsFinal == Spec => AckedIsFinal
<1>1. ASSUME IndInv, [Next]_vars, NEW j \in acked
      PROVE  delivered'[j] = delivered[j] /\ (j \in failed' => j \in failed)
  <2>1. TypeOK /\ j \in Jobs /\ Acked(j)
    BY <1>1 DEF IndInv, TypeOK
  <2>2. CASE UNCHANGED vars
    BY <2>2 DEF vars
  <2>3. ASSUME NEW r \in Runners, Send(r)
        PROVE  delivered'[j] = delivered[j] /\ failed' = failed
    <3>1. held[r] # j
      BY <2>1, <2>3 DEF Acked, Send
    <3> QED
      BY <2>1, <2>3, <3>1 DEF Send, TypeOK
  <2>4. ASSUME NEW r \in Runners, GiveUp(r)
        PROVE  delivered' = delivered /\ (j \in failed' => j \in failed)
    <3>1. held[r] # j
      BY <2>1, <2>4 DEF Acked, GiveUp
    <3> QED
      BY <2>4, <3>1 DEF GiveUp, Settle
  <2>5. ASSUME \/ \E t \in Tasks : Ask(t) \/ Enqueue(t) \/ NothingToClaim(t)
               \/ \E r \in Runners : \/ SelectJob(r) \/ ReserveJob(r) \/ Complete(r)
                                     \/ Retry(r) \/ Stop(r)
               \/ \E k \in Jobs : BackoffEnds(k)
        PROVE  UNCHANGED <<delivered, failed>>
    BY <2>5 DEF Ask, Enqueue, NothingToClaim, SelectJob, ReserveJob, Complete, Retry, Stop,
                BackoffEnds, Settle
  <2> QED
    BY <1>1, <2>2, <2>3, <2>4, <2>5 DEF Next, Work
<1>2. IndInv /\ [Next]_vars =>
        [\A j \in acked : delivered'[j] = delivered[j] /\ (j \in failed' => j \in failed)]_vars
  BY <1>1
<1> QED
  BY <1>2, QueueInductive, PTL DEF Spec, AckedIsFinal

-----------------------------------------------------------------------------
(* Mails that nobody works on.                                             *)

\* A step that neither reserves another job nor takes a worker off its job
\* strands nothing.
LEMMA StillWorked ==
  ASSUME NEW j \in Jobs, ~Stranded(j),
         Exists(j)' /\ job'[j].reserved => Exists(j) /\ job[j].reserved,
         \A r \in Runners : Working(r) /\ held[r] = j => Working(r)' /\ held'[r] = j
  PROVE  ~Stranded(j)'
BY DEF Stranded

\* A runner that settles its job frees it or removes it.
LEMMA SettledIsFree ==
  ASSUME IndInv, NEW r \in Runners, Complete(r) \/ GiveUp(r) \/ Retry(r),
         NEW j \in Jobs, ~Stranded(j)
  PROVE  ~Stranded(j)'
<1>1. held[r] \in Jobs /\ Exists(held[r]) /\ Working(r)
  BY HeldRow DEF Complete, GiveUp, Retry, Working
<1>2. /\ pc' = [pc EXCEPT ![r] = Rest(r)] /\ held' = [held EXCEPT ![r] = None]
      /\ \A k \in Jobs : k # held[r] => job'[k] = job[k]
      /\ job'[held[r]] = None \/ ~job'[held[r]].reserved
  BY <1>1 DEF Complete, GiveUp, Retry, Settle, IndInv, TypeOK, Exists, Job
<1>3. CASE j = held[r]
  BY <1>2, <1>3 DEF Stranded, Exists
<1>4. CASE j # held[r]
  <2>1. Exists(j)' /\ job'[j].reserved => Exists(j) /\ job[j].reserved
    BY <1>2, <1>4 DEF Exists
  <2>2. ASSUME NEW s \in Runners, Working(s), held[s] = j
        PROVE  Working(s)' /\ held'[s] = j
    BY <1>2, <1>4, <2>2 DEF IndInv, TypeOK, Working
  <2> QED
    BY <2>1, <2>2, StillWorked
<1> QED
  BY <1>3, <1>4

LEMMA ReservedIsWorked ==
  ASSUME IndInv, NEW r \in Runners, ReserveJob(r), NEW j \in Jobs, ~Stranded(j)
  PROVE  ~Stranded(j)'
<1>1. /\ pc[r] = "claiming" /\ pc' = [pc EXCEPT ![r] = "sending"] /\ held' = held
      /\ job' = [job EXCEPT ![held[r]].reserved = TRUE, ![held[r]].attempts = @ + 1]
  BY DEF ReserveJob
<1>2. CASE j = held[r]
  BY <1>1, <1>2 DEF Stranded, Working, IndInv, TypeOK
<1>3. CASE j # held[r]
  <2>1. job'[j] = job[j]
    BY <1>1, <1>3 DEF IndInv, TypeOK
  <2>2. ASSUME NEW s \in Runners, Working(s), held[s] = j
        PROVE  Working(s)' /\ held'[s] = j
    BY <1>1, <2>2 DEF IndInv, TypeOK, Working
  <2> QED
    BY <2>1, <2>2, StillWorked DEF Exists
<1> QED
  BY <1>2, <1>3

\* Only a runner that stops leaves a reserved job behind.
THEOREM StopsAloneStrand == Spec => StrandedOnlyByStop
<1>1. ASSUME IndInv, [Next]_vars, NEW j \in Jobs, ~Stranded(j), Stranded(j)'
      PROVE  \E r \in Runners : Stop(r) /\ held[r] = j
  <2>1. ASSUME NEW t \in Tasks, Ask(t) PROVE FALSE
    BY <1>1, <2>1, StillWorked DEF Ask, Runners, Working, Exists, IndInv, TypeOK
  <2>2. ASSUME NEW t \in Tasks, Enqueue(t) PROVE FALSE
    <3>1. Exists(j)' /\ job'[j].reserved => Exists(j) /\ job[j].reserved
      BY <1>1, <2>2 DEF Enqueue, Exists, IndInv, TypeOK
    <3>2. ASSUME NEW s \in Runners, Working(s), held[s] = j
          PROVE  Working(s)' /\ held'[s] = j
      BY <1>1, <2>2, <3>2 DEF Enqueue, Working, Runners, IndInv, TypeOK
    <3> QED
      BY <1>1, <3>1, <3>2, StillWorked
  <2>3. ASSUME NEW t \in Tasks, NothingToClaim(t) PROVE FALSE
    BY <1>1, <2>3, StillWorked DEF NothingToClaim, Runners, Working, Exists, IndInv, TypeOK
  <2>4. ASSUME NEW r \in Runners, SelectJob(r) PROVE FALSE
    BY <1>1, <2>4, StillWorked DEF SelectJob, Working, Exists, IndInv, TypeOK
  <2>5. ASSUME NEW r \in Runners, Send(r) PROVE FALSE
    BY <1>1, <2>5, StillWorked DEF Send, Working, Exists, IndInv, TypeOK
  <2>6. ASSUME NEW k \in Jobs, BackoffEnds(k) PROVE FALSE
    <3>1. job' = [job EXCEPT ![k].due = TRUE] /\ Exists(k)
      BY <2>6 DEF BackoffEnds
    <3>2. Exists(j)' /\ job'[j].reserved => Exists(j) /\ job[j].reserved
      BY <1>1, <3>1 DEF Exists, IndInv, TypeOK, Job
    <3> QED
      BY <1>1, <2>6, <3>2, StillWorked DEF BackoffEnds, Working
  <2>7. ASSUME NEW r \in Runners, Stop(r) PROVE held[r] = j
    BY <1>1, <2>7, StillWorked DEF Stop, Working, Exists, IndInv, TypeOK
  <2>8. CASE UNCHANGED vars
    BY <1>1, <2>8, StillWorked DEF vars, Working, Exists
  <2> QED
    BY <1>1, <2>1, <2>2, <2>3, <2>4, <2>5, <2>6, <2>7, <2>8, SettledIsFree, ReservedIsWorked
       DEF Next, Work
<1>2. IndInv /\ [Next]_vars =>
        [\A j \in Jobs : ~Stranded(j) /\ Stranded(j)' =>
           \E r \in Runners : Stop(r) /\ held[r] = j]_vars
  BY <1>1
<1> QED
  BY <1>2, QueueInductive, PTL DEF Spec, StrandedOnlyByStop

-----------------------------------------------------------------------------
(* The queue implements the outbox.                                        *)

\* A step that keeps the rows, the ids, the failures and the copies keeps
\* the outbox.
LEMMA OutboxStutters ==
  ASSUME UNCHANGED <<job, nextId, failed, delivered>>
  PROVE  UNCHANGED Outbox!outbox
  BY DEF Outbox!outbox, MailStage, MailTries, Exists

LEMMA OutboxInit ==
  ASSUME Init
  PROVE  Outbox!Init
<1>1. ASSUME NEW j \in Jobs PROVE MailStage(j) = "unposted"
  BY <1>1, QueueAssumption DEF Init, MailStage, Exists, Jobs
<1> QED
  BY <1>1 DEF Init, Outbox!Init, MailTries, Exists

\* A step that changes one mail changes one place of each function.
LEMMA OutboxOneMail ==
  ASSUME NEW h \in Jobs,
         \A j \in Jobs : j # h => MailStage(j)' = MailStage(j) /\ MailTries(j)' = MailTries(j)
  PROVE  /\ [j \in Jobs |-> MailStage(j)]' = [[j \in Jobs |-> MailStage(j)] EXCEPT ![h] = MailStage(h)']
         /\ [j \in Jobs |-> MailTries(j)]' = [[j \in Jobs |-> MailTries(j)] EXCEPT ![h] = MailTries(h)']
  OBVIOUS

LEMMA EnqueuePosts ==
  ASSUME IndInv, NEW t \in Tasks, Enqueue(t)
  PROVE  Outbox!Next
<1>0. PICK h \in Jobs : h = nextId
  BY DEF Enqueue
<1>1. /\ job' = [job EXCEPT ![h] = [attempts |-> 0, reserved |-> FALSE, due |-> TRUE]]
      /\ nextId' = nextId + 1
      /\ UNCHANGED <<failed, delivered, acked>>
  BY <1>0 DEF Enqueue
<1>2. Fresh(h) /\ TypeOK /\ h \in Nat
  BY QueueAssumption DEF IndInv, Jobs
<1>3. MailStage(h) = "unposted" /\ MailTries(h) = 0
  BY <1>0, <1>2 DEF Fresh, MailStage, MailTries, Exists
<1>4. job'[h] = [attempts |-> 0, reserved |-> FALSE, due |-> TRUE]
      /\ \A j \in Jobs : j # h => job'[j] = job[j]
  BY <1>1, <1>2 DEF TypeOK
<1>5. job'[h] # None /\ ~job'[h].reserved /\ job'[h].attempts = 0
  <2>1. job'[h] \in Job
    BY <1>4, AttemptsType DEF Job
  <2>2. job'[h] # None
    BY <2>1, RunnersAssumption
  <2>3. job'[h].reserved = FALSE
    BY <1>4
  <2>4. job'[h].attempts = 0
    BY <1>4
  <2> QED
    BY <2>2, <2>3, <2>4
<1>6. MailStage(h)' = "waiting" /\ MailTries(h)' = 0
  BY <1>5 DEF MailStage, MailTries, Exists
<1>7. ASSUME NEW j \in Jobs, j # h
      PROVE  MailStage(j)' = MailStage(j) /\ MailTries(j)' = MailTries(j)
  <2>1. j >= nextId' <=> j >= nextId
    BY <1>0, <1>1, <1>2, <1>7, QueueAssumption DEF Jobs
  <2> QED
    BY <1>1, <1>4, <1>7, <2>1 DEF MailStage, MailTries, Exists
<1>8. Outbox!Post(h)
  BY <1>1, <1>3, <1>6, <1>7, OutboxOneMail DEF Outbox!Post
<1> QED
  BY <1>8 DEF Outbox!Next

\* What the invariant says of the row a runner works on.
LEMMA HeldCounts ==
  ASSUME IndInv, NEW r \in Runners, NEW h \in Jobs, h = held[r],
         pc[r] \in {"claiming", "sending", "accepted", "refused"}
  PROVE  /\ TypeOK /\ Exists(h) /\ job[h] \in Job
         /\ h \notin failed /\ ~(h >= nextId)
         /\ job[h].attempts \in Nat /\ job[h].attempts <= MaxAttempts
         /\ MailTries(h) = job[h].attempts
         /\ pc[r] = "claiming" => /\ MailStage(h) = "waiting"
                                 /\ job[h].attempts < MaxAttempts
         /\ pc[r] # "claiming" => MailStage(h) = "trying"
         /\ pc[r] = "sending"  => delivered[h] < job[h].attempts
         /\ pc[r] = "accepted" => delivered[h] > 0
<1>1. Exists(h) /\ job[h] \in Job /\ job[h].attempts \in Nat
  BY HeldRow
<1>2. Holding(r) /\ Fresh(h) /\ Counting(h) /\ TypeOK
  BY DEF IndInv
<1>3. job[h].attempts <= MaxAttempts
  BY <1>1, AttemptsType DEF Job
<1>4. h \notin failed /\ ~(h >= nextId)
  BY <1>1, <1>2 DEF Fresh, Counting
<1>5. pc[r] = "claiming" => ~job[h].reserved /\ job[h].attempts < MaxAttempts
  BY <1>1, <1>2 DEF Holding, Counting
<1>6. pc[r] # "claiming" => job[h].reserved
  BY <1>2 DEF Holding, Working
<1>7. MailTries(h) = job[h].attempts
  BY <1>1 DEF MailTries
<1>8. /\ pc[r] = "claiming" => MailStage(h) = "waiting"
      /\ pc[r] # "claiming" => MailStage(h) = "trying"
  BY <1>1, <1>5, <1>6 DEF MailStage
<1>9. /\ pc[r] = "sending"  => delivered[h] < job[h].attempts
      /\ pc[r] = "accepted" => delivered[h] > 0
  BY <1>2 DEF Holding
<1> QED
  BY <1>1, <1>2, <1>3, <1>4, <1>5, <1>7, <1>8, <1>9

\* The rows a step leaves alone stand where they stood.
LEMMA OthersStand ==
  ASSUME NEW h \in Jobs, UNCHANGED nextId,
         \A j \in Jobs : j # h => job'[j] = job[j] /\ (j \in failed' <=> j \in failed)
  PROVE  \A j \in Jobs : j # h => MailStage(j)' = MailStage(j) /\ MailTries(j)' = MailTries(j)
  BY DEF MailStage, MailTries, Exists

LEMMA ReserveTries ==
  ASSUME IndInv, NEW r \in Runners, ReserveJob(r)
  PROVE  Outbox!Next
<1>0. PICK h \in Jobs : h = held[r]
  BY HeldRow DEF ReserveJob
<1>1. /\ pc[r] = "claiming"
      /\ job' = [job EXCEPT ![h].reserved = TRUE, ![h].attempts = @ + 1]
      /\ UNCHANGED <<nextId, failed, delivered, acked>>
  BY <1>0 DEF ReserveJob
<1>2. /\ TypeOK /\ job[h] \in Job /\ job[h].attempts \in Nat
      /\ job[h].attempts < MaxAttempts
      /\ MailTries(h) = job[h].attempts /\ MailStage(h) = "waiting"
  BY <1>0, <1>1, HeldCounts
<1>3. job'[h] = [job[h] EXCEPT !.reserved = TRUE, !.attempts = @ + 1]
      /\ \A j \in Jobs : j # h => job'[j] = job[j]
  BY <1>1, <1>2 DEF TypeOK
<1>4. job'[h] \in Job /\ job'[h].reserved /\ job'[h].attempts = job[h].attempts + 1
  <2>1. job[h].attempts + 1 \in 0..MaxAttempts
    BY <1>2, AttemptsType
  <2> QED
    BY <1>2, <1>3, <2>1 DEF Job
<1>5. MailStage(h)' = "trying" /\ MailTries(h)' = MailTries(h) + 1
  BY <1>2, <1>4, RunnersAssumption DEF MailStage, MailTries, Exists
<1>6. \A j \in Jobs : j # h => MailStage(j)' = MailStage(j) /\ MailTries(j)' = MailTries(j)
  BY <1>1, <1>3, OthersStand
<1>7. Outbox!Try(h)
  BY <1>1, <1>2, <1>5, <1>6, OutboxOneMail DEF Outbox!Try
<1> QED
  BY <1>7 DEF Outbox!Next

LEMMA SendHandsOver ==
  ASSUME IndInv, NEW r \in Runners, Send(r)
  PROVE  Outbox!Next \/ UNCHANGED Outbox!outbox
<1>0. PICK h \in Jobs : h = held[r]
  BY HeldRow DEF Send
<1>1. /\ pc[r] = "sending"
      /\ UNCHANGED <<job, nextId, failed>>
      /\ delivered' = delivered \/ delivered' = [delivered EXCEPT ![h] = @ + 1]
  BY <1>0 DEF Send
<1>2. MailStage(h) = "trying" /\ delivered[h] < MailTries(h)
  BY <1>0, <1>1, HeldCounts
<1>3. CASE delivered' = delivered
  BY <1>1, <1>3, OutboxStutters
<1>4. CASE delivered' = [delivered EXCEPT ![h] = @ + 1]
  <2>1. \A j \in Jobs : MailStage(j)' = MailStage(j) /\ MailTries(j)' = MailTries(j)
    BY <1>1 DEF MailStage, MailTries, Exists
  <2>2. Outbox!HandOver(h)
    BY <1>2, <1>4, <2>1 DEF Outbox!HandOver
  <2> QED
    BY <2>2 DEF Outbox!Next
<1> QED
  BY <1>1, <1>3, <1>4

LEMMA SettleLeaves ==
  ASSUME IndInv, NEW r \in Runners, Complete(r) \/ GiveUp(r)
  PROVE  Outbox!Next
<1>0. PICK h \in Jobs : h = held[r]
  BY HeldRow DEF Complete, GiveUp
<1>1. /\ pc[r] \in {"accepted", "refused"}
      /\ job' = [job EXCEPT ![h] = None]
      /\ UNCHANGED <<nextId, delivered, acked>>
  BY <1>0 DEF Complete, GiveUp, Settle
<1>2. /\ TypeOK /\ h \notin failed /\ ~(h >= nextId)
      /\ job[h].attempts \in Nat /\ job[h].attempts <= MaxAttempts
      /\ MailTries(h) = job[h].attempts /\ MailStage(h) = "trying"
  BY <1>0, <1>1, HeldCounts
<1>3. job'[h] = None /\ \A j \in Jobs : j # h => job'[j] = job[j]
  BY <1>1, <1>2 DEF TypeOK
<1>4. \/ failed' = failed /\ delivered[h] > 0
      \/ failed' = failed \cup {h} /\ job[h].attempts = MaxAttempts
  <2>1. CASE Complete(r)
    BY <1>0, <2>1, HeldCounts DEF Complete
  <2>2. CASE GiveUp(r)
    BY <1>0, <1>2, <2>2, AttemptsType DEF GiveUp
  <2> QED
    BY <2>1, <2>2
<1>5. \A j \in Jobs : j # h => MailStage(j)' = MailStage(j) /\ MailTries(j)' = MailTries(j)
  <2>1. \A j \in Jobs : j # h => (j \in failed' <=> j \in failed)
    BY <1>4
  <2> QED
    BY <1>1, <1>3, <2>1, OthersStand
<1>6. /\ MailTries(h)' = 0
      /\ failed' = failed => MailStage(h)' = "sent"
      /\ failed' = failed \cup {h} => MailStage(h)' = "dead"
  BY <1>1, <1>2, <1>3 DEF MailStage, MailTries, Exists
<1>7. Outbox!Leave(h)
  BY <1>1, <1>2, <1>4, <1>5, <1>6, OutboxOneMail DEF Outbox!Leave
<1> QED
  BY <1>7 DEF Outbox!Next

LEMMA RetryPostpones ==
  ASSUME IndInv, NEW r \in Runners, Retry(r)
  PROVE  Outbox!Next
<1>0. PICK h \in Jobs : h = held[r]
  BY HeldRow DEF Retry
<1>1. /\ pc[r] = "refused" /\ job[h].attempts < MaxAttempts
      /\ job' = [job EXCEPT ![h].reserved = FALSE, ![h].due = FALSE]
      /\ UNCHANGED <<nextId, failed, delivered, acked>>
  BY <1>0 DEF Retry, Settle
<1>2. /\ TypeOK /\ job[h] \in Job /\ MailTries(h) = job[h].attempts /\ MailStage(h) = "trying"
  BY <1>0, <1>1, HeldCounts
<1>3. job'[h] = [job[h] EXCEPT !.reserved = FALSE, !.due = FALSE]
      /\ \A j \in Jobs : j # h => job'[j] = job[j]
  BY <1>1, <1>2 DEF TypeOK
<1>4. job'[h] \in Job /\ job'[h].reserved = FALSE /\ job'[h].attempts = job[h].attempts
  BY <1>2, <1>3 DEF Job
<1>5. MailStage(h)' = "waiting" /\ MailTries(h)' = MailTries(h)
  BY <1>2, <1>4, RunnersAssumption DEF MailStage, MailTries, Exists
<1>6. \A j \in Jobs : j # h => MailStage(j)' = MailStage(j) /\ MailTries(j)' = MailTries(j)
  BY <1>1, <1>3, OthersStand
<1>7. Outbox!Postpone(h)
  BY <1>1, <1>2, <1>5, <1>6, OutboxOneMail DEF Outbox!Postpone
<1> QED
  BY <1>7 DEF Outbox!Next

LEMMA BackoffStutters ==
  ASSUME IndInv, NEW h \in Jobs, BackoffEnds(h)
  PROVE  UNCHANGED Outbox!outbox
<1>1. Exists(h) /\ job' = [job EXCEPT ![h].due = TRUE] /\ UNCHANGED <<nextId, failed, delivered, acked>>
  BY DEF BackoffEnds
<1>2. TypeOK /\ job[h] \in Job
  BY <1>1 DEF IndInv, TypeOK, Exists
<1>3. job'[h] = [job[h] EXCEPT !.due = TRUE] /\ \A j \in Jobs : j # h => job'[j] = job[j]
  BY <1>1, <1>2 DEF TypeOK
<1>4. /\ job'[h] \in Job /\ job'[h].attempts = job[h].attempts
      /\ job'[h].reserved = job[h].reserved
  BY <1>2, <1>3 DEF Job
<1>5. MailStage(h)' = MailStage(h) /\ MailTries(h)' = MailTries(h)
  BY <1>1, <1>4, RunnersAssumption DEF MailStage, MailTries, Exists
<1>6. \A j \in Jobs : MailStage(j)' = MailStage(j) /\ MailTries(j)' = MailTries(j)
  BY <1>1, <1>3, <1>5, OthersStand
<1> QED
  BY <1>1, <1>6 DEF Outbox!outbox

\* The queue implements the outbox: a mail gets at most one copy for each
\* try and at most MaxAttempts tries, and leaves with a copy or dead.
THEOREM ImplementsOutbox == Spec => OutboxSpec
<1>1. ASSUME IndInv, [Next]_vars PROVE [Outbox!Next]_(Outbox!outbox)
  <2>1. CASE UNCHANGED vars
    BY <2>1, OutboxStutters DEF vars
  <2>2. ASSUME NEW t \in Tasks, Ask(t) \/ NothingToClaim(t) PROVE UNCHANGED Outbox!outbox
    BY <2>2, OutboxStutters DEF Ask, NothingToClaim
  <2>3. ASSUME NEW t \in Tasks, Enqueue(t) PROVE Outbox!Next
    BY <1>1, <2>3, EnqueuePosts
  <2>4. ASSUME NEW r \in Runners, SelectJob(r) \/ Stop(r) PROVE UNCHANGED Outbox!outbox
    BY <2>4, OutboxStutters DEF SelectJob, Stop
  <2>5. ASSUME NEW r \in Runners, Work(r), ~SelectJob(r)
        PROVE  Outbox!Next \/ UNCHANGED Outbox!outbox
    BY <1>1, <2>5, ReserveTries, SendHandsOver, SettleLeaves, RetryPostpones DEF Work
  <2>6. ASSUME NEW j \in Jobs, BackoffEnds(j) PROVE UNCHANGED Outbox!outbox
    BY <1>1, <2>6, BackoffStutters
  <2> QED
    BY <1>1, <2>1, <2>2, <2>3, <2>4, <2>5, <2>6 DEF Next
<1>2. Spec => Outbox!Init
  BY OutboxInit DEF Spec
<1> QED
  BY <1>1, <1>2, QueueInductive, PTL DEF Spec, OutboxSpec, Outbox!Spec

=============================================================================
