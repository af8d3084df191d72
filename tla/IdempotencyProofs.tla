------------------------- MODULE IdempotencyProofs -------------------------
(* Invariants of Idempotency, for any keys, processors, sweeps and TTLs. *)
EXTENDS Idempotency, TLAPS

USE IdempotencyAssumption

-----------------------------------------------------------------------------
(***************************************************************************)
(* Types.  A sweep that deletes and a processor that runs name a key.      *)
(***************************************************************************)
Tracked ==
    /\ \A w \in Workers : job[w].pc # "idle" => job[w].key \in Keys
    /\ \A s \in Sweepers : sweep[s].pc = "del" => sweep[s].cur \in Keys

IInv == TypeOK /\ Tracked

LEMMA TtlsNat == \A t \in Ttls \union {0} : t \in Nat
BY DEF IdempotencyAssumption

\* Rounding up to whole seconds never shortens a TTL.
LEMMA SecondsCover ==
    ASSUME NEW t \in Nat
    PROVE  TtlSeconds(t) \in Nat /\ t <= TtlSeconds(t)
<1>1. t % Second \in 0..(Second - 1)
  OBVIOUS
<1>2. t % Second <= t
  OBVIOUS
<1>. QED
  BY <1>1, <1>2 DEF TtlSeconds

\* What a sweep becomes when it is done with a key is again a sweep.
LEMMA OnwardTyped ==
    ASSUME NEW x \in SweepType
    PROVE  Onward(x) \in SweepType /\ Onward(x).pc # "del"
BY DEF SweepType, Onward, IdleSweep, NoRecord, RecordType

\* A lookup that finds nothing starts an execution of a key.
LEMMA BeginTyped ==
    ASSUME job \in [Workers -> JobType], NEW w \in Workers, NEW k \in Keys, Begin(w, k),
           \A v \in Workers : job[v].pc # "idle" => job[v].key \in Keys
    PROVE  /\ job' \in [Workers -> JobType]
           /\ \A v \in Workers : job'[v].pc # "idle" => job'[v].key \in Keys
<1> DEFINE begun == [IdleJob EXCEPT !.pc = "run", !.key = k]
<1>1. begun \in JobType /\ begun.key = k
  BY DEF IdleJob, JobType
<1>2. job' = [job EXCEPT ![w] = begun]
  BY DEF Begin
<1> HIDE DEF begun
<1>. QED
  BY <1>1, <1>2

LEMMA InitTyped == Init => IInv
BY DEF Init, IInv, TypeOK, Tracked, NoRecord, IdleJob, IdleSweep, RecordType, JobType, SweepType

LEMMA StepTyped == IInv /\ [Next]_vars => IInv'
<1> SUFFICES ASSUME IInv, [Next]_vars PROVE IInv'
  OBVIOUS
<1> USE DEF IInv, TypeOK, Tracked
<1>1. CASE Tick
  BY <1>1 DEF Tick, history
<1>2. ASSUME NEW w \in Workers, NEW k \in Keys, LookUp(w, k) PROVE IInv'
  <2>1. CASE UNCHANGED job
    BY <1>2, <2>1 DEF LookUp, history
  <2>2. CASE Begin(w, k)
    BY <1>2, <2>2, BeginTyped DEF LookUp, history
  <2>. QED
    BY <1>2, <2>1, <2>2 DEF LookUp
<1>3. ASSUME NEW w \in Workers, NEW k \in Keys, LookUpFails(w, k) PROVE IInv'
  BY <1>3, BeginTyped DEF LookUpFails, Fault, history
<1>4. ASSUME NEW w \in Workers, NEW ttl \in Ttls, Run(w, ttl) PROVE IInv'
  <2> DEFINE ran1 == [job[w] EXCEPT !.pc = "record", !.ttl = ttl, !.expires = clock + ttl]
  <2>1. job[w] \in JobType /\ job[w].key \in Keys
    BY <1>4 DEF Run
  <2>8. clock + ttl \in Nat
    <3>1. clock \in Nat /\ ttl \in Nat
      BY TtlsNat
    <3>. QED
      BY ONLY <3>1
  <2>2. ran' \in [Keys -> SUBSET Workers] /\ again' \subseteq Keys
    BY <1>4, <2>1 DEF Run
  <2>3. job' = [job EXCEPT ![w] = ran1]
    BY <1>4 DEF Run
  <2>4. ran1 \in JobType /\ ran1.key \in Keys
    BY <2>1, <2>8 DEF JobType
  <2> HIDE DEF ran1
  <2>5. job' \in [Workers -> JobType]
    BY <2>3, <2>4
  <2>6. \A v \in Workers : job'[v].pc # "idle" => job'[v].key \in Keys
    BY <2>3, <2>4
  <2>7. store' = store /\ sweep' = sweep /\ clock' = clock /\ faults' = faults
        /\ promised' = promised /\ overtaken' = overtaken
    BY <1>4 DEF Run
  <2>. QED
    BY <2>2, <2>5, <2>6, <2>7
<1>5. ASSUME NEW w \in Workers, Record(w) PROVE IInv'
  <2>1. job[w] \in JobType /\ job[w].key \in Keys
    BY <1>5 DEF Record
  <2>2. job[w].expires \in Nat /\ job[w].ttl \in Nat
    <3>1. job[w].expires \in Nat /\ job[w].ttl \in Ttls \union {0}
      BY <2>1 DEF JobType
    <3>. QED
      BY ONLY <3>1, TtlsNat
  <2>3. clock + TtlSeconds(job[w].ttl) \in Nat
    BY <2>2, SecondsCover
  <2>4. store' \in [Keys -> RecordType] /\ promised' \in [Keys -> Nat]
    BY <1>5, <2>1, <2>2, <2>3 DEF Record, RecordType
  <2>5. ran' \in [Keys -> SUBSET Workers] /\ overtaken' \subseteq Keys
    BY <1>5, <2>1 DEF Record
  <2>6. job' \in [Workers -> JobType] /\ job'[w].pc = "idle"
    BY <1>5 DEF Record, IdleJob, JobType
  <2>. QED
    BY <1>5, <2>4, <2>5, <2>6 DEF Record
<1>6. ASSUME NEW w \in Workers, Dies(w) PROVE IInv'
  BY <1>6 DEF Dies, Fault, IdleJob, JobType, history
<1>7. ASSUME NEW k \in Keys, Clear(k) PROVE IInv'
  BY <1>7 DEF Clear, NoRecord, RecordType
<1>8. ASSUME NEW s \in Sweepers, List(s) PROVE IInv'
  BY <1>8 DEF List, IdleSweep, SweepType, NoRecord, RecordType, history
<1>9. ASSUME NEW s \in Sweepers, Del(s) PROVE IInv'
  <2>1. sweep[s].cur \in Keys
    BY <1>9 DEF Del
  <2>2. Onward(sweep[s]) \in SweepType /\ Onward(sweep[s]).pc # "del"
    BY OnwardTyped
  <2>. QED
    BY <1>9, <2>1, <2>2 DEF Del, NoRecord, RecordType
<1>10. ASSUME NEW s \in Sweepers, SweepRejected(s) PROVE IInv'
  <2>1. \E x \in SweepType : sweep' = [sweep EXCEPT ![s] = Onward(x)]
    <3>1. CASE sweep' = [sweep EXCEPT ![s] = Onward(@)]
      BY <3>1
    <3>2. ASSUME NEW k \in sweep[s].todo,
                 sweep' = [sweep EXCEPT ![s] = Onward([sweep[s] EXCEPT !.todo = @ \ {k}])]
          PROVE  \E x \in SweepType : sweep' = [sweep EXCEPT ![s] = Onward(x)]
      <4>1. [sweep[s] EXCEPT !.todo = @ \ {k}] \in SweepType
        BY DEF SweepType
      <4>2. sweep' = [sweep EXCEPT ![s] = Onward([sweep[s] EXCEPT !.todo = @ \ {k}])]
        BY <3>2
      <4>. QED
        BY ONLY <4>1, <4>2
    <3>. QED
      BY <1>10, <3>1, <3>2 DEF SweepRejected
  <2>2. PICK x \in SweepType : sweep' = [sweep EXCEPT ![s] = Onward(x)]
    BY <2>1
  <2>3. Onward(x) \in SweepType /\ Onward(x).pc # "del"
    BY <2>2, OnwardTyped
  <2>. QED
    BY <1>10, <2>2, <2>3 DEF SweepRejected, history
<1>11. ASSUME NEW s \in Sweepers, NEW k \in Keys, Get(s, k) PROVE IInv'
  <2> DEFINE rest == [sweep[s] EXCEPT !.todo = @ \ {k}]
             found == [rest EXCEPT !.pc = "del", !.cur = k, !.seen = store[k]]
  <2>1. rest \in SweepType
    BY DEF SweepType
  <2>2. found \in SweepType /\ found.cur = k
    <3>1. store[k] \in RecordType
      OBVIOUS
    <3>. HIDE DEF rest
    <3>. QED
      BY <2>1, <3>1 DEF SweepType
  <2>3. Onward(rest) \in SweepType /\ Onward(rest).pc # "del"
    BY <2>1, OnwardTyped
  <2>4. \E x \in SweepType : /\ sweep' = [sweep EXCEPT ![s] = x]
                             /\ x.pc = "del" => x.cur \in Keys
    <3>1. CASE Expired(s, k)
      <4>1. sweep' = [sweep EXCEPT ![s] = found]
        BY <1>11, <3>1 DEF Get
      <4>. QED
        BY <2>2, <4>1
    <3>2. CASE ~Expired(s, k)
      <4>1. sweep' = [sweep EXCEPT ![s] = Onward(rest)]
        BY <1>11, <3>2 DEF Get
      <4>. QED
        BY <2>3, <4>1
    <3>. QED
      BY <3>1, <3>2
  <2> HIDE DEF rest, found
  <2>5. PICK x \in SweepType : /\ sweep' = [sweep EXCEPT ![s] = x]
                               /\ x.pc = "del" => x.cur \in Keys
    BY <2>4
  <2>. QED
    BY <1>11, <2>5 DEF Get, history
<1>12. ASSUME NEW s \in Sweepers, ReadTime(s) PROVE IInv'
  <2> DEFINE timed == [sweep[s] EXCEPT !.pc = "get", !.now = clock]
  <2>1. sweep' = [sweep EXCEPT ![s] = timed]
    BY <1>12 DEF ReadTime
  <2>2. timed \in SweepType /\ timed.pc # "del"
    BY DEF SweepType
  <2> HIDE DEF timed
  <2>. QED
    BY <1>12, <2>1, <2>2 DEF ReadTime, history
<1>13. CASE UNCHANGED vars
  BY <1>13 DEF vars
<1>. QED
  BY <1>1, <1>2, <1>3, <1>4, <1>5, <1>6, <1>7, <1>8, <1>9, <1>10, <1>11, <1>12, <1>13
  DEF Next

\* The variables keep the shapes TypeOK gives them: a record read, listed or stored
\* by any interleaving of processors and sweeps (idempotency.manager.ts) is a record.
THEOREM TypeCorrect == Spec => []TypeOK
<1>1. IInv => TypeOK
  BY DEF IInv
<1>. QED
  BY InitTyped, StepTyped, <1>1, PTL DEF Spec

-----------------------------------------------------------------------------
(***************************************************************************)
(* Results last.  What is recorded was promised no more than its TTL ago;  *)
(* a sweep deletes what had expired when it read it; and the record of a   *)
(* result in force is the newest one, kept by Redis until it expires.      *)
(***************************************************************************)
Promise == \A w \in Workers : job[w].pc = "record" => job[w].expires <= clock + job[w].ttl

Sweeping ==
    \A s \in Sweepers : /\ sweep[s].now <= clock
                        /\ sweep[s].pc = "del" => sweep[s].seen.expires < sweep[s].now

Newest ==
    \A k \in Keys : InForce(k) => /\ store[k].expires = promised[k]
                                  /\ promised[k] <= store[k].evicts

LInv == Promise /\ Sweeping /\ Newest

\* The numbers the steps below reason about.
LEMMA Numbers ==
    ASSUME IInv
    PROVE  /\ clock \in Nat
           /\ \A k \in Keys : /\ promised[k] \in Nat
                              /\ store[k].expires \in Nat /\ store[k].evicts \in Nat
           /\ \A w \in Workers : job[w].expires \in Nat /\ job[w].ttl \in Nat
           /\ \A s \in Sweepers : sweep[s].now \in Nat /\ sweep[s].seen.expires \in Nat
<1>1. clock \in Nat
  BY DEF IInv, TypeOK
<1>2. ASSUME NEW k \in Keys
      PROVE  promised[k] \in Nat /\ store[k].expires \in Nat /\ store[k].evicts \in Nat
  BY DEF IInv, TypeOK, RecordType
<1>3. ASSUME NEW w \in Workers PROVE job[w].expires \in Nat /\ job[w].ttl \in Nat
  <2>1. job[w] \in JobType
    BY DEF IInv, TypeOK
  <2>2. job[w].expires \in Nat /\ job[w].ttl \in Ttls \union {0}
    BY <2>1 DEF JobType
  <2>. QED
    BY ONLY <2>2, TtlsNat
<1>4. ASSUME NEW s \in Sweepers
      PROVE  sweep[s].now \in Nat /\ sweep[s].seen.expires \in Nat
  <2>1. sweep[s] \in SweepType
    BY DEF IInv, TypeOK
  <2>. QED
    BY <2>1 DEF SweepType, RecordType
<1>. QED
  BY <1>1, <1>2, <1>3, <1>4

\* A sweep done with a key deletes nothing yet, and compares with the same time.
LEMMA OnwardKeeps ==
    ASSUME NEW x \in SweepType, clock \in Nat, x.now <= clock
    PROVE  Onward(x).now <= clock /\ Onward(x).pc # "del"
BY DEF SweepType, Onward, IdleSweep, NoRecord

LEMMA InitLasts == Init => LInv
BY DEF Init, LInv, Promise, Sweeping, Newest, InForce, IdleJob, IdleSweep, NoRecord

\* Steps that touch no record: what was in force is what is in force.
LEMMA NewestStays ==
    ASSUME IInv, Newest, UNCHANGED <<store, promised, overtaken>>,
           clock' \in Nat, clock <= clock'
    PROVE  Newest'
<1> SUFFICES ASSUME NEW k \in Keys, InForce(k)'
             PROVE  store'[k].expires = promised'[k] /\ promised'[k] <= store'[k].evicts
  BY DEF Newest
<1>1. clock \in Nat /\ promised[k] \in Nat
  BY Numbers
<1>2. clock' < promised[k] /\ k \notin overtaken
  BY DEF InForce
<1>3. clock < promised[k]
  BY <1>1, <1>2
<1>. QED
  BY <1>2, <1>3 DEF Newest, InForce

LEMMA StepLasts == IInv /\ LInv /\ [Next]_vars => LInv'
<1> SUFFICES ASSUME IInv, LInv, [Next]_vars PROVE LInv'
  OBVIOUS
<1>0. /\ clock \in Nat
      /\ job \in [Workers -> JobType] /\ sweep \in [Sweepers -> SweepType]
      /\ store \in [Keys -> RecordType] /\ promised \in [Keys -> Nat]
  BY DEF IInv, TypeOK
<1> USE DEF LInv
<1>1. CASE Tick
  <2>1. clock' = clock + 1 /\ UNCHANGED <<store, job, sweep, promised, overtaken>>
    BY <1>1 DEF Tick, history
  <2>2. Newest'
    BY <2>1, <1>0, NewestStays
  <2>3. Promise' /\ Sweeping'
    BY <2>1, <1>0, Numbers DEF Promise, Sweeping
  <2>. QED
    BY <2>2, <2>3
<1>2. ASSUME NEW w \in Workers, NEW k \in Keys, LookUp(w, k) \/ LookUpFails(w, k) PROVE LInv'
  <2>1. UNCHANGED <<clock, store, sweep, promised, overtaken>>
    BY <1>2 DEF LookUp, LookUpFails, history
  <2>2. Promise'
    <3>1. CASE UNCHANGED job
      BY <2>1, <3>1 DEF Promise
    <3>2. CASE Begin(w, k)
      BY <2>1, <3>2, <1>0 DEF Begin, IdleJob, Promise
    <3>. QED
      BY <1>2, <3>1, <3>2 DEF LookUp, LookUpFails
  <2>. QED
    BY <2>1, <2>2, <1>0, NewestStays DEF Sweeping
<1>3. ASSUME NEW w \in Workers, NEW ttl \in Ttls, Run(w, ttl) PROVE LInv'
  <2>1. UNCHANGED <<clock, store, sweep, promised, overtaken>>
    BY <1>3 DEF Run
  <2>2. job'[w].ttl = ttl /\ job'[w].expires = clock + ttl
    BY <1>3, <1>0 DEF Run, JobType
  <2>3. \A v \in Workers \ {w} : job'[v] = job[v]
    BY <1>3, <1>0 DEF Run
  <2>4. Promise'
    <3> SUFFICES ASSUME NEW v \in Workers, job'[v].pc = "record"
                 PROVE  job'[v].expires <= clock' + job'[v].ttl
      BY DEF Promise
    <3>1. CASE v = w
      BY <2>1, <2>2, <3>1, <1>0, TtlsNat
    <3>2. CASE v # w
      BY <2>1, <2>3, <3>2 DEF Promise
    <3>. QED
      BY <3>1, <3>2
  <2>. QED
    BY <2>1, <2>4, <1>0, NewestStays DEF Sweeping
<1>4. ASSUME NEW w \in Workers, Record(w) PROVE LInv'
  <2> DEFINE k == job[w].key
  <2>1. k \in Keys /\ job[w].expires <= clock + job[w].ttl
    BY <1>4 DEF Record, IInv, Tracked, Promise
  <2>2. store'[k].expires = job[w].expires /\ promised'[k] = job[w].expires
    BY <1>4, <2>1, <1>0 DEF Record
  <2>3. store'[k].evicts = clock + TtlSeconds(job[w].ttl)
    BY <1>4, <2>1, <1>0 DEF Record
  <2>4. promised'[k] <= store'[k].evicts
    <3>1. job[w].ttl <= TtlSeconds(job[w].ttl) /\ TtlSeconds(job[w].ttl) \in Nat
      BY Numbers, SecondsCover
    <3>2. job[w].expires \in Nat /\ job[w].ttl \in Nat
      BY Numbers
    <3>. QED
      BY <1>0, <2>1, <2>2, <2>3, <3>1, <3>2
  <2>5. \A l \in Keys \ {k} : store'[l] = store[l] /\ promised'[l] = promised[l]
    BY <1>4, <1>0 DEF Record
  <2>6. clock' = clock /\ overtaken' = overtaken \ {k} /\ sweep' = sweep
    BY <1>4 DEF Record
  <2>7. Newest'
    <3> SUFFICES ASSUME NEW l \in Keys, InForce(l)'
                 PROVE  store'[l].expires = promised'[l] /\ promised'[l] <= store'[l].evicts
      BY DEF Newest
    <3>1. CASE l = k
      BY <2>2, <2>4, <3>1
    <3>2. CASE l # k
      <4>1. InForce(l)
        BY <2>5, <2>6, <3>2 DEF InForce
      <4>. QED
        BY <2>5, <3>2, <4>1 DEF Newest
    <3>. QED
      BY <3>1, <3>2
  <2>8. Promise'
    BY <1>4, <1>0 DEF Record, IdleJob, Promise
  <2>. QED
    BY <2>6, <2>7, <2>8 DEF Sweeping
<1>5. ASSUME NEW w \in Workers, Dies(w) PROVE LInv'
  <2>1. UNCHANGED <<clock, store, sweep, promised, overtaken>>
    BY <1>5 DEF Dies, history
  <2>2. Promise'
    BY <1>5, <1>0 DEF Dies, IdleJob, Promise
  <2>. QED
    BY <2>1, <2>2, <1>0, NewestStays DEF Sweeping
<1>6. ASSUME NEW k \in Keys, Clear(k) PROVE LInv'
  <2>1. UNCHANGED <<clock, job, sweep, overtaken>>
    BY <1>6 DEF Clear
  <2>2. promised'[k] = 0
    BY <1>6, <1>0 DEF Clear
  <2>3. \A l \in Keys \ {k} : store'[l] = store[l] /\ promised'[l] = promised[l]
    BY <1>6, <1>0 DEF Clear
  <2>4. Newest'
    <3> SUFFICES ASSUME NEW l \in Keys, InForce(l)'
                 PROVE  store'[l].expires = promised'[l] /\ promised'[l] <= store'[l].evicts
      BY DEF Newest
    <3>1. l # k
      BY <2>1, <2>2, <1>0 DEF InForce
    <3>2. InForce(l)
      BY <2>1, <2>3, <3>1 DEF InForce
    <3>. QED
      BY <2>3, <3>1, <3>2 DEF Newest
  <2>. QED
    BY <2>1, <2>4 DEF Promise, Sweeping
<1>7. ASSUME NEW s \in Sweepers, List(s) PROVE LInv'
  <2>1. UNCHANGED <<clock, store, job, promised, overtaken>>
    BY <1>7 DEF List, history
  <2>2. Sweeping'
    BY <1>7, <2>1, <1>0 DEF List, IdleSweep, NoRecord, Sweeping
  <2>. QED
    BY <2>1, <2>2, <1>0, NewestStays DEF Promise
<1>8. ASSUME NEW s \in Sweepers, ReadTime(s) PROVE LInv'
  <2>1. UNCHANGED <<clock, store, job, promised, overtaken>>
    BY <1>8 DEF ReadTime, history
  <2>2. sweep'[s].pc = "get" /\ sweep'[s].now = clock
    BY <1>8, <1>0 DEF ReadTime, SweepType
  <2>3. \A r \in Sweepers \ {s} : sweep'[r] = sweep[r]
    BY <1>8, <1>0 DEF ReadTime
  <2>4. Sweeping'
    BY <2>1, <2>2, <2>3, <1>0 DEF Sweeping
  <2>. QED
    BY <2>1, <2>4, <1>0, NewestStays DEF Promise
<1>9. ASSUME NEW s \in Sweepers, NEW k \in Keys, Get(s, k) PROVE LInv'
  <2> DEFINE rest == [sweep[s] EXCEPT !.todo = @ \ {k}]
             found == [rest EXCEPT !.pc = "del", !.cur = k, !.seen = store[k]]
  <2>1. UNCHANGED <<clock, store, job, promised, overtaken>>
    BY <1>9 DEF Get, history
  <2>2. rest \in SweepType /\ rest.now = sweep[s].now /\ found.now = sweep[s].now
        /\ found.seen = store[k]
    BY <1>0 DEF SweepType
  <2>3. sweep[s].now <= clock
    BY DEF Sweeping
  <2>4. \E x : /\ sweep' = [sweep EXCEPT ![s] = x]
               /\ x.now <= clock /\ (x.pc = "del" => x.seen.expires < x.now)
    <3>1. CASE Expired(s, k)
      <4>1. sweep' = [sweep EXCEPT ![s] = found]
        BY <1>9, <3>1 DEF Get
      <4>2. found.seen.expires < found.now
        BY <2>2, <3>1 DEF Expired
      <4>. QED
        BY <2>2, <2>3, <4>1, <4>2
    <3>2. CASE ~Expired(s, k)
      <4>1. sweep' = [sweep EXCEPT ![s] = Onward(rest)]
        BY <1>9, <3>2 DEF Get
      <4>2. Onward(rest).now <= clock /\ Onward(rest).pc # "del"
        BY <1>0, <2>2, <2>3, OnwardKeeps
      <4>. QED
        BY <4>1, <4>2
    <3>. QED
      BY <3>1, <3>2
  <2>5. Sweeping'
    BY <2>1, <2>4, <1>0 DEF Sweeping
  <2>. QED
    BY <2>1, <2>5, <1>0, NewestStays DEF Promise
<1>10. ASSUME NEW s \in Sweepers, Del(s) PROVE LInv'
  <2> DEFINE k == sweep[s].cur
  <2>1. UNCHANGED <<clock, job, promised>>
    BY <1>10 DEF Del
  <2>2. sweep' = [sweep EXCEPT ![s] = Onward(sweep[s])]
    BY <1>10 DEF Del
  <2>3. Onward(sweep[s]).now <= clock /\ Onward(sweep[s]).pc # "del"
    BY <1>0, OnwardKeeps DEF Sweeping
  <2>4. Sweeping'
    BY <2>1, <2>2, <2>3, <1>0 DEF Sweeping
  <2>5. k \in Keys /\ sweep[s].seen.expires < sweep[s].now /\ sweep[s].now <= clock
    BY <1>10 DEF Del, IInv, Tracked, Sweeping
  <2>6. Newest'
    <3> SUFFICES ASSUME NEW l \in Keys, InForce(l)'
                 PROVE  store'[l].expires = promised'[l] /\ promised'[l] <= store'[l].evicts
      BY DEF Newest
    <3>1. InForce(l)
      BY <1>10, <2>1 DEF Del, InForce
    <3>2. l # k
      <4>1. SUFFICES ASSUME l = k PROVE FALSE
        OBVIOUS
      <4>2. CASE store[k] = sweep[s].seen
        <5>1. store[k].expires = promised[k] /\ clock < promised[k]
          BY <3>1, <4>1 DEF Newest, InForce
        <5>. QED
          BY <1>0, <2>5, <4>2, <5>1, Numbers
      <4>3. CASE store[k] # sweep[s].seen
        BY <1>10, <4>1, <4>3 DEF Del, InForce
      <4>. QED
        BY <4>2, <4>3
    <3>3. store'[l] = store[l]
      BY <1>10, <3>2, <1>0 DEF Del
    <3>. QED
      BY <2>1, <3>1, <3>3 DEF Newest
  <2>. QED
    BY <2>1, <2>4, <2>6 DEF Promise
<1>11. ASSUME NEW s \in Sweepers, SweepRejected(s) PROVE LInv'
  <2>1. UNCHANGED <<clock, store, job, promised, overtaken>>
    BY <1>11 DEF SweepRejected, history
  <2>2. \E x \in SweepType : x.now <= clock /\ sweep' = [sweep EXCEPT ![s] = Onward(x)]
    <3>1. CASE sweep' = [sweep EXCEPT ![s] = Onward(@)]
      BY <1>0, <3>1 DEF Sweeping
    <3>2. ASSUME NEW k \in sweep[s].todo,
                 sweep' = [sweep EXCEPT ![s] = Onward([sweep[s] EXCEPT !.todo = @ \ {k}])]
          PROVE  \E x \in SweepType : /\ x.now <= clock
                                      /\ sweep' = [sweep EXCEPT ![s] = Onward(x)]
      <4> DEFINE rest == [sweep[s] EXCEPT !.todo = @ \ {k}]
      <4>1. rest \in SweepType /\ rest.now = sweep[s].now
        BY <1>0 DEF SweepType
      <4>2. rest.now <= clock
        BY <4>1 DEF Sweeping
      <4>. QED
        BY ONLY <3>2, <4>1, <4>2
    <3>. QED
      BY <1>11, <3>1, <3>2 DEF SweepRejected
  <2>3. PICK x \in SweepType : x.now <= clock /\ sweep' = [sweep EXCEPT ![s] = Onward(x)]
    BY <2>2
  <2>4. Onward(x).now <= clock /\ Onward(x).pc # "del"
    BY <1>0, <2>3, OnwardKeeps
  <2>5. Sweeping'
    BY <2>1, <2>3, <2>4, <1>0 DEF Sweeping
  <2>. QED
    BY <2>1, <2>5, <1>0, NewestStays DEF Promise
<1>12. CASE UNCHANGED vars
  BY <1>12 DEF vars, Promise, Sweeping, Newest, InForce
<1>. QED
  BY <1>1, <1>2, <1>3, <1>4, <1>5, <1>6, <1>7, <1>8, <1>9, <1>10, <1>11, <1>12 DEF Next

LEMMA InForceStored == ASSUME IInv, LInv PROVE ResultLasts
<1> SUFFICES ASSUME NEW k \in Keys, InForce(k) PROVE Stored(k)
  BY DEF ResultLasts
<1>1. clock \in Nat /\ promised[k] \in Nat /\ store[k].evicts \in Nat
  BY Numbers
<1>2. clock < promised[k] /\ promised[k] <= store[k].evicts
  BY DEF LInv, Newest, InForce
<1>. QED
  BY <1>1, <1>2 DEF Stored

\* A result recorded (recordExecution, :28-61) is found until its expiresAt, whatever
\* the delay of SETEX and the rounding of its TTL, unless clear() took it or a sweep
\* that had read an older record of its key.
THEOREM ResultLastsAlways == Spec => []ResultLasts
<1>1. Init => IInv /\ LInv
  BY InitTyped, InitLasts
<1>2. IInv /\ LInv /\ [Next]_vars => (IInv /\ LInv)'
  BY StepTyped, StepLasts
<1>3. IInv /\ LInv => ResultLasts
  BY InForceStored
<1>. QED
  BY <1>1, <1>2, <1>3, PTL DEF Spec

-----------------------------------------------------------------------------
(***************************************************************************)
(* No repeats.  A worker that ran a key since its result came into force   *)
(* is not about to run it again: its next lookup finds the result.         *)
(***************************************************************************)
Rest ==
    /\ again = {}
    /\ \A k \in Keys : InForce(k) =>
         \A w \in ran[k] : ~(job[w].pc = "run" /\ job[w].key = k)

RInv == faults = 0 => Rest

LEMMA InitRests == Init => RInv
BY DEF Init, RInv, Rest

\* Steps that run nothing and bring no result into force.
LEMMA RestStays ==
    ASSUME Rest, UNCHANGED <<job, ran, again>>, \A k \in Keys : InForce(k)' => InForce(k)
    PROVE  Rest'
BY DEF Rest

LEMMA StepRests == IInv /\ LInv /\ RInv /\ [Next]_vars => RInv'
<1> SUFFICES ASSUME IInv, LInv, RInv, [Next]_vars, faults' = 0 PROVE Rest'
  BY DEF RInv
<1>0. /\ clock \in Nat /\ faults \in Nat
      /\ job \in [Workers -> JobType]
      /\ promised \in [Keys -> Nat] /\ ran \in [Keys -> SUBSET Workers]
  BY DEF IInv, TypeOK
<1>1. CASE Tick
  <2>1. \A k \in Keys : InForce(k)' => InForce(k)
    BY <1>0, <1>1 DEF Tick, InForce, history
  <2>. QED
    BY <1>1, <2>1, RestStays DEF Tick, RInv, history
<1>2. ASSUME NEW w \in Workers, NEW k \in Keys, LookUp(w, k) PROVE Rest'
  <2>1. UNCHANGED <<clock, promised, overtaken, ran, again>> /\ Rest
    BY <1>2 DEF LookUp, RInv, history
  <2>2. \A l \in Keys : InForce(l)' = InForce(l)
    BY <2>1 DEF InForce
  <2>3. CASE UNCHANGED job
    BY <2>1, <2>2, <2>3, RestStays
  <2>4. CASE ~Stored(k) /\ Begin(w, k)
    <3>1. ~InForce(k)
      BY <2>4, InForceStored DEF ResultLasts
    <3>2. job'[w].key = k
      BY <2>4, <1>0 DEF Begin, IdleJob
    <3>3. \A v \in Workers \ {w} : job'[v] = job[v]
      BY <2>4, <1>0 DEF Begin
    <3> SUFFICES ASSUME NEW l \in Keys, InForce(l), NEW v \in ran[l]
                 PROVE  ~(job'[v].pc = "run" /\ job'[v].key = l)
      BY <2>1, <2>2 DEF Rest
    <3>4. l # k /\ v \in Workers
      BY <3>1, <1>0
    <3>5. ~(job[v].pc = "run" /\ job[v].key = l)
      BY <2>1 DEF Rest
    <3>. QED
      BY <3>2, <3>3, <3>4, <3>5
  <2>. QED
    BY <1>2, <2>3, <2>4 DEF LookUp
<1>3. ASSUME NEW w \in Workers, NEW k \in Keys, LookUpFails(w, k) PROVE Rest'
  BY <1>0, <1>3 DEF LookUpFails, Fault
<1>4. ASSUME NEW w \in Workers, NEW ttl \in Ttls, Run(w, ttl) PROVE Rest'
  <2> DEFINE k == job[w].key
  <2>1. UNCHANGED <<clock, promised, overtaken>> /\ Rest /\ k \in Keys /\ job[w].pc = "run"
    BY <1>4 DEF Run, RInv, IInv, Tracked
  <2>2. \A l \in Keys : InForce(l)' = InForce(l)
    BY <2>1 DEF InForce
  <2>3. job'[w].pc = "record" /\ \A v \in Workers \ {w} : job'[v] = job[v]
    BY <1>4, <1>0 DEF Run, JobType
  <2>4. \A l \in Keys : ran'[l] \subseteq ran[l] \union {w}
    BY <1>4, <1>0 DEF Run
  <2>5. again' = {}
    <3>1. InForce(k) => w \notin ran[k]
      BY <2>1 DEF Rest
    <3>2. again = {}
      BY <2>1 DEF Rest
    <3>. QED
      BY <1>4, <3>1, <3>2 DEF Run
  <2> SUFFICES ASSUME NEW l \in Keys, InForce(l), NEW v \in ran'[l]
               PROVE  ~(job'[v].pc = "run" /\ job'[v].key = l)
    BY <2>2, <2>5 DEF Rest
  <2>6. CASE v = w
    BY <2>3, <2>6
  <2>7. CASE v # w
    <3>1. v \in ran[l] /\ v \in Workers
      BY <2>4, <2>7, <1>0
    <3>2. job'[v] = job[v]
      BY <2>3, <2>7, <3>1
    <3>. QED
      BY <2>1, <3>1, <3>2 DEF Rest
  <2>. QED
    BY <2>6, <2>7
<1>5. ASSUME NEW w \in Workers, Record(w) PROVE Rest'
  <2> DEFINE k == job[w].key
  <2>1. UNCHANGED <<clock, again>> /\ Rest /\ k \in Keys
    BY <1>5 DEF Record, RInv, IInv, Tracked
  <2>2. job'[w].pc = "idle" /\ \A v \in Workers \ {w} : job'[v] = job[v]
    BY <1>5, <1>0 DEF Record, IdleJob
  <2>3. \A l \in Keys \ {k} : InForce(l)' => InForce(l)
    BY <1>5, <1>0 DEF Record, InForce
  <2>4. \A l \in Keys : ran'[l] \subseteq ran[l]
    BY <1>5, <1>0 DEF Record
  <2>5. ~InForce(k) => ran'[k] = {}
    BY <1>5, <2>1, <1>0 DEF Record
  <2>6. again' = {}
    BY <2>1 DEF Rest
  <2> SUFFICES ASSUME NEW l \in Keys, InForce(l)', NEW v \in ran'[l]
               PROVE  ~(job'[v].pc = "run" /\ job'[v].key = l)
    BY <2>6 DEF Rest
  <2>7. InForce(l) /\ v \in ran[l] /\ v \in Workers
    BY <2>3, <2>4, <2>5, <1>0
  <2>8. ~(job[v].pc = "run" /\ job[v].key = l)
    BY <2>1, <2>7 DEF Rest
  <2>. QED
    BY <2>2, <2>7, <2>8
<1>6. ASSUME NEW w \in Workers, Dies(w) PROVE Rest'
  BY <1>0, <1>6 DEF Dies, Fault
<1>7. ASSUME NEW k \in Keys, Clear(k) PROVE Rest'
  <2>1. \A l \in Keys : InForce(l)' => InForce(l)
    BY <1>0, <1>7 DEF Clear, InForce
  <2>. QED
    BY <1>7, <2>1, RestStays DEF Clear, RInv
<1>8. ASSUME NEW s \in Sweepers,
             List(s) \/ ReadTime(s) \/ SweepRejected(s) \/ \E k \in Keys : Get(s, k)
      PROVE  Rest'
  <2>1. UNCHANGED <<clock, job, faults, promised, overtaken, ran, again>>
    BY <1>8 DEF List, ReadTime, SweepRejected, Get, history
  <2>. QED
    BY <2>1, RestStays DEF RInv, InForce
<1>9. ASSUME NEW s \in Sweepers, Del(s) PROVE Rest'
  <2>1. UNCHANGED <<clock, job, faults, promised, ran, again>> /\ overtaken \subseteq overtaken'
    BY <1>9 DEF Del
  <2>. QED
    BY <2>1, RestStays DEF RInv, InForce
<1>10. CASE UNCHANGED vars
  BY <1>10, RestStays DEF vars, RInv, InForce
<1>. QED
  BY <1>1, <1>2, <1>3, <1>4, <1>5, <1>6, <1>7, <1>8, <1>9, <1>10 DEF Next

\* With Redis answering, and no matter how sweeps, processors and the clock interleave,
\* a worker never runs a key twice while a result of it is in force: getExecutionResult
\* (:66-84) finds it the second time.
THEOREM NoWorkerRepeatsAlways == Spec => []NoWorkerRepeats
<1>1. Init => IInv /\ LInv /\ RInv
  BY InitTyped, InitLasts, InitRests
<1>2. IInv /\ LInv /\ RInv /\ [Next]_vars => (IInv /\ LInv /\ RInv)'
  BY StepTyped, StepLasts, StepRests
<1>3. RInv => NoWorkerRepeats
  BY DEF RInv, Rest, NoWorkerRepeats
<1>. QED
  BY <1>1, <1>2, <1>3, PTL DEF Spec
=============================================================================
