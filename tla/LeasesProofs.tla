---------------------------- MODULE LeasesProofs ----------------------------
(***************************************************************************)
(* Proofs about Leases for every length of lease, heartbeat, backoff and   *)
(* reaper schedule that TimesAssumption allows: a worker that heartbeats   *)
(* in time keeps its attempt, dead workers and lost messages are found in  *)
(* a known time, reservations come and go with the job's status.           *)
(***************************************************************************)
EXTENDS Leases, TLAPS

\* Attempts are made one after the other, up to the retry budget, and only
\* living workers are in a heartbeat.
Numbered ==
    /\ running \cup live \cup listed \subseteq 1 .. count
    /\ job \in {"PENDING", "QUEUED"} => count < MaxAttempts
    /\ \A n \in Attempt : diedAt[n] # None => n <= count /\ n \notin live
    /\ \A n \in Attempt : beat[n] # "none" => n \in live

\* The reaper keeps its schedule, and its findings to the phase they are for.
ReaperClock ==
    /\ reapAt <= now
    /\ reaper = "idle" => now <= reapAt + ReapEvery
    /\ reaper # "idle" => now <= reapAt + ReapTime
    /\ listed # {} => reaper = "attempts"
    /\ overdue => reaper = "queued"

\* The lease of a punctual worker covers the time until its next extension:
\* that of the last heartbeat, while it is in none, and that of the one before,
\* while it is in one that has yet to write.
Covered(n) ==
    /\ n \in running /\ n \notin listed
    /\ beat[n] = "none" => now <= beatAt[n] + BeatEvery
    /\ beat[n] # "none" => now <= beatAt[n] + BeatTime
    /\ beat[n] \in {"none", "extended"} => lease[n] >= beatAt[n] + Lease
    /\ beat[n] \in {"begun", "checked"} => lease[n] + BeatEvery >= beatAt[n] + Lease

PunctualCovered == \A n \in live \cap Punctual : Covered(n)

\* No lease outlasts the last heartbeat, or the worker's death, by more than
\* its length.
LeasesBounded ==
    /\ \A n \in live : beatAt[n] <= now /\ lease[n] <= beatAt[n] + Lease
    /\ \A n \in running : diedAt[n] # None => lease[n] <= diedAt[n] + Lease

\* What a scan has passed over had not expired then.
LeasesScanned ==
    \A n \in running :
        /\ lease[n] + ReapEvery >= reapAt
        /\ reaper # "begun" /\ n \notin listed => lease[n] >= reapAt

\* A queued job's reservation ends with the lease of its dispatch or of an
\* attempt that is still RUNNING: an attempt is settled by a step that takes
\* the job out of the queue, so that a heartbeat which outlives its attempt was
\* begun before the job was dispatched again.
QueueExtended ==
    /\ \A n \in live : beat[n] = "extended" => lease[n] = beatAt[n] + Lease
    /\ job = "QUEUED" =>
        /\ reservation <= queuedAt + Lease \/ \E n \in running : reservation <= lease[n]
        /\ \A n \in live \ running :
              beat[n] \in {"checked", "extended"} => beatAt[n] <= queuedAt

\* What the scans of a queued job have passed over, if no attempt of it is
\* RUNNING: heartbeats of settled attempts only shorten its reservation.
QueueScanned ==
    job = "QUEUED" /\ running = {} =>
        /\ queuedAt + Lease + ReapEvery >= reapAt
        /\ reaper \in {"idle", "queued"} /\ ~overdue => queuedAt + Lease >= reapAt

\* A job that leaves the queue while it is listed stays out of it until the
\* reaper is done.
OverdueSettled == overdue /\ job = "PENDING" => reapAt + ReapTime < readyAt

Inv ==
    /\ TypeOK
    /\ Numbered
    /\ ReaperClock
    /\ ReservationMatchesJob
    /\ PunctualCovered
    /\ LeasesBounded
    /\ LeasesScanned
    /\ QueueExtended
    /\ QueueScanned
    /\ OverdueSettled

LEMMA Times ==
    /\ Lease \in Nat /\ BeatEvery \in Nat /\ BeatTime \in Nat /\ ReapEvery \in Nat
    /\ ReapTime \in Nat /\ RetryDelay \in Nat /\ MaxAttempts \in Nat /\ Horizon \in Nat
    /\ BeatTime <= BeatEvery /\ BeatEvery + BeatTime <= Lease /\ MaxAttempts > 0
    /\ ReapTime < ReapEvery /\ ReapTime < RetryDelay
    /\ Punctual \subseteq Attempt
BY TimesAssumption DEF Attempt

LEMMA InitInv == Init => Inv
<1> SUFFICES ASSUME Init PROVE Inv
  OBVIOUS
<1>1. TypeOK
  <2>1. 0 \in Time /\ 0 \in Expiry /\ 0 \in 0 .. MaxAttempts
    BY Times DEF Time, Expiry
  <2> QED BY <2>1 DEF Init, TypeOK
<1>2. Numbered /\ ReaperClock /\ ReservationMatchesJob /\ PunctualCovered
  BY Times DEF Init, Numbered, ReaperClock, ReservationMatchesJob, PunctualCovered, None
<1>3. LeasesBounded /\ LeasesScanned /\ QueueExtended /\ QueueScanned /\ OverdueSettled
  BY Times DEF Init, LeasesBounded, LeasesScanned, QueueExtended, QueueScanned, OverdueSettled
<1> QED BY <1>1, <1>2, <1>3 DEF Inv

\* Times are numbers.
LEMMA Numbers ==
    ASSUME TypeOK
    PROVE  /\ now \in Nat /\ queuedAt \in Nat /\ reapAt \in Nat /\ readyAt \in Nat
           /\ reservation \in Int /\ count \in Nat
           /\ \A n \in Attempt : /\ n \in Nat
                                 /\ lease[n] \in Nat /\ beatAt[n] \in Nat /\ diedAt[n] \in Int
                                 /\ beat[n] \in {"none", "begun", "checked", "extended"}
BY Times DEF TypeOK, Time, Expiry, None, Attempt

\* The lease of a living punctual worker has not expired.
LEMMA LeaseHolds ==
    ASSUME Inv, NEW n \in live \cap Punctual
    PROVE  lease[n] >= now
<1>1. n \in Attempt /\ Covered(n)
  BY Times DEF Inv, PunctualCovered
<1> QED BY <1>1, Times, Numbers DEF Inv, Covered

LEMMA TickInv == ASSUME Inv, Tick PROVE Inv'
<1> USE Times DEF Tick, jobVars, workerVars, reaperVars, ReaperInTime, BeatsInTime
<1>1. TypeOK'
  BY DEF Inv, TypeOK, Numbered, Attempt, Time, Expiry, None
<1>2. Numbered' /\ ReaperClock'
  BY SMTT(30), Numbers DEF Inv, TypeOK, Numbered, ReaperClock, Attempt, Time, None
<1>3. ReservationMatchesJob' /\ OverdueSettled'
  BY Numbers DEF Inv, ReservationMatchesJob, ReaperClock, OverdueSettled, None
<1>4. PunctualCovered'
  <2> SUFFICES ASSUME NEW m \in (live \cap Punctual)' PROVE Covered(m)'
    BY DEF PunctualCovered
  <2>1. m \in Attempt /\ (m \in live => Covered(m))
    BY DEF Inv, PunctualCovered
  <2> QED BY <2>1, Numbers DEF Inv, TypeOK, Numbered, ReaperClock, Covered
<1>5. LeasesBounded'
  BY Numbers DEF Inv, TypeOK, Numbered, LeasesBounded, Attempt, Time, None
<1>6. LeasesScanned'
  BY Numbers DEF Inv, TypeOK, Numbered, ReaperClock, LeasesBounded, LeasesScanned, Attempt, None
<1>7. QueueScanned'
  BY Numbers DEF Inv, TypeOK, Numbered, ReaperClock, ReservationMatchesJob, LeasesBounded,
     QueueExtended, QueueScanned, OverdueSettled, None
<1>8. QueueExtended'
  BY Numbers DEF Inv, TypeOK, Numbered, LeasesBounded, QueueExtended, Attempt, None
<1> QED BY <1>1, <1>2, <1>3, <1>4, <1>5, <1>6, <1>7, <1>8 DEF Inv

LEMMA DispatchInv == ASSUME Inv, Dispatch PROVE Inv'
<1> USE Times DEF Dispatch, workerVars, reaperVars
<1>1. TypeOK'
  BY DEF Inv, TypeOK, Numbered, Attempt, Time, Expiry, None
<1>2. Numbered' /\ ReaperClock'
  BY Numbers DEF Inv, TypeOK, Numbered, ReaperClock, Attempt, Time, None
<1>3. ReservationMatchesJob' /\ OverdueSettled'
  BY Numbers DEF Inv, ReservationMatchesJob, ReaperClock, OverdueSettled, None
<1>4. PunctualCovered'
  <2> SUFFICES ASSUME NEW m \in (live \cap Punctual)' PROVE Covered(m)'
    BY DEF PunctualCovered
  <2>1. m \in Attempt /\ (m \in live => Covered(m))
    BY DEF Inv, PunctualCovered
  <2> QED BY <2>1, Numbers DEF Inv, TypeOK, Numbered, ReaperClock, Covered
<1>5. LeasesBounded'
  BY Numbers DEF Inv, TypeOK, Numbered, LeasesBounded, Attempt, Time, None
<1>6. LeasesScanned'
  BY Numbers DEF Inv, TypeOK, Numbered, ReaperClock, LeasesBounded, LeasesScanned, Attempt, None
<1>7. QueueScanned'
  BY Numbers DEF Inv, TypeOK, Numbered, ReaperClock, ReservationMatchesJob, LeasesBounded,
     QueueExtended, QueueScanned, OverdueSettled, None
<1>8. QueueExtended'
  BY Numbers DEF Inv, TypeOK, Numbered, LeasesBounded, QueueExtended, Attempt, None
<1> QED BY <1>1, <1>2, <1>3, <1>4, <1>5, <1>6, <1>7, <1>8 DEF Inv

LEMMA ClaimInv == ASSUME Inv, Claim PROVE Inv'
<1> USE Times DEF Claim, reaperVars
<1>1. TypeOK'
  <2>1. count + 1 \in Attempt /\ count + 1 \in 0 .. MaxAttempts
    BY Numbers DEF Inv, Numbered, Attempt
  <2>2. now + Lease \in Expiry
    BY DEF Inv, TypeOK, Time, Expiry
  <2> QED BY <2>1, <2>2 DEF Inv, TypeOK
<1>2. Numbered' /\ ReaperClock'
  <2>1. /\ (running \cup live \cup listed \subseteq 1 .. count)'
        /\ (job \in {"PENDING", "QUEUED"} => count < MaxAttempts)'
    BY Numbers DEF Inv, TypeOK, Numbered, ReaperClock
  <2>2. ASSUME NEW m \in Attempt
        PROVE  (diedAt[m] # None => m <= count /\ m \notin live)' /\ (beat[m] # "none" => m \in live)'
    <3>1. /\ diedAt[m] # None => m <= count /\ m \notin live
          /\ beat[m] # "none" => m \in live
          /\ m \in live => m <= count
      BY <2>2 DEF Inv, Numbered
    <3> QED BY <2>2, <3>1, Numbers DEF Inv, TypeOK
  <2>3. Numbered'
    BY <2>1, <2>2 DEF Numbered
  <2>4. ReaperClock'
    BY Numbers DEF Inv, ReaperClock
  <2> QED BY <2>3, <2>4
<1>3. ReservationMatchesJob' /\ OverdueSettled'
  BY Numbers DEF Inv, ReservationMatchesJob, ReaperClock, OverdueSettled, None
<1>4. PunctualCovered'
  <2> SUFFICES ASSUME NEW m \in (live \cap Punctual)' PROVE Covered(m)'
    BY DEF PunctualCovered
  <2>1. m \in Attempt /\ (m \in live => Covered(m))
    BY DEF Inv, PunctualCovered
  <2> QED BY <2>1, Numbers DEF Inv, TypeOK, Numbered, ReaperClock, Covered
<1>5. LeasesBounded'
  BY Numbers DEF Inv, TypeOK, Numbered, LeasesBounded, Attempt, Time, None
<1>6. LeasesScanned'
  <2> SUFFICES ASSUME NEW m \in running'
               PROVE  /\ (lease[m] + ReapEvery >= reapAt)'
                      /\ reaper' # "begun" /\ m \notin listed' => (lease[m] >= reapAt)'
    BY DEF LeasesScanned
  <2>1. /\ m \in Attempt
        /\ m \in running => /\ lease[m] + ReapEvery >= reapAt
                            /\ reaper # "begun" /\ m \notin listed => lease[m] >= reapAt
        /\ m \in live => lease[m] <= beatAt[m] + Lease
    BY DEF Inv, TypeOK, Numbered, LeasesScanned, LeasesBounded, Attempt
  <2> QED BY <2>1, Numbers DEF Inv, TypeOK, Numbered, ReaperClock
<1>7. QueueScanned'
  BY Numbers DEF Inv, TypeOK, Numbered, ReaperClock, ReservationMatchesJob, LeasesBounded,
     QueueExtended, QueueScanned, OverdueSettled, None
<1>8. QueueExtended'
  <2>1. ASSUME NEW m \in live', beat'[m] = "extended"
        PROVE  lease'[m] = beatAt'[m] + Lease
    <3>1. m \in Attempt
      BY <2>1, Numbers DEF Inv, TypeOK, Numbered, Attempt
    <3>2. beat[m] = "extended" /\ m \in live
      BY <2>1, <3>1 DEF Inv, Numbered
    <3>3. lease[m] = beatAt[m] + Lease
      BY <3>2 DEF Inv, QueueExtended
    <3>4. m # count + 1
      BY <3>2, Numbers DEF Inv, Numbered
    <3> QED BY <3>1, <3>3, <3>4 DEF Inv, TypeOK
  <2> QED BY <2>1 DEF QueueExtended
<1> QED BY <1>1, <1>2, <1>3, <1>4, <1>5, <1>6, <1>7, <1>8 DEF Inv

LEMMA ReportInv == ASSUME Inv, NEW n \in Attempt, Report(n) PROVE Inv'
<1> USE Times DEF Report, reaperVars, Succeed, Retry
<1>1. TypeOK'
  <2>1. now + RetryDelay \in Expiry
    BY DEF Inv, TypeOK, Time, Expiry
  <2> QED BY <2>1 DEF Inv, TypeOK
<1>2. Numbered' /\ ReaperClock'
  BY Numbers DEF Inv, TypeOK, Numbered, ReaperClock, Attempt, Time, None
<1>3. ReservationMatchesJob' /\ OverdueSettled'
  BY Numbers DEF Inv, ReservationMatchesJob, ReaperClock, OverdueSettled, None
<1>4. PunctualCovered'
  <2> SUFFICES ASSUME NEW m \in (live \cap Punctual)' PROVE Covered(m)'
    BY DEF PunctualCovered
  <2>1. m \in Attempt /\ (m \in live => Covered(m))
    BY DEF Inv, PunctualCovered
  <2> QED BY <2>1, Numbers DEF Inv, TypeOK, Numbered, ReaperClock, Covered
<1>5. LeasesBounded'
  BY Numbers DEF Inv, TypeOK, Numbered, LeasesBounded, Attempt, Time, None
<1>6. LeasesScanned'
  BY Numbers DEF Inv, TypeOK, Numbered, ReaperClock, LeasesBounded, LeasesScanned, Attempt, None
<1>7. QueueScanned'
  BY Numbers DEF Inv, TypeOK, Numbered, ReaperClock, ReservationMatchesJob, LeasesBounded,
     QueueExtended, QueueScanned, OverdueSettled, None
<1>8. QueueExtended'
  BY Numbers DEF Inv, TypeOK, Numbered, LeasesBounded, QueueExtended, Attempt, None
<1> QED BY <1>1, <1>2, <1>3, <1>4, <1>5, <1>6, <1>7, <1>8 DEF Inv

LEMMA DieInv == ASSUME Inv, NEW n \in Attempt, Die(n) PROVE Inv'
<1> USE Times DEF Die, jobVars, reaperVars
<1>1. TypeOK'
  BY DEF Inv, TypeOK, Numbered, Attempt, Time, Expiry, None
<1>2. Numbered' /\ ReaperClock'
  <2>1. /\ (running \cup live \cup listed \subseteq 1 .. count)'
        /\ (job \in {"PENDING", "QUEUED"} => count < MaxAttempts)'
    BY Numbers DEF Inv, TypeOK, Numbered, ReaperClock
  <2>2. ASSUME NEW m \in Attempt
        PROVE  (diedAt[m] # None => m <= count /\ m \notin live)' /\ (beat[m] # "none" => m \in live)'
    <3>1. /\ diedAt[m] # None => m <= count /\ m \notin live
          /\ beat[m] # "none" => m \in live
          /\ m \in live => m <= count
      BY <2>2 DEF Inv, Numbered
    <3> QED BY <2>2, <3>1, Numbers DEF Inv, TypeOK
  <2>3. Numbered'
    BY <2>1, <2>2 DEF Numbered
  <2>4. ReaperClock'
    BY Numbers DEF Inv, ReaperClock
  <2> QED BY <2>3, <2>4
<1>3. ReservationMatchesJob' /\ OverdueSettled'
  BY Numbers DEF Inv, ReservationMatchesJob, ReaperClock, OverdueSettled, None
<1>4. PunctualCovered'
  <2> SUFFICES ASSUME NEW m \in (live \cap Punctual)' PROVE Covered(m)'
    BY DEF PunctualCovered
  <2>1. m \in Attempt /\ (m \in live => Covered(m))
    BY DEF Inv, PunctualCovered
  <2> QED BY <2>1, Numbers DEF Inv, TypeOK, Numbered, ReaperClock, Covered
<1>5. LeasesBounded'
  <2>1. ASSUME NEW m \in live' PROVE (beatAt[m] <= now /\ lease[m] <= beatAt[m] + Lease)'
    <3>1. m \in Attempt /\ (m \in live => beatAt[m] <= now /\ lease[m] <= beatAt[m] + Lease)
      BY <2>1 DEF Inv, TypeOK, Numbered, LeasesBounded, Attempt
    <3> QED BY <2>1, <3>1, Numbers DEF Inv, TypeOK
  <2>2. ASSUME NEW m \in running', diedAt'[m] # None PROVE (lease[m] <= diedAt[m] + Lease)'
    <3>1. /\ m \in Attempt
          /\ m \in running /\ diedAt[m] # None => lease[m] <= diedAt[m] + Lease
          /\ m \in live => beatAt[m] <= now /\ lease[m] <= beatAt[m] + Lease
          /\ diedAt[m] # None => m \notin live /\ m <= count
          /\ m \in live => m <= count
      BY <2>2 DEF Inv, TypeOK, Numbered, LeasesBounded, Attempt
    <3> QED BY <2>2, <3>1, Numbers DEF Inv, TypeOK, Numbered
  <2> QED BY <2>1, <2>2 DEF LeasesBounded
<1>6. LeasesScanned'
  BY Numbers DEF Inv, TypeOK, Numbered, ReaperClock, LeasesBounded, LeasesScanned, Attempt, None
<1>7. QueueScanned'
  BY Numbers DEF Inv, TypeOK, Numbered, ReaperClock, ReservationMatchesJob, LeasesBounded,
     QueueExtended, QueueScanned, OverdueSettled, None
<1>8. QueueExtended'
  BY Numbers DEF Inv, TypeOK, Numbered, LeasesBounded, QueueExtended, Attempt, None
<1> QED BY <1>1, <1>2, <1>3, <1>4, <1>5, <1>6, <1>7, <1>8 DEF Inv

LEMMA BeatBeginInv == ASSUME Inv, NEW n \in Attempt, BeatBegin(n) PROVE Inv'
<1> USE Times DEF BeatBegin, jobVars, reaperVars
<1>1. TypeOK'
  BY DEF Inv, TypeOK, Numbered, Attempt, Time, Expiry, None
<1>2. Numbered' /\ ReaperClock'
  BY Numbers DEF Inv, TypeOK, Numbered, ReaperClock, Attempt, Time, None
<1>3. ReservationMatchesJob' /\ OverdueSettled'
  BY Numbers DEF Inv, ReservationMatchesJob, ReaperClock, OverdueSettled, None
<1>4. PunctualCovered'
  <2> SUFFICES ASSUME NEW m \in (live \cap Punctual)' PROVE Covered(m)'
    BY DEF PunctualCovered
  <2>1. m \in Attempt /\ (m \in live => Covered(m))
    BY DEF Inv, PunctualCovered
  <2> QED BY <2>1, Numbers DEF Inv, TypeOK, Numbered, ReaperClock, Covered
<1>5. LeasesBounded'
  <2>1. ASSUME NEW m \in live' PROVE (beatAt[m] <= now /\ lease[m] <= beatAt[m] + Lease)'
    <3>1. m \in Attempt /\ (m \in live => beatAt[m] <= now /\ lease[m] <= beatAt[m] + Lease)
      BY <2>1 DEF Inv, TypeOK, Numbered, LeasesBounded, Attempt
    <3> QED BY <2>1, <3>1, Numbers DEF Inv, TypeOK
  <2>2. ASSUME NEW m \in running', diedAt'[m] # None PROVE (lease[m] <= diedAt[m] + Lease)'
    <3>1. /\ m \in Attempt
          /\ m \in running /\ diedAt[m] # None => lease[m] <= diedAt[m] + Lease
          /\ m \in live => beatAt[m] <= now /\ lease[m] <= beatAt[m] + Lease
          /\ diedAt[m] # None => m \notin live /\ m <= count
          /\ m \in live => m <= count
      BY <2>2 DEF Inv, TypeOK, Numbered, LeasesBounded, Attempt
    <3> QED BY <2>2, <3>1, Numbers DEF Inv, TypeOK, Numbered
  <2> QED BY <2>1, <2>2 DEF LeasesBounded
<1>6. LeasesScanned'
  BY Numbers DEF Inv, TypeOK, Numbered, ReaperClock, LeasesBounded, LeasesScanned, Attempt, None
<1>7. QueueScanned'
  BY Numbers DEF Inv, TypeOK, Numbered, ReaperClock, ReservationMatchesJob, LeasesBounded,
     QueueExtended, QueueScanned, OverdueSettled, None
<1>8. QueueExtended'
  BY Numbers DEF Inv, TypeOK, Numbered, LeasesBounded, QueueExtended, Attempt, None
<1> QED BY <1>1, <1>2, <1>3, <1>4, <1>5, <1>6, <1>7, <1>8 DEF Inv

LEMMA BeatCheckInv == ASSUME Inv, NEW n \in Attempt, BeatCheck(n) PROVE Inv'
<1> USE Times DEF BeatCheck, jobVars, reaperVars
<1>1. TypeOK'
  BY DEF Inv, TypeOK, Numbered, Attempt, Time, Expiry, None
<1>2. Numbered' /\ ReaperClock'
  BY Numbers DEF Inv, TypeOK, Numbered, ReaperClock, Attempt, Time, None
<1>3. ReservationMatchesJob' /\ OverdueSettled'
  BY Numbers DEF Inv, ReservationMatchesJob, ReaperClock, OverdueSettled, None
<1>4. PunctualCovered'
  <2> SUFFICES ASSUME NEW m \in (live \cap Punctual)' PROVE Covered(m)'
    BY DEF PunctualCovered
  <2>1. m \in Attempt /\ (m \in live => Covered(m))
    BY DEF Inv, PunctualCovered
  <2> QED BY <2>1, Numbers DEF Inv, TypeOK, Numbered, ReaperClock, Covered
<1>5. LeasesBounded'
  BY Numbers DEF Inv, TypeOK, Numbered, LeasesBounded, Attempt, Time, None
<1>6. LeasesScanned'
  BY Numbers DEF Inv, TypeOK, Numbered, ReaperClock, LeasesBounded, LeasesScanned, Attempt, None
<1>7. QueueScanned'
  BY Numbers DEF Inv, TypeOK, Numbered, ReaperClock, ReservationMatchesJob, LeasesBounded,
     QueueExtended, QueueScanned, OverdueSettled, None
<1>8. QueueExtended'
  BY Numbers DEF Inv, TypeOK, Numbered, LeasesBounded, QueueExtended, Attempt, None
<1> QED BY <1>1, <1>2, <1>3, <1>4, <1>5, <1>6, <1>7, <1>8 DEF Inv

LEMMA BeatLeaseInv == ASSUME Inv, NEW n \in Attempt, BeatLease(n) PROVE Inv'
<1> USE Times DEF BeatLease, jobVars, reaperVars
<1>1. TypeOK'
  BY SMTT(30) DEF Inv, TypeOK, Numbered, Attempt, Time, Expiry, None
<1>2. Numbered' /\ ReaperClock'
  BY Numbers DEF Inv, TypeOK, Numbered, ReaperClock, Attempt, Time, None
<1>3. ReservationMatchesJob' /\ OverdueSettled'
  BY Numbers DEF Inv, ReservationMatchesJob, ReaperClock, OverdueSettled, None
<1>4. PunctualCovered'
  <2> SUFFICES ASSUME NEW m \in (live \cap Punctual)' PROVE Covered(m)'
    BY DEF PunctualCovered
  <2>1. m \in Attempt /\ (m \in live => Covered(m))
    BY DEF Inv, PunctualCovered
  <2> QED BY <2>1, Numbers DEF Inv, TypeOK, Numbered, ReaperClock, Covered
<1>5. LeasesBounded'
  <2>1. ASSUME NEW m \in live' PROVE (beatAt[m] <= now /\ lease[m] <= beatAt[m] + Lease)'
    <3>1. m \in Attempt /\ (m \in live => beatAt[m] <= now /\ lease[m] <= beatAt[m] + Lease)
      BY <2>1 DEF Inv, TypeOK, Numbered, LeasesBounded, Attempt
    <3> QED BY <2>1, <3>1, Numbers DEF Inv, TypeOK
  <2>2. ASSUME NEW m \in running', diedAt'[m] # None PROVE (lease[m] <= diedAt[m] + Lease)'
    <3>1. /\ m \in Attempt
          /\ m \in running /\ diedAt[m] # None => lease[m] <= diedAt[m] + Lease
          /\ m \in live => beatAt[m] <= now /\ lease[m] <= beatAt[m] + Lease
          /\ diedAt[m] # None => m \notin live /\ m <= count
          /\ m \in live => m <= count
      BY <2>2 DEF Inv, TypeOK, Numbered, LeasesBounded, Attempt
    <3> QED BY <2>2, <3>1, Numbers DEF Inv, TypeOK, Numbered
  <2> QED BY <2>1, <2>2 DEF LeasesBounded
<1>6. LeasesScanned'
  <2> SUFFICES ASSUME NEW m \in running'
               PROVE  /\ (lease[m] + ReapEvery >= reapAt)'
                      /\ reaper' # "begun" /\ m \notin listed' => (lease[m] >= reapAt)'
    BY DEF LeasesScanned
  <2>1. /\ m \in Attempt
        /\ m \in running => /\ lease[m] + ReapEvery >= reapAt
                            /\ reaper # "begun" /\ m \notin listed => lease[m] >= reapAt
        /\ m \in live => lease[m] <= beatAt[m] + Lease
    BY DEF Inv, TypeOK, Numbered, LeasesScanned, LeasesBounded, Attempt
  <2> QED BY <2>1, Numbers DEF Inv, TypeOK, Numbered, ReaperClock
<1>7. QueueScanned'
  BY Numbers DEF Inv, TypeOK, Numbered, ReaperClock, ReservationMatchesJob, LeasesBounded,
     QueueExtended, QueueScanned, OverdueSettled, None
<1>8. QueueExtended'
  <2>1. n \in live /\ beatAt[n] \in Nat /\ lease[n] <= beatAt[n] + Lease
    BY Numbers DEF Inv, Numbered, LeasesBounded
  <2>2. ASSUME NEW m \in Attempt
        PROVE  /\ lease'[m] = IF m = n THEN beatAt[n] + Lease ELSE lease[m]
               /\ beat'[m] = IF m = n THEN "extended" ELSE beat[m]
               /\ lease'[m] \in Nat /\ lease[m] \in Nat /\ lease[m] <= lease'[m]
    BY <2>1, Numbers DEF Inv, TypeOK
  <2>3. ASSUME NEW m \in live, beat'[m] = "extended"
        PROVE  lease'[m] = beatAt[m] + Lease
    BY <2>2, <2>3 DEF Inv, TypeOK, QueueExtended
  <2>4. ASSUME job = "QUEUED", NEW m \in running, reservation <= lease[m]
        PROVE  reservation <= lease'[m]
    BY <2>2, <2>4, Numbers DEF Inv, TypeOK
  <2>5. ASSUME job = "QUEUED", NEW m \in live \ running, beat'[m] \in {"checked", "extended"}
        PROVE  beatAt[m] <= queuedAt
    BY <2>2, <2>5 DEF Inv, TypeOK, QueueExtended
  <2> QED BY <2>3, <2>4, <2>5 DEF Inv, QueueExtended
<1> QED BY <1>1, <1>2, <1>3, <1>4, <1>5, <1>6, <1>7, <1>8 DEF Inv

LEMMA BeatReservationInv == ASSUME Inv, NEW n \in Attempt, BeatReservation(n) PROVE Inv'
<1> USE Times DEF BeatReservation, reaperVars
<1>1. TypeOK'
  <2>1. beatAt[n] + Lease \in Expiry
    BY DEF Inv, TypeOK, Time, Expiry
  <2> QED BY <2>1 DEF Inv, TypeOK
<1>2. Numbered' /\ ReaperClock'
  BY Numbers DEF Inv, TypeOK, Numbered, ReaperClock, Attempt, Time, None
<1>3. ReservationMatchesJob' /\ OverdueSettled'
  BY Numbers DEF Inv, ReservationMatchesJob, ReaperClock, OverdueSettled, None
<1>4. PunctualCovered'
  <2> SUFFICES ASSUME NEW m \in (live \cap Punctual)' PROVE Covered(m)'
    BY DEF PunctualCovered
  <2>1. m \in Attempt /\ (m \in live => Covered(m))
    BY DEF Inv, PunctualCovered
  <2> QED BY <2>1, Numbers DEF Inv, TypeOK, Numbered, ReaperClock, Covered
<1>5. LeasesBounded'
  BY Numbers DEF Inv, TypeOK, Numbered, LeasesBounded, Attempt, Time, None
<1>6. LeasesScanned'
  BY Numbers DEF Inv, TypeOK, Numbered, ReaperClock, LeasesBounded, LeasesScanned, Attempt, None
<1>7. QueueScanned'
  BY Numbers DEF Inv, TypeOK, Numbered, ReaperClock, ReservationMatchesJob, LeasesBounded,
     QueueExtended, QueueScanned, OverdueSettled, None
<1>8. QueueExtended'
  <2>1. n \in live /\ lease[n] = beatAt[n] + Lease /\ lease[n] \in Nat /\ beatAt[n] \in Nat
    BY Numbers DEF Inv, Numbered, QueueExtended
  <2>2. ASSUME NEW m \in Attempt
        PROVE  beat'[m] = IF m = n THEN "none" ELSE beat[m]
    BY DEF Inv, TypeOK
  <2>3. ASSUME job = "QUEUED"
        PROVE  reservation' <= queuedAt + Lease \/ \E m \in running : reservation' <= lease[m]
    <3>1. reservation' = beatAt[n] + Lease
      BY <2>3 DEF Inv, ReservationMatchesJob
    <3>2. CASE n \in running
      BY <2>1, <3>1, <3>2
    <3>3. CASE n \notin running
      <4>1. beatAt[n] <= queuedAt
        BY <2>1, <2>3, <3>3 DEF Inv, QueueExtended
      <4> QED BY <2>1, <3>1, <4>1, Numbers DEF Inv
    <3> QED BY <3>2, <3>3
  <2> QED BY <2>2, <2>3 DEF Inv, TypeOK, QueueExtended
<1> QED BY <1>1, <1>2, <1>3, <1>4, <1>5, <1>6, <1>7, <1>8 DEF Inv

LEMMA ReapBeginInv == ASSUME Inv, ReapBegin PROVE Inv'
<1> USE Times DEF ReapBegin, jobVars, workerVars
<1>1. TypeOK'
  BY DEF Inv, TypeOK, Numbered, Attempt, Time, Expiry, None
<1>2. Numbered' /\ ReaperClock'
  <2>1. Numbered'
    BY Numbers DEF Inv, TypeOK, Numbered, ReaperClock, Attempt
  <2>2. ReaperClock'
    BY Numbers DEF Inv, ReaperClock
  <2> QED BY <2>1, <2>2
<1>3. ReservationMatchesJob' /\ OverdueSettled'
  BY Numbers DEF Inv, ReservationMatchesJob, ReaperClock, OverdueSettled, None
<1>4. PunctualCovered'
  <2> SUFFICES ASSUME NEW m \in (live \cap Punctual)' PROVE Covered(m)'
    BY DEF PunctualCovered
  <2>1. m \in Attempt /\ (m \in live => Covered(m))
    BY DEF Inv, PunctualCovered
  <2> QED BY <2>1, Numbers DEF Inv, TypeOK, Numbered, ReaperClock, Covered
<1>5. LeasesBounded'
  BY Numbers DEF Inv, TypeOK, Numbered, LeasesBounded, Attempt, Time, None
<1>6. LeasesScanned'
  <2> SUFFICES ASSUME NEW m \in running'
               PROVE  /\ (lease[m] + ReapEvery >= reapAt)'
                      /\ reaper' # "begun" /\ m \notin listed' => (lease[m] >= reapAt)'
    BY DEF LeasesScanned
  <2>1. /\ m \in Attempt
        /\ m \in running => /\ lease[m] + ReapEvery >= reapAt
                            /\ reaper # "begun" /\ m \notin listed => lease[m] >= reapAt
        /\ m \in live => lease[m] <= beatAt[m] + Lease
    BY DEF Inv, TypeOK, Numbered, LeasesScanned, LeasesBounded, Attempt
  <2> QED BY <2>1, Numbers DEF Inv, TypeOK, Numbered, ReaperClock
<1>7. QueueScanned'
  BY Numbers DEF Inv, TypeOK, Numbered, ReaperClock, ReservationMatchesJob, LeasesBounded,
     QueueExtended, QueueScanned, OverdueSettled, None
<1>8. QueueExtended'
  BY Numbers DEF Inv, TypeOK, Numbered, LeasesBounded, QueueExtended, Attempt, None
<1> QED BY <1>1, <1>2, <1>3, <1>4, <1>5, <1>6, <1>7, <1>8 DEF Inv

LEMMA ScanAttemptsInv == ASSUME Inv, ScanAttempts PROVE Inv'
<1> USE Times DEF ScanAttempts, jobVars, workerVars, ListExpired
<1>1. TypeOK'
  BY DEF Inv, TypeOK, Numbered, Attempt, Time, Expiry, None
<1>2. Numbered' /\ ReaperClock'
  BY Numbers DEF Inv, TypeOK, Numbered, ReaperClock, Attempt, Time, None
<1>3. ReservationMatchesJob' /\ OverdueSettled'
  BY Numbers DEF Inv, ReservationMatchesJob, ReaperClock, OverdueSettled, None
<1>4. PunctualCovered'
  <2> SUFFICES ASSUME NEW m \in (live \cap Punctual)' PROVE Covered(m)'
    BY DEF PunctualCovered
  <2>1. m \in Attempt /\ (m \in live => Covered(m))
    BY DEF Inv, PunctualCovered
  <2> QED BY <2>1, Numbers, LeaseHolds DEF Inv, TypeOK, Numbered, ReaperClock, Covered
<1>5. LeasesBounded'
  BY Numbers DEF Inv, TypeOK, Numbered, LeasesBounded, Attempt, Time, None
<1>6. LeasesScanned'
  BY SMTT(30), Numbers DEF Inv, TypeOK, Numbered, ReaperClock, LeasesBounded, LeasesScanned, Attempt, None
<1>7. QueueScanned'
  BY Numbers DEF Inv, TypeOK, Numbered, ReaperClock, ReservationMatchesJob, LeasesBounded,
     QueueExtended, QueueScanned, OverdueSettled, None
<1>8. QueueExtended'
  BY Numbers DEF Inv, TypeOK, Numbered, LeasesBounded, QueueExtended, Attempt, None
<1> QED BY <1>1, <1>2, <1>3, <1>4, <1>5, <1>6, <1>7, <1>8 DEF Inv

LEMMA ReconcileInv == ASSUME Inv, NEW n \in Attempt, Reconcile(n) PROVE Inv'
<1> USE Times DEF Reconcile, jobVars, workerVars, Retry
<1>1. TypeOK'
  <2>1. now + RetryDelay \in Expiry
    BY DEF Inv, TypeOK, Time, Expiry
  <2>2. CASE Retry
    BY <2>1, <2>2 DEF Inv, TypeOK
  <2>3. CASE UNCHANGED jobVars
    BY <2>3 DEF Inv, TypeOK
  <2> QED BY <2>2, <2>3
<1>2. Numbered' /\ ReaperClock'
  BY Numbers DEF Inv, TypeOK, Numbered, ReaperClock, Attempt, Time, None
<1>3. ReservationMatchesJob' /\ OverdueSettled'
  BY Numbers DEF Inv, ReservationMatchesJob, ReaperClock, OverdueSettled, None
<1>4. PunctualCovered'
  <2> SUFFICES ASSUME NEW m \in (live \cap Punctual)' PROVE Covered(m)'
    BY DEF PunctualCovered
  <2>1. m \in Attempt /\ (m \in live => Covered(m))
    BY DEF Inv, PunctualCovered
  <2> QED BY <2>1, Numbers DEF Inv, TypeOK, Numbered, ReaperClock, Covered
<1>5. LeasesBounded'
  BY Numbers DEF Inv, TypeOK, Numbered, LeasesBounded, Attempt, Time, None
<1>6. LeasesScanned'
  BY Numbers DEF Inv, TypeOK, Numbered, ReaperClock, LeasesBounded, LeasesScanned, Attempt, None
<1>7. QueueScanned'
  BY Numbers DEF Inv, TypeOK, Numbered, ReaperClock, ReservationMatchesJob, LeasesBounded,
     QueueExtended, QueueScanned, OverdueSettled, None
<1>8. QueueExtended'
  <2>1. CASE n \in running
    <3>1. job' # "QUEUED"
      BY <2>1
    <3> QED BY <3>1 DEF Inv, QueueExtended
  <2>2. CASE n \notin running
    <3>1. running' = running /\ UNCHANGED jobVars
      BY <2>2
    <3> QED BY <3>1 DEF Inv, QueueExtended
  <2> QED BY <2>1, <2>2
<1> QED BY <1>1, <1>2, <1>3, <1>4, <1>5, <1>6, <1>7, <1>8 DEF Inv

LEMMA ScanQueuedInv == ASSUME Inv, ScanQueued PROVE Inv'
<1> USE Times DEF ScanQueued, jobVars, workerVars, JobOverdue
<1>1. TypeOK'
  BY DEF Inv, TypeOK, Numbered, Attempt, Time, Expiry, None
<1>2. Numbered' /\ ReaperClock'
  BY Numbers DEF Inv, TypeOK, Numbered, ReaperClock, Attempt, Time, None
<1>3. ReservationMatchesJob' /\ OverdueSettled'
  BY Numbers DEF Inv, ReservationMatchesJob, ReaperClock, OverdueSettled, None
<1>4. PunctualCovered'
  <2> SUFFICES ASSUME NEW m \in (live \cap Punctual)' PROVE Covered(m)'
    BY DEF PunctualCovered
  <2>1. m \in Attempt /\ (m \in live => Covered(m))
    BY DEF Inv, PunctualCovered
  <2> QED BY <2>1, Numbers DEF Inv, TypeOK, Numbered, ReaperClock, Covered
<1>5. LeasesBounded'
  BY Numbers DEF Inv, TypeOK, Numbered, LeasesBounded, Attempt, Time, None
<1>6. LeasesScanned'
  BY Numbers DEF Inv, TypeOK, Numbered, ReaperClock, LeasesBounded, LeasesScanned, Attempt, None
<1>7. QueueScanned'
  <2> SUFFICES ASSUME job = "QUEUED", running = {}
               PROVE  /\ queuedAt + Lease + ReapEvery >= reapAt
                      /\ ~overdue' => queuedAt + Lease >= reapAt
    BY DEF QueueScanned
  <2>1. reservation # None
    BY DEF Inv, ReservationMatchesJob
  <2>2. ~overdue' => ~(reservation < reapAt)
    BY <2>1
  <2> HIDE DEF ScanQueued, JobOverdue
  <2> QED BY <2>2, Numbers DEF Inv, QueueExtended, QueueScanned
<1>8. QueueExtended'
  BY Numbers DEF Inv, TypeOK, Numbered, LeasesBounded, QueueExtended, Attempt, None
<1> QED BY <1>1, <1>2, <1>3, <1>4, <1>5, <1>6, <1>7, <1>8 DEF Inv

LEMMA RecoverInv == ASSUME Inv, Recover PROVE Inv'
<1> USE Times DEF Recover, workerVars
<1>1. TypeOK'
  BY DEF Inv, TypeOK, Numbered, Attempt, Time, Expiry, None
<1>2. Numbered' /\ ReaperClock'
  BY Numbers DEF Inv, TypeOK, Numbered, ReaperClock, Attempt, Time, None
<1>3. ReservationMatchesJob' /\ OverdueSettled'
  BY Numbers DEF Inv, ReservationMatchesJob, ReaperClock, OverdueSettled, None
<1>4. PunctualCovered'
  <2> SUFFICES ASSUME NEW m \in (live \cap Punctual)' PROVE Covered(m)'
    BY DEF PunctualCovered
  <2>1. m \in Attempt /\ (m \in live => Covered(m))
    BY DEF Inv, PunctualCovered
  <2> QED BY <2>1, Numbers DEF Inv, TypeOK, Numbered, ReaperClock, Covered
<1>5. LeasesBounded'
  BY Numbers DEF Inv, TypeOK, Numbered, LeasesBounded, Attempt, Time, None
<1>6. LeasesScanned'
  BY Numbers DEF Inv, TypeOK, Numbered, ReaperClock, LeasesBounded, LeasesScanned, Attempt, None
<1>7. QueueScanned'
  BY Numbers DEF Inv, TypeOK, Numbered, ReaperClock, ReservationMatchesJob, LeasesBounded,
     QueueExtended, QueueScanned, OverdueSettled, None
<1>8. QueueExtended'
  BY Numbers DEF Inv, TypeOK, Numbered, LeasesBounded, QueueExtended, Attempt, None
<1> QED BY <1>1, <1>2, <1>3, <1>4, <1>5, <1>6, <1>7, <1>8 DEF Inv

LEMMA ReapEndInv == ASSUME Inv, ReapEnd PROVE Inv'
<1> USE Times DEF ReapEnd, jobVars, workerVars
<1>1. TypeOK'
  BY DEF Inv, TypeOK, Numbered, Attempt, Time, Expiry, None
<1>2. Numbered' /\ ReaperClock'
  <2>1. Numbered'
    BY Numbers DEF Inv, TypeOK, Numbered, ReaperClock, Attempt
  <2>2. ReaperClock'
    BY Numbers DEF Inv, ReaperClock
  <2> QED BY <2>1, <2>2
<1>3. ReservationMatchesJob' /\ OverdueSettled'
  BY Numbers DEF Inv, ReservationMatchesJob, ReaperClock, OverdueSettled, None
<1>4. PunctualCovered'
  <2> SUFFICES ASSUME NEW m \in (live \cap Punctual)' PROVE Covered(m)'
    BY DEF PunctualCovered
  <2>1. m \in Attempt /\ (m \in live => Covered(m))
    BY DEF Inv, PunctualCovered
  <2> QED BY <2>1, Numbers DEF Inv, TypeOK, Numbered, ReaperClock, Covered
<1>5. LeasesBounded'
  BY Numbers DEF Inv, TypeOK, Numbered, LeasesBounded, Attempt, Time, None
<1>6. LeasesScanned'
  BY Numbers DEF Inv, TypeOK, Numbered, ReaperClock, LeasesBounded, LeasesScanned, Attempt, None
<1>7. QueueScanned'
  BY Numbers DEF Inv, TypeOK, Numbered, ReaperClock, ReservationMatchesJob, LeasesBounded,
     QueueExtended, QueueScanned, OverdueSettled, None
<1>8. QueueExtended'
  BY Numbers DEF Inv, TypeOK, Numbered, LeasesBounded, QueueExtended, Attempt, None
<1> QED BY <1>1, <1>2, <1>3, <1>4, <1>5, <1>6, <1>7, <1>8 DEF Inv

LEMMA StepInv == Inv /\ [Next]_vars => Inv'
<1>1. ASSUME Inv, UNCHANGED vars PROVE Inv'
  BY <1>1 DEF vars, jobVars, workerVars, reaperVars, Inv, TypeOK, Numbered, ReaperClock,
     ReservationMatchesJob, PunctualCovered, Covered, LeasesBounded, LeasesScanned,
     QueueExtended, QueueScanned, OverdueSettled
<1>2. ASSUME Inv, NEW n \in Attempt, WorkerStep(n) PROVE Inv'
  BY <1>2, ReportInv, DieInv, BeatBeginInv, BeatCheckInv, BeatLeaseInv, BeatReservationInv
     DEF WorkerStep
<1>3. ASSUME Inv, ReaperStep PROVE Inv'
  BY <1>3, ReapBeginInv, ScanAttemptsInv, ReconcileInv, ScanQueuedInv, RecoverInv, ReapEndInv
     DEF ReaperStep
<1> QED BY <1>1, <1>2, <1>3, TickInv, DispatchInv, ClaimInv DEF Next

\* The strengthening of the properties below that every step preserves: it
\* relates leases, heartbeats under way, what the reaper has scanned and the
\* clock.
THEOREM InvCorrect == Spec => []Inv
BY InitInv, StepInv, PTL DEF Spec

\* However long leases, heartbeats and reaper runs are, if one heartbeat ends
\* before the lease of the one before it does: a worker that lives and
\* heartbeats in time never loses its attempt to the reaper.
THEOREM PunctualCorrect == Spec => []PunctualKeepsAttempt
<1>1. Inv => PunctualKeepsAttempt
  BY DEF Inv, PunctualCovered, Covered, PunctualKeepsAttempt
<1> QED BY <1>1, InvCorrect, PTL

\* The attempt of a dead worker is settled within a lease, a period of the
\* reaper and a run of it, whether or not it had been punctual.
THEOREM DeadFound == Spec => []DeadFoundInTime
<1>1. Inv => DeadFoundInTime
  <2> SUFFICES ASSUME Inv, NEW n \in running, diedAt[n] # None
               PROVE  now <= diedAt[n] + Lease + ReapEvery + ReapTime
    BY DEF DeadFoundInTime
  <2>1. n \in Attempt
    BY DEF Inv, TypeOK
  <2> QED BY <2>1, Times, Numbers DEF Inv, ReaperClock, LeasesBounded, LeasesScanned
<1> QED BY <1>1, InvCorrect, PTL

\* A queued job whose message is lost is back in WAITING within a period and a
\* run of the reaper from the end of its dispatch's lease or, as long as an
\* earlier attempt is still RUNNING beside it, of that attempt's lease: the
\* heartbeats of that attempt extend the reservation, those of settled
\* attempts do not.
THEOREM QueuedRecovered == Spec => []QueuedRecoveredInTime
<1>1. Inv => QueuedRecoveredInTime
  <2> DEFINE ends == {queuedAt + Lease} \cup {lease[n] : n \in running}
  <2> SUFFICES ASSUME Inv, job = "QUEUED"
               PROVE  /\ \E end \in ends : reservation <= end
                      /\ \E end \in ends : now <= end + ReapEvery + ReapTime
    BY DEF QueuedRecoveredInTime
  <2>1. \E end \in ends : reservation <= end
    BY DEF Inv, QueueExtended
  <2>2. CASE running = {}
    <3>1. now <= (queuedAt + Lease) + ReapEvery + ReapTime
      BY <2>2, Times, Numbers DEF Inv, ReaperClock, QueueScanned
    <3> QED BY <2>1, <3>1
  <2>3. ASSUME NEW n \in running PROVE now <= lease[n] + ReapEvery + ReapTime
    <3>1. n \in Attempt
      BY DEF Inv, TypeOK
    <3> QED BY <3>1, Times, Numbers DEF Inv, ReaperClock, LeasesScanned
  <2> QED BY <2>1, <2>2, <2>3
<1> QED BY <1>1, InvCorrect, PTL

\* recover_queued takes back the dispatch that was listed, or none: the backoff
\* before a retry is longer than a run of the reaper.
THEOREM ListedOnceCorrect == Spec => []ListedOnce
<1>1. Inv => ListedOnce
  BY Times, Numbers DEF Inv, ReaperClock, OverdueSettled, ListedOnce
<1> QED BY <1>1, InvCorrect, PTL

\* A reservation exists exactly while the job is queued or executing, wherever
\* a late heartbeat's statements fall between the others'.
THEOREM ReservationCorrect == Spec => []ReservationMatchesJob
<1>1. Inv => ReservationMatchesJob
  BY DEF Inv
<1> QED BY <1>1, InvCorrect, PTL

\* All times stay within their bounds and no attempt exceeds the budget.
THEOREM TypeCorrect == Spec => []TypeOK
<1>1. Inv => TypeOK
  BY DEF Inv
<1> QED BY <1>1, InvCorrect, PTL
=============================================================================
