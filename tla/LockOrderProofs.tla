--------------------------- MODULE LockOrderProofs ---------------------------
(***************************************************************************)
(* Proofs about LockOrder, for every finite set of connections and jobs,   *)
(* every set of tenants, every assignment of keys and of transactions to   *)
(* connections: which cycles of waits there can be, and who can be the     *)
(* victim of the detector.                                                 *)
(***************************************************************************)
EXTENDS LockOrder, FiniteSetTheorems, SequenceTheorems, TLAPS

OneJob == {"report", "abandon", "recover", "replay"}

Rank(l) ==
    CASE l[1] \in {"job_attempts", "dead_letter_jobs"} -> 1
      [] l[1] = "jobs" -> 2
      [] l[1] = "job_overlap_locks" -> 3
      [] OTHER -> 4

Rising(s) == \A i, k \in DOMAIN s : i < k => Rank(s[i]) < Rank(s[k])

\* A transaction about one job requests its locks in the order of the tables,
\* and a replay touches no overlap row.
RanksRise ==
    \A p \in Process : kind[p] \in OneJob =>
        /\ Rising(todo[p])
        /\ \A m \in held[p] : \A i \in DOMAIN todo[p] : Rank(m) < Rank(todo[p][i])
        /\ kind[p] = "replay" =>
               /\ Overlaps(p) = {}
               /\ \A i \in DOMAIN todo[p] : Rank(todo[p][i]) # 3

\* What the periodic tasks hold, and what they still want.
TasksHold ==
    \A p \in Process :
        /\ kind[p] = "none" => held[p] = {} /\ todo[p] = <<>>
        /\ kind[p] = "dispatch" =>
               /\ \A m \in held[p] : Rank(m) = 4
               /\ \A i \in DOMAIN todo[p] : i = 1 /\ Rank(todo[p][i]) = 4
               /\ todo[p] # <<>> => held[p] = {}
        /\ kind[p] = "promote" =>
               /\ Overlaps(p) = {}
               /\ \A i \in DOMAIN todo[p] : Rank(todo[p][i]) = 4
        /\ kind[p] = "reserve" =>
               /\ todo[p] # <<>> => Overlaps(p) = {}
               /\ \A i \in DOMAIN todo[p] : Rank(todo[p][i]) = 3

\* No lock has two holders, and no key.
LocksExclude ==
    \A p, q \in Process : p # q => \A l \in held[p], m \in held[q] : ~Clash(l, m)

\* A transaction deletes committed rows; one that inserts a row is the only
\* one with its key.
RowsExclude ==
    \A p \in Process :
        /\ kind[p] # "reserve" => Overlaps(p) \subseteq locked
        /\ kind[p] = "reserve" =>
               /\ \A j \in Overlaps(p), k \in locked : <<j, k>> \notin Exclusive
               /\ \A j, k \in Overlaps(p) : j = k

Inv == TypeOK /\ RanksRise /\ TasksHold /\ LocksExclude /\ RowsExclude
-----------------------------------------------------------------------------
(* The sequences of requests *)

LEMMA OneAndOne ==
    ASSUME NEW x, NEW y
    PROVE  <<x>> \o <<y>> = <<x, y>>
<1> DEFINE S == {x, y}
<1>1. <<x>> \in Seq(S) /\ <<y>> \in Seq(S) /\ <<x, y>> \in Seq(S)
  OBVIOUS
<1>2. Len(<<x>>) = 1 /\ Len(<<y>>) = 1 /\ Len(<<x, y>>) = 2
  OBVIOUS
<1> HIDE DEF S
<1>3. /\ <<x>> \o <<y>> \in Seq(S)
      /\ Len(<<x>> \o <<y>>) = 2
      /\ \A i \in 1 .. 2 : (<<x>> \o <<y>>)[i] = <<x, y>>[i]
  BY <1>1, <1>2, ConcatProperties
<1> QED BY <1>1, <1>2, <1>3, SeqEqual

\* The overlap rows of one job are none or one.
LEMMA OwnRow ==
    ASSUME NEW j \in Job
    PROVE  SetToSeq({OverlapRow(i) : i \in Keyed({j})}) \in {<<>>, <<OverlapRow(j)>>}
<1>1. CASE Keyed({j}) = {}
  <2>1. {OverlapRow(i) : i \in Keyed({j})} = {}
    BY <1>1
  <2>2. SetToSeq({}) \in [1 .. 0 -> {}]
    <3>1. <<>> \in [1 .. 0 -> {}] /\ IsInjective(<<>>)
      BY DEF IsInjective
    <3> QED BY <3>1, FS_EmptySet DEF SetToSeq
  <2>3. \A s \in [1 .. 0 -> {}] : s = <<>>
    OBVIOUS
  <2> QED BY <2>1, <2>2, <2>3
<1>2. CASE Keyed({j}) # {}
  <2>1. {OverlapRow(i) : i \in Keyed({j})} = {OverlapRow(j)}
    BY <1>2 DEF Keyed
  <2>2. SetToSeq({OverlapRow(j)}) \in [1 .. 1 -> {OverlapRow(j)}]
    <3>1. <<OverlapRow(j)>> \in [1 .. 1 -> {OverlapRow(j)}] /\ IsInjective(<<OverlapRow(j)>>)
      BY DEF IsInjective
    <3> QED BY <3>1, FS_Singleton DEF SetToSeq
  <2>3. \A s \in [1 .. 1 -> {OverlapRow(j)}] : s = <<OverlapRow(j)>>
    OBVIOUS
  <2> QED BY <2>1, <2>2, <2>3
<1> QED BY <1>1, <1>2

\* Release(j) is the tenant's state, after the job's overlap row if it has one.
LEMMA ReleaseRows ==
    ASSUME NEW j \in Job
    PROVE  Release(j) \in {<<StateRow(TenantOf[j])>>, <<OverlapRow(j), StateRow(TenantOf[j])>>}
<1> DEFINE o == OverlapRow(j)   t == StateRow(TenantOf[j])
<1>1. Release(j) = <<>> \o <<t>> \/ Release(j) = <<o>> \o <<t>>
  BY OwnRow DEF Release
<1> HIDE DEF o, t
<1>2. <<>> \o <<t>> = <<t>>
  OBVIOUS
<1>3. <<o>> \o <<t>> = <<o, t>>
  BY OneAndOne
<1> QED BY <1>1, <1>2, <1>3 DEF o, t

LEMMA LocksOf ==
    /\ \A j \in Job : /\ AttemptRow(j) \in Lock /\ Rank(AttemptRow(j)) = 1
                      /\ DeadLetterRow(j) \in Lock /\ Rank(DeadLetterRow(j)) = 1
                      /\ JobRow(j) \in Lock /\ Rank(JobRow(j)) = 2
                      /\ OverlapRow(j) \in Lock /\ Rank(OverlapRow(j)) = 3
                      /\ StateRow(TenantOf[j]) \in Lock
    /\ \A t \in Tenant : StateRow(t) \in Lock
    /\ \A t : Rank(StateRow(t)) = 4
BY LocksAssumption DEF Lock, Rank, AttemptRow, DeadLetterRow, JobRow, OverlapRow, StateRow

LEMMA Requests ==
    ASSUME NEW j \in Job, NEW s \in {Report(j), Abandon(j), Recover(j), Replay(j)}
    PROVE  /\ s \in Seq(Lock)
           /\ Rising(s)
           /\ s = Replay(j) => \A i \in DOMAIN s : Rank(s[i]) # 3
<1> DEFINE a == AttemptRow(j)   b == JobRow(j)   o == OverlapRow(j)
           d == DeadLetterRow(j)   t == StateRow(TenantOf[j])
<1>1. \/ s = <<a, b>> \o <<t>> \/ s = <<a, b>> \o <<o, t>>
      \/ s = <<b>> \o <<t>> \/ s = <<b>> \o <<o, t>>
      \/ s = <<d, b, t>>
  BY ReleaseRows DEF Report, Abandon, Recover, Replay
<1>2. /\ {a, b, o, d, t} \subseteq Lock
      /\ Rank(a) = 1 /\ Rank(d) = 1 /\ Rank(b) = 2 /\ Rank(o) = 3 /\ Rank(t) = 4
  BY LocksOf
<1>3. Replay(j) = <<d, b, t>>
  BY DEF Replay
<1> HIDE DEF a, b, o, d, t
<1>4. s \in {<<a, b, t>>, <<a, b, o, t>>, <<b, t>>, <<b, o, t>>, <<d, b, t>>}
  BY <1>1
<1>5. s \in Seq(Lock)
  <2>1. <<a, b, t>> \in Seq(Lock) /\ <<a, b, o, t>> \in Seq(Lock) /\ <<d, b, t>> \in Seq(Lock)
    BY <1>2
  <2>2. <<b, t>> \in Seq(Lock) /\ <<b, o, t>> \in Seq(Lock)
    BY <1>2
  <2> QED BY <1>4, <2>1, <2>2
<1>6. Rising(s)
  BY <1>2, <1>4 DEF Rising
<1> QED BY <1>2, <1>3, <1>5, <1>6

\* The enumerations of a finite set are sequences of its elements.
LEMMA Orders ==
    ASSUME NEW S, IsFiniteSet(S), NEW s \in SetToSeqs(S)
    PROVE  s \in Seq(S)
<1>1. Cardinality(S) \in Nat
  BY FS_CardinalityType
<1>2. s \in [1 .. Cardinality(S) -> S]
  BY DEF SetToSeqs
<1> QED BY <1>1, <1>2

LEMMA PromotionRows ==
    ASSUME NEW batch \in SUBSET Job,
           NEW s \in SetToSeqs({StateRow(TenantOf[j]) : j \in batch})
    PROVE  /\ s \in Seq(Lock)
           /\ \A i \in DOMAIN s : Rank(s[i]) = 4
<1> DEFINE rows == {StateRow(TenantOf[j]) : j \in batch}
<1>1. IsFiniteSet(rows)
  <2>1. [j \in batch |-> StateRow(TenantOf[j])] \in Surjection(batch, rows)
    BY DEF Surjection
  <2> QED BY <2>1, LocksAssumption, FS_Subset, FS_Surjection
<1>2. s \in Seq(rows)
  BY <1>1, Orders
<1>3. \A l \in rows : l \in Lock /\ Rank(l) = 4
  BY LocksOf
<1> HIDE DEF rows
<1>4. \A i \in DOMAIN s : s[i] \in rows
  BY <1>2, LenProperties
<1> QED BY <1>2, <1>3, <1>4, SeqMonotonic

LEMMA TriedRows ==
    ASSUME NEW batch \in SUBSET Job, NEW s \in Tries(batch)
    PROVE  /\ s \in Seq(Lock)
           /\ \A i \in DOMAIN s : Rank(s[i]) = 3
<1> DEFINE rows == {OverlapRow(j) : j \in Keyed(batch)}
<1>1. IsFiniteSet(rows)
  <2>1. [j \in Keyed(batch) |-> OverlapRow(j)] \in Surjection(Keyed(batch), rows)
    BY DEF Surjection
  <2>2. Keyed(batch) \in SUBSET Job
    BY DEF Keyed
  <2> QED BY <2>1, <2>2, LocksAssumption, FS_Subset, FS_Surjection
<1>2. PICK R \in SUBSET rows : s \in SetToSeqs(R)
  BY DEF Tries, SetToAllKPermutations
<1>3. s \in Seq(R)
  BY <1>1, <1>2, Orders, FS_Subset
<1>4. \A l \in rows : l \in Lock /\ Rank(l) = 3
  BY LocksOf DEF Keyed
<1> HIDE DEF rows
<1>5. \A i \in DOMAIN s : s[i] \in R
  BY <1>3, LenProperties
<1> QED BY <1>2, <1>3, <1>4, <1>5, SeqMonotonic

LEMMA HeadAndTail ==
    ASSUME NEW s \in Seq(Lock), s # <<>>
    PROVE  /\ Head(s) \in Lock /\ 1 \in DOMAIN s /\ Head(s) = s[1]
           /\ Tail(s) \in Seq(Lock)
           /\ \A i \in DOMAIN Tail(s) : i \in Nat \ {0} /\ i + 1 \in DOMAIN s /\ Tail(s)[i] = s[i + 1]
<1>1. /\ Head(s) \in Lock /\ Tail(s) \in Seq(Lock) /\ Len(Tail(s)) = Len(s) - 1
      /\ \A i \in 1 .. Len(Tail(s)) : Tail(s)[i] = s[i + 1]
  BY HeadTailProperties
<1>2. Len(s) \in Nat \ {0} /\ DOMAIN s = 1 .. Len(s) /\ DOMAIN Tail(s) = 1 .. Len(Tail(s))
  BY <1>1, LenProperties, EmptySeq
<1>3. Head(s) = s[1]
  OBVIOUS
<1> QED BY <1>1, <1>2, <1>3

\* What is left of rising requests rises.
LEMMA RisingRest ==
    ASSUME NEW s, NEW rest, Rising(s),
           \A i \in DOMAIN rest : i \in Nat \ {0} /\ i + 1 \in DOMAIN s /\ rest[i] = s[i + 1]
    PROVE  Rising(rest)
<1> SUFFICES ASSUME NEW i \in DOMAIN rest, NEW k \in DOMAIN rest, i < k
             PROVE  Rank(rest[i]) < Rank(rest[k])
  BY DEF Rising
<1>1. i + 1 \in DOMAIN s /\ k + 1 \in DOMAIN s /\ i + 1 < k + 1
  OBVIOUS
<1>2. Rank(s[i + 1]) < Rank(s[k + 1])
  BY <1>1 DEF Rising
<1> QED BY <1>2

-----------------------------------------------------------------------------
(* The invariant *)

LEMMA Symmetric ==
    /\ \A l, m : Clash(l, m) => Clash(m, l)
    /\ \A j, k : <<j, k>> \in Exclusive <=> <<k, j>> \in Exclusive
BY LocksAssumption DEF Clash

\* Job rows are taken from skip_locked queries; they clash with themselves only.
LEMMA JobRowsClash ==
    \A j \in Job : \A m : Clash(JobRow(j), m) => m = JobRow(j)
BY DEF Clash, JobRow

LEMMA InitInv == Init => Inv
<1> SUFFICES ASSUME Init PROVE Inv
  OBVIOUS
<1>1. TypeOK
  BY EmptySeq DEF Init, TypeOK, Kind
<1>2. RanksRise /\ LocksExclude
  BY DEF Init, RanksRise, OneJob, LocksExclude
<1>3. TasksHold /\ RowsExclude
  BY DEF Init, TasksHold, RowsExclude, Overlaps
<1> QED BY <1>1, <1>2, <1>3 DEF Inv

\* A transaction starts with nothing held and its requests all to come.
LEMMA BeginJobStep ==
    ASSUME Inv, NEW p \in Process, NEW j \in Job, BeginJob(p, j)
    PROVE  Inv'
<1>1. PICK k \in OneJob, s \in {Report(j), Abandon(j), Recover(j), Replay(j)} :
          Start(p, k, s) /\ (k = "replay" => s = Replay(j))
  BY DEF BeginJob, OneJob
<1>2. /\ s \in Seq(Lock) /\ Rising(s)
      /\ k = "replay" => \A i \in DOMAIN s : Rank(s[i]) # 3
  BY <1>1, Requests
<1>3. /\ held' = held /\ locked' = locked /\ kind[p] = "none" /\ held[p] = {}
      /\ kind' = [kind EXCEPT ![p] = k] /\ todo' = [todo EXCEPT ![p] = s]
      /\ \A q \in Process : Overlaps(q)' = Overlaps(q)
  BY <1>1 DEF BeginJob, Start, Inv, TasksHold, Overlaps
<1>4. TypeOK'
  BY <1>2, <1>3 DEF Inv, TypeOK, OneJob, Kind
<1>5. RanksRise'
  BY <1>2, <1>3 DEF Inv, TypeOK, RanksRise, Overlaps
<1>6. TasksHold'
  BY <1>3 DEF Inv, TypeOK, TasksHold, OneJob
<1>7. LocksExclude'
  BY <1>3 DEF Inv, LocksExclude
<1>8. RowsExclude'
  BY <1>3 DEF Inv, TypeOK, RowsExclude, OneJob, Overlaps
<1> QED BY <1>4, <1>5, <1>6, <1>7, <1>8 DEF Inv

LEMMA BeginDispatchStep ==
    ASSUME Inv, NEW p \in Process, NEW t \in Tenant, BeginDispatch(p, t)
    PROVE  Inv'
<1> DEFINE s == <<StateRow(t)>>
<1>1. s \in Seq(Lock) /\ \A i \in DOMAIN s : i = 1 /\ Rank(s[i]) = 4
  BY LocksOf
<1>2. /\ held' = held /\ locked' = locked /\ kind[p] = "none" /\ held[p] = {}
      /\ kind' = [kind EXCEPT ![p] = "dispatch"] /\ todo' = [todo EXCEPT ![p] = s]
      /\ \A q \in Process : Overlaps(q)' = Overlaps(q)
  BY DEF BeginDispatch, Start, Inv, TasksHold, Overlaps
<1> HIDE DEF s
<1>3. TypeOK'
  BY <1>1, <1>2 DEF Inv, TypeOK, Kind
<1>4. RanksRise'
  BY <1>2 DEF Inv, TypeOK, RanksRise, OneJob
<1>5. TasksHold'
  BY <1>1, <1>2 DEF Inv, TypeOK, TasksHold
<1>6. LocksExclude'
  BY <1>2 DEF Inv, LocksExclude
<1>7. RowsExclude'
  BY <1>2 DEF Inv, TypeOK, RowsExclude, Overlaps
<1> QED BY <1>3, <1>4, <1>5, <1>6, <1>7 DEF Inv

\* Locks that clash with no other process's leave the locks exclusive.
LEMMA Acquired ==
    ASSUME LocksExclude, NEW p \in Process, NEW new,
           held'[p] \subseteq held[p] \cup new,
           \A q \in Process \ {p} : held'[q] = held[q],
           \A l \in new, q \in Process \ {p} : \A m \in held[q] : ~Clash(l, m)
    PROVE  LocksExclude'
<1> SUFFICES ASSUME NEW q \in Process, NEW r \in Process, q # r,
                    NEW l \in held'[q], NEW m \in held'[r]
             PROVE  ~Clash(l, m)
  BY DEF LocksExclude, Clash
<1>1. CASE q = p
  BY <1>1 DEF LocksExclude
<1>2. CASE r = p
  BY <1>2, Symmetric DEF LocksExclude
<1>3. CASE q # p /\ r # p
  BY <1>3 DEF LocksExclude
<1> QED BY <1>1, <1>2, <1>3

\* Rows of jobs that no other process holds do not clash with what is held.
LEMMA LockableRows ==
    ASSUME NEW p \in Process, NEW batch \in SUBSET Lockable(p)
    PROVE  /\ \A j \in batch : j \in Job /\ Rank(JobRow(j)) = 2
           /\ \A j \in batch, q \in Process \ {p} : \A m \in held[q] :
                  ~Clash(JobRow(j), m) /\ ~Clash(m, JobRow(j))
           /\ {JobRow(j) : j \in batch} \in SUBSET Lock
           /\ \A j \in batch, k \in Job : JobRow(j) # OverlapRow(k)
<1>1. \A j \in batch : j \in Job /\ ~HeldByOther(p, JobRow(j))
  BY DEF Lockable
<1>2. \A j \in batch, k \in Job : JobRow(j) # OverlapRow(k)
  BY DEF JobRow, OverlapRow
<1> QED BY <1>1, <1>2, LocksOf, Symmetric DEF HeldByOther

LEMMA BeginPromotionStep ==
    ASSUME Inv, NEW p \in Process, BeginPromotion(p)
    PROVE  Inv'
<1> PICK batch \in (SUBSET Lockable(p)) \ {{}} :
          /\ \E s \in SetToSeqs({StateRow(TenantOf[j]) : j \in batch}) : Start(p, "promote", s)
          /\ held' = [held EXCEPT ![p] = {JobRow(j) : j \in batch}]
          /\ locked' = locked
  BY DEF BeginPromotion
<1>1. PICK s \in SetToSeqs({StateRow(TenantOf[j]) : j \in batch}) :
          /\ Start(p, "promote", s)
          /\ held' = [held EXCEPT ![p] = {JobRow(j) : j \in batch}]
          /\ locked' = locked
  OBVIOUS
<1>2. batch \in SUBSET Job
  BY DEF Lockable
<1>3. s \in Seq(Lock) /\ \A i \in DOMAIN s : Rank(s[i]) = 4
  BY <1>2, PromotionRows
<1>4. /\ kind[p] = "none" /\ held[p] = {}
      /\ kind' = [kind EXCEPT ![p] = "promote"] /\ todo' = [todo EXCEPT ![p] = s]
      /\ \A q \in Process \ {p} : held'[q] = held[q] /\ Overlaps(q)' = Overlaps(q)
      /\ held'[p] = {JobRow(j) : j \in batch}
      /\ Overlaps(p)' = {}
  <2>1. /\ \A q \in Process \ {p} : held'[q] = held[q]
        /\ held'[p] = {JobRow(j) : j \in batch}
    BY <1>1 DEF Inv, TypeOK
  <2>2. Overlaps(p)' = {}
    BY <2>1, LockableRows DEF Overlaps
  <2> QED BY <1>1, <2>1, <2>2 DEF Start, Inv, TasksHold, Overlaps
<1>5. TypeOK'
  BY <1>1, <1>3, <1>4, LockableRows DEF Inv, TypeOK, Kind
<1>6. RanksRise'
  BY <1>4 DEF Inv, TypeOK, RanksRise, OneJob
<1>7. TasksHold'
  BY <1>3, <1>4 DEF Inv, TypeOK, TasksHold
<1>8. LocksExclude'
  <2> DEFINE new == {JobRow(j) : j \in batch}
  <2>1. \A l \in new, q \in Process \ {p} : \A m \in held[q] : ~Clash(l, m)
    BY LockableRows
  <2>2. held'[p] \subseteq held[p] \cup new /\ \A q \in Process \ {p} : held'[q] = held[q]
    BY <1>4
  <2> HIDE DEF new
  <2> QED BY <2>1, <2>2, Acquired DEF Inv
<1>9. RowsExclude'
  BY <1>1, <1>4 DEF Inv, TypeOK, RowsExclude
<1> QED BY <1>5, <1>6, <1>7, <1>8, <1>9 DEF Inv

LEMMA CandidatesStep ==
    ASSUME Inv, NEW p \in Process, Candidates(p)
    PROVE  Inv'
<1> PICK t \in Tenant, batch \in SUBSET Lockable(p) :
          /\ held' = [held EXCEPT ![p] = @ \cup {JobRow(j) : j \in batch}]
          /\ \E tried \in Tries(batch) : todo' = [todo EXCEPT ![p] = tried]
  BY DEF Candidates
<1>1. PICK s \in Tries(batch) : todo' = [todo EXCEPT ![p] = s]
  OBVIOUS
<1>2. batch \in SUBSET Job
  BY DEF Lockable
<1>3. s \in Seq(Lock) /\ \A i \in DOMAIN s : Rank(s[i]) = 3
  BY <1>2, TriedRows
<1>4. /\ kind[p] = "dispatch" /\ locked' = locked /\ kind' = [kind EXCEPT ![p] = "reserve"]
      /\ \A q \in Process \ {p} : held'[q] = held[q] /\ Overlaps(q)' = Overlaps(q)
      /\ held'[p] = held[p] \cup {JobRow(j) : j \in batch}
      /\ Overlaps(p)' = {}
  <2>1. /\ \A q \in Process \ {p} : held'[q] = held[q]
        /\ held'[p] = held[p] \cup {JobRow(j) : j \in batch}
    BY DEF Inv, TypeOK
  <2>2. kind[p] = "dispatch" /\ locked' = locked /\ kind' = [kind EXCEPT ![p] = "reserve"]
    BY DEF Candidates
  <2>3. \A k \in Job : OverlapRow(k) \notin held[p]
    BY <2>2, LocksOf DEF Inv, TasksHold
  <2>4. Overlaps(p)' = {}
    BY <2>1, <2>3, LockableRows DEF Overlaps
  <2> QED BY <2>1, <2>2, <2>4 DEF Overlaps
<1>5. TypeOK'
  BY <1>1, <1>3, <1>4, LockableRows DEF Inv, TypeOK, Kind
<1>6. RanksRise'
  BY <1>1, <1>4 DEF Inv, TypeOK, RanksRise, OneJob
<1>7. TasksHold'
  BY <1>1, <1>3, <1>4 DEF Inv, TypeOK, TasksHold
<1>8. LocksExclude'
  <2> DEFINE new == {JobRow(j) : j \in batch}
  <2>1. \A l \in new, q \in Process \ {p} : \A m \in held[q] : ~Clash(l, m)
    BY LockableRows
  <2>2. held'[p] \subseteq held[p] \cup new /\ \A q \in Process \ {p} : held'[q] = held[q]
    BY <1>4
  <2> HIDE DEF new
  <2> QED BY <2>1, <2>2, Acquired DEF Inv
<1>9. RowsExclude'
  BY <1>1, <1>4 DEF Inv, TypeOK, RowsExclude
<1> QED BY <1>5, <1>6, <1>7, <1>8, <1>9 DEF Inv

\* The kinds of transactions that wait, by the table of the lock they want.
LEMMA Wanted ==
    ASSUME Inv, NEW p \in Process, todo[p] # <<>>
    PROVE  /\ Head(todo[p]) \in Lock
           /\ kind[p] \in OneJob \cup {"dispatch", "promote", "reserve"}
           /\ kind[p] \in {"dispatch", "promote"} => Rank(Head(todo[p])) = 4
           /\ kind[p] = "reserve" => Rank(Head(todo[p])) = 3
           /\ kind[p] \in OneJob => \A m \in held[p] : Rank(m) < Rank(Head(todo[p]))
           /\ kind[p] = "replay" => Rank(Head(todo[p])) # 3
<1>1. Head(todo[p]) \in Lock /\ 1 \in DOMAIN todo[p] /\ Head(todo[p]) = todo[p][1]
  BY HeadAndTail DEF Inv, TypeOK
<1>2. kind[p] \in Kind /\ kind[p] # "none"
  BY DEF Inv, TypeOK, TasksHold
<1> QED BY <1>1, <1>2 DEF Inv, RanksRise, TasksHold, Kind, OneJob

\* A lock of rank 3 is the overlap row of a job.
LEMMA OverlapRows ==
    ASSUME NEW l \in Lock
    PROVE  /\ Rank(l) = 3 <=> l[1] = "job_overlap_locks"
           /\ Rank(l) = 3 => l[2] \in Job /\ l = OverlapRow(l[2])
           /\ Rank(l) \in 1 .. 4
BY DEF Lock, Rank, AttemptRow, JobRow, OverlapRow, DeadLetterRow, StateRow

LEMMA TakeStep ==
    ASSUME Inv, NEW p \in Process, Take(p)
    PROVE  Inv'
<1> DEFINE l == Head(todo[p])   rest == IF kind[p] = "reserve" THEN <<>> ELSE Tail(todo[p])
<1>1. /\ todo[p] # <<>> /\ ~HeldByOther(p, l) /\ ~KeyTaken(p) /\ ~NothingToDelete(p)
      /\ kind' = kind /\ locked' = locked
      /\ held' = [held EXCEPT ![p] = @ \cup {l}]
      /\ todo' = [todo EXCEPT ![p] = rest]
  BY DEF Take
<1>2. /\ l \in Lock /\ 1 \in DOMAIN todo[p] /\ l = todo[p][1] /\ rest \in Seq(Lock)
      /\ kind[p] = "reserve" => rest = <<>>
      /\ kind[p] # "reserve" => \A i \in DOMAIN rest :
            i \in Nat \ {0} /\ i + 1 \in DOMAIN todo[p] /\ rest[i] = todo[p][i + 1]
  BY <1>1, HeadAndTail, EmptySeq DEF Inv, TypeOK
<1>3. /\ \A q \in Process \ {p} : held'[q] = held[q] /\ todo'[q] = todo[q]
      /\ held'[p] = held[p] \cup {l} /\ todo'[p] = rest
      /\ \A q \in Process \ {p} : Overlaps(q)' = Overlaps(q)
      /\ \A j \in Overlaps(p)' : j \in Overlaps(p) \/ l = OverlapRow(j)
  BY <1>1 DEF Inv, TypeOK, Overlaps
<1> HIDE DEF rest
<1>4. TypeOK'
  BY <1>1, <1>2 DEF Inv, TypeOK
<1>5. RanksRise'
  <2> SUFFICES ASSUME kind[p] \in OneJob
               PROVE  /\ Rising(rest)
                      /\ \A m \in held'[p] : \A i \in DOMAIN rest : Rank(m) < Rank(rest[i])
                      /\ kind[p] = "replay" =>
                            /\ Overlaps(p)' = {}
                            /\ \A i \in DOMAIN rest : Rank(rest[i]) # 3
    BY <1>1, <1>3 DEF Inv, RanksRise
  <2>1. Rising(todo[p]) /\ kind[p] # "reserve"
    BY DEF Inv, RanksRise, OneJob
  <2>2. Rising(rest)
    BY <1>2, <2>1, RisingRest
  <2>3. \A m \in held'[p] : \A i \in DOMAIN rest : Rank(m) < Rank(rest[i])
    BY <1>2, <1>3, <2>1 DEF Rising, Inv, RanksRise
  <2>4. kind[p] = "replay" => Rank(l) # 3 /\ Overlaps(p) = {}
                               /\ \A i \in DOMAIN rest : Rank(rest[i]) # 3
    BY <1>2, <2>1 DEF Inv, RanksRise
  <2> QED BY <1>3, <2>2, <2>3, <2>4, LocksOf DEF Overlaps
<1>6. TasksHold'
  <2>1. kind[p] = "dispatch" => /\ \A m \in held'[p] : Rank(m) = 4
                                /\ rest = <<>>
    <3>1. kind[p] = "dispatch" => \A m \in held'[p] : Rank(m) = 4
      BY <1>1, <1>3, Wanted DEF Inv, TasksHold
    <3>2. kind[p] = "dispatch" => DOMAIN rest = {}
      BY <1>2 DEF Inv, TasksHold
    <3>3. DOMAIN rest = {} => rest = <<>>
      BY <1>2, EmptySeq, LenProperties
    <3> QED BY <3>1, <3>2, <3>3
  <2>2. kind[p] = "promote" => Overlaps(p)' = {} /\ \A i \in DOMAIN rest : Rank(rest[i]) = 4
    <3>1. kind[p] = "promote" => Rank(l) = 4 /\ Overlaps(p) = {}
      BY <1>1, Wanted DEF Inv, TasksHold
    <3>2. kind[p] = "promote" => Overlaps(p)' = {}
      BY <1>3, <3>1, LocksOf DEF Overlaps
    <3> QED BY <1>2, <3>2 DEF Inv, TasksHold
  <2>3. kind[p] # "none"
    BY <1>1 DEF Inv, TasksHold
  <2>4. kind[p] = "reserve" => rest = <<>> /\ DOMAIN rest = {}
    BY <1>2
  <2>5. \A q \in Process \ {p} :
            held'[q] = held[q] /\ todo'[q] = todo[q] /\ Overlaps(q)' = Overlaps(q)
    BY <1>3
  <2> QED BY <1>1, <1>3, <2>1, <2>2, <2>3, <2>4, <2>5 DEF Inv, TasksHold
<1>7. LocksExclude'
  <2>1. \A m \in {l}, q \in Process \ {p} : \A k \in held[q] : ~Clash(m, k)
    BY <1>1 DEF HeldByOther
  <2> QED BY <1>3, <2>1, Acquired DEF Inv
<1>8. RowsExclude'
  <2>1. kind[p] # "reserve" => Overlaps(p)' \subseteq locked
    BY <1>1, <1>2, <1>3, OverlapRows DEF Inv, RowsExclude, NothingToDelete, OverlapRow
  <2>2. kind[p] = "reserve" => Overlaps(p) = {}
    BY <1>1 DEF Inv, TasksHold
  <2>3. kind[p] = "reserve" => \A k \in locked : ~Clash(l, OverlapRow(k))
    BY <1>1 DEF KeyTaken
  <2>4. kind[p] = "reserve" =>
            /\ \A j \in Overlaps(p)', k \in locked : <<j, k>> \notin Exclusive
            /\ \A j, k \in Overlaps(p)' : j = k
    BY <1>3, <2>2, <2>3 DEF Clash, OverlapRow
  <2> QED BY <1>1, <1>3, <2>1, <2>4 DEF Inv, RowsExclude
<1> QED BY <1>4, <1>5, <1>6, <1>7, <1>8 DEF Inv

LEMMA TryNextStep ==
    ASSUME Inv, NEW p \in Process, TryNext(p)
    PROVE  Inv'
<1> DEFINE rest == Tail(todo[p])
<1>1. /\ todo[p] # <<>> /\ kind' = kind /\ locked' = locked /\ held' = held
      /\ todo' = [todo EXCEPT ![p] = rest]
  BY DEF TryNext
<1>2. /\ rest \in Seq(Lock)
      /\ \A i \in DOMAIN rest :
            i \in Nat \ {0} /\ i + 1 \in DOMAIN todo[p] /\ rest[i] = todo[p][i + 1]
  BY <1>1, HeadAndTail DEF Inv, TypeOK
<1>3. /\ \A q \in Process \ {p} : todo'[q] = todo[q]
      /\ todo'[p] = rest
      /\ \A q \in Process : Overlaps(q)' = Overlaps(q)
  BY <1>1 DEF Inv, TypeOK, Overlaps
<1> HIDE DEF rest
<1>4. TypeOK'
  BY <1>1, <1>2 DEF Inv, TypeOK
<1>5. RanksRise'
  <2>1. kind[p] \in OneJob => Rising(rest)
    <3>1. kind[p] \in OneJob => Rising(todo[p])
      BY DEF Inv, RanksRise
    <3> QED BY <1>2, <3>1, RisingRest
  <2>2. kind[p] \in OneJob => \A m \in held[p] : \A i \in DOMAIN rest : Rank(m) < Rank(rest[i])
    BY <1>2 DEF Inv, RanksRise
  <2>3. kind[p] = "replay" => \A i \in DOMAIN rest : Rank(rest[i]) # 3
    BY <1>2 DEF Inv, RanksRise, OneJob
  <2> QED BY <1>1, <1>3, <2>1, <2>2, <2>3 DEF Inv, RanksRise
<1>6. TasksHold'
  <2>1. kind[p] = "dispatch" => DOMAIN rest = {}
    BY <1>2 DEF Inv, TasksHold
  <2>2. DOMAIN rest = {} => rest = <<>>
    BY <1>2, EmptySeq, LenProperties
  <2>3. kind[p] # "none" /\ (kind[p] = "dispatch" => held[p] = {})
        /\ (kind[p] = "reserve" => Overlaps(p) = {})
    BY <1>1 DEF Inv, TasksHold
  <2>4. /\ kind[p] = "promote" => \A i \in DOMAIN rest : Rank(rest[i]) = 4
        /\ kind[p] = "reserve" => \A i \in DOMAIN rest : Rank(rest[i]) = 3
    BY <1>2 DEF Inv, TasksHold
  <2> QED BY <1>1, <1>3, <2>1, <2>2, <2>3, <2>4 DEF Inv, TasksHold
<1>7. LocksExclude'
  BY <1>1 DEF Inv, LocksExclude
<1>8. RowsExclude'
  BY <1>1, <1>3 DEF Inv, RowsExclude
<1> QED BY <1>4, <1>5, <1>6, <1>7, <1>8 DEF Inv

\* Leaving releases everything; what else holds depends on locked.
LEMMA Left ==
    ASSUME Inv, NEW p \in Process, Leave(p)
    PROVE  /\ RanksRise' /\ TasksHold' /\ LocksExclude'
           /\ kind' \in [Process -> Kind] /\ held' \in [Process -> SUBSET Lock]
           /\ todo' \in [Process -> Seq(Lock)]
           /\ kind'[p] = "none" /\ Overlaps(p)' = {}
           /\ \A q \in Process \ {p} : kind'[q] = kind[q] /\ Overlaps(q)' = Overlaps(q)
<1>1. /\ kind'[p] = "none" /\ held'[p] = {} /\ todo'[p] = <<>> /\ Overlaps(p)' = {}
      /\ \A q \in Process \ {p} : /\ kind'[q] = kind[q] /\ held'[q] = held[q]
                                    /\ todo'[q] = todo[q] /\ Overlaps(q)' = Overlaps(q)
  BY DEF Leave, Inv, TypeOK, Overlaps
<1>2. /\ kind' \in [Process -> Kind] /\ held' \in [Process -> SUBSET Lock]
      /\ todo' \in [Process -> Seq(Lock)]
  BY EmptySeq DEF Leave, Inv, TypeOK, Kind
<1>3. RanksRise'
  BY <1>1 DEF Inv, RanksRise, OneJob
<1>4. TasksHold'
  BY <1>1 DEF Inv, TasksHold
<1>5. LocksExclude'
  BY <1>1, Acquired DEF Inv
<1> QED BY <1>1, <1>2, <1>3, <1>4, <1>5

LEMMA CommitStep ==
    ASSUME Inv, NEW p \in Process, Commit(p)
    PROVE  Inv'
<1>1. /\ Leave(p) /\ kind[p] \notin {"none", "dispatch"}
      /\ locked' = IF kind[p] = "reserve" THEN locked \cup Overlaps(p) ELSE locked \ Overlaps(p)
  BY DEF Commit
\* The rows of two transactions differ in job and in key.
<1>2. \A q \in Process \ {p} : \A j \in Overlaps(p), k \in Overlaps(q) :
          j # k /\ <<j, k>> \notin Exclusive /\ <<k, j>> \notin Exclusive
  <2> SUFFICES ASSUME NEW q \in Process \ {p}, NEW j \in Overlaps(p), NEW k \in Overlaps(q)
               PROVE  j # k /\ <<j, k>> \notin Exclusive /\ <<k, j>> \notin Exclusive
    OBVIOUS
  <2>1. OverlapRow(j) \in held[p] /\ OverlapRow(k) \in held[q]
    BY DEF Overlaps
  <2>2. ~Clash(OverlapRow(j), OverlapRow(k))
    BY <2>1 DEF Inv, LocksExclude
  <2>3. j # k /\ <<j, k>> \notin Exclusive
    BY <2>2 DEF Clash, OverlapRow
  <2> QED BY <2>3, Symmetric
<1>3. TypeOK'
  <2>1. locked' \subseteq Job
    BY <1>1 DEF Inv, TypeOK, Overlaps
  <2>2. \A j, k \in locked' : j # k => <<j, k>> \notin Exclusive
    BY <1>1, Symmetric DEF Inv, TypeOK, RowsExclude
  <2> QED BY <1>1, <2>1, <2>2, Left DEF TypeOK
<1>4. RowsExclude'
  <2>1. \A q \in Process \ {p} : kind[q] # "reserve" => Overlaps(q) \subseteq locked'
    BY <1>1, <1>2 DEF Inv, RowsExclude
  <2>2. \A q \in Process \ {p} : kind[q] = "reserve" =>
            /\ \A j \in Overlaps(q), k \in locked' : <<j, k>> \notin Exclusive
            /\ \A j, k \in Overlaps(q) : j = k
    BY <1>1, <1>2 DEF Inv, RowsExclude
  <2> QED BY <1>1, <2>1, <2>2, Left DEF RowsExclude
<1> QED BY <1>1, <1>3, <1>4, Left DEF Inv

LEMMA AbortStep ==
    ASSUME Inv, NEW p \in Process, Abort(p)
    PROVE  Inv'
<1>1. Leave(p) /\ locked' = locked
  BY DEF Abort
<1>2. TypeOK'
  BY <1>1, Left DEF Inv, TypeOK
<1>3. RowsExclude'
  BY <1>1, Left DEF Inv, RowsExclude
<1> QED BY <1>1, <1>2, <1>3, Left DEF Inv

LEMMA InvStep == Inv /\ [Next]_vars => Inv'
<1> SUFFICES ASSUME Inv, [Next]_vars
             PROVE  Inv'
  OBVIOUS
<1>1. CASE UNCHANGED vars
  BY <1>1 DEF vars, Inv, TypeOK, RanksRise, TasksHold, LocksExclude, RowsExclude, Overlaps
<1>2. ASSUME NEW p \in Process, Begin(p)
      PROVE  Inv'
  BY <1>2, BeginJobStep, BeginDispatchStep, BeginPromotionStep DEF Begin
<1>3. ASSUME NEW p \in Process, Proceed(p)
      PROVE  Inv'
  BY <1>3, CandidatesStep, TakeStep, TryNextStep, CommitStep DEF Proceed
<1> QED BY <1>1, <1>2, <1>3, AbortStep DEF Next

\* Inv is inductive: requests follow the order of the tables, tasks hold what
\* the code lets them hold while they wait, and locks and keys exclude.
THEOREM Correct == Spec => []Inv
BY InitInv, InvStep, PTL DEF Spec

\* The types, and no two committed overlap rows have one key.
THEOREM TypesCorrect == Spec => []TypeOK
<1>1. Inv => TypeOK
  BY DEF Inv
<1> QED BY <1>1, Correct, PTL

\* No two transactions ever hold locks that clash: not one row twice, nor two
\* uncommitted overlap rows of one key. It is what the waits of the model and
\* the choices of skip_locked rest on.
THEOREM LocksExcluded == Spec => []LocksExclude
<1>1. Inv => LocksExclude
  BY DEF Inv
<1> QED BY <1>1, Correct, PTL

-----------------------------------------------------------------------------
(* The cycles of waits *)

\* In a deadlock a transaction about one job waits with an overlap row: without
\* one, those that wait for it want a row they request first or second, and
\* nobody waits for what those hold.
LEMMA OneJobHoldsRow ==
    ASSUME Inv, NEW C \in Deadlocks, NEW p \in C, kind[p] \in OneJob
    PROVE  /\ Overlaps(p) # {} /\ kind[p] # "replay" /\ Rank(Head(todo[p])) = 4
           /\ \E r \in C : Rank(Head(todo[r])) = 3
<1> DEFINE Wants(q) == Rank(Head(todo[q]))
<1>1. \A q \in C : q \in Process /\ todo[q] # <<>>
  BY DEF Deadlocks
\* Who waits for q wants a lock of a lower rank than q does, or the same row.
<1>2. ASSUME NEW q \in C, kind[q] \in OneJob
      PROVE  /\ Wants(q) \in 1 .. 4
             /\ \A m \in held[q] : Rank(m) < Wants(q)
             /\ \E r \in C : \E m \in held[q] : Clash(Head(todo[r]), m) /\ Wants(r) = Rank(m)
  <2>1. Head(todo[q]) \in Lock /\ \A m \in held[q] : m \in Lock /\ Rank(m) < Wants(q)
    BY <1>1, <1>2, Wanted DEF Inv, TypeOK
  <2>2. PICK r \in C, m \in held[q] : Clash(Head(todo[r]), m)
    BY DEF Deadlocks, WaitsFor
  <2>3. Wants(r) = Rank(m)
    BY <1>1, <2>1, <2>2, Wanted, OverlapRows DEF Clash
  <2> QED BY <2>1, <2>2, <2>3, OverlapRows
\* Only transactions about one job want rows of rank 1 or 2.
<1>3. \A q \in C : Wants(q) <= 2 => kind[q] \in OneJob
  BY <1>1, Wanted
<1>4. Wants(p) # 1 /\ \A q \in C : Wants(q) # 1
  <2>1. \A l \in Lock : Rank(l) \in 1 .. 4
    BY OverlapRows
  <2>2. ASSUME NEW q \in C, Wants(q) = 1 PROVE FALSE
    <3>1. kind[q] \in OneJob
      BY <1>3, <2>2
    <3>2. \A m \in held[q] : m \in Lock /\ Rank(m) < 1
      BY <1>1, <1>2, <2>2, <3>1 DEF Inv, TypeOK
    <3> QED BY <1>2, <2>1, <3>1, <3>2
  <2> QED BY <2>2
<1>5. \A q \in C : Wants(q) # 2
  <2>1. SUFFICES ASSUME NEW q \in C, Wants(q) = 2 PROVE FALSE
    OBVIOUS
  <2>2. kind[q] \in OneJob
    BY <1>3, <2>1
  <2>3. PICK r \in C, m \in held[q] : Wants(r) = Rank(m) /\ Rank(m) < 2
    BY <1>2, <2>1, <2>2
  <2>4. m \in Lock
    BY <1>1 DEF Inv, TypeOK
  <2>5. Rank(m) = 1
    BY <2>3, <2>4, OverlapRows
  <2> QED BY <1>4, <2>3, <2>5
\* So p is waited for at a row of rank 3 or more, below the rank it wants.
<1>6. PICK r \in C, m \in held[p] : Clash(Head(todo[r]), m) /\ Wants(r) = Rank(m) /\ Rank(m) < Wants(p)
  BY <1>2
<1>7. m \in Lock /\ Rank(m) \in 1 .. 4 /\ Wants(p) \in 1 .. 4
  BY <1>1, <1>2, OverlapRows DEF Inv, TypeOK
<1>8. Rank(m) = 3 /\ Wants(p) = 4
  BY <1>4, <1>5, <1>6, <1>7
<1>9. Overlaps(p) # {}
  BY <1>7, <1>8, OverlapRows DEF Overlaps
<1> QED BY <1>1, <1>6, <1>8, <1>9 DEF Inv, RanksRise

\* Without such a transaction only promotions wait for each other: a dispatch
\* that waits for the tenant's state holds nothing, and one that waits for a
\* key finds the row with nobody.
LEMMA OnlyPromotions ==
    ASSUME Inv, NEW C \in Deadlocks, \A p \in C : kind[p] \notin OneJob
    PROVE  \A p \in C : kind[p] = "promote"
<1>1. \A q \in C : /\ q \in Process /\ todo[q] # <<>>
                    /\ kind[q] \in {"dispatch", "promote", "reserve"}
                    /\ \A m \in held[q] : m \in Lock
  BY Wanted DEF Deadlocks, Inv, TypeOK
<1>2. \A q \in C : kind[q] # "dispatch"
  BY <1>1 DEF Deadlocks, WaitsFor, Inv, TasksHold
<1>3. \A q \in C : Overlaps(q) = {}
  BY <1>1, <1>2 DEF Inv, TasksHold
<1>4. ASSUME NEW q \in C, kind[q] = "reserve" PROVE FALSE
  <2>1. PICK r \in C : \E m \in held[r] : Clash(Head(todo[q]), m)
    BY DEF Deadlocks, WaitsFor
  <2> PICK m \in held[r] : Clash(Head(todo[q]), m)
    BY <2>1
  <2>2. Rank(Head(todo[q])) = 3 /\ Head(todo[q]) \in Lock
    BY <1>1, <1>4, Wanted
  <2>3. Rank(m) = 3
    BY <1>1, <2>1, <2>2, OverlapRows DEF Clash
  <2>4. m[2] \in Overlaps(r)
    BY <1>1, <2>1, <2>3, OverlapRows DEF Overlaps
  <2> QED BY <1>3, <2>4
<1> QED BY <1>1, <1>2, <1>4

\* Every deadlock is a dispatch that waits for a key whose row another
\* transaction of the tenant deletes, or two promotions: DeadlocksAreKnown.
THEOREM DeadlocksKnown == Spec => []DeadlocksAreKnown
<1>1. ASSUME Inv, NEW C \in Deadlocks, NEW p \in C, kind[p] \in OneJob
      PROVE  /\ \E q \in C : kind[q] = "reserve"
             /\ \E q \in C : kind[q] \in {"report", "abandon", "recover"} /\ Overlaps(q) # {}
  <2>1. Overlaps(p) # {} /\ kind[p] \in {"report", "abandon", "recover"}
    BY <1>1, OneJobHoldsRow DEF OneJob
  <2>2. PICK r \in C : Rank(Head(todo[r])) = 3
    BY <1>1, OneJobHoldsRow
  <2>3. r \in Process /\ todo[r] # <<>>
    BY DEF Deadlocks
  <2>4. kind[r] \notin OneJob
    BY <1>1, <2>2, OneJobHoldsRow
  <2>5. kind[r] = "reserve"
    BY <1>1, <2>2, <2>3, <2>4, Wanted
  <2> QED BY <2>1, <2>5
<1>2. ASSUME Inv, NEW C \in Deadlocks, \A p \in C : kind[p] \notin OneJob
      PROVE  Cardinality({q \in C : kind[q] = "promote"}) >= 2
  <2>1. {q \in C : kind[q] = "promote"} = C
    BY <1>2, OnlyPromotions
  <2>2. PICK p \in C, q \in C : p # q
    BY DEF Deadlocks, WaitsFor
  <2>3. IsFiniteSet(C) /\ Cardinality(C) \in Nat
    BY LocksAssumption, FS_Subset, FS_CardinalityType DEF Deadlocks
  <2>4. IsFiniteSet({p}) /\ Cardinality({p}) = 1
    BY FS_Singleton
  <2>5. Cardinality({p} \cup {q}) = 2
    <3>1. q \notin {p} BY <2>2
    <3>2. Cardinality({p} \cup {q}) = Cardinality({p}) + 1
      BY <2>4, <3>1, FS_AddElement
    <3> QED BY <2>4, <3>2
  <2>6. {p} \cup {q} \in SUBSET C
    OBVIOUS
  <2> QED BY <2>1, <2>3, <2>5, <2>6, FS_Subset
<1>3. Inv => DeadlocksAreKnown
  BY <1>1, <1>2 DEF DeadlocksAreKnown
<1> QED BY <1>3, Correct, PTL

\* A detector's victim that is about one job holds an overlap row, so its job
\* names a key: KeylessNeverAborted.
THEOREM KeylessSafe == Spec => []KeylessNeverAborted
<1>1. Inv => KeylessNeverAborted
  BY OneJobHoldsRow DEF KeylessNeverAborted, OneJob
<1> QED BY <1>1, Correct, PTL

-----------------------------------------------------------------------------
(* What it takes for a deadlock *)

\* Without keys nobody requests an overlap row, and only those whose duty it is
\* promote retries.
NoRowsAndDuties ==
    \A p \in Process :
        /\ kind[p] = "promote" => "promote" \in Duties[p]
        /\ Overlaps(p) = {}
        /\ \A i \in DOMAIN todo[p] : Rank(todo[p][i]) # 3

LEMMA UnkeyedRequests ==
    ASSUME Exclusive = {}, NEW j \in Job, NEW s \in {Report(j), Abandon(j), Recover(j), Replay(j)}
    PROVE  \A i \in DOMAIN s : Rank(s[i]) # 3
<1> DEFINE a == AttemptRow(j)   b == JobRow(j)   d == DeadLetterRow(j)   t == StateRow(TenantOf[j])
<1>1. SetToSeq({OverlapRow(i) : i \in Keyed({j})}) = <<>>
  <2>1. {OverlapRow(i) : i \in Keyed({j})} = {} BY DEF Keyed
  <2>2. SetToSeq({}) \in [1 .. 0 -> {}]
    <3>1. <<>> \in [1 .. 0 -> {}] /\ IsInjective(<<>>)
      BY DEF IsInjective
    <3> QED BY <3>1, FS_EmptySet DEF SetToSeq
  <2>3. \A f \in [1 .. 0 -> {}] : f = <<>>
    OBVIOUS
  <2> QED BY <2>1, <2>2, <2>3
<1>2. Release(j) = <<t>>
  <2>1. Release(j) = <<>> \o <<t>> BY <1>1 DEF Release
  <2> HIDE DEF t
  <2> QED BY <2>1
<1>3. s \in {<<a, b>> \o <<t>>, <<b>> \o <<t>>, <<d, b, t>>}
  BY <1>2 DEF Report, Abandon, Recover, Replay
<1>4. Rank(a) = 1 /\ Rank(d) = 1 /\ Rank(b) = 2 /\ Rank(t) = 4
  BY LocksOf
<1> HIDE DEF a, b, d, t
<1>5. s \in {<<a, b, t>>, <<b, t>>, <<d, b, t>>}
  BY <1>3
<1> QED BY <1>4, <1>5

LEMMA UnkeyedTries ==
    ASSUME Exclusive = {}, NEW batch \in SUBSET Job, NEW s \in Tries(batch)
    PROVE  DOMAIN s = {}
<1>1. {OverlapRow(j) : j \in Keyed(batch)} = {} BY DEF Keyed
<1>2. s \in SetToSeqs({})
  BY <1>1 DEF Tries, SetToAllKPermutations
<1>3. s \in Seq({})
  BY <1>2, Orders, FS_EmptySet
<1> QED BY <1>3

LEMMA NoRowsStep ==
    ASSUME Exclusive = {}, Inv, NoRowsAndDuties, [Next]_vars
    PROVE  NoRowsAndDuties'
<1>1. ASSUME NEW p \in Process, NEW j \in Job, BeginJob(p, j) PROVE NoRowsAndDuties'
  <2>1. PICK k \in OneJob, s \in {Report(j), Abandon(j), Recover(j), Replay(j)} : Start(p, k, s)
    BY <1>1 DEF BeginJob, OneJob
  <2>2. \A i \in DOMAIN s : Rank(s[i]) # 3 BY UnkeyedRequests
  <2>3. held' = held /\ \A q \in Process : Overlaps(q)' = Overlaps(q)
    BY <1>1 DEF BeginJob, Overlaps
  <2> QED BY <2>1, <2>2, <2>3 DEF Start, OneJob, NoRowsAndDuties, Inv, TypeOK
<1>2. ASSUME NEW p \in Process, NEW t \in Tenant, BeginDispatch(p, t) PROVE NoRowsAndDuties'
  <2> DEFINE s == <<StateRow(t)>>
  <2>1. \A i \in DOMAIN s : Rank(s[i]) # 3 BY LocksOf
  <2>2. \A q \in Process : Overlaps(q)' = Overlaps(q) BY <1>2 DEF BeginDispatch, Overlaps
  <2>3. Start(p, "dispatch", s) BY <1>2 DEF BeginDispatch
  <2> HIDE DEF s
  <2> QED BY <2>1, <2>2, <2>3 DEF Start, NoRowsAndDuties, Inv, TypeOK
<1>3. ASSUME NEW p \in Process, BeginPromotion(p) PROVE NoRowsAndDuties'
  <2>1. PICK batch \in SUBSET Lockable(p) :
            /\ \E s \in SetToSeqs({StateRow(TenantOf[j]) : j \in batch}) : Start(p, "promote", s)
            /\ held' = [held EXCEPT ![p] = {JobRow(j) : j \in batch}]
    BY <1>3 DEF BeginPromotion
  <2>2. PICK s \in SetToSeqs({StateRow(TenantOf[j]) : j \in batch}) : Start(p, "promote", s)
    BY <2>1
  <2>3. \A i \in DOMAIN s : Rank(s[i]) # 3 BY PromotionRows DEF Lockable
  <2>4. \A q \in Process : Overlaps(q)' = {}
    BY <2>1, LockableRows DEF Overlaps, NoRowsAndDuties, Inv, TypeOK
  <2> QED BY <2>2, <2>3, <2>4 DEF Start, NoRowsAndDuties, Inv, TypeOK
<1>4. ASSUME NEW p \in Process, Candidates(p) PROVE NoRowsAndDuties'
  <2>1. PICK batch \in SUBSET Lockable(p) :
            /\ held' = [held EXCEPT ![p] = @ \cup {JobRow(j) : j \in batch}]
            /\ \E tried \in Tries(batch) : todo' = [todo EXCEPT ![p] = tried]
    BY <1>4 DEF Candidates
  <2>2. PICK s \in Tries(batch) : todo' = [todo EXCEPT ![p] = s] BY <2>1
  <2>3. DOMAIN s = {} BY UnkeyedTries DEF Lockable
  <2>4. \A q \in Process : Overlaps(q)' = {}
    <3>1. /\ \A q \in Process \ {p} : held'[q] = held[q]
          /\ held'[p] = held[p] \cup {JobRow(j) : j \in batch}
      BY <2>1 DEF Inv, TypeOK
    <3>2. \A q \in Process : Overlaps(q) = {} BY DEF NoRowsAndDuties
    <3>3. \A j \in batch, k \in Job : JobRow(j) # OverlapRow(k) BY LockableRows
    <3> QED BY <3>1, <3>2, <3>3 DEF Overlaps
  <2>5. kind' = [kind EXCEPT ![p] = "reserve"] BY <1>4 DEF Candidates
  <2> QED BY <2>2, <2>3, <2>4, <2>5 DEF NoRowsAndDuties, Inv, TypeOK
\* The steps of a transaction take what it has requested, or request less.
<1>5. ASSUME NEW p \in Process, Take(p) \/ TryNext(p) PROVE NoRowsAndDuties'
  <2> DEFINE l == Head(todo[p])
  <2>1. /\ todo[p] \in Seq(Lock) /\ todo[p] # <<>> /\ kind' = kind
        /\ todo'[p] \in {<<>>, Tail(todo[p])} /\ \A q \in Process \ {p} : todo'[q] = todo[q]
        /\ \A q \in Process : held'[q] \subseteq IF q = p THEN held[q] \cup {l} ELSE held[q]
    BY <1>5 DEF Take, TryNext, Inv, TypeOK
  <2>2. Rank(l) # 3 /\ \A i \in DOMAIN Tail(todo[p]) : Rank(Tail(todo[p])[i]) # 3
    BY <2>1, HeadAndTail DEF NoRowsAndDuties
  <2>3. \A i \in DOMAIN todo'[p] : Rank(todo'[p][i]) # 3
    <3>1. CASE todo'[p] = <<>> BY <3>1
    <3>2. CASE todo'[p] = Tail(todo[p]) BY <2>2, <3>2
    <3> QED BY <2>1, <3>1, <3>2
  <2>4. \A q \in Process : Overlaps(q)' = {}
    BY <2>1, <2>2, LocksOf DEF Overlaps, NoRowsAndDuties
  <2> QED BY <2>1, <2>3, <2>4 DEF NoRowsAndDuties
<1>6. ASSUME NEW p \in Process, Leave(p) PROVE NoRowsAndDuties'
  BY <1>6 DEF Leave, NoRowsAndDuties, Inv, TypeOK, Overlaps
<1>7. CASE UNCHANGED vars
  BY <1>7 DEF vars, NoRowsAndDuties, Overlaps
<1> QED BY <1>1, <1>2, <1>3, <1>4, <1>5, <1>6, <1>7 DEF Next, Begin, Proceed, Commit, Abort

\* Keys and crosswise promotions are all it takes: if no job names a key, and
\* the runs of promote_ready_retries do not overlap, no set of transactions
\* ever waits for each other.
THEOREM DeadlockFree ==
    ASSUME Exclusive = {},
           \A p, q \in Process : "promote" \in Duties[p] \cap Duties[q] => p = q
    PROVE  Spec => [](Deadlocks = {})
<1>1. Init => NoRowsAndDuties
  BY DEF Init, NoRowsAndDuties, Overlaps
<1>2. Inv /\ NoRowsAndDuties /\ [Next]_vars => NoRowsAndDuties'
  BY NoRowsStep
<1>3. Inv /\ NoRowsAndDuties => Deadlocks = {}
  <2> SUFFICES ASSUME Inv, NoRowsAndDuties, NEW C \in Deadlocks PROVE FALSE
    OBVIOUS
  <2>1. \A p \in C : p \in Process BY DEF Deadlocks
  <2>2. \A p \in C : kind[p] \notin OneJob
    BY <2>1, OneJobHoldsRow DEF NoRowsAndDuties
  <2>3. \A p \in C : "promote" \in Duties[p]
    BY <2>1, <2>2, OnlyPromotions DEF NoRowsAndDuties
  <2>4. PICK p \in C, q \in C : p # q
    BY DEF Deadlocks, WaitsFor
  <2> QED BY <2>1, <2>3, <2>4
<1> QED BY <1>1, <1>2, <1>3, Correct, PTL DEF Spec
=============================================================================
