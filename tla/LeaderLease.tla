---------------------------- MODULE LeaderLease ----------------------------
(***************************************************************************)
(* internal/leaderlease: one job's row in leader_leases and the three      *)
(* statements of TryAcquire, which every instance of the server runs       *)
(* against the shared database before each tick of the job.                *)
(*                                                                         *)
(* Only differences between times matter, so every time is kept relative   *)
(* to the present of a reference clock: `left' is the time the row has     *)
(* left, `age' how long ago a running call read the clock, `lease' what an *)
(* instance has left, by its own clock, of the lease it last won.  Times   *)
(* that can no longer make a difference stop at a floor, which makes the   *)
(* state space finite without bounding time.                               *)
(***************************************************************************)
EXTENDS Integers

CONSTANTS
    Instance,        \* slots in which a server process can run
    NoOne,           \* no row
    Gone,            \* the row's holder_id is of a process that has ended
    Duration,        \* length of a lease
    MaxCall,         \* ticks a TryAcquire call can span
    Spread,          \* how far the instances' clocks can be apart
    Driver,          \* "matched": Postgres, SQL Server, SQLite; "changed": MySQL
    DbMayFail,       \* can a statement return an error
    MayCrash         \* can processes end

ASSUME LeaseAssumption ==
    /\ Duration \in Nat /\ MaxCall \in Nat /\ Spread \in Nat
    /\ Driver \subseteq {"matched", "changed"}
    /\ DbMayFail \in BOOLEAN /\ MayCrash \in BOOLEAN
    /\ NoOne \notin Instance /\ Gone \notin Instance /\ NoOne # Gone

VARIABLES
    driver,    \* what RowsAffected counts with the database in use; never changes
    skew,      \* each instance's clock minus the reference clock; never changes
    holder,    \* holder_id of the row, NoOne if there is none
    left,      \* expires_at of the row, minus now
    pc,        \* where each instance is
    age,       \* now, minus the clock reading a running call started with
    answer,    \* what the last finished call returned
    lease      \* see above; -1 when it is over

vars == <<driver, skew, holder, left, pc, age, answer, lease>>

\* No call can tell two expired rows below this apart.
Floor == -(MaxCall + 1)

AtLeast(floor, t) == IF t < floor THEN floor ELSE t

Calling(i) == pc[i] \in {"delete", "insert", "update"}

\* Seeded fault: the callers' interval*2 is doubled once more.
DoubledExpiresAt(i) == skew[i] + 2 * Duration - age[i]

\* expiresAt of i's running call, minus now.
ExpiresAt(i) == skew[i] + Duration - age[i]

-----------------------------------------------------------------------------
\* A server starts: leaderlease.New draws a holder id of its own.
Boot(i) ==
    /\ pc[i] = "down"
    /\ pc' = [pc EXCEPT ![i] = "idle"]
    /\ answer' = [answer EXCEPT ![i] = "none"]
    /\ UNCHANGED <<driver, skew, holder, left, age, lease>>

\* It ends, at any point; nothing releases its row, and nobody has its id again.
Crash(i) ==
    /\ MayCrash /\ pc[i] # "down"
    /\ pc' = [pc EXCEPT ![i] = "down"]
    /\ holder' = IF holder = i THEN Gone ELSE holder
    /\ age' = [age EXCEPT ![i] = 0]
    /\ lease' = [lease EXCEPT ![i] = -1]
    /\ answer' = [answer EXCEPT ![i] = "none"]
    /\ UNCHANGED <<driver, skew, left>>

\* The job's ticker fires: TryAcquire reads the clock, once.
Begin(i) ==
    /\ pc[i] = "idle"
    /\ pc' = [pc EXCEPT ![i] = "delete"]
    /\ age' = [age EXCEPT ![i] = 0]
    /\ answer' = [answer EXCEPT ![i] = "none"]
    /\ UNCHANGED <<driver, skew, holder, left, lease>>

\* Seeded fault: a row that is about to expire is deleted too.
EagerDelete(i) ==
    /\ pc[i] = "delete"
    /\ pc' = [pc EXCEPT ![i] = "insert"]
    /\ IF holder # NoOne /\ left <= skew[i] - age[i]
       THEN holder' = NoOne /\ left' = Floor
       ELSE UNCHANGED <<holder, left>>
    /\ UNCHANGED <<driver, skew, age, answer, lease>>

\* Seeded fault: an expired row is left for its holder to renew.
NoDelete(i) ==
    /\ pc[i] = "delete"
    /\ pc' = [pc EXCEPT ![i] = "insert"]
    /\ UNCHANGED <<driver, skew, holder, left, age, answer, lease>>

\* DELETE ... WHERE job_name = ? AND expires_at < now.
Delete(i) ==
    /\ pc[i] = "delete"
    /\ pc' = [pc EXCEPT ![i] = "insert"]
    /\ IF holder # NoOne /\ left < skew[i] - age[i]
       THEN holder' = NoOne /\ left' = Floor
       ELSE UNCHANGED <<holder, left>>
    /\ UNCHANGED <<driver, skew, age, answer, lease>>

\* Seeded fault: INSERT OR REPLACE takes the row over.
Upsert(i) ==
    /\ pc[i] = "insert"
    /\ pc' = [pc EXCEPT ![i] = "update"]
    /\ holder' = i /\ left' = ExpiresAt(i)
    /\ UNCHANGED <<driver, skew, age, answer, lease>>

\* INSERT, refused by the primary key if there is a row; its error is ignored.
Insert(i) ==
    /\ pc[i] = "insert"
    /\ pc' = [pc EXCEPT ![i] = "update"]
    /\ \/ /\ holder = NoOne
          /\ holder' = i /\ left' = ExpiresAt(i)
       \/ /\ holder # NoOne \/ DbMayFail
          /\ UNCHANGED <<holder, left>>
    /\ UNCHANGED <<driver, skew, age, answer, lease>>

\* The number of rows UPDATE ... WHERE holder_id = i reports is positive.  MySQL,
\* whose DSN is opened as it is configured, counts the rows it changed: none, if the
\* row already had the expiry (a column of whole seconds, here ticks) to be written.
Affected(i) ==
    /\ holder = i
    /\ driver = "changed" => left # ExpiresAt(i)

\* Seeded fault: the call reports what the INSERT said, a renewal counts as lost.
FaultyUpdate(i) ==
    /\ pc[i] = "update"
    /\ pc' = [pc EXCEPT ![i] = "idle"]
    /\ left' = IF holder = i THEN ExpiresAt(i) ELSE left
    /\ IF holder = i /\ lease[i] < 0
       THEN /\ answer' = [answer EXCEPT ![i] = "won"]
            /\ lease' = [lease EXCEPT ![i] = AtLeast(-1, Duration - age[i])]
       ELSE /\ answer' = [answer EXCEPT ![i] = "lost"]
            /\ UNCHANGED lease
    /\ age' = [age EXCEPT ![i] = 0]
    /\ UNCHANGED <<driver, skew, holder>>

\* Seeded fault: the row's expiry is not what the caller is told.
ShortUpdate(i) ==
    /\ pc[i] = "update"
    /\ pc' = [pc EXCEPT ![i] = "idle"]
    /\ IF Affected(i)
       THEN /\ answer' = [answer EXCEPT ![i] = "won"]
            /\ lease' = [lease EXCEPT ![i] = AtLeast(-1, Duration - age[i])]
       ELSE /\ answer' = [answer EXCEPT ![i] = "lost"]
            /\ UNCHANGED lease
    /\ age' = [age EXCEPT ![i] = 0]
    /\ UNCHANGED <<driver, skew, holder, left>>

\* UPDATE ... WHERE job_name = ? AND holder_id = i; the call returns n > 0.
Update(i) ==
    /\ pc[i] = "update"
    /\ pc' = [pc EXCEPT ![i] = "idle"]
    /\ left' = IF holder = i THEN ExpiresAt(i) ELSE left
    /\ IF Affected(i)
       THEN /\ answer' = [answer EXCEPT ![i] = "won"]
            /\ lease' = [lease EXCEPT ![i] = AtLeast(-1, Duration - age[i])]
       ELSE /\ answer' = [answer EXCEPT ![i] = "lost"]
            /\ UNCHANGED lease
    /\ age' = [age EXCEPT ![i] = 0]
    /\ UNCHANGED <<driver, skew, holder>>

\* DELETE or UPDATE returns an error, and so does the call; an UPDATE whose
\* answer is lost may have been executed.
CallFails(i) ==
    /\ DbMayFail /\ pc[i] \in {"delete", "update"}
    /\ pc' = [pc EXCEPT ![i] = "idle"]
    /\ left' \in {left} \cup (IF pc[i] = "update" /\ holder = i THEN {ExpiresAt(i)} ELSE {})
    /\ age' = [age EXCEPT ![i] = 0]
    /\ answer' = [answer EXCEPT ![i] = "error"]
    /\ UNCHANGED <<driver, skew, holder, lease>>

\* Time passes.
Tick ==
    /\ \A i \in Instance : Calling(i) => age[i] < MaxCall
    /\ left' = AtLeast(Floor, left - 1)
    /\ age' = [i \in Instance |-> IF Calling(i) THEN age[i] + 1 ELSE age[i]]
    /\ lease' = [i \in Instance |-> AtLeast(-1, lease[i] - 1)]
    /\ UNCHANGED <<driver, skew, holder, pc, answer>>

-----------------------------------------------------------------------------
Init ==
    /\ driver \in Driver
    /\ skew \in [Instance -> 0..Spread]
    /\ holder = NoOne /\ left = Floor
    /\ pc = [i \in Instance |-> "down"]
    /\ age = [i \in Instance |-> 0]
    /\ answer = [i \in Instance |-> "none"]
    /\ lease = [i \in Instance |-> -1]

TryAcquire(i) == Begin(i) \/ Delete(i) \/ Insert(i) \/ Update(i)

Next ==
    \/ Tick
    \/ \E i \in Instance : Boot(i) \/ Crash(i) \/ TryAcquire(i) \/ CallFails(i)

Spec == Init /\ [][Next]_vars

\* Time goes on; a process that stays up keeps calling and finishes its calls.
Fairness ==
    /\ WF_vars(Tick)
    /\ \A i \in Instance : WF_vars(TryAcquire(i) \/ CallFails(i))

FairSpec == Spec /\ Fairness

-----------------------------------------------------------------------------
\* Every time stays between its floor and the longest lease.
TypeOK ==
    /\ driver \in Driver
    /\ skew \in [Instance -> 0..Spread]
    /\ holder \in Instance \cup {NoOne, Gone}
    /\ left \in Floor..(Duration + Spread)
    /\ pc \in [Instance -> {"down", "idle", "delete", "insert", "update"}]
    /\ age \in [Instance -> 0..MaxCall]
    /\ answer \in [Instance -> {"none", "won", "lost", "error"}]
    /\ lease \in [Instance -> -1..Duration]

\* i leads: it has won a lease that, by its clock, does not end before the
\* fastest clock in the cluster gets there.
Leads(i) == lease[i] >= Spread

\* At most one instance leads, however the statements of their calls interleave,
\* however slow a call is, and whoever crashes.
OneLeader == \A i, j \in Instance : Leads(i) /\ Leads(j) => i = j

\* A leader's row is in the table, and stays until its lease is over.
LeaderHoldsRow ==
    \A i \in Instance : Leads(i) => holder = i /\ left >= lease[i] + skew[i]

\* "The follow-up UPDATE is the single source of truth for 'do I hold it now'"
\* (leaderlease.go), where RowsAffected counts the rows matched: an instance told that
\* it lost does not hold the row.  On MySQL the same call may have inserted it.
AnswerIsTruth ==
    \A i \in Instance : answer[i] = "lost" /\ holder = i => driver = "changed"

Leader == IF \E i \in Instance : Leads(i) THEN CHOOSE i \in Instance : Leads(i) ELSE NoOne

Leadership == INSTANCE SingleLeader WITH leader <- Leader

\* The three statements implement one leader at a time, handed over only
\* through a time without one.
ImplementsSingleLeader == Leadership!Spec

\* A statement of i returns an error.
StatementFails(i) == CallFails(i) \/ (Insert(i) /\ holder = NoOne /\ holder' = NoOne)

\* i's call finds the row expired.
Expires(i) == Delete(i) /\ holder' # holder

\* Once processes neither start nor end, and the database answers, a job some
\* process is up for has a leader again and again, whoever held the row before.  On
\* MySQL only a renewal wins, so there the holder must also, from some time on, call
\* before its row expires: main.go asks every interval for two intervals.
Takeover ==
    /\ \A i \in Instance : <>[](pc[i] = "down") \/ <>[](pc[i] # "down")
    /\ \E i \in Instance : <>[](pc[i] # "down")
    /\ <>[][\A i \in Instance : ~StatementFails(i)]_vars
    /\ driver = "changed" => <>[][\A i \in Instance : ~Expires(i)]_vars
    => []<>(\E i \in Instance : answer[i] = "won")
=============================================================================
