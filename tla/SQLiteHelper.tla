---------------------------- MODULE SQLiteHelper ----------------------------
(***************************************************************************)
(* db/SQLiteHelper.java with the way dao/BaseDao.java uses it.  Every      *)
(* method of the helper is synchronized on the helper, and                 *)
(* getReadableDatabase calls Pool.use inside: when use() waits, the pool's *)
(* monitor is released and the helper's is not.                            *)
(* A thread runs one query (beginDQL .. endDQL) or one transaction         *)
(* (beginDMLOnTransaction .. endDMLOffTransaction) at a time; no query of  *)
(* the dao package runs another inside it.  The single writable            *)
(* connection is opened by the helper's constructor, so getWritableDatabase*)
(* only hands it out; beginTransaction blocks while another thread is in a *)
(* transaction.  close() is left out: the app never calls it.              *)
(***************************************************************************)
EXTENDS Naturals

CONSTANTS Threads, MaxSize, Spurious   \* as in Pool

ASSUME HelperAssumption == MaxSize \in Nat /\ Spurious \in BOOLEAN

VARIABLES lists, sets, pc, got   \* the pool

VARIABLES
  monitor,   \* the thread that sleeps in wait() owning the helper, {} if none
  task,      \* what each thread does: see Tasks
  writer     \* the thread in a transaction on the writable connection, {}

poolVars == <<lists, sets, pc, got>>
vars == <<lists, sets, pc, got, monitor, task, writer>>

P == INSTANCE Pool

\* beginDQL, beginDML: blocked at the entry of the helper's method;
\* beginTx: has the writable connection, blocked in beginTransaction().
Tasks == {"idle", "beginDQL", "query", "beginDML", "beginTx", "transaction"}

TypeOK ==
    /\ P!TypeOK
    /\ monitor \in {{}} \cup {{t} : t \in Threads}
    /\ task \in [Threads -> Tasks]
    /\ writer \in {{}} \cup {{t} : t \in Threads}

Init ==
    /\ P!Init
    /\ monitor = {}
    /\ task = [t \in Threads |-> "idle"]
    /\ writer = {}
-----------------------------------------------------------------------------
Become(t, s) == task' = [task EXCEPT ![t] = s]

\* A synchronized method can be entered.  EnterAnyway is a mutant.
EnterAnyway == TRUE
Enter == monitor = {}

Call(t) ==
    /\ task[t] = "idle"
    /\ Become(t, "beginDQL") \/ Become(t, "beginDML")
    /\ UNCHANGED <<poolVars, monitor, writer>>

getReadableDatabase(t) ==
    /\ task[t] = "beginDQL" /\ Enter
    /\ P!UseFree(t) \/ P!UseCreate(t)
    /\ Become(t, "query")
    /\ UNCHANGED <<monitor, writer>>

\* Opening one more connection throws: beginDQL throws before its try block.
getReadableDatabaseFails(t) ==
    /\ task[t] = "beginDQL" /\ Enter
    /\ P!UseCreateFails(t)
    /\ Become(t, "idle")
    /\ UNCHANGED <<monitor, writer>>

\* Sleeping in Pool.use keeps the helper.  KeepNoMonitor is a mutant.
KeepNoMonitor(t) == UNCHANGED monitor
KeepMonitor(t) == monitor' = {t}

getReadableDatabaseWaits(t) ==
    /\ task[t] = "beginDQL" /\ Enter
    /\ P!UseWait(t)
    /\ KeepMonitor(t)
    /\ UNCHANGED <<task, writer>>

SpuriousWakeup(t) ==
    /\ P!SpuriousWakeup(t)
    /\ UNCHANGED <<monitor, task, writer>>

getReadableDatabaseResumes(t) ==
    /\ P!ResumeFree(t) \/ P!ResumeNull(t)
    /\ monitor' = monitor \ {t}
    /\ Become(t, "query")
    /\ UNCHANGED writer

\* endDQL -> releaseReadableDatabase -> unuse, from the finally of the query
\* (a query that got null throws inside its try and lands here too).
releaseReadableDatabase(t) ==
    /\ task[t] = "query" /\ Enter
    /\ P!Unuse(t)
    /\ Become(t, "idle")
    /\ UNCHANGED <<monitor, writer>>

getWritableDatabase(t) ==
    /\ task[t] = "beginDML" /\ Enter
    /\ Become(t, "beginTx")
    /\ UNCHANGED <<poolVars, monitor, writer>>

beginTransaction(t) ==
    /\ task[t] = "beginTx" /\ writer = {}
    /\ writer' = {t}
    /\ Become(t, "transaction")
    /\ UNCHANGED <<poolVars, monitor>>

\* endTransaction uses the connection only, not the helper.  KeepWriter is
\* a mutant: an exit path that misses endDMLOffTransaction.
KeepWriter == UNCHANGED writer
DropWriter == writer' = {}

endDMLOffTransaction(t) ==
    /\ task[t] = "transaction"
    /\ DropWriter
    /\ Become(t, "idle")
    /\ UNCHANGED <<poolVars, monitor>>

Work(t) ==
    \/ getReadableDatabase(t) \/ getReadableDatabaseWaits(t)
    \/ getReadableDatabaseResumes(t) \/ releaseReadableDatabase(t)
    \/ getWritableDatabase(t) \/ endDMLOffTransaction(t)

Next == \E t \in Threads :
    Call(t) \/ getReadableDatabaseFails(t) \/ SpuriousWakeup(t)
    \/ Work(t) \/ beginTransaction(t)

Spec == Init /\ [][Next]_vars

\* Threads keep running; SpuriousWakeup is not counted on.  SQLite serves the
\* threads that ask for the writable connection in the order they asked, hence
\* strong fairness.
Fairness == \A t \in Threads :
    WF_vars(Work(t)) /\ SF_vars(beginTransaction(t))

FairSpec == Spec /\ Fairness
-----------------------------------------------------------------------------
\* Whoever sleeps in wait() owns the helper and every connection is lent to
\* another thread that is in the middle of a query (SQLiteHelper.java:179,261).
MonitorOwnerWaits ==
    \A t \in Threads :
        /\ t \in monitor <=> pc[t] \in {"waiting", "woken"}
        /\ t \in monitor => task[t] = "beginDQL" /\ sets = 1..(MaxSize + 1)

\* A connection leaves the pool only for a thread inside a query, and two
\* threads never query on the same one (BaseDao.java:41-52).
QueriesAreExclusive ==
    \A t, u \in Threads :
        /\ got[t] # 0 => task[t] = "query"
        /\ t # u /\ got[t] # 0 => got[t] # got[u]

\* A thread asleep in wait() is never woken by a connection given back:
\* nobody can enter releaseReadableDatabase (SQLiteHelper.java:273-276).
NeverWokenByRelease ==
    [][\A t \in Threads :
         pc[t] = "waiting" /\ pc'[t] # "waiting" => UNCHANGED sets]_vars

\* While a thread sleeps in wait() the whole database stands still for
\* readers: no query begins, none ends, no connection moves; only a
\* transaction that already runs can finish (SQLiteHelper.java:74,179,273).
LockoutFreezesQueries ==
    [][monitor # {} /\ monitor' = monitor =>
         /\ UNCHANGED <<lists, sets, got>>
         /\ \A t \in Threads : (task[t] = "query") = (task'[t] = "query")]_vars

\* With no more threads than connections nobody ever sleeps in wait(), so the
\* helper's monitor is never kept (the instance has MaxSize + 1 threads).
NobodyWaits == monitor = {}

\* Liveness for as many threads as there may be connections: a query that
\* was begun is served, or its connection fails to open, and a transaction
\* that was begun commits (SQLiteHelper.java:73,178).
QueryServed ==
    \A t \in Threads : task[t] = "beginDQL" ~> task[t] \in {"query", "idle"}
TransactionServed ==
    \A t \in Threads : task[t] = "beginDML" ~> task[t] = "idle"

\* "call releaseReadableDatabase() when something is done"
\* (SQLiteHelper.java:178): a query that is done gives its connection back.
ReleaseReturns ==
    \A t \in Threads : task[t] = "query" ~> task[t] = "idle"

\* Seen from the queries, the helper lends out a stock of MaxSize + 1
\* connections.
Lends == P!Lends
=============================================================================
