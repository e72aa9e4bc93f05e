------------------------------- MODULE ByLock -------------------------------
(***************************************************************************)
(* The OPA_* calls of src/src/primitives/opa_by_lock.h: one critical       *)
(* section each, under a pthread mutex in shared memory that processes     *)
(* attach to with OPA_Interprocess_lock_init of opa_primitives.c.          *)
(*                                                                         *)
(* What the header asks of its clients: every process calls it exactly     *)
(* once, and one of them as the leader.  What its answer is for: a process *)
(* makes OPA_* calls only once its own call has returned 0.  Nobody waits  *)
(* for the others: a process that is not the leader gets 0 at once, before *)
(* the mutex is initialised, or when it never is.                          *)
(*                                                                         *)
(* A mutex that is not initialised excludes nobody: the shared memory is   *)
(* zero (a free mutex), pthread_mutex_lock returns an error that the macro *)
(* ignores, or it never returns.  And the leader's pthread_mutex_init      *)
(* frees it, whoever has locked it before.                                 *)
(***************************************************************************)
EXTENDS MachineInts

CONSTANTS Threads,    \* one thread of each process
          Leader,     \* the process that calls with isLeader = 1
          Nobody,     \* the owner of a free mutex
          CallSet,    \* the calls that threads make
          MaxCalls    \* how many calls each thread makes

ASSUME ByLockAssumption == /\ Leader \in Threads
                           /\ Nobody \notin Threads
                           /\ CallSet \subseteq CallRecords
                           /\ MaxCalls \in Nat

VARIABLES
    attached,         \* the processes whose OPA_emulation_lock is set
    answer,           \* what their lock_init has returned, or "none"
    mutexReady,       \* whether pthread_mutex_init has succeeded
    owner,            \* the thread that holds the mutex
    v,                \* the cell
    pc, req,
    local,            \* prev, retval or new_val
    calls,            \* calls made by each thread
    hasty,            \* history: the threads that have made a call before
                      \* the leader had got 0
    unguarded         \* history: the threads that have entered a critical
                      \* section while the mutex was not initialised

lockVars == <<attached, answer, mutexReady>>
history == <<hasty, unguarded>>
vars == <<lockVars, owner, v, pc, req, local, calls, history>>

Init == /\ attached = {}
        /\ answer = [t \in Threads |-> "none"]
        /\ mutexReady = FALSE
        /\ owner = Nobody
        /\ v = 0
        /\ pc = [t \in Threads |-> "idle"]
        /\ req = [t \in Threads |-> NoCall]
        /\ local = [t \in Threads |-> 0]
        /\ calls = [t \in Threads |-> 0]
        /\ hasty = {} /\ unguarded = {}

-----------------------------------------------------------------------------
(* OPA_Interprocess_lock_init.                                             *)

(* Mutant: isLeader is not looked at, every process initialises the mutex. *)
LockInitCallAll(t) ==
    /\ answer[t] = "none"
    /\ t \notin attached
    /\ attached' = attached \cup {t}
    /\ IF t = Leader
         THEN UNCHANGED <<answer, mutexReady, owner>>
         ELSE /\ answer' = [answer EXCEPT ![t] = "ok"]
              /\ mutexReady' = TRUE /\ owner' = Nobody
    /\ UNCHANGED <<v, pc, req, local, calls, history>>

LockInitCall(t) ==
    /\ answer[t] = "none"
    /\ t \notin attached
    /\ attached' = attached \cup {t}
    /\ answer' = [answer EXCEPT ![t] = IF t = Leader THEN "none" ELSE "ok"]
    /\ UNCHANGED <<mutexReady, owner, v, pc, req, local, calls, history>>

(* Mutant: a failure of mutexattr_init, setpshared or mutex_init is not    *)
(* reported.                                                               *)
LeaderInitSilent(t) ==
    /\ t = Leader /\ t \in attached /\ answer[t] = "none"
    /\ mutexReady' \in BOOLEAN
    /\ owner' = IF mutexReady' THEN Nobody ELSE owner
    /\ answer' = [answer EXCEPT ![t] = "ok"]
    /\ UNCHANGED <<attached, v, pc, req, local, calls, history>>

(* Each of the three pthread calls may fail; the mutex is usable only if   *)
(* all have succeeded.                                                     *)
LeaderInit(t) ==
    /\ t = Leader /\ t \in attached /\ answer[t] = "none"
    /\ mutexReady' \in BOOLEAN
    /\ owner' = IF mutexReady' THEN Nobody ELSE owner
    /\ answer' = [answer EXCEPT ![t] = IF mutexReady' THEN "ok" ELSE "error"]
    /\ UNCHANGED <<attached, v, pc, req, local, calls, history>>

-----------------------------------------------------------------------------
(* The OPA_* calls.                                                        *)

Invoke(t, r) ==
    /\ answer[t] = "ok"
    /\ pc[t] = "idle"
    /\ calls[t] < MaxCalls
    /\ calls' = [calls EXCEPT ![t] = @ + 1]
    /\ req' = [req EXCEPT ![t] = r]
    /\ pc' = [pc EXCEPT ![t] = "enter"]
    /\ hasty' = IF answer[Leader] = "ok" THEN hasty ELSE hasty \cup {t}
    /\ UNCHANGED <<lockVars, owner, v, local, unguarded>>

(* OPA_IPC_SINGLE_CS_ENTER; the assertion in it is compiled out, and would *)
(* not notice a mutex that is set but not initialised.                     *)
Enter(t) ==
    /\ pc[t] = "enter"
    /\ mutexReady => owner = Nobody
    /\ owner' = t
    /\ unguarded' = IF mutexReady THEN unguarded ELSE unguarded \cup {t}
    /\ pc' = [pc EXCEPT ![t] = "read"]
    /\ UNCHANGED <<lockVars, v, req, local, calls, hasty>>

(* prev = ptr->v                                                           *)
Read(t) ==
    /\ pc[t] = "read"
    /\ local' = [local EXCEPT ![t] = v]
    /\ pc' = [pc EXCEPT ![t] = "write"]
    /\ UNCHANGED <<lockVars, owner, v, req, calls, history>>

(* The value the critical section stores, after it has read x.             *)
Stored(r, x) ==
    CASE r.op \in {"add", "fetch_and_add"} -> Wrap(x + r.val)
      [] r.op \in {"incr", "fetch_and_incr"} -> Wrap(x + 1)
      [] r.op \in {"decr", "fetch_and_decr", "decr_and_test"} -> Wrap(x - 1)
      [] OTHER -> r.val

(* Mutant: new_val = (ptr->v)-- in decr_and_test.                          *)
WritePostDecrement(t) ==
    /\ pc[t] = "write"
    /\ LET r == req[t]
           stores == r.op # "load" /\ (r.op = "cas" => local[t] = r.oldv)
       IN v' = IF stores THEN Stored(r, local[t]) ELSE v
    /\ pc' = [pc EXCEPT ![t] = "exit"]
    /\ UNCHANGED <<lockVars, owner, req, local, calls, history>>

(* ptr->v = ...; a load, or a cas that has read another value, does not    *)
(* store.  decr_and_test keeps the new value.                              *)
Write(t) ==
    /\ pc[t] = "write"
    /\ LET r == req[t]
           stores == r.op # "load" /\ (r.op = "cas" => local[t] = r.oldv)
       IN /\ v' = IF stores THEN Stored(r, local[t]) ELSE v
          /\ local' = IF r.op = "decr_and_test" THEN [local EXCEPT ![t] = v'] ELSE local
    /\ pc' = [pc EXCEPT ![t] = "exit"]
    /\ UNCHANGED <<lockVars, owner, req, calls, history>>

(* OPA_IPC_SINGLE_CS_EXIT; pthread_mutex_unlock frees a plain mutex,       *)
(* whoever holds it.                                                       *)
Exit(t) ==
    /\ pc[t] = "exit"
    /\ owner' = Nobody
    /\ pc' = [pc EXCEPT ![t] = "return"]
    /\ UNCHANGED <<lockVars, v, req, local, calls, history>>

Return(t) ==
    /\ pc[t] = "return"
    /\ pc' = [pc EXCEPT ![t] = "idle"]
    /\ req' = [req EXCEPT ![t] = NoCall]
    /\ local' = [local EXCEPT ![t] = 0]
    /\ UNCHANGED <<lockVars, owner, v, calls, history>>

Step(t) == Enter(t) \/ Read(t) \/ Write(t) \/ Exit(t) \/ Return(t)

Next == \E t \in Threads : \/ LockInitCall(t)
                           \/ LeaderInit(t)
                           \/ \E r \in CallSet : Invoke(t, r)
                           \/ Step(t)

Spec == Init /\ [][Next]_vars

-----------------------------------------------------------------------------
InSection(t) == pc[t] \in {"read", "write", "exit"}

(* Who may find a mutex that is not initialised: only a process that did   *)
(* not wait until the leader had got 0.  To wait for that is enough,       *)
(* whether or not the other processes have attached, and never the leader: *)
(* it gets 0 only when all three pthread calls have succeeded.             *)
OnlyHastyUnguarded == unguarded \subseteq hasty

(* As long as nobody has entered through a mutex that is not initialised,  *)
(* at most one thread is in a critical section and it holds the mutex,     *)
(* while other processes attach to it: that they do not initialise it      *)
(* again is why isLeader is true for one.                                  *)
SectionsExclude ==
    unguarded = {} =>
        \A t \in Threads : InSection(t) =>
            /\ t \in attached /\ mutexReady /\ owner = t
            /\ \A u \in Threads \ {t} : ~InSection(u)

(* A call takes effect at its store.                                       *)
res == [t \in Threads |->
          IF pc[t] \notin {"exit", "return"} THEN 0
          ELSE CASE req[t].op = "decr_and_test" -> IF local[t] = 0 THEN 1 ELSE 0
                 [] req[t].op \in {"store", "add", "incr", "decr"} -> 0
                 [] OTHER -> local[t]]

stage == [t \in Threads |-> CASE pc[t] = "idle" -> "idle"
                              [] pc[t] \in {"exit", "return"} -> "done"
                              [] OTHER -> "called"]

Atomic == INSTANCE AtomicOps
            WITH Half <- Half, Threads <- Threads,
                 v <- v, stage <- stage, req <- req, res <- res

(* "The exact semantics of our OPA_* ops": the read and the store of one   *)
(* call have no other call between them, as long as nobody has entered     *)
(* through a mutex that is not initialised.                                *)
SectionsAreAtomic ==
    Atomic!Init /\ [][unguarded' = {} => [Atomic!Next]_(Atomic!vars)]_vars
=============================================================================
