------------------------------ MODULE PortFifo ------------------------------
(***************************************************************************)
(* The FIFO of oSIP (port_fifo.c), which carries the events of every       *)
(* transaction and the events of eXosip between threads: a list under a    *)
(* mutex, with a semaphore that counts its elements.                       *)
(*                                                                         *)
(* Each thread runs one operation after the other; the operations are cut  *)
(* at every call that may block or that another thread may observe.        *)
(***************************************************************************)
EXTENDS Integers, Sequences, FiniteSets

CONSTANTS
    Threads,    \* the threads that share the FIFO
    MaxAdds,    \* bound: elements added in a run
    NoThread    \* the mutex is free

ASSUME PortFifoAssumption ==
    /\ IsFiniteSet(Threads)
    /\ NoThread \notin Threads
    /\ MaxAdds \in Nat

VARIABLES
    queue,      \* ff->queue; the n-th element added is the number n
    ff_state,   \* ff->state: "osip_empty" or "osip_ok"
    qisempty,   \* the semaphore: elements that may be taken without blocking
    qislocked,  \* the mutex: its owner, or NoThread
    pc,         \* pc[t]: where thread t is
    el,         \* el[t]: the element thread t is taking, 0 if none
    adds,       \* number of elements added so far
    taken       \* the elements handed out so far, in the order they left the list

vars == <<queue, ff_state, qisempty, qislocked, pc, el, adds, taken>>

\* osip_fifo_init
Init ==
    /\ queue = <<>>
    /\ ff_state = "osip_empty"
    /\ qisempty = 0
    /\ qislocked = NoThread
    /\ pc = [t \in Threads |-> "idle"]
    /\ el = [t \in Threads |-> 0]
    /\ adds = 0
    /\ taken = <<>>

Goto(t, from, to) == pc[t] = from /\ pc' = [pc EXCEPT ![t] = to]

-----------------------------------------------------------------------------
(***************************************************************************)
(* osip_fifo_add and osip_fifo_insert: lock, put, post, unlock.            *)
(***************************************************************************)
add_lock(t) ==
    /\ adds < MaxAdds
    /\ qislocked = NoThread
    /\ Goto(t, "idle", "add")
    /\ qislocked' = t
    /\ UNCHANGED <<queue, ff_state, qisempty, el, adds, taken>>

add_put(t) ==
    /\ Goto(t, "add", "post")
    /\ \/ queue' = Append(queue, adds + 1)       \* osip_fifo_add
       \/ queue' = <<adds + 1>> \o queue         \* osip_fifo_insert
    /\ ff_state' = "osip_ok"
    /\ adds' = adds + 1
    /\ UNCHANGED <<qisempty, qislocked, el, taken>>

\* Mutant: the semaphore is posted only when the queue was empty.
add_post_first_only(t) ==
    /\ Goto(t, "post", "unlock")
    /\ qisempty' = IF Len(queue) = 1 THEN qisempty + 1 ELSE qisempty
    /\ UNCHANGED <<queue, ff_state, qislocked, el, adds, taken>>

add_post(t) ==
    /\ Goto(t, "post", "unlock")
    /\ qisempty' = qisempty + 1
    /\ UNCHANGED <<queue, ff_state, qislocked, el, adds, taken>>

-----------------------------------------------------------------------------
(***************************************************************************)
(* osip_fifo_get and osip_fifo_tryget: take one from the semaphore, lock,  *)
(* read the first element, remove it, unlock.  get blocks while the        *)
(* semaphore is 0; tryget returns NULL, which changes nothing.             *)
(***************************************************************************)

\* Mutant: the answer of osip_sem_trywait is not looked at.
get_wait_unchecked(t) ==
    /\ Goto(t, "idle", "granted")
    /\ qisempty' = qisempty - 1
    /\ UNCHANGED <<queue, ff_state, qislocked, el, adds, taken>>

get_wait(t) ==
    /\ qisempty > 0
    /\ Goto(t, "idle", "granted")
    /\ qisempty' = qisempty - 1
    /\ UNCHANGED <<queue, ff_state, qislocked, el, adds, taken>>

\* Mutant: the list is read without the mutex.
get_lock_skipped(t) ==
    /\ Goto(t, "granted", "take")
    /\ UNCHANGED <<queue, ff_state, qisempty, qislocked, el, adds, taken>>

get_lock(t) ==
    /\ qislocked = NoThread
    /\ Goto(t, "granted", "take")
    /\ qislocked' = t
    /\ UNCHANGED <<queue, ff_state, qisempty, el, adds, taken>>

\* osip_list_get, or the branch for an empty list that returns NULL.
get_take(t) ==
    /\ IF ff_state # "osip_empty"
       THEN Goto(t, "take", "remove") /\ el' = [el EXCEPT ![t] = Head(queue)]
       ELSE Goto(t, "take", "unlock") /\ UNCHANGED el
    /\ UNCHANGED <<queue, ff_state, qisempty, qislocked, adds, taken>>

\* Mutant: the list is taken for empty while one element is left.
get_remove_off_by_one(t) ==
    /\ Goto(t, "remove", "unlock")
    /\ queue' = Tail(queue)
    /\ ff_state' = IF Len(queue') <= 1 THEN "osip_empty" ELSE "osip_ok"
    /\ taken' = Append(taken, el[t])
    /\ el' = [el EXCEPT ![t] = 0]
    /\ UNCHANGED <<qisempty, qislocked, adds>>

\* osip_list_remove, and the state of what is left.
get_remove(t) ==
    /\ Goto(t, "remove", "unlock")
    /\ queue' = Tail(queue)
    /\ ff_state' = IF Len(queue') <= 0 THEN "osip_empty" ELSE "osip_ok"
    /\ taken' = Append(taken, el[t])
    /\ el' = [el EXCEPT ![t] = 0]
    /\ UNCHANGED <<qisempty, qislocked, adds>>

unlock(t) ==
    /\ Goto(t, "unlock", "idle")
    /\ qislocked' = NoThread
    /\ UNCHANGED <<queue, ff_state, qisempty, el, adds, taken>>

Next ==
    \E t \in Threads :
        \/ add_lock(t)
        \/ add_put(t)
        \/ add_post(t)
        \/ get_wait(t)
        \/ get_lock(t)
        \/ get_take(t)
        \/ get_remove(t)
        \/ unlock(t)

Spec == Init /\ [][Next]_vars

-----------------------------------------------------------------------------
(***************************************************************************)
(* Properties.                                                             *)
(***************************************************************************)

\* Every variable keeps its type; the semaphore never goes below 0.
TypeOK ==
    /\ queue \in Seq(Nat)
    /\ ff_state \in {"osip_empty", "osip_ok"}
    /\ qisempty \in Nat
    /\ qislocked \in Threads \cup {NoThread}
    /\ pc \in [Threads -> {"idle", "add", "post", "granted", "take", "remove", "unlock"}]
    /\ el \in [Threads -> Nat]
    /\ adds \in Nat
    /\ taken \in Seq(Nat)

At(labels) == {t \in Threads : pc[t] \in labels}

(***************************************************************************)
(* The list and the semaphore are two counts of the same elements, changed *)
(* at different moments: the list holds what the semaphore offers, what it *)
(* has granted and not yet handed out, and what is not yet posted.  So a   *)
(* get does not block while an element nobody has claimed is in the list.  *)
(***************************************************************************)
CountAgrees ==
    Len(queue) = qisempty + Cardinality(At({"granted", "take", "remove"}))
                          + Cardinality(At({"post"}))

(***************************************************************************)
(* A thread that the semaphore has let through finds an element: the       *)
(* branch of osip_fifo_tryget marked "this case MUST never happen" is not  *)
(* reached, with any number of readers and writers.                        *)
(***************************************************************************)
NeverFindsEmpty ==
    \A t \in Threads : pc[t] = "take" => ff_state = "osip_ok" /\ queue # <<>>

(***************************************************************************)
(* Every element added is in the list or was handed out, and only once.    *)
(***************************************************************************)
ExactlyOnce ==
    /\ Len(taken) + Len(queue) = adds
    /\ {taken[i] : i \in 1..Len(taken)} \cup {queue[i] : i \in 1..Len(queue)} = 1..adds

=============================================================================
