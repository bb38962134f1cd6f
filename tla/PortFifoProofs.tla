--------------------------- MODULE PortFifoProofs ---------------------------
(***************************************************************************)
(* Proofs about the FIFO, for every finite set of threads and any number   *)
(* of elements.                                                            *)
(***************************************************************************)
EXTENDS PortFifo, FiniteSetTheorems, TLAPS

\* The labels of a thread, and those at which it owns the mutex.
Labels == {"idle", "add", "post", "granted", "take", "remove", "unlock"}
Inside == {"add", "post", "take", "remove", "unlock"}

\* The mutex belongs to the one thread that is inside.
MutexHeld == \A t \in Threads : pc[t] \in Inside <=> qislocked = t

\* The flag and the list say the same.
StateAgrees == ff_state = "osip_ok" <=> queue # <<>>

\* What a thread has read and not yet removed is still the first element.
ReadsFirst == \A t \in Threads : pc[t] = "remove" => el[t] = Head(queue)

IInv == TypeOK /\ MutexHeld /\ StateAgrees /\ CountAgrees /\ ReadsFirst /\ ExactlyOnce

\* The threads the semaphore has let through, and those about to post it.
Claims == At({"granted", "take", "remove"})
Posts == At({"post"})

-----------------------------------------------------------------------------
(***************************************************************************)
(* Counting threads: one thread moves, so each count changes by one at     *)
(* most.                                                                   *)
(***************************************************************************)
LEMMA AtIsFinite ==
    ASSUME NEW labels
    PROVE  IsFiniteSet(At(labels)) /\ Cardinality(At(labels)) \in Nat
<1>1. At(labels) \subseteq Threads
  BY DEF At
<1>2. IsFiniteSet(At(labels))
  BY <1>1, FS_Subset, PortFifoAssumption
<1> QED BY <1>2, FS_CardinalityType

\* A thread that enters a set of labels adds one to its count.
LEMMA AtEnters ==
    ASSUME NEW labels, NEW t \in Threads, NEW to,
           pc \in [Threads -> Labels], pc' = [pc EXCEPT ![t] = to],
           pc[t] \notin labels, to \in labels
    PROVE  Cardinality(At(labels)') = Cardinality(At(labels)) + 1
<1>1. At(labels)' = At(labels) \cup {t} /\ t \notin At(labels)
  BY DEF At
<1> QED BY <1>1, AtIsFinite, FS_AddElement

\* A thread that leaves a set of labels takes one from its count.
LEMMA AtLeaves ==
    ASSUME NEW labels, NEW t \in Threads, NEW to,
           pc \in [Threads -> Labels], pc' = [pc EXCEPT ![t] = to],
           pc[t] \in labels, to \notin labels
    PROVE  Cardinality(At(labels)') = Cardinality(At(labels)) - 1
<1>1. At(labels)' = At(labels) \ {t} /\ t \in At(labels)
  BY DEF At
<1> QED BY <1>1, AtIsFinite, FS_RemoveElement

\* A thread that stays in or out of a set of labels does not change its count.
LEMMA AtStays ==
    ASSUME NEW labels, NEW t \in Threads, NEW to,
           pc \in [Threads -> Labels], pc' = [pc EXCEPT ![t] = to],
           pc[t] \in labels <=> to \in labels
    PROVE  At(labels)' = At(labels)
BY DEF At

\* A thread at one of the labels makes the count positive.
LEMMA AtPositive ==
    ASSUME NEW labels, NEW t \in Threads, pc[t] \in labels
    PROVE  Cardinality(At(labels)) >= 1
<1>1. t \in At(labels)
  BY DEF At
<1>2. Cardinality(At(labels)) # 0
  BY <1>1, AtIsFinite, FS_EmptySet
<1> QED BY <1>2, AtIsFinite

-----------------------------------------------------------------------------
(***************************************************************************)
(* The elements of a list.                                                 *)
(***************************************************************************)
Elements(s) == {s[i] : i \in 1..Len(s)}

LEMMA ElementsAppend ==
    ASSUME NEW s \in Seq(Nat), NEW e \in Nat
    PROVE  /\ Append(s, e) \in Seq(Nat) /\ Len(Append(s, e)) = Len(s) + 1
           /\ Append(s, e) # <<>>
           /\ Elements(Append(s, e)) = Elements(s) \cup {e}
<1>1. /\ Append(s, e) \in Seq(Nat) /\ Len(s) \in Nat /\ Len(Append(s, e)) = Len(s) + 1
      /\ Append(s, e)[Len(s) + 1] = e /\ \A i \in 1..Len(s) : Append(s, e)[i] = s[i]
  OBVIOUS
<1>2. 1..(Len(s) + 1) = 1..Len(s) \cup {Len(s) + 1}
  BY <1>1
<1> QED BY <1>1, <1>2 DEF Elements

LEMMA ElementsInsert ==
    ASSUME NEW s \in Seq(Nat), NEW e \in Nat
    PROVE  /\ <<e>> \o s \in Seq(Nat) /\ Len(<<e>> \o s) = Len(s) + 1
           /\ <<e>> \o s # <<>>
           /\ Elements(<<e>> \o s) = Elements(s) \cup {e}
<1> DEFINE q == <<e>> \o s
<1>1. /\ q \in Seq(Nat) /\ Len(s) \in Nat /\ Len(q) = Len(s) + 1
      /\ q[1] = e /\ \A i \in 1..Len(s) : q[i + 1] = s[i]
  OBVIOUS
<1>2. ASSUME NEW x \in Elements(q) PROVE x \in Elements(s) \cup {e}
  <2>1. PICK i \in 1..Len(q) : x = q[i]
    BY <1>2 DEF Elements
  <2>2. CASE i = 1
    BY <1>1, <2>1, <2>2
  <2>3. CASE i # 1
    <3>1. i - 1 \in 1..Len(s) /\ (i - 1) + 1 = i
      BY <1>1, <2>1, <2>3
    <3>2. q[(i - 1) + 1] = s[i - 1]
      BY <1>1, <3>1
    <3> QED BY <2>1, <3>1, <3>2 DEF Elements
  <2> QED BY <2>2, <2>3
<1>3. ASSUME NEW x \in Elements(s) \cup {e} PROVE x \in Elements(q)
  <2>1. CASE x = e
    <3>1. 1 \in 1..Len(q)
      BY <1>1
    <3> QED BY <1>1, <2>1, <3>1 DEF Elements
  <2>2. CASE x \in Elements(s)
    <3>1. PICK i \in 1..Len(s) : x = s[i]
      BY <2>2 DEF Elements
    <3>2. i + 1 \in 1..Len(q) /\ q[i + 1] = x
      BY <1>1, <3>1
    <3> QED BY <3>2 DEF Elements
  <2> QED BY <1>3, <2>1, <2>2
<1>4. q # <<>>
  BY <1>1
<1> HIDE DEF q
<1>5. Elements(q) = Elements(s) \cup {e}
  BY <1>2, <1>3
<1> QED BY <1>1, <1>4, <1>5 DEF q

LEMMA ElementsTail ==
    ASSUME NEW s \in Seq(Nat), s # <<>>
    PROVE  /\ Head(s) \in Nat /\ Tail(s) \in Seq(Nat) /\ Len(Tail(s)) = Len(s) - 1
           /\ Len(s) \in Nat \ {0}
           /\ Elements(s) = Elements(Tail(s)) \cup {Head(s)}
<1>1. /\ Head(s) \in Nat /\ Tail(s) \in Seq(Nat) /\ Len(Tail(s)) = Len(s) - 1
      /\ Len(s) \in Nat \ {0} /\ Head(s) = s[1]
      /\ \A i \in 1..Len(Tail(s)) : Tail(s)[i] = s[i + 1]
  OBVIOUS
<1>2. ASSUME NEW x \in Elements(s) PROVE x \in Elements(Tail(s)) \cup {Head(s)}
  <2>1. PICK i \in 1..Len(s) : x = s[i]
    BY <1>2 DEF Elements
  <2>2. CASE i = 1
    BY <1>1, <2>1, <2>2
  <2>3. CASE i # 1
    <3>1. i - 1 \in 1..Len(Tail(s)) /\ (i - 1) + 1 = i
      BY <1>1, <2>1, <2>3
    <3>2. Tail(s)[i - 1] = s[(i - 1) + 1]
      BY <1>1, <3>1
    <3> QED BY <2>1, <3>1, <3>2 DEF Elements
  <2> QED BY <2>2, <2>3
<1>3. ASSUME NEW x \in Elements(Tail(s)) \cup {Head(s)} PROVE x \in Elements(s)
  <2>1. CASE x = Head(s)
    <3>1. 1 \in 1..Len(s)
      BY <1>1
    <3> QED BY <1>1, <2>1, <3>1 DEF Elements
  <2>2. CASE x \in Elements(Tail(s))
    <3>1. PICK i \in 1..Len(Tail(s)) : x = Tail(s)[i]
      BY <2>2 DEF Elements
    <3>2. i + 1 \in 1..Len(s) /\ s[i + 1] = x
      BY <1>1, <3>1
    <3> QED BY <3>2 DEF Elements
  <2> QED BY <1>3, <2>1, <2>2
<1> QED BY <1>1, <1>2, <1>3

-----------------------------------------------------------------------------
\* ExactlyOnce, in terms of Elements.
LEMMA OnceElements ==
    ExactlyOnce <=> /\ Len(taken) + Len(queue) = adds
                    /\ Elements(taken) \cup Elements(queue) = 1..adds
BY DEF ExactlyOnce, Elements

\* The list is not empty while a thread the semaphore let through is inside.
LEMMA ClaimFindsElement ==
    ASSUME TypeOK, CountAgrees, NEW t \in Threads, pc[t] \in {"granted", "take", "remove"}
    PROVE  queue # <<>>
<1>1. Cardinality(Claims) >= 1 /\ Cardinality(Claims) \in Nat /\ Cardinality(Posts) \in Nat
  BY AtPositive, AtIsFinite DEF Claims, Posts
<1>2. Len(queue) >= 1
  BY <1>1 DEF CountAgrees, Claims, Posts, TypeOK
<1> QED BY <1>2

\* Initially the list and the semaphore are empty, and every thread is idle.
LEMMA InitIInv == Init => IInv
<1> SUFFICES ASSUME Init PROVE IInv
  OBVIOUS
<1> USE DEF Init
<1>1. TypeOK
  BY DEF TypeOK
<1>2. MutexHeld
  BY PortFifoAssumption DEF MutexHeld, Inside
<1>3. StateAgrees /\ ReadsFirst
  BY DEF StateAgrees, ReadsFirst
<1>4. CountAgrees
  <2>1. At({"granted", "take", "remove"}) = {} /\ At({"post"}) = {}
    BY DEF At
  <2>2. Cardinality({}) = 0 /\ Len(queue) = 0
    BY FS_EmptySet
  <2>3. Cardinality(At({"granted", "take", "remove"})) = 0 /\ Cardinality(At({"post"})) = 0
    BY <2>1, <2>2, Zenon
  <2> HIDE DEF Init
  <2>4. qisempty = 0
    BY DEF Init
  <2> QED BY <2>2, <2>3, <2>4 DEF CountAgrees
<1>5. ExactlyOnce
  BY DEF ExactlyOnce
<1> QED BY <1>1, <1>2, <1>3, <1>4, <1>5 DEF IInv

\* Every step preserves the inductive invariant.
LEMMA NextIInv == IInv /\ [Next]_vars => IInv'
<1> SUFFICES ASSUME IInv, [Next]_vars PROVE IInv'
  OBVIOUS
<1>a. TypeOK /\ MutexHeld /\ StateAgrees /\ CountAgrees /\ ReadsFirst /\ ExactlyOnce
  BY DEF IInv
<1>b. pc \in [Threads -> Labels]
  BY <1>a DEF TypeOK, Labels
<1>c. /\ Len(queue) \in Nat /\ qisempty \in Nat
      /\ Cardinality(Claims) \in Nat /\ Cardinality(Posts) \in Nat
      /\ Len(queue) = qisempty + Cardinality(Claims) + Cardinality(Posts)
  BY <1>a, AtIsFinite DEF TypeOK, CountAgrees, Claims, Posts
<1>d. CountAgrees' <=>
          Len(queue') = qisempty' + Cardinality(Claims') + Cardinality(Posts')
  BY DEF CountAgrees, Claims, Posts
<1>e. NoThread \notin Threads
  BY PortFifoAssumption
<1> USE <1>a, <1>b, <1>e
<1>1. ASSUME NEW t \in Threads, add_lock(t) PROVE IInv'
  <2> USE <1>1 DEF add_lock, Goto
  <2>1. TypeOK'
    BY DEF TypeOK
  <2>2. MutexHeld'
    BY DEF MutexHeld, Inside, TypeOK
  <2>3. StateAgrees' /\ ReadsFirst'
    BY DEF StateAgrees, ReadsFirst, TypeOK
  <2>4. CountAgrees'
    <3>1. Claims' = Claims /\ Posts' = Posts
      BY AtStays DEF Claims, Posts
    <3> QED BY <1>c, <1>d, <3>1
  <2>5. ExactlyOnce'
    BY DEF ExactlyOnce
  <2> QED BY <2>1, <2>2, <2>3, <2>4, <2>5 DEF IInv
<1>2. ASSUME NEW t \in Threads, add_put(t) PROVE IInv'
  <2> USE <1>2 DEF add_put, Goto
  <2>a. queue \in Seq(Nat) /\ taken \in Seq(Nat) /\ adds \in Nat /\ adds + 1 \in Nat
    BY DEF TypeOK
  <2>b. /\ queue' \in Seq(Nat) /\ Len(queue') = Len(queue) + 1 /\ queue' # <<>>
        /\ Elements(queue') = Elements(queue) \cup {adds + 1}
    BY <2>a, ElementsAppend, ElementsInsert
  <2>1. TypeOK'
    BY <2>a, <2>b DEF TypeOK
  <2>2. MutexHeld'
    BY DEF MutexHeld, Inside, TypeOK
  <2>3. StateAgrees'
    BY <2>b DEF StateAgrees
  <2>4. ReadsFirst'
    BY DEF ReadsFirst, MutexHeld, Inside, TypeOK
  <2>5. CountAgrees'
    <3>1. Claims' = Claims
      BY AtStays DEF Claims
    <3>2. Cardinality(Posts') = Cardinality(Posts) + 1
      BY AtEnters DEF Posts
    <3> QED BY <1>c, <1>d, <2>b, <3>1, <3>2
  <2>6. ExactlyOnce'
    <3>1. 1..(adds + 1) = 1..adds \cup {adds + 1}
      BY <2>a
    <3>2. Elements(taken) \cup Elements(queue) = 1..adds /\ Len(taken) + Len(queue) = adds
      BY OnceElements
    <3>3. adds' = adds + 1 /\ taken' = taken
      OBVIOUS
    <3>4. Elements(taken') \cup Elements(queue') = 1..adds'
      BY <2>b, <3>1, <3>2, <3>3
    <3>5. Len(taken) \in Nat /\ Len(queue) \in Nat
      BY <2>a
    <3>6. Len(taken') + Len(queue') = adds'
      BY <2>b, <3>2, <3>3, <3>5
    <3> QED BY <3>4, <3>6 DEF ExactlyOnce, Elements
  <2> QED BY <2>1, <2>2, <2>3, <2>4, <2>5, <2>6 DEF IInv
<1>3. ASSUME NEW t \in Threads, add_post(t) PROVE IInv'
  <2> USE <1>3 DEF add_post, Goto
  <2>1. TypeOK'
    BY DEF TypeOK
  <2>2. MutexHeld'
    BY DEF MutexHeld, Inside, TypeOK
  <2>3. StateAgrees' /\ ReadsFirst'
    BY DEF StateAgrees, ReadsFirst, TypeOK
  <2>4. CountAgrees'
    <3>1. Claims' = Claims
      BY AtStays DEF Claims
    <3>2. pc[t] \in {"post"} /\ "unlock" \notin {"post"} /\ pc' = [pc EXCEPT ![t] = "unlock"]
      OBVIOUS
    <3>3. Cardinality(Posts') = Cardinality(Posts) - 1
      BY <3>2, AtLeaves DEF Posts
    <3> QED BY <1>c, <1>d, <3>1, <3>3
  <2>5. ExactlyOnce'
    BY DEF ExactlyOnce
  <2> QED BY <2>1, <2>2, <2>3, <2>4, <2>5 DEF IInv
<1>4. ASSUME NEW t \in Threads, get_wait(t) PROVE IInv'
  <2> USE <1>4 DEF get_wait, Goto
  <2>1. TypeOK'
    BY DEF TypeOK
  <2>2. MutexHeld'
    BY DEF MutexHeld, Inside, TypeOK
  <2>3. StateAgrees' /\ ReadsFirst'
    BY DEF StateAgrees, ReadsFirst, TypeOK
  <2>4. CountAgrees'
    <3>1. Cardinality(Claims') = Cardinality(Claims) + 1
      BY AtEnters DEF Claims
    <3>2. Posts' = Posts
      BY AtStays DEF Posts
    <3> QED BY <1>c, <1>d, <3>1, <3>2
  <2>5. ExactlyOnce'
    BY DEF ExactlyOnce
  <2> QED BY <2>1, <2>2, <2>3, <2>4, <2>5 DEF IInv
<1>5. ASSUME NEW t \in Threads, get_lock(t) PROVE IInv'
  <2> USE <1>5 DEF get_lock, Goto
  <2>1. TypeOK'
    BY DEF TypeOK
  <2>2. MutexHeld'
    BY DEF MutexHeld, Inside, TypeOK
  <2>3. StateAgrees' /\ ReadsFirst'
    BY DEF StateAgrees, ReadsFirst, TypeOK
  <2>4. CountAgrees'
    <3>1. Claims' = Claims /\ Posts' = Posts
      BY AtStays DEF Claims, Posts
    <3> QED BY <1>c, <1>d, <3>1
  <2>5. ExactlyOnce'
    BY DEF ExactlyOnce
  <2> QED BY <2>1, <2>2, <2>3, <2>4, <2>5 DEF IInv
<1>6. ASSUME NEW t \in Threads, get_take(t) PROVE IInv'
  <2> USE <1>6 DEF get_take, Goto
  <2>a. queue # <<>> /\ pc[t] = "take"
    BY ClaimFindsElement
  <2>b. ff_state = "osip_ok"
    BY <2>a DEF StateAgrees
  <2>c. /\ pc' = [pc EXCEPT ![t] = "remove"] /\ el' = [el EXCEPT ![t] = Head(queue)]
        /\ UNCHANGED <<queue, ff_state, qisempty, qislocked, adds, taken>>
    BY <2>b
  <2>d. Head(queue) \in Nat
    BY <2>a, ElementsTail DEF TypeOK
  <2>1. TypeOK'
    BY <2>c, <2>d DEF TypeOK
  <2>2. MutexHeld'
    BY <2>a, <2>c DEF MutexHeld, Inside, TypeOK
  <2>3. StateAgrees'
    BY <2>c DEF StateAgrees
  <2>4. ReadsFirst'
    BY <2>c DEF ReadsFirst, TypeOK
  <2>5. CountAgrees'
    <3>1. Claims' = Claims /\ Posts' = Posts
      BY <2>a, <2>c, AtStays DEF Claims, Posts
    <3> QED BY <1>c, <1>d, <2>c, <3>1
  <2>6. ExactlyOnce'
    BY <2>c DEF ExactlyOnce
  <2> QED BY <2>1, <2>2, <2>3, <2>4, <2>5, <2>6 DEF IInv
<1>7. ASSUME NEW t \in Threads, get_remove(t) PROVE IInv'
  <2> USE <1>7 DEF get_remove, Goto
  <2>a. queue # <<>> /\ el[t] = Head(queue) /\ queue \in Seq(Nat) /\ taken \in Seq(Nat)
    BY ClaimFindsElement DEF ReadsFirst, TypeOK
  <2>b. /\ Head(queue) \in Nat /\ queue' \in Seq(Nat) /\ Len(queue') = Len(queue) - 1
        /\ Elements(queue) = Elements(queue') \cup {Head(queue)}
    BY <2>a, ElementsTail
  <2>c. /\ taken' \in Seq(Nat) /\ Len(taken') = Len(taken) + 1
        /\ Elements(taken') = Elements(taken) \cup {Head(queue)}
    BY <2>a, <2>b, ElementsAppend
  <2>1. TypeOK'
    BY <2>b, <2>c DEF TypeOK
  <2>2. MutexHeld'
    BY DEF MutexHeld, Inside, TypeOK
  <2>3. StateAgrees'
    BY <2>b DEF StateAgrees
  <2>4. ReadsFirst'
    BY DEF ReadsFirst, MutexHeld, Inside, TypeOK
  <2>5. CountAgrees'
    <3>1. Cardinality(Claims') = Cardinality(Claims) - 1
      BY AtLeaves DEF Claims
    <3>2. Posts' = Posts
      BY AtStays DEF Posts
    <3> QED BY <1>c, <1>d, <2>b, <3>1, <3>2
  <2>6. ExactlyOnce'
    <3>1. Elements(taken) \cup Elements(queue) = 1..adds /\ Len(taken) + Len(queue) = adds
      BY OnceElements
    <3>2. Elements(taken') \cup Elements(queue') = 1..adds'
      BY <2>b, <2>c, <3>1
    <3>3. Len(taken) \in Nat /\ Len(queue) \in Nat /\ adds' = adds
      BY <2>a
    <3>4. Len(taken') + Len(queue') = adds'
      BY <2>b, <2>c, <3>1, <3>3
    <3> QED BY <3>2, <3>4 DEF ExactlyOnce, Elements
  <2> QED BY <2>1, <2>2, <2>3, <2>4, <2>5, <2>6 DEF IInv
<1>8. ASSUME NEW t \in Threads, unlock(t) PROVE IInv'
  <2> USE <1>8 DEF unlock, Goto
  <2>1. TypeOK'
    BY DEF TypeOK
  <2>2. MutexHeld'
    BY DEF MutexHeld, Inside, TypeOK
  <2>3. StateAgrees' /\ ReadsFirst'
    BY DEF StateAgrees, ReadsFirst, TypeOK
  <2>4. CountAgrees'
    <3>1. Claims' = Claims /\ Posts' = Posts
      BY AtStays DEF Claims, Posts
    <3> QED BY <1>c, <1>d, <3>1
  <2>5. ExactlyOnce'
    BY DEF ExactlyOnce
  <2> QED BY <2>1, <2>2, <2>3, <2>4, <2>5 DEF IInv
<1>9. CASE UNCHANGED vars
  <2> USE <1>9 DEF vars
  <2>1. TypeOK' /\ MutexHeld' /\ StateAgrees' /\ ReadsFirst' /\ ExactlyOnce'
    BY DEF TypeOK, MutexHeld, StateAgrees, ReadsFirst, ExactlyOnce
  <2>2. CountAgrees'
    BY DEF CountAgrees, At
  <2> QED BY <2>1, <2>2 DEF IInv
<1> QED
  BY <1>1, <1>2, <1>3, <1>4, <1>5, <1>6, <1>7, <1>8, <1>9 DEF Next

\* The inductive invariant holds in every reachable state.
THEOREM Invariance == Spec => []IInv
<1>1. Init => IInv
  BY InitIInv
<1>2. IInv /\ [Next]_vars => IInv'
  BY NextIInv
<1> QED BY <1>1, <1>2, PTL DEF Spec

(***************************************************************************)
(* Type correctness of the FIFO; the semaphore never goes below 0.         *)
(***************************************************************************)
THEOREM TypeCorrect == Spec => []TypeOK
<1>1. IInv => TypeOK
  BY DEF IInv
<1> QED BY Invariance, <1>1, PTL

(***************************************************************************)
(* The list of the FIFO and its semaphore count the same elements, with    *)
(* any number of threads in osip_fifo_add, insert, get and tryget.         *)
(***************************************************************************)
THEOREM Counts == Spec => []CountAgrees
<1>1. IInv => CountAgrees
  BY DEF IInv
<1> QED BY Invariance, <1>1, PTL

(***************************************************************************)
(* The branch of osip_fifo_tryget that "MUST never happen" does not.       *)
(***************************************************************************)
THEOREM Finds == Spec => []NeverFindsEmpty
<1>1. IInv => NeverFindsEmpty
  <2> SUFFICES ASSUME IInv, NEW t \in Threads, pc[t] = "take"
               PROVE  ff_state = "osip_ok" /\ queue # <<>>
    BY DEF NeverFindsEmpty
  <2>1. queue # <<>>
    BY ClaimFindsElement DEF IInv
  <2> QED BY <2>1 DEF IInv, StateAgrees
<1> QED BY Invariance, <1>1, PTL

(***************************************************************************)
(* Every element added by osip_fifo_add or osip_fifo_insert is in the list *)
(* or was handed out, once.                                                *)
(***************************************************************************)
THEOREM Once == Spec => []ExactlyOnce
<1>1. IInv => ExactlyOnce
  BY DEF IInv
<1> QED BY Invariance, <1>1, PTL

=============================================================================
