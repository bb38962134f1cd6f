# TLA+ verification of the oSIP/eXosip SIP stack

The repository packages a SIP stack for Visual Studio: **oSIP2** (`osip/`), the
parser and the transaction layer; **eXosip2** (`exosip/`), the layer applications
use (calls, registrations, subscriptions, transports, one thread that drives
everything); demo programs (`demo/`); and third-party libraries (`c-ares/`,
`jrtplib/`, `linphone/`). This directory holds TLA+ models of the stack's own core
logic, the TLC runs that check them on small instances, and TLAPS proofs of their
main properties for all parameter values. Paths below are relative to the
repository root.

## 1. Inventory

| Component | State | Operations | Talks to |
|---|---|---|---|
| INVITE client transaction (`osip/src/osip2/ict_fsm.c`, `ict.c`) | state, timers A, B, D, last response, stored ACK, event queue | send INVITE, timeouts A/B/D, 1xx, 2xx, 3-6xx, repeat ACK | timer pass, network reader, transport, kill and message callbacks |
| non-INVITE client transaction (`nict_fsm.c`, `nict.c`) | state, timers E, F, K, event queue | send request, timeouts E/F/K, 1xx, final response | same |
| INVITE server transaction (`ist_fsm.c`, `ist.c`) | state, timers G, H, I, last response, event queue | INVITE and its copies, answers of the application, ACK, timeouts G/H/I | same, and the application |
| non-INVITE server transaction (`nist_fsm.c`, `nist.c`) | state, timer J, last response, event queue | request and its copies, answers, timeout J | same |
| transaction core (`osip.c`, `osip_transaction.c`, `osip_event.c`, `fsm_misc.c`) | four lists of transactions and their locks, the `ixt` list of 200 OK/ACK retransmissions | match and queue an event, create a transaction, execute all queues, timer passes, next timeout | transactions, main loop |
| FIFO (`port_fifo.c`) and ports (`port_sema.c`, `port_condv.c`, `port_thread.c`) | list, state flag, semaphore, mutex | add, insert, get, tryget | every pair of threads |
| eXosip event queue (`exosip/src/jevents.c`, `jpipe.c`) | FIFO of events, wake-up pipe | add, wait, get, event socket | stack thread, application |
| main loop (`eXconf.c`) | `j_stop_ua`, transports | `eXosip_execute`, `eXosip_quit`, options | everything |
| incoming messages (`udp.c`) | lists of calls, dialogs, subscriptions | dispatch of requests and responses, release of finished calls | transactions, dialogs, event queue |
| automatic actions (`eXosip.c`, `jcallback.c`) | retry counters, refresh dates | retry with credentials or a new destination, refresh registrations and subscriptions, repeat 200 OK | transactions, dialogs |
| calls and dialogs (`eXcall_api.c`, `jcall.c`, `jdialog.c`, `osip_dialog.c`) | call, its dialogs and its transactions | initiate, answer, ACK, terminate, transfer | application, transactions |
| registration, subscription, notification, publication (`eXregister_api.c`, `eXsubscription_api.c`, `eXinsubscription_api.c`, `eXpublish_api.c`, `j*.c`) | one record per registration, subscription or publication | initial request, refresh, removal | automatic actions |
| authentication (`jauth.c`, `milenage.c`, `rijndael.c`) | cached credentials and challenges | compute a response | automatic actions |
| transports (`eXtl_udp.c`, `eXtl_tcp.c`, `eXtl_tls.c`, `eXtl_dtls.c`) | sockets, table of connections | send, receive, connect, keep alive | main loop, transactions |

**How they interact.** One thread of eXosip runs `eXosip_execute` for ever: it reads
the sockets, and then, under the eXosip lock, runs the timer pass of each kind of
transaction and executes the queue of every transaction until it is empty. A
message that matches a transaction becomes an event in that transaction's queue; a
request that matches none creates a server transaction. The application runs in
other threads: it queues outgoing messages under the same lock and takes eXosip
events from the event queue. Transactions report upwards through callbacks: message
received or sent, transport error, and the kill callback that takes a terminated
transaction off its list.

**What is hard.** Every event is queued by one step and consumed by another, so it may
meet a transaction in a state its producer did not see: a timeout behind a response,
two final answers of the application one behind the other, a copy of a datagram after
the end. The transport answers "not yet" while it resolves or connects, and each
caller has its own idea of what that means. Over UDP everything is lost, repeated and
reordered. The event queue and the FIFO are shared by threads without a common lock.
`PROJECT.json` lists these hazards line by line with the properties that cover them.

**What makes each part correct.** A client transaction gives one verdict, sends no
request after it and ends. A server transaction sends one final response, repeats only
that one, and is silent after the ACK. Both ends of a call agree on its outcome. The
FIFO hands out each element once and never lets a reader through for nothing. An
application that follows the documentation gets every event. A call, a subscription or a
removal ends whatever the peer does; an accepted call is never forgotten without a BYE; a
challenge is answered before its record is given up; what a server granted is renewed
before its time is over.

## 2. Modules

| Module | Models | Notes |
|---|---|---|
| `Timers` | `osip_time.c`, `__osip_transaction_need_timer_x_event` | a timer is the distance from now to its date: `Off`, 0 when due, or the ticks that remain |
| `ClientTransaction`, `ServerTransaction` | nothing of the code: the promises | abstract specifications, without timers, queues or transports |
| `Ict`, `Nict`, `Ist`, `Nist` | the four state machines with queue and timer pass | one action per method of the transition table, one for the timer pass, one per producer, the clock |
| `InviteExchange` | an `Ict` and an `Ist` joined by a network | instances of the two modules, not copies |
| `PortFifo` | `port_fifo.c` | operations cut at every blocking or observable call |
| `EventQueue` | `jevents.c`, the pipe, `eXosip_quit` | two actors: stack and application |
| `IncomingCall` | a received call: INVITE and its copies, CANCEL, BYE and ACK (`udp.c`), the API (`eXcall_api.c`), the repeated 200 OK (`eXosip.c`), the release pass | three parties under one lock: stack thread, application, `eXosip_event_wait` |
| `OutgoingCall` | an initiated call: retries with credentials, a longer Session-Expires (422) or a new destination, the end of the dialog, the release pass | no specification of its own |
| `Registration`, `Publication`, `Subscription` | `eXregister_api.c`, `eXpublish_api.c`, `eXsubscription_api.c`: first request, refresh, removal, answers, failures, release | `Registration` also runs alone |
| `Notification` | an incoming subscription: SUBSCRIBEs and their answers (`udp.c`, `jnotify.c`), the NOTIFYs sent (`eXinsubscription_api.c`), their ends (`jcallback.c`), release | no specification of its own |
| `AutomaticAction` | `eXosip_automatic_action` and the release pass over the five kinds above | instances of the five modules |
| `IctProofs`, `NictProofs`, `IstProofs`, `NistProofs`, `InviteExchangeProofs`, `PortFifoProofs`, `IncomingCallProofs`, `AutomaticActionProofs` | | proofs, section 5 |
| `MC*` | | instances for TLC |

**State.** In the transaction modules `state`, `fifo`, the timers and `last_response` are
the fields of the C structures of the same name. Four history variables observe what
the code does: `out` is the message the last step put on the wire, `told` the verdicts
handed to the application, `final` the first final response sent, `kills` the number of
calls of the kill callback (a transaction is on its list while this is 0). `sent`
records that the request has left once.

**Actions.** A method of a transition table is one action, with every early return. The
answer of `cb_send_message` is a choice between *sent* (0), *pending* (positive: the
transport is resolving or connecting and kept nothing) and *error* (negative). Where the
code treats two of them alike (`if (i != 0)`), so does the model. An event without a
method in the current state is consumed by `USELESS_event`. A timer pass is one visit to
the transaction: `Ict` skips a transaction with anything pending, as
`osip_timers_ict_execute` does and the three other passes do not. The guard `Drained` of
those three says that the previous timer event has been consumed: both loops in the
repository (`eXosip_execute`, `demo/osipDemo/main2.cpp`) empty the queues between two
passes.

**Abstractions common to all modules.** Messages are reduced to their class (`Ist` and
`Nist` keep two error responses apart, because answering twice is what is at stake).
Failures of `malloc` and of message cloning are left out. `KILL_TRANSACTION` events are
never posted by the code and have no action. The configuration modelled is that of the
project files: several threads, non-blocking sockets. Clocks only go forward. The
eXosip lock is not modelled in `EventQueue`: the FIFO and the pipe are used without it.

**Records of eXosip.** In the six modules of calls, registrations, publications and
subscriptions the variables are the fields of the C record and, of its last transaction,
the state, the last response and the age since `birth_time`. The transactions are reduced
to what the modules above show of them: an answer, or none until a timer ends it. The
clock counts seconds, the granularity of the code (`osip_getsystemtime`); `polled` says
that the application's loop has called `eXosip_automatic_action` in this second. In
`IncomingCall` the variable `phase` is where the stack thread stands between reading the
socket, running the transactions and the release pass: the lock is free in between, and
that is where the application and `eXosip_event_wait` act. No rule of
`eXosip_automatic_action` looks at a second record, so a behaviour of `AutomaticAction`
follows one, whose `kind` is chosen at the start. A peer or registrar is *prompt* when it
answers each request before the next second; some properties are about prompt peers only,
because nothing renews a registration whose registrar is silent. A prompt registrar or
notifier also grants more than two seconds, and asks at most once for credentials or a longer
period before it accepts (`refused_once`); each such question costs the second until
`eXosip_automatic_action` is called again. `lease` counts what is left of the time it granted.
A binding the application has un-registered is not counted: `eXosip_register_build_register`
stores the period 0 even when a REGISTER is still pending and nothing is sent
(`eXregister_api.c:427-436`), so the record then lets the binding lapse as asked.

**Network.** In `InviteExchange` the network is the set of all datagrams ever sent. Any
of them may be delivered at any time, any number of times, or never. The transport is
UDP, where a send either succeeds or fails. A copy of the INVITE that arrives after the
end of the server transaction is not followed there: `IncomingCall` follows it, because
the dialog filters it (`NoSecondCall`). `Ict` alone accepts any response at any time once the INVITE
has left; `Ist` alone accepts an ACK once an error response has left.

## 3. Runs

| Run | Bounds | What it shows |
|---|---|---|
| `ict` | T1 = 1, timer B = 16, timer D = 16, two pending events | no stale timeout (`TimerEventIsFresh`), one verdict (`OneVerdict`), bounded back-off (`BackoffBounded`), `ClientTransaction` implemented, no endless `ICT_CALLING` or `ICT_COMPLETED` |
| `nict` | T1 = 2, TCP poll = 1, T2 = 5, T4 = 3, timer F = 16, two pending responses | one copy over TCP (`QuietWhenReliable`), `ClientTransaction` implemented, an end whatever arrives (`EventuallyKilled`) |
| `ist` | T1 = 2, T2 = 3, T4 = 2, timer H = 8, three pending events | the answer repeated is the answer given, `ServerTransaction` implemented, timers H and I end it |
| `nist` | T1 = 1, timer J = 4, three pending events | `ServerTransaction` implemented, timer J ends it |
| `invite_exchange` | T1 = 1, T2 = 2, T4 = 1, timers B and H = 3, D = 2, two pending events per side | verdict and answer agree, an ACK means a refusal was announced, one final response in the network |
| `port_fifo` | three threads, four elements | list and semaphore agree, no reader finds the list empty, every element is handed out once |
| `event_queue` | four events | every event reaches an application that keeps calling `eXosip_event_wait` |
| `incoming_call` | no answer = 2, linger = 1, two repetitions of the 200 OK, two answers queued | no accepted call without a BYE (`AcceptedEndsWithBye`), no second call from a late copy, no 200 OK repeated after the end, an unacknowledged call is closed, every call and every `eXosip_call_terminate` ends |
| `automatic_actions` | delays scaled (below), one redirect, one 1xx, one lost connection, one request of the application after the first, two requests in the dialog of a subscriber | a registration or subscription is renewed before it lapses, no record is given up before its retry or the time it granted (`NotReleasedEarly`), what is initiated, removed or over ends, a publication is refreshed |
| `ict_response` | as `ict` | *violation*: finding 1 |
| `event_socket` | as `event_queue` | *violation*: finding 2 |
| `registration_lapse` | the delays of the code in seconds, one REGISTER for 300, one lost connection | *violation*: finding 3 |

**Why the bounds are enough.** The timers matter through the order in which they fall due
and through the corners of their growth. Timer B = 16 T1 lets timer A double four times
before B ends it; the TCP poll of `nict` crosses T1 once and T2 once; T2 = 3 in `ist`
caps the first doubling of G. Two or three pending events are enough for a response, a
second response and a timeout to be queued together in every order. In `invite_exchange`
the clock is coarse, because the messages carry the interest; each end still
retransmits, times out and lingers. Three threads on the FIFO allow a writer between a
reader's semaphore and its mutex while a second reader waits; they are interchangeable,
hence the symmetry, and only invariants are checked there.

In `automatic_actions` the delays are scaled and keep their order, which is what the
rules compare: 2 < 10 < 32 < 120 < 180 for calls, 32 < 75 < 120 < 900 for registrations,
5 < 15 < 64 < 120 < 3600 for subscriptions; the ASSUMEs of the module state it. A call is
kept longer than the three retries take (3 < 10), and the margin of a refresh leaves room
for the second a challenge costs, as 60 and 30 do in the code. Two requests in the dialog of
a subscriber let a NOTIFY meet an un-SUBSCRIBE, and a second NOTIFY the end of the first. The server grants what is
asked, less, or more than the cap on a period (`Granted`, `Requested`). `registration_lapse`
is not scaled. In `incoming_call` two repetitions and two queued answers are enough for an
ACK, a BYE or a termination between any two of them, and for an answer behind a refusal.

Deadlock is checked except in the two modules where actors may really stop: threads
waiting on an empty FIFO when nobody adds, and an application blocked in
`eXosip_event_get`, which nothing releases (`eXosip_quit` writes to the pipe and not to
the semaphore).

**Fairness.** The transaction runs assume weak fairness of the timer pass, of the
execution of the queue and of the clock: `_eXosip_thread` loops over all of them until
`eXosip_quit`. Nothing is assumed of the network, the application or the outcome of a
send. `incoming_call` needs weak fairness of the stack thread and strong fairness of the
clock and of `_eXosip_retransmit_lost200ok`, which are enabled only between its phases;
`automatic_actions` needs weak fairness of the stack thread, the clock and
`eXosip_automatic_action`. The stack thread loops (`eXconf.c:1219-1232`); the calls of
`eXosip_event_wait` and `eXosip_automatic_action` are the loop the documentation asks of an
application (`exosip/help/doxygen/ht0-initialize.dox`) and the tool of the repository runs
(`exosip/tools/sip_reg.c`). The decisions of peer and application stay free, except that a
prompt peer answers. Two liveness properties have a premise, because the code gives less than one
would expect: `CompletedEnds` of `Ict` needs the peer to stop resending its response at
some point (timer D is not looked at while anything is pending), and `ConfirmedEnds` of
`Ist` needs the ACKs to stop (each restarts timer I). `event_queue` assumes an
application that keeps calling `eXosip_event_wait` and timeouts that expire.

## 4. Findings

1. *A refusal that is never announced* (`ict_response`). `ict_rcv_3456xx` sends the ACK
   before it calls the callback, and takes every answer of the transport other than 0 as
   a transport error (`ict_fsm.c:430-434`), also the positive one that means "still
   connecting" and that `ict_snd_invite` tolerates. The response has been stored, the
   transaction ends, and the application hears of a transport error only. The diagram in
   `osip/help/doxygen/ht3-fsm.dox:45-47` has "ACK sent, resp. to TU" on this transition.
2. *A silent event socket* (`event_socket`). `eXosip_event_wait` tests the FIFO, then
   empties the pipe. With a null timeout it returns without a second look
   (`jevents.c:401-428`), so the byte of an event added in between is lost. An
   application that polled until NULL, as `eXosip.h:409-412` asks, and sleeps on the
   socket does not wake up. Calling `eXosip_event_wait` again delivers the event, which
   is what `event_queue` shows.
3. *A registration made younger* (`registration_lapse`). When a connection ends,
   `_eXosip_mark_registration_expired` (`eXosip.c:1407-1434`) sets the birth of the last
   REGISTER to 120 seconds ago, to have it refreshed at once when it failed
   (`eXosip.c:1422`). One that succeeded more than 120 seconds ago becomes younger, and is
   refreshed after the registrar has forgotten it. The comment of `eXosip.c:1389` says
   "mark all registrations as needing refreshing", `exosip/include/eXosip2/eXosip.h:150`
   "Refresh REGISTER and SUBSCRIBE/REFER before the expiration delay."

**Observations.** No document of the repository contradicts these, so they are modelled as
they are and not listed as findings. The first answer in the queue wins: the 487 of a
CANCEL or a 486 queued behind a 200 OK that is not sent yet is dropped, and
`eXosip_call_terminate` then reports success for a refusal that never leaves. An answer
built before a BYE arrived is sent after it. A 401 of a call that has a dialog is released
before its retry when the transport is reliable. A send that fails may leave a call
unreleased. A challenge to a call without credentials for it is answered by the same
INVITE again, three times (`eXcall_api.c:1375`), while a PUBLISH is then not sent again
(`eXosip.c:216`). Retries of a call after a 3xx and of a publication after a 412 or a 423
are not counted, as those with credentials are. Releasing an
unanswered outgoing call sends no CANCEL. A granted period up to 15 seconds below the one
asked for is not noticed (`jcallback.c:893`, `jsubscribe.c:141`).
`eXosip_register_build_register` stores the new period before it reports
`OSIP_WRONG_STATE`. A publication that got no response is never refreshed (`eXosip.c:299`).
A refused refresh of a subscription is not repeated, and its record stays
(`eXosip.c:943`). For incoming subscriptions: a SUBSCRIBE in the dialog moves
`n_ss_expires` before the application accepts it, so a refresh that is refused shortens the
subscription all the same; an un-SUBSCRIBE leaves the application only until the end of the
second to answer, when no NOTIFY is under way (`udp.c:2278`); `n_ss_status` is never reset,
and after an un-SUBSCRIBE the answer to an older NOTIFY, still on its list, frees the record
before the last NOTIFY (`jcallback.c:329`); a subscription that was never notified is never
freed.

## 5. Proofs

`IctProofs` proves, for every T1, every multiple of it for timer B, every timer D and
every queue bound (`IctAssumption`: the first two and the bound positive, all
naturals):

| Theorem | Statement |
|---|---|
| `TypeCorrect` | `Spec => []TypeOK` |
| `Freshness` | `Spec => []TimerEventIsFresh` |
| `Verdict` | `Spec => []OneVerdict` |
| `Backoff` | `Spec => []BackoffBounded` |
| `Refinement` | `Spec => ClientSpec` |

The first three rest on one inductive invariant, `IInv`. `TypeOK` alone is not
inductive: a `TIMEOUT_A` consumed after timer A was stopped would double -1. So `IInv`
adds that only the head of the queue may be a timer event (`OnlyHeadIsTimer`), that such
a head belongs to a timer still due in this state (`HeadIsFresh`), that a running timer
A has a positive length (`RunningHasLength`), and what was told in each state
(`VerdictByState`). Every consuming action is covered by one lemma on queues
(`ConsumedQueue`): what follows the head holds no timer event.

`Backoff` needs arithmetic: while timer B runs, the time it has run is at least
(length of A - T1), the sum of the delays before the last doubling, plus what timer A has
run since (`BackoffInv`). B is tested first, so A can be doubled at most while this sum is
within timer B; and B is only off in a terminated transaction (`TimerBRuns`).

`Refinement` maps the five states to the three phases of `ClientTransaction` and shows,
action by action, that each step is a step of the abstract one.

`PortFifoProofs` proves of the FIFO, for every finite set of threads and any number of
elements (`PortFifoAssumption`: the set of threads is finite and the mark of a free
mutex is no thread):

| Theorem | Statement |
|---|---|
| `TypeCorrect` | `Spec => []TypeOK` |
| `Counts` | `Spec => []CountAgrees` |
| `Finds` | `Spec => []NeverFindsEmpty` |
| `Once` | `Spec => []ExactlyOnce` |

The inductive invariant adds to the checked properties that the mutex belongs to the
thread that is inside (`MutexHeld`), that the flag and the list agree (`StateAgrees`), and
that what a thread has read is still the first element (`ReadsFirst`). One thread moves
at a time, so each count of threads changes by one at most (`AtEnters`, `AtLeaves`,
`AtStays`). `NeverFindsEmpty` follows from the count: a thread the semaphore let through
is itself one of the claims the list must cover.

The three other transactions are proved for all their timer values and every bound of
the queue (`NictAssumption`, `IstAssumption`, `NistAssumption`: T1 positive and at most T2,
the TCP poll of `Nict` at most T1, the factor of the last timer and the queue bound positive).

| Module | Theorem | Statement |
|---|---|---|
| `NictProofs` | `TypeCorrect` | `Spec => []TypeOK` |
| | `Verdict` | `Spec => []VerdictByState`: verdict and kill count follow from the state |
| | `Quiet` | `Spec => QuietWhenReliable` |
| | `Refinement` | `Spec => ClientSpec` |
| `IstProofs` | `TypeCorrect` | `Spec => []TypeOK` |
| | `Repeats` | `Spec => []RepeatsItsAnswer` |
| | `Killed` | `Spec => []KilledOnce` |
| | `Refinement` | `Spec => ServerSpec` |
| `NistProofs` | `TypeCorrect` | `Spec => []TypeOK` |
| | `Killed` | `Spec => []KilledOnce` |
| | `Refinement` | `Spec => ServerSpec` |

Their timer passes queue a timeout behind whatever is waiting, so it may be consumed in a
state it was not meant for, and the invariants say what holds all the same. In `Nict` one
timer event at most is waiting (`OneTimerEvent`), and once a request has left over a
reliable transport timer E is stopped together with its event (`TimerEStopped`): this is
why no copy follows. In `Ist` a `TIMEOUT_G` over a reliable transport would double a length
of -1; `TimerGByTransport` says that none is ever queued, and that the length stays within
T2 otherwise. In both server transactions the response kept for repetition is provisional
before the final response and that response after it (`AnswerByState`), whatever answers of
the application are still queued. The refinements map the states to the phases of
`ServerTransaction` or `ClientTransaction` and go through the actions one by one.

`InviteExchangeProofs` joins both ends over a network that loses, repeats and reorders:

| Theorem | Statement |
|---|---|
| `EndsAreTransactions` | `Spec => C!Spec /\ S!Spec`: each end behaves as `Ict` or `Ist` alone |
| `Verdict` | `Spec => []VerdictIsTheAnswer` |
| `AckTold` | `Spec => []AckMeansTold` |
| `OneFinal` | `Spec => []OneFinalResponse` |

The inductive invariant follows the final response from the server into the network
(`NetHoldsTheAnswer`), into the caller's queue (`QueuedIsTheAnswer`) and to the verdict, and
the refusal on its way back: an ACK that exists anywhere, sent, queued or consumed, means
that the caller's application was told of a refusal (`AckFollowsRefusal`).

`IncomingCallProofs`, for all delays, limits of repetition and queue bounds
(`IncomingCallAssumption`: all positive):

| Theorem | Statement |
|---|---|
| `TypeCorrect` | `Spec => []TypeOK` |
| `Accepted` | `Spec => []AcceptedEndsWithBye` |
| `SecondCall` | `Spec => []NoSecondCall` |
| `RepeatEnds` | `Spec => NoRepeatAfterClose` |

The release pass decides from the transactions and the dialog what only the history could
tell it. `History` says that the two agree whenever it looks: a dialog is gone only when a
BYE or a refusal passed and the application was told or asked for it (`ClosedForAReason`); the
states the pass reads as refused mean that a refusal was sent (`RefusedWasSent`,
`LostRefusalIsReleased`); an unanswered INVITE has its 200 OK, if any, still in the queue
(`UnansweredWaits`); and after the ACK or the end nothing is left to repeat
(`QuietAfterAck`, `QuietAfterClose`).

`AutomaticActionProofs`, for all delays in the order of the code, all periods asked for and
granted, and any number of requests (`CallAssumption`, `RefreshAssumption`,
`SubscriptionAssumption`, `NotificationAssumption`: the order of the delays given in section
3, and a margin above the two seconds a challenge may cost; the code has 6):

| Theorem | Statement |
|---|---|
| `TypeCorrect` | `Spec => []TypeOK` |
| `KeptLongEnough` | `Spec => NotReleasedEarly` |
| `Refreshed` | `Spec => []RefreshedBeforeExpiry` |

`TypeOK` needs `FailuresCounted`: the date of a REGISTER is moved 120 seconds back less one
for each failure counted, and would otherwise be moved into the future. A call is kept long
enough because the seconds since the end of its INVITE are bounded by the turns of the
application's loop that have seen it (`RedirectionSeen`, `ChallengeSeen`): one for a
redirection, one for each of three challenges, less than the 10 seconds the release pass
waits. What a subscriber was granted ends no later than the time the release pass looks at
(`LeaseWithinExpires`). `RefreshedBeforeExpiry` rests on `BindingLasts` and
`SubscriptionLasts`, which bound from below what is left at each point on the way to the
renewal: while the record is idle at least the period less the age, hence the margin when
the refresh is due; two seconds when it leaves; one when a challenge is being answered. That
a second challenge cannot find the retries used up rests on `RegistrarPrompt` and
`NotifierPrompt`: the retry counter is 0 unless the server has refused since it last
accepted. TLC checked the whole of each inductive invariant on the instance of its run before
it was proved.

Only model-checked: the liveness properties (`CallingEnds`, `CompletedEnds`,
`EventuallyKilled`, `ConfirmedEnds`, `UnackedCallEnds`, `CallEnds`, `TerminateEnds`,
`InitiatedSettles`, `RemovalEnds`, `PublicationRefreshed`, `EventuallyDelivered`), which depend
on fairness and on ENABLED, out of reach of this prover. `EventQueue` has no other property
that holds; for that reason the models that have fairness state it apart where a theorem is
about the steps alone (`Spec` and `FairSpec` of `AutomaticAction`).

## 6. Not modelled, and why

Message parsing and building, digest and AKA computation, name resolution, SDP bodies:
data without control. Sockets and TLS: represented by the answers of the send function.
Third-party libraries and demos. Status and reasons of every part are in
`PROJECT.json`. Most of the lines of the repository are of these sorts (`c-ares`, `jrtplib`
and the headers of `linphone` are third-party, the parser and the builders format text),
so that the models stand for a small share of all lines of the repository; they are about
the share that reacts to messages, timers and calls.

Of the modelled parts the following is left out: REFER and transfers, re-INVITE, UPDATE and
the session timer of an established call, several dialogs of one call or subscription (forking), retries of requests
inside the dialog of a call. `eXosip_default_action`, with which an application answers a
challenge or a redirection from its event, is modelled for calls and publications and left
out for registrations, subscriptions and NOTIFYs. `_eXosip_retransmit_lost200ok` counts a
repetition for the dialog it looks at and sends the 200 OK of the first dialog of the call
(`eXosip.c:650`); with the one dialog modelled the two are the same.

## 7. Plan

Done, in the order of importance: the four transactions with their abstract
specifications, the INVITE exchange, the FIFO, the event queue, received calls with the
repeated 200 OK, the five kinds of record under `eXosip_automatic_action`, and the proofs of
section 5.

Every safety property that a run checks and that holds is a theorem now, and so are the four
refinements. Next theorems: that `RefreshedBeforeExpiry` survives a connection that fails while
the last REGISTER was refused, the case `_eXosip_mark_registration_expired` is meant for, and
safety properties of the modules below.

Next modules:

1. `ExecutePass`: one pass over several transactions (`osip.c:1154-1208`), what owns each of
   them until the list `j_transactions` frees it (`udp.c:2020-2036`), the locks of the four
   lists, and `osip_timers_gettimeout` (the loop never sleeps past the next timer).
2. The table of TCP connections, and the retries inside the dialog of a call.
3. `NonInviteExchange`: `Nict` and `Nist` over the same network, with the second server
   transaction a late copy creates.
