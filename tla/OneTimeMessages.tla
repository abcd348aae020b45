-------------------------- MODULE OneTimeMessages --------------------------
(***************************************************************************)
(* The message bus of x_base: an MviDispatcher with its list of            *)
(* OneTimeMessages and the activities that observe them.  Everything runs  *)
(* on the main thread, but an observer may send from inside its callback:  *)
(* stack holds the calls of dispatchingValue that are under way, the       *)
(* innermost last.  Sending a message that is still in the list sets it    *)
(* again, to a new version.                                                *)
(***************************************************************************)
EXTENDS Integers, SequencesExt

CONSTANTS
  Owners,       \* activities, each with its observer
  Messages,     \* identities of what is sent
  Nobody,
  QueueLength,  \* initQueueMaxLength()
  MaxSends      \* bound: calls of sendResult

ASSUME MessagesAssumption ==
  /\ IsFiniteSet(Owners) /\ Nobody \notin Owners
  /\ QueueLength \in Nat \ {0} /\ MaxSends \in Nat

VARIABLES
  life,      \* lifecycle of the owners
  observing, \* owners in mObservers of the dispatcher
  results,   \* mResults
  msg,       \* the OneTimeMessage of an identity, see Fresh
  stack,     \* running dispatches: message, owners left, owner being called
  invalid,   \* messages with mDispatchInvalidated
  waker, waking, \* owner being started, messages that are still to be told
  log,       \* history: what each observer was called with
  sends

vars == <<life, observing, results, msg, stack, invalid, waker, waking, log, sends>>

(* A message before it is first set.  observers, active and last are its   *)
(* wrappers; joined is the version each found when it came and eaten holds *)
(* those that still waited for a version when another observer came.       *)
Fresh ==
  [version |-> 0, current |-> -1, observers |-> << >>, active |-> {},
   last |-> [o \in Owners |-> -1], joined |-> [o \in Owners |-> -1], eaten |-> {}]

Init ==
  /\ life = [o \in Owners |-> "none"] /\ observing = {} /\ results = << >>
  /\ msg = [m \in Messages |-> Fresh]
  /\ stack = << >> /\ invalid = {} /\ waker = Nobody /\ waking = << >>
  /\ log = [o \in Owners |-> << >>] /\ sends = 0

-----------------------------------------------------------------------------
(* OneTimeMessage.                                                         *)

NewerOrSame(r, o) == r.version >= r.last[o]                               \* mutant
Newer(r, o) == r.version > r.last[o]

(* An observer that was there when the version was set, and has not got it. *)
Waits(r, o) == o \in ToSet(r.observers) /\ r.version > r.joined[o] /\ r.version > r.last[o]

(* observe() by the owners s one after the other; those in awake get        *)
(* active at once.                                                          *)
Observed(r, s, awake) ==
  LET Put(f, v) == [o \in Owners |-> IF o \in ToSet(s) THEN v ELSE f[o]]
  IN IF s = << >> THEN r ELSE
     [r EXCEPT !.observers = @ \o s, !.active = @ \cup (ToSet(s) \cap awake),
               !.current = r.version, !.last = Put(@, -1), !.joined = Put(@, r.version),
               !.eaten = @ \cup {o \in Owners : Waits(r, o)}]

(* What is left of s without the elements of S.                            *)
Without(s, S) ==
  LET rest[n \in 0 .. Len(s)] ==
        IF n = 0 THEN << >>
        ELSE IF s[n] \in S THEN rest[n - 1] ELSE Append(rest[n - 1], s[n])
  IN rest[Len(s)]

(* removeObserver() for the owners S.                                      *)
StillActive(r, S) == [r EXCEPT !.observers = Without(@, S)]               \* mutant
Removed(r, S) == [r EXCEPT !.observers = Without(@, S), !.active = @ \ S]

Busy(m) == \E i \in DOMAIN stack : stack[i].msg = m
Dispatch(m, owners) == Append(stack, [msg |-> m, left |-> owners, called |-> Nobody])
Top == stack[Len(stack)]
Running == stack # << >> /\ Top.called = Nobody
NextObservers == Without(msg[Top.msg].observers, Owners \ Top.left)

(* considerNotify() for the next observer of the innermost dispatch.       *)
ConsiderNotify ==
  /\ Running /\ Top.msg \notin invalid /\ NextObservers # << >>
  /\ LET m == Top.msg  r == msg[m]  o == Head(NextObservers)
         started == life[o] = "started"
         calls == o \in r.active /\ started /\ Newer(r, o)
     IN /\ stack' = [stack EXCEPT ![Len(stack)].left = @ \ {o},
                                  ![Len(stack)].called = IF calls THEN o ELSE Nobody]
        /\ msg' = [msg EXCEPT
                     ![m].active = IF started THEN @ ELSE @ \ {o},
                     ![m].last = IF calls THEN [@ EXCEPT ![o] = r.version] ELSE @]
        /\ log' = IF calls THEN [log EXCEPT ![o] = Append(@, <<m, r.version>>)] ELSE log
  /\ UNCHANGED <<life, observing, results, invalid, waker, waking, sends>>

(* onChanged() returns.                                                    *)
Return ==
  /\ stack # << >> /\ Top.called # Nobody
  /\ stack' = [stack EXCEPT ![Len(stack)].called = Nobody]
  /\ UNCHANGED <<life, observing, results, msg, invalid, waker, waking, log, sends>>

(* A dispatch that was invalidated starts again with all observers;        *)
(* otherwise it ends after the last.                                       *)
GoesOn(left) == left                                                      \* mutant
Again(left) == Owners
TurnOrEnd ==
  /\ Running
  /\ IF Top.msg \in invalid
     THEN stack' = [stack EXCEPT ![Len(stack)].left = Again(@)]
     ELSE NextObservers = << >> /\ stack' = Front(stack)
  /\ invalid' = invalid \ {Top.msg}
  /\ UNCHANGED <<life, observing, results, msg, waker, waking, log, sends>>

-----------------------------------------------------------------------------
(* MviDispatcher.                                                          *)

Idle == stack = << >> /\ waker = Nobody

(* output(): the observer comes to the messages that are in the list.      *)
Output(o) ==
  /\ Idle /\ life[o] = "none"
  /\ \E s \in {"created", "started"} :
       /\ life' = [life EXCEPT ![o] = s]
       /\ msg' = [m \in Messages |->
            IF m \in ToSet(results)
            THEN Observed(msg[m], <<o>>, {p \in {o} : s = "started"}) ELSE msg[m]]
  /\ observing' = observing \cup {o}
  /\ UNCHANGED <<results, stack, invalid, waker, waking, log, sends>>

(* sendResult(), by anybody or from inside a callback.  A new message gets  *)
(* all observers, in the order of a hash map, and may push the oldest out   *)
(* of the list; then the message is set.                                   *)
SendResult(m) ==
  /\ Idle \/ (stack # << >> /\ Top.called # Nobody)
  /\ sends < MaxSends /\ sends' = sends + 1
  /\ LET new == m \notin ToSet(results)
         awake == {o \in observing \ {waker} : life[o] = "started"}
         full == Len(results) = QueueLength
         evicted == IF new /\ full THEN {Head(results)} ELSE {}
         set(r) == [r EXCEPT !.version = @ + 1, !.eaten = {}]
     IN /\ new => msg[m].version = 0
        /\ results' = IF new THEN Append(IF full THEN Tail(results) ELSE results, m)
                             ELSE results
        /\ \E order \in SetToSeqs(observing) :
             msg' = [k \in Messages |->
               IF k = m THEN set(IF new THEN Observed(msg[m], order, awake) ELSE msg[m])
               ELSE IF k \in evicted THEN Removed(msg[k], observing) ELSE msg[k]]
        /\ waking' = IF new /\ waker \in observing THEN Append(waking, m) ELSE waking
  /\ IF Busy(m) THEN invalid' = invalid \cup {m} /\ UNCHANGED stack
               ELSE stack' = Dispatch(m, Owners) /\ UNCHANGED invalid
  /\ UNCHANGED <<life, observing, waker, log>>

(* onDestroy(), and DESTROYED for every wrapper of the owner.              *)
Destroy(o) ==
  /\ Idle /\ life[o] = "created"
  /\ life' = [life EXCEPT ![o] = "destroyed"]
  /\ observing' = observing \ {o}
  /\ msg' = [m \in Messages |-> Removed(msg[m], {o})]
  /\ results' = IF observing' = {} THEN << >> ELSE results
  /\ UNCHANGED <<stack, invalid, waker, waking, log, sends>>

-----------------------------------------------------------------------------
(* The owner is started or stopped: its wrappers are told one by one, and   *)
(* one that becomes active may have something to deliver.                  *)

Start(o) ==
  /\ Idle /\ life[o] = "created"
  /\ life' = [life EXCEPT ![o] = "started"]
  /\ waker' = o
  /\ waking' = Without(results, {m \in Messages : o \notin ToSet(msg[m].observers)})
  /\ UNCHANGED <<observing, results, msg, stack, invalid, log, sends>>

Wake ==
  /\ stack = << >> /\ waking # << >> /\ waking' = Tail(waking)
  /\ LET m == Head(waking) IN
       IF waker \in ToSet(msg[m].observers)
       THEN /\ msg' = [msg EXCEPT ![m].active = @ \cup {waker}]
            /\ stack' = IF msg[m].version > msg[m].current
                        THEN Dispatch(m, {waker}) ELSE stack
       ELSE UNCHANGED <<msg, stack>>
  /\ UNCHANGED <<life, observing, results, invalid, waker, log, sends>>

Awake ==
  /\ stack = << >> /\ waking = << >> /\ waker # Nobody /\ waker' = Nobody
  /\ UNCHANGED <<life, observing, results, msg, stack, invalid, waking, log, sends>>

Stop(o) ==
  /\ Idle /\ life[o] = "started"
  /\ life' = [life EXCEPT ![o] = "created"]
  /\ msg' = [m \in Messages |-> [msg[m] EXCEPT !.active = @ \ {o}]]
  /\ UNCHANGED <<observing, results, stack, invalid, waker, waking, log, sends>>

Next ==
  \/ ConsiderNotify \/ Return \/ TurnOrEnd \/ Wake \/ Awake
  \/ \E m \in Messages : SendResult(m)
  \/ \E o \in Owners : Output(o) \/ Destroy(o) \/ Start(o) \/ Stop(o)

Spec == Init /\ [][Next]_vars
-----------------------------------------------------------------------------
(* Type invariant.                                                         *)
TypeOK ==
  /\ life \in [Owners -> {"none", "created", "started", "destroyed"}]
  /\ observing \subseteq Owners /\ invalid \subseteq Messages
  /\ IsInjective(results) /\ Len(results) <= QueueLength
  /\ waker \in Owners \cup {Nobody} /\ ToSet(waking) \subseteq Messages
  /\ \A m \in Messages :
       /\ IsInjective(msg[m].observers) /\ ToSet(msg[m].observers) \subseteq observing
       /\ msg[m].active \subseteq ToSet(msg[m].observers)
       /\ msg[m].version \in 0 .. MaxSends

(* One time: an observer is never called twice with one version of a       *)
(* message, nor with an older one after a newer one, nor with one that was  *)
(* set before it came, however sends are nested.                           *)
OneTime ==
  \A o \in Owners : \A i \in DOMAIN log[o] :
    /\ \A m \in Messages : log[o][i][1] = m => log[o][i][2] > msg[m].joined[o]
    /\ \A j \in 1 .. i - 1 : log[o][j][1] = log[o][i][1] => log[o][j][2] < log[o][i][2]

(* And each time: when nothing is being dispatched, an observer whose owner *)
(* is started has the latest version of every message of the list that was  *)
(* set while it observed; it misses one only if it was stopped when the     *)
(* message was set and, before it started again, another observer came.    *)
LatestIsDelivered ==
  Idle => \A o \in Owners : life[o] = "started" =>
    \A m \in ToSet(results) : Waits(msg[m], o) => o \in msg[m].eaten
=============================================================================
