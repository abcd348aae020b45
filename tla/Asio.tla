-------------------------------- MODULE Asio --------------------------------
(***************************************************************************)
(* The asynchronous operations of one Boost.Asio object graph, as the      *)
(* trojan sessions use them.  An operation of some kind (a read of the     *)
(* client socket, a timer wait...) is in one of four phases:               *)
(*                                                                         *)
(*   waiting  it is in the reactor, the resolver thread or the timer queue *)
(*   ready    it succeeded and its handler is queued on the io_context     *)
(*   failed   it failed and its handler is queued                          *)
(*   aborted  it was cancelled: its handler is queued with                 *)
(*            operation_aborted                                            *)
(*                                                                         *)
(* cancel() and close() only reach an operation that is waiting: a handler *)
(* that is already queued runs with the result it has.  A waiting socket   *)
(* operation may also be performed and its handler called in the same turn *)
(* of the io_context, so a handler runs from waiting or from ready.        *)
(*                                                                         *)
(* An operation table maps a phase and a kind to the number of operations  *)
(* of that kind in that phase; the kinds are the users' business.          *)
(***************************************************************************)
EXTENDS Integers

Phase == {"waiting", "ready", "failed", "aborted"}

NoOps(Kind) == [p \in Phase |-> [k \in Kind |-> 0]]

Add(o, k, p) == [o EXCEPT ![p][k] = @ + 1]

Remove(o, k, p) == [o EXCEPT ![p][k] = @ - 1]

(* Starting an operation on a socket: it waits; or, if it can be done at   *)
(* once, the speculative system call succeeds and the handler is posted;   *)
(* on a closed socket it fails with bad_descriptor, also by a posted       *)
(* handler.                                                                *)
Begin(o, k, open, atOnce) ==
  {Add(o, k, p) : p \in IF open THEN {"waiting"} \cup {q \in {"ready"} : atOnce}
                                ELSE {"failed"}}

(* The handler of an operation of kind k is about to run with one of these *)
(* results: what is left when it is taken off the table.                   *)
Completed(o, k) ==
  {Remove(o, k, p) : p \in {q \in {"waiting", "ready"} : o[q][k] > 0}}

(* cancel() on an object whose operations are the kinds S, or close().     *)
Cancel(o, S) ==
  [o EXCEPT !["waiting"] = [k \in DOMAIN @ |-> IF k \in S THEN 0 ELSE @[k]],
            !["aborted"] = [k \in DOMAIN @ |->
                              IF k \in S THEN @[k] + o["waiting"][k] ELSE @[k]]]

(* The operations of kind k that were started, not cancelled, and whose    *)
(* handler has not run.                                                    *)
Outstanding(o, k) == o["waiting"][k] + o["ready"][k] + o["failed"][k]

(* No handler is left to run: nothing holds the session any more.          *)
Drained(o) == \A p \in Phase : \A k \in DOMAIN o[p] : o[p][k] = 0

IsOps(o, Kind) == o \in [Phase -> [Kind -> Nat]]
=============================================================================
