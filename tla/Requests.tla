------------------------------- MODULE Requests -------------------------------
(***************************************************************************)
(* Requests to a platform: the token bucket that paces them and the backoff *)
(* that repeats them (internal/ratelimit), as doAPI and downloadTo of the   *)
(* Notion client and the fetches of the Feishu adapter use them.  Several   *)
(* goroutines may share a bucket and a context.                             *)
(*                                                                          *)
(* All times are relative to the present one, so that time goes on for ever *)
(* in finitely many states.                                                 *)
(***************************************************************************)
EXTENDS Integers

CONSTANTS
  Callers,   \* goroutines
  Interval,  \* of the bucket
  Attempts,  \* of the backoff
  Delays,    \* what it may wait before the next attempt
  MaxLate    \* bound on how late a timer fires

ASSUME RequestsAssumption ==
  /\ Interval \in Nat /\ Attempts \in Nat \ {0} /\ MaxLate \in Nat
  /\ Delays \subseteq Nat \ {0}

VARIABLES
  next,      \* Bucket.next; 0 when it has passed
  stage,     \* what a caller does: "idle", "waiting", "sent", "delaying",
             \* "returned"
  timer,     \* its slot while it is waiting or has sent, then the end of its delay
  tries,     \* attempts it has made
  result,    \* "none", "data" or "error"
  cancelled  \* is the context done?

requests == <<next, stage, timer, tries, result>>

RequestsInit ==
  /\ next = 0 /\ cancelled = FALSE
  /\ stage = [c \in Callers |-> "idle"] /\ timer = [c \in Callers |-> 0]
  /\ tries = [c \in Callers |-> 0] /\ result = [c \in Callers |-> "none"]

Move(c, to) == stage' = [stage EXCEPT ![c] = to]
Return(c, r) == Move(c, "returned") /\ result' = [result EXCEPT ![c] = r]

-----------------------------------------------------------------------------
(* (mutant of Reserve) the slot is looked up now and taken when it is due. *)
ReserveLater(c) ==
  /\ timer' = [timer EXCEPT ![c] = next]
  /\ next' = IF next = 0 THEN Interval ELSE next

\* What Wait does under its lock: the next slot is c's.
Reserve(c) ==
  /\ timer' = [timer EXCEPT ![c] = next]
  /\ next' = next + Interval

\* An attempt begins with Wait, which does not sleep when the slot is due.
Attempt(c) ==
  /\ Reserve(c)
  /\ IF next > 0 THEN Move(c, "waiting") /\ UNCHANGED result
     ELSE IF cancelled THEN Return(c, "error") ELSE Move(c, "sent") /\ UNCHANGED result

Call(c) ==
  /\ stage[c] = "idle" /\ tries' = [tries EXCEPT ![c] = 1]
  /\ Attempt(c) /\ UNCHANGED cancelled

\* A timer that has fired and a context that is done are both ready.
Wake(c) ==
  /\ stage[c] = "waiting" /\ timer[c] <= 0 /\ Move(c, "sent")
  /\ UNCHANGED <<next, timer, tries, result, cancelled>>
Interrupt(c) ==
  /\ stage[c] \in {"waiting", "delaying"} /\ cancelled /\ Return(c, "error")
  /\ UNCHANGED <<next, timer, tries, cancelled>>

\* (mutant of Exhausted) a try too many.
ExhaustedLate(c) == tries[c] > Attempts
Exhausted(c) == tries[c] = Attempts

\* The answer is data, an error, or one that is worth another attempt (429 and
\* 5xx, with or without Retry-After).  Errors of the transport are not, and a
\* request with a context that is done ends with one.
Answer(c) ==
  /\ stage[c] = "sent"
  /\ \/ Return(c, "data") /\ UNCHANGED timer
     \/ Return(c, "error") /\ UNCHANGED timer
     \/ ~Exhausted(c) /\ Move(c, "delaying") /\ UNCHANGED result
        /\ \E t \in Delays : timer' = [timer EXCEPT ![c] = t]
  /\ UNCHANGED <<next, tries, cancelled>>

Repeat(c) ==
  /\ stage[c] = "delaying" /\ timer[c] <= 0
  /\ tries' = [tries EXCEPT ![c] = tries[c] + 1]
  /\ Attempt(c) /\ UNCHANGED cancelled

\* Timers fire when they are due or at most MaxLate later.  A slot that is an
\* interval ago does not matter any more.
Passed(t) == IF t > -Interval \/ t > -MaxLate THEN t - 1 ELSE t
Tick ==
  /\ \A c \in Callers : stage[c] \in {"waiting", "delaying"} => timer[c] > -MaxLate
  /\ next' = IF next = 0 THEN 0 ELSE next - 1
  /\ timer' = [c \in Callers |-> Passed(timer[c])]
  /\ UNCHANGED <<stage, tries, result, cancelled>>

Step(c) == Call(c) \/ Wake(c) \/ Interrupt(c) \/ Answer(c) \/ Repeat(c)

\* The caller of a call that has returned makes the next one.
Reset(c) ==
  /\ Move(c, "idle") /\ result' = [result EXCEPT ![c] = "none"]
  /\ tries' = [tries EXCEPT ![c] = 0]
  /\ UNCHANGED <<next, timer, cancelled>>

-----------------------------------------------------------------------------
RequestsTypeOK ==
  /\ next \in Nat /\ cancelled \in BOOLEAN
  /\ stage \in [Callers -> {"idle", "waiting", "sent", "delaying", "returned"}]
  /\ timer \in [Callers -> Int] /\ tries \in [Callers -> 0..Attempts]
  /\ result \in [Callers -> {"none", "data", "error"}]

HasSlot(c) == stage[c] \in {"waiting", "sent"} /\ timer[c] > -Interval

(* "It reserves the slot before sleeping so concurrent callers are serialised
   onto distinct slots": the slots of requests that wait or are under way are an
   interval apart, with cancelled and retrying callers among them. *)
SlotsApart ==
  \A c, e \in Callers :
    c # e /\ HasSlot(c) /\ HasSlot(e) /\ timer[c] <= timer[e] =>
      timer[e] - timer[c] >= Interval
=============================================================================
