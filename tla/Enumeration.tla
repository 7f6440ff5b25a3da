----------------------------- MODULE Enumeration -----------------------------
(***************************************************************************)
(* A full enumeration: the producer goroutine of an adapter asks page by    *)
(* page, then replays what it has found on a channel, and the engine's      *)
(* collectEnumeration drains it together with the channel of errors.  The   *)
(* requests are those of Requests, made by one of its callers.              *)
(*                                                                          *)
(* A request is answered with documents and with further requests that it   *)
(* calls for: the next page of a search (Notion), the children of a node,   *)
(* the files of a folder, the batches of metadata (Feishu).                 *)
(***************************************************************************)
EXTENDS Requests, Sequences

CONSTANTS
  producer,  \* the caller that enumerates
  Docs,
  Pages,     \* what can be asked for
  Root,      \* what the producer asks first
  Reply,     \* Reply[p]: documents and pages, in the order of the answer
  Below      \* Below[p]: the documents that p and what it calls for list

\* Answers of collectEnumeration: none yet, an error, documents.
NoDocs   == [kind |-> "none", docs |-> {}]
Failure  == [kind |-> "error", docs |-> {}]
Found(S) == [kind |-> "docs", docs |-> S]

Content(i) == IF i \in Pages THEN Below[i] ELSE {i}
Contents(s) == UNION {Content(s[n]) : n \in DOMAIN s}

ASSUME EnumerationAssumption ==
  /\ producer \in Callers /\ Root \in Pages /\ Pages \cap Docs = {}
  /\ Reply \in [Pages -> Seq(Pages \cup Docs)] /\ Below \in [Pages -> SUBSET Docs]
  /\ \A p \in Pages : Below[p] = Contents(Reply[p])

VARIABLES
  prod,      \* the producer: "read", "replay", "fail", "close", "end"
  agenda,    \* what it has still to handle, depth first
  found,     \* documents found, or not replayed yet
  errc,      \* the channel of errors: "empty", "error", then "drained"; and
  errClosed, outClosed, \* are the channels closed?
  docOpen, errOpen,     \* does the engine still receive from them?
  got,       \* documents it has received
  answer     \* what collectEnumeration returns

producing == <<prod, agenda, found>>
channels  == <<errc, errClosed, outClosed>>
consuming == <<docOpen, errOpen, got, answer>>
enumeration == <<requests, cancelled, producing, channels, consuming>>

EnumerationInit ==
  /\ RequestsInit
  /\ prod = "read" /\ agenda = <<Root>> /\ found = <<>>
  /\ errc = "empty" /\ errClosed = FALSE /\ outClosed = FALSE
  /\ docOpen = TRUE /\ errOpen = TRUE /\ got = {} /\ answer = NoDocs

-----------------------------------------------------------------------------
(***************************************************************************)
(* The producer.                                                            *)
(***************************************************************************)
TakeDoc ==
  /\ prod = "read" /\ agenda # <<>> /\ Head(agenda) \in Docs
  /\ found' = Append(found, Head(agenda)) /\ agenda' = Tail(agenda)
  /\ UNCHANGED <<requests, cancelled, prod, channels, consuming>>

Reading == prod = "read" /\ agenda # <<>> /\ Head(agenda) \in Pages

\* (mutant of TakeReply) after a failed request the producer goes on with what
\* it has.
TakeReplyOrSkip ==
  /\ Reading /\ stage[producer] = "returned" /\ Reset(producer)
  /\ agenda' = (IF result[producer] = "data" THEN Reply[Head(agenda)] ELSE <<>>) \o Tail(agenda)
  /\ UNCHANGED <<prod, found, channels, consuming>>

TakeReply ==
  /\ Reading /\ stage[producer] = "returned" /\ Reset(producer)
  /\ IF result[producer] = "data"
     THEN agenda' = Reply[Head(agenda)] \o Tail(agenda) /\ UNCHANGED prod
     ELSE prod' = "fail" /\ UNCHANGED agenda
  /\ UNCHANGED <<found, channels, consuming>>

BeginReplay ==
  /\ prod = "read" /\ agenda = <<>> /\ prod' = "replay"
  /\ UNCHANGED <<requests, cancelled, agenda, found, channels, consuming>>

\* The hand-over on the unbuffered channel, a step of both.
HandOver ==
  /\ prod = "replay" /\ found # <<>> /\ answer = NoDocs /\ docOpen
  /\ got' = got \cup {Head(found)} /\ found' = Tail(found)
  /\ UNCHANGED <<requests, cancelled, prod, agenda, channels, docOpen, errOpen, answer>>

StopReplay ==
  /\ prod = "replay" /\ found # <<>> /\ cancelled /\ prod' = "fail"
  /\ UNCHANGED <<requests, cancelled, agenda, found, channels, consuming>>

\* (mutant of SendError) without its buffer the channel waits for the receiver.
SendErrorUnbuffered ==
  /\ prod = "fail" /\ prod' = "close" /\ answer = NoDocs /\ errc' = "error"
  /\ UNCHANGED <<requests, cancelled, agenda, found, errClosed, outClosed, consuming>>

\* The error goes to the buffer of its channel; the deferred closes follow.
SendError ==
  /\ prod = "fail" /\ prod' = "close" /\ errc' = "error"
  /\ UNCHANGED <<requests, cancelled, agenda, found, errClosed, outClosed, consuming>>
EndReplay ==
  /\ prod = "replay" /\ found = <<>> /\ prod' = "close"
  /\ UNCHANGED <<requests, cancelled, agenda, found, channels, consuming>>
Close ==
  /\ prod = "close"
  /\ IF ~errClosed THEN errClosed' = TRUE /\ UNCHANGED <<outClosed, prod>>
     ELSE outClosed' = TRUE /\ prod' = "end" /\ UNCHANGED errClosed
  /\ UNCHANGED <<requests, cancelled, agenda, found, errc, consuming>>

-----------------------------------------------------------------------------
(***************************************************************************)
(* The engine: collectEnumeration takes what is ready, in any order.        *)
(***************************************************************************)
Collecting == answer = NoDocs /\ (docOpen \/ errOpen)

SeeDocsClosed ==
  /\ Collecting /\ docOpen /\ outClosed /\ docOpen' = FALSE
  /\ UNCHANGED <<requests, cancelled, producing, channels, errOpen, got, answer>>
SeeErrorsClosed ==
  /\ Collecting /\ errOpen /\ errClosed /\ errc # "error" /\ errOpen' = FALSE
  /\ UNCHANGED <<requests, cancelled, producing, channels, docOpen, got, answer>>
ReceiveError ==
  /\ Collecting /\ errOpen /\ errc = "error" /\ errc' = "drained" /\ answer' = Failure
  /\ UNCHANGED <<requests, cancelled, producing, errClosed, outClosed, docOpen, errOpen, got>>
SeeCancelled ==
  /\ Collecting /\ cancelled /\ answer' = Failure
  /\ UNCHANGED <<requests, cancelled, producing, channels, docOpen, errOpen, got>>

Finished == ~docOpen /\ ~errOpen
Finish ==
  /\ answer = NoDocs /\ Finished /\ answer' = Found(got)
  /\ UNCHANGED <<requests, cancelled, producing, channels, docOpen, errOpen, got>>

Cancel ==
  /\ ~cancelled /\ cancelled' = TRUE
  /\ UNCHANGED <<requests, producing, channels, consuming>>

-----------------------------------------------------------------------------
Produce ==
  \/ TakeDoc \/ TakeReply \/ BeginReplay \/ HandOver \/ StopReplay \/ SendError
  \/ EndReplay \/ Close
  \/ Reading /\ Step(producer) /\ UNCHANGED <<producing, channels, consuming>>
Consume == SeeDocsClosed \/ SeeErrorsClosed \/ ReceiveError \/ SeeCancelled \/ Finish
Others ==
  \E c \in Callers \ {producer} : Step(c) /\ UNCHANGED <<producing, channels, consuming>>
Time == Tick /\ UNCHANGED <<producing, channels, consuming>>

EnumerationNext == Produce \/ Consume \/ Others \/ Time \/ Cancel

EnumerationSpec == EnumerationInit /\ [][EnumerationNext]_enumeration

\* Goroutines run, time passes, and the remote answers every request: the client
\* has no timeout of its own.
EnumerationFairSpec ==
  /\ EnumerationSpec /\ WF_enumeration(Produce) /\ WF_enumeration(Consume)
  /\ WF_enumeration(Others) /\ WF_enumeration(Time)

-----------------------------------------------------------------------------
(***************************************************************************)
(* Properties.                                                              *)
(***************************************************************************)
EnumerationTypeOK ==
  /\ RequestsTypeOK
  /\ prod \in {"read", "replay", "fail", "close", "end"}
  /\ agenda \in Seq(Pages \cup Docs) /\ found \in Seq(Docs) /\ got \subseteq Docs
  /\ errc \in {"empty", "error", "drained"}
  /\ errClosed \in BOOLEAN /\ outClosed \in BOOLEAN /\ docOpen \in BOOLEAN /\ errOpen \in BOOLEAN
  /\ answer \in {NoDocs, Failure} \cup {Found(S) : S \in SUBSET Docs}

\* The abstract specification, with answer in the place of answer.
C == INSTANCE Collection WITH Whole <- Found(Below[Root]), Error <- Failure, Nothing <- NoDocs

(* The inventory that the engine gets is whole or an error, whatever fails, is
   repeated, is cancelled or closed in whichever order; a part of it never passes
   for the whole, which the delete step would take for deletions.  And it does
   get one. *)
WholeOrError == C!FairSpec
WholeOrErrorSafe == C!Spec

(* The producer does not block on a channel that nobody receives from any more. *)
ProducerEnds == <>(prod = "end")
=============================================================================
