---------------------------- MODULE AlertDelivery ----------------------------
(***************************************************************************)
(* Delivery of stored alert events (workflows/deliver_alerts.py): a call   *)
(* reads what is due and not yet sent, asks the provider for one delivery  *)
(* after the other, and commits the outcome of each before the next.  The  *)
(* provider is asked outside any transaction, so a process that dies or    *)
(* loses the database after it was asked leaves no trace of the answer.    *)
(*                                                                         *)
(* A delivery is an event and one of its channels.  The queue holds the    *)
(* events in the order of deliver_after, which says both when an event may *)
(* be sent and what is sent first.                                         *)
(***************************************************************************)
EXTENDS Naturals, SequencesExt

CONSTANTS
    Events,         \* ids of alert_events
    Channels,       \* channel names, in their order
    Configured,     \* the channels with a configured provider
    Reliable,       \* those of them assumed to take a message in the end
    Workers,        \* processes that deliver alerts
    Runners         \* those of them that deliver on every tick: the home runner

ASSUME ChannelsAssumption ==
    /\ Channels \in Seq(ToSet(Channels)) /\ IsInjective(Channels)
    /\ Reliable \subseteq Configured
ASSUME RunnersAssumption == Runners \subseteq Workers

VARIABLES
    queue,          \* the stored events, by deliver_after
    ripe,           \* how many of them are past it
    recorded,       \* deliveries with an attempt of status 'sent'
    pc,             \* "idle", "working" or "answered"
    pending,        \* the deliveries a call has still to make
    answer,         \* the provider's last answer, not yet recorded
    \* What the provider knows.
    taken,          \* the deliveries it has taken, once or more
    acknowledged,   \* those whose taking it has told the program
    \* History.
    known           \* what was recorded when a call began, and what it recorded

vars == <<queue, ripe, recorded, pc, pending, answer, taken, acknowledged, known>>

Deliveries == Events \X ToSet(Channels)

TypeOK ==
    /\ queue \in Seq(Events)
    /\ ripe \in 0..Len(queue)
    /\ recorded \subseteq Deliveries
    /\ pc \in [Workers -> {"idle", "working", "answered"}]
    /\ pending \in [Workers -> Seq(Deliveries)]
    /\ answer \in [Workers -> {"none", "sent", "failed"}]
    /\ taken \subseteq Deliveries
    /\ acknowledged \subseteq Deliveries
    /\ known \in [Workers -> SUBSET Deliveries]

Ripe == ToSet(SubSeq(queue, 1, ripe))
Queued == ToSet(queue)
------------------------------------------------------------------------------
\* The rows _read_pending_deliveries selects.
\* Mutant: deliver_after is not asked for.
UnsentOfAll == (Queued \X ToSet(Channels)) \ recorded
\* Mutant: it is not asked whether the delivery was sent before.
UnsentOrSent == Ripe \X ToSet(Channels)
Unsent == (Ripe \X ToSet(Channels)) \ recorded

\* Its order: by the queue, and of one event by channel.
Precedes(s, a, b) == \E i, j \in DOMAIN s : i < j /\ s[i] = a /\ s[j] = b
Before(d, e) ==
    \/ Precedes(queue, d[1], e[1])
    \/ d[1] = e[1] /\ Precedes(Channels, d[2], e[2])
InOrder(S) ==
    {list \in Bijection(1..Cardinality(S), S) :
        \A i, j \in DOMAIN list : i < j => Before(list[i], list[j])}

Init ==
    /\ queue = <<>>
    /\ ripe = 0
    /\ recorded = {}
    /\ pc = [w \in Workers |-> "idle"]
    /\ pending = [w \in Workers |-> <<>>]
    /\ answer = [w \in Workers |-> "none"]
    /\ taken = {}
    /\ acknowledged = {}
    /\ known = [w \in Workers |-> {}]

\* A scrape stores an event (AlertEvents).  Its deliver_after is now or later.
Store(e) ==
    /\ e \notin Queued
    /\ \E i \in ripe + 1..Len(queue) + 1 : queue' = InsertAt(queue, i, e)
    /\ UNCHANGED <<ripe, recorded, pc, pending, answer, taken, acknowledged, known>>

\* deliver_after of the next event passes.
Ripen ==
    /\ ripe < Len(queue)
    /\ ripe' = ripe + 1
    /\ UNCHANGED <<queue, recorded, pc, pending, answer, taken, acknowledged, known>>

\* deliver_due_alerts_with_connection reads what is due.
ReadPending(w) ==
    /\ pc[w] = "idle"
    /\ Unsent # {}
    /\ pc' = [pc EXCEPT ![w] = "working"]
    /\ \E list \in InOrder(Unsent) : pending' = [pending EXCEPT ![w] = list]
    /\ known' = [known EXCEPT ![w] = recorded]
    /\ UNCHANGED <<queue, ripe, recorded, answer, taken, acknowledged>>

Current(w) == Head(pending[w])
IsCurrent(w, d) == pending[w] # <<>> /\ d = Current(w)
HasCurrent(w) == pc[w] = "working" /\ pending[w] # <<>>

\* What is left to do once a delivery is settled: the rest of the list.
\* Mutant: the call gives up when a provider fails.
RestIfSent(w) == IF answer[w] = "sent" THEN Tail(pending[w]) ELSE <<>>
Rest(w) == Tail(pending[w])

\* Mutant: the attempt gets a status the table does not allow.
AnsweredUnknown(w, result) ==
    /\ pc' = [pc EXCEPT ![w] = "answered"]
    /\ answer' = [answer EXCEPT ![w] = IF result = "sent" THEN "sent" ELSE "error"]
Answered(w, result) ==
    /\ pc' = [pc EXCEPT ![w] = "answered"]
    /\ answer' = [answer EXCEPT ![w] = result]

\* The channel has no provider: counted, and no attempt is made.
Unconfigured(w) ==
    /\ HasCurrent(w)
    /\ Current(w)[2] \notin Configured
    /\ pending' = [pending EXCEPT ![w] = Rest(w)]
    /\ UNCHANGED <<queue, ripe, recorded, pc, answer, taken, acknowledged, known>>

\* The provider takes the message and says so.
SendSucceeds(w) ==
    /\ HasCurrent(w)
    /\ Current(w)[2] \in Configured
    /\ taken' = taken \cup {Current(w)}
    /\ acknowledged' = acknowledged \cup {Current(w)}
    /\ Answered(w, "sent")
    /\ UNCHANGED <<queue, ripe, recorded, pending, known>>

\* The provider fails, raises, or takes the message without its answer
\* arriving in time: all of these are a failed attempt.
SendFails(w, took) ==
    /\ HasCurrent(w)
    /\ Current(w)[2] \in Configured
    /\ taken' = IF took THEN taken \cup {Current(w)} ELSE taken
    /\ Answered(w, "failed")
    /\ UNCHANGED <<queue, ripe, recorded, pending, acknowledged, known>>

\* The unique index on sent attempts.
Recordable(w) == answer[w] = "sent" => Current(w) \notin recorded

\* The attempt is committed.
RecordedAfter(w) == IF answer[w] = "sent" THEN recorded \cup {Current(w)} ELSE recorded

Record(w) ==
    /\ pc[w] = "answered"
    /\ Recordable(w)
    /\ recorded' = RecordedAfter(w)
    /\ pc' = [pc EXCEPT ![w] = "working"]
    /\ pending' = [pending EXCEPT ![w] = Rest(w)]
    /\ answer' = [answer EXCEPT ![w] = "none"]
    /\ known' = [known EXCEPT ![w] = @ \cup (recorded' \ recorded)]
    /\ UNCHANGED <<queue, ripe, taken, acknowledged>>

Leave(w) ==
    /\ pc' = [pc EXCEPT ![w] = "idle"]
    /\ pending' = [pending EXCEPT ![w] = <<>>]
    /\ answer' = [answer EXCEPT ![w] = "none"]
    /\ known' = [known EXCEPT ![w] = {}]
    /\ UNCHANGED <<queue, ripe, recorded, taken, acknowledged>>

\* Another process has recorded the same success: the insert raises, and the
\* call ends there.
RecordRefused(w) == pc[w] = "answered" /\ ~Recordable(w) /\ Leave(w)

Return(w) == pc[w] = "working" /\ pending[w] = <<>> /\ Leave(w)

\* The process is killed, or the database cannot be reached.
Crash(w) == pc[w] # "idle" /\ pending[w] # <<>> /\ Leave(w)

Ask(w) == SendSucceeds(w) \/ \E took \in BOOLEAN : SendFails(w, took)

Proceed(w) ==
    \/ ReadPending(w) \/ Unconfigured(w) \/ Ask(w)
    \/ Record(w) \/ RecordRefused(w) \/ Return(w)

Next ==
    \/ \E e \in Events : Store(e)
    \/ Ripen
    \/ \E w \in Workers : Proceed(w) \/ Crash(w)

Spec == Init /\ [][Next]_vars

(***************************************************************************)
(* Fairness.  Time passes, the home runner delivers on every tick, and its *)
(* call goes on until it ends (WF).  The machine does not kill every call  *)
(* at the same delivery, nor does the database refuse every outcome of it, *)
(* and a reliable channel takes a message it is asked to take often enough *)
(* (SF).  Nothing is assumed of the other channels and the other process.  *)
(***************************************************************************)
Fairness ==
    /\ WF_vars(Ripen)
    /\ \A w \in Runners :
          /\ WF_vars(Proceed(w))
          /\ \A d \in Deliveries :
                IF d[2] \in Reliable
                THEN /\ SF_vars(IsCurrent(w, d) /\ SendSucceeds(w))
                     /\ SF_vars(IsCurrent(w, d) /\ answer[w] = "sent" /\ (Record(w) \/ RecordRefused(w)))
                ELSE /\ SF_vars(IsCurrent(w, d) /\ (Unconfigured(w) \/ Ask(w)))
                     /\ SF_vars(IsCurrent(w, d) /\ Record(w))

FairSpec == Spec /\ Fairness
------------------------------------------------------------------------------
Outbox == INSTANCE AlertOutbox
          WITH promised <- Queued, due <- Ripe, confirmed <- recorded

\* Delivery keeps the promises of AlertOutbox: whoever sends and whenever it
\* dies, no event is lost from the queue, nothing leaves before its
\* deliver_after, and an attempt is committed as sent once and only for a
\* message that the provider has acknowledged.
KeepsOutbox == Outbox!Spec

Asks(w) == pc[w] = "working" /\ pc'[w] = "answered"

\* No call asks the provider for a delivery that had been recorded as sent when
\* it began, nor again for one it has itself recorded; a second process alone
\* can outdate its list.
RecordedIsFinal == [][\A w \in Workers : Asks(w) => Current(w) \notin known[w]]_vars

\* A stored event is sent through every reliable channel in the end, however
\* often calls die, and whatever the events and channels before it in the list
\* do: one that fails for ever, or has no provider, holds up nobody.
EverythingIsSent ==
    \A d \in Deliveries :
        d[2] \in Reliable => (d[1] \in Queued ~> d \in recorded)
==============================================================================
