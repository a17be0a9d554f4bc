------------------------------ MODULE LpClient ------------------------------
(***************************************************************************)
(* The LP's side of the router link: the supervisor task of the SDK that   *)
(* owns the websocket (run a connection, back off, reconnect, resume), its *)
(* reader task, the hands-free quoting loop, and the application that      *)
(* posts quotes, drains events and may drop the client at any point.  The  *)
(* router end is the environment: it reads frames, registers the last      *)
(* quote of a connection, hands notes over and may break the link.         *)
(*                                                                         *)
(* Connections are numbered by `era'.  A quote carries the era current     *)
(* when it was posted and the last era whose Reconnected event the         *)
(* application had taken by then; the code's quotes carry neither, the     *)
(* properties need both.  The pairs a tick of the loop prices are one.     *)
(***************************************************************************)
EXTENDS Integers, Sequences, SequencesExt

CONSTANTS
    MaxEra,     \* bound: connections the link goes through
    MaxAttempt, \* where the attempt counter saturates (u32::MAX)
    MaxLevel,   \* the backoff doubles MaxLevel times before RECONNECT_MAX
    MaxOut,     \* bound: messages queued for the supervisor
    MaxWire,    \* bound: frames in one direction of a connection
    MaxEvents   \* bound: events the application has not taken

ASSUME BoundsAssumption ==
    /\ MaxEra \in Nat \ {0} /\ MaxAttempt \in Nat /\ MaxLevel \in Nat /\ MaxLevel < MaxAttempt
    /\ MaxOut \in Nat \ {0} /\ MaxWire \in Nat \ {0} /\ MaxEvents \in Nat \ {0}

VARIABLES
    pc,       \* supervise: dial, run, backoff, connect, drain or gone
    era,      \* connections established so far
    attempt,  \* reconnect attempts since the last stable connection
    level,    \* delay = RECONNECT_MIN * 2^level, RECONNECT_MAX at MaxLevel
    stable,   \* the current connection has been up for STABLE_UPTIME
    out,      \* the outbound queue, out_rx
    inflight, \* the message sender_loop is writing: a sequence of at most one
    reader,   \* reader_loop: on, ended, aborted (may run to its next await), off
    link,     \* the socket of the current era still works
    c2s,      \* frames on their way to the router, by era
    s2c,      \* eras of the handovers on their way to the client
    reg,      \* the quote the router holds for each era: at most one
    events,   \* LpEvents emitted and not yet taken
    seen,     \* the era of the last Reconnected the application took
    dropped,  \* the LpClient, and with it the event receiver, is gone
    quoter,   \* quote_loop: off, on or stopped
    \* ---- bookkeeping of the model
    tries     \* Reconnecting announced since a connection last lasted STABLE_UPTIME

supVars == <<pc, era, attempt, level, stable, tries>>
connVars == <<inflight, reader, link, s2c>>
appVars == <<seen, dropped, quoter>>
vars == <<pc, era, attempt, level, stable, out, inflight, reader, link, c2s,
          s2c, reg, events, seen, dropped, quoter, tries>>

Eras == 1..MaxEra
Quote == [era : 0..MaxEra, seen : 0..MaxEra]
Event == [kind : {"AuthOk", "Handover", "Reconnecting", "Reconnected", "Disconnected"},
          era : 0..MaxEra]

Init ==
    /\ pc = "dial" /\ era = 0 /\ attempt = 0 /\ level = 0 /\ stable = FALSE
    /\ out = <<>> /\ inflight = <<>> /\ reader = "off" /\ link = FALSE
    /\ c2s = [e \in Eras |-> <<>>] /\ s2c = <<>> /\ reg = [e \in Eras |-> <<>>]
    /\ events = <<>> /\ seen = 0 /\ dropped = FALSE /\ quoter = "off" /\ tries = 0

(* A send on the event channel: ignored once the receiver is gone. *)
Emit(kind, e) ==
    /\ Len(events) < MaxEvents
    /\ events' = IF dropped THEN events ELSE Append(events, [kind |-> kind, era |-> e])

(* attempt.saturating_add(1). *)
Another(n) == IF n < MaxAttempt THEN n + 1 ELSE n

(* The head of the reconnect loop, with the client still there: the attempt *)
(* after `from' others is counted and announced.                           *)
Announce(from) ==
    /\ pc' = "backoff" /\ attempt' = Another(from)
    /\ Emit("Reconnecting", era)
    /\ tries' = Another(tries)

(* A socket is up and run_connection has spawned its reader. *)
RunConnection ==
    /\ pc' = "run" /\ stable' = FALSE
    /\ inflight' = <<>> /\ reader' = "on"

(***************************************************************************)
(* The supervisor.                                                         *)
(***************************************************************************)

(* LpClient::connect: the first dial, then supervise announces AuthOk. *)
Connect ==
    /\ pc = "dial"
    /\ era' = 1 /\ link' = TRUE /\ s2c' = <<>>
    /\ Emit("AuthOk", 1)
    /\ RunConnection
    /\ UNCHANGED <<attempt, level, tries, out, c2s, reg, appVars>>

(* A bad url or token on the first dial: connect returns the error and no   *)
(* client, so there is nobody left to use it.                              *)
ConnectFails ==
    /\ pc = "dial"
    /\ pc' = "gone" /\ dropped' = TRUE
    /\ UNCHANGED <<era, attempt, level, stable, tries, out, connVars, c2s, reg, events,
                   seen, quoter>>

(* The end of run_connection: the reader is aborted, not awaited; the      *)
(* sender's message, and the socket, are dropped with its future.          *)
EndConnection ==
    /\ inflight' = <<>> /\ link' = FALSE
    /\ reader' = IF reader = "on" THEN "aborted" ELSE "off"

(* Mutant of LinkDropped: every drop starts over, stable or not. *)
LinkDroppedStartsOver ==
    /\ EndConnection
    /\ level' = 0 /\ stable' = FALSE
    /\ IF dropped
         THEN pc' = "gone" /\ out' = <<>> /\ attempt' = 0 /\ UNCHANGED <<events, tries>>
         ELSE Announce(0) /\ UNCHANGED out
    /\ UNCHANGED <<era, c2s, s2c, reg, appVars>>

(* ConnEnd::Dropped: the backoff is reset only by a connection that lasted; *)
(* then the head of the reconnect loop, which announces the attempt.       *)
LinkDropped ==
    LET from == IF stable THEN 0 ELSE attempt
    IN  /\ EndConnection
        /\ level' = IF stable THEN 0 ELSE level
        /\ IF dropped
             THEN pc' = "gone" /\ out' = <<>> /\ attempt' = from /\ UNCHANGED <<events, tries>>
             ELSE Announce(from) /\ UNCHANGED out
        /\ stable' = FALSE
        /\ UNCHANGED <<era, c2s, s2c, reg, appVars>>

(* ConnEnd::ClientGone: the supervisor returns and out_rx is dropped. *)
ClientGone ==
    /\ pc' = "gone" /\ out' = <<>>
    /\ EndConnection
    /\ UNCHANGED <<era, attempt, level, stable, tries, c2s, s2c, reg, events, appVars>>

(* The first arm of run_connection's select: the reader returned. *)
ReaderReturned ==
    /\ pc = "run" /\ reader = "ended"
    /\ IF dropped THEN ClientGone ELSE LinkDropped

(* Mutant of SenderSeesClosed: only the end of all senders ends the link. *)
SenderSeesNoSenders ==
    /\ pc = "run" /\ inflight = <<>> /\ dropped /\ quoter # "on"
    /\ ClientGone

(* sender_loop, idle: the event receiver is gone. *)
SenderSeesClosed ==
    /\ pc = "run" /\ inflight = <<>> /\ dropped
    /\ ClientGone

(* sender_loop, idle: take the next message and start writing it. *)
SenderTakes ==
    /\ pc = "run" /\ inflight = <<>> /\ out # <<>>
    /\ inflight' = <<Head(out)>> /\ out' = Tail(out)
    /\ UNCHANGED <<supVars, reader, link, c2s, s2c, reg, events, appVars>>

(* sender_loop, writing: the write completes when the socket has room.  A   *)
(* dead socket may swallow some before the transport reports it...         *)
SenderWrites ==
    /\ pc = "run" /\ inflight # <<>>
    /\ IF link
         THEN Len(c2s[era]) < MaxWire /\ c2s' = [c2s EXCEPT ![era] = @ \o inflight]
         ELSE UNCHANGED c2s
    /\ inflight' = <<>>
    /\ UNCHANGED <<supVars, out, reader, link, s2c, reg, events, appVars>>

(* Mutant of SenderFails: the error is logged and the loop goes on. *)
SenderFailsOnlyLogs ==
    /\ pc = "run" /\ inflight # <<>> /\ ~link
    /\ inflight' = <<>>
    /\ UNCHANGED <<supVars, out, reader, link, c2s, s2c, reg, events, appVars>>

(* ... and then the write fails. *)
SenderFails ==
    /\ pc = "run" /\ inflight # <<>> /\ ~link
    /\ LinkDropped

(* The backoff sleep ends.  The code does not wait for an aborted reader:   *)
(* the guard on it is an assumption about time, that the runtime drops the *)
(* task within the sleep, which lasts at least RECONNECT_MIN (500 ms).     *)
BackoffEnds ==
    /\ pc = "backoff" /\ reader = "off"
    /\ pc' = "connect"
    /\ level' = IF level < MaxLevel THEN level + 1 ELSE level
    /\ UNCHANGED <<era, attempt, stable, tries, out, connVars, c2s, reg, events, appVars>>

(* connect_and_auth succeeds: a new socket, not yet read from. *)
ReconnectOk ==
    /\ pc = "connect" /\ era < MaxEra
    /\ pc' = "drain" /\ era' = era + 1 /\ link' = TRUE /\ s2c' = <<>>
    /\ UNCHANGED <<attempt, level, stable, tries, out, inflight, reader, c2s, reg,
                   events, appVars>>

(* Mutant of ReconnectFails: any failure is announced as the end. *)
ReconnectFailsDisconnects ==
    /\ pc = "connect" /\ ~dropped
    /\ pc' = "backoff" /\ attempt' = Another(attempt) /\ tries' = Another(tries)
    /\ Emit("Disconnected", era)
    /\ UNCHANGED <<era, level, stable, out, connVars, c2s, reg, appVars>>

(* A transport error: the head of the reconnect loop again, as often as the *)
(* router is not there.                                                    *)
ReconnectFails ==
    /\ pc = "connect"
    /\ IF dropped
         THEN pc' = "gone" /\ out' = <<>> /\ UNCHANGED <<attempt, events, tries>>
         ELSE Announce(attempt) /\ UNCHANGED out
    /\ UNCHANGED <<era, level, stable, connVars, c2s, reg, appVars>>

(* HTTP 401: the supervisor gives up for good. *)
ReconnectRejected ==
    /\ pc = "connect"
    /\ Emit("Disconnected", era)
    /\ pc' = "gone" /\ out' = <<>>
    /\ UNCHANGED <<era, attempt, level, stable, tries, connVars, c2s, reg, appVars>>

(* Mutant of Drain: the queue survives the outage. *)
DrainKeepsQueue ==
    /\ pc = "drain"
    /\ Emit("Reconnected", era)
    /\ RunConnection
    /\ UNCHANGED <<era, attempt, level, tries, out, link, c2s, s2c, reg, appVars>>

(* What queued during the outage is discarded, then the link is announced  *)
(* and the next connection runs.                                           *)
Drain ==
    /\ pc = "drain"
    /\ out' = <<>>
    /\ Emit("Reconnected", era)
    /\ RunConnection
    /\ UNCHANGED <<era, attempt, level, tries, link, c2s, s2c, reg, appVars>>

(* STABLE_UPTIME goes by on the current connection. *)
StableUptime ==
    /\ pc = "run" /\ ~stable
    /\ stable' = TRUE /\ tries' = 0
    /\ UNCHANGED <<pc, era, attempt, level, out, connVars, c2s, reg, events, appVars>>

(***************************************************************************)
(* The reader task.                                                        *)
(***************************************************************************)

(* A handover frame becomes an event; with the receiver gone the reader     *)
(* returns.  An aborted reader may still do this before its next await.    *)
ReaderForwards ==
    /\ reader \in {"on", "aborted"} /\ s2c # <<>>
    /\ s2c' = Tail(s2c)
    /\ Emit("Handover", Head(s2c))
    /\ reader' = IF ~dropped THEN reader ELSE IF reader = "on" THEN "ended" ELSE "off"
    /\ UNCHANGED <<supVars, out, inflight, link, c2s, reg, appVars>>

(* A close frame, a read error or the end of the stream. *)
ReaderEnds ==
    /\ reader = "on" /\ ~link
    /\ reader' = "ended"
    /\ UNCHANGED <<supVars, out, inflight, link, c2s, s2c, reg, events, appVars>>

(* The runtime drops the aborted task at its next await. *)
ReaderAborted ==
    /\ reader = "aborted"
    /\ reader' = "off"
    /\ UNCHANGED <<supVars, out, inflight, link, c2s, s2c, reg, events, appVars>>

(***************************************************************************)
(* The application and its quoting loop.                                   *)
(***************************************************************************)

(* LpSender::send succeeds while the supervisor holds out_rx. *)
Enqueue ==
    /\ pc \notin {"dial", "gone"} /\ Len(out) < MaxOut
    /\ out' = Append(out, [era |-> era, seen |-> seen])

(* LpSender::quote by the application; a zero amount or a closed queue is   *)
(* an error that changes nothing.                                          *)
AppQuote ==
    /\ Enqueue
    /\ UNCHANGED <<supVars, connVars, c2s, reg, events, appVars>>

(* next_event. *)
NextEvent ==
    /\ ~dropped /\ events # <<>>
    /\ events' = Tail(events)
    /\ seen' = IF Head(events).kind = "Reconnected" THEN Head(events).era ELSE seen
    /\ UNCHANGED <<supVars, out, connVars, c2s, reg, dropped, quoter>>

(* The LpClient goes out of scope; senders cloned from it may live on. *)
AppDrops ==
    /\ pc # "dial" /\ ~dropped
    /\ dropped' = TRUE /\ events' = <<>>
    /\ UNCHANGED <<supVars, out, connVars, c2s, reg, seen, quoter>>

ServeQuotes ==
    /\ pc # "dial" /\ ~dropped /\ quoter = "off"
    /\ quoter' = "on"
    /\ UNCHANGED <<supVars, out, connVars, c2s, reg, events, seen, dropped>>

(* Mutant of QuoteTick: the loop is bound to the first connection. *)
QuoteTickFirstLink ==
    /\ quoter = "on" /\ era = 1
    /\ Enqueue
    /\ UNCHANGED <<supVars, connVars, c2s, reg, events, appVars>>

(* One tick of quote_loop: the price function has a quote for the pair. *)
QuoteTick ==
    /\ quoter = "on"
    /\ Enqueue
    /\ UNCHANGED <<supVars, connVars, c2s, reg, events, appVars>>

(* The loop finds its queue closed and returns, or QuoteTask::abort. *)
QuoterStops ==
    /\ quoter = "on" /\ pc = "gone"
    /\ quoter' = "stopped"
    /\ UNCHANGED <<supVars, out, connVars, c2s, reg, events, seen, dropped>>

QuoterAborted ==
    /\ quoter = "on"
    /\ quoter' = "stopped"
    /\ UNCHANGED <<supVars, out, connVars, c2s, reg, events, seen, dropped>>

(***************************************************************************)
(* The router end.                                                         *)
(***************************************************************************)

(* The router takes a frame and replaces the connection's quote; frames     *)
(* written before a drop may still arrive after it.                        *)
RouterReads(e) ==
    /\ c2s[e] # <<>>
    /\ reg' = [reg EXCEPT ![e] = <<Head(c2s[e])>>]
    /\ c2s' = [c2s EXCEPT ![e] = Tail(@)]
    /\ UNCHANGED <<supVars, out, connVars, events, appVars>>

(* A note handed over against the current connection's quote. *)
RouterHandsOver ==
    /\ link /\ pc # "dial" /\ reg[era] # <<>> /\ Len(s2c) < MaxWire
    /\ s2c' = Append(s2c, era)
    /\ UNCHANGED <<supVars, out, inflight, reader, link, c2s, reg, events, appVars>>

(* The socket breaks, or the router closes it; not in the last era, so     *)
(* that one lasts.  When the router forgets a closed connection's quote is  *)
(* Router's subject: here it is kept.                                      *)
LinkBreaks ==
    /\ link /\ era < MaxEra
    /\ link' = FALSE
    /\ UNCHANGED <<supVars, out, inflight, reader, c2s, s2c, reg, events, appVars>>

(* The supervisor, the application and the loop have all finished. *)
Ended ==
    /\ pc = "gone" /\ dropped /\ quoter # "on"
    /\ UNCHANGED vars

Supervisor ==
    \/ Connect \/ ReaderReturned \/ SenderSeesClosed \/ SenderTakes \/ SenderWrites
    \/ SenderFails \/ BackoffEnds \/ ReconnectOk \/ Drain

Next ==
    \/ Supervisor \/ ConnectFails \/ ReconnectFails \/ ReconnectRejected \/ StableUptime
    \/ ReaderForwards \/ ReaderEnds \/ ReaderAborted
    \/ AppQuote \/ NextEvent \/ AppDrops \/ ServeQuotes
    \/ QuoteTick \/ QuoterStops \/ QuoterAborted
    \/ \E e \in Eras : RouterReads(e)
    \/ RouterHandsOver \/ LinkBreaks \/ Ended

Spec == Init /\ [][Next]_vars

(***************************************************************************)
(* Fairness.  The tasks run whenever they can.  tokio's select picks among *)
(* ready arms at random, so an arm that is ready again and again is taken  *)
(* (SF); a write to a dead socket is not swallowed forever; the price      *)
(* function has a quote again and again.  A dial comes back: connect_async *)
(* has no timeout of its own, so this is the transport's.  Which answer it *)
(* brings is free: the router may stay away for ever.  Nothing is assumed  *)
(* of the reader of a dead socket: a link may die without the stream ever  *)
(* ending.                                                                 *)
(***************************************************************************)
Fairness ==
    /\ SF_vars(ReaderReturned) /\ SF_vars(SenderSeesClosed) /\ SF_vars(SenderFails)
    /\ WF_vars(SenderTakes) /\ WF_vars(SenderWrites)
    /\ WF_vars(BackoffEnds) /\ WF_vars(Drain)
    /\ WF_vars(ReconnectOk \/ ReconnectFails \/ ReconnectRejected)
    /\ WF_vars(ReaderForwards) /\ WF_vars(ReaderAborted)
    /\ WF_vars(NextEvent) /\ SF_vars(QuoteTick) /\ WF_vars(QuoterStops)
    /\ \A e \in Eras : WF_vars(RouterReads(e))

FairSpec == Spec /\ Fairness

(***************************************************************************)
(* Properties.                                                             *)
(***************************************************************************)

TypeOK ==
    /\ pc \in {"dial", "run", "backoff", "connect", "drain", "gone"}
    /\ era \in 0..MaxEra /\ attempt \in 0..MaxAttempt /\ level \in 0..MaxLevel
    /\ stable \in BOOLEAN /\ link \in BOOLEAN /\ dropped \in BOOLEAN
    /\ out \in Seq(Quote) /\ inflight \in Seq(Quote) /\ s2c \in Seq(Eras)
    /\ reader \in {"on", "ended", "aborted", "off"}
    /\ c2s \in [Eras -> Seq(Quote)] /\ reg \in [Eras -> Seq(Quote)]
    /\ events \in Seq(Event) /\ seen \in 0..MaxEra
    /\ quoter \in {"off", "on", "stopped"} /\ tries \in 0..MaxAttempt

(* "Anything still queued when the link drops is discarded on reconnect":   *)
(* every quote that reaches the router over a connection, or that it holds *)
(* for one, was posted during that connection, whatever was queued, being  *)
(* written or on the wire when an earlier one died (client.rs, supervise). *)
(* "After a Reconnected, re-post your quote": one posted in answer to it is *)
(* never among those about to be discarded, as the drain comes first.       *)
NoStaleQuoteOnLink ==
    /\ \A e \in Eras : \A q \in ToSet(c2s[e]) \cup ToSet(reg[e]) : q.era = e
    /\ pc = "drain" => \A q \in ToSet(out) : q.seen < era

(* The order LpEvent documents.  AuthOk is first, Reconnected separates the *)
(* handovers of one connection from those of the next although the old     *)
(* reader is aborted and not awaited, and nothing follows Disconnected.    *)
EventOrder ==
    \A i, j \in 1..Len(events) : i < j =>
        /\ events[i].era <= events[j].era
        /\ events[j].kind = "Reconnected" => events[i].era < events[j].era
        /\ events[j].kind # "AuthOk" /\ events[i].kind # "Disconnected"

(* The delay and the attempt announced follow the reconnects since a        *)
(* connection last stayed up for STABLE_UPTIME, and nothing else: a router  *)
(* that accepts and drops at once is backed off from although every connect *)
(* succeeds, up to RECONNECT_MAX.  Every variable keeps its type.          *)
BackoffFollowsAttempts ==
    /\ TypeOK
    /\ LET slept == IF pc = "backoff" THEN tries - 1 ELSE tries
       IN  ~stable => /\ attempt = tries
                      /\ level = IF slept < MaxLevel THEN slept ELSE MaxLevel

(* Dropping the client tears everything down even if a cloned sender keeps  *)
(* quoting: the supervisor returns from wherever it is (from a dial, when   *)
(* the dial returns), and through the queue it closes the quoting loop     *)
(* returns too.                                                            *)
DroppedClientEnds == dropped ~> (pc = "gone" /\ quoter # "on")

(* While quotes are served a dead link is always noticed, by a failing      *)
(* write if not by the reader, and the router dialled anew or given up.    *)
(* That the dial succeeds is up to the router.                             *)
DeadLinkRedialled ==
    (pc = "run" /\ ~link /\ quoter = "on") ~> (pc \in {"connect", "gone"} \/ quoter # "on")

(* "Across a reconnect the loop keeps ticking, so quoting resumes on its    *)
(* own": on every connection that lasts the router comes to hold a quote.  *)
QuotingResumes ==
    (pc = "run" /\ quoter = "on")
        ~> (pc # "run" \/ reg[era] # <<>> \/ ~link \/ quoter # "on" \/ dropped)

=============================================================================
