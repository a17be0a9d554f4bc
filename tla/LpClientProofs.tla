--------------------------- MODULE LpClientProofs ---------------------------
(* What holds of the LP's client for any number of connections, attempts,   *)
(* queued quotes and events.                                                *)
EXTENDS LpClient, TLAPS

(* Before the first dial there is no connection, nothing queued and nothing *)
(* announced; a link is that of a connection.                               *)
EraInv ==
    /\ pc = "dial" => era = 0 /\ out = <<>> /\ events = <<>> /\ reader = "off"
    /\ pc \notin {"dial", "gone"} => era \in Eras
    /\ era = 0 => link = FALSE

(* TypeOK but for the counters of the backoff, in two parts: the provers    *)
(* treat Boolean variables apart.                                           *)
Flags == stable \in BOOLEAN /\ link \in BOOLEAN /\ dropped \in BOOLEAN
Typed ==
    /\ pc \in {"dial", "run", "backoff", "connect", "drain", "gone"}
    /\ era \in 0..MaxEra
    /\ out \in Seq(Quote) /\ inflight \in Seq(Quote) /\ s2c \in Seq(Eras)
    /\ reader \in {"on", "ended", "aborted", "off"}
    /\ c2s \in [Eras -> Seq(Quote)] /\ reg \in [Eras -> Seq(Quote)]
    /\ events \in Seq(Event) /\ seen \in 0..MaxEra
    /\ quoter \in {"off", "on", "stopped"}
    /\ EraInv

(* The types hold at the start, and every step keeps them.                  *)
LEMMA TypeInit == Init => Flags /\ Typed
<1> SUFFICES ASSUME Init PROVE Flags /\ Typed
  OBVIOUS
<1>1. Flags
  BY Zenon DEF Init, Flags
<1>2. era \in 0..MaxEra /\ seen \in 0..MaxEra
  BY BoundsAssumption DEF Init
<1>3. out \in Seq(Quote) /\ inflight \in Seq(Quote) /\ s2c \in Seq(Eras) /\ events \in Seq(Event)
  BY DEF Init
<1>4. c2s \in [Eras -> Seq(Quote)] /\ reg \in [Eras -> Seq(Quote)]
  BY DEF Init
<1> QED
  BY <1>1, <1>2, <1>3, <1>4 DEF Init, Typed, EraInv

(* No step gives a flag another type.                                       *)
LEMMA FlagStep ==
    ASSUME Flags, [Next]_vars
    PROVE  Flags'
<1> USE DEF Flags
<1>1. CASE UNCHANGED <<stable, link, dropped>>
  BY <1>1
<1>2. CASE ClientGone \/ LinkDropped
  BY <1>2, Zenon DEF ClientGone, LinkDropped, EndConnection, appVars
<1>3. CASE Connect \/ Drain
  BY <1>3, Zenon DEF Connect, Drain, RunConnection, appVars
<1>4. CASE ConnectFails \/ ReconnectOk \/ StableUptime \/ AppDrops \/ LinkBreaks
  BY <1>4, Zenon DEF ConnectFails, ReconnectOk, StableUptime, AppDrops, LinkBreaks, supVars, connVars, appVars
<1> QED
  BY <1>1, <1>2, <1>3, <1>4 DEF Next, Supervisor, ReaderReturned, SenderSeesClosed, SenderTakes, SenderWrites,
     SenderFails, BackoffEnds, ReconnectFails, ReconnectRejected, ReaderForwards, ReaderEnds, ReaderAborted,
     AppQuote, NextEvent, ServeQuotes, QuoteTick, QuoterStops, QuoterAborted, RouterReads, RouterHandsOver,
     Ended, supVars, connVars, appVars, vars

(* What is announced is an event.                                           *)
LEMMA EmitTyped ==
    ASSUME events \in Seq(Event), NEW e \in 0..MaxEra,
           NEW k \in {"AuthOk", "Handover", "Reconnecting", "Reconnected", "Disconnected"}, Emit(k, e)
    PROVE  events' \in Seq(Event)
<1>1. [kind |-> k, era |-> e] \in Event
  BY DEF Event
<1>2. CASE dropped
  BY <1>2 DEF Emit
<1>3. CASE ~dropped
  BY <1>1, <1>3 DEF Emit
<1> QED
  BY <1>2, <1>3

(* The end of a connection keeps the other types.                           *)
LEMMA DropTyped ==
    ASSUME Typed, pc = "run", ClientGone \/ LinkDropped
    PROVE  Typed'
<1> USE DEF Typed, EraInv
<1>1. inflight' = <<>> /\ link' = FALSE /\ reader' \in {"aborted", "off"} /\ UNCHANGED <<era, c2s, s2c, reg, seen, quoter>>
  BY DEF ClientGone, LinkDropped, EndConnection, appVars
<1>2. pc' \in {"gone", "backoff"} /\ out' \in Seq(Quote)
  <2>1. CASE ClientGone
    BY <2>1 DEF ClientGone
  <2>2. CASE LinkDropped /\ dropped
    BY <2>2 DEF LinkDropped
  <2>3. CASE LinkDropped /\ ~dropped
    BY <2>3 DEF LinkDropped, Announce
  <2> QED
    BY <2>1, <2>2, <2>3
<1>3. events' \in Seq(Event)
  BY EmitTyped DEF ClientGone, LinkDropped, Announce
<1> QED
  BY <1>1, <1>2, <1>3 DEF Eras

(* No other step gives a variable another type either.                      *)
LEMMA TypeStep ==
    ASSUME Typed, [Next]_vars
    PROVE  Typed'
<1> USE BoundsAssumption DEF Typed, EraInv, Eras
<1>0. CASE UNCHANGED vars
  BY <1>0 DEF vars
<1>1. CASE Connect
  <2>1. events' \in Seq(Event)
    BY <1>1, EmitTyped DEF Connect
  <2> QED
    BY <1>1, <2>1 DEF Connect, RunConnection, appVars
<1>2. CASE ConnectFails
  BY <1>2 DEF ConnectFails, connVars
<1>3. CASE ReaderReturned
  BY <1>3, DropTyped, Zenon DEF ReaderReturned
<1>4. CASE SenderSeesClosed
  BY <1>4, DropTyped, Zenon DEF SenderSeesClosed
<1>5. CASE SenderTakes
  BY <1>5 DEF SenderTakes, supVars, appVars
<1>6. CASE SenderWrites
  <2>1. UNCHANGED <<pc, era, out, reader, s2c, reg, events, seen, quoter>> /\ link' = link /\ inflight' = <<>>
    BY <1>6 DEF SenderWrites, supVars, appVars
  <2>2. c2s[era] \o inflight \in Seq(Quote)
    BY <1>6 DEF SenderWrites
  <2>3. c2s' = c2s \/ c2s' = [c2s EXCEPT ![era] = c2s[era] \o inflight]
    BY <1>6, Zenon DEF SenderWrites
  <2>4. c2s' \in [Eras -> Seq(Quote)]
    BY <2>2, <2>3, Zenon
  <2> QED
    BY <2>1, <2>4
<1>7. CASE SenderFails
  BY <1>7, DropTyped, Zenon DEF SenderFails
<1>8. CASE BackoffEnds
  BY <1>8 DEF BackoffEnds, connVars, appVars
<1>9. CASE ReconnectOk
  BY <1>9 DEF ReconnectOk, appVars
<1>10. CASE ReconnectFails
  <2>1. CASE dropped
    BY <1>10, <2>1 DEF ReconnectFails, Announce, connVars, appVars
  <2>2. CASE ~dropped
    <3>1. events' \in Seq(Event)
      BY <1>10, <2>2, EmitTyped DEF ReconnectFails, Announce
    <3> QED
      BY <1>10, <2>2, <3>1 DEF ReconnectFails, Announce, connVars, appVars
  <2> QED
    BY <2>1, <2>2, Zenon
<1>11. CASE ReconnectRejected
  <2>1. events' \in Seq(Event)
    BY <1>11, EmitTyped DEF ReconnectRejected
  <2> QED
    BY <1>11, <2>1 DEF ReconnectRejected, connVars, appVars
<1>12. CASE Drain
  <2>1. events' \in Seq(Event)
    BY <1>12, EmitTyped DEF Drain
  <2> QED
    BY <1>12, <2>1 DEF Drain, RunConnection, appVars
<1>13. CASE StableUptime
  BY <1>13 DEF StableUptime, connVars, appVars
<1>14. CASE ReaderForwards
  <2>1. Head(s2c) \in 0..MaxEra /\ s2c' \in Seq(Eras)
    BY <1>14, SMTT(15) DEF ReaderForwards
  <2>2. events' \in Seq(Event)
    BY <1>14, <2>1, EmitTyped DEF ReaderForwards
  <2>3. UNCHANGED <<pc, era, out, inflight, c2s, reg, seen, quoter>> /\ link' = link
    BY <1>14 DEF ReaderForwards, supVars, appVars
  <2>4. reader' \in {"on", "aborted", "ended", "off"} /\ s2c # <<>>
    BY <1>14 DEF ReaderForwards
  <2>5. pc # "dial"
    BY <1>14 DEF ReaderForwards
  <2> QED
    BY <2>1, <2>2, <2>3, <2>4, <2>5, Zenon
<1>15. CASE ReaderEnds \/ ReaderAborted
  <2>1. UNCHANGED <<pc, era, out, inflight, c2s, s2c, reg, events, seen, quoter>> /\ link' = link
    BY <1>15 DEF ReaderEnds, ReaderAborted, supVars, appVars
  <2>2. reader' \in {"ended", "off"} /\ pc # "dial"
    BY <1>15 DEF ReaderEnds, ReaderAborted
  <2> QED
    BY <2>1, <2>2
<1>16. CASE AppQuote \/ QuoteTick
  <2>1. UNCHANGED <<pc, era, inflight, reader, c2s, s2c, reg, events, seen, quoter>> /\ link' = link
    BY <1>16 DEF AppQuote, QuoteTick, supVars, connVars, appVars
  <2>2. [era |-> era, seen |-> seen] \in Quote
    BY DEF Quote
  <2>3. out' = Append(out, [era |-> era, seen |-> seen]) /\ pc # "dial"
    BY <1>16, Zenon DEF AppQuote, QuoteTick, Enqueue
  <2>4. out' \in Seq(Quote)
    BY <2>2, <2>3
  <2> QED
    BY <2>1, <2>3, <2>4
<1>17. CASE NextEvent
  <2>1. UNCHANGED <<pc, era, out, inflight, reader, c2s, s2c, reg, quoter>> /\ link' = link
    BY <1>17 DEF NextEvent, supVars, connVars
  <2>2. Head(events) \in Event /\ events' \in Seq(Event) /\ events # <<>>
    BY <1>17 DEF NextEvent
  <2>3. seen' \in 0..MaxEra
    BY <1>17, <2>2 DEF NextEvent, Event
  <2> QED
    BY <2>1, <2>2, <2>3
<1>18. CASE AppDrops \/ ServeQuotes \/ QuoterStops \/ QuoterAborted
  <2>1. UNCHANGED <<pc, era, out, inflight, reader, c2s, s2c, reg, seen>> /\ link' = link
    BY <1>18 DEF AppDrops, ServeQuotes, QuoterStops, QuoterAborted, supVars, connVars
  <2>2. (events' = events \/ events' = <<>>) /\ quoter' \in {quoter, "on", "stopped"}
    BY <1>18 DEF AppDrops, ServeQuotes, QuoterStops, QuoterAborted
  <2>3. <<>> \in Seq(Event)
    OBVIOUS
  <2>4. events' \in Seq(Event)
    BY <2>2, <2>3, Zenon
  <2> QED
    BY <2>1, <2>2, <2>4, Zenon
<1>19. ASSUME NEW e \in Eras, RouterReads(e) PROVE Typed'
  BY <1>19 DEF RouterReads, supVars, connVars, appVars
<1>20. CASE RouterHandsOver \/ LinkBreaks
  <2>1. UNCHANGED <<pc, era, out, inflight, reader, c2s, reg, events, seen, quoter>> /\ link' \in {link, FALSE}
    BY <1>20, Zenon DEF RouterHandsOver, LinkBreaks, supVars, appVars
  <2>2. RouterHandsOver => era \in Eras
    BY DEF RouterHandsOver
  <2>3. s2c' \in Seq(Eras)
    <3>1. CASE RouterHandsOver
      BY <2>2, <3>1 DEF RouterHandsOver
    <3>2. CASE LinkBreaks
      BY <3>2 DEF LinkBreaks
    <3> QED
      BY <1>20, <3>1, <3>2
  <2> QED
    BY <2>1, <2>3, Zenon
<1>21. CASE Ended
  BY <1>21 DEF Ended, vars
<1> QED
  BY <1>0, <1>1, <1>2, <1>3, <1>4, <1>5, <1>6, <1>7, <1>8, <1>9, <1>10, <1>11, <1>12, <1>13, <1>14,
     <1>15, <1>16, <1>17, <1>18, <1>19, <1>20, <1>21, Zenon DEF Next, Supervisor

-----------------------------------------------------------------------------
(* The events.                                                              *)

(* EventOrder of a sequence, and the last connection it may speak of: while *)
(* the queue is drained the new one is not announced yet.                   *)
Ordered(s) ==
    \A i, j \in 1..Len(s) : i < j =>
        /\ s[i].era <= s[j].era
        /\ s[j].kind = "Reconnected" => s[i].era < s[j].era
        /\ s[j].kind # "AuthOk" /\ s[i].kind # "Disconnected"
Heard == IF pc = "drain" THEN era - 1 ELSE era

(* What makes the order inductive: the handovers on the wire belong to the  *)
(* current connection, the aborted reader is gone before the next connect,  *)
(* and nobody announces anything after Disconnected.                        *)
EventInv ==
    /\ Ordered(events)
    /\ \A i \in 1..Len(events) :
         /\ events[i].era <= Heard
         /\ events[i].kind = "Disconnected" => pc = "gone" /\ reader = "off"
    /\ \A i \in 1..Len(s2c) : s2c[i] = era
    /\ pc \in {"connect", "drain"} => reader = "off"

(* An event may be added that is no older than those before it.             *)
LEMMA AppendOrdered ==
    ASSUME NEW s \in Seq(Event), Ordered(s), NEW x \in Event,
           \A i \in 1..Len(s) : s[i].era <= x.era /\ s[i].kind # "Disconnected",
           x.kind = "Reconnected" => \A i \in 1..Len(s) : s[i].era < x.era,
           x.kind = "AuthOk" => s = <<>>
    PROVE  Ordered(Append(s, x))
<1> DEFINE t == Append(s, x)
<1>1. Len(t) = Len(s) + 1 /\ t[Len(s) + 1] = x /\ \A i \in 1..Len(s) : t[i] = s[i]
  OBVIOUS
<1>2. Len(s) \in Nat
  OBVIOUS
<1> SUFFICES ASSUME NEW i \in 1..Len(t), NEW j \in 1..Len(t), i < j
             PROVE  /\ t[i].era <= t[j].era
                    /\ t[j].kind = "Reconnected" => t[i].era < t[j].era
                    /\ t[j].kind # "AuthOk" /\ t[i].kind # "Disconnected"
  BY DEF Ordered
<1> HIDE DEF t
<1>3. i \in 1..Len(s) /\ t[i] = s[i]
  BY <1>1, <1>2
<1>4. CASE j \in 1..Len(s)
  BY <1>1, <1>3, <1>4 DEF Ordered
<1>5. CASE j = Len(s) + 1
  <2>1. s # <<>>
    BY <1>3
  <2> QED
    BY <1>1, <1>3, <1>5, <2>1
<1> QED
  BY <1>1, <1>2, <1>4, <1>5

(* Taking the first event keeps the order.                                  *)
LEMMA TailOrdered ==
    ASSUME NEW s \in Seq(Event), s # <<>>, Ordered(s)
    PROVE  Ordered(Tail(s))
<1>1. Len(s) \in Nat /\ Len(Tail(s)) = Len(s) - 1 /\ \A i \in 1..(Len(s) - 1) : Tail(s)[i] = s[i + 1]
  OBVIOUS
<1> SUFFICES ASSUME NEW i \in 1..(Len(s) - 1), NEW j \in 1..(Len(s) - 1), i < j
             PROVE  /\ s[i + 1].era <= s[j + 1].era
                    /\ s[j + 1].kind = "Reconnected" => s[i + 1].era < s[j + 1].era
                    /\ s[j + 1].kind # "AuthOk" /\ s[i + 1].kind # "Disconnected"
  BY <1>1 DEF Ordered
<1>2. i + 1 \in 1..Len(s) /\ j + 1 \in 1..Len(s) /\ i + 1 < j + 1
  BY <1>1
<1> QED
  BY <1>2 DEF Ordered

(* An announcement by somebody who is still alive.                          *)
LEMMA EmitKeeps ==
    ASSUME Typed, EventInv, NEW e \in 0..MaxEra, e >= Heard,
           NEW k \in {"AuthOk", "Handover", "Reconnecting", "Reconnected", "Disconnected"}, Emit(k, e),
           ~(pc = "gone" /\ reader = "off"), k = "Reconnected" => e > Heard, k = "AuthOk" => events = <<>>
    PROVE  /\ Ordered(events')
           /\ \A i \in 1..Len(events') :
                events'[i].era <= e /\ (events'[i].kind = "Disconnected" => k = "Disconnected")
<1> DEFINE x == [kind |-> k, era |-> e]
<1>1. x \in Event /\ events \in Seq(Event) /\ Len(events) \in Nat
  BY DEF Typed, Event
<1>2. \A i \in 1..Len(events) : events[i] \in Event
  BY <1>1
<1>3. Heard \in Int
  BY DEF Heard, Typed
<1>4. \A i \in 1..Len(events) : events[i].era <= e /\ events[i].kind # "Disconnected"
  BY <1>2, <1>3 DEF EventInv, Event
<1>5. k = "Reconnected" => \A i \in 1..Len(events) : events[i].era < e
  BY <1>2, <1>3 DEF EventInv, Event
<1>6. CASE dropped
  BY <1>4, <1>6 DEF Emit, EventInv
<1>7. CASE ~dropped
  <2>1. events' = Append(events, x)
    BY <1>7 DEF Emit
  <2>2. Ordered(events')
    BY <1>1, <1>4, <1>5, <2>1, AppendOrdered DEF EventInv
  <2>3. Len(events') = Len(events) + 1 /\ events'[Len(events) + 1] = x
        /\ \A i \in 1..Len(events) : events'[i] = events[i]
    BY <1>1, <2>1
  <2> QED
    BY <1>1, <1>4, <2>2, <2>3
<1> QED
  BY <1>6, <1>7

(* Every step keeps the order of the events.                                *)
LEMMA EventStep ==
    ASSUME Typed, EventInv, [Next]_vars
    PROVE  EventInv'
<1> USE DEF Heard
<1>0. era \in Int /\ \A i \in 1..Len(events) : events[i].era \in Int
  <2>1. \A i \in 1..Len(events) : events[i] \in Event
    BY DEF Typed
  <2> QED
    BY <2>1 DEF Typed, Event
<1>1. CASE UNCHANGED <<pc, era, reader, s2c, events>>
  BY <1>1 DEF EventInv, Ordered
<1>2. ASSUME UNCHANGED <<era, s2c>>, pc = "run", reader' = "off" \/ pc' # "connect",
             events' = events, pc' # "drain"
      PROVE  EventInv'
  BY <1>2 DEF EventInv, Ordered
<1>3. ASSUME pc = "run", ClientGone \/ LinkDropped PROVE EventInv'
  <2>1. UNCHANGED <<era, s2c>> /\ pc' \in {"gone", "backoff"}
    BY <1>3 DEF ClientGone, LinkDropped, Announce
  <2>2. CASE events' = events
    BY <1>2, <1>3, <2>1, <2>2
  <2>3. CASE Emit("Reconnecting", era)
    <3>1. /\ Ordered(events')
          /\ \A i \in 1..Len(events') : events'[i].era <= era /\ events'[i].kind # "Disconnected"
      BY <1>3, <2>3, EmitKeeps DEF Typed
    <3> QED
      BY <2>1, <3>1 DEF EventInv
  <2> QED
    BY <1>3, <2>2, <2>3 DEF ClientGone, LinkDropped, Announce
<1>4. CASE Connect
  <2>1. era = 0 /\ events = <<>> /\ 1 \in 0..MaxEra
    BY <1>4, BoundsAssumption DEF Connect, Typed, EraInv
  <2>2. /\ Ordered(events')
        /\ \A i \in 1..Len(events') : events'[i].era <= 1 /\ events'[i].kind # "Disconnected"
    BY <1>4, <2>1, EmitKeeps DEF Connect
  <2> QED
    BY <1>4, <2>2 DEF Connect, RunConnection, EventInv
<1>5. CASE ConnectFails
  BY <1>5 DEF ConnectFails, connVars, EventInv, Typed, EraInv
<1>6. CASE BackoffEnds
  BY <1>6 DEF BackoffEnds, connVars, EventInv
<1>7. CASE ReconnectOk
  BY <1>0, <1>7 DEF ReconnectOk, EventInv
<1>8. CASE ReconnectFails
  <2>1. UNCHANGED <<era, s2c, reader>> /\ pc = "connect" /\ pc' \in {"gone", "backoff"}
    BY <1>8 DEF ReconnectFails, Announce, connVars
  <2>2. CASE events' = events
    BY <2>1, <2>2 DEF EventInv
  <2>3. CASE Emit("Reconnecting", era)
    <3>1. /\ Ordered(events')
          /\ \A i \in 1..Len(events') : events'[i].era <= era /\ events'[i].kind # "Disconnected"
      BY <2>1, <2>3, EmitKeeps DEF Typed
    <3> QED
      BY <2>1, <3>1 DEF EventInv
  <2> QED
    BY <1>8, <2>2, <2>3 DEF ReconnectFails, Announce
<1>9. CASE ReconnectRejected
  <2>1. UNCHANGED <<era, s2c, reader>> /\ pc = "connect" /\ pc' = "gone" /\ reader = "off"
    BY <1>9 DEF ReconnectRejected, connVars, EventInv
  <2>2. Ordered(events') /\ \A i \in 1..Len(events') : events'[i].era <= era
    BY <1>9, <2>1, EmitKeeps DEF ReconnectRejected, Typed
  <2> QED
    BY <2>1, <2>2 DEF EventInv
<1>10. CASE Drain
  <2>1. UNCHANGED <<era, s2c>> /\ pc = "drain" /\ pc' = "run"
    BY <1>10 DEF Drain, RunConnection
  <2>2. /\ Ordered(events')
        /\ \A i \in 1..Len(events') : events'[i].era <= era /\ events'[i].kind # "Disconnected"
    BY <1>10, <2>1, EmitKeeps DEF Drain, Typed
  <2> QED
    BY <2>1, <2>2 DEF EventInv
<1>11. CASE ReaderForwards
  <2>1. s2c # <<>> /\ Head(s2c) = era /\ era \in 0..MaxEra /\ s2c' = Tail(s2c) /\ reader # "off"
    BY <1>11 DEF ReaderForwards, EventInv, Typed
  <2>2. UNCHANGED <<pc, era>> /\ pc \notin {"connect", "drain"}
    BY <1>11 DEF ReaderForwards, EventInv, supVars
  <2>3. /\ Ordered(events')
        /\ \A i \in 1..Len(events') : events'[i].era <= era /\ events'[i].kind # "Disconnected"
    BY <1>11, <2>1, <2>2, EmitKeeps DEF ReaderForwards
  <2>4. \A i \in 1..Len(s2c') : s2c'[i] = era
    <3>1. s2c \in Seq(Eras) /\ \A i \in 1..Len(s2c) : s2c[i] = era
      BY Zenon DEF EventInv, Typed
    <3>2. \A i \in 1..Len(s2c') : i + 1 \in 1..Len(s2c) /\ s2c'[i] = s2c[i + 1]
      BY <2>1, <3>1
    <3> QED
      BY <3>1, <3>2, Zenon
  <2> QED
    BY <2>2, <2>3, <2>4 DEF EventInv
<1>12. CASE ReaderEnds \/ ReaderAborted
  BY <1>12 DEF ReaderEnds, ReaderAborted, supVars, EventInv
<1>13. CASE NextEvent
  <2>1. events # <<>> /\ events' = Tail(events) /\ UNCHANGED <<pc, era, reader, s2c>> /\ events \in Seq(Event)
    BY <1>13 DEF NextEvent, supVars, connVars, Typed
  <2>2. Ordered(events')
    BY <2>1, TailOrdered DEF EventInv
  <2>3. \A i \in 1..Len(events') : i + 1 \in 1..Len(events) /\ events'[i] = events[i + 1]
    BY <2>1
  <2> QED
    BY <2>1, <2>2, <2>3 DEF EventInv
<1>14. CASE AppDrops
  BY <1>14 DEF AppDrops, supVars, connVars, EventInv, Ordered
<1>15. CASE RouterHandsOver
  <2>1. UNCHANGED <<pc, era, reader, events>> /\ s2c' = Append(s2c, era) /\ s2c \in Seq(Eras)
    BY <1>15 DEF RouterHandsOver, supVars, Typed
  <2>2. \A i \in 1..Len(s2c') : s2c'[i] = era
    BY <2>1 DEF EventInv
  <2> QED
    BY <2>1, <2>2 DEF EventInv
<1> QED
  BY <1>1, <1>3, <1>4, <1>5, <1>6, <1>7, <1>8, <1>9, <1>10, <1>11, <1>12, <1>13, <1>14, <1>15, Zenon
     DEF Next, Supervisor, ReaderReturned, SenderSeesClosed, SenderTakes, SenderWrites, SenderFails, StableUptime,
         AppQuote, ServeQuotes, QuoteTick, QuoterStops, QuoterAborted, RouterReads, LinkBreaks, Ended,
         supVars, connVars, appVars, vars

-----------------------------------------------------------------------------
(* The quotes.                                                              *)

(* The quotes of s were posted during connection e.                         *)
PostedIn(s, e) == \A i \in 1..Len(s) : s[i].era = e

(* While a connection runs, all that waits for the sender was posted during *)
(* it; otherwise nothing is being written. The application has not heard of *)
(* a connection that is not announced yet, and no quote says otherwise.     *)
QuoteInv ==
    /\ \A e \in Eras : PostedIn(c2s[e], e) /\ PostedIn(reg[e], e)
    /\ pc = "run" => PostedIn(out, era) /\ PostedIn(inflight, era)
    /\ pc # "run" => inflight = <<>>
    /\ seen <= Heard
    /\ \A i \in 1..Len(out) : out[i].seen <= Heard

(* Every step keeps quotes with their connection.                           *)
LEMMA QuoteStep ==
    ASSUME Typed, EventInv, QuoteInv, [Next]_vars
    PROVE  QuoteInv'
<1> USE DEF Heard, PostedIn
<1>0. era \in Int /\ seen \in Int /\ \A i \in 1..Len(out) : out[i].seen \in Int
  <2>1. \A i \in 1..Len(out) : out[i] \in Quote
    BY DEF Typed
  <2> QED
    BY <2>1 DEF Typed, Quote
<1>1. CASE UNCHANGED <<pc, era, seen, out, inflight, c2s, reg>>
  BY <1>1 DEF QuoteInv
<1>2. ASSUME pc = "run", ClientGone \/ LinkDropped PROVE QuoteInv'
  <2>1. UNCHANGED <<era, seen, c2s, reg>> /\ pc' \in {"gone", "backoff"} /\ inflight' = <<>>
    BY <1>2 DEF ClientGone, LinkDropped, Announce, EndConnection, appVars
  <2>2. out' = out \/ out' = <<>>
    BY <1>2 DEF ClientGone, LinkDropped, Announce
  <2> QED
    BY <1>2, <2>1, <2>2 DEF QuoteInv
<1>3. CASE Connect
  <2>1. era = 0 /\ out = <<>> /\ UNCHANGED <<out, seen, c2s, reg>> /\ inflight' = <<>> /\ pc' = "run" /\ era' = 1
    BY <1>3 DEF Connect, RunConnection, appVars, Typed, EraInv
  <2> QED
    BY <1>0, <1>3, <2>1 DEF QuoteInv, Connect
<1>4. CASE ConnectFails \/ BackoffEnds
  BY <1>4 DEF ConnectFails, BackoffEnds, connVars, appVars, QuoteInv
<1>5. CASE SenderTakes
  <2>1. UNCHANGED <<pc, era, seen, c2s, reg>> /\ inflight' = <<Head(out)>> /\ out' = Tail(out) /\ out # <<>>
        /\ out \in Seq(Quote) /\ pc = "run"
    BY <1>5 DEF SenderTakes, supVars, appVars, Typed
  <2>2. Len(inflight') = 1 /\ inflight'[1] = out[1] /\ 1 \in 1..Len(out)
    BY <2>1
  <2>3. \A i \in 1..Len(out') : i + 1 \in 1..Len(out) /\ out'[i] = out[i + 1]
    BY <2>1
  <2> QED
    BY <2>1, <2>2, <2>3 DEF QuoteInv
<1>6. CASE SenderWrites
  <2>1. UNCHANGED <<pc, era, seen, out, reg>> /\ inflight' = <<>> /\ pc = "run" /\ era \in Eras
        /\ c2s \in [Eras -> Seq(Quote)] /\ inflight \in Seq(Quote)
    BY <1>6 DEF SenderWrites, supVars, appVars, Typed, EraInv
  <2>2. c2s' = c2s \/ c2s' = [c2s EXCEPT ![era] = c2s[era] \o inflight]
    BY <1>6 DEF SenderWrites
  <2>3. PostedIn(c2s[era] \o inflight, era)
    BY <2>1 DEF QuoteInv
  <2>4. \A e \in Eras : PostedIn(c2s'[e], e)
    BY <2>1, <2>2, <2>3, Zenon DEF QuoteInv
  <2> QED
    BY <2>1, <2>4 DEF QuoteInv
<1>7. CASE ReconnectOk
  BY <1>0, <1>7 DEF ReconnectOk, appVars, QuoteInv
<1>8. CASE ReconnectFails \/ ReconnectRejected
  <2>1. UNCHANGED <<era, seen, inflight, c2s, reg>> /\ pc = "connect" /\ pc' \in {"gone", "backoff"}
    BY <1>8 DEF ReconnectFails, Announce, ReconnectRejected, connVars, appVars
  <2>2. out' = out \/ out' = <<>>
    BY <1>8 DEF ReconnectFails, Announce, ReconnectRejected
  <2> QED
    BY <2>1, <2>2 DEF QuoteInv
<1>9. CASE Drain
  BY <1>0, <1>9 DEF Drain, RunConnection, appVars, QuoteInv
<1>10. CASE AppQuote \/ QuoteTick
  <2>1. UNCHANGED <<pc, era, seen, inflight, c2s, reg>> /\ out' = Append(out, [era |-> era, seen |-> seen])
        /\ out \in Seq(Quote)
    BY <1>10 DEF AppQuote, QuoteTick, Enqueue, supVars, connVars, appVars, Typed
  <2>2. Len(out') = Len(out) + 1 /\ out'[Len(out) + 1] = [era |-> era, seen |-> seen]
        /\ \A i \in 1..Len(out) : out'[i] = out[i]
    BY <2>1
  <2>3. \A i \in 1..Len(out') : i \in 1..Len(out) \/ i = Len(out) + 1
    BY <2>1, <2>2
  <2> QED
    BY <2>1, <2>2, <2>3 DEF QuoteInv
<1>11. CASE NextEvent
  <2>1. UNCHANGED <<pc, era, out, inflight, c2s, reg>> /\ 1 \in 1..Len(events) /\ Head(events) = events[1]
    BY <1>11 DEF NextEvent, supVars, connVars, Typed
  <2>2. seen' \in {seen, events[1].era}
    BY <1>11, <2>1 DEF NextEvent
  <2> QED
    BY <2>1, <2>2 DEF QuoteInv, EventInv
<1>12. ASSUME NEW f \in Eras, RouterReads(f) PROVE QuoteInv'
  <2>1. UNCHANGED <<pc, era, seen, out, inflight>> /\ c2s[f] # <<>> /\ c2s[f] \in Seq(Quote)
        /\ c2s' = [c2s EXCEPT ![f] = Tail(c2s[f])] /\ reg' = [reg EXCEPT ![f] = <<Head(c2s[f])>>]
    BY <1>12 DEF RouterReads, supVars, connVars, appVars, Typed
  <2>2. PostedIn(Tail(c2s[f]), f) /\ PostedIn(<<Head(c2s[f])>>, f)
    BY <2>1 DEF QuoteInv
  <2>3. \A e \in Eras : PostedIn(c2s'[e], e) /\ PostedIn(reg'[e], e)
    BY <2>1, <2>2, Zenon DEF QuoteInv, Typed
  <2> QED
    BY <2>1, <2>3 DEF QuoteInv
<1> QED
  BY <1>1, <1>2, <1>3, <1>4, <1>5, <1>6, <1>7, <1>8, <1>9, <1>10, <1>11, <1>12, Zenon
     DEF Next, Supervisor, ReaderReturned, SenderSeesClosed, SenderFails, StableUptime, ReaderForwards, ReaderEnds,
         ReaderAborted, AppDrops, ServeQuotes, QuoterStops, QuoterAborted, RouterHandsOver, LinkBreaks, Ended,
         supVars, connVars, appVars, vars

-----------------------------------------------------------------------------
(* The backoff.                                                             *)

(* The delays slept since a connection last stayed up, what the counters of  *)
(* supervise are after so many, and the exception: a connection that has    *)
(* stayed up leaves the counters of the last outage until it drops.         *)
Slept == IF pc = "backoff" THEN tries - 1 ELSE tries
Counted == attempt \in 0..MaxAttempt /\ level \in 0..MaxLevel /\ tries \in 0..MaxAttempt
InStep == attempt = tries /\ level = IF Slept < MaxLevel THEN Slept ELSE MaxLevel
DelayInv == Counted /\ (stable \/ InStep) /\ (stable => pc = "gone" \/ (pc = "run" /\ tries = 0))

(* An announced attempt keeps the delay in step, from a connection that     *)
(* lasted (nothing counted, the shortest delay) as from one that did not.   *)
LEMMA AnnounceStep ==
    ASSUME Counted, NEW from \in 0..MaxAttempt, Announce(from), from = tries, pc # "backoff",
           level' = IF tries < MaxLevel THEN tries ELSE MaxLevel
    PROVE  Counted' /\ InStep'
BY BoundsAssumption DEF Counted, InStep, Slept, Announce, Another

(* Every step keeps the delay in step with the attempts.                    *)
LEMMA DelayStep ==
    ASSUME DelayInv, [Next]_vars
    PROVE  DelayInv'
<1>1. CASE UNCHANGED <<pc, attempt, level, tries, stable>>
  BY <1>1 DEF DelayInv, Counted, InStep, Slept
<1>2. ASSUME pc = "run", LinkDropped PROVE DelayInv'
  <2>1. CASE dropped
    <3>1. pc' = "gone" /\ tries' = tries /\ stable' = FALSE
      BY <1>2, <2>1, Zenon DEF LinkDropped
    <3>2. CASE stable
      <4>1. attempt' = 0 /\ level' = 0
        BY <1>2, <2>1, <3>2, Zenon DEF LinkDropped
      <4>2. tries = 0
        BY <1>2, <3>2, Zenon DEF DelayInv
      <4>3. Counted' /\ InStep'
        BY <3>1, <4>1, <4>2, BoundsAssumption DEF Counted, InStep, Slept
      <4> QED
        BY <3>1, <4>3, Zenon DEF DelayInv
    <3>3. CASE ~stable
      <4>1. attempt' = attempt /\ level' = level
        BY <1>2, <2>1, <3>3, Zenon DEF LinkDropped
      <4>2. Counted /\ InStep
        BY <3>3, Zenon DEF DelayInv
      <4>3. Counted' /\ InStep'
        BY <1>2, <3>1, <4>1, <4>2 DEF Counted, InStep, Slept
      <4> QED
        BY <3>1, <4>3, Zenon DEF DelayInv
    <3> QED
      BY <3>2, <3>3
  <2>2. CASE ~dropped
    <3>1. stable' = FALSE
      BY <1>2, Zenon DEF LinkDropped
    <3>2. CASE stable
      <4>1. Announce(0) /\ level' = 0
        BY <1>2, <2>2, <3>2, Zenon DEF LinkDropped
      <4>2. Counted /\ tries = 0
        BY <1>2, <3>2, Zenon DEF DelayInv
      <4>3. 0 \in 0..MaxAttempt /\ level' = IF tries < MaxLevel THEN tries ELSE MaxLevel
        BY <4>1, <4>2, BoundsAssumption
      <4>4. Counted' /\ InStep'
        BY <1>2, <4>1, <4>2, <4>3, AnnounceStep
      <4> QED
        BY <3>1, <4>4, Zenon DEF DelayInv
    <3>3. CASE ~stable
      <4>1. Announce(attempt) /\ level' = level
        BY <1>2, <2>2, <3>3, Zenon DEF LinkDropped
      <4>2. Counted /\ InStep
        BY <3>3, Zenon DEF DelayInv
      <4>3. attempt = tries /\ level' = IF tries < MaxLevel THEN tries ELSE MaxLevel
        BY <1>2, <4>1, <4>2 DEF InStep, Slept
      <4>4. Counted' /\ InStep'
        BY <1>2, <4>1, <4>2, <4>3, AnnounceStep DEF Counted
      <4> QED
        BY <3>1, <4>4, Zenon DEF DelayInv
    <3> QED
      BY <3>2, <3>3
  <2> QED
    BY <2>1, <2>2
<1>3. ASSUME pc = "run", ClientGone PROVE DelayInv'
  <2>1. pc' = "gone" /\ UNCHANGED <<attempt, level, tries, stable>>
    BY <1>3, Zenon DEF ClientGone
  <2> QED
    BY <1>3, <2>1 DEF DelayInv, Counted, InStep, Slept
<1>4. CASE Connect \/ ConnectFails \/ ReconnectOk \/ ReconnectRejected \/ Drain
  <2>1. pc \in {"dial", "connect", "drain"} /\ pc' # "backoff" /\ UNCHANGED <<attempt, level, tries>>
    BY <1>4 DEF Connect, ConnectFails, ReconnectOk, ReconnectRejected, Drain, RunConnection
  <2>2. stable' = FALSE \/ stable' = stable
    BY <1>4, Zenon DEF Connect, ConnectFails, ReconnectOk, ReconnectRejected, Drain, RunConnection
  <2>3. ~stable
    BY <2>1 DEF DelayInv
  <2>4. ~stable'
    BY <2>2, <2>3, Zenon
  <2>5. Counted /\ InStep
    BY <2>3, Zenon DEF DelayInv
  <2>6. Counted' /\ InStep'
    BY <2>1, <2>5 DEF Counted, InStep, Slept
  <2> QED
    BY <2>4, <2>6, Zenon DEF DelayInv
<1>5. CASE BackoffEnds
  <2>1. pc = "backoff" /\ pc' = "connect" /\ UNCHANGED <<attempt, tries>> /\ stable' = stable
    BY <1>5, Zenon DEF BackoffEnds
  <2>2. ~stable
    BY <2>1 DEF DelayInv
  <2>3. Counted /\ InStep
    BY <2>2, Zenon DEF DelayInv
  <2>4. level' = IF level < MaxLevel THEN level + 1 ELSE level
    BY <1>5 DEF BackoffEnds
  <2>5. Counted' /\ InStep'
    BY <2>1, <2>3, <2>4, BoundsAssumption DEF Counted, InStep, Slept
  <2> QED
    BY <2>1, <2>2, <2>5, Zenon DEF DelayInv
<1>6. CASE ReconnectFails
  <2>1. pc = "connect" /\ level' = level /\ stable' = stable
    BY <1>6, Zenon DEF ReconnectFails
  <2>2. ~stable
    BY <2>1 DEF DelayInv
  <2>3. Counted /\ InStep
    BY <2>2, Zenon DEF DelayInv
  <2>4. Counted' /\ InStep'
    <3>1. CASE dropped
      <4>1. pc' = "gone" /\ UNCHANGED <<attempt, tries>>
        BY <1>6, <3>1, Zenon DEF ReconnectFails
      <4> QED
        BY <2>1, <2>3, <4>1 DEF Counted, InStep, Slept
    <3>2. CASE ~dropped
      <4>1. Announce(attempt)
        BY <1>6, <3>2, Zenon DEF ReconnectFails
      <4>2. attempt \in 0..MaxAttempt /\ attempt = tries /\ level' = IF tries < MaxLevel THEN tries ELSE MaxLevel
        BY <2>1, <2>3 DEF Counted, InStep, Slept
      <4> QED
        BY <2>1, <2>3, <4>1, <4>2, AnnounceStep
    <3> QED
      BY <3>1, <3>2
  <2> QED
    BY <2>1, <2>2, <2>4, Zenon DEF DelayInv
<1>7. CASE StableUptime
  <2>1. pc = "run" /\ stable' = TRUE /\ tries' = 0 /\ UNCHANGED <<pc, attempt, level>>
    BY <1>7, Zenon DEF StableUptime
  <2>2. Counted'
    BY <2>1, BoundsAssumption DEF DelayInv, Counted
  <2> QED
    BY <2>1, <2>2, Zenon DEF DelayInv
<1> QED
  BY <1>1, <1>2, <1>3, <1>4, <1>5, <1>6, <1>7, Zenon
     DEF Next, Supervisor, ReaderReturned, SenderSeesClosed, SenderTakes, SenderWrites, SenderFails,
         ReaderForwards, ReaderEnds, ReaderAborted, AppQuote, NextEvent, AppDrops, ServeQuotes, QuoteTick,
         QuoterStops, QuoterAborted, RouterReads, RouterHandsOver, LinkBreaks, Ended, supVars, vars

-----------------------------------------------------------------------------
(* The theorems.                                                            *)

(* All of it together is inductive.                                         *)
ClientInv == Flags /\ Typed /\ EventInv /\ QuoteInv /\ DelayInv

(* The invariant holds of every state of every run of the client.           *)
LEMMA ClientInvariant == Spec => []ClientInv
<1>1. Init => ClientInv
  <2> SUFFICES ASSUME Init PROVE ClientInv
    OBVIOUS
  <2>1. Flags /\ Typed
    BY TypeInit
  <2>2. EventInv
    BY DEF Init, EventInv, Ordered, Heard
  <2>3. QuoteInv
    BY DEF Init, QuoteInv, PostedIn, Heard
  <2>4. DelayInv
    BY BoundsAssumption DEF Init, DelayInv, Counted, InStep, Slept
  <2> QED
    BY <2>1, <2>2, <2>3, <2>4 DEF ClientInv
<1>2. ClientInv /\ [Next]_vars => ClientInv'
  BY FlagStep, TypeStep, EventStep, QuoteStep, DelayStep DEF ClientInv
<1> QED
  BY <1>1, <1>2, PTL DEF Spec

(* The events of supervise and reader_loop reach the application in the      *)
(* documented order however the aborted reader, the supervisor and          *)
(* next_event interleave.                                                   *)
THEOREM EventsInOrder == Spec => []EventOrder
<1>1. ClientInv => EventOrder
  BY DEF ClientInv, EventInv, Ordered, EventOrder
<1> QED
  BY <1>1, ClientInvariant, PTL

(* No quote crosses from one connection to another, and supervise's drain    *)
(* discards none that answers its own Reconnected.                          *)
THEOREM QuotesStayOnLink == Spec => []NoStaleQuoteOnLink
<1>1. ClientInv => NoStaleQuoteOnLink
  <2> SUFFICES ASSUME ClientInv PROVE NoStaleQuoteOnLink
    OBVIOUS
  <2>1. ASSUME NEW e \in Eras, NEW q \in ToSet(c2s[e]) \cup ToSet(reg[e]) PROVE q.era = e
    <3>1. c2s[e] \in Seq(Quote) /\ reg[e] \in Seq(Quote) /\ PostedIn(c2s[e], e) /\ PostedIn(reg[e], e)
      BY DEF ClientInv, Typed, QuoteInv
    <3> QED
      BY <2>1, <3>1 DEF ToSet, PostedIn
  <2>2. ASSUME pc = "drain", NEW q \in ToSet(out) PROVE q.seen < era
    <3>1. out \in Seq(Quote) /\ era \in Int /\ \A i \in 1..Len(out) : out[i].seen <= era - 1
      <4>1. Typed /\ QuoteInv
        BY DEF ClientInv
      <4>2. out \in Seq(Quote) /\ era \in Int
        BY <4>1 DEF Typed
      <4> QED
        BY <2>2, <4>1, <4>2 DEF QuoteInv, Heard
    <3>2. PICK i \in 1..Len(out) : q = out[i]
      BY <2>2, <3>1 DEF ToSet
    <3>3. out[i] \in Quote
      BY <3>1
    <3> QED
      BY <3>1, <3>2, <3>3 DEF Quote
  <2> QED
    BY <2>1, <2>2 DEF NoStaleQuoteOnLink
<1> QED
  BY <1>1, ClientInvariant, PTL

(* The delay and the attempt number of supervise are those the reconnects    *)
(* since a connection last stayed up call for, counted by a history that    *)
(* only such a connection resets, whatever drops and dials came in between. *)
THEOREM DelayFollowsAttempts == Spec => []BackoffFollowsAttempts
<1>1. ClientInv => BackoffFollowsAttempts
  <2> SUFFICES ASSUME ClientInv PROVE BackoffFollowsAttempts
    OBVIOUS
  <2>1. TypeOK
    BY DEF ClientInv, Flags, Typed, DelayInv, Counted, TypeOK
  <2>2. ~stable => InStep
    BY Zenon DEF ClientInv, DelayInv
  <2> QED
    BY <2>1, <2>2 DEF InStep, Slept, BackoffFollowsAttempts
<1> QED
  BY <1>1, ClientInvariant, PTL

=============================================================================
